------------------------------- MODULE UIAuth -------------------------------
(***************************************************************************)
(* Who may use `lytecache ui`: the account in ui.yaml (ui/config.go), the  *)
(* login form with its rate limit (ui/auth_handlers.go, ui/ratelimit.go),  *)
(* signed session cookies (ui/session.go), the middleware that admits a    *)
(* request (ui/auth.go), the password page, the commands `ui passwd` and   *)
(* `ui reset-password` (cmd_ui.go), which write ui.yaml while the server   *)
(* runs, and restarts of the server.                                       *)
(*                                                                         *)
(* A password hash is the password it was made from and a signature the    *)
(* secret it was made with. Every cookie ever issued may be presented      *)
(* again, by a second tab as well as by the one it was meant for. All      *)
(* requests come from one address: addresses do not affect each other.     *)
(***************************************************************************)
EXTENDS Integers, FiniteSets

CONSTANTS
    Clients,        \* requests served at the same time
    Passwords,      \* passwords of eight characters or more
    Default,        \* DefaultPassword, which is shorter
    Idle,           \* the idle timeout of a session
    Lifetime,       \* its absolute lifetime
    Free,           \* failuresBeforeBackoff
    Width,          \* the shift at which one second << shift overflows
    MaxBackoff,     \* maxBackoff
    Stale,          \* staleAttemptTTL
    Mixes,          \* the kinds of requests that are combined
    MaxTime,        \* bound: mix |-> the clock, in seconds
    MaxSessions,    \* bound: logins that succeed
    MaxFailures,    \* bound: logins that fail in a row
    MaxStarts,      \* bound: starts of the server
    MaxCommands     \* bound: runs of the two commands

NoOne == "no one"
NoPassword == "none"

ASSUME UIAuthAssumption ==
    /\ IsFiniteSet(Clients) /\ NoOne \notin Clients
    /\ Default \notin Passwords /\ NoPassword \notin Passwords \cup {Default}
    /\ Idle \in Nat /\ Lifetime \in Nat /\ Free \in Nat /\ Width \in Nat /\ Stale \in Nat
    /\ MaxBackoff \in Nat \ {0}
    /\ MaxTime \in [Mixes -> Nat] /\ MaxSessions \in Nat /\ MaxFailures \in Nat /\ MaxStarts \in Nat
    /\ MaxCommands \in Nat

VARIABLES
    disk,           \* ui.yaml: a configuration, Missing, or Empty while it is written
    server,         \* the server's state and the configuration it holds
    exposed,        \* it is bound to an address that is not a loopback one
    authMu,         \* who holds the mutex of the configuration, or NoOne
    cookies,        \* the session cookies issued
    revoked,        \* session |-> its ExpiresAt if it is revoked, Never otherwise
    attempts,       \* the record of the rate limiter
    req,            \* client |-> the request it makes
    cli,            \* the run of a command
    clock, sessions, starts, commands, boots, mix,
    born,           \* history: session |-> when it was issued
    used,           \* history: session |-> when it last was admitted
    ended,          \* history: sessions logged out since the server started
    burst,          \* history: failures after the free ones, within this second
    unsaved,        \* history: the server does not hold what was written last
    crossed         \* history: ui.yaml was read or left half written, or made twice

files == <<disk, boots>>
limiter == <<attempts, burst>>
login == <<cookies, sessions, born, used>>
vars == <<files, server, exposed, authMu, login, revoked, limiter, req, cli, clock, starts, commands,
          mix, ended, unsaved, crossed>>

Never == -1
Missing == [hash |-> NoPassword, secret |-> -1]
Empty == [hash |-> NoPassword, secret |-> 0]
Ids == 1 .. MaxSessions
NoAttempts == [count |-> 0, lockUntil |-> 0, last |-> 0]
NoCookie == [id |-> 0, secret |-> 0, exp |-> 0, seen |-> 0]
NoRequest == [pc |-> "idle", cookie |-> NoCookie, new |-> NoPassword, data |-> Missing]
Config(s) == [hash |-> s.hash, secret |-> s.secret]
Up == server.pc = "up"

\* A hash that cannot be decoded, such as that of an empty file, matches nothing.
VerifyPassword(pw, hash) == hash # NoPassword /\ pw = hash
IsDefaultPassword(c) == VerifyPassword(Default, c.hash)

Init ==
    /\ disk \in {Missing} \cup [hash : Passwords \cup {Default}, secret : {1}]
    /\ boots = IF disk = Missing THEN 0 ELSE 1
    /\ server = [pc |-> "down", hash |-> NoPassword, secret |-> 0]
    /\ exposed \in BOOLEAN
    /\ mix \in Mixes
    /\ authMu = NoOne /\ cookies = {} /\ revoked = [i \in Ids |-> Never] /\ attempts = NoAttempts
    /\ req = [c \in Clients |-> NoRequest]
    /\ cli = [pc |-> "idle", hash |-> NoPassword, secret |-> 0]
    /\ clock = 0 /\ sessions = 0 /\ starts = 0 /\ commands = 0
    /\ born = [i \in Ids |-> 0] /\ used = [i \in Ids |-> 0] /\ ended = {}
    /\ burst = 0 /\ unsaved = FALSE /\ crossed = FALSE

Tick ==
    /\ clock < MaxTime[mix]
    /\ clock' = clock + 1 /\ burst' = 0
    /\ UNCHANGED <<files, server, exposed, authMu, login, revoked, attempts, req, cli, starts, commands,
                   mix, ended, unsaved, crossed>>

-----------------------------------------------------------------------------
(* Starting and stopping the server.                                       *)

\* A new account has the default password, unless the environment names another
\* one, and a new secret.
Bootstrap == [hash : Passwords \cup {Default}, secret : {boots + 1}]

\* LoadOrCreateAuthConfig, for the server and for the commands.
Loaded(c) ==
    IF disk # Missing THEN c = disk /\ UNCHANGED boots
    ELSE /\ c \in Bootstrap
         /\ boots' = boots + 1

\* CheckStartupGuardrails, for a server that was given a certificate, or told to
\* do without, and a token for the metrics.
Refused(c) == exposed /\ IsDefaultPassword(c)

Started(c) ==
    server' = IF Refused(c) THEN [pc |-> "down", hash |-> NoPassword, secret |-> 0]
              ELSE [pc |-> "up", hash |-> c.hash, secret |-> c.secret]
StartRest == UNCHANGED <<exposed, authMu, login, revoked, limiter, req, cli, clock, commands, mix, ended>>

Start ==
    /\ server.pc = "down" /\ starts < MaxStarts
    /\ starts' = starts + 1
    /\ \E c \in [hash : Passwords \cup {Default, NoPassword}, secret : 0 .. 2] :
           /\ Loaded(c)
           /\ IF disk = Missing THEN server' = [pc |-> "boot", hash |-> c.hash, secret |-> c.secret]
              ELSE Started(c)
    /\ crossed' = (crossed \/ disk = Empty \/ boots' > 1)
    /\ unsaved' = FALSE
    /\ UNCHANGED disk /\ StartRest

\* SaveAuthConfig truncates the file, then writes it.
StartTruncate ==
    /\ server.pc = "boot"
    /\ server' = [server EXCEPT !.pc = "booting"]
    /\ disk' = Empty
    /\ crossed' = (crossed \/ disk # Missing)
    /\ UNCHANGED <<boots, starts, unsaved>> /\ StartRest
StartWrite ==
    /\ server.pc = "booting"
    /\ disk' = Config(server)
    /\ crossed' = (crossed \/ disk # Empty)
    /\ Started(Config(server))
    /\ UNCHANGED <<boots, starts, unsaved>> /\ StartRest

\* The process ends, in the middle of whatever it does. Revoked sessions and
\* the attempts are in its memory only.
Stop ==
    /\ server.pc # "down"
    /\ server' = [pc |-> "down", hash |-> NoPassword, secret |-> 0]
    /\ req' = [c \in Clients |-> NoRequest] /\ authMu' = NoOne
    /\ revoked' = [i \in Ids |-> Never] /\ ended' = {}
    /\ attempts' = NoAttempts /\ burst' = 0
    /\ crossed' = (crossed \/ server.pc = "booting" \/ \E c \in Clients : req[c].pc = "write")
    /\ UNCHANGED <<files, exposed, login, cli, clock, starts, commands, mix, unsaved>>

-----------------------------------------------------------------------------
(* Logging in.                                                             *)

Goto(c, l) == req' = [req EXCEPT ![c].pc = l]
Done(c) == req' = [req EXCEPT ![c] = NoRequest]
Request == UNCHANGED <<files, server, exposed, cli, clock, starts, commands, mix, unsaved, crossed>>

\* loginRateLimiter.allow.
Allowed == clock >= attempts.lockUntil

LoginBegin(c) ==
    /\ Up /\ "login" \in mix /\ req[c].pc = "idle" /\ Allowed
    /\ attempts.count < MaxFailures /\ sessions < MaxSessions
    /\ \E pw \in IF "mistake" \in mix THEN Passwords \cup {Default} ELSE {server.hash} :
           req' = [req EXCEPT ![c].pc = "login", ![c].new = pw]
    /\ UNCHANGED <<authMu, login, revoked, limiter, ended>> /\ Request

\* The configuration is looked up under the mutex and read after it is released:
\* the hash is the one before or after a change that is under way.
LoginVerify(c) ==
    /\ req[c].pc = "login" /\ authMu = NoOne
    /\ Goto(c, IF VerifyPassword(req[c].new, server.hash) THEN "valid" ELSE "invalid")
    /\ UNCHANGED <<authMu, login, revoked, limiter, ended>> /\ Request

\* The delay after n failures: one second, doubled each time; a product that
\* overflows is not positive, or above the maximum.
BackoffUnguarded(n) ==
    LET shift == n - Free - 1
        backoff == IF shift < Width THEN 2 ^ shift ELSE 0
    IN  IF backoff > MaxBackoff THEN MaxBackoff ELSE backoff
Backoff(n) ==
    LET shift == n - Free - 1
        backoff == IF shift < Width THEN 2 ^ shift ELSE 0
    IN  IF backoff > MaxBackoff \/ backoff <= 0 THEN MaxBackoff ELSE backoff

\* recordFailure, which first forgets a record without recent failures.
LoginFails(c) ==
    LET known == IF attempts.count > 0 /\ attempts.last < clock - Stale THEN NoAttempts ELSE attempts
        n == known.count + 1
    IN  /\ req[c].pc = "invalid"
        /\ attempts' = [count |-> n, last |-> clock,
                        lockUntil |-> IF n > Free THEN clock + Backoff(n) ELSE known.lockUntil]
        /\ burst' = IF n > Free THEN burst + 1 ELSE burst
        /\ Done(c)
        /\ UNCHANGED <<authMu, login, revoked, ended>> /\ Request

\* recordSuccess and sessionManager.issue.
LoginSucceeds(c) ==
    LET i == sessions + 1 IN
    /\ req[c].pc = "valid" /\ sessions < MaxSessions
    /\ attempts' = NoAttempts /\ burst' = 0
    /\ sessions' = i
    /\ cookies' = cookies \cup {[id |-> i, secret |-> server.secret, exp |-> clock + Lifetime, seen |-> clock]}
    /\ born' = [born EXCEPT ![i] = clock] /\ used' = [used EXCEPT ![i] = clock]
    /\ Done(c)
    /\ UNCHANGED <<authMu, revoked, ended>> /\ Request

-----------------------------------------------------------------------------
(* Requests with a session (authMiddleware).                               *)

\* sessionManager.verify: the signature, and the session's times by the clock as
\* it is now. Whether the session is revoked is looked up after that.
Verify(k) ==
    /\ k.secret = server.secret
    /\ clock <= k.exp /\ clock - k.seen <= Idle

Present(c) ==
    \E k \in cookies :
        /\ Up /\ mix \cap {"visit", "logout", "change"} # {} /\ req[c].pc = "idle"
        /\ Verify(k)
        /\ req' = [req EXCEPT ![c].pc = "check", ![c].cookie = k]
        /\ UNCHANGED <<authMu, login, revoked, limiter, ended>> /\ Request

\* The cookie is signed again with the time of this request.
Refreshed(k) == [k EXCEPT !.seen = clock]

\* The rest of verify, under the mutex of the revoked sessions; the cookie of a
\* session that is not revoked is refreshed.
Lookup(c) ==
    LET k == req[c].cookie IN
    /\ req[c].pc = "check"
    /\ \/ /\ revoked[k.id] = Never
          /\ cookies' = cookies \cup {Refreshed(k)}
          /\ used' = [used EXCEPT ![k.id] = clock]
          /\ Goto(c, "known")
       \/ revoked[k.id] # Never /\ Done(c) /\ UNCHANGED <<cookies, used>>
    /\ UNCHANGED <<sessions, born, authMu, revoked, limiter, ended>> /\ Request

\* forcedPasswordChangeRequired.
Forced == exposed /\ IsDefaultPassword(server)

\* A request that is to change something without the token of its session, or
\* any while the password must be changed first, does not reach its handler.
Admit(c) ==
    \E l \in mix \cap {"visit", "logout", "change"} :
        /\ req[c].pc = "known" /\ (exposed => authMu = NoOne)
        /\ \/ ~(Forced /\ l # "change") /\ Goto(c, l)
           \/ (Forced \/ l # "visit") /\ Done(c)
        /\ UNCHANGED <<authMu, login, revoked, limiter, ended>> /\ Request

Visit(c) ==
    /\ req[c].pc = "visit"
    /\ Done(c)
    /\ UNCHANGED <<authMu, login, revoked, limiter, ended>> /\ Request

\* sessionManager.revoke, which also drops the sessions that are over anyway.
RevokeDroppingEarly(k) ==
    LET all == [revoked EXCEPT ![k.id] = k.exp]
    IN  [i \in Ids |-> IF clock >= all[i] THEN Never ELSE all[i]]
Revoke(k) ==
    LET all == [revoked EXCEPT ![k.id] = k.exp]
    IN  [i \in Ids |-> IF clock > all[i] THEN Never ELSE all[i]]

Logout(c) ==
    /\ req[c].pc = "logout"
    /\ revoked' = Revoke(req[c].cookie)
    /\ ended' = ended \cup {req[c].cookie.id}
    /\ Done(c)
    /\ UNCHANGED <<authMu, login, limiter>> /\ Request

-----------------------------------------------------------------------------
(* Changing the password.                                                  *)

\* handleChangePasswordSubmit: a short one, or the current one, is refused.
ChangeBegin(c) ==
    /\ req[c].pc = "change" /\ authMu = NoOne
    /\ \E pw \in Passwords \cup {Default} :
           IF pw = Default \/ VerifyPassword(pw, server.hash) THEN Done(c)
           ELSE req' = [req EXCEPT ![c].pc = "save", ![c].new = pw]
    /\ UNCHANGED <<authMu, login, revoked, limiter, ended>> /\ Request

Saving == UNCHANGED <<boots, exposed, login, revoked, limiter, cli, clock, starts, commands, mix, ended>>

\* The hash is set, and the whole configuration written, under the mutex. Opening
\* the file may fail, and so may writing it, which leaves it empty.
ChangeSaveUnlocked(c) ==
    /\ req[c].pc = "save"
    /\ server' = [server EXCEPT !.hash = req[c].new]
    /\ disk' = Empty
    /\ crossed' = (crossed \/ cli.pc \in {"booting", "saving"})
    /\ req' = [req EXCEPT ![c].pc = "write", ![c].data = Config(server')]
    /\ UNCHANGED <<authMu, unsaved>> /\ Saving
ChangeSave(c) ==
    /\ req[c].pc = "save" /\ authMu = NoOne
    /\ server' = [server EXCEPT !.hash = req[c].new]
    /\ \/ /\ disk' = Empty /\ authMu' = c
          /\ crossed' = (crossed \/ cli.pc \in {"booting", "saving"})
          /\ req' = [req EXCEPT ![c].pc = "write", ![c].data = Config(server')]
          /\ UNCHANGED unsaved
       \/ /\ unsaved' = TRUE
          /\ Done(c)
          /\ UNCHANGED <<disk, authMu, crossed>>
    /\ Saving
ChangeWrite(c) ==
    /\ req[c].pc = "write"
    /\ authMu' = NoOne
    /\ \/ disk' = req[c].data /\ unsaved' = FALSE
       \/ UNCHANGED disk /\ unsaved' = TRUE
    /\ crossed' = (crossed \/ cli.pc \in {"booting", "saving"})
    /\ Done(c)
    /\ UNCHANGED server /\ Saving

-----------------------------------------------------------------------------
(* `ui passwd` and `ui reset-password`.                                    *)

Command == UNCHANGED <<server, exposed, authMu, login, revoked, limiter, req, clock, starts, mix, ended>>

CliLoad ==
    /\ "command" \in mix /\ cli.pc = "idle" /\ commands < MaxCommands
    /\ commands' = commands + 1
    /\ \E c \in [hash : Passwords \cup {Default, NoPassword}, secret : 0 .. 2] :
           /\ Loaded(c)
           /\ cli' = [pc |-> IF disk = Missing THEN "boot" ELSE "ask", hash |-> c.hash, secret |-> c.secret]
    /\ crossed' = (crossed \/ disk = Empty \/ boots' > 1)
    /\ UNCHANGED <<disk, unsaved>> /\ Command

\* The password is too short, or was not confirmed.
CliRefuse ==
    /\ cli.pc = "ask"
    /\ cli' = [cli EXCEPT !.pc = "idle"]
    /\ UNCHANGED <<files, unsaved, crossed, commands>> /\ Command

\* The operator has entered a password, or the default one is restored.
CliTruncate ==
    /\ \/ cli.pc = "boot" /\ cli' = [cli EXCEPT !.pc = "booting"]
       \/ /\ cli.pc = "ask"
          /\ \E pw \in Passwords \cup {Default} : cli' = [cli EXCEPT !.pc = "saving", !.hash = pw]
    /\ disk' = Empty
    /\ unsaved' = TRUE
    /\ crossed' = (crossed \/ disk = Empty)
    /\ UNCHANGED <<boots, commands>> /\ Command
\* The write may fail as well, or the command be interrupted.
CliWrite ==
    /\ cli.pc \in {"booting", "saving"}
    /\ \/ /\ disk' = [hash |-> cli.hash, secret |-> cli.secret]
          /\ cli' = [cli EXCEPT !.pc = IF cli.pc = "booting" THEN "ask" ELSE "idle"]
          /\ crossed' = (crossed \/ disk # Empty)
       \/ UNCHANGED disk /\ cli' = [cli EXCEPT !.pc = "idle"] /\ crossed' = TRUE
    /\ UNCHANGED <<boots, unsaved, commands>> /\ Command

Next ==
    \/ Tick \/ Start \/ StartTruncate \/ StartWrite \/ Stop
    \/ \E c \in Clients :
          \/ LoginBegin(c) \/ LoginVerify(c) \/ LoginFails(c) \/ LoginSucceeds(c)
          \/ Present(c) \/ Lookup(c) \/ Admit(c) \/ Visit(c) \/ Logout(c)
          \/ ChangeBegin(c) \/ ChangeSave(c) \/ ChangeWrite(c)
    \/ CliLoad \/ CliRefuse \/ CliTruncate \/ CliWrite

Spec == Init /\ [][Next]_vars

-----------------------------------------------------------------------------
(* Properties.                                                             *)

\* A request goes on to the lookup of revoked sessions only within the absolute
\* lifetime of its session and after no longer a pause than the idle timeout, and
\* is then admitted, while the same server runs, never after a logout, whichever
\* copy of the cookie is presented. The one exception is a session whose lifetime
\* ran out between the two, when revoke has already dropped it.
SessionsEnd ==
    [][\A c \in Clients :
         LET i == req'[c].cookie.id IN
         /\ req[c].pc = "idle" /\ req'[c].pc = "check" =>
                clock <= born[i] + Lifetime /\ clock - used[i] <= Idle
         /\ req[c].pc # "known" /\ req'[c].pc = "known" =>
                (i \in ended => clock > born[i] + Lifetime)]_vars

\* Within a second, no more logins fail than the free ones and those that were
\* under way at once, however long the failures go on.
FailuresAreSlowed == burst <= Cardinality(Clients)

\* A restart accepts the password that the server accepts now, and its sessions:
\* ui.yaml holds the server's configuration whenever the server is not writing
\* it, unless a command wrote it later, a save failed, or two processes read and
\* wrote it at the same time. And a server bound beyond the loopback addresses
\* never runs with the default password.
ConfigIsSaved ==
    /\ Up /\ (\A c \in Clients : req[c].pc # "write") /\ ~unsaved /\ ~crossed => disk = Config(server)
    /\ Up /\ exposed => server.hash # Default

-----------------------------------------------------------------------------
(* The invariants behind the proofs (CommandProofs).                       *)

Hashes == Passwords \cup {Default, NoPassword}
Accounts == [hash : Hashes, secret : Nat]
Configs == Accounts \cup {Missing}
Cookies == [id : Ids, secret : Int, exp : Int, seen : Int]
WithCookie == {"check", "known", "visit", "logout", "change"}
Labels == {"idle", "login", "valid", "invalid", "save", "write"} \cup WithCookie
Servers == [pc : {"down", "boot", "booting", "up"}, hash : Hashes, secret : Nat]
Commands == [pc : {"idle", "boot", "booting", "ask", "saving"}, hash : Hashes, secret : Nat]
Attempts == [count : Nat, lockUntil : Int, last : Int]
Requests == [pc : Labels, cookie : Cookies \cup {NoCookie}, new : Hashes, data : Configs]

TypeOK ==
    /\ disk \in Configs /\ boots \in Nat
    /\ server \in Servers /\ cli \in Commands
    /\ authMu \in Clients \cup {NoOne}
    /\ cookies \subseteq Cookies
    /\ revoked \in [Ids -> Int]
    /\ attempts \in Attempts
    /\ req \in [Clients -> Requests]
    /\ clock \in Nat /\ sessions \in 0 .. MaxSessions
    /\ born \in [Ids -> Nat] /\ used \in [Ids -> Nat] /\ ended \subseteq Ids
    /\ burst \in Nat
    /\ exposed \in BOOLEAN /\ unsaved \in BOOLEAN /\ crossed \in BOOLEAN

\* A cookie carries the end of its session, whenever it was signed, and a time
\* at which the session was used. A session that was logged out is revoked until
\* it would have ended.
SessionOf(k) ==
    /\ k \in Cookies /\ k.id <= sessions
    /\ k.exp = born[k.id] + Lifetime /\ k.seen <= used[k.id]
SessionsOK ==
    /\ \A k \in cookies : SessionOf(k)
    /\ \A c \in Clients : req[c].pc \in WithCookie => SessionOf(req[c].cookie)
    /\ \A i \in Ids : used[i] <= clock
    /\ \A i \in Ids : revoked[i] # Never => i <= sessions /\ revoked[i] = born[i] + Lifetime
    /\ \A i \in ended : i <= sessions /\ (revoked[i] # Never \/ clock > born[i] + Lifetime)

\* After a failure beyond the free ones nobody begins to log in within this
\* second: only those that had begun can still fail.
LoggingIn == {c \in Clients : req[c].pc \in {"login", "valid", "invalid"}}
LimiterOK ==
    burst > 0 =>
        /\ attempts.count > Free /\ attempts.last = clock /\ attempts.lockUntil > clock
        /\ burst + Cardinality(LoggingIn) <= Cardinality(Clients)

\* What the server runs with was not refused, and what a request is to save is
\* a password that is long enough.
HashOK ==
    /\ Up /\ exposed => server.hash # Default
    /\ \A c \in Clients : req[c].pc = "save" => req[c].new \in Passwords

\* Requests have a server; one of them writes, and has the mutex.
MutexOK ==
    /\ ~Up => authMu = NoOne /\ \A c \in Clients : req[c].pc = "idle"
    /\ \A c \in Clients : req[c].pc = "write" <=> authMu = c
    /\ authMu # NoOne => req[authMu].data = Config(server)

\* Who is in the middle of creating or writing ui.yaml, as long as no two
\* processes have been.
FileOK ==
    /\ disk = Missing => server.pc \in {"down", "boot"} /\ cli.pc \in {"idle", "boot"}
    /\ ~crossed =>
           /\ server.pc = "boot" => disk = Missing /\ boots > 0 /\ cli.pc = "idle"
           /\ server.pc = "booting" => disk = Empty /\ cli.pc = "idle"
           /\ cli.pc = "boot" => disk = Missing /\ boots > 0 /\ server.pc = "down"
           /\ cli.pc \in {"booting", "saving"} => disk = Empty /\ authMu = NoOne /\ unsaved
           /\ authMu # NoOne => disk = Empty
           /\ Up /\ authMu = NoOne /\ ~unsaved => disk = Config(server)

AuthInv == SessionsOK /\ LimiterOK /\ HashOK /\ MutexOK /\ FileOK
=============================================================================
