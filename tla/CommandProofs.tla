--------------------------- MODULE CommandProofs ----------------------------
(***************************************************************************)
(* Proofs about the two parts of the command-line program that keep state  *)
(* outside the cache: UIAuth, who may use `lytecache ui`, and              *)
(* ServiceControl, the service that runs it.                               *)
(***************************************************************************)
EXTENDS UIAuth, ServiceControl, FiniteSetTheorems, TLAPS

-----------------------------------------------------------------------------
(* UIAuth: types.                                                          *)

\* The defaults have their types.
LEMMA DefaultTypes ==
  /\ NoPassword \in Hashes /\ Default \in Hashes /\ Passwords \subseteq Hashes
  /\ Missing \in Configs /\ Empty \in Accounts /\ Missing \notin Accounts /\ Accounts \subseteq Configs
  /\ NoAttempts \in Attempts
  /\ NoRequest \in Requests /\ NoRequest.pc = "idle"
BY DEF Hashes, Accounts, Configs, Missing, Empty, NoAttempts, Attempts, NoRequest, Requests, Labels

\* A request that presents a cookie has a label.
LEMMA CookieLabels == WithCookie \subseteq Labels
BY DEF Labels

\* The server's configuration, and a server without one, have their types.
LEMMA ServerTypes ==
  /\ \A s \in Servers : Config(s) \in Accounts
  /\ [pc |-> "down", hash |-> NoPassword, secret |-> 0] \in Servers
  /\ \A c \in Accounts, l \in {"down", "boot", "booting", "up"} :
        [pc |-> l, hash |-> c.hash, secret |-> c.secret] \in Servers
BY DEF Servers, Accounts, Config, Hashes

\* A request that goes on, or ends, is a request.
LEMMA RequestTypes ==
  ASSUME req \in [Clients -> Requests], NEW c \in Clients
  PROVE  /\ Done(c) => req' \in [Clients -> Requests]
         /\ \A l \in Labels : Goto(c, l) => req' \in [Clients -> Requests]
         /\ \A l \in Labels, pw \in Hashes :
               req' = [req EXCEPT ![c].pc = l, ![c].new = pw] => req' \in [Clients -> Requests]
         /\ \A l \in Labels, k \in Cookies :
               req' = [req EXCEPT ![c].pc = l, ![c].cookie = k] => req' \in [Clients -> Requests]
         /\ \A l \in Labels, d \in Configs :
               req' = [req EXCEPT ![c].pc = l, ![c].data = d] => req' \in [Clients -> Requests]
<1>1. Done(c) => req' \in [Clients -> Requests]
  BY DefaultTypes DEF Done
<1> QED
  BY <1>1 DEF Goto, Requests

\* The initial state has its types.
LEMMA AuthTypeInit == Init => TypeOK
<1> SUFFICES ASSUME Init PROVE TypeOK
  OBVIOUS
<1>1. exposed \in BOOLEAN /\ unsaved \in BOOLEAN /\ crossed \in BOOLEAN
  BY Zenon DEF Init
<1>2. disk \in Configs /\ boots \in Nat
  <2>1. CASE disk = Missing
    BY <2>1, DefaultTypes DEF Init
  <2>2. CASE disk # Missing
    BY <2>2, DefaultTypes DEF Init, Configs, Accounts, Hashes
  <2> QED
    BY <2>1, <2>2
<1>3. server \in Servers /\ cli \in Commands
  BY DefaultTypes DEF Init, Servers, Commands, Hashes
<1>4. /\ authMu \in Clients \cup {NoOne} /\ cookies \subseteq Cookies
      /\ revoked \in [Ids -> Int] /\ attempts \in Attempts /\ req \in [Clients -> Requests]
  BY DefaultTypes DEF Init, Never
<1>5. /\ clock \in Nat /\ sessions \in 0 .. MaxSessions
      /\ born \in [Ids -> Nat] /\ used \in [Ids -> Nat] /\ ended \subseteq Ids /\ burst \in Nat
  BY UIAuthAssumption DEF Init
<1> QED
  BY <1>1, <1>2, <1>3, <1>4, <1>5 DEF TypeOK

\* What LoadOrCreateAuthConfig returns is a configuration.
LEMMA LoadedTypes ==
  ASSUME TypeOK, NEW c, Loaded(c)
  PROVE  c \in Accounts /\ boots' \in Nat
<1>1. CASE disk # Missing
  BY <1>1 DEF Loaded, TypeOK, Configs
<1>2. CASE disk = Missing
  <2>1. c \in Bootstrap /\ boots' = boots + 1 /\ boots \in Nat
    BY <1>2 DEF Loaded, TypeOK
  <2> QED
    BY <2>1 DEF Bootstrap, Accounts, Hashes
<1> QED
  BY <1>1, <1>2

\* A server that was started, or refused to start, has its type.
LEMMA StartedTypes == ASSUME NEW c \in Accounts, Started(c) PROVE server' \in Servers
<1>1. CASE Refused(c)
  BY <1>1, ServerTypes DEF Started
<1>2. CASE ~Refused(c)
  BY <1>2, ServerTypes DEF Started
<1> QED
  BY <1>1, <1>2

\* Starting, stopping and time keep the types.
LEMMA StartKeepsTypes ==
  ASSUME TypeOK, Tick \/ Start \/ StartTruncate \/ StartWrite \/ Stop
  PROVE  TypeOK'
<1> USE DEF StartRest, login, limiter, files
<1>1. CASE Tick
  <2>1. clock' \in Nat /\ burst' \in Nat
    BY <1>1 DEF Tick, TypeOK
  <2>2. UNCHANGED <<files, server, exposed, authMu, login, revoked, attempts, req, cli, ended,
                    unsaved, crossed>>
    BY <1>1 DEF Tick
  <2> QED
    BY <2>1, <2>2 DEF TypeOK
<1>2. CASE Start
  <2>1. PICK c : /\ Loaded(c)
                 /\ IF disk = Missing
                    THEN server' = [pc |-> "boot", hash |-> c.hash, secret |-> c.secret]
                    ELSE Started(c)
    BY <1>2 DEF Start
  <2>2. server' \in Servers /\ boots' \in Nat
    <3>1. c \in Accounts /\ boots' \in Nat
      BY <2>1, LoadedTypes
    <3> QED
      BY <2>1, <3>1, ServerTypes, StartedTypes
  <2>3. crossed' \in BOOLEAN /\ unsaved' \in BOOLEAN
    BY <1>2, Zenon DEF Start
  <2>4. UNCHANGED disk /\ StartRest
    BY <1>2 DEF Start
  <2> QED
    BY <2>2, <2>3, <2>4 DEF TypeOK
<1>3. CASE StartTruncate
  <2>1. server' \in Servers
    BY <1>3 DEF StartTruncate, TypeOK, Servers
  <2>2. crossed' \in BOOLEAN
    BY <1>3, Zenon DEF StartTruncate
  <2>3. disk' = Empty /\ UNCHANGED <<boots, unsaved>> /\ StartRest
    BY <1>3 DEF StartTruncate
  <2> QED
    BY <2>1, <2>2, <2>3, DefaultTypes DEF TypeOK
<1>4. CASE StartWrite
  <2>1. Config(server) \in Accounts
    BY ServerTypes DEF TypeOK
  <2>2. server' \in Servers
    BY <1>4, <2>1, StartedTypes DEF StartWrite
  <2>3. crossed' \in BOOLEAN
    BY <1>4, Zenon DEF StartWrite
  <2>4. disk' = Config(server) /\ UNCHANGED <<boots, unsaved>> /\ StartRest
    BY <1>4 DEF StartWrite
  <2> QED
    BY <2>1, <2>2, <2>3, <2>4, DefaultTypes DEF TypeOK
<1>5. CASE Stop
  <2>1. server' \in Servers
    BY <1>5, ServerTypes DEF Stop
  <2>2. crossed' \in BOOLEAN
    BY <1>5, Zenon DEF Stop
  <2>3. /\ req' = [c \in Clients |-> NoRequest] /\ authMu' = NoOne
        /\ revoked' = [i \in Ids |-> Never] /\ ended' = {}
        /\ attempts' = NoAttempts /\ burst' = 0
        /\ UNCHANGED <<disk, boots, exposed, cookies, sessions, born, used, cli, clock, unsaved>>
    BY <1>5 DEF Stop
  <2> QED
    BY <2>1, <2>2, <2>3, DefaultTypes DEF TypeOK, Never
<1> QED
  BY <1>1, <1>2, <1>3, <1>4, <1>5

\* Requests that log in keep the types.
LEMMA LoginKeepsTypes ==
  ASSUME TypeOK, NEW c \in Clients,
         LoginBegin(c) \/ LoginVerify(c) \/ LoginFails(c) \/ LoginSucceeds(c)
  PROVE  TypeOK'
<1> USE DEF Request, login, limiter, files
<1>0. req \in [Clients -> Requests]
  BY DEF TypeOK
<1>1. CASE LoginBegin(c)
  <2>1. PICK pw : /\ pw \in IF "mistake" \in mix THEN Passwords \cup {Default} ELSE {server.hash}
                  /\ req' = [req EXCEPT ![c].pc = "login", ![c].new = pw]
    BY <1>1 DEF LoginBegin
  <2>2. pw \in Hashes
    BY <2>1, DefaultTypes DEF TypeOK, Servers
  <2>3. req' \in [Clients -> Requests]
    BY <1>0, <2>1, <2>2, RequestTypes DEF Labels
  <2>4. UNCHANGED <<authMu, login, revoked, limiter, ended>> /\ Request
    BY <1>1 DEF LoginBegin
  <2> QED
    BY <2>3, <2>4 DEF TypeOK
<1>2. CASE LoginVerify(c)
  <2>1. req' \in [Clients -> Requests]
    BY <1>0, <1>2, RequestTypes DEF LoginVerify, Labels
  <2> QED
    BY <1>2, <2>1 DEF LoginVerify, TypeOK
<1>3. CASE LoginFails(c)
  <2>1. req' \in [Clients -> Requests]
    BY <1>0, <1>3, RequestTypes DEF LoginFails
  <2> DEFINE known == IF attempts.count > 0 /\ attempts.last < clock - Stale THEN NoAttempts
                      ELSE attempts
             n == known.count + 1
  <2>2. known \in Attempts
    BY DefaultTypes DEF TypeOK
  <2> HIDE DEF known
  <2>3. n \in Nat /\ known.lockUntil \in Int
    BY <2>2 DEF Attempts
  <2>4. n > Free => Backoff(n) \in Nat
    BY <2>3, UIAuthAssumption DEF Backoff
  <2>5. attempts' = [count |-> n, last |-> clock,
                     lockUntil |-> IF n > Free THEN clock + Backoff(n) ELSE known.lockUntil]
    BY <1>3 DEF LoginFails, known
  <2> HIDE DEF n
  <2>6. (IF n > Free THEN clock + Backoff(n) ELSE known.lockUntil) \in Int
    BY <2>3, <2>4 DEF TypeOK
  <2>7. attempts' \in Attempts
    BY <2>3, <2>5, <2>6 DEF Attempts, TypeOK
  <2>8. burst' \in Nat
    BY <1>3 DEF LoginFails, TypeOK
  <2>9. UNCHANGED <<authMu, login, revoked, ended>> /\ Request
    BY <1>3 DEF LoginFails
  <2> QED
    BY <2>1, <2>7, <2>8, <2>9 DEF TypeOK
<1>4. CASE LoginSucceeds(c)
  <2>1. req' \in [Clients -> Requests]
    BY <1>0, <1>4, RequestTypes DEF LoginSucceeds
  <2>2. sessions + 1 \in Ids /\ sessions' \in 0 .. MaxSessions
    BY <1>4, UIAuthAssumption DEF LoginSucceeds, TypeOK, Ids
  <2>3. cookies' \subseteq Cookies
    <3>1. [id |-> sessions + 1, secret |-> server.secret, exp |-> clock + Lifetime, seen |-> clock]
            \in Cookies
      BY <2>2, UIAuthAssumption DEF Cookies, TypeOK, Servers
    <3> QED
      BY <1>4, <3>1 DEF LoginSucceeds, TypeOK
  <2>4. born' \in [Ids -> Nat] /\ used' \in [Ids -> Nat] /\ attempts' \in Attempts /\ burst' \in Nat
    BY <1>4, DefaultTypes DEF LoginSucceeds, TypeOK
  <2>5. UNCHANGED <<authMu, revoked, ended>> /\ Request
    BY <1>4 DEF LoginSucceeds
  <2> QED
    BY <2>1, <2>2, <2>3, <2>4, <2>5 DEF TypeOK
<1> QED
  BY <1>1, <1>2, <1>3, <1>4

\* Requests with a session keep the types.
LEMMA SessionKeepsTypes ==
  ASSUME TypeOK, NEW c \in Clients,
         \/ Present(c) \/ Admit(c) \/ Visit(c)
         \/ req[c].cookie \in Cookies /\ (Lookup(c) \/ Logout(c))
  PROVE  TypeOK'
<1> USE DEF Request, login, limiter, files
<1>0. req \in [Clients -> Requests]
  BY DEF TypeOK
<1>1. CASE Present(c) \/ Admit(c)
  <2>1. req' \in [Clients -> Requests]
    <3>1. CASE Present(c)
      <4>1. PICK k \in cookies : req' = [req EXCEPT ![c].pc = "check", ![c].cookie = k]
        BY <3>1 DEF Present
      <4>2. k \in Cookies /\ "check" \in Labels
        BY CookieLabels DEF TypeOK, WithCookie
      <4> QED
        BY <1>0, <4>1, <4>2, RequestTypes
    <3>2. CASE Admit(c)
      <4>1. PICK l \in {"visit", "logout", "change"} : Goto(c, l) \/ Done(c)
        BY <3>2 DEF Admit
      <4>2. l \in Labels
        BY CookieLabels DEF WithCookie
      <4> QED
        BY <1>0, <4>1, <4>2, RequestTypes
    <3> QED
      BY <1>1, <3>1, <3>2
  <2>2. UNCHANGED <<authMu, login, revoked, limiter, ended>> /\ Request
    BY <1>1 DEF Present, Admit
  <2> QED
    BY <2>1, <2>2 DEF TypeOK
<1>4. CASE req[c].cookie \in Cookies /\ Lookup(c)
  <2>1. PICK k : k = req[c].cookie
    OBVIOUS
  <2>2. k \in Cookies /\ "known" \in Labels
    BY <1>4, <2>1, CookieLabels DEF WithCookie
  <2>3. \/ /\ cookies' = cookies \cup {Refreshed(k)}
           /\ used' = [used EXCEPT ![k.id] = clock]
           /\ Goto(c, "known")
        \/ Done(c) /\ UNCHANGED <<cookies, used>>
    BY <1>4, <2>1 DEF Lookup
  <2>4. req' \in [Clients -> Requests]
    BY <1>0, <2>2, <2>3, RequestTypes
  <2>5. cookies' \subseteq Cookies
    BY <2>2, <2>3 DEF Refreshed, Cookies, TypeOK
  <2>6. used' \in [Ids -> Nat]
    BY <2>3 DEF TypeOK
  <2>7. UNCHANGED <<sessions, born, authMu, revoked, limiter, ended>> /\ Request
    BY <1>4 DEF Lookup
  <2> QED
    BY <2>4, <2>5, <2>6, <2>7 DEF TypeOK
<1>2. CASE Visit(c)
  <2>1. req' \in [Clients -> Requests]
    BY <1>0, <1>2, RequestTypes DEF Visit
  <2> QED
    BY <1>2, <2>1 DEF Visit, TypeOK
<1>3. CASE req[c].cookie \in Cookies /\ Logout(c)
  <2>1. req' \in [Clients -> Requests]
    BY <1>0, <1>3, RequestTypes DEF Logout
  <2>2. req[c].cookie.id \in Ids /\ req[c].cookie.exp \in Int
    BY <1>3 DEF Cookies
  <2>3. revoked' \in [Ids -> Int] /\ ended' \subseteq Ids
    BY <1>3, <2>2 DEF Logout, Revoke, TypeOK, Never
  <2>4. UNCHANGED <<authMu, login, limiter>> /\ Request
    BY <1>3 DEF Logout
  <2> QED
    BY <2>1, <2>3, <2>4 DEF TypeOK
<1> QED
  BY <1>1, <1>2, <1>3, <1>4

\* Requests that change the password keep the types.
LEMMA ChangeKeepsTypes ==
  ASSUME TypeOK, NEW c \in Clients, ChangeBegin(c) \/ ChangeSave(c) \/ ChangeWrite(c)
  PROVE  TypeOK'
<1> USE DEF Request, Saving, login, limiter, files
<1>0. req \in [Clients -> Requests]
  BY DEF TypeOK
<1>1. CASE ChangeBegin(c)
  <2>1. PICK pw \in Passwords \cup {Default} :
            Done(c) \/ req' = [req EXCEPT ![c].pc = "save", ![c].new = pw]
    BY <1>1 DEF ChangeBegin
  <2>2. req' \in [Clients -> Requests]
    BY <1>0, <2>1, RequestTypes, DefaultTypes DEF Labels
  <2>3. UNCHANGED <<authMu, login, revoked, limiter, ended>> /\ Request
    BY <1>1 DEF ChangeBegin
  <2> QED
    BY <2>2, <2>3 DEF TypeOK
<1>2. CASE ChangeSave(c)
  <2>1. server' \in Servers
    BY <1>0, <1>2 DEF ChangeSave, TypeOK, Servers, Requests
  <2>2. Config(server') \in Accounts
    BY <2>1, ServerTypes
  <2>3. req' \in [Clients -> Requests]
    BY <1>0, <1>2, <2>2, DefaultTypes, RequestTypes DEF ChangeSave, Labels
  <2>4. crossed' \in BOOLEAN /\ unsaved' \in BOOLEAN
    <3>1. crossed \in BOOLEAN /\ unsaved \in BOOLEAN
      BY DEF TypeOK
    <3> QED
      BY <1>2, <3>1, Zenon DEF ChangeSave
  <2>5. disk' \in Configs /\ authMu' \in Clients \cup {NoOne}
    BY <1>2, DefaultTypes DEF ChangeSave, TypeOK
  <2>6. Saving
    BY <1>2 DEF ChangeSave
  <2> QED
    BY <2>1, <2>3, <2>4, <2>5, <2>6 DEF TypeOK
<1>3. CASE ChangeWrite(c)
  <2>1. req' \in [Clients -> Requests]
    BY <1>0, <1>3, RequestTypes DEF ChangeWrite
  <2>2. crossed' \in BOOLEAN /\ unsaved' \in BOOLEAN
    BY <1>3, Zenon DEF ChangeWrite
  <2>3. disk' \in Configs /\ authMu' \in Clients \cup {NoOne}
    BY <1>0, <1>3 DEF ChangeWrite, Requests, TypeOK
  <2>4. UNCHANGED server /\ Saving
    BY <1>3 DEF ChangeWrite
  <2> QED
    BY <2>1, <2>2, <2>3, <2>4 DEF TypeOK
<1> QED
  BY <1>1, <1>2, <1>3

\* The commands keep the types.
LEMMA CliKeepsTypes ==
  ASSUME TypeOK, CliLoad \/ CliRefuse \/ CliTruncate \/ CliWrite
  PROVE  TypeOK'
<1> USE DEF Command, login, limiter, files
<1>0. crossed \in BOOLEAN /\ unsaved \in BOOLEAN
  BY DEF TypeOK
<1>1. CASE CliLoad
  <2>1. PICK c : /\ Loaded(c)
                 /\ cli' = [pc |-> IF disk = Missing THEN "boot" ELSE "ask",
                            hash |-> c.hash, secret |-> c.secret]
    BY <1>1 DEF CliLoad
  <2>2. c \in Accounts /\ boots' \in Nat
    BY <2>1, LoadedTypes
  <2>3. cli' \in Commands
    BY <2>1, <2>2 DEF Commands, Accounts
  <2>4. crossed' \in BOOLEAN
    BY <1>1, Zenon DEF CliLoad
  <2>5. UNCHANGED <<disk, unsaved>> /\ Command
    BY <1>1 DEF CliLoad
  <2> QED
    BY <2>2, <2>3, <2>4, <2>5 DEF TypeOK
<1>2. CASE CliRefuse
  <2>1. cli' \in Commands
    BY <1>2 DEF CliRefuse, TypeOK, Commands
  <2> QED
    BY <1>2, <2>1 DEF CliRefuse, TypeOK
<1>3. CASE CliTruncate
  <2>1. cli' \in Commands
    BY <1>3, DefaultTypes DEF CliTruncate, TypeOK, Commands
  <2>2. crossed' \in BOOLEAN /\ unsaved' \in BOOLEAN
    BY <1>3, Zenon DEF CliTruncate
  <2>3. disk' \in Configs /\ UNCHANGED boots /\ Command
    BY <1>3, DefaultTypes DEF CliTruncate
  <2> QED
    BY <2>1, <2>2, <2>3 DEF TypeOK
<1>4. CASE CliWrite
  <2>1. cli' \in Commands
    BY <1>4 DEF CliWrite, TypeOK, Commands
  <2>2. crossed' \in BOOLEAN
    BY <1>4, Zenon DEF CliWrite
  <2>3. disk' \in Configs /\ UNCHANGED <<boots, unsaved>> /\ Command
    BY <1>4 DEF CliWrite, TypeOK, Commands, Configs, Accounts
  <2> QED
    BY <2>1, <2>2, <2>3 DEF TypeOK
<1> QED
  BY <1>1, <1>2, <1>3, <1>4

\* The other requests do not move.
Others(c) == \A d \in Clients \ {c} : req'[d] = req[d]

\* Where the step of a request takes it; the other requests stay where they are.
LEMMA RequestMoves ==
  ASSUME req \in [Clients -> Requests], NEW c \in Clients
  PROVE  /\ LoginBegin(c) => Others(c) /\ req[c].pc = "idle" /\ req'[c].pc = "login"
         /\ LoginVerify(c) => Others(c) /\ req[c].pc = "login" /\ req'[c].pc \in {"valid", "invalid"}
         /\ LoginFails(c) => Others(c) /\ req[c].pc = "invalid" /\ req'[c] = NoRequest
         /\ LoginSucceeds(c) => Others(c) /\ req[c].pc = "valid" /\ req'[c] = NoRequest
         /\ Present(c) => Others(c) /\ req[c].pc = "idle" /\ req'[c].pc = "check"
         /\ Lookup(c) => /\ Others(c) /\ req[c].pc = "check"
                         /\ \/ req'[c] = NoRequest
                            \/ req'[c].pc = "known" /\ req'[c].cookie = req[c].cookie
         /\ Admit(c) => /\ Others(c) /\ req[c].pc = "known"
                        /\ \/ req'[c] = NoRequest
                           \/ /\ req'[c].pc \in {"visit", "logout", "change"}
                              /\ req'[c].cookie = req[c].cookie
         /\ Visit(c) => Others(c) /\ req[c].pc = "visit" /\ req'[c] = NoRequest
         /\ Logout(c) => Others(c) /\ req[c].pc = "logout" /\ req'[c] = NoRequest
         /\ ChangeBegin(c) => /\ Others(c) /\ req[c].pc = "change"
                              /\ \/ req'[c] = NoRequest
                                 \/ req'[c].pc = "save" /\ req'[c].new \in Passwords
         /\ ChangeSave(c) => /\ Others(c) /\ req[c].pc = "save"
                             /\ \/ req'[c] = NoRequest
                                \/ req'[c].pc = "write" /\ req'[c].data = Config(server')
         /\ ChangeWrite(c) => Others(c) /\ req[c].pc = "write" /\ req'[c] = NoRequest
<1> USE DEF Others
<1>0. Done(c) => Others(c) /\ req'[c] = NoRequest
  BY DEF Done
<1>1. LoginBegin(c) => Others(c) /\ req[c].pc = "idle" /\ req'[c].pc = "login"
  BY DEF LoginBegin, Requests
<1>2. LoginVerify(c) => Others(c) /\ req[c].pc = "login" /\ req'[c].pc \in {"valid", "invalid"}
  BY DEF LoginVerify, Goto, Requests
<1>3. LoginFails(c) => Others(c) /\ req[c].pc = "invalid" /\ req'[c] = NoRequest
  BY <1>0 DEF LoginFails
<1>4. LoginSucceeds(c) => Others(c) /\ req[c].pc = "valid" /\ req'[c] = NoRequest
  BY <1>0 DEF LoginSucceeds
<1>5. Admit(c) => /\ Others(c) /\ req[c].pc = "known"
                  /\ \/ req'[c] = NoRequest
                     \/ /\ req'[c].pc \in {"visit", "logout", "change"}
                        /\ req'[c].cookie = req[c].cookie
  BY <1>0 DEF Admit, Goto, Requests
<1>11. Present(c) => Others(c) /\ req[c].pc = "idle" /\ req'[c].pc = "check"
  BY DEF Present, Requests
<1>12. Lookup(c) => /\ Others(c) /\ req[c].pc = "check"
                   /\ \/ req'[c] = NoRequest
                      \/ req'[c].pc = "known" /\ req'[c].cookie = req[c].cookie
  BY <1>0 DEF Lookup, Goto, Requests
<1>6. Visit(c) => Others(c) /\ req[c].pc = "visit" /\ req'[c] = NoRequest
  BY <1>0 DEF Visit
<1>7. Logout(c) => Others(c) /\ req[c].pc = "logout" /\ req'[c] = NoRequest
  BY <1>0 DEF Logout
<1>8. ChangeBegin(c) => /\ Others(c) /\ req[c].pc = "change"
                        /\ \/ req'[c] = NoRequest
                           \/ req'[c].pc = "save" /\ req'[c].new \in Passwords
  <2> SUFFICES ASSUME ChangeBegin(c)
               PROVE  /\ Others(c) /\ req[c].pc = "change"
                      /\ \/ req'[c] = NoRequest
                         \/ req'[c].pc = "save" /\ req'[c].new \in Passwords
    OBVIOUS
  <2>1. PICK pw \in Passwords \cup {Default} :
            IF pw = Default \/ VerifyPassword(pw, server.hash) THEN Done(c)
            ELSE req' = [req EXCEPT ![c].pc = "save", ![c].new = pw]
    BY DEF ChangeBegin
  <2>2. req[c].pc = "change"
    BY DEF ChangeBegin
  <2> QED
    BY <1>0, <2>1, <2>2 DEF Requests
<1>9. ChangeSave(c) => /\ Others(c) /\ req[c].pc = "save"
                       /\ \/ req'[c] = NoRequest
                          \/ req'[c].pc = "write" /\ req'[c].data = Config(server')
  BY <1>0 DEF ChangeSave, Requests
<1>10. ChangeWrite(c) => Others(c) /\ req[c].pc = "write" /\ req'[c] = NoRequest
  BY <1>0 DEF ChangeWrite
<1> HIDE DEF Others
<1> QED
  BY <1>1, <1>2, <1>3, <1>4, <1>5, <1>6, <1>7, <1>8, <1>9, <1>10,
     <1>11, <1>12

-----------------------------------------------------------------------------
(* UIAuth: sessions.                                                       *)

\* At the start there is no session.
LEMMA SessionsInit == Init => SessionsOK
BY DEF Init, SessionsOK, Ids, NoRequest, WithCookie

\* A cookie stays that of its session as long as sessions and uses only grow.
LEMMA CookieStays ==
  ASSUME TypeOK, TypeOK', NEW k, SessionOf(k),
         sessions <= sessions', born'[k.id] = born[k.id], used[k.id] <= used'[k.id]
  PROVE  SessionOf(k)'
<1>1. k \in Cookies /\ k.id \in Ids /\ k.seen \in Int /\ k.id \in Int
  BY DEF SessionOf, Cookies, Ids
<1>2. used[k.id] \in Nat /\ used'[k.id] \in Nat
  BY <1>1 DEF TypeOK
<1> QED
  BY <1>1, <1>2 DEF SessionOf, TypeOK

\* Steps that leave sessions alone and admit no request.
LEMMA SessionsStay ==
  ASSUME TypeOK, TypeOK', SessionsOK, UNCHANGED <<login, revoked, ended>>, clock <= clock',
         \A c \in Clients : \/ req'[c].pc \notin WithCookie
                            \/ SessionOf(req'[c].cookie)
  PROVE  SessionsOK'
<1>1. \A k : SessionOf(k)' <=> SessionOf(k)
  BY DEF SessionOf, login
<1>2. \A i \in Ids : born[i] \in Nat /\ born[i] + Lifetime \in Int
  BY UIAuthAssumption DEF TypeOK
<1>3. \A i \in ended : i <= sessions /\ (revoked[i] # Never \/ clock' > born[i] + Lifetime)
  BY <1>2 DEF SessionsOK, TypeOK
<1>4. \A i \in Ids : used[i] <= clock'
  BY DEF SessionsOK, TypeOK
<1>5. ASSUME NEW c \in Clients, req'[c].pc \in WithCookie PROVE SessionOf(req[c].cookie)'
  <2>1. PICK x : x = req'[c].cookie
    OBVIOUS
  <2>2. SessionOf(x)'
    BY <1>1, <1>5, <2>1
  <2> QED
    BY <2>1, <2>2 DEF SessionOf
<1> QED
  BY <1>1, <1>3, <1>4, <1>5 DEF SessionsOK, login

\* Requests that do not move keep the cookies of their sessions.
LEMMA CookiesOfRequests ==
  ASSUME SessionsOK, NEW c \in Clients, req'[c] = req[c]
  PROVE  req'[c].pc \notin WithCookie \/ SessionOf(req'[c].cookie)
BY DEF SessionsOK

\* Every step keeps the sessions in order.
LEMMA SessionsNext ==
  ASSUME TypeOK, TypeOK', SessionsOK, [Next]_vars
  PROVE  SessionsOK'
<1>0. \A i \in Ids : born[i] \in Nat /\ born[i] + Lifetime \in Nat /\ born[i] + Lifetime # Never
  BY UIAuthAssumption DEF TypeOK, Never
<1>1. CASE Tick \/ UNCHANGED vars
  <2>1. UNCHANGED <<login, revoked, ended, req>> /\ clock <= clock'
    BY <1>1 DEF Tick, vars, TypeOK
  <2> QED
    BY <2>1, SessionsStay, CookiesOfRequests
<1>2. CASE Start \/ StartTruncate \/ StartWrite
  <2>1. UNCHANGED <<login, revoked, ended, req, clock>>
    BY <1>2 DEF Start, StartTruncate, StartWrite, StartRest
  <2> QED
    BY <2>1, SessionsStay, CookiesOfRequests DEF TypeOK
<1>3. CASE CliLoad \/ CliRefuse \/ CliTruncate \/ CliWrite
  <2>1. UNCHANGED <<login, revoked, ended, req, clock>>
    BY <1>3 DEF CliLoad, CliRefuse, CliTruncate, CliWrite, Command
  <2> QED
    BY <2>1, SessionsStay, CookiesOfRequests DEF TypeOK
<1>4. CASE Stop
  <2>1. /\ req' = [c \in Clients |-> NoRequest] /\ UNCHANGED <<login, clock>>
        /\ revoked' = [i \in Ids |-> Never] /\ ended' = {}
    BY <1>4 DEF Stop
  <2>2. \A k : SessionOf(k)' <=> SessionOf(k)
    BY <2>1 DEF SessionOf, login
  <2> QED
    BY <2>1, <2>2 DEF SessionsOK, NoRequest, login, WithCookie
<1>5. ASSUME NEW c \in Clients,
             \/ LoginBegin(c) \/ LoginVerify(c) \/ LoginFails(c) \/ Visit(c) \/ Present(c) \/ Admit(c)
             \/ ChangeBegin(c) \/ ChangeSave(c) \/ ChangeWrite(c)
      PROVE  SessionsOK'
  <2>0. req \in [Clients -> Requests]
    BY DEF TypeOK
  <2>1. UNCHANGED <<login, revoked, ended, clock>>
    BY <1>5 DEF LoginBegin, LoginVerify, LoginFails, Visit, Present, Admit, ChangeBegin, ChangeSave,
                ChangeWrite, Request, Saving
  <2>2. Others(c)
    BY <1>5, <2>0, RequestMoves
  <2>3. req'[c].pc \notin WithCookie \/ SessionOf(req'[c].cookie)
    <3>1. CASE Present(c)
      <4>1. PICK k \in cookies : req' = [req EXCEPT ![c].pc = "check", ![c].cookie = k]
        BY <3>1 DEF Present
      <4>2. req'[c].cookie = k
        BY <2>0, <4>1 DEF Requests
      <4> QED
        BY <4>2 DEF SessionsOK
    <3>2. CASE Admit(c)
      <4>1. req[c].pc = "known" /\ (req'[c] = NoRequest \/ req'[c].cookie = req[c].cookie)
        BY <2>0, <3>2, RequestMoves
      <4> QED
        BY <4>1 DEF NoRequest, WithCookie, SessionsOK
    <3>3. CASE ~Present(c) /\ ~Admit(c)
      BY <1>5, <2>0, <3>3, RequestMoves DEF NoRequest, WithCookie
    <3> QED
      BY <3>1, <3>2, <3>3
  <2> QED
    BY <2>1, <2>2, <2>3, SessionsStay, CookiesOfRequests DEF TypeOK, Others
<1>6. ASSUME NEW c \in Clients, LoginSucceeds(c) PROVE SessionsOK'
  <2> DEFINE i == sessions + 1
  <2>1. PICK new : new = [id |-> i, secret |-> server.secret, exp |-> clock + Lifetime, seen |-> clock]
    OBVIOUS
  <2>2. /\ sessions' = i /\ cookies' = cookies \cup {new}
        /\ born' = [born EXCEPT ![i] = clock] /\ used' = [used EXCEPT ![i] = clock]
        /\ UNCHANGED <<revoked, ended, clock>>
    BY <1>6, <2>1 DEF LoginSucceeds, Request
  <2>3. i \in Ids /\ sessions \in Nat /\ sessions' > sessions
    BY <1>6, <2>2, UIAuthAssumption DEF LoginSucceeds, TypeOK, Ids
  <2>4. SessionOf(new)'
    <3>1. new \in Cookies
      BY <2>2 DEF TypeOK
    <3>2. born'[i] = clock /\ used'[i] = clock /\ clock \in Nat
      BY <2>2, <2>3 DEF TypeOK
    <3> QED
      BY <2>1, <2>2, <2>3, <3>1, <3>2 DEF SessionOf
  <2>5. \A j \in Ids : j <= sessions => born'[j] = born[j] /\ used'[j] = used[j]
    BY <2>2, <2>3 DEF TypeOK
  <2>6. ASSUME NEW k, SessionOf(k) PROVE SessionOf(k)'
    <3>1. k.id \in Ids /\ k.id <= sessions
      BY <2>6 DEF SessionOf, Cookies
    <3>2. born'[k.id] = born[k.id] /\ used'[k.id] = used[k.id] /\ used[k.id] \in Nat
      BY <2>5, <3>1 DEF TypeOK
    <3>3. sessions <= sessions' /\ used[k.id] <= used'[k.id]
      BY <2>3, <3>2 DEF TypeOK
    <3> QED
      BY <2>6, <3>2, <3>3, CookieStays
  <2>7. \A d \in Clients : req'[d].pc \in WithCookie => req'[d] = req[d]
    BY <1>6 DEF LoginSucceeds, Done, NoRequest, TypeOK, WithCookie
  <2>8. \A j \in Ids : revoked'[j] # Never => j <= sessions' /\ revoked'[j] = born'[j] + Lifetime
    BY <2>2, <2>3, <2>5 DEF SessionsOK, Ids
  <2>9. \A j \in ended' : j <= sessions' /\ (revoked'[j] # Never \/ clock' > born'[j] + Lifetime)
    BY <2>2, <2>3, <2>5 DEF SessionsOK, Ids, TypeOK
  <2>10. \A j \in Ids : used'[j] <= clock'
    BY <2>2, <2>3 DEF SessionsOK, TypeOK
  <2>11. \A k \in cookies' : SessionOf(k)'
    BY <2>2, <2>4, <2>6 DEF SessionsOK
  <2>12. \A d \in Clients : (req[d].pc \in WithCookie => SessionOf(req[d].cookie))'
    <3> SUFFICES ASSUME NEW d \in Clients, req'[d].pc \in WithCookie
                 PROVE  SessionOf(req[d].cookie)'
      OBVIOUS
    <3>1. PICK x : x = req[d].cookie /\ x = req'[d].cookie
      BY <2>7
    <3>2. SessionOf(x)'
      BY <2>6, <2>7, <3>1 DEF SessionsOK
    <3> QED
      BY <3>1, <3>2 DEF SessionOf
  <2> QED
    BY <2>8, <2>9, <2>10, <2>11, <2>12 DEF SessionsOK
<1>7. ASSUME NEW c \in Clients, Lookup(c), revoked[req[c].cookie.id] = Never PROVE SessionsOK'
  <2>0. PICK k : k = req[c].cookie
    OBVIOUS
  <2>1. /\ req[c].pc = "check"
        /\ cookies' = cookies \cup {Refreshed(k)}
        /\ used' = [used EXCEPT ![k.id] = clock]
        /\ req' = [req EXCEPT ![c].pc = "known"]
    BY <1>7, <2>0 DEF Lookup, Goto
  <2>2. UNCHANGED <<sessions, born, revoked, ended, clock>>
    BY <1>7 DEF Lookup, Request
  <2>3. SessionOf(k) /\ k.id \in Ids /\ k \in Cookies
    BY <2>0, <2>1 DEF SessionsOK, SessionOf, TypeOK, Cookies, WithCookie
  <2>4. \A j \in Ids : used[j] \in Nat /\ used[j] <= clock
    BY DEF SessionsOK, TypeOK
  <2>5. ASSUME NEW x, SessionOf(x) PROVE SessionOf(x)'
    <3>1. x.id \in Ids
      BY <2>5 DEF SessionOf, Cookies
    <3>2. used[x.id] <= used'[x.id]
      BY <2>1, <2>3, <2>4, <3>1 DEF TypeOK
    <3> QED
      BY <2>2, <2>5, <3>2, CookieStays DEF TypeOK
  <2>6. PICK new : new = Refreshed(k)
    OBVIOUS
  <2>7. SessionOf(new)'
    <3>1. /\ new \in Cookies /\ new.id = k.id /\ new.exp = k.exp /\ new.seen = clock
      BY <2>3, <2>6 DEF Refreshed, Cookies, TypeOK
    <3>2. used'[k.id] = clock /\ clock \in Nat
      BY <2>1, <2>3 DEF TypeOK
    <3> QED
      BY <2>2, <2>3, <3>1, <3>2 DEF SessionOf
  <2>8. \A d \in Clients : req'[d].pc \in WithCookie =>
           req'[d].cookie = k \/ req'[d] = req[d]
    BY <2>0, <2>1 DEF TypeOK, Requests
  <2>9. \A j \in Ids : used'[j] <= clock'
    BY <2>1, <2>2, <2>3, <2>4 DEF TypeOK
  <2>10. \A x \in cookies' : SessionOf(x)'
    BY <2>1, <2>5, <2>6, <2>7 DEF SessionsOK
  <2>11. \A d \in Clients : (req[d].pc \in WithCookie => SessionOf(req[d].cookie))'
    <3> SUFFICES ASSUME NEW d \in Clients, req'[d].pc \in WithCookie
                 PROVE  SessionOf(req[d].cookie)'
      OBVIOUS
    <3>1. PICK x : x = req'[d].cookie
      OBVIOUS
    <3>2. SessionOf(x)
      BY <2>3, <2>8, <3>1 DEF SessionsOK
    <3>3. SessionOf(x)'
      BY <2>5, <3>2
    <3> QED
      BY <3>1, <3>3 DEF SessionOf
  <2> QED
    BY <2>2, <2>9, <2>10, <2>11 DEF SessionsOK
<1>8. ASSUME NEW c \in Clients, Logout(c) PROVE SessionsOK'
  <2>1. PICK k : k = req[c].cookie
    OBVIOUS
  <2>2. SessionOf(k) /\ k.id \in Ids /\ k.exp = born[k.id] + Lifetime /\ k.id <= sessions
    BY <1>8, <2>1 DEF Logout, SessionsOK, SessionOf, Cookies, WithCookie
  <2>3. /\ revoked' = Revoke(k) /\ ended' = ended \cup {k.id}
        /\ UNCHANGED <<login, clock>>
    BY <1>8, <2>1 DEF Logout, Request
  <2>4. \A j \in Ids : revoked'[j] = IF j = k.id
                                     THEN IF clock > k.exp THEN Never ELSE k.exp
                                     ELSE IF clock > revoked[j] THEN Never ELSE revoked[j]
    BY <2>2, <2>3 DEF Revoke, TypeOK
  <2>5. \A x : SessionOf(x)' <=> SessionOf(x)
    BY <2>3 DEF SessionOf, login
  <2>6. \A d \in Clients : req'[d].pc \in WithCookie => req'[d] = req[d]
    BY <1>8 DEF Logout, Done, NoRequest, TypeOK, WithCookie
  <2>7. \A j \in Ids : revoked'[j] # Never => j <= sessions /\ revoked'[j] = born[j] + Lifetime
    BY <2>2, <2>4 DEF SessionsOK
  <2>8. \A j \in ended' : j <= sessions /\ (revoked'[j] # Never \/ clock > born[j] + Lifetime)
    BY <1>0, <2>2, <2>3, <2>4 DEF SessionsOK, TypeOK, Never
  <2> QED
    BY <2>3, <2>5, <2>6, <2>7, <2>8 DEF SessionsOK, login
<1>9. ASSUME NEW c \in Clients, Lookup(c), revoked[req[c].cookie.id] # Never PROVE SessionsOK'
  <2>1. UNCHANGED <<login, revoked, ended, clock>> /\ Done(c)
    BY <1>9 DEF Lookup, Request, login
  <2>2. req'[c] = NoRequest /\ \A d \in Clients \ {c} : req'[d] = req[d]
    BY <2>1 DEF Done, TypeOK
  <2>3. req'[c].pc \notin WithCookie
    BY <2>2 DEF NoRequest, WithCookie
  <2> QED
    BY <2>1, <2>2, <2>3, SessionsStay, CookiesOfRequests DEF TypeOK
<1> QED
  BY <1>1, <1>2, <1>3, <1>4, <1>5, <1>6, <1>7, <1>8, <1>9 DEF Next

\* Which action takes a request to the lookup of its session, and past it.
LEMMA ToTheSession ==
  ASSUME TypeOK, [Next]_vars, NEW c \in Clients
  PROVE  /\ req[c].pc = "idle" /\ req'[c].pc = "check" => Present(c)
         /\ req[c].pc # "known" /\ req'[c].pc = "known" => Lookup(c)
<1>0. req \in [Clients -> Requests]
  BY DEF TypeOK
<1>1. ASSUME NEW d \in Clients,
             \/ LoginBegin(d) \/ LoginVerify(d) \/ LoginFails(d) \/ LoginSucceeds(d)
             \/ Present(d) \/ Lookup(d) \/ Admit(d) \/ Visit(d) \/ Logout(d)
             \/ ChangeBegin(d) \/ ChangeSave(d) \/ ChangeWrite(d)
      PROVE  /\ req[c].pc = "idle" /\ req'[c].pc = "check" => Present(c)
             /\ req[c].pc # "known" /\ req'[c].pc = "known" => Lookup(c)
  <2>1. Others(d)
    BY <1>0, <1>1, RequestMoves
  <2>2. /\ req'[d].pc = "check" => Present(d)
        /\ req'[d].pc = "known" => Lookup(d)
    BY <1>0, <1>1, RequestMoves DEF NoRequest
  <2>3. CASE c = d
    BY <2>2, <2>3
  <2>4. CASE c # d
    BY <2>1, <2>4 DEF Others
  <2> QED
    BY <2>3, <2>4
<1>2. CASE \/ Tick \/ Start \/ StartTruncate \/ StartWrite \/ CliLoad \/ CliRefuse \/ CliTruncate
           \/ CliWrite \/ UNCHANGED vars
  BY <1>2 DEF Tick, Start, StartTruncate, StartWrite, StartRest, CliLoad, CliRefuse, CliTruncate,
     CliWrite, Command, vars
<1>3. CASE Stop
  BY <1>3 DEF Stop, NoRequest
<1> QED
  BY <1>1, <1>2, <1>3 DEF Next

\* A request goes on to the lookup within the times of its session.
LEMMA PresentsLive ==
  ASSUME TypeOK, SessionsOK, NEW c \in Clients, Present(c)
  PROVE  LET i == req'[c].cookie.id IN clock <= born[i] + Lifetime /\ clock - used[i] <= Idle
<1>1. PICK k \in cookies : /\ clock <= k.exp /\ clock - k.seen <= Idle
                           /\ req'[c].cookie = k
  BY DEF Present, Verify, TypeOK, Requests
<1>2. /\ k.id \in Ids /\ k.exp = born[k.id] + Lifetime
      /\ k.seen \in Int /\ k.seen <= used[k.id]
  BY <1>1 DEF SessionsOK, SessionOf, Cookies
<1>3. born[k.id] \in Nat /\ used[k.id] \in Nat /\ clock \in Nat
  BY <1>2 DEF TypeOK
<1> QED
  BY <1>1, <1>2, <1>3, UIAuthAssumption

\* A session that the lookup lets through has not been logged out, or is over.
LEMMA AdmitsLive ==
  ASSUME TypeOK, SessionsOK, NEW c \in Clients, Lookup(c), req'[c].pc = "known"
  PROVE  LET i == req'[c].cookie.id IN i \in ended => clock > born[i] + Lifetime
<1>1. req'[c].cookie = req[c].cookie
  BY RequestMoves DEF TypeOK, NoRequest
<1>2. revoked[req[c].cookie.id] = Never
  <2>1. Done(c) => req'[c].pc = "idle"
    BY DEF Done, NoRequest, TypeOK
  <2> QED
    BY <2>1 DEF Lookup
<1> QED
  BY <1>1, <1>2 DEF SessionsOK

-----------------------------------------------------------------------------
(* UIAuth: failed logins.                                                  *)

\* Those that are logging in are finitely many, and no more than there are.
LEMMA Counted ==
  /\ IsFiniteSet(LoggingIn) /\ Cardinality(LoggingIn) \in Nat
  /\ Cardinality(LoggingIn) <= Cardinality(Clients) /\ Cardinality(Clients) \in Nat
<1>1. LoggingIn \in SUBSET Clients /\ IsFiniteSet(Clients)
  BY UIAuthAssumption DEF LoggingIn
<1> QED
  BY <1>1, FS_Subset, FS_CardinalityType

\* The delay after a failure that is not free is at least a second.
LEMMA BackoffPositive ==
  ASSUME NEW n \in Nat, n > Free
  PROVE  Backoff(n) \in Nat /\ Backoff(n) > 0
BY UIAuthAssumption DEF Backoff

\* Steps that leave the limiter alone and begin no login.
LEMMA LimiterStays ==
  ASSUME TypeOK, TypeOK', LimiterOK, UNCHANGED <<attempts, burst, clock>>,
         LoggingIn' \subseteq LoggingIn
  PROVE  LimiterOK'
<1>1. /\ Cardinality(LoggingIn') <= Cardinality(LoggingIn)
      /\ Cardinality(LoggingIn') \in Nat
  BY Counted, FS_Subset, FS_CardinalityType
<1> QED
  BY <1>1, Counted DEF LimiterOK, TypeOK

\* A failure: the one that failed makes room for the one that is counted.
LEMMA FailureCounted ==
  ASSUME TypeOK, TypeOK', LimiterOK, NEW c \in Clients, LoginFails(c)
  PROVE  LimiterOK'
<1> DEFINE known == IF attempts.count > 0 /\ attempts.last < clock - Stale THEN NoAttempts
                    ELSE attempts
           n == known.count + 1
<1>1. /\ attempts' = [count |-> n, last |-> clock,
                      lockUntil |-> IF n > Free THEN clock + Backoff(n) ELSE known.lockUntil]
      /\ burst' = IF n > Free THEN burst + 1 ELSE burst
      /\ clock' = clock /\ req[c].pc = "invalid"
  BY DEF LoginFails, Request
<1>2. known \in Attempts
  BY DefaultTypes DEF TypeOK
<1>3. burst > 0 => known = attempts
  BY UIAuthAssumption DEF LimiterOK, TypeOK
<1> HIDE DEF known
<1>4. n \in Nat
  BY <1>2 DEF Attempts
<1>5. burst > 0 => n > Free
  BY <1>2, <1>3, UIAuthAssumption DEF LimiterOK, Attempts
<1> HIDE DEF n
<1>6. CASE n > Free
  <2>1. attempts'.count > Free /\ attempts'.last = clock' /\ attempts'.lockUntil > clock'
    BY <1>1, <1>4, <1>6, BackoffPositive DEF TypeOK
  <2>2. c \in LoggingIn /\ LoggingIn' = LoggingIn \ {c}
    BY <1>1 DEF LoggingIn, LoginFails, Done, NoRequest, TypeOK
  <2>3. Cardinality(LoggingIn') = Cardinality(LoggingIn) - 1
    BY <2>2, Counted, FS_RemoveElement
  <2>4. burst + Cardinality(LoggingIn) <= Cardinality(Clients)
    BY Counted DEF LimiterOK, TypeOK
  <2> QED
    BY <1>1, <1>6, <2>1, <2>3, <2>4, Counted DEF LimiterOK, TypeOK
<1>7. CASE ~(n > Free)
  BY <1>1, <1>5, <1>7 DEF LimiterOK, TypeOK
<1> QED
  BY <1>6, <1>7

\* Every step keeps the limit.
LEMMA LimiterNext ==
  ASSUME TypeOK, TypeOK', LimiterOK, [Next]_vars
  PROVE  LimiterOK'
<1>1. CASE Tick \/ Stop
  BY <1>1 DEF Tick, Stop, LimiterOK
<1>2. CASE \/ Start \/ StartTruncate \/ StartWrite \/ CliLoad \/ CliRefuse \/ CliTruncate
           \/ CliWrite \/ UNCHANGED vars
  <2>1. UNCHANGED <<attempts, burst, clock, req>>
    BY <1>2 DEF Start, StartTruncate, StartWrite, StartRest, CliLoad, CliRefuse, CliTruncate,
       CliWrite, Command, limiter, vars
  <2> QED
    BY <2>1, LimiterStays DEF LoggingIn
<1>3. ASSUME NEW c \in Clients,
             \/ LoginVerify(c) \/ Present(c) \/ Lookup(c) \/ Admit(c) \/ Visit(c) \/ Logout(c)
             \/ ChangeBegin(c) \/ ChangeSave(c) \/ ChangeWrite(c)
      PROVE  LimiterOK'
  <2>1. UNCHANGED <<attempts, burst, clock>>
    BY <1>3 DEF LoginVerify, Present, Lookup, Admit, Visit, Logout, ChangeBegin, ChangeSave,
       ChangeWrite, Request, Saving, limiter
  <2>2. LoggingIn' \subseteq LoggingIn
    <3>1. req \in [Clients -> Requests]
      BY DEF TypeOK
    <3>2. Others(c) /\ (c \in LoggingIn' => c \in LoggingIn)
      BY <1>3, <3>1, RequestMoves DEF NoRequest, LoggingIn
    <3> QED
      BY <3>2 DEF Others, LoggingIn
  <2> QED
    BY <2>1, <2>2, LimiterStays
<1>4. ASSUME NEW c \in Clients, LoginBegin(c) PROVE LimiterOK'
  <2>1. UNCHANGED burst /\ ~(burst > 0)
    BY <1>4 DEF LoginBegin, Allowed, LimiterOK, limiter, TypeOK, Attempts
  <2> QED
    BY <2>1 DEF LimiterOK
<1>5. ASSUME NEW c \in Clients, LoginSucceeds(c) PROVE LimiterOK'
  BY <1>5 DEF LoginSucceeds, LimiterOK
<1> QED
  BY <1>1, <1>2, <1>3, <1>4, <1>5, FailureCounted DEF Next

-----------------------------------------------------------------------------
(* UIAuth: ui.yaml and the configuration the server holds.                 *)

\* What a server may start with is not refused.
LEMMA StartedHash ==
  ASSUME NEW c, Started(c), server'.pc = "up", exposed
  PROVE  server'.hash # Default
BY UIAuthAssumption DEF Started, Refused, IsDefaultPassword, VerifyPassword

\* Every step keeps the default password, and short ones, away from the server.
LEMMA HashNext ==
  ASSUME TypeOK, TypeOK', HashOK, [Next]_vars
  PROVE  HashOK'
<1>0. req \in [Clients -> Requests]
  BY DEF TypeOK
<1>1. CASE \/ Tick \/ CliLoad \/ CliRefuse \/ CliTruncate \/ CliWrite \/ UNCHANGED vars
  <2>1. UNCHANGED <<server, exposed, req>>
    BY <1>1 DEF Tick, CliLoad, CliRefuse, CliTruncate, CliWrite, Command, vars
  <2> QED
    BY <2>1 DEF HashOK, Up
<1>2. CASE Start \/ StartTruncate \/ StartWrite
  <2>1. UNCHANGED <<exposed, req>>
    BY <1>2 DEF Start, StartTruncate, StartWrite, StartRest
  <2>2. server'.pc = "up" => \E c : Started(c)
    BY <1>2 DEF Start, StartTruncate, StartWrite, TypeOK, Servers
  <2>3. server'.pc = "up" /\ exposed => server'.hash # Default
    BY <2>2, StartedHash
  <2> QED
    BY <2>1, <2>3 DEF HashOK, Up
<1>3. CASE Stop
  BY <1>3 DEF Stop, HashOK, Up, NoRequest
<1>4. ASSUME NEW c \in Clients,
             \/ LoginBegin(c) \/ LoginVerify(c) \/ LoginFails(c) \/ LoginSucceeds(c)
             \/ Present(c) \/ Lookup(c) \/ Admit(c) \/ Visit(c) \/ Logout(c)
             \/ ChangeBegin(c) \/ ChangeWrite(c)
      PROVE  HashOK'
  <2>1. UNCHANGED <<server, exposed>>
    BY <1>4 DEF LoginBegin, LoginVerify, LoginFails, LoginSucceeds, Present, Lookup, Admit,
       Visit, Logout, ChangeBegin, ChangeWrite, Request, Saving
  <2>2. Others(c) /\ (req'[c].pc = "save" => req'[c].new \in Passwords)
    BY <1>0, <1>4, RequestMoves DEF NoRequest
  <2> QED
    BY <2>1, <2>2 DEF HashOK, Up, Others
<1>5. ASSUME NEW c \in Clients, ChangeSave(c) PROVE HashOK'
  <2>1. server' = [server EXCEPT !.hash = req[c].new] /\ UNCHANGED exposed
    BY <1>5 DEF ChangeSave, Saving
  <2>2. server'.hash \in Passwords
    BY <1>0, <1>5, <2>1, RequestMoves DEF HashOK, TypeOK, Servers
  <2>3. Others(c) /\ req'[c].pc # "save"
    BY <1>0, <1>5, RequestMoves DEF NoRequest
  <2> QED
    BY <2>1, <2>2, <2>3, UIAuthAssumption DEF HashOK, Up, Others
<1> QED
  BY <1>1, <1>2, <1>3, <1>4, <1>5 DEF Next

\* Every step leaves the mutex with the one that writes.
LEMMA MutexNext ==
  ASSUME TypeOK, TypeOK', MutexOK, [Next]_vars
  PROVE  MutexOK'
<1>0. req \in [Clients -> Requests] /\ NoOne \notin Clients
  BY UIAuthAssumption DEF TypeOK
<1>1. CASE \/ Tick \/ CliLoad \/ CliRefuse \/ CliTruncate \/ CliWrite \/ UNCHANGED vars
  <2>1. UNCHANGED <<server, authMu, req>>
    BY <1>1 DEF Tick, CliLoad, CliRefuse, CliTruncate, CliWrite, Command, vars
  <2> QED
    BY <2>1 DEF MutexOK, Up
<1>2. CASE Start \/ StartTruncate \/ StartWrite
  <2>1. UNCHANGED <<authMu, req>> /\ ~Up
    BY <1>2 DEF Start, StartTruncate, StartWrite, StartRest, Up
  <2> QED
    BY <1>0, <2>1 DEF MutexOK
<1>3. CASE Stop
  BY <1>0, <1>3 DEF Stop, MutexOK, NoRequest
<1>4. ASSUME NEW c \in Clients,
             \/ LoginBegin(c) \/ LoginVerify(c) \/ LoginFails(c) \/ LoginSucceeds(c)
             \/ Present(c) \/ Lookup(c) \/ Admit(c) \/ Visit(c) \/ Logout(c) \/ ChangeBegin(c)
      PROVE  MutexOK'
  <2>1. UNCHANGED <<server, authMu>>
    BY <1>4 DEF LoginBegin, LoginVerify, LoginFails, LoginSucceeds, Present, Lookup, Admit,
       Visit, Logout, ChangeBegin, Request
  <2>2. Others(c) /\ req[c].pc # "write" /\ req'[c].pc # "write"
    BY <1>0, <1>4, RequestMoves DEF NoRequest
  <2>3. Up
    <3>1. CASE LoginBegin(c) \/ Present(c)
      BY <3>1 DEF LoginBegin, Present
    <3>2. CASE ~(LoginBegin(c) \/ Present(c))
      BY <1>0, <1>4, <3>2, RequestMoves DEF MutexOK
    <3> QED
      BY <3>1, <3>2
  <2>4. authMu # c
    BY <2>2 DEF MutexOK
  <2> QED
    BY <2>1, <2>2, <2>3, <2>4 DEF MutexOK, Up, Others, TypeOK
<1>5. ASSUME NEW c \in Clients, ChangeSave(c) PROVE MutexOK'
  <2>1. authMu = NoOne /\ req[c].pc = "save" /\ server'.pc = server.pc
    BY <1>5 DEF ChangeSave, TypeOK, Servers
  <2>2. Up /\ \A d \in Clients : req[d].pc # "write"
    BY <1>0, <2>1 DEF MutexOK
  <2>3. \/ authMu' = c /\ req'[c].pc = "write" /\ req'[c].data = Config(server')
        \/ authMu' = NoOne /\ req'[c] = NoRequest
    <3>1. CASE Done(c)
      BY <1>0, <1>5, <2>1, <3>1 DEF ChangeSave, Done, NoRequest, Requests
    <3>2. CASE ~Done(c)
      BY <1>0, <1>5, <3>2 DEF ChangeSave, Requests
    <3> QED
      BY <3>1, <3>2
  <2>4. Others(c)
    BY <1>0, <1>5, RequestMoves
  <2>5. CASE authMu' = c /\ req'[c].pc = "write" /\ req'[c].data = Config(server')
    BY <1>0, <2>1, <2>2, <2>4, <2>5 DEF MutexOK, Up, Others
  <2>6. CASE authMu' = NoOne /\ req'[c] = NoRequest
    BY <1>0, <2>1, <2>2, <2>4, <2>6 DEF MutexOK, Up, Others, NoRequest
  <2> QED
    BY <2>3, <2>5, <2>6
<1>6. ASSUME NEW c \in Clients, ChangeWrite(c) PROVE MutexOK'
  <2>1. Others(c) /\ req[c].pc = "write" /\ req'[c].pc = "idle"
    BY <1>0, <1>6, RequestMoves DEF NoRequest
  <2>2. authMu' = NoOne /\ UNCHANGED server
    BY <1>6 DEF ChangeWrite
  <2>3. authMu = c /\ Up
    BY <1>0, <2>1 DEF MutexOK
  <2> QED
    BY <1>0, <2>1, <2>2, <2>3 DEF MutexOK, Up, Others
<1> QED
  BY <1>1, <1>2, <1>3, <1>4, <1>5, <1>6 DEF Next

\* A file that is empty, or written, is not missing.
LEMMA NotMissing ==
  ASSUME TypeOK
  PROVE  /\ Empty # Missing /\ Config(server) # Missing
         /\ [hash |-> cli.hash, secret |-> cli.secret] # Missing
BY DEF Empty, Missing, Config, TypeOK, Servers, Commands

\* What the file is at the end of a start is what the server runs with.
LEMMA StartedConfig ==
  ASSUME NEW c \in Accounts, Started(c)
  PROVE  /\ server'.pc \in {"down", "up"}
         /\ server'.pc = "up" => Config(server') = c
BY DEF Started, Config, Accounts

\* Starting, stopping and time keep what is known of the file.
LEMMA StartKeepsFile ==
  ASSUME TypeOK, TypeOK', MutexOK, FileOK, Tick \/ Start \/ StartTruncate \/ StartWrite \/ Stop
  PROVE  FileOK'
<1>0. crossed \in BOOLEAN /\ unsaved \in BOOLEAN
  BY DEF TypeOK
<1>1. CASE Tick
  <2>1. UNCHANGED <<disk, boots, server, authMu, cli, unsaved, crossed>>
    BY <1>1 DEF Tick, files
  <2> QED
    BY <2>1 DEF FileOK, Up
<1>2. CASE Start
  <2>1. PICK c : /\ Loaded(c)
                 /\ IF disk = Missing
                    THEN server' = [pc |-> "boot", hash |-> c.hash, secret |-> c.secret]
                    ELSE Started(c)
    BY <1>2 DEF Start
  <2>2. c \in Accounts /\ boots \in Nat
    BY <2>1, LoadedTypes DEF TypeOK
  <2>3. /\ UNCHANGED <<disk, authMu, cli>> /\ unsaved' = FALSE /\ server.pc = "down"
        /\ crossed' = (crossed \/ disk = Empty \/ boots' > 1)
    BY <1>2 DEF Start, StartRest
  <2>4. authMu = NoOne
    BY <2>3 DEF MutexOK, Up
  <2>5. CASE disk = Missing
    <3>1. server'.pc = "boot" /\ boots' = boots + 1
      BY <2>1, <2>5 DEF Loaded
    <3>2. cli.pc = "boot" => crossed \/ boots > 0
      BY <2>5 DEF FileOK
    <3>3. ~crossed' => ~crossed /\ ~(boots' > 1)
      BY <1>0, <2>3, Zenon
    <3>4. cli.pc = "boot" => crossed'
      BY <2>2, <3>1, <3>2, <3>3
    <3> QED
      BY <2>2, <2>3, <2>4, <2>5, <3>1, <3>4 DEF FileOK, Up
  <2>6. CASE disk # Missing
    <3>1. server'.pc \in {"down", "up"} /\ (server'.pc = "up" => Config(server') = disk)
      BY <2>1, <2>2, <2>6, StartedConfig DEF Loaded
    <3>2. ~crossed' => ~crossed /\ disk # Empty
      BY <1>0, <2>3, Zenon
    <3> QED
      BY <2>3, <2>4, <2>6, <3>1, <3>2 DEF FileOK, Up
  <2> QED
    BY <2>5, <2>6
<1>3. CASE StartTruncate
  <2>1. /\ server.pc = "boot" /\ server'.pc = "booting" /\ disk' = Empty
        /\ crossed' = (crossed \/ disk # Missing) /\ UNCHANGED <<boots, unsaved, authMu, cli>>
    BY <1>3 DEF StartTruncate, StartRest, TypeOK, Servers
  <2>2. ~crossed' => ~crossed /\ disk = Missing
    BY <1>0, <2>1, Zenon
  <2>3. authMu = NoOne
    BY <2>1 DEF MutexOK, Up
  <2> QED
    BY <2>1, <2>2, <2>3, NotMissing DEF FileOK, Up
<1>4. CASE StartWrite
  <2>1. /\ server.pc = "booting" /\ disk' = Config(server) /\ Started(Config(server))
        /\ crossed' = (crossed \/ disk # Empty) /\ UNCHANGED <<boots, unsaved, authMu, cli>>
    BY <1>4 DEF StartWrite, StartRest
  <2>2. ~crossed' => ~crossed
    BY <1>0, <2>1, Zenon
  <2>3. server'.pc \in {"down", "up"} /\ (server'.pc = "up" => Config(server') = disk')
    BY <2>1, StartedConfig, ServerTypes DEF TypeOK
  <2>4. authMu = NoOne
    BY <2>1 DEF MutexOK, Up
  <2> QED
    BY <2>1, <2>2, <2>3, <2>4, NotMissing DEF FileOK, Up
<1>5. CASE Stop
  <2>1. /\ server'.pc = "down" /\ authMu' = NoOne /\ server.pc # "down"
        /\ crossed' = (crossed \/ server.pc = "booting" \/ \E c \in Clients : req[c].pc = "write")
        /\ UNCHANGED <<disk, boots, cli, unsaved>>
    BY <1>5 DEF Stop, files
  <2>2. ~crossed' => ~crossed
    BY <1>0, <2>1, Zenon
  <2> QED
    BY <2>1, <2>2 DEF FileOK, Up
<1> QED
  BY <1>1, <1>2, <1>3, <1>4, <1>5

\* Requests keep what is known of the file.
LEMMA RequestKeepsFile ==
  ASSUME TypeOK, TypeOK', MutexOK, FileOK, NEW c \in Clients,
         \/ LoginBegin(c) \/ LoginVerify(c) \/ LoginFails(c) \/ LoginSucceeds(c)
         \/ Present(c) \/ Lookup(c) \/ Admit(c) \/ Visit(c) \/ Logout(c)
         \/ ChangeBegin(c) \/ ChangeSave(c) \/ ChangeWrite(c)
  PROVE  FileOK'
<1>0. crossed \in BOOLEAN /\ unsaved \in BOOLEAN /\ NoOne \notin Clients
  BY UIAuthAssumption DEF TypeOK
<1>1. CASE \/ LoginBegin(c) \/ LoginVerify(c) \/ LoginFails(c) \/ LoginSucceeds(c)
           \/ Present(c) \/ Lookup(c) \/ Admit(c) \/ Visit(c) \/ Logout(c) \/ ChangeBegin(c)
  <2>1. UNCHANGED <<disk, boots, server, authMu, cli, unsaved, crossed>>
    BY <1>1 DEF LoginBegin, LoginVerify, LoginFails, LoginSucceeds, Present, Lookup, Admit, Visit,
       Logout, ChangeBegin, Request, files
  <2> QED
    BY <2>1 DEF FileOK, Up
<1>2. CASE ChangeSave(c)
  <2>1. Up /\ authMu = NoOne
    BY <1>2 DEF ChangeSave, MutexOK
  <2>2. server'.pc = "up" /\ UNCHANGED <<boots, cli>>
    BY <1>2, <2>1 DEF ChangeSave, Saving, TypeOK, Servers, Up
  <2>3. CASE disk' = Empty /\ authMu' = c /\ crossed' = (crossed \/ cli.pc \in {"booting", "saving"})
    <3>1. ~crossed' => ~crossed /\ cli.pc \notin {"booting", "saving"}
      BY <1>0, <2>3, Zenon
    <3> QED
      BY <1>0, <2>1, <2>2, <2>3, <3>1, NotMissing DEF FileOK, Up
  <2>4. CASE unsaved' = TRUE /\ UNCHANGED <<disk, authMu, crossed>>
    BY <2>1, <2>2, <2>4 DEF FileOK, Up
  <2> QED
    BY <1>2, <2>3, <2>4 DEF ChangeSave
<1>3. CASE ChangeWrite(c)
  <2>1. Up /\ authMu = c /\ req[c].data = Config(server)
    BY <1>0, <1>3 DEF ChangeWrite, MutexOK
  <2>2. /\ disk' = Config(server) \/ (disk' = disk /\ unsaved' = TRUE)
        /\ authMu' = NoOne
        /\ crossed' = (crossed \/ cli.pc \in {"booting", "saving"})
        /\ UNCHANGED <<server, boots, cli>>
    BY <1>3, <2>1 DEF ChangeWrite, Saving
  <2>3. ~crossed' => ~crossed /\ cli.pc \notin {"booting", "saving"}
    BY <1>0, <2>2, Zenon
  <2>4. disk # Missing /\ disk' # Missing
    BY <2>1, <2>2, NotMissing DEF FileOK, Up
  <2> QED
    BY <2>1, <2>2, <2>3, <2>4 DEF FileOK, Up
<1> QED
  BY <1>1, <1>2, <1>3

\* The commands keep what is known of the file.
LEMMA CliKeepsFile ==
  ASSUME TypeOK, TypeOK', MutexOK, FileOK, CliLoad \/ CliRefuse \/ CliTruncate \/ CliWrite
  PROVE  FileOK'
<1>0. crossed \in BOOLEAN /\ unsaved \in BOOLEAN
  BY DEF TypeOK
<1>1. CASE CliLoad
  <2>1. PICK c : /\ Loaded(c)
                 /\ cli' = [pc |-> IF disk = Missing THEN "boot" ELSE "ask",
                            hash |-> c.hash, secret |-> c.secret]
    BY <1>1 DEF CliLoad
  <2>2. /\ cli.pc = "idle" /\ crossed' = (crossed \/ disk = Empty \/ boots' > 1)
        /\ UNCHANGED <<disk, unsaved, server, authMu>>
    BY <1>1 DEF CliLoad, Command
  <2>3. ~crossed' => ~crossed /\ disk # Empty /\ ~(boots' > 1)
    BY <1>0, <2>2, Zenon
  <2>4. CASE disk = Missing
    <3>1. cli'.pc = "boot" /\ boots' = boots + 1 /\ boots \in Nat
      BY <2>1, <2>4 DEF Loaded, TypeOK
    <3>2. server.pc = "boot" => crossed'
      BY <2>3, <3>1 DEF FileOK
    <3> QED
      BY <2>2, <2>3, <2>4, <3>1, <3>2 DEF FileOK, Up
  <2>5. CASE disk # Missing
    <3>1. cli'.pc = "ask" /\ boots' = boots
      BY <2>1, <2>5 DEF Loaded
    <3> QED
      BY <2>2, <2>3, <2>5, <3>1 DEF FileOK, Up
  <2> QED
    BY <2>4, <2>5
<1>2. CASE CliRefuse
  <2>1. cli'.pc = "idle" /\ cli.pc = "ask"
    BY <1>2 DEF CliRefuse, TypeOK, Commands
  <2>2. UNCHANGED <<disk, boots, unsaved, crossed, server, authMu>>
    BY <1>2 DEF CliRefuse, Command, files
  <2> QED
    BY <2>1, <2>2 DEF FileOK, Up
<1>3. CASE CliTruncate
  <2>1. \/ cli.pc = "boot" /\ cli'.pc = "booting"
        \/ cli.pc = "ask" /\ cli'.pc = "saving"
    BY <1>3 DEF CliTruncate, TypeOK, Commands
  <2>2. /\ disk' = Empty /\ unsaved' = TRUE /\ crossed' = (crossed \/ disk = Empty)
        /\ UNCHANGED <<boots, server, authMu>>
    BY <1>3 DEF CliTruncate, Command
  <2>3. ~crossed' => ~crossed /\ disk # Empty
    BY <1>0, <2>2, Zenon
  <2> QED
    BY <2>1, <2>2, <2>3, NotMissing DEF FileOK, Up
<1>4. CASE CliWrite
  <2>1. cli.pc \in {"booting", "saving"} /\ cli'.pc \in {"ask", "idle"}
    BY <1>4 DEF CliWrite, TypeOK, Commands
  <2>2. /\ \/ /\ disk' = [hash |-> cli.hash, secret |-> cli.secret]
              /\ crossed' = (crossed \/ disk # Empty)
           \/ disk' = disk /\ crossed' = TRUE
        /\ UNCHANGED <<boots, unsaved, server, authMu>>
    BY <1>4 DEF CliWrite, Command
  <2>3. ~crossed' => ~crossed
    BY <1>0, <2>2, Zenon
  <2> QED
    BY <2>1, <2>2, <2>3, NotMissing DEF FileOK, Up
<1> QED
  BY <1>1, <1>2, <1>3, <1>4

\* Every step keeps what is known of the file.
LEMMA FileNext ==
  ASSUME TypeOK, TypeOK', MutexOK, FileOK, [Next]_vars
  PROVE  FileOK'
<1>1. CASE UNCHANGED vars
  BY <1>1 DEF vars, files, FileOK, Up
<1> QED
  BY <1>1, StartKeepsFile, RequestKeepsFile, CliKeepsFile DEF Next

-----------------------------------------------------------------------------
(* UIAuth: the theorems.                                                   *)

\* The initial state satisfies the invariant.
LEMMA AuthInvInit == Init => AuthInv
<1> SUFFICES ASSUME Init PROVE AuthInv
  OBVIOUS
<1>1. SessionsOK
  BY SessionsInit
<1>2. LimiterOK
  BY DEF Init, LimiterOK
<1>3. HashOK /\ MutexOK
  BY UIAuthAssumption DEF Init, HashOK, MutexOK, Up, NoRequest
<1>4. FileOK
  BY DEF Init, FileOK, Up
<1> QED
  BY <1>1, <1>2, <1>3, <1>4 DEF AuthInv

\* Every step keeps the types: the cookie that a request is admitted, or logs
\* out, with is one that was issued.
LEMMA AuthTypeNext ==
  ASSUME TypeOK, SessionsOK, [Next]_vars
  PROVE  TypeOK'
<1>1. CASE UNCHANGED vars
  BY <1>1 DEF vars, files, login, limiter, TypeOK
<1>2. ASSUME NEW c \in Clients, Lookup(c) \/ Logout(c) PROVE TypeOK'
  <2>1. req[c].cookie \in Cookies
    BY <1>2 DEF Lookup, Logout, SessionsOK, SessionOf, WithCookie
  <2> QED
    BY <1>2, <2>1, SessionKeepsTypes
<1> QED
  BY <1>1, <1>2, StartKeepsTypes, LoginKeepsTypes, SessionKeepsTypes, ChangeKeepsTypes, CliKeepsTypes
     DEF Next

\* Every step keeps the invariant.
LEMMA AuthNext ==
  ASSUME TypeOK, AuthInv, [Next]_vars
  PROVE  TypeOK' /\ AuthInv'
<1>1. SessionsOK /\ LimiterOK /\ HashOK /\ MutexOK /\ FileOK
  BY DEF AuthInv
<1>2. TypeOK'
  BY <1>1, AuthTypeNext
<1>3. SessionsOK' /\ LimiterOK' /\ HashOK' /\ MutexOK' /\ FileOK'
  BY <1>1, <1>2, SessionsNext, LimiterNext, HashNext, MutexNext, FileNext
<1> QED
  BY <1>2, <1>3 DEF AuthInv

\* Types and the inductive invariant: cookies agree with their sessions, the
\* limiter counts the logins under way, one request at a time writes ui.yaml,
\* and two processes do not without leaving a trace in `crossed`.
THEOREM AuthInvariant == Spec => [](TypeOK /\ AuthInv)
<1>1. Init => TypeOK /\ AuthInv
  BY AuthTypeInit, AuthInvInit
<1>2. TypeOK /\ AuthInv /\ [Next]_vars => TypeOK' /\ AuthInv'
  BY AuthNext
<1> QED
  BY <1>1, <1>2, PTL DEF Spec

\* Whichever copy of its cookie is presented (sessionManager.verify), no request
\* passes the clock after the lifetime of its session or after a pause longer
\* than the idle timeout, and none passes the lookup after the logout unless the
\* lifetime ran out in between, for any number of tabs and sessions.
THEOREM SessionsTheorem == Spec => SessionsEnd
<1> DEFINE Live(c) ==
        LET i == req'[c].cookie.id IN
        /\ req[c].pc = "idle" /\ req'[c].pc = "check" =>
               clock <= born[i] + Lifetime /\ clock - used[i] <= Idle
        /\ req[c].pc # "known" /\ req'[c].pc = "known" =>
               (i \in ended => clock > born[i] + Lifetime)
<1>1. TypeOK /\ AuthInv /\ [Next]_vars => [\A c \in Clients : Live(c)]_vars
  BY ToTheSession, PresentsLive, AdmitsLive DEF AuthInv
<1> QED
  BY <1>1, AuthInvariant, PTL DEF Spec, SessionsEnd

\* Within a second, no more logins fail beyond the free ones than requests were
\* under way at once (loginRateLimiter), whatever the limits, the width of the
\* shift and the number of failures in a row.
THEOREM FailuresTheorem == Spec => []FailuresAreSlowed
<1>1. TypeOK /\ AuthInv => FailuresAreSlowed
  BY Counted DEF AuthInv, LimiterOK, FailuresAreSlowed, TypeOK
<1> QED
  BY <1>1, AuthInvariant, PTL

\* ui.yaml holds what the server holds while nobody writes it and no command,
\* failed save or second process came between (SaveAuthConfig under authMu), and
\* a server beyond the loopback addresses never has the default password.
THEOREM ConfigTheorem == Spec => []ConfigIsSaved
<1>1. ASSUME TypeOK, AuthInv PROVE ConfigIsSaved
  <2>1. (\A c \in Clients : req[c].pc # "write") => authMu = NoOne
    BY <1>1 DEF AuthInv, MutexOK, TypeOK
  <2> QED
    BY <1>1, <2>1 DEF AuthInv, HashOK, FileOK, ConfigIsSaved
<1> QED
  BY <1>1, AuthInvariant, PTL

-----------------------------------------------------------------------------
(* ServiceControl: types.                                                  *)

\* The initial state has its types.
LEMMA ServiceTypeInit == ServiceInit => ServiceTypeOK
<1> SUFFICES ASSUME ServiceInit PROVE ServiceTypeOK
  OBVIOUS
<1>1. foreground \in BOOLEAN /\ partial \in BOOLEAN
  BY Zenon DEF ServiceInit
<1> QED
  BY <1>1 DEF ServiceInit, ServiceTypeOK, ProcStates, Methods

\* The commands act on one of the two registrations.
LEMMA TargetType == ASSUME ServiceTypeOK PROVE Target \in Methods
BY DEF ServiceTypeOK, Target, Methods

\* The manager of a process that is asked to end leaves the types as they are.
LEMMA EndedKeepsTypes ==
  ASSUME ServiceTypeOK, NEW t \in Methods, Ended(t)
  PROVE  /\ proc' \in [Methods -> ProcStates]
         /\ file' \in Methods \cup {None, Dead}
         /\ hidden' \subseteq Methods
BY DEF ServiceTypeOK, Ended, Killed, ProcStates

\* The commands of the operator keep the types.
LEMMA CommandKeepsTypes ==
  ASSUME ServiceTypeOK,
         \/ Install \/ InstallRecord \/ Uninstall \/ UninstallRecord
         \/ ServiceStart \/ ServiceStop \/ ServiceRestart
  PROVE  ServiceTypeOK'
<1> USE DEF ServiceTypeOK, counters
<1>1. CASE Install
  <2>1. Regs \subseteq Methods
    BY DEF Regs, Methods
  <2> QED
    BY <1>1, <2>1 DEF Install, BeginsCommand, Processes
<1>2. CASE InstallRecord
  <2>1. cmd.on \in Methods /\ cmd' = NoCommand
    BY <1>2 DEF InstallRecord, NoCommand
  <2>2. partial' \in BOOLEAN
    BY <1>2, Zenon DEF InstallRecord
  <2> QED
    BY <1>2, <2>1, <2>2 DEF InstallRecord, Processes, Fail
<1>3. CASE Uninstall
  <2>1. cmd' \in [op : {"install", "uninstall"}, on : Methods] \cup {NoCommand}
    BY <1>3, TargetType DEF Uninstall
  <2> QED
    BY <1>3, <2>1 DEF Uninstall, BeginsCommand, Processes, Fail
<1>4. CASE UninstallRecord
  BY <1>4 DEF UninstallRecord, Processes, Fail
<1>5. CASE ServiceStart
  BY <1>5, TargetType DEF ServiceStart, Control, BeginsCommand, Processes
<1>6. CASE ServiceStop
  BY <1>6, TargetType, EndedKeepsTypes DEF ServiceStop, Control, BeginsCommand
<1>7. CASE ServiceRestart
  BY <1>7, TargetType, EndedKeepsTypes DEF ServiceRestart, Control, BeginsCommand,
     Fail
<1> QED
  BY <1>1, <1>2, <1>3, <1>4, <1>5, <1>6, <1>7

\* The processes keep the types.
LEMMA ProcessKeepsTypes ==
  ASSUME ServiceTypeOK, NEW r \in Methods,
         \/ Launch(r) \/ Listen(r) \/ Write(r) \/ ServeFails(r)
         \/ Shutdown(r) \/ RemoveState(r) \/ Crash(r)
  PROVE  ServiceTypeOK'
<1> USE DEF ServiceTypeOK, ProcStates, counters, Process,
   installation
<1>1. CASE Launch(r)
  BY <1>1 DEF Launch
<1>2. CASE Listen(r)
  BY <1>2 DEF Listen, RestartPolicy, Fail
<1>3. CASE Write(r)
  BY <1>3 DEF Write, Fail
<1>4. CASE ServeFails(r)
  BY <1>4 DEF ServeFails, Fail
<1>5. CASE Shutdown(r)
  BY <1>5 DEF Shutdown
<1>6. CASE RemoveState(r)
  BY <1>6 DEF RemoveState
<1>7. CASE Crash(r)
  BY <1>7 DEF Crash, Killed, RestartPolicy
<1> QED
  BY <1>1, <1>2, <1>3, <1>4, <1>5, <1>6, <1>7

\* So do `lytecache ui` in the foreground, and a restart of the machine.
LEMMA RestKeepsTypes ==
  ASSUME ServiceTypeOK, RunUI \/ EndUI \/ Reboot \/ UNCHANGED serviceVars
  PROVE  ServiceTypeOK'
<1> USE DEF ServiceTypeOK, ProcStates, counters, installation
<1>1. CASE RunUI
  BY <1>1 DEF RunUI
<1>2. CASE EndUI
  BY <1>2 DEF EndUI
<1>3. CASE Reboot
  <2>1. partial' \in BOOLEAN /\ foreground' \in BOOLEAN
    BY <1>3, Zenon DEF Reboot
  <2>2. /\ file' \in Methods \cup {None, Dead}
        /\ proc' \in [Methods -> ProcStates]
    BY <1>3 DEF Reboot
  <2>3. /\ cmd' = NoCommand /\ hidden' = {} /\ wanted' = registered
        /\ reboots' \in Nat
        /\ UNCHANGED <<platform, registered, record, issued, last, fails, crashes, runs>>
    BY <1>3 DEF Reboot
  <2> QED
    BY <2>1, <2>2, <2>3
<1>4. CASE UNCHANGED serviceVars
  BY <1>4 DEF serviceVars
<1> QED
  BY <1>1, <1>2, <1>3, <1>4

\* Every step keeps the types.
LEMMA ServiceTypeNext == ServiceTypeOK /\ [ServiceNext]_serviceVars => ServiceTypeOK'
BY CommandKeepsTypes, ProcessKeepsTypes, RestKeepsTypes DEF ServiceNext

\* Every variable keeps its type.
THEOREM ServiceTypeCorrect == ServiceSpec => []ServiceTypeOK
BY ServiceTypeInit, ServiceTypeNext, PTL DEF ServiceSpec

-----------------------------------------------------------------------------
\* At the start nothing is bound, written or registered.
LEMMA ServiceInvInit == ServiceInit => ServiceInv
<1> SUFFICES ASSUME ServiceInit PROVE ServiceInv
  OBVIOUS
<1>1. OnePort
  BY DEF ServiceInit, OnePort, Bound, Methods, None
<1>2. FileIsCurrent
  BY DEF ServiceInit, FileIsCurrent, Methods, None
<1>3. RecordLeads
  BY DEF ServiceInit, RecordLeads, NoCommand
<1> QED
  BY <1>1, <1>2, <1>3 DEF ServiceInv

\* A process that ends at the request of its manager frees the port, or keeps
\* it until it has shut down; killed, it leaves no state file that names it.
LEMMA EndedKeepsInv ==
  ASSUME ServiceTypeOK, OnePort, FileIsCurrent,
         NEW t \in Methods, Ended(t),
         UNCHANGED foreground
  PROVE  OnePort' /\ FileIsCurrent'
<1> USE DEF ServiceTypeOK, ProcStates
<1>1. OnePort'
  BY DEF OnePort, Bound, Ended, Killed, None
<1>2. FileIsCurrent'
  BY DEF FileIsCurrent, Ended, Killed, None, Dead,
     Methods
<1> QED
  BY <1>1, <1>2

\* Processes bind the port only when it is free, write the state file while
\* they have it, and remove the file at the end.
LEMMA ProcessKeepsInv ==
  ASSUME ServiceTypeOK, OnePort, FileIsCurrent, NEW r \in Methods,
         \/ Launch(r) \/ Listen(r) \/ Write(r) \/ ServeFails(r)
         \/ Shutdown(r) \/ RemoveState(r) \/ Crash(r)
  PROVE  OnePort' /\ FileIsCurrent'
<1> USE DEF ServiceTypeOK, ProcStates, Process, Bound, OnePort,
   FileIsCurrent
<1>1. CASE Launch(r)
  BY <1>1 DEF Launch, None
<1>2. CASE Listen(r)
  BY <1>2 DEF Listen, PortIsFree, None
<1>3. CASE Write(r)
  BY <1>3 DEF Write
<1>4. CASE ServeFails(r)
  BY <1>4 DEF ServeFails
<1>5. CASE Shutdown(r)
  BY <1>5 DEF Shutdown
<1>6. CASE RemoveState(r)
  BY <1>6 DEF RemoveState, None, Methods
<1>7. CASE Crash(r)
  BY <1>7 DEF Crash, Killed, None, Dead, Methods
<1> QED
  BY <1>1, <1>2, <1>3, <1>4, <1>5, <1>6, <1>7

\* The record leads to the last install through every command, although each of
\* its two steps may fail or be the last before the machine restarts.
LEMMA RecordNext ==
  ASSUME ServiceTypeOK, RecordLeads, [ServiceNext]_serviceVars
  PROVE  RecordLeads'
<1>1. cmd.op = "idle" <=> cmd = NoCommand
  BY DEF ServiceTypeOK, NoCommand
<1> USE DEF RecordLeads, Target
<1>2. CASE Install
  BY <1>2 DEF Install
<1>3. CASE InstallRecord
  BY <1>3 DEF InstallRecord, NoCommand, ServiceTypeOK, Methods, None
<1>4. CASE Uninstall
  BY <1>4, <1>1 DEF Uninstall, BeginsCommand, NoCommand
<1>5. CASE UninstallRecord
  BY <1>5 DEF UninstallRecord, NoCommand
<1>6. CASE ServiceStart \/ ServiceStop \/ ServiceRestart
  BY <1>6 DEF ServiceStart, ServiceStop, ServiceRestart, Control
<1>7. CASE Reboot
  BY <1>7 DEF Reboot, NoCommand
<1>8. CASE UNCHANGED installation
  BY <1>8 DEF installation
<1>9. \/ UNCHANGED installation
      \/ Install \/ InstallRecord \/ Uninstall \/ UninstallRecord
      \/ ServiceStart \/ ServiceStop \/ ServiceRestart \/ Reboot
  BY DEF ServiceNext, serviceVars, Launch, Listen, Write,
     ServeFails, Shutdown, RemoveState, Crash, Process,
     RunUI, EndUI
<1> QED
  BY <1>2, <1>3, <1>4, <1>5, <1>6, <1>7, <1>8, <1>9

\* Every step keeps the invariant.
LEMMA ServiceInvNext ==
  ASSUME ServiceTypeOK, ServiceInv, [ServiceNext]_serviceVars
  PROVE  ServiceInv'
<1> USE DEF ServiceInv
<1>1. RecordLeads'
  BY RecordNext
<1>2. CASE \/ Install \/ InstallRecord \/ Uninstall
           \/ UninstallRecord \/ ServiceStart
  <2>1. UNCHANGED <<proc, file, foreground, hidden>>
    BY <1>2 DEF Install, InstallRecord, Uninstall,
       UninstallRecord, ServiceStart, Processes
  <2> QED
    BY <1>1, <2>1 DEF OnePort, Bound, FileIsCurrent
<1>3. CASE ServiceStop \/ ServiceRestart
  <2>1. Ended(Target) /\ UNCHANGED foreground
    BY <1>3 DEF ServiceStop, ServiceRestart
  <2> QED
    BY <1>1, <2>1, TargetType, EndedKeepsInv
<1>4. ASSUME NEW r \in Methods,
             \/ Launch(r) \/ Listen(r) \/ Write(r) \/ ServeFails(r)
             \/ Shutdown(r) \/ RemoveState(r) \/ Crash(r)
      PROVE  OnePort' /\ FileIsCurrent'
  BY <1>4, ProcessKeepsInv
<1>5. CASE RunUI \/ EndUI
  BY <1>1, <1>5 DEF RunUI, EndUI, PortIsFree, OnePort,
     Bound, FileIsCurrent
<1>6. CASE Reboot
  BY <1>1, <1>6 DEF Reboot, OnePort, Bound, FileIsCurrent,
     None, Dead, Methods
<1>7. CASE UNCHANGED serviceVars
  BY <1>1, <1>7 DEF serviceVars, OnePort, Bound, FileIsCurrent
<1> QED
  BY <1>1, <1>2, <1>3, <1>4, <1>5, <1>6, <1>7 DEF ServiceNext

\* The inductive invariant: one process has the port, the state file is that of
\* a process that wrote it, and the record leads to the last install.
THEOREM ServiceInvariant == ServiceSpec => []ServiceInv
<1>1. ServiceInit => ServiceTypeOK /\ ServiceInv
  BY ServiceTypeInit, ServiceInvInit
<1>2. ServiceTypeOK /\ ServiceInv /\ [ServiceNext]_serviceVars =>
         ServiceTypeOK' /\ ServiceInv'
  BY ServiceTypeNext, ServiceInvNext
<1> QED
  BY <1>1, <1>2, PTL DEF ServiceSpec

\* The address that `service status` shows was bound by the process it names, and
\* a process that serves is shown, unless it is hidden or status takes the
\* service for not installed.
THEOREM StatusTheorem == ServiceSpec => []StatusIsTrue
<1>1. ServiceTypeOK /\ ServiceInv => StatusIsTrue
  BY DEF ServiceTypeOK, ServiceInv, FileIsCurrent, StatusIsTrue,
     Status, Asked, None, Methods
<1> QED
  BY <1>1, ServiceTypeCorrect, ServiceInvariant, PTL

\* Start, stop, restart and uninstall act on what the last completed install
\* registered, as long as it is registered.
THEOREM CommandsTheorem == ServiceSpec => []CommandsReachTheInstall
<1>1. ServiceInv => CommandsReachTheInstall
  BY DEF ServiceInv, RecordLeads, CommandsReachTheInstall, NoCommand
<1> QED
  BY <1>1, ServiceInvariant, PTL
=============================================================================
