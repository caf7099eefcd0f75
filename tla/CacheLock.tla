------------------------------ MODULE CacheLock ------------------------------
(***************************************************************************)
(* The distributed lock of lytecache-go/lock.go: a row of the cache with a *)
(* random token as its value and the timeout as its TTL, taken with add    *)
(* (kv.go) and removed by Release if the token still matches. The lock row *)
(* is an ordinary row: it counts against the capacity limits, is evicted   *)
(* by enforceCapacity (sweep.go), removed by the sweeper, by Flush, and by *)
(* any read that finds it expired.                                         *)
(*                                                                         *)
(* One lock name. The other rows of the namespace have no TTL and are      *)
(* counted: `others` of them, `older` of which were accessed before the    *)
(* lock row was written, which is all the LRU order has to say about it.   *)
(* A token is the number of the Lock call. The wall clock does not go back.*)
(***************************************************************************)
EXTENDS Integers, FiniteSets

CONSTANTS
    Clients,        \* goroutines, of any number of processes
    Timeout,        \* the timeout given to Lock
    Policy,         \* WithEviction: "lru", "ttl", "random" or "noeviction"
    MaxKeys,        \* WithMaxKeys, 0 for none
    Others,         \* the other rows of the namespace at the start
    Env,            \* what else happens: "set", "touch", "read", "flush"
    MaxLocks,       \* bound: calls of Lock
    MaxOthers,      \* bound: other rows
    MaxTime         \* bound: readings of the wall clock

ASSUME CacheLockAssumption ==
    /\ Timeout \in Nat /\ MaxKeys \in Nat /\ Others \in Nat
    /\ Policy \in {"lru", "ttl", "random", "noeviction"}
    /\ Env \subseteq {"set", "touch", "read", "flush"}
    /\ MaxLocks \in Nat /\ MaxOthers \in Nat /\ MaxTime \in Nat

VARIABLES
    row,            \* the lock row
    others,         \* number of other rows
    older,          \* how many of them precede the lock row in LRU order
    now,            \* the wall clock
    locks,          \* calls of Lock so far
    pc,             \* client |-> where its call is
    token,          \* client |-> the token of its Lock, 0 in other calls
    deadline,       \* client |-> when its Lock gives up
    at,             \* client |-> the clock value of its current statement
    until,          \* client |-> expires_at of the lock row it wrote
    reader,         \* a read of the lock row has found it expired
    lost            \* history: clients whose lock row was removed by others

rowVars == <<row, others, older>>
vars == <<rowVars, now, locks, pc, token, deadline, at, until, reader, lost>>

-----------------------------------------------------------------------------
(* Definitions whose name says what they get wrong are the mutated forms   *)
(* used to show that the properties can fail; no specification uses them.  *)

NoRow == [token |-> 0, exp |-> 0]
Present == row # NoRow
Expired(t) == row.exp <= t
Limited == MaxKeys # 0 /\ Policy # "noeviction"
Count == others + (IF Present THEN 1 ELSE 0)

\* checkCapacity: under NoEviction there is no room for a new row.
Full == Policy = "noeviction" /\ MaxKeys # 0 /\ Count >= MaxKeys

Init ==
    /\ row = NoRow
    /\ others = Others /\ older = 0
    /\ now = 0
    /\ locks = 0
    /\ pc = [c \in Clients |-> "idle"]
    /\ token = [c \in Clients |-> 0]
    /\ deadline = [c \in Clients |-> 0]
    /\ at = [c \in Clients |-> 0]
    /\ until = [c \in Clients |-> 0]
    /\ reader = FALSE
    /\ lost = {}

\* Bound: the clock stands at Horizon until no add is under way, so that every
\* lock expires by MaxTime; a Lock called too late to time out by then is not
\* considered.
Horizon == MaxTime - Timeout

Tick ==
    /\ now < MaxTime
    /\ now >= Horizon => \A c \in Clients : pc[c] \notin {"try", "insert"}
    /\ now' = now + 1
    /\ UNCHANGED <<rowVars, locks, pc, token, deadline, at, until, reader, lost>>

\* c's call goes on at l; when it has returned, its local variables are gone.
Goto(c, l) ==
    /\ pc' = [pc EXCEPT ![c] = l]
    /\ UNCHANGED <<token, deadline, at, until, lost>>
Leave(c) ==
    /\ pc' = [pc EXCEPT ![c] = "idle"]
    /\ token' = [token EXCEPT ![c] = 0]
    /\ deadline' = [deadline EXCEPT ![c] = 0]
    /\ at' = [at EXCEPT ![c] = 0]
    /\ until' = [until EXCEPT ![c] = 0]
    /\ lost' = lost \ {c}

\* Somebody else's statement removes the lock row, whosever it is.
RemoveRow ==
    /\ row' = NoRow
    /\ lost' = lost \cup {c \in Clients : token[c] # 0 /\ token[c] = row.token}

\* Where a call goes once the namespace is within its limit.
WithinLimit(c) == IF token[c] # 0 THEN Goto(c, "held") ELSE Leave(c)

-----------------------------------------------------------------------------
(* Lock and Release.                                                       *)

Lock(c) ==
    /\ pc[c] = "idle"
    /\ locks < MaxLocks /\ now + Timeout <= Horizon
    /\ locks' = locks + 1
    /\ token' = [token EXCEPT ![c] = locks + 1]
    /\ deadline' = [deadline EXCEPT ![c] = now + Timeout]
    /\ pc' = [pc EXCEPT ![c] = "try"]
    /\ UNCHANGED <<rowVars, now, at, until, reader, lost>>

\* add: a new row must fit; then the clock is read for the statement.
Try(c) ==
    /\ pc[c] = "try"
    /\ IF ~Present /\ Full
       THEN Leave(c)
       ELSE /\ pc' = [pc EXCEPT ![c] = "insert"]
            /\ at' = [at EXCEPT ![c] = now]
            /\ UNCHANGED <<token, deadline, until, lost>>
    /\ UNCHANGED <<rowVars, now, locks, reader>>

\* add: the upsert applies to an absent or expired row. Then maybeEvict.
InsertWithTTL(c, absent, e) ==
    /\ pc[c] = "insert"
    /\ IF absent
       THEN /\ row' = [token |-> token[c], exp |-> e]
            /\ older' = others
            /\ until' = [until EXCEPT ![c] = e]
            /\ pc' = [pc EXCEPT ![c] = IF Limited THEN "count" ELSE "held"]
       ELSE /\ pc' = [pc EXCEPT ![c] = "wait"]
            /\ UNCHANGED <<row, older, until>>
    /\ UNCHANGED <<others, now, locks, token, deadline, at, reader, lost>>
InsertForever(c) == InsertWithTTL(c, ~Present \/ Expired(at[c]), MaxTime + 1)
Insert(c) == InsertWithTTL(c, ~Present \/ Expired(at[c]), at[c] + Timeout)

\* Not acquired: give up after the deadline, else sleep and try again.
Wait(c) ==
    /\ pc[c] = "wait"
    /\ IF now >= deadline[c] THEN Leave(c) ELSE Goto(c, "try")
    /\ UNCHANGED <<rowVars, now, locks, reader>>

\* Release deletes the row if the token still matches.
ReleaseUnconditional(c) ==
    /\ pc[c] = "held"
    /\ row' = NoRow
    /\ Leave(c)
    /\ UNCHANGED <<others, older, now, locks, reader>>
Release(c) ==
    /\ pc[c] = "held"
    /\ row' = IF row.token = token[c] THEN NoRow ELSE row
    /\ Leave(c)
    /\ UNCHANGED <<others, older, now, locks, reader>>

\* A holder or a waiter dies. Or a statement of add, of Release or of the set
\* fails, and the call returns the error.
Crash(c) ==
    /\ pc[c] # "idle"
    /\ Leave(c)
    /\ UNCHANGED <<rowVars, now, locks, reader>>

-----------------------------------------------------------------------------
(* Capacity: enforceCapacity counts with one statement and deletes one row *)
(* with another, until the namespace is within its limit.                  *)

CountRows(c) ==
    /\ pc[c] = "count"
    /\ IF Count > MaxKeys THEN Goto(c, "evict") ELSE WithinLimit(c)
    /\ UNCHANGED <<rowVars, now, locks, reader>>

\* evictionOrderBy: may the row that is sorted first be the lock row, and may
\* it be another one?
LockIsFirst ==
    /\ Present
    /\ CASE Policy = "ttl" -> TRUE
         [] Policy = "random" -> TRUE
         [] OTHER -> older = 0
OtherIsFirst ==
    /\ others > 0
    /\ CASE Policy = "ttl" -> ~Present
         [] Policy = "random" -> TRUE
         [] OTHER -> older > 0 \/ ~Present

EvictLock(c) ==
    /\ pc[c] = "evict"
    /\ LockIsFirst
    /\ RemoveRow
    /\ pc' = [pc EXCEPT ![c] = "count"]
    /\ UNCHANGED <<others, older, now, locks, token, deadline, at, until, reader>>

EvictOther(c) ==
    /\ pc[c] = "evict"
    /\ OtherIsFirst
    /\ others' = others - 1
    /\ \E d \in {0, 1} :
           /\ older' = older - d
           /\ IF Policy = "random" THEN older' >= 0 /\ older' <= others'
              ELSE d = (IF older > 0 THEN 1 ELSE 0)
    /\ Goto(c, "count")
    /\ UNCHANGED <<row, now, locks, reader>>

\* Nothing was left to evict.
EvictNone(c) ==
    /\ pc[c] = "evict"
    /\ ~Present /\ others = 0
    /\ WithinLimit(c)
    /\ UNCHANGED <<rowVars, now, locks, reader>>

\* Counting or evicting fails: that is logged, and the call goes on as if the
\* namespace were within its limit; a Lock returns with the lock.
EnforceFails(c) ==
    /\ pc[c] \in {"count", "evict"}
    /\ WithinLimit(c)
    /\ UNCHANGED <<rowVars, now, locks, reader>>

-----------------------------------------------------------------------------
(* Everything else that touches the namespace.                             *)

\* A client sets a new ordinary key, if there is room for it,
SetOther(c) ==
    /\ "set" \in Env
    /\ pc[c] = "idle"
    /\ ~Full
    /\ Goto(c, "put")
    /\ UNCHANGED <<rowVars, now, locks, reader>>

\* with a statement of its own; the lock row is then older than that key.
PutOther(c) ==
    /\ pc[c] = "put"
    /\ others < MaxOthers
    /\ others' = others + 1
    /\ Goto(c, IF Limited THEN "count" ELSE "idle")
    /\ UNCHANGED <<row, older, now, locks, reader>>

\* A read of another row, flushed to last_accessed.
TouchOther ==
    /\ "touch" \in Env
    /\ older > 0
    /\ older' = older - 1
    /\ UNCHANGED <<row, others, now, locks, pc, token, deadline, at, until, reader, lost>>

\* removeExpiredBatch.
Sweep ==
    /\ Present /\ Expired(now)
    /\ row' = NoRow
    /\ UNCHANGED <<others, older, now, locks, pc, token, deadline, at, until, reader, lost>>

\* Get, Exists, TTLOf or Inspect of the lock's key: it finds the row expired,
ReadExpired ==
    /\ "read" \in Env
    /\ ~reader
    /\ Present /\ Expired(now)
    /\ reader' = TRUE
    /\ UNCHANGED <<rowVars, now, locks, pc, token, deadline, at, until, lost>>

\* and removes the row of the key.
LazyDelete ==
    /\ reader
    /\ reader' = FALSE
    /\ RemoveRow
    /\ UNCHANGED <<others, older, now, locks, pc, token, deadline, at, until>>

Flush ==
    /\ "flush" \in Env
    /\ RemoveRow
    /\ others' = 0 /\ older' = 0
    /\ UNCHANGED <<now, locks, pc, token, deadline, at, until, reader>>

-----------------------------------------------------------------------------
Client(c) ==
    \/ Try(c) \/ Insert(c) \/ Wait(c) \/ PutOther(c)
    \/ CountRows(c) \/ EvictLock(c) \/ EvictOther(c) \/ EvictNone(c)

Next ==
    \/ Tick
    \/ \E c \in Clients :
           Lock(c) \/ Client(c) \/ Release(c) \/ Crash(c) \/ SetOther(c)
           \/ EnforceFails(c)
    \/ TouchOther \/ Sweep \/ ReadExpired \/ LazyDelete \/ Flush

Spec == Init /\ [][Next]_vars

\* Time passes and the goroutine inside a call runs. Nobody has to release.
FairSpec == Spec /\ WF_vars(Tick) /\ \A c \in Clients : WF_vars(Client(c))

-----------------------------------------------------------------------------
(* Properties.                                                             *)

TypeOK ==
    /\ row \in [token : 0 .. MaxLocks, exp : Nat]
    /\ others \in Nat /\ older \in 0 .. others
    /\ now \in 0 .. MaxTime
    /\ locks \in 0 .. MaxLocks
    /\ pc \in [Clients -> {"idle", "try", "insert", "wait", "put", "count", "evict", "held"}]
    /\ token \in [Clients -> 0 .. MaxLocks]
    /\ deadline \in [Clients -> Nat]
    /\ at \in [Clients -> 0 .. MaxTime]
    /\ until \in [Clients -> Nat]
    /\ reader \in BOOLEAN
    /\ lost \subseteq Clients

\* c's Lock has returned and its TTL has not passed.
Holds(c) == pc[c] = "held" /\ now < until[c]

\* At most one client holds the lock, is within its TTL and has not lost its row
\* to an eviction, a Flush or a lazy delete, whatever delays, crashes, late
\* releases and sweeps do: add takes over an expired row only, and Release
\* removes its own row only.
ExclusiveUnlessRemoved ==
    \A c, d \in Clients \ lost : Holds(c) /\ Holds(d) => c = d

\* What it rests on: tokens are distinct, a statement's clock value is never
\* ahead, and from the add on the row is the client's own.
TokensDistinct ==
    /\ \A c \in Clients : token[c] <= locks
    /\ \A c, d \in Clients : token[c] # 0 /\ token[c] = token[d] => c = d
ClockBehind == \A c \in Clients : at[c] <= now
InCall ==
    \A c \in Clients :
        /\ pc[c] \in {"try", "insert", "wait", "held"} => token[c] # 0
        /\ pc[c] \in {"idle", "put"} => token[c] = 0
Acquired(c) ==
    /\ token[c] # 0 /\ pc[c] \in {"count", "evict", "held"}
    /\ now < until[c]
    /\ c \notin lost
HolderOwnsRow ==
    \A c \in Clients : Acquired(c) => row.token = token[c] /\ row.exp = until[c]
LockInv == TokensDistinct /\ ClockBehind /\ InCall /\ HolderOwnsRow

\* A lock whose holder never releases it becomes available: its TTL passes.
NeverWedged == Present /\ ~Expired(now) ~> ~Present \/ Expired(now)
==============================================================================
