----------------------------- MODULE CacheStore -----------------------------
(***************************************************************************)
(* The rows of one cache namespace and the calls that read and write them  *)
(* (lytecache-go/kv.go, ttl.go, counters.go, inspect.go, keys.go and the   *)
(* expiry half of sweep.go), made concurrently by the goroutines of the    *)
(* processes that share the file.                                          *)
(*                                                                         *)
(* A call is one or more SQL statements, each atomic, with Go code in      *)
(* between; the model interleaves calls at exactly those points. A write   *)
(* reads the clock before its statement is executed (the statement waits   *)
(* for the process's only write connection and for SQLite's write lock),   *)
(* so a call holds the clock value it started with. A read compares the    *)
(* expiry it selected with the clock, and removes an expired row with a    *)
(* second statement. GetSet runs in a deferred transaction: it excludes    *)
(* the writes of its own process, and SQLite refuses its write if another  *)
(* process has committed since its SELECT.                                 *)
(*                                                                         *)
(* The value of the n-th call is the text n, so that every value is        *)
(* written once; counters are integers and each Incr adds 1. Capacity      *)
(* limits and access bookkeeping play no part here. The wall clock is      *)
(* taken not to go back.                                                   *)
(***************************************************************************)
EXTENDS Integers, FiniteSets

CONSTANTS
    Caches,         \* open Cache handles, one per process
    Sweepers,       \* the Caches that sweep, on their ticker or every 100th call
    Clients,        \* goroutines that call them
    CacheOf,        \* client |-> its Cache
    Keys,
    Ops,            \* the calls the clients make
    TTLs,           \* durations given to TTL(...) and Expire
    IntMax,         \* the largest integer a counter holds (math.MaxInt64)
    SweepBatch,     \* sweepBatchSize, the LIMIT of one DELETE
    MaxCalls,       \* bound: calls made
    MaxTime         \* bound: readings of the wall clock

ReadOps == {"get", "exists", "ttlof", "inspect", "getmany"}
WriteOps == {"set", "add", "replace", "expire", "persist", "incr"}
AllOps == ReadOps \cup WriteOps \cup {"setmany", "getset", "delete", "flush"}

ASSUME CacheStoreAssumption ==
    /\ CacheOf \in [Clients -> Caches]
    /\ Sweepers \subseteq Caches
    /\ Ops \subseteq AllOps
    /\ TTLs \subseteq Nat
    /\ IntMax \in Nat /\ SweepBatch \in Nat \ {0}
    /\ MaxCalls \in Nat /\ MaxTime \in Nat

VARIABLES
    rows,           \* the cache table: key |-> row
    now,            \* the wall clock, in ticks
    calls,          \* calls made so far; the number of a call
    pc,             \* client |-> where its call is
    call,           \* client |-> the call's arguments and local variables
    stale,          \* clients in a GetSet whose snapshot is out of date
    sweep,          \* Cache |-> the clock value its sweep uses, or NotSweeping
    taken           \* history: values GetSet returned, and to which call

vars == <<rows, now, calls, pc, call, stale, sweep, taken>>

-----------------------------------------------------------------------------
(* Definitions whose name says what they get wrong are the mutated forms   *)
(* used to show that the properties can fail; no specification uses them.  *)

Never == -1             \* expires_at IS NULL
NotSweeping == -1
NoRow == [type |-> "none", n |-> 0, exp |-> Never]
NoCall == [op |-> "none", keys |-> {}, ttl |-> Never, now |-> 0,
           seen |-> << >>, id |-> 0]

Present(r) == r.type # "none"
Expired(r, t) == r.exp # Never /\ r.exp <= t
Live(r, t) == Present(r) /\ ~Expired(r, t)

\* expiresAtArg: the expiry of a value written at t.
ExpiresAt(ttl, t) == IF ttl = Never THEN Never ELSE t + ttl

\* The clients inside a GetSet transaction.
Swapping == {d \in Clients : pc[d] = "swap"}

\* The process's single write connection is not inside a GetSet transaction.
ConnFree(p) == \A d \in Swapping : CacheOf[d] # p

Init ==
    /\ rows = [k \in Keys |-> NoRow]
    /\ now = 0
    /\ calls = 0
    /\ pc = [c \in Clients |-> "idle"]
    /\ call = [c \in Clients |-> NoCall]
    /\ stale = {}
    /\ sweep = [p \in Caches |-> NotSweeping]
    /\ taken = {}

Tick ==
    /\ now < MaxTime
    /\ now' = now + 1
    /\ UNCHANGED <<rows, calls, pc, call, stale, sweep, taken>>

-----------------------------------------------------------------------------
(* Calling, committing and returning.                                      *)

\* c makes a call; it goes on at `at`.
Begin(c, op, K, ttl, at) ==
    /\ op \in Ops
    /\ pc[c] = "idle"
    /\ calls < MaxCalls
    /\ calls' = calls + 1
    /\ pc' = [pc EXCEPT ![c] = at]
    /\ call' = [call EXCEPT ![c] =
           [op |-> op, keys |-> K, ttl |-> ttl, now |-> now, id |-> calls + 1,
            seen |-> [k \in IF at = "exec" THEN {} ELSE K |-> rows[k]]]]
    /\ UNCHANGED <<rows, now, stale, sweep, taken>>

\* The table changes: the GetSets of other processes can no longer write.
Commit(table) ==
    /\ rows' = table
    /\ stale' = stale \cup Swapping

\* c's call returns to the application.
Return(c) ==
    /\ pc' = [pc EXCEPT ![c] = "idle"]
    /\ call' = [call EXCEPT ![c] = NoCall]

\* c's call goes on at `at`.
GoOn(c, at) == pc' = [pc EXCEPT ![c] = at] /\ UNCHANGED call

\* A statement of c that changes the rows of `hit`, to those of `table`. If
\* there are any it commits, and the change record is still to be emitted.
Affect(c, hit, table) ==
    IF hit # {}
    THEN Commit([k \in Keys |-> IF k \in hit THEN table[k] ELSE rows[k]])
         /\ GoOn(c, "report")
    ELSE Return(c) /\ UNCHANGED <<rows, stale>>

\* c is about to execute its statement for op on its process's connection.
Executes(c, op) ==
    /\ pc[c] = "exec"
    /\ call[c].op = op
    /\ ConnFree(CacheOf[c])
    /\ UNCHANGED <<now, calls, sweep, taken>>

Written(c) ==
    [type |-> "text", n |-> call[c].id, exp |-> ExpiresAt(call[c].ttl, call[c].now)]

KeyOf(c) == CHOOSE k \in call[c].keys : TRUE

-----------------------------------------------------------------------------
(* Writes: the clock is read when the call begins, the statement executes  *)
(* later.                                                                  *)

CallWrite(c) ==
    \E op \in WriteOps, k \in Keys, ttl \in TTLs \cup {Never} :
        /\ op = "expire" => ttl # Never
        /\ op \in {"persist", "incr"} => ttl = Never
        /\ Begin(c, op, {k}, ttl, "exec")

\* SetMany: one transaction for several keys.
CallSetMany(c) ==
    \E ttl \in TTLs \cup {Never} : Begin(c, "setmany", Keys, ttl, "exec")

CallDelete(c) ==
    \E K \in SUBSET Keys \ {{}} : Begin(c, "delete", K, Never, "exec")

CallFlush(c) == Begin(c, "flush", Keys, Never, "exec")

\* Set: an upsert.
ExecSet(c) ==
    /\ Executes(c, "set")
    /\ Affect(c, call[c].keys, [k \in Keys |-> Written(c)])

\* SetMany: the upserts of all keys commit together.
ExecSetMany(c) ==
    /\ Executes(c, "setmany")
    /\ Affect(c, call[c].keys, [k \in Keys |-> Written(c)])

\* Add: the upsert applies to an absent or expired row only.
ExecAdd(c) ==
    /\ Executes(c, "add")
    /\ Affect(c, {k \in call[c].keys : ~Live(rows[k], call[c].now)},
              [k \in Keys |-> Written(c)])

\* Replace: the update applies to a live row only.
ExecReplace(c) ==
    /\ Executes(c, "replace")
    /\ Affect(c, {k \in call[c].keys : Live(rows[k], call[c].now)},
              [k \in Keys |-> Written(c)])

\* The expiry of a live row becomes e; no change record is emitted.
SetExpiryOfAny(c, e) ==
    /\ LET k == KeyOf(c) IN
       IF Present(rows[k]) THEN Commit([rows EXCEPT ![k].exp = e])
       ELSE UNCHANGED <<rows, stale>>
    /\ Return(c)
SetExpiry(c, e) ==
    /\ LET k == KeyOf(c) IN
       IF Live(rows[k], call[c].now) THEN Commit([rows EXCEPT ![k].exp = e])
       ELSE UNCHANGED <<rows, stale>>
    /\ Return(c)

\* Expire and Touch.
ExecExpire(c) ==
    Executes(c, "expire") /\ SetExpiry(c, ExpiresAt(call[c].ttl, call[c].now))

ExecPersist(c) == Executes(c, "persist") /\ SetExpiry(c, Never)

\* The row an Incr at t leaves: an absent or expired counter starts from 0, a
\* sum beyond int64 becomes a REAL that no longer parses (IntMax + 1).
Incremented(r, t) ==
    [type |-> "int",
     n |-> IF ~Live(r, t) THEN 1 ELSE IF r.n > IntMax THEN r.n ELSE r.n + 1,
     exp |-> IF Live(r, t) THEN r.exp ELSE Never]

\* atomicIncr: one upsert, refused if a live row is not an integer.
ExecIncr(c) ==
    /\ Executes(c, "incr")
    /\ LET k == KeyOf(c) IN
       IF Live(rows[k], call[c].now) /\ rows[k].type # "int"
       THEN Return(c) /\ UNCHANGED <<rows, stale>>
       ELSE /\ Commit([rows EXCEPT ![k] = Incremented(rows[k], call[c].now)])
            /\ GoOn(c, "readback")

\* atomicIncr reads its result back with a statement of its own. Without a
\* row the call fails before it emits a record; a value that is no integer
\* fails after it.
ReadBack(c) ==
    /\ pc[c] = "readback"
    /\ ConnFree(CacheOf[c])
    /\ IF Present(rows[KeyOf(c)]) THEN GoOn(c, "report") ELSE Return(c)
    /\ UNCHANGED <<rows, now, calls, stale, sweep, taken>>

\* Delete and Flush remove the rows that are there, expired ones included.
RemoveRows(c) ==
    Affect(c, {k \in call[c].keys : Present(rows[k])}, [k \in Keys |-> NoRow])

ExecDelete(c) == Executes(c, "delete") /\ RemoveRows(c)
ExecFlush(c) == Executes(c, "flush") /\ RemoveRows(c)

\* changed: the record of the committed mutation is handed to the dispatcher
\* (Dispatcher) and published, and the call returns.
Report(c) ==
    /\ pc[c] = "report"
    /\ Return(c)
    /\ UNCHANGED <<rows, now, calls, stale, sweep, taken>>

-----------------------------------------------------------------------------
(* Reads: a SELECT, the comparison with the clock, the removal of what was *)
(* found expired.                                                          *)

\* Get, Exists, TTLOf and Inspect select one row.
CallGet(c) == \E k \in Keys : Begin(c, "get", {k}, Never, "decide")
CallExists(c) == \E k \in Keys : Begin(c, "exists", {k}, Never, "decide")
CallTTLOf(c) == \E k \in Keys : Begin(c, "ttlof", {k}, Never, "decide")
CallInspect(c) == \E k \in Keys : Begin(c, "inspect", {k}, Never, "decide")

\* GetMany selects several in one query.
CallGetMany(c) ==
    \E K \in SUBSET Keys \ {{}} : Begin(c, "getmany", K, Never, "decide")

\* The expiry that was selected is compared with the clock.
DecideEarly(c) ==
    LET dead == {k \in call[c].keys : Expired(call[c].seen[k], now + 1)} IN
    /\ pc[c] = "decide"
    /\ IF dead = {} THEN Return(c)
       ELSE /\ pc' = [pc EXCEPT ![c] = "remove"]
            /\ call' = [call EXCEPT ![c].keys = dead]
    /\ UNCHANGED <<rows, now, calls, stale, sweep, taken>>
Decide(c) ==
    LET dead == {k \in call[c].keys : Expired(call[c].seen[k], now)} IN
    /\ pc[c] = "decide"
    /\ IF dead = {} THEN Return(c)
       ELSE /\ pc' = [pc EXCEPT ![c] = "remove"]
            /\ call' = [call EXCEPT ![c].keys = dead]
    /\ UNCHANGED <<rows, now, calls, stale, sweep, taken>>

\* deleteRaw: the row of the key is removed, whatever it is by now.
LazyDelete(c) ==
    /\ pc[c] = "remove"
    /\ call[c].op # "getmany"
    /\ ConnFree(CacheOf[c])
    /\ LET k == KeyOf(c) IN
       IF Present(rows[k]) THEN Commit([rows EXCEPT ![k] = NoRow])
       ELSE UNCHANGED <<rows, stale>>
    /\ Return(c)
    /\ UNCHANGED <<now, calls, sweep, taken>>

\* GetMany calls Delete for the keys it found expired.
DeleteExpired(c) ==
    /\ pc[c] = "remove"
    /\ call[c].op = "getmany"
    /\ ConnFree(CacheOf[c])
    /\ RemoveRows(c)
    /\ UNCHANGED <<now, calls, sweep, taken>>

-----------------------------------------------------------------------------
(* GetSet.                                                                 *)

\* BEGIN, and the SELECT that takes the snapshot.
CallGetSet(c) ==
    /\ ConnFree(CacheOf[c])
    /\ \E k \in Keys : Begin(c, "getset", {k}, Never, "swap")

\* The comparison with the clock, some time after the SELECT, then the upsert
\* and the COMMIT, refused (SQLITE_BUSY_SNAPSHOT) if the snapshot is out of date.
Exchange(c) ==
    LET k == KeyOf(c)
        r == call[c].seen[k] IN
    /\ rows' = [rows EXCEPT ![k] = Written(c)]
    /\ stale' = (stale \cup Swapping) \ {c}
    /\ \E t \in call[c].now .. now :
           taken' = IF Live(r, t)
                    THEN taken \cup {[key |-> k, was |-> r, by |-> call[c].id]}
                    ELSE taken
    /\ GoOn(c, "report")
    /\ UNCHANGED <<now, calls, sweep>>
SwapUnchecked(c) == pc[c] = "swap" /\ Exchange(c)
Swap(c) ==
    /\ pc[c] = "swap"
    /\ c \notin stale
    /\ Exchange(c)

-----------------------------------------------------------------------------
(* Failure, the sweeper, the specification.                                *)

\* A statement fails: the database is busy or broken, a value cannot be
\* encoded, the snapshot is out of date. A transaction rolls back, no record
\* is emitted; a read degrades to a miss.
Fails(c) ==
    /\ pc[c] \in {"exec", "readback", "decide", "remove", "swap"}
    /\ Return(c)
    /\ stale' = stale \ {c}
    /\ UNCHANGED <<rows, now, calls, sweep, taken>>

\* A process dies: its calls end where they are, SQLite rolls back.
Crash(p) ==
    LET its == {c \in Clients : CacheOf[c] = p} IN
    /\ sweep[p] # NotSweeping \/ \E c \in its : pc[c] # "idle"
    /\ pc' = [c \in Clients |-> IF c \in its THEN "idle" ELSE pc[c]]
    /\ call' = [c \in Clients |-> IF c \in its THEN NoCall ELSE call[c]]
    /\ stale' = stale \ its
    /\ sweep' = [sweep EXCEPT ![p] = NotSweeping]
    /\ UNCHANGED <<rows, now, calls, taken>>

\* removeExpiredBatch reads the clock once,
SweepStartOldClock(p) ==
    /\ sweep[p] = NotSweeping
    /\ sweep' = [sweep EXCEPT ![p] = 0]
    /\ UNCHANGED <<rows, now, calls, pc, call, stale, taken>>
SweepStart(p) ==
    /\ sweep[p] = NotSweeping
    /\ sweep' = [sweep EXCEPT ![p] = now]
    /\ UNCHANGED <<rows, now, calls, pc, call, stale, taken>>

\* and deletes what had expired by then, until a batch is not full.
SweepDeleteEarly(p) ==
    LET dead == {k \in Keys : Expired(rows[k], sweep[p] + 1)} IN
    /\ sweep[p] # NotSweeping
    /\ ConnFree(p)
    /\ Commit([k \in Keys |-> IF k \in dead THEN NoRow ELSE rows[k]])
    /\ sweep' = [sweep EXCEPT ![p] = NotSweeping]
    /\ UNCHANGED <<now, calls, pc, call, taken>>
SweepDelete(p) ==
    LET dead == {k \in Keys : Expired(rows[k], sweep[p])} IN
    /\ sweep[p] # NotSweeping
    /\ ConnFree(p)
    /\ \E S \in SUBSET dead :
        /\ IF Cardinality(dead) <= SweepBatch
           THEN S = dead ELSE Cardinality(S) = SweepBatch
        /\ IF S = {} THEN UNCHANGED <<rows, stale>>
           ELSE Commit([k \in Keys |-> IF k \in S THEN NoRow ELSE rows[k]])
        /\ sweep' = IF Cardinality(S) < SweepBatch
                    THEN [sweep EXCEPT ![p] = NotSweeping] ELSE sweep
    /\ UNCHANGED <<now, calls, pc, call, taken>>

Calls(c) ==
    \/ CallWrite(c) \/ CallSetMany(c) \/ CallDelete(c) \/ CallFlush(c)
    \/ CallGet(c) \/ CallExists(c) \/ CallTTLOf(c) \/ CallInspect(c)
    \/ CallGetMany(c) \/ CallGetSet(c)

Steps(c) ==
    \/ ExecSet(c) \/ ExecSetMany(c) \/ ExecAdd(c) \/ ExecReplace(c)
    \/ ExecExpire(c) \/ ExecPersist(c) \/ ExecIncr(c) \/ ReadBack(c)
    \/ ExecDelete(c) \/ ExecFlush(c) \/ Report(c)
    \/ Decide(c) \/ LazyDelete(c) \/ DeleteExpired(c)
    \/ Swap(c) \/ Fails(c)

Sweeper(p) == SweepStart(p) \/ SweepDelete(p)

Next ==
    \/ Tick
    \/ \E c \in Clients : Calls(c) \/ Steps(c)
    \/ \E p \in Sweepers : Sweeper(p)
    \/ \E p \in Caches : Crash(p)

Spec == Init /\ [][Next]_vars

\* The ticker of sweepLoop keeps firing, and goroutines run until their call
\* returns.
FairSpec ==
    /\ Spec
    /\ \A p \in Sweepers : WF_vars(SweepStart(p)) /\ SF_vars(SweepDelete(p))
    /\ \A c \in Clients : WF_vars(Steps(c))

-----------------------------------------------------------------------------
(* Properties.                                                             *)

\* GetSet is an atomic swap across processes: a value that was written once is
\* taken by at most one GetSet, and once taken it is not in the table any more.
\* This is what the one-connection rule within a process and SQLite's refusal
\* of a write on an old snapshot between processes are for.
SwapsTakeEachValueOnce ==
    \A x \in taken : x.was.type = "text" =>
        /\ rows[x.key].n # x.was.n \/ rows[x.key].type # "text"
        /\ \A y \in taken :
               y.key = x.key /\ y.was.type = "text" /\ y.was.n = x.was.n => y.by = x.by

\* The sweeper removes a row only if it is expired when it is removed, although
\* it uses a clock value read before earlier batches, and rows are renewed
\* meanwhile. (A step that changes rows and no call is the sweeper's.)
SweepRemovesOnlyExpired ==
    [][UNCHANGED pc =>
         \A k \in Keys : rows'[k] # rows[k] => Expired(rows[k], now)]_vars

\* An expired value (a text, of which no two are equal) is not readable again,
\* except by a Persist, Expire or Touch that began while it was live and whose
\* statement came too late: they judge the row by the clock value read when the
\* call began.
RevivedOnlyByEarlierCall ==
    [][\A k \in Keys :
         /\ Expired(rows[k], now) /\ Live(rows'[k], now)
         /\ rows[k].type = "text" /\ rows'[k].type = "text" /\ rows'[k].n = rows[k].n
         => \E c \in Clients :
                /\ pc[c] = "exec" /\ call[c].op \in {"expire", "persist"}
                /\ call[c].keys = {k} /\ call[c].now < rows[k].exp]_vars

\* An expired row does not stay: the sweeper removes it, or a call replaces
\* it, however the sweeps of several processes and their batches interleave.
ExpiredRowsAreRemoved ==
    \A k \in Keys : Expired(rows[k], now) ~> ~Expired(rows[k], now)

\* A live row is removed only by Delete or Flush, or by a read that found an
\* earlier row of the same key expired: LazyDelete removes the row of the key,
\* not the row that was read. The sweeper and other reads remove none.
LiveRowsLeaveOnRequest ==
    [][\A k \in Keys :
         Live(rows[k], now) /\ ~Present(rows'[k]) =>
             \E c \in Clients :
                 /\ pc'[c] # pc[c] /\ k \in call[c].keys
                 /\ \/ call[c].op \in {"delete", "flush"} /\ pc[c] = "exec"
                    \/ /\ pc[c] = "remove" /\ Expired(call[c].seen[k], now)
                       /\ call[c].seen[k] # rows[k]]_vars

-----------------------------------------------------------------------------
(* The invariants behind the proofs (CacheStoreProofs).                    *)

Rows == [type : {"none", "text", "int"}, n : Nat, exp : Int]
Labels == {"idle", "exec", "readback", "report", "decide", "remove", "swap"}
Selections == UNION {[K -> Rows] : K \in SUBSET Keys}
CallRecords == [op : AllOps, keys : SUBSET Keys, ttl : TTLs \cup {Never}, now : Nat,
                seen : Selections, id : Nat]

TypeOK ==
    /\ rows \in [Keys -> Rows]
    /\ now \in Nat /\ calls \in Nat
    /\ pc \in [Clients -> Labels]
    /\ call \in [Clients -> CallRecords \cup {NoCall}]
    /\ stale \subseteq Clients
    /\ sweep \in [Caches -> {NotSweeping} \cup Nat]
    /\ taken \subseteq [key : Keys, was : Rows, by : Nat]

\* A client has a call while it is not idle, with one key unless the operation
\* takes several, and its rows once it has selected them.
SeveralKeys == {"setmany", "delete", "flush", "getmany"}
CallTypes ==
    \A c \in Clients : pc[c] # "idle" =>
        /\ call[c] \in CallRecords
        /\ call[c].op \notin SeveralKeys => \E k \in Keys : call[c].keys = {k}
        /\ pc[c] \in {"decide", "remove"} => call[c].op \in ReadOps
        /\ pc[c] = "readback" => call[c].op = "incr"
        /\ pc[c] = "swap" => call[c].op = "getset"
        /\ pc[c] \in {"decide", "remove", "swap"} =>
               \A k \in call[c].keys : call[c].seen[k] \in Rows

\* No clock value is ahead of the clock.
ClocksBehind ==
    /\ \A p \in Caches : sweep[p] <= now
    /\ \A c \in Clients : pc[c] # "idle" => call[c].now <= now

\* Calls under way have numbers of their own, and the number of a call that is
\* still to write is nowhere yet.
FreshIds ==
    /\ \A c \in Clients : pc[c] # "idle" => call[c].id <= calls
    /\ \A c, d \in Clients :
           c # d /\ pc[c] # "idle" /\ pc[d] # "idle" => call[c].id # call[d].id
    /\ \A k \in Keys : rows[k].type = "text" => rows[k].n <= calls
    /\ \A x \in taken : x.was.type = "text" => x.was.n <= calls
    /\ \A c \in Clients : pc[c] \in {"exec", "swap"} =>
           /\ \A k \in Keys : rows[k].type = "text" => rows[k].n # call[c].id
           /\ \A x \in taken : x.was.type = "text" => x.was.n # call[c].id

\* A GetSet that can still write has seen the row as it is.
SnapshotIsCurrent ==
    \A c \in Clients : pc[c] = "swap" /\ c \notin stale =>
        \A k \in call[c].keys : call[c].seen[k] = rows[k]

\* A read removes what it has found expired.
RemovesExpired ==
    \A c \in Clients : pc[c] = "remove" =>
        \A k \in call[c].keys : Expired(call[c].seen[k], now)

StoreInv ==
    /\ CallTypes /\ ClocksBehind /\ FreshIds /\ SnapshotIsCurrent /\ RemovesExpired
    /\ SwapsTakeEachValueOnce
=============================================================================
