------------------------------ MODULE Capacity ------------------------------
(***************************************************************************)
(* Capacity limits and access bookkeeping of one namespace (the eviction   *)
(* half of lytecache-go/sweep.go, checkCapacity of kv.go, and the reads    *)
(* and writes that call them), by goroutines of processes that share the   *)
(* file.                                                                   *)
(*                                                                         *)
(* With NoEviction a Set or Add of a new key is refused when the namespace *)
(* is at its limit; the check and the write are separate statements. With  *)
(* the other policies a write is followed by enforceCapacity, which counts *)
(* with one statement and deletes the first row of the policy's order with *)
(* another, again and again. GetSet, Replace and counters do neither.      *)
(* Reads are buffered per process, as the time of a key's last read, and   *)
(* flushed to the table later.                                             *)
(*                                                                         *)
(* A value is its size. All processes are configured alike, and the wall   *)
(* clock does not go back. checkCapacity's queries are taken as one, and   *)
(* the defensive cap of a million eviction passes is never reached. The    *)
(* access count kept beside last_accessed is left out: it only shows in    *)
(* Inspect.                                                                *)
(***************************************************************************)
EXTENDS Integers, FiniteSetsExt

CONSTANTS
    Caches,         \* open Cache handles, one per process
    Clients,        \* goroutines that call them
    CacheOf,        \* client |-> its Cache
    Keys,
    Ops,            \* the calls the clients make
    Policy,         \* WithEviction: "lru", "ttl", "random" or "noeviction"
    MaxKeys,        \* WithMaxKeys, 0 for none
    MaxBytes,       \* WithMaxBytes, 0 for none
    Sizes,          \* sizes of values
    TTLs,           \* durations given to TTL(...)
    FlushEvery,     \* lruFlushEvery
    MaxCalls,       \* bound: calls other than Maintain
    MaxTime,        \* bound: readings of the wall clock
    MaxFails        \* bound: statements that fail

WriteOps == {"set", "add", "setmany", "replace", "getset", "incr"}
AllOps == WriteOps \cup {"get", "delete", "maintain"}

ASSUME CapacityAssumption ==
    /\ CacheOf \in [Clients -> Caches]
    /\ IsFiniteSet(Clients) /\ IsFiniteSet(Keys)
    /\ Ops \subseteq AllOps
    /\ Policy \in {"lru", "ttl", "random", "noeviction"}
    /\ MaxKeys \in Nat /\ MaxBytes \in Nat
    /\ Sizes \subseteq Nat \ {0} /\ TTLs \subseteq Nat
    /\ FlushEvery \in Nat /\ MaxCalls \in Nat /\ MaxTime \in Nat /\ MaxFails \in Nat

VARIABLES
    rows,           \* the cache table: key |-> row
    buffer,         \* c.lruBuffer: Cache |-> key |-> last read not yet flushed
    now,            \* the wall clock
    pc,             \* client |-> where its call is
    call,           \* client |-> the call's arguments and local variables
    calls,          \* calls made so far
    fails,          \* statements that have failed
    used,           \* history: key |-> when its row was last read or written
    unenforced,     \* history: a write was not followed by an enforcement that
                    \* found or brought the namespace within its limits
    removed         \* history: rows that left otherwise while a call evicts

hist == <<used, unenforced, removed>>
vars == <<rows, buffer, now, pc, call, calls, fails, hist>>

-----------------------------------------------------------------------------
(* Definitions whose name says what they get wrong are the mutated forms   *)
(* used to show that the properties can fail; no specification uses them.  *)

Never == -1             \* expires_at IS NULL
NoRow == [size |-> 0, exp |-> Never, acc |-> 0]
EmptyBuffer == [k \in Keys |-> Never]
NoCall == [op |-> "none", keys |-> {}, size |-> 0, exp |-> Never, at |-> 0,
           pending |-> EmptyBuffer]

Present == {k \in Keys : rows[k] # NoRow}
Expired(k, t) == rows[k].exp # Never /\ rows[k].exp <= t
Live(k, t) == k \in Present /\ ~Expired(k, t)
Bytes == MapThenSumSet(LAMBDA k : rows[k].size, Keys)

\* enforceCapacity: the namespace is over a limit.
Over ==
    \/ MaxKeys # 0 /\ Cardinality(Present) > MaxKeys
    \/ MaxBytes # 0 /\ Bytes > MaxBytes

\* checkCapacity: it is at a limit.
Full ==
    \/ MaxKeys # 0 /\ Cardinality(Present) >= MaxKeys
    \/ MaxBytes # 0 /\ Bytes >= MaxBytes

\* maybeEvict and enforceCapacity have something to do.
Limited == Policy # "noeviction" /\ (MaxKeys # 0 \/ MaxBytes # 0)

Init ==
    /\ rows = [k \in Keys |-> NoRow]
    /\ buffer = [p \in Caches |-> EmptyBuffer]
    /\ now = 0
    /\ pc = [c \in Clients |-> "idle"]
    /\ call = [c \in Clients |-> NoCall]
    /\ calls = 0 /\ fails = 0
    /\ used = [k \in Keys |-> 0] /\ unenforced = FALSE /\ removed = 0

Tick ==
    /\ now < MaxTime
    /\ now' = now + 1
    /\ UNCHANGED <<rows, buffer, pc, call, calls, fails, hist>>

\* c's call goes on at l, where all it still needs is which call it is; it
\* returns by going on at "idle".
Goto(c, l) ==
    /\ pc' = [pc EXCEPT ![c] = l]
    /\ call' = [call EXCEPT ![c] =
           IF l = "idle" THEN NoCall ELSE [NoCall EXCEPT !.op = call[c].op]]

Begins(c, op, l) ==
    /\ pc[c] = "idle"
    /\ op \in Ops
    /\ calls < MaxCalls
    /\ calls' = calls + 1
    /\ pc' = [pc EXCEPT ![c] = l]

-----------------------------------------------------------------------------
(* Writes.                                                                 *)

\* The keys of a call: SetMany has several.
Targets(op) == IF op = "setmany" THEN SUBSET Keys \ {{}} ELSE {{k} : k \in Keys}

\* A Set or Add of a new key is refused under NoEviction when the namespace is
\* full; otherwise the clock is read and the statement is to be executed.
CallWrite(c) ==
    \E op \in WriteOps, size \in Sizes, ttl \in TTLs \cup {Never} :
    \E K \in Targets(op) :
        /\ op \in {"set", "add"} /\ Policy = "noeviction" => K \subseteq Present \/ ~Full
        /\ op \in {"getset", "incr"} => ttl = Never
        /\ Begins(c, op, "write")
        /\ call' = [call EXCEPT ![c] =
               [op |-> op, keys |-> K, size |-> size, at |-> now,
                exp |-> IF ttl = Never THEN Never ELSE now + ttl,
                pending |-> EmptyBuffer]]
        /\ UNCHANGED <<rows, buffer, now, fails, hist>>

\* The row that c's call leaves; a counter is updated in place.
WrittenLater(c, k) == [size |-> call[c].size, exp |-> call[c].exp, acc |-> call[c].at + 1]
Written(c, k) ==
    [size |-> call[c].size, acc |-> call[c].at,
     exp |-> IF call[c].op = "incr" /\ Live(k, call[c].at) THEN rows[k].exp
             ELSE call[c].exp]

\* The keys whose rows c's statement writes.
Hit(c) ==
    {k \in call[c].keys :
        /\ call[c].op = "add" => ~Live(k, call[c].at)
        /\ call[c].op = "replace" => Live(k, call[c].at)}

\* maybeEvict: where a write that enforces the limits goes on.
MaybeEvict(op) ==
    IF ~Limited \/ op \notin {"set", "add", "setmany"} THEN "idle"
    ELSE IF Policy = "lru" THEN "flush" ELSE "count"

\* The statement commits.
Write(c) ==
    LET next == IF Hit(c) = {} THEN "idle" ELSE MaybeEvict(call[c].op) IN
    /\ pc[c] = "write"
    /\ rows' = [k \in Keys |-> IF k \in Hit(c) THEN Written(c, k) ELSE rows[k]]
    /\ used' = [k \in Keys |-> IF k \in Hit(c) THEN call[c].at ELSE used[k]]
    /\ unenforced' = (unenforced \/ (Hit(c) # {} /\ next = "idle"))
    /\ Goto(c, next)
    /\ UNCHANGED <<buffer, now, calls, fails, removed>>

\* The rows of K are deleted.
Remove(K) ==
    /\ rows' = [k \in Keys |-> IF k \in K THEN NoRow ELSE rows[k]]
    /\ used' = [k \in Keys |-> IF k \in K THEN 0 ELSE used[k]]
    /\ UNCHANGED unenforced

\* The calls that are about to evict, and what else removes rows meanwhile.
Evicting == {c \in Clients : pc[c] = "evict"}
Left(K) == removed' = IF Evicting = {} THEN 0 ELSE removed + Cardinality(K)

Delete(c) ==
    \E k \in Present :
        /\ Begins(c, "delete", "idle")
        /\ Remove({k})
        /\ Left({k})
        /\ UNCHANGED <<buffer, now, call, fails>>

-----------------------------------------------------------------------------
(* Reads, and the flushing of their bookkeeping.                           *)

Buffered(p) == {k \in Keys : buffer[p][k] # Never}

\* getRaw and GetMany: a hit is buffered (bufferLRU); a full buffer is flushed.
Get(c) ==
    LET p == CacheOf[c] IN
    \E k \in Present :
        /\ Live(k, now)
        /\ Begins(c, "get",
                  IF Cardinality(Buffered(p) \cup {k}) >= FlushEvery THEN "flush" ELSE "idle")
        /\ buffer' = [buffer EXCEPT ![p][k] = now]
        /\ used' = [used EXCEPT ![k] = now]
        /\ call' = IF pc'[c] = "idle" THEN call ELSE [call EXCEPT ![c].op = "get"]
        /\ UNCHANGED <<rows, now, fails, unenforced, removed>>

\* Where a call goes on when flushLRUBuffer returns.
AfterFlushOfAnything(c) ==
    CASE call[c].op = "get" -> "idle"
      [] call[c].op = "maintain" -> "expire"
      [] OTHER -> IF pc[c] = "apply" THEN "idle" ELSE "count"
AfterFlush(c) ==
    CASE call[c].op = "get" -> "idle"
      [] call[c].op = "maintain" -> "expire"
      [] OTHER -> "count"

\* flushLRUBuffer takes the buffer under its mutex,
TakeBuffer(c) ==
    LET p == CacheOf[c] IN
    /\ pc[c] = "flush"
    /\ IF Buffered(p) = {} THEN Goto(c, AfterFlush(c)) /\ UNCHANGED buffer
       ELSE /\ call' = [call EXCEPT ![c].pending = buffer[p]]
            /\ buffer' = [buffer EXCEPT ![p] = EmptyBuffer]
            /\ pc' = [pc EXCEPT ![c] = "apply"]
    /\ UNCHANGED <<rows, now, calls, fails, hist>>

\* and updates the rows that are still there in one transaction.
Apply(c) ==
    LET todo == {k \in Present : call[c].pending[k] # Never} IN
    /\ pc[c] = "apply"
    /\ rows' = [k \in Keys |->
           IF k \in todo THEN [rows[k] EXCEPT !.acc = call[c].pending[k]] ELSE rows[k]]
    /\ Goto(c, AfterFlush(c))
    /\ UNCHANGED <<buffer, now, calls, fails, hist>>

-----------------------------------------------------------------------------
(* Maintenance and eviction.                                               *)

\* sweepOnce, by the background sweeper or a call of Maintain.
Maintain(c) ==
    /\ pc[c] = "idle"
    /\ "maintain" \in Ops
    /\ pc' = [pc EXCEPT ![c] = "flush"]
    /\ call' = [call EXCEPT ![c].op = "maintain"]
    /\ UNCHANGED <<rows, buffer, now, calls, fails, hist>>

\* removeExpiredBatch.
RemoveExpiredOnly(c) ==
    /\ pc[c] = "expire"
    /\ Remove({k \in Keys : Expired(k, now)})
    /\ Left({k \in Keys : Expired(k, now)})
    /\ Goto(c, "idle")
    /\ UNCHANGED <<buffer, now, calls, fails>>
RemoveExpired(c) ==
    /\ pc[c] = "expire"
    /\ Remove({k \in Keys : Expired(k, now)})
    /\ Left({k \in Keys : Expired(k, now)})
    /\ Goto(c, IF Limited THEN "count" ELSE "idle")
    /\ UNCHANGED <<buffer, now, calls, fails>>

\* enforceCapacity counts,
Count(c) ==
    /\ pc[c] = "count"
    /\ Goto(c, IF Over THEN "evict" ELSE "idle")
    /\ unenforced' = (unenforced /\ Over)
    /\ removed' = IF Evicting = {} THEN 0 ELSE removed
    /\ UNCHANGED <<rows, buffer, now, calls, fails, used>>

\* evictionOrderBy: k may be sorted before j.
Before(k, j) ==
    CASE Policy = "ttl" -> /\ rows[k].exp = Never => rows[j].exp = Never
                           /\ rows[j].exp # Never => rows[k].exp <= rows[j].exp
      [] Policy = "lru" -> rows[k].acc <= rows[j].acc
      [] OTHER -> TRUE

\* deletes the first row, if there is one, and counts again.
EvictGoingOnAt(c, l) ==
    /\ pc[c] = "evict"
    /\ \E k \in Present :
           /\ \A j \in Present : Before(k, j)
           /\ Remove({k})
    /\ Goto(c, l)
    /\ UNCHANGED <<buffer, now, calls, fails, removed>>
EvictUncounted(c) == \E l \in {"evict", "count"} : EvictGoingOnAt(c, l)
Evict(c) == EvictGoingOnAt(c, "count")

EvictNone(c) ==
    /\ pc[c] = "evict"
    /\ Present = {}
    /\ Goto(c, "idle")
    /\ UNCHANGED <<rows, buffer, now, calls, fails, hist>>

\* A statement fails. The call returns an error or gives up evicting; the
\* flush and the removal of expired rows are given up and the call goes on.
Fails(c) ==
    /\ pc[c] \in {"write", "apply", "expire", "count", "evict"}
    /\ fails < MaxFails
    /\ fails' = fails + 1
    /\ Goto(c, CASE pc[c] = "apply" -> AfterFlush(c)
                 [] pc[c] = "expire" /\ Limited -> "count"
                 [] OTHER -> "idle")
    /\ unenforced' = (unenforced \/ pc[c] \in {"count", "evict"})
    /\ UNCHANGED <<rows, buffer, now, calls, used, removed>>

-----------------------------------------------------------------------------
Steps(c) ==
    \/ Write(c) \/ TakeBuffer(c) \/ Apply(c) \/ RemoveExpired(c)
    \/ Count(c) \/ Evict(c) \/ EvictNone(c)

Next ==
    \/ Tick
    \/ \E c \in Clients :
           CallWrite(c) \/ Delete(c) \/ Get(c) \/ Maintain(c) \/ Steps(c) \/ Fails(c)

Spec == Init /\ [][Next]_vars

\* The sweeper's ticker keeps firing, and a goroutine inside a call runs.
FairSpec ==
    /\ Spec
    /\ \A c \in Clients : WF_vars(Maintain(c)) /\ WF_vars(Steps(c))

-----------------------------------------------------------------------------
(* Properties.                                                             *)

Row == [size : {0} \cup Sizes, exp : Int, acc : 0 .. MaxTime]
Reads == [Keys -> {Never} \cup (0 .. MaxTime)]
Call == [op : AllOps \cup {"none"}, keys : SUBSET Keys, size : {0} \cup Sizes,
         exp : Int, at : 0 .. MaxTime, pending : Reads]
Points == {"idle", "write", "flush", "apply", "expire", "count", "evict"}

TypeOK ==
    /\ rows \in [Keys -> Row]
    /\ buffer \in [Caches -> Reads]
    /\ now \in 0 .. MaxTime
    /\ pc \in [Clients -> Points]
    /\ call \in [Clients -> Call]
    /\ calls \in 0 .. MaxCalls /\ fails \in 0 .. MaxFails
    /\ used \in [Keys -> 0 .. MaxTime]
    /\ unenforced \in BOOLEAN /\ removed \in Nat

\* When no call is under way, the namespace is within its limits, unless a
\* write that does not enforce them, or an enforcement that failed, came after
\* the last count: whichever way the enforcing calls interleave, none of them
\* leaves the work to another that has already counted.
WithinLimitsAtRest ==
    Limited /\ ~unenforced /\ (\A c \in Clients : pc[c] = "idle") => ~Over

\* Calls that enforce MaxKeys at the same time may evict too much, each acting
\* on its own count, but at most one row too many for each other client,
\* leaving aside the rows that left by Delete or expiry meanwhile.
OverEvictionIsBounded ==
    MaxBytes = 0 /\ Evicting # {} =>
        Cardinality(Present) + removed
            >= MaxKeys + 1 - Cardinality(Clients) + Cardinality(Evicting)

\* What these two rest on: a row that is there has a size, and a namespace that
\* is over its limits has a call at work that is still going to count.
Sized ==
    /\ \A k \in Present : rows[k].size # 0
    /\ \A c \in Clients : pc[c] = "write" => call[c].size # 0
WillCount(c) ==
    \/ pc[c] \in {"expire", "count", "evict"}
    \/ pc[c] \in {"flush", "apply"} /\ call[c].op # "get"
SomeoneWillCount == Limited /\ ~unenforced /\ Over => \E c \in Clients : WillCount(c)

\* A namespace over its limits comes back within them, although some writes do
\* not enforce them and statements fail: the sweeper does.
LimitsAreRestored == Over ~> ~Over

\* The row that is evicted is one that was neither read nor written for the
\* longest time. It fails when a key is written again while a read of it is
\* still buffered: flushing the buffer moves last_accessed back.
EvictsLeastRecentlyUsed ==
    [][\A c \in Clients : pc[c] = "evict" =>
         \A k \in Present : rows'[k] = NoRow => \A j \in Present : used[k] <= used[j]]_vars
=============================================================================
