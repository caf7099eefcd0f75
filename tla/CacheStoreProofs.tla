-------------------------- MODULE CacheStoreProofs --------------------------
(***************************************************************************)
(* Proofs about CacheStore: for any number of processes, clients, keys and *)
(* calls, GetSet takes each value once, the sweeper removes only what has  *)
(* expired, an expired value comes back only through an Expire or Persist  *)
(* that began before, and a live row leaves only on request or through a   *)
(* read that found an earlier row expired.                                 *)
(***************************************************************************)
EXTENDS CacheStore, TLAPS

-----------------------------------------------------------------------------
(* Rows and calls.                                                         *)

\* The row that stands for none, and the one an Incr leaves, are rows.
LEMMA RowTypes ==
  /\ NoRow \in Rows
  /\ \A r \in Rows : \A t : Incremented(r, t) \in Rows /\ Incremented(r, t).type = "int"
BY DEF NoRow, Never, Rows, Incremented

\* The expiry a call gives is an integer.
LEMMA ExpiryType ==
  ASSUME TypeOK, CallTypes, NEW c \in Clients, pc[c] # "idle"
  PROVE  ExpiresAt(call[c].ttl, call[c].now) \in Int /\ Never \in Int
<1>1. call[c] \in CallRecords
  BY DEF CallTypes
<1>2. call[c].ttl \in TTLs \cup {Never} /\ call[c].now \in Nat
  BY <1>1 DEF CallRecords
<1>3. Never \in Int /\ TTLs \subseteq Int
  BY CacheStoreAssumption DEF Never
<1>4. call[c].ttl \in Int
  BY <1>2, <1>3
<1>5. call[c].now + call[c].ttl \in Int
  BY <1>2, <1>4
<1> QED
  BY <1>3, <1>5 DEF ExpiresAt

\* The row a call writes is a text with the call's number.
LEMMA WrittenType ==
  ASSUME TypeOK, CallTypes, NEW c \in Clients, pc[c] # "idle"
  PROVE  Written(c) \in Rows /\ Written(c).type = "text" /\ Written(c).n = call[c].id
<1>1. call[c].id \in Nat
  BY DEF CallTypes, CallRecords
<1> QED
  BY <1>1, ExpiryType DEF Written, Rows

\* The key of a call on one key.
LEMMA OneKey ==
  ASSUME TypeOK, CallTypes, NEW c \in Clients, pc[c] # "idle", call[c].op \notin SeveralKeys
  PROVE  KeyOf(c) \in Keys /\ call[c].keys = {KeyOf(c)}
<1>1. PICK k \in Keys : call[c].keys = {k}
  BY DEF CallTypes
<1>2. KeyOf(c) \in {k}
  BY <1>1 DEF KeyOf
<1> QED
  BY <1>1, <1>2

-----------------------------------------------------------------------------
(* What a step does to the row of a key: everything that the properties    *)
(* say about rows rests on this classification.                            *)

\* The goroutine of c moves on.
Moves(c) == pc'[c] # pc[c]

\* Set, SetMany, Add, Replace, or GetSet on a current snapshot, write a text.
Writes(c, k) ==
    /\ pc[c] = "exec" \/ (pc[c] = "swap" /\ c \notin stale)
    /\ k \in call[c].keys /\ rows'[k] = Written(c)
\* Expire and Persist change the expiry of a row that was live when they began.
Renews(c, k) ==
    /\ pc[c] = "exec" /\ call[c].op \in {"expire", "persist"} /\ call[c].keys = {k}
    /\ Live(rows[k], call[c].now)
    /\ rows'[k].type = rows[k].type /\ rows'[k].n = rows[k].n
Increments(c, k) == pc[c] = "exec" /\ rows'[k].type = "int"
\* Delete and Flush, and reads that found a row of the key expired.
Removes(c, k) ==
    /\ k \in call[c].keys /\ rows'[k] = NoRow
    /\ \/ pc[c] = "exec" /\ call[c].op \in {"delete", "flush"}
       \/ pc[c] = "remove"
Sweeps(k) ==
    /\ UNCHANGED pc /\ rows'[k] = NoRow
    /\ \E p \in Caches : sweep[p] # NotSweeping /\ Expired(rows[k], sweep[p])

RowStep(k) ==
    \/ rows'[k] = rows[k]
    \/ Sweeps(k)
    \/ \E c \in Clients :
          /\ Moves(c)
          /\ Writes(c, k) \/ Renews(c, k) \/ Increments(c, k) \/ Removes(c, k)

\* A statement on the rows of hit changes those only, and moves its client on.
LEMMA AffectRows ==
  ASSUME TypeOK, NEW c \in Clients, pc[c] \in {"exec", "remove"},
         NEW hit \in SUBSET Keys, NEW table, Affect(c, hit, table)
  PROVE  /\ Moves(c)
         /\ \A k \in Keys : rows'[k] = IF k \in hit THEN table[k] ELSE rows[k]
         /\ DOMAIN rows' = Keys /\ rows' = [k \in Keys |-> rows'[k]]
         /\ UNCHANGED <<rows, stale>> \/ stale' = stale \cup Swapping
         /\ \/ pc' = [pc EXCEPT ![c] = "idle"] /\ call' = [call EXCEPT ![c] = NoCall]
            \/ pc' = [pc EXCEPT ![c] = "report"] /\ UNCHANGED call
<1>1. CASE hit # {}
  BY <1>1 DEF Affect, Commit, GoOn, Moves, TypeOK
<1>2. CASE hit = {}
  BY <1>2 DEF Affect, Return, Moves, TypeOK
<1> QED
  BY <1>1, <1>2

\* A client whose call returns, or goes on after its statement, has a place
\* and a call of the types they have.
LEMMA ClientTypes ==
  ASSUME TypeOK, NEW c \in Clients,
         \/ pc' = [pc EXCEPT ![c] = "idle"] /\ call' = [call EXCEPT ![c] = NoCall]
         \/ /\ pc' = [pc EXCEPT ![c] = "report"] \/ pc' = [pc EXCEPT ![c] = "readback"]
            /\ UNCHANGED call
  PROVE  /\ pc' \in [Clients -> Labels]
         /\ call' \in [Clients -> CallRecords \cup {NoCall}]
         /\ \A d \in Clients \ {c} : pc'[d] = pc[d] /\ call'[d] = call[d]
         /\ \/ pc'[c] = "idle"
            \/ pc'[c] \in {"report", "readback"} /\ call'[c] = call[c]
         /\ pc'[c] = "readback" => pc' = [pc EXCEPT ![c] = "readback"]
<1>1. pc \in [Clients -> Labels] /\ call \in [Clients -> CallRecords \cup {NoCall}]
  BY DEF TypeOK
<1>2. CASE pc' = [pc EXCEPT ![c] = "idle"] /\ call' = [call EXCEPT ![c] = NoCall]
  <2>1. call' \in [Clients -> CallRecords \cup {NoCall}]
    BY <1>1, <1>2
  <2> QED
    BY <1>1, <1>2, <2>1 DEF Labels
<1>3. CASE (pc' = [pc EXCEPT ![c] = "report"] \/ pc' = [pc EXCEPT ![c] = "readback"])
           /\ UNCHANGED call
  BY <1>1, <1>3 DEF Labels
<1> QED
  BY <1>2, <1>3

-----------------------------------------------------------------------------
(* Steps of calls under way, of the sweeper and of a crash: the clients of *)
(* S end their call or finish it, the others do not move.                  *)

Acts(S) ==
    /\ UNCHANGED <<now, calls>>
    /\ \A d \in Clients \ S : pc'[d] = pc[d] /\ call'[d] = call[d]
    /\ \A d \in S :
          \/ pc'[d] = "idle"
          \/ /\ pc[d] # "idle" /\ pc'[d] \in {"report", "readback"}
             /\ call'[d] = call[d]
             /\ pc'[d] = "readback" => call[d].op = "incr"
    /\ \A k \in Keys : RowStep(k)
    /\ \A p \in Caches : sweep'[p] <= now
    /\ \/ UNCHANGED rows /\ stale \ S \subseteq stale'
       \/ Swapping \ S \subseteq stale'
    /\ \A x \in taken' \ taken : x.key \in Keys /\ x.was = rows[x.key]

\* The invariants about calls under way.
CallInv == CallTypes /\ ClocksBehind /\ FreshIds /\ SnapshotIsCurrent /\ RemovesExpired

\* The rows such a step leaves: a text is one that was there, or has the number
\* of the call that wrote it.
LEMMA TextRows ==
  ASSUME TypeOK, CallInv, NEW S \in SUBSET Clients, Acts(S), NEW k \in Keys,
         rows'[k].type = "text"
  PROVE  \/ rows[k].type = "text" /\ rows'[k].n = rows[k].n
         \/ \E d \in S : /\ pc[d] \in {"exec", "swap"} /\ rows'[k].n = call[d].id
                         /\ pc'[d] # pc[d]
<1>0. NoRow.type # "text"
  BY DEF NoRow
<1>1. CASE rows'[k] = rows[k]
  BY <1>1
<1>2. CASE Sweeps(k)
  BY <1>0, <1>2 DEF Sweeps
<1>3. ASSUME NEW c \in Clients, Moves(c), Writes(c, k)
      PROVE  \E d \in S : /\ pc[d] \in {"exec", "swap"} /\ rows'[k].n = call[d].id
                          /\ pc'[d] # pc[d]
  <2>1. c \in S
    BY <1>3 DEF Acts, Moves
  <2>2. pc[c] \in {"exec", "swap"}
    BY <1>3 DEF Writes
  <2>3. Written(c).n = call[c].id
    BY <2>2, WrittenType DEF CallInv
  <2> QED
    BY <1>3, <2>1, <2>2, <2>3 DEF Writes, Moves
<1>4. ASSUME NEW c \in Clients, Renews(c, k) \/ Increments(c, k) \/ Removes(c, k)
      PROVE  rows[k].type = "text" /\ rows'[k].n = rows[k].n
  BY <1>0, <1>4 DEF Renews, Increments, Removes
<1> QED
  BY <1>1, <1>2, <1>3, <1>4 DEF Acts, RowStep

\* Such a step keeps the invariants about calls under way.
LEMMA ActsKeep ==
  ASSUME TypeOK, CallInv, NEW S \in SUBSET Clients, Acts(S), TypeOK'
  PROVE  CallInv'
<1>0. /\ now' = now /\ calls' = calls /\ now \in Nat /\ calls \in Nat
      /\ \A d \in Clients : pc'[d] # "idle" => pc[d] # "idle" /\ call'[d] = call[d]
      /\ \A d \in Clients : pc'[d] \in {"exec", "decide", "remove", "swap"} =>
             d \notin S /\ pc'[d] = pc[d]
  BY DEF Acts, TypeOK
<1>1. CallTypes'
  BY <1>0 DEF CallTypes, CallInv, Acts
<1>2. ClocksBehind'
  BY <1>0 DEF ClocksBehind, CallInv, Acts
<1>3. FreshIds'
  <2>1. \A c \in Clients : pc'[c] # "idle" => call'[c].id <= calls'
    BY <1>0 DEF FreshIds, CallInv
  <2>2. \A c, d \in Clients :
           c # d /\ pc'[c] # "idle" /\ pc'[d] # "idle" => call'[c].id # call'[d].id
    BY <1>0 DEF FreshIds, CallInv
  <2>3. \A k \in Keys : rows'[k].type = "text" => rows'[k].n <= calls'
    BY <1>0, TextRows DEF FreshIds, CallInv
  <2>4. \A x \in taken' : x.was.type = "text" =>
           \/ x \in taken
           \/ \E k \in Keys : rows[k].type = "text" /\ x.was.n = rows[k].n
    BY DEF Acts
  <2>5. \A x \in taken' : x.was.type = "text" => x.was.n <= calls'
    BY <1>0, <2>4 DEF FreshIds, CallInv
  <2>6. ASSUME NEW c \in Clients, pc'[c] \in {"exec", "swap"}
        PROVE  /\ \A k \in Keys : rows'[k].type = "text" => rows'[k].n # call'[c].id
               /\ \A x \in taken' : x.was.type = "text" => x.was.n # call'[c].id
    <3>1. pc[c] \in {"exec", "swap"} /\ c \notin S /\ call'[c] = call[c]
      BY <1>0, <2>6
    <3>2. \A k \in Keys : rows'[k].type = "text" => rows'[k].n # call'[c].id
      <4> SUFFICES ASSUME NEW k \in Keys, rows'[k].type = "text"
                   PROVE  rows'[k].n # call'[c].id
        OBVIOUS
      <4>1. CASE rows[k].type = "text" /\ rows'[k].n = rows[k].n
        BY <3>1, <4>1 DEF FreshIds, CallInv
      <4>2. CASE \E d \in S : pc[d] \in {"exec", "swap"} /\ rows'[k].n = call[d].id
        BY <3>1, <4>2 DEF FreshIds, CallInv
      <4> QED
        BY <4>1, <4>2, TextRows
    <3>3. \A x \in taken' : x.was.type = "text" => x.was.n # call'[c].id
      BY <2>4, <3>1 DEF FreshIds, CallInv
    <3> QED
      BY <3>2, <3>3
  <2> QED
    BY <2>1, <2>2, <2>3, <2>5, <2>6 DEF FreshIds
<1>4. SnapshotIsCurrent'
  <2> SUFFICES ASSUME NEW c \in Clients, pc'[c] = "swap", c \notin stale',
                      NEW k \in call'[c].keys
               PROVE  call'[c].seen[k] = rows'[k]
    BY DEF SnapshotIsCurrent
  <2>1. c \notin S /\ pc[c] = "swap" /\ call'[c] = call[c]
    BY <1>0
  <2>2. c \in Swapping
    BY <2>1 DEF Swapping
  <2>3. UNCHANGED rows /\ c \notin stale
    BY <2>1, <2>2 DEF Acts
  <2> QED
    BY <2>1, <2>3 DEF SnapshotIsCurrent, CallInv
<1>5. RemovesExpired'
  BY <1>0 DEF RemovesExpired, CallInv
<1> QED
  BY <1>1, <1>2, <1>3, <1>4, <1>5 DEF CallInv

\* Unless it is a GetSet's, such a step leaves no value in the table again that
\* a GetSet has taken.
LEMMA ActsTakeNothing ==
  ASSUME TypeOK, StoreInv, NEW S \in SUBSET Clients, Acts(S), UNCHANGED taken
  PROVE  SwapsTakeEachValueOnce'
<1>0. CallInv /\ FreshIds /\ SwapsTakeEachValueOnce
  BY DEF CallInv, StoreInv
<1> SUFFICES ASSUME NEW x \in taken, x.was.type = "text"
             PROVE  rows'[x.key].n # x.was.n \/ rows'[x.key].type # "text"
  BY <1>0 DEF SwapsTakeEachValueOnce
<1>1. x.key \in Keys
  BY DEF TypeOK
<1>2. ASSUME rows'[x.key].type = "text" PROVE rows'[x.key].n # x.was.n
  <2>1. CASE rows[x.key].type = "text" /\ rows'[x.key].n = rows[x.key].n
    BY <1>0, <2>1 DEF SwapsTakeEachValueOnce
  <2>2. CASE \E d \in S : pc[d] \in {"exec", "swap"} /\ rows'[x.key].n = call[d].id
    BY <1>0, <2>2 DEF FreshIds
  <2> QED
    BY <1>0, <1>1, <1>2, <2>1, <2>2, TextRows
<1> QED
  BY <1>2

-----------------------------------------------------------------------------
(* Each of these steps is one of Acts.                                     *)

\* A statement that leaves the row v for some of the call's keys.
LEMMA AffectActs ==
  ASSUME TypeOK, CallInv, NEW c \in Clients, pc[c] \in {"exec", "remove"},
         NEW hit \in SUBSET call[c].keys, NEW v \in Rows,
         Affect(c, hit, [k \in Keys |-> v]), UNCHANGED <<now, calls, sweep, taken>>,
         \/ v = Written(c) /\ pc[c] = "exec"
         \/ v = NoRow /\ (pc[c] = "remove" \/ call[c].op \in {"delete", "flush"})
  PROVE  TypeOK' /\ Acts({c})
<1>0. hit \in SUBSET Keys
  BY DEF CallInv, CallTypes, CallRecords
<1>1. /\ Moves(c)
      /\ \A k \in Keys : rows'[k] = IF k \in hit THEN v ELSE rows[k]
      /\ rows' = [k \in Keys |-> rows'[k]]
      /\ UNCHANGED <<rows, stale>> \/ stale' = stale \cup Swapping
      /\ \/ pc' = [pc EXCEPT ![c] = "idle"] /\ call' = [call EXCEPT ![c] = NoCall]
         \/ pc' = [pc EXCEPT ![c] = "report"] /\ UNCHANGED call
  BY <1>0, AffectRows
<1>2. rows' \in [Keys -> Rows]
  BY <1>1 DEF TypeOK
<1>3. stale' \subseteq Clients
  BY <1>1 DEF TypeOK, Swapping
<1>4. TypeOK'
  BY <1>1, <1>2, <1>3, ClientTypes DEF TypeOK
<1>5. \A k \in Keys : RowStep(k)
  BY <1>1 DEF RowStep, Writes, Removes
<1>6. pc'[c] \in {"idle", "report"}
  BY <1>1 DEF TypeOK
<1> QED
  BY <1>1, <1>4, <1>5, <1>6, ClientTypes DEF Acts, CallInv, ClocksBehind

\* Set, SetMany, Add and Replace.
LEMMA UpsertActs ==
  ASSUME TypeOK, CallInv, NEW c \in Clients,
         ExecSet(c) \/ ExecSetMany(c) \/ ExecAdd(c) \/ ExecReplace(c)
  PROVE  TypeOK' /\ Acts({c}) /\ UNCHANGED taken
<1>1. pc[c] = "exec" /\ UNCHANGED <<now, calls, sweep, taken>>
  BY DEF ExecSet, ExecSetMany, ExecAdd, ExecReplace, Executes
<1>2. Written(c) \in Rows
  BY <1>1, WrittenType DEF CallInv
<1>3. PICK hit \in SUBSET call[c].keys : Affect(c, hit, [k \in Keys |-> Written(c)])
  <2>1. CASE ExecSet(c) \/ ExecSetMany(c)
    BY <2>1 DEF ExecSet, ExecSetMany
  <2>2. CASE ExecAdd(c)
    BY <2>2 DEF ExecAdd
  <2>3. CASE ExecReplace(c)
    BY <2>3 DEF ExecReplace
  <2> QED
    BY <2>1, <2>2, <2>3
<1> QED
  BY <1>1, <1>2, <1>3, AffectActs

\* Delete, Flush, and the Delete of a GetMany.
LEMMA RemoveActs ==
  ASSUME TypeOK, CallInv, NEW c \in Clients,
         ExecDelete(c) \/ ExecFlush(c) \/ DeleteExpired(c)
  PROVE  TypeOK' /\ Acts({c}) /\ UNCHANGED taken
<1>1. /\ UNCHANGED <<now, calls, sweep, taken>> /\ RemoveRows(c)
      /\ pc[c] = "remove" \/ (pc[c] = "exec" /\ call[c].op \in {"delete", "flush"})
  BY DEF ExecDelete, ExecFlush, DeleteExpired, Executes
<1>2. PICK hit \in SUBSET call[c].keys : Affect(c, hit, [k \in Keys |-> NoRow])
  BY <1>1 DEF RemoveRows
<1> QED
  BY <1>1, <1>2, AffectActs, RowTypes

\* Expire, Touch and Persist.
LEMMA SetExpiryActs ==
  ASSUME TypeOK, CallInv, NEW c \in Clients, NEW e \in Int, pc[c] = "exec",
         call[c].op \in {"expire", "persist"}, SetExpiry(c, e),
         UNCHANGED <<now, calls, sweep, taken>>
  PROVE  TypeOK' /\ Acts({c}) /\ UNCHANGED taken
<1>0. KeyOf(c) \in Keys /\ call[c].keys = {KeyOf(c)}
  BY OneKey DEF CallInv, SeveralKeys
<1>1. Return(c)
  BY DEF SetExpiry
<1>2. /\ pc' = [pc EXCEPT ![c] = "idle"] /\ call' = [call EXCEPT ![c] = NoCall]
      /\ pc'[c] = "idle" /\ Moves(c)
  BY <1>1 DEF Return, TypeOK, Moves
<1>3. CASE UNCHANGED <<rows, stale>>
  <2>1. TypeOK'
    BY <1>2, <1>3, ClientTypes DEF TypeOK
  <2> QED
    BY <1>2, <1>3, <2>1, ClientTypes DEF Acts, RowStep, CallInv, ClocksBehind
<1>4. CASE /\ Live(rows[KeyOf(c)], call[c].now)
           /\ Commit([rows EXCEPT ![KeyOf(c)].exp = e])
  <2>0. rows[KeyOf(c)] \in Rows /\ rows \in [Keys -> Rows]
    BY <1>0 DEF TypeOK
  <2>1. /\ rows' = [rows EXCEPT ![KeyOf(c)] = [rows[KeyOf(c)] EXCEPT !.exp = e]]
        /\ stale' = stale \cup Swapping
    BY <1>4 DEF Commit
  <2>2. /\ rows'[KeyOf(c)] = [rows[KeyOf(c)] EXCEPT !.exp = e]
        /\ \A k \in Keys \ {KeyOf(c)} : rows'[k] = rows[k]
    BY <1>0, <2>0, <2>1
  <2>3. /\ rows'[KeyOf(c)] \in Rows
        /\ rows'[KeyOf(c)].type = rows[KeyOf(c)].type
        /\ rows'[KeyOf(c)].n = rows[KeyOf(c)].n
    BY <2>0, <2>2 DEF Rows
  <2>4. rows' \in [Keys -> Rows]
    BY <2>0, <2>1, <2>2, <2>3
  <2>5. stale' \subseteq Clients
    BY <2>1 DEF TypeOK, Swapping
  <2>6. TypeOK'
    BY <1>2, <2>4, <2>5, ClientTypes DEF TypeOK
  <2>7. \A k \in Keys : RowStep(k)
    BY <1>0, <1>2, <1>4, <2>2, <2>3 DEF RowStep, Renews
  <2> QED
    BY <1>2, <2>1, <2>6, <2>7, ClientTypes DEF Acts, CallInv, ClocksBehind
<1> QED
  BY <1>3, <1>4 DEF SetExpiry

\* Expire and Persist give an expiry of the right type.
LEMMA ExpireActs ==
  ASSUME TypeOK, CallInv, NEW c \in Clients, ExecExpire(c) \/ ExecPersist(c)
  PROVE  TypeOK' /\ Acts({c}) /\ UNCHANGED taken
<1>1. /\ UNCHANGED <<now, calls, sweep, taken>> /\ pc[c] = "exec"
      /\ call[c].op \in {"expire", "persist"}
  BY DEF ExecExpire, ExecPersist, Executes
<1>2. ExpiresAt(call[c].ttl, call[c].now) \in Int /\ Never \in Int
  BY <1>1, ExpiryType DEF CallInv
<1>3. SetExpiry(c, ExpiresAt(call[c].ttl, call[c].now)) \/ SetExpiry(c, Never)
  BY DEF ExecExpire, ExecPersist
<1> QED
  BY <1>1, <1>2, <1>3, SetExpiryActs

\* Incr: the upsert, or the refusal.
LEMMA IncrActs ==
  ASSUME TypeOK, CallInv, NEW c \in Clients, ExecIncr(c)
  PROVE  TypeOK' /\ Acts({c}) /\ UNCHANGED taken
<1>0. pc[c] = "exec" /\ call[c].op = "incr" /\ UNCHANGED <<now, calls, sweep, taken>>
  BY DEF ExecIncr, Executes
<1>1. KeyOf(c) \in Keys /\ call[c].keys = {KeyOf(c)}
  BY <1>0, OneKey DEF CallInv, SeveralKeys
<1>2. CASE Return(c) /\ UNCHANGED <<rows, stale>>
  <2>1. TypeOK'
    BY <1>0, <1>2, ClientTypes DEF TypeOK, Return
  <2>2. pc'[c] = "idle"
    BY <1>2 DEF Return, TypeOK
  <2> QED
    BY <1>0, <1>2, <2>1, <2>2, ClientTypes DEF Return, Acts, RowStep, CallInv, ClocksBehind
<1>3. CASE /\ Commit([rows EXCEPT ![KeyOf(c)] = Incremented(rows[KeyOf(c)], call[c].now)])
           /\ GoOn(c, "readback")
  <2>0. rows \in [Keys -> Rows] /\ rows[KeyOf(c)] \in Rows
    BY <1>1 DEF TypeOK
  <2>1. /\ rows' \in [Keys -> Rows] /\ rows'[KeyOf(c)].type = "int"
        /\ \A k \in Keys \ {KeyOf(c)} : rows'[k] = rows[k]
    BY <1>1, <1>3, <2>0, RowTypes DEF Commit
  <2>2. stale' = stale \cup Swapping /\ stale' \subseteq Clients
    BY <1>3 DEF Commit, TypeOK, Swapping
  <2>3. pc' = [pc EXCEPT ![c] = "readback"] /\ UNCHANGED call
    BY <1>3 DEF GoOn
  <2>4. TypeOK'
    BY <1>0, <2>1, <2>2, <2>3, ClientTypes DEF TypeOK
  <2>5. Moves(c)
    BY <1>0, <2>3 DEF Moves, TypeOK
  <2>6. \A k \in Keys : RowStep(k)
    BY <1>0, <2>1, <2>5 DEF RowStep, Increments
  <2> QED
    BY <1>0, <2>2, <2>3, <2>4, <2>6, ClientTypes DEF Acts, CallInv, ClocksBehind
<1> QED
  BY <1>2, <1>3 DEF ExecIncr

\* The rest of a call that leaves the rows alone: the read-back of an Incr, the
\* change record, a failed statement, a read that found nothing expired.
LEMMA QuietActs ==
  ASSUME TypeOK, CallInv, NEW c \in Clients,
         ReadBack(c) \/ Report(c) \/ Fails(c) \/ (Return(c) /\ Decide(c))
  PROVE  TypeOK' /\ Acts({c}) /\ UNCHANGED taken
<1>1. /\ UNCHANGED <<rows, now, calls, sweep, taken>> /\ pc[c] # "idle"
      /\ stale' \subseteq stale /\ stale \ {c} \subseteq stale'
  BY DEF ReadBack, Report, Fails, Decide
<1>2. \/ pc' = [pc EXCEPT ![c] = "idle"] /\ call' = [call EXCEPT ![c] = NoCall]
      \/ pc' = [pc EXCEPT ![c] = "report"] /\ UNCHANGED call
  BY DEF ReadBack, Report, Fails, Return, GoOn
<1>3. pc'[c] \in {"idle", "report"}
  BY <1>2 DEF TypeOK
<1>4. TypeOK'
  BY <1>1, <1>2, ClientTypes DEF TypeOK
<1> QED
  BY <1>1, <1>2, <1>3, <1>4, ClientTypes DEF Acts, RowStep, CallInv, ClocksBehind

\* deleteRaw, after a read that found a row expired.
LEMMA LazyDeleteActs ==
  ASSUME TypeOK, CallInv, NEW c \in Clients, LazyDelete(c)
  PROVE  TypeOK' /\ Acts({c}) /\ UNCHANGED taken
<1>0. /\ pc[c] = "remove" /\ Return(c) /\ UNCHANGED <<now, calls, sweep, taken>>
      /\ call[c].op \in ReadOps \ {"getmany"}
  BY DEF LazyDelete, CallInv, CallTypes
<1>1. KeyOf(c) \in Keys /\ call[c].keys = {KeyOf(c)}
  BY <1>0, OneKey DEF CallInv, SeveralKeys, ReadOps
<1>2. /\ pc' = [pc EXCEPT ![c] = "idle"] /\ call' = [call EXCEPT ![c] = NoCall]
      /\ pc'[c] = "idle" /\ Moves(c)
  BY <1>0 DEF Return, TypeOK, Moves
<1>3. /\ rows' \in [Keys -> Rows] /\ stale' \subseteq Clients
      /\ rows'[KeyOf(c)] \in {NoRow, rows[KeyOf(c)]}
      /\ \A k \in Keys \ {KeyOf(c)} : rows'[k] = rows[k]
      /\ UNCHANGED <<rows, stale>> \/ stale' = stale \cup Swapping
  <2>1. CASE UNCHANGED <<rows, stale>>
    BY <2>1 DEF TypeOK
  <2>2. CASE Commit([rows EXCEPT ![KeyOf(c)] = NoRow])
    BY <1>1, <2>2, RowTypes DEF TypeOK, Commit, Swapping
  <2> QED
    BY <2>1, <2>2 DEF LazyDelete
<1>4. TypeOK'
  BY <1>0, <1>2, <1>3, ClientTypes DEF TypeOK
<1>5. \A k \in Keys : RowStep(k)
  BY <1>0, <1>1, <1>2, <1>3 DEF RowStep, Removes
<1> QED
  BY <1>0, <1>2, <1>3, <1>4, <1>5, ClientTypes DEF Acts, CallInv, ClocksBehind

\* The sweeper, when it reads the clock and when it deletes a batch.
LEMMA SweeperActs ==
  ASSUME TypeOK, CallInv, NEW p \in Sweepers, Sweeper(p)
  PROVE  TypeOK' /\ Acts({}) /\ UNCHANGED taken
<1>0. p \in Caches /\ now \in Nat
  BY CacheStoreAssumption DEF TypeOK
<1>1. CASE SweepStart(p)
  <2>1. sweep' \in [Caches -> {NotSweeping} \cup Nat] /\ \A q \in Caches : sweep'[q] <= now
    BY <1>0, <1>1 DEF SweepStart, TypeOK, CallInv, ClocksBehind
  <2> QED
    BY <1>1, <2>1 DEF SweepStart, TypeOK, Acts, RowStep
<1>2. CASE SweepDelete(p)
  <2> DEFINE dead == {k \in Keys : Expired(rows[k], sweep[p])}
  <2>1. PICK S \in SUBSET dead :
          /\ IF S = {} THEN UNCHANGED <<rows, stale>>
             ELSE Commit([k \in Keys |-> IF k \in S THEN NoRow ELSE rows[k]])
          /\ sweep' = sweep \/ sweep' = [sweep EXCEPT ![p] = NotSweeping]
    BY <1>2 DEF SweepDelete
  <2>2. sweep[p] # NotSweeping /\ UNCHANGED <<now, calls, pc, call, taken>>
    BY <1>2 DEF SweepDelete
  <2>3. sweep' \in [Caches -> {NotSweeping} \cup Nat] /\ \A q \in Caches : sweep'[q] <= now
    BY <1>0, <2>1 DEF TypeOK, CallInv, ClocksBehind, NotSweeping
  <2>4. /\ rows' \in [Keys -> Rows] /\ stale' \subseteq Clients
        /\ UNCHANGED <<rows, stale>> \/ stale' = stale \cup Swapping
        /\ \A k \in Keys : rows'[k] = rows[k] \/ (rows'[k] = NoRow /\ k \in dead)
    <3>1. CASE S = {}
      BY <2>1, <3>1 DEF TypeOK
    <3>2. CASE S # {}
      BY <2>1, <3>2, RowTypes DEF TypeOK, Commit, Swapping
    <3> QED
      BY <3>1, <3>2
  <2>5. TypeOK'
    BY <2>2, <2>3, <2>4 DEF TypeOK
  <2>6. \A k \in Keys : RowStep(k)
    BY <1>0, <2>2, <2>4 DEF RowStep, Sweeps
  <2> QED
    BY <2>2, <2>3, <2>4, <2>5, <2>6 DEF Acts
<1> QED
  BY <1>1, <1>2 DEF Sweeper

\* The calls of a process that dies end.
LEMMA CrashActs ==
  ASSUME TypeOK, CallInv, NEW p \in Caches, Crash(p)
  PROVE  /\ TypeOK' /\ UNCHANGED taken
         /\ Acts({c \in Clients : CacheOf[c] = p})
<1> DEFINE its == {c \in Clients : CacheOf[c] = p}
<1>1. /\ pc' = [c \in Clients |-> IF c \in its THEN "idle" ELSE pc[c]]
      /\ call' = [c \in Clients |-> IF c \in its THEN NoCall ELSE call[c]]
      /\ stale' = stale \ its /\ sweep' = [sweep EXCEPT ![p] = NotSweeping]
      /\ UNCHANGED <<rows, now, calls, taken>>
  BY DEF Crash
<1>2. pc' \in [Clients -> Labels]
  BY <1>1 DEF TypeOK, Labels
<1>3. call' \in [Clients -> CallRecords \cup {NoCall}]
  BY <1>1 DEF TypeOK
<1>4. sweep' \in [Caches -> {NotSweeping} \cup Nat] /\ \A q \in Caches : sweep'[q] <= now
  BY <1>1 DEF TypeOK, CallInv, ClocksBehind, NotSweeping
<1>5. TypeOK'
  BY <1>1, <1>2, <1>3, <1>4 DEF TypeOK
<1> QED
  BY <1>1, <1>4, <1>5 DEF Acts, RowStep

\* GetSet's upsert: it takes the row that is there.
LEMMA SwapActs ==
  ASSUME TypeOK, CallInv, NEW c \in Clients, Swap(c)
  PROVE  /\ TypeOK' /\ Acts({c})
         /\ \E k \in Keys :
               /\ rows'[k].n # rows[k].n \/ rows[k].type # "text"
               /\ \/ UNCHANGED taken
                  \/ taken' = taken \cup {[key |-> k, was |-> rows[k], by |-> call[c].id]}
<1>0. /\ pc[c] = "swap" /\ c \notin stale /\ UNCHANGED <<now, calls, sweep>>
      /\ pc' = [pc EXCEPT ![c] = "report"] /\ UNCHANGED call
  BY DEF Swap, Exchange, GoOn
<1>1. call[c].op = "getset" /\ call[c].id \in Nat
  BY <1>0 DEF CallInv, CallTypes, CallRecords
<1>2. KeyOf(c) \in Keys /\ call[c].keys = {KeyOf(c)}
  BY <1>0, <1>1, OneKey DEF CallInv, SeveralKeys
<1>3. call[c].seen[KeyOf(c)] = rows[KeyOf(c)] /\ rows[KeyOf(c)] \in Rows
  BY <1>0, <1>2 DEF CallInv, SnapshotIsCurrent, TypeOK
<1>4. Written(c) \in Rows /\ Written(c).n = call[c].id
  BY <1>0, WrittenType DEF CallInv
<1>5. /\ rows' = [rows EXCEPT ![KeyOf(c)] = Written(c)]
      /\ stale' = (stale \cup Swapping) \ {c}
      /\ \/ UNCHANGED taken
         \/ taken' = taken \cup {[key |-> KeyOf(c), was |-> rows[KeyOf(c)], by |-> call[c].id]}
  BY <1>3 DEF Swap, Exchange
<1>6. /\ rows' \in [Keys -> Rows] /\ rows'[KeyOf(c)] = Written(c)
      /\ \A k \in Keys \ {KeyOf(c)} : rows'[k] = rows[k]
  BY <1>2, <1>4, <1>5 DEF TypeOK
<1>7. stale' \subseteq Clients
  BY <1>5 DEF TypeOK, Swapping
<1>8. taken' \subseteq [key : Keys, was : Rows, by : Nat]
  BY <1>1, <1>2, <1>3, <1>5 DEF TypeOK
<1>9. TypeOK'
  BY <1>0, <1>6, <1>7, <1>8, ClientTypes DEF TypeOK
<1>10. Moves(c) /\ pc'[c] = "report"
  BY <1>0 DEF Moves, TypeOK
<1>11. \A k \in Keys : RowStep(k)
  BY <1>0, <1>2, <1>6, <1>10 DEF RowStep, Writes
<1>12. \A x \in taken' \ taken : x.key \in Keys /\ x.was = rows[x.key]
  BY <1>2, <1>5
<1>13. Acts({c})
  BY <1>0, <1>5, <1>9, <1>10, <1>11, <1>12, ClientTypes DEF Acts, CallInv, ClocksBehind
<1>14. rows'[KeyOf(c)].n # rows[KeyOf(c)].n \/ rows[KeyOf(c)].type # "text"
  BY <1>0, <1>2, <1>4, <1>6 DEF CallInv, FreshIds
<1> QED
  BY <1>2, <1>5, <1>9, <1>13, <1>14

\* A GetSet on a current snapshot takes a value nobody has taken before.
LEMMA SwapTakes ==
  ASSUME TypeOK, StoreInv, NEW c \in Clients, Swap(c)
  PROVE  SwapsTakeEachValueOnce'
<1>0. CallInv /\ FreshIds /\ SwapsTakeEachValueOnce
  BY DEF CallInv, StoreInv
<1>1. Acts({c})
  BY <1>0, SwapActs
<1>2. PICK k \in Keys :
        /\ rows'[k].n # rows[k].n \/ rows[k].type # "text"
        /\ \/ UNCHANGED taken
           \/ taken' = taken \cup {[key |-> k, was |-> rows[k], by |-> call[c].id]}
  BY <1>0, SwapActs
<1>3. CASE UNCHANGED taken
  BY <1>1, <1>3, ActsTakeNothing
<1>4. CASE taken' = taken \cup {[key |-> k, was |-> rows[k], by |-> call[c].id]}
  <2> DEFINE new == [key |-> k, was |-> rows[k], by |-> call[c].id]
  <2>1. ASSUME NEW x \in taken, x.was.type = "text"
        PROVE  /\ rows'[x.key].n # x.was.n \/ rows'[x.key].type # "text"
               /\ x.key = k /\ rows[k].type = "text" => x.was.n # rows[k].n
    <3>1. x.key \in Keys
      BY DEF TypeOK
    <3>2. rows[x.key].n # x.was.n \/ rows[x.key].type # "text"
      BY <1>0, <2>1 DEF SwapsTakeEachValueOnce
    <3>3. ASSUME rows'[x.key].type = "text" PROVE rows'[x.key].n # x.was.n
      <4>1. CASE rows[x.key].type = "text" /\ rows'[x.key].n = rows[x.key].n
        BY <3>2, <4>1
      <4>2. CASE \E d \in {c} : pc[d] \in {"exec", "swap"} /\ rows'[x.key].n = call[d].id
        BY <1>0, <2>1, <4>2 DEF FreshIds
      <4> QED
        BY <1>0, <1>1, <3>1, <3>3, <4>1, <4>2, TextRows
    <3> QED
      BY <3>2, <3>3
  <2>2. ASSUME NEW x \in taken, NEW y \in taken, x.was.type = "text",
               y.key = x.key, y.was.type = "text", y.was.n = x.was.n
        PROVE  y.by = x.by
    BY <1>0, <2>2 DEF SwapsTakeEachValueOnce
  <2>3. \A x \in taken' : x \in taken \/ x = new
    BY <1>4
  <2>4. new.key = k /\ new.was = rows[k]
    OBVIOUS
  <2>5. ASSUME NEW x \in taken', x.was.type = "text"
        PROVE  rows'[x.key].n # x.was.n \/ rows'[x.key].type # "text"
    BY <1>2, <2>1, <2>3, <2>4, <2>5
  <2>6. ASSUME NEW x \in taken', NEW y \in taken', x.was.type = "text",
               y.key = x.key, y.was.type = "text", y.was.n = x.was.n
        PROVE  y.by = x.by
    <3> HIDE DEF new
    <3>1. CASE x = new /\ y = new
      BY <3>1
    <3>2. CASE x = new /\ y \in taken
      BY <2>1, <2>4, <2>6, <3>2
    <3>3. CASE x \in taken /\ y = new
      BY <2>1, <2>4, <2>6, <3>3
    <3>4. CASE x \in taken /\ y \in taken
      BY <2>2, <2>6, <3>4
    <3> QED
      BY <2>3, <3>1, <3>2, <3>3, <3>4
  <2> QED
    BY <2>5, <2>6 DEF SwapsTakeEachValueOnce
<1> QED
  BY <1>2, <1>3, <1>4

-----------------------------------------------------------------------------
(* The other steps: a call begins, a read decides, time passes.            *)

\* A call that begins has a number of its own, and what it selects is the rows
\* as they are.
LEMMA BeginKeeps ==
  ASSUME TypeOK, StoreInv, NEW c \in Clients, NEW op \in AllOps, NEW K \in SUBSET Keys,
         NEW ttl \in TTLs \cup {Never}, NEW at \in {"exec", "decide", "swap"},
         Begin(c, op, K, ttl, at),
         op \notin SeveralKeys => \E k \in Keys : K = {k},
         at = "decide" => op \in ReadOps, at = "swap" => op = "getset"
  PROVE  TypeOK' /\ StoreInv'
<1> DEFINE sel == [k \in IF at = "exec" THEN {} ELSE K |-> rows[k]]
           new == [op |-> op, keys |-> K, ttl |-> ttl, now |-> now, id |-> calls + 1,
                   seen |-> sel]
<1>0. /\ pc \in [Clients -> Labels] /\ call \in [Clients -> CallRecords \cup {NoCall}]
      /\ now \in Nat /\ calls \in Nat /\ rows \in [Keys -> Rows]
  BY DEF TypeOK
<1>1. /\ pc[c] = "idle" /\ calls' = calls + 1 /\ UNCHANGED <<rows, now, stale, sweep, taken>>
      /\ pc' = [pc EXCEPT ![c] = at] /\ call' = [call EXCEPT ![c] = new]
  BY DEF Begin
<1>2. sel \in Selections
  <2>1. (IF at = "exec" THEN {} ELSE K) \in SUBSET Keys
    OBVIOUS
  <2>2. sel \in [IF at = "exec" THEN {} ELSE K -> Rows]
    BY <1>0, <2>1
  <2> QED
    BY <2>1, <2>2 DEF Selections
<1>3. new \in CallRecords
  <2> HIDE DEF sel
  <2>1. calls + 1 \in Nat
    BY <1>0
  <2> QED
    BY <1>0, <1>2, <2>1 DEF CallRecords
<1>4. at # "exec" => \A k \in K : new.seen[k] = rows[k] /\ rows[k] \in Rows
  BY <1>0
<1>5. /\ new.op = op /\ new.keys = K /\ new.now = now /\ new.id = calls + 1
  OBVIOUS
<1> HIDE DEF new, sel
<1>6. /\ pc'[c] = at /\ call'[c] = new
      /\ \A d \in Clients \ {c} : pc'[d] = pc[d] /\ call'[d] = call[d]
  BY <1>0, <1>1
<1>7. TypeOK'
  <2>1. pc' \in [Clients -> Labels]
    BY <1>0, <1>1 DEF Labels
  <2>2. call' \in [Clients -> CallRecords \cup {NoCall}]
    BY <1>0, <1>1, <1>3
  <2> QED
    BY <1>0, <1>1, <2>1, <2>2 DEF TypeOK
<1>8. CallTypes'
  <2>1. ASSUME NEW d \in Clients, d # c, pc'[d] # "idle"
        PROVE  pc'[d] = pc[d] /\ call'[d] = call[d]
    BY <1>6, <2>1
  <2> QED
    BY <1>3, <1>4, <1>5, <1>6, <2>1 DEF CallTypes, StoreInv
<1>9. ClocksBehind'
  BY <1>0, <1>1, <1>5, <1>6 DEF ClocksBehind, StoreInv
<1>10. FreshIds'
  <2>0. /\ \A d \in Clients : pc[d] # "idle" => call[d].id \in Nat
        /\ \A k \in Keys : rows[k].n \in Nat
        /\ \A x \in taken : x.was.n \in Nat
    BY <1>0 DEF StoreInv, CallTypes, CallRecords, Rows, TypeOK
  <2>1. \A d \in Clients : pc'[d] # "idle" => call'[d].id <= calls'
    BY <1>0, <1>1, <1>5, <1>6, <2>0 DEF FreshIds, StoreInv
  <2>2. \A d, e \in Clients :
           d # e /\ pc'[d] # "idle" /\ pc'[e] # "idle" => call'[d].id # call'[e].id
    <3>1. \A d \in Clients : pc[d] # "idle" => call[d].id # calls + 1
      BY <1>0, <2>0 DEF FreshIds, StoreInv
    <3> QED
      BY <1>5, <1>6, <3>1 DEF FreshIds, StoreInv
  <2>3. /\ \A k \in Keys : rows[k].type = "text" => rows[k].n <= calls'
        /\ \A k \in Keys : rows[k].type = "text" => rows[k].n # calls + 1
        /\ \A x \in taken : x.was.type = "text" => x.was.n <= calls'
        /\ \A x \in taken : x.was.type = "text" => x.was.n # calls + 1
    BY <1>0, <1>1, <2>0 DEF FreshIds, StoreInv
  <2>4. ASSUME NEW d \in Clients, pc'[d] \in {"exec", "swap"}
        PROVE  /\ \A k \in Keys : rows[k].type = "text" => rows[k].n # call'[d].id
               /\ \A x \in taken : x.was.type = "text" => x.was.n # call'[d].id
    BY <1>5, <1>6, <2>3, <2>4 DEF FreshIds, StoreInv
  <2> QED
    BY <1>1, <2>1, <2>2, <2>3, <2>4 DEF FreshIds
<1>11. SnapshotIsCurrent'
  BY <1>1, <1>4, <1>5, <1>6 DEF SnapshotIsCurrent, StoreInv
<1>12. RemovesExpired'
  BY <1>1, <1>6 DEF RemovesExpired, StoreInv
<1>13. SwapsTakeEachValueOnce'
  BY <1>1 DEF SwapsTakeEachValueOnce, StoreInv
<1> QED
  BY <1>7, <1>8, <1>9, <1>10, <1>11, <1>12, <1>13 DEF StoreInv

\* Every call begins that way.
LEMMA CallsKeep ==
  ASSUME TypeOK, StoreInv, NEW c \in Clients, Calls(c)
  PROVE  TypeOK' /\ StoreInv'
<1>0. /\ WriteOps \subseteq AllOps /\ WriteOps \cap SeveralKeys = {}
      /\ {"setmany", "delete", "flush", "getset"} \subseteq AllOps
      /\ ReadOps \subseteq AllOps /\ "getset" \notin SeveralKeys
      /\ {"setmany", "delete", "flush", "getmany"} \subseteq SeveralKeys
      /\ {"get", "exists", "ttlof", "inspect", "getmany"} \subseteq ReadOps
      /\ {"get", "exists", "ttlof", "inspect"} \cap SeveralKeys = {}
  BY DEF WriteOps, AllOps, ReadOps, SeveralKeys
<1>1. CASE CallWrite(c)
  <2>1. PICK op \in WriteOps, k \in Keys, ttl \in TTLs \cup {Never} :
               Begin(c, op, {k}, ttl, "exec")
    BY <1>1 DEF CallWrite
  <2>2. op \in AllOps /\ {k} \in SUBSET Keys /\ op \notin SeveralKeys
    BY <1>0
  <2> QED
    BY <2>1, <2>2, BeginKeeps
<1>2. CASE CallSetMany(c)
  BY <1>0, <1>2, BeginKeeps DEF CallSetMany
<1>3. CASE CallDelete(c)
  BY <1>0, <1>3, BeginKeeps DEF CallDelete
<1>4. CASE CallFlush(c)
  BY <1>0, <1>4, BeginKeeps DEF CallFlush
<1>5. CASE CallGet(c) \/ CallExists(c) \/ CallTTLOf(c) \/ CallInspect(c)
  <2>1. PICK op \in {"get", "exists", "ttlof", "inspect"}, k \in Keys :
               Begin(c, op, {k}, Never, "decide")
    BY <1>5 DEF CallGet, CallExists, CallTTLOf, CallInspect
  <2>2. op \in AllOps /\ {k} \in SUBSET Keys /\ op \notin SeveralKeys /\ op \in ReadOps
    BY <1>0
  <2> QED
    BY <2>1, <2>2, BeginKeeps
<1>6. CASE CallGetMany(c)
  BY <1>0, <1>6, BeginKeeps DEF CallGetMany
<1>7. CASE CallGetSet(c)
  <2>1. PICK k \in Keys : Begin(c, "getset", {k}, Never, "swap")
    BY <1>7 DEF CallGetSet
  <2>2. {k} \in SUBSET Keys /\ "getset" \in AllOps
    BY <1>0
  <2> QED
    BY <1>0, <2>1, <2>2, BeginKeeps
<1> QED
  BY <1>1, <1>2, <1>3, <1>4, <1>5, <1>6, <1>7 DEF Calls

\* A read keeps the keys it found expired, and goes on to remove them.
LEMMA DecideKeeps ==
  ASSUME TypeOK, StoreInv, NEW c \in Clients, Decide(c), ~Return(c)
  PROVE  TypeOK' /\ StoreInv'
<1> DEFINE dead == {k \in call[c].keys : Expired(call[c].seen[k], now)}
<1>0. /\ pc \in [Clients -> Labels] /\ call \in [Clients -> CallRecords \cup {NoCall}]
      /\ now \in Nat /\ calls \in Nat
  BY DEF TypeOK
<1>1. /\ pc[c] = "decide" /\ dead # {} /\ UNCHANGED <<rows, now, calls, stale, sweep, taken>>
      /\ pc' = [pc EXCEPT ![c] = "remove"]
      /\ call' = [call EXCEPT ![c].keys = dead]
  BY DEF Decide
<1>2. /\ call[c] \in CallRecords /\ call[c].op \in ReadOps
      /\ call[c].op \notin SeveralKeys => \E k \in Keys : call[c].keys = {k}
      /\ \A k \in call[c].keys : call[c].seen[k] \in Rows
  BY <1>1 DEF StoreInv, CallTypes
<1>3. /\ pc'[c] = "remove" /\ call'[c] = [call[c] EXCEPT !.keys = dead]
      /\ \A d \in Clients \ {c} : pc'[d] = pc[d] /\ call'[d] = call[d]
  BY <1>0, <1>1
<1>4. /\ call'[c] \in CallRecords /\ call'[c].keys = dead
      /\ call'[c].op = call[c].op /\ call'[c].seen = call[c].seen
      /\ call'[c].id = call[c].id /\ call'[c].now = call[c].now
  <2>1. dead \in SUBSET Keys
    BY <1>2 DEF CallRecords
  <2> HIDE DEF dead
  <2> QED
    BY <1>2, <1>3, <2>1 DEF CallRecords
<1>5. call[c].op \notin SeveralKeys => \E k \in Keys : dead = {k}
  BY <1>1, <1>2
<1>6. TypeOK'
  <2>1. pc' \in [Clients -> Labels]
    BY <1>0, <1>1 DEF Labels
  <2>2. call' \in [Clients -> CallRecords \cup {NoCall}]
    <3>1. call' = [call EXCEPT ![c] = call'[c]]
      BY <1>0, <1>1, <1>3
    <3> QED
      BY <1>0, <1>4, <3>1
  <2> QED
    BY <1>1, <2>1, <2>2 DEF TypeOK
<1>7. CallTypes'
  <2>1. \A k \in dead : call[c].seen[k] \in Rows
    BY <1>2
  <2> HIDE DEF dead
  <2> SUFFICES ASSUME NEW d \in Clients, pc'[d] # "idle"
               PROVE  /\ call'[d] \in CallRecords
                      /\ call'[d].op \notin SeveralKeys =>
                             \E k \in Keys : call'[d].keys = {k}
                      /\ pc'[d] \in {"decide", "remove"} => call'[d].op \in ReadOps
                      /\ pc'[d] = "readback" => call'[d].op = "incr"
                      /\ pc'[d] = "swap" => call'[d].op = "getset"
                      /\ pc'[d] \in {"decide", "remove", "swap"} =>
                             \A k \in call'[d].keys : call'[d].seen[k] \in Rows
    BY DEF CallTypes
  <2>2. CASE d = c
    BY <1>2, <1>3, <1>4, <1>5, <2>1, <2>2
  <2>3. CASE d # c
    BY <1>3, <2>3 DEF CallTypes, StoreInv
  <2> QED
    BY <2>2, <2>3
<1>8. ClocksBehind'
  BY <1>1, <1>3, <1>4 DEF ClocksBehind, StoreInv
<1>9. FreshIds'
  <2>1. \A d \in Clients : call'[d].id = call[d].id /\ (pc'[d] # "idle" <=> pc[d] # "idle")
    BY <1>1, <1>3, <1>4
  <2>2. \A d \in Clients : pc'[d] \in {"exec", "swap"} => pc[d] \in {"exec", "swap"}
    BY <1>3
  <2> QED
    BY <1>1, <2>1, <2>2 DEF FreshIds, StoreInv
<1>10. SnapshotIsCurrent'
  BY <1>1, <1>3 DEF SnapshotIsCurrent, StoreInv
<1>11. RemovesExpired'
  BY <1>1, <1>3, <1>4 DEF RemovesExpired, StoreInv
<1>12. SwapsTakeEachValueOnce'
  BY <1>1 DEF SwapsTakeEachValueOnce, StoreInv
<1> QED
  BY <1>6, <1>7, <1>8, <1>9, <1>10, <1>11, <1>12 DEF StoreInv

\* What has expired stays so as time passes.
LEMMA TickKeeps ==
  ASSUME TypeOK, StoreInv, Tick
  PROVE  TypeOK' /\ StoreInv'
<1>1. now \in Nat /\ now' = now + 1 /\ UNCHANGED <<rows, calls, pc, call, stale, sweep, taken>>
  BY DEF Tick, TypeOK
<1>2. TypeOK'
  BY <1>1 DEF TypeOK
<1>3. CallTypes' /\ FreshIds' /\ SnapshotIsCurrent' /\ SwapsTakeEachValueOnce'
  BY <1>1 DEF CallTypes, FreshIds, SnapshotIsCurrent, SwapsTakeEachValueOnce, StoreInv
<1>4. ClocksBehind'
  <2>1. /\ \A p \in Caches : sweep[p] \in Int
        /\ \A c \in Clients : pc[c] # "idle" => call[c].now \in Int
    BY DEF TypeOK, NotSweeping, StoreInv, CallTypes, CallRecords
  <2> QED
    BY <1>1, <2>1 DEF ClocksBehind, StoreInv
<1>5. RemovesExpired'
  <2>1. \A c \in Clients : pc[c] = "remove" => \A k \in call[c].keys : call[c].seen[k].exp \in Int
    BY DEF StoreInv, CallTypes, Rows
  <2> QED
    BY <1>1, <2>1 DEF RemovesExpired, StoreInv, Expired
<1> QED
  BY <1>2, <1>3, <1>4, <1>5 DEF StoreInv

-----------------------------------------------------------------------------
(* The theorems.                                                           *)

\* The empty table, with no call under way, satisfies the invariant.
LEMMA StoreInit ==
  Init => TypeOK /\ StoreInv
<1> SUFFICES ASSUME Init PROVE TypeOK /\ StoreInv
  OBVIOUS
<1>1. rows \in [Keys -> Rows] /\ \A k \in Keys : rows[k].type = "none"
  BY RowTypes DEF Init, NoRow
<1>2. pc \in [Clients -> Labels] /\ \A c \in Clients : pc[c] = "idle"
  BY DEF Init, Labels
<1>3. sweep \in [Caches -> {NotSweeping} \cup Nat] /\ \A p \in Caches : sweep[p] <= now
  BY DEF Init, NotSweeping
<1>4. TypeOK
  BY <1>1, <1>2, <1>3 DEF Init, TypeOK
<1>5. CallTypes /\ SnapshotIsCurrent /\ RemovesExpired
  BY <1>2 DEF CallTypes, SnapshotIsCurrent, RemovesExpired
<1>6. ClocksBehind
  BY <1>2, <1>3 DEF ClocksBehind
<1>7. FreshIds
  BY <1>1, <1>2 DEF FreshIds, Init
<1>8. SwapsTakeEachValueOnce
  BY DEF SwapsTakeEachValueOnce, Init
<1> QED
  BY <1>4, <1>5, <1>6, <1>7, <1>8 DEF StoreInv

\* A step of a call under way is one of Acts, or a read that goes on to remove.
LEMMA StepsAct ==
  ASSUME TypeOK, CallInv, NEW c \in Clients, Steps(c)
  PROVE  \/ TypeOK' /\ Acts({c}) /\ (Swap(c) \/ UNCHANGED taken)
         \/ Decide(c) /\ ~Return(c)
<1>1. CASE ExecSet(c) \/ ExecSetMany(c) \/ ExecAdd(c) \/ ExecReplace(c)
  BY <1>1, UpsertActs
<1>2. CASE ExecExpire(c) \/ ExecPersist(c)
  BY <1>2, ExpireActs
<1>3. CASE ExecIncr(c)
  BY <1>3, IncrActs
<1>4. CASE ReadBack(c) \/ Report(c) \/ Fails(c) \/ Decide(c)
  BY <1>4, QuietActs
<1>5. CASE ExecDelete(c) \/ ExecFlush(c) \/ DeleteExpired(c)
  BY <1>5, RemoveActs
<1>6. CASE LazyDelete(c)
  BY <1>6, LazyDeleteActs
<1>7. CASE Swap(c)
  BY <1>7, SwapActs
<1> QED
  BY <1>1, <1>2, <1>3, <1>4, <1>5, <1>6, <1>7 DEF Steps

\* The rows of a step of the specification, key by key.
LEMMA RowSteps ==
  ASSUME TypeOK, StoreInv, [Next]_vars, NEW k \in Keys
  PROVE  RowStep(k)
<1>0. CallInv
  BY DEF CallInv, StoreInv
<1>1. CASE UNCHANGED rows
  BY <1>1 DEF RowStep
<1>2. ASSUME NEW c \in Clients, Calls(c) PROVE UNCHANGED rows
  BY <1>2 DEF Calls, CallWrite, CallSetMany, CallDelete, CallFlush, CallGet, CallExists,
              CallTTLOf, CallInspect, CallGetMany, CallGetSet, Begin
<1>3. ASSUME NEW c \in Clients, Steps(c) PROVE RowStep(k)
  <2>1. CASE Acts({c})
    BY <2>1 DEF Acts
  <2>2. CASE Decide(c)
    BY <1>1, <2>2 DEF Decide
  <2> QED
    BY <1>0, <1>3, <2>1, <2>2, StepsAct
<1>4. ASSUME NEW p \in Sweepers, Sweeper(p) PROVE RowStep(k)
  BY <1>0, <1>4, SweeperActs DEF Acts
<1>5. ASSUME NEW p \in Caches, Crash(p) PROVE UNCHANGED rows
  BY <1>5 DEF Crash
<1>6. Tick \/ UNCHANGED vars => UNCHANGED rows
  BY DEF Tick, vars
<1> QED
  BY <1>1, <1>2, <1>3, <1>4, <1>5, <1>6 DEF Next

\* Every step keeps the invariant.
LEMMA StoreNext ==
  TypeOK /\ StoreInv /\ [Next]_vars => TypeOK' /\ StoreInv'
<1> SUFFICES ASSUME TypeOK, StoreInv, [Next]_vars PROVE TypeOK' /\ StoreInv'
  OBVIOUS
<1>0. CallInv
  BY DEF CallInv, StoreInv
<1>1. ASSUME NEW S \in SUBSET Clients, Acts(S), TypeOK', UNCHANGED taken
      PROVE  StoreInv'
  BY <1>0, <1>1, ActsKeep, ActsTakeNothing DEF CallInv, StoreInv
<1>2. CASE Tick
  BY <1>2, TickKeeps
<1>3. ASSUME NEW c \in Clients, Calls(c) PROVE TypeOK' /\ StoreInv'
  BY <1>3, CallsKeep
<1>4. ASSUME NEW c \in Clients, Steps(c) PROVE TypeOK' /\ StoreInv'
  <2>0. {c} \in SUBSET Clients
    OBVIOUS
  <2>1. CASE TypeOK' /\ Acts({c}) /\ UNCHANGED taken
    BY <1>1, <2>0, <2>1
  <2>2. CASE TypeOK' /\ Acts({c}) /\ Swap(c)
    BY <1>0, <2>0, <2>2, ActsKeep, SwapTakes DEF CallInv, StoreInv
  <2>3. CASE Decide(c) /\ ~Return(c)
    BY <2>3, DecideKeeps
  <2> QED
    BY <1>0, <1>4, <2>1, <2>2, <2>3, StepsAct
<1>5. ASSUME NEW p \in Sweepers, Sweeper(p) PROVE TypeOK' /\ StoreInv'
  BY <1>0, <1>1, <1>5, SweeperActs
<1>6. ASSUME NEW p \in Caches, Crash(p) PROVE TypeOK' /\ StoreInv'
  <2>1. {c \in Clients : CacheOf[c] = p} \in SUBSET Clients
    OBVIOUS
  <2> QED
    BY <1>0, <1>1, <1>6, <2>1, CrashActs
<1>7. CASE UNCHANGED vars
  BY <1>7 DEF vars, TypeOK, StoreInv, CallTypes, ClocksBehind, FreshIds, SnapshotIsCurrent,
              RemovesExpired, SwapsTakeEachValueOnce
<1> QED
  BY <1>2, <1>3, <1>4, <1>5, <1>6, <1>7 DEF Next

\* The rows, the calls and the clocks have their types in every reachable state.
THEOREM StoreTypeCorrect == Spec => []TypeOK
<1> QED
  BY StoreInit, StoreNext, PTL DEF Spec

\* Clock values lag behind the clock, the numbers of pending writes are unused, a
\* GetSet that may still commit has seen the row as it is, and a read removes only
\* keys it found expired, in every reachable state.
THEOREM StoreInvariant == Spec => []StoreInv
<1> QED
  BY StoreInit, StoreNext, PTL DEF Spec

\* GetSet is an atomic swap across processes (kv.go): whatever else runs, a
\* value is returned by at most one GetSet and is gone once it has been.
THEOREM SwapTheorem == Spec => []SwapsTakeEachValueOnce
<1>1. StoreInv => SwapsTakeEachValueOnce
  BY DEF StoreInv
<1> QED
  BY <1>1, StoreInvariant, PTL

\* removeExpiredBatch removes no row that is not expired when it is removed,
\* although its clock value is as old as its first batch.
THEOREM SweepTheorem == Spec => SweepRemovesOnlyExpired
<1>1. ASSUME TypeOK, StoreInv, [Next]_vars, UNCHANGED pc, NEW k \in Keys, rows'[k] # rows[k]
      PROVE  Expired(rows[k], now)
  <2>1. Sweeps(k)
    BY <1>1, RowSteps DEF RowStep, Moves
  <2>2. PICK p \in Caches : sweep[p] # NotSweeping /\ Expired(rows[k], sweep[p])
    BY <2>1 DEF Sweeps
  <2>3. sweep[p] \in Int /\ now \in Int /\ sweep[p] <= now /\ rows[k].exp \in Int
    BY <1>1 DEF TypeOK, NotSweeping, StoreInv, ClocksBehind, Rows
  <2> QED
    BY <2>2, <2>3 DEF Expired
<1>2. TypeOK /\ StoreInv /\ [Next]_vars =>
        [UNCHANGED pc => \A k \in Keys : rows'[k] # rows[k] => Expired(rows[k], now)]_vars
  BY <1>1
<1> QED
  BY <1>2, StoreTypeCorrect, StoreInvariant, PTL DEF Spec, SweepRemovesOnlyExpired

\* Expire, Touch and Persist (ttl.go) are the only calls that can make an expired
\* value readable again, and only when they began while it was live.
THEOREM RevivalTheorem == Spec => RevivedOnlyByEarlierCall
<1>1. ASSUME TypeOK, StoreInv, [Next]_vars, NEW k \in Keys,
             Expired(rows[k], now), Live(rows'[k], now),
             rows[k].type = "text", rows'[k].type = "text", rows'[k].n = rows[k].n
      PROVE  \E c \in Clients :
                /\ pc[c] = "exec" /\ call[c].op \in {"expire", "persist"}
                /\ call[c].keys = {k} /\ call[c].now < rows[k].exp
  <2>1. rows'[k] # rows[k]
    BY <1>1 DEF Live
  <2>2. ~Sweeps(k)
    BY <1>1 DEF Sweeps, NoRow
  <2>3. PICK c \in Clients : Writes(c, k) \/ Renews(c, k) \/ Increments(c, k) \/ Removes(c, k)
    BY <1>1, <2>1, <2>2, RowSteps DEF RowStep
  <2>4. ~Increments(c, k) /\ ~Removes(c, k)
    BY <1>1 DEF Increments, Removes, NoRow
  <2>5. ~Writes(c, k)
    <3> SUFFICES ASSUME Writes(c, k) PROVE FALSE
      OBVIOUS
    <3>1. pc[c] \in {"exec", "swap"}
      BY DEF Writes
    <3>2. rows'[k].n = call[c].id
      BY <1>1, <3>1, WrittenType DEF Writes, StoreInv
    <3>3. rows[k].n # call[c].id
      BY <1>1, <3>1 DEF StoreInv, FreshIds
    <3> QED
      BY <1>1, <3>2, <3>3
  <2>6. Renews(c, k)
    BY <2>3, <2>4, <2>5
  <2>7. rows[k].exp \in Int /\ call[c].now \in Int
    BY <1>1, <2>6 DEF TypeOK, Rows, StoreInv, CallTypes, CallRecords, Renews
  <2>8. call[c].now < rows[k].exp
    BY <1>1, <2>6, <2>7 DEF Renews, Live, Expired
  <2> QED
    BY <2>6, <2>8 DEF Renews
<1>2. TypeOK /\ StoreInv /\ [Next]_vars =>
        [\A k \in Keys :
           /\ Expired(rows[k], now) /\ Live(rows'[k], now)
           /\ rows[k].type = "text" /\ rows'[k].type = "text" /\ rows'[k].n = rows[k].n
           => \E c \in Clients :
                /\ pc[c] = "exec" /\ call[c].op \in {"expire", "persist"}
                /\ call[c].keys = {k} /\ call[c].now < rows[k].exp]_vars
  BY <1>1
<1> QED
  BY <1>2, StoreTypeCorrect, StoreInvariant, PTL DEF Spec, RevivedOnlyByEarlierCall

\* A live row leaves the table through Delete or Flush, or through the
\* deleteRaw of a read that had found another row of the key expired.
THEOREM LeavingTheorem == Spec => LiveRowsLeaveOnRequest
<1>1. ASSUME TypeOK, StoreInv, [Next]_vars, NEW k \in Keys,
             Live(rows[k], now), ~Present(rows'[k])
      PROVE  \E c \in Clients :
                 /\ pc'[c] # pc[c] /\ k \in call[c].keys
                 /\ \/ call[c].op \in {"delete", "flush"} /\ pc[c] = "exec"
                    \/ /\ pc[c] = "remove" /\ Expired(call[c].seen[k], now)
                       /\ call[c].seen[k] # rows[k]
  <2>1. rows'[k] # rows[k] /\ rows'[k].type = "none" /\ rows[k].type # "none"
    BY <1>1 DEF Live, Present
  <2>2. ~Sweeps(k)
    <3> SUFFICES ASSUME Sweeps(k) PROVE FALSE
      OBVIOUS
    <3>1. PICK p \in Caches : sweep[p] # NotSweeping /\ Expired(rows[k], sweep[p])
      BY DEF Sweeps
    <3>2. sweep[p] \in Int /\ now \in Int /\ sweep[p] <= now /\ rows[k].exp \in Int
      BY <1>1, <3>1 DEF TypeOK, NotSweeping, StoreInv, ClocksBehind, Rows
    <3> QED
      BY <1>1, <3>1, <3>2 DEF Expired, Live
  <2>3. PICK c \in Clients :
          /\ Moves(c)
          /\ Writes(c, k) \/ Renews(c, k) \/ Increments(c, k) \/ Removes(c, k)
    BY <1>1, <2>1, <2>2, RowSteps DEF RowStep
  <2>4. ~Renews(c, k) /\ ~Increments(c, k)
    BY <2>1 DEF Renews, Increments
  <2>5. ~Writes(c, k)
    <3> SUFFICES ASSUME Writes(c, k) PROVE FALSE
      OBVIOUS
    <3>1. rows'[k].type = "text"
      BY <1>1, WrittenType DEF Writes, StoreInv
    <3> QED
      BY <2>1, <3>1
  <2>6. Removes(c, k)
    BY <2>3, <2>4, <2>5
  <2>7. pc[c] = "remove" => Expired(call[c].seen[k], now) /\ call[c].seen[k] # rows[k]
    BY <1>1, <2>6 DEF Removes, StoreInv, RemovesExpired, Live
  <2> QED
    BY <2>3, <2>6, <2>7 DEF Removes, Moves
<1>2. TypeOK /\ StoreInv /\ [Next]_vars =>
        [\A k \in Keys :
           Live(rows[k], now) /\ ~Present(rows'[k]) =>
             \E c \in Clients :
                 /\ pc'[c] # pc[c] /\ k \in call[c].keys
                 /\ \/ call[c].op \in {"delete", "flush"} /\ pc[c] = "exec"
                    \/ /\ pc[c] = "remove" /\ Expired(call[c].seen[k], now)
                       /\ call[c].seen[k] # rows[k]]_vars
  BY <1>1
<1> QED
  BY <1>2, StoreTypeCorrect, StoreInvariant, PTL DEF Spec, LiveRowsLeaveOnRequest
=============================================================================
