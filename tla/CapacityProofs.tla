--------------------------- MODULE CapacityProofs ---------------------------
(***************************************************************************)
(* Proofs about Capacity for any number of clients, keys and processes,    *)
(* any policy and any interleaving: its types, that the limits of keys and *)
(* of bytes hold at rest, and for key limits, that concurrent evictions    *)
(* remove a bounded number of rows too many.                               *)
(***************************************************************************)
EXTENDS Capacity, FiniteSetTheorems, WellFoundedInduction, TLAPS

-----------------------------------------------------------------------------
(* Types.                                                                  *)

\* The empty row and the local variables of no call have their types.
LEMMA Nothing == NoRow \in Row /\ EmptyBuffer \in Reads /\ NoCall \in Call
<1>1. Never \in Int /\ 0 \in 0 .. MaxTime
  BY CapacityAssumption DEF Never
<1>2. NoRow \in Row
  BY <1>1 DEF NoRow, Row
<1>3. EmptyBuffer \in Reads
  BY DEF EmptyBuffer, Reads
<1>4. NoCall \in Call
  BY <1>1, <1>3 DEF NoCall, Call
<1> QED
  BY <1>2, <1>3, <1>4

\* Going on somewhere, or returning, keeps the types of pc and call.
LEMMA GotoType ==
  ASSUME TypeOK, NEW c \in Clients, NEW l \in Points, Goto(c, l)
  PROVE  pc' \in [Clients -> Points] /\ call' \in [Clients -> Call]
<1>1. pc' \in [Clients -> Points]
  BY DEF Goto, TypeOK
<1>2. [NoCall EXCEPT !.op = call[c].op] \in Call
  BY Nothing DEF TypeOK, NoCall, Call
<1>3. call' \in [Clients -> Call]
  BY <1>2, Nothing DEF Goto, TypeOK
<1> QED
  BY <1>1, <1>3

\* Deleting rows keeps the types.
LEMMA RemoveType ==
  ASSUME TypeOK, NEW K, Remove(K)
  PROVE  /\ rows' \in [Keys -> Row] /\ used' \in [Keys -> 0 .. MaxTime]
         /\ unenforced' \in BOOLEAN
<1>1. rows' \in [Keys -> Row]
  BY Nothing DEF Remove, TypeOK
<1>2. used' \in [Keys -> 0 .. MaxTime]
  BY CapacityAssumption DEF Remove, TypeOK
<1> QED
  BY <1>1, <1>2 DEF Remove, TypeOK

\* The initial state has its types.
LEMMA TypeInit == Init => TypeOK
<1> SUFFICES ASSUME Init PROVE TypeOK
  OBVIOUS
<1>1. unenforced \in BOOLEAN
  BY Zenon DEF Init
<1>2. rows \in [Keys -> Row] /\ buffer \in [Caches -> Reads] /\ call \in [Clients -> Call]
  BY Nothing DEF Init
<1>3. /\ now \in 0 .. MaxTime /\ pc \in [Clients -> Points]
      /\ calls \in 0 .. MaxCalls /\ fails \in 0 .. MaxFails
      /\ used \in [Keys -> 0 .. MaxTime] /\ removed \in Nat
  BY CapacityAssumption DEF Init, Points
<1> QED
  BY <1>1, <1>2, <1>3 DEF TypeOK

\* Where the calls go on.
LEMMA PointsReached ==
  ASSUME NEW c \in Clients, NEW op
  PROVE  AfterFlush(c) \in Points /\ MaybeEvict(op) \in Points
BY DEF AfterFlush, MaybeEvict, Points

\* Every step keeps the types.
LEMMA TypeNext == TypeOK /\ [Next]_vars => TypeOK'
<1> SUFFICES ASSUME TypeOK, [Next]_vars PROVE TypeOK'
  OBVIOUS
<1> USE CapacityAssumption DEF hist
<1>1. CASE Tick
  BY <1>1 DEF Tick, TypeOK
<1>2. ASSUME NEW c \in Clients, CallWrite(c) PROVE TypeOK'
  <2>1. PICK op \in WriteOps, size \in Sizes, ttl \in TTLs \cup {Never}, K \in SUBSET Keys :
          /\ Begins(c, op, "write")
          /\ call' = [call EXCEPT ![c] =
                 [op |-> op, keys |-> K, size |-> size, at |-> now,
                  exp |-> IF ttl = Never THEN Never ELSE now + ttl,
                  pending |-> EmptyBuffer]]
          /\ UNCHANGED <<rows, buffer, now, fails, hist>>
    <3>1. \A op : Targets(op) \subseteq SUBSET Keys
      BY DEF Targets
    <3> QED
      BY <1>2, <3>1 DEF CallWrite
  <2>2. (IF ttl = Never THEN Never ELSE now + ttl) \in Int
    BY DEF Never, TypeOK
  <2>3. call' \in [Clients -> Call]
    BY <2>1, <2>2, Nothing DEF TypeOK, Call, AllOps
  <2>4. pc' \in [Clients -> Points] /\ calls' \in 0 .. MaxCalls
    BY <2>1 DEF Begins, TypeOK, Points
  <2> QED
    BY <2>1, <2>3, <2>4 DEF TypeOK
<1>3. ASSUME NEW c \in Clients, Delete(c) PROVE TypeOK'
  <2>1. PICK k \in Present : /\ Begins(c, "delete", "idle") /\ Remove({k}) /\ Left({k})
                             /\ UNCHANGED <<buffer, now, call, fails>>
    BY <1>3 DEF Delete
  <2>2. removed' \in Nat
    BY <2>1, FS_Singleton DEF Left, TypeOK
  <2>3. pc' \in [Clients -> Points] /\ calls' \in 0 .. MaxCalls
    BY <2>1 DEF Begins, TypeOK, Points
  <2> QED
    BY <2>1, <2>2, <2>3, RemoveType DEF TypeOK
<1>4. ASSUME NEW c \in Clients, Get(c) PROVE TypeOK'
  <2>1. PICK k \in Keys, l \in {"flush", "idle"} :
          /\ Begins(c, "get", l)
          /\ buffer' = [buffer EXCEPT ![CacheOf[c]][k] = now]
          /\ used' = [used EXCEPT ![k] = now]
          /\ call' = IF pc'[c] = "idle" THEN call ELSE [call EXCEPT ![c].op = "get"]
          /\ UNCHANGED <<rows, now, fails, unenforced, removed>>
    BY <1>4, Zenon DEF Get, Present
  <2>2. buffer' \in [Caches -> Reads]
    BY <2>1 DEF TypeOK, Reads
  <2>3. call' \in [Clients -> Call]
    BY <2>1, SMTT(30) DEF TypeOK, Call, AllOps
  <2>4. pc' \in [Clients -> Points] /\ calls' \in 0 .. MaxCalls
    BY <2>1 DEF Begins, TypeOK, Points
  <2>5. used' \in [Keys -> 0 .. MaxTime]
    BY <2>1 DEF TypeOK
  <2> QED
    BY <2>1, <2>2, <2>3, <2>4, <2>5 DEF TypeOK
<1>5. ASSUME NEW c \in Clients, Maintain(c) PROVE TypeOK'
  <2>1. call' \in [Clients -> Call] /\ pc' \in [Clients -> Points]
    BY <1>5, SMTT(30) DEF Maintain, TypeOK, Call, AllOps, Points
  <2> QED
    BY <1>5, <2>1 DEF Maintain, TypeOK
<1>6. ASSUME NEW c \in Clients, Write(c) PROVE TypeOK'
  <2>1. \A k \in Keys : Written(c, k) \in Row
    BY DEF Written, Row, TypeOK, Call
  <2>2. rows' \in [Keys -> Row]
    BY <1>6, <2>1 DEF Write, TypeOK
  <2>3. used' \in [Keys -> 0 .. MaxTime]
    BY <1>6 DEF Write, TypeOK, Call
  <2>4. unenforced' \in BOOLEAN
    BY <1>6, Zenon DEF Write
  <2>5. \E l \in Points : Goto(c, l)
    <3>1. "idle" \in Points
      BY DEF Points
    <3> QED
      BY <1>6, <3>1, PointsReached DEF Write
  <2>6. pc' \in [Clients -> Points] /\ call' \in [Clients -> Call]
    BY <2>5, GotoType
  <2> QED
    BY <1>6, <2>2, <2>3, <2>4, <2>6 DEF Write, TypeOK
<1>7. ASSUME NEW c \in Clients, TakeBuffer(c) PROVE TypeOK'
  <2>1. CASE Buffered(CacheOf[c]) = {}
    <3>1. Goto(c, AfterFlush(c)) /\ UNCHANGED <<buffer, rows, now, calls, fails, hist>>
      BY <1>7, <2>1 DEF TakeBuffer
    <3> QED
      BY <3>1, GotoType, PointsReached DEF TypeOK
  <2>2. CASE Buffered(CacheOf[c]) # {}
    <3>1. /\ call' = [call EXCEPT ![c].pending = buffer[CacheOf[c]]]
          /\ buffer' = [buffer EXCEPT ![CacheOf[c]] = EmptyBuffer]
          /\ pc' = [pc EXCEPT ![c] = "apply"]
          /\ UNCHANGED <<rows, now, calls, fails, hist>>
      BY <1>7, <2>2 DEF TakeBuffer
    <3>2. call' \in [Clients -> Call]
      <4>1. call \in [Clients -> Call] /\ buffer[CacheOf[c]] \in Reads
        BY CapacityAssumption DEF TypeOK
      <4>2. \A x \in Call, r \in Reads : [x EXCEPT !.pending = r] \in Call
        BY DEF Call
      <4> QED
        BY <3>1, <4>1, <4>2
    <3>3. buffer' \in [Caches -> Reads] /\ pc' \in [Clients -> Points]
      BY <3>1, Nothing DEF TypeOK, Points
    <3> QED
      BY <3>1, <3>2, <3>3 DEF TypeOK
  <2> QED
    BY <2>1, <2>2
<1>8. ASSUME NEW c \in Clients, Apply(c) PROVE TypeOK'
  <2>1. \A k \in Keys : call[c].pending[k] # Never =>
           [rows[k] EXCEPT !.acc = call[c].pending[k]] \in Row
    <3> SUFFICES ASSUME NEW k \in Keys, call[c].pending[k] # Never
                 PROVE  [rows[k] EXCEPT !.acc = call[c].pending[k]] \in Row
      OBVIOUS
    <3>1. call[c] \in Call /\ rows[k] \in Row
      BY DEF TypeOK
    <3>2. call[c].pending \in Reads
      BY <3>1 DEF Call
    <3>3. call[c].pending[k] \in 0 .. MaxTime
      BY <3>2 DEF Reads
    <3> QED
      BY <3>1, <3>3 DEF Row
  <2>2. rows' \in [Keys -> Row]
    BY <1>8, <2>1 DEF Apply, TypeOK
  <2>3. pc' \in [Clients -> Points] /\ call' \in [Clients -> Call]
    BY <1>8, GotoType, PointsReached DEF Apply
  <2> QED
    BY <1>8, <2>2, <2>3 DEF Apply, TypeOK
<1>9. ASSUME NEW c \in Clients, RemoveExpired(c) PROVE TypeOK'
  <2> DEFINE K == {k \in Keys : Expired(k, now)}
  <2>1. removed' \in Nat
    BY <1>9, FS_Subset, FS_CardinalityType, SMTT(30) DEF RemoveExpired, Left, TypeOK
  <2>2. pc' \in [Clients -> Points] /\ call' \in [Clients -> Call]
    BY <1>9, GotoType DEF RemoveExpired, Points
  <2>3. Remove(K) /\ UNCHANGED <<buffer, now, calls, fails>>
    BY <1>9 DEF RemoveExpired
  <2> QED
    BY <2>1, <2>2, <2>3, RemoveType DEF TypeOK
<1>10. ASSUME NEW c \in Clients, Count(c) PROVE TypeOK'
  <2>1. pc' \in [Clients -> Points] /\ call' \in [Clients -> Call]
    BY <1>10, GotoType DEF Count, Points
  <2>2. unenforced' \in BOOLEAN
    BY <1>10, Zenon DEF Count
  <2> QED
    BY <1>10, <2>1, <2>2 DEF Count, TypeOK
<1>11. ASSUME NEW c \in Clients, Evict(c) PROVE TypeOK'
  <2>1. pc' \in [Clients -> Points] /\ call' \in [Clients -> Call]
    BY <1>11, GotoType DEF Evict, EvictGoingOnAt, Points
  <2>2. PICK k \in Present : Remove({k})
    BY <1>11 DEF Evict, EvictGoingOnAt
  <2> QED
    BY <1>11, <2>1, <2>2, RemoveType DEF Evict, EvictGoingOnAt, TypeOK
<1>12. ASSUME NEW c \in Clients, EvictNone(c) PROVE TypeOK'
  BY <1>12, GotoType DEF EvictNone, Points, TypeOK
<1>13. ASSUME NEW c \in Clients, Fails(c) PROVE TypeOK'
  <2>1. \E l \in Points : Goto(c, l)
    <3>1. "idle" \in Points /\ "count" \in Points
      BY DEF Points
    <3> QED
      BY <1>13, <3>1, PointsReached, Zenon DEF Fails
  <2>2. pc' \in [Clients -> Points] /\ call' \in [Clients -> Call]
    BY <2>1, GotoType
  <2>3. unenforced' \in BOOLEAN
    BY <1>13, Zenon DEF Fails
  <2> QED
    BY <1>13, <2>2, <2>3 DEF Fails, TypeOK
<1>14. CASE UNCHANGED vars
  BY <1>14 DEF vars, TypeOK
<1> QED
  BY <1>1, <1>2, <1>3, <1>4, <1>5, <1>6, <1>7, <1>8, <1>9, <1>10, <1>11, <1>12,
     <1>13, <1>14 DEF Next, Steps

\* Every variable keeps its type: in particular the times that reads and writes
\* leave in the table are never ahead of the clock's bound.
THEOREM CapacityTypeCorrect == Spec => []TypeOK
<1>1. TypeOK /\ [Next]_vars => TypeOK'
  BY TypeNext
<1> QED
  BY TypeInit, <1>1, PTL DEF Spec

-----------------------------------------------------------------------------
(* Sizes, and the sets that are counted.                                   *)

\* Rows and clients that are counted are finitely many.
LEMMA Counted ==
  /\ IsFiniteSet(Present) /\ Cardinality(Present) \in Nat
  /\ IsFiniteSet(Evicting) /\ Cardinality(Evicting) \in Nat
  /\ Cardinality(Evicting) <= Cardinality(Clients) /\ Cardinality(Clients) \in Nat
<1>1. Present \in SUBSET Keys /\ Evicting \in SUBSET Clients
  BY DEF Present, Evicting
<1>2. IsFiniteSet(Keys) /\ IsFiniteSet(Clients)
  BY CapacityAssumption
<1> QED
  BY <1>1, <1>2, FS_Subset, FS_CardinalityType

\* With a key limit only, being over the limits is a matter of counting rows.
LEMMA OverByCount ==
  ASSUME MaxBytes = 0
  PROVE  Over <=> MaxKeys # 0 /\ Cardinality(Present) > MaxKeys
BY DEF Over

\* Deleting the rows of K takes K out of what is there.
LEMMA RemovePresent ==
  ASSUME TypeOK, NEW K, Remove(K)
  PROVE  Present' = Present \ K /\ (\A k \in Keys \ K : rows'[k] = rows[k])
BY DEF Remove, Present, TypeOK

\* The clients about to evict after c goes on at another point.
LEMMA EvictingAfter ==
  ASSUME TypeOK, NEW c \in Clients, NEW l, pc' = [pc EXCEPT ![c] = l]
  PROVE  Evicting' = IF l = "evict" THEN Evicting \cup {c} ELSE Evicting \ {c}
BY DEF Evicting, TypeOK

\* Initially nothing is there.
LEMMA SizedInit == Init => Sized
BY DEF Init, Sized, Present

\* A statement writes rows with a size, and bookkeeping does not change sizes.
LEMMA SizedNext == ASSUME TypeOK, Sized, [Next]_vars PROVE Sized'
<1> USE CapacityAssumption
<1>1. ASSUME NEW K, Remove(K), \A c \in Clients : pc'[c] = "write" =>
                                    pc[c] = "write" /\ call'[c] = call[c]
      PROVE  Sized'
  <2>1. Present' = Present \ K /\ (\A k \in Keys \ K : rows'[k] = rows[k])
    BY <1>1, RemovePresent
  <2> QED
    BY <1>1, <2>1 DEF Sized, Present
<1>2. ASSUME NEW c \in Clients, NEW l, l # "write", Goto(c, l)
      PROVE  \A d \in Clients : pc'[d] = "write" => pc[d] = "write" /\ call'[d] = call[d]
  BY <1>2 DEF Goto, TypeOK
<1>3. ASSUME UNCHANGED rows, \A c \in Clients : pc'[c] = "write" =>
                                    pc[c] = "write" /\ call'[c] = call[c]
      PROVE  Sized'
  BY <1>3 DEF Sized, Present
<1>4. CASE Tick \/ UNCHANGED vars
  BY <1>4, <1>3 DEF Tick, vars
<1>5. ASSUME NEW c \in Clients, CallWrite(c) PROVE Sized'
  <2>1. PICK op \in WriteOps, size \in Sizes, ttl \in TTLs \cup {Never} : \E K \in Targets(op) :
          /\ Begins(c, op, "write")
          /\ call' = [call EXCEPT ![c] =
                 [op |-> op, keys |-> K, size |-> size, at |-> now,
                  exp |-> IF ttl = Never THEN Never ELSE now + ttl,
                  pending |-> EmptyBuffer]]
          /\ UNCHANGED rows
    BY <1>5 DEF CallWrite
  <2>2. call'[c].size # 0 /\ \A d \in Clients \ {c} : call'[d] = call[d] /\ pc'[d] = pc[d]
    BY <2>1 DEF Begins, TypeOK
  <2> QED
    BY <2>1, <2>2 DEF Sized, Present
<1>6. ASSUME NEW c \in Clients, Delete(c) PROVE Sized'
  <2>1. PICK k \in Present : Begins(c, "delete", "idle") /\ Remove({k}) /\ UNCHANGED call
    BY <1>6 DEF Delete
  <2> QED
    BY <2>1, <1>1 DEF Begins, TypeOK
<1>7. ASSUME NEW c \in Clients, Get(c) \/ Maintain(c) PROVE Sized'
  <2>1. UNCHANGED rows
    BY <1>7 DEF Get, Maintain
  <2>2. \A d \in Clients : pc'[d] = "write" => pc[d] = "write" /\ call'[d] = call[d]
    <3>1. \E l \in {"flush", "idle"} : pc' = [pc EXCEPT ![c] = l]
      BY <1>7, Zenon DEF Get, Maintain, Begins
    <3>2. \A d \in Clients \ {c} : call'[d] = call[d]
      BY <1>7 DEF Get, Maintain, TypeOK
    <3> QED
      BY <3>1, <3>2 DEF TypeOK
  <2> QED
    BY <2>1, <2>2, <1>3
<1>8. ASSUME NEW c \in Clients, Write(c) PROVE Sized'
  <2>1. PICK l : l # "write" /\ Goto(c, l)
    BY <1>8 DEF Write, MaybeEvict
  <2>2. call[c].size # 0
    BY <1>8 DEF Write, Sized
  <2>3. \A k \in Keys : rows'[k].size = call[c].size \/ rows'[k] = rows[k]
    BY <1>8 DEF Write, Written
  <2>4. \A k \in Present' : rows'[k].size # 0
    BY <2>2, <2>3 DEF Present, Sized
  <2> QED
    BY <2>1, <2>4, <1>2 DEF Sized
<1>9. ASSUME NEW c \in Clients, TakeBuffer(c) PROVE Sized'
  <2>1. UNCHANGED rows
    BY <1>9 DEF TakeBuffer
  <2>2. \A d \in Clients : pc'[d] = "write" => pc[d] = "write" /\ call'[d] = call[d]
    <3>1. CASE Goto(c, AfterFlush(c))
      BY <3>1, <1>2, Zenon DEF AfterFlush
    <3>2. CASE pc' = [pc EXCEPT ![c] = "apply"] /\ call' = [call EXCEPT ![c].pending = buffer[CacheOf[c]]]
      BY <3>2 DEF TypeOK
    <3> QED
      BY <1>9, <3>1, <3>2 DEF TakeBuffer
  <2> QED
    BY <2>1, <2>2, <1>3
<1>10. ASSUME NEW c \in Clients, Apply(c) PROVE Sized'
  <2>1. \A k \in Keys : rows'[k].size = rows[k].size
    BY <1>10 DEF Apply, TypeOK, Row
  <2>2. \A k \in Keys : k \notin Present => rows'[k] = rows[k]
    BY <1>10 DEF Apply
  <2>3. \A k \in Present' : rows'[k].size # 0
    BY <2>1, <2>2 DEF Present, Sized
  <2>4. PICK l : l # "write" /\ Goto(c, l)
    BY <1>10, Zenon DEF Apply, AfterFlush
  <2> QED
    BY <2>3, <2>4, <1>2 DEF Sized
<1>11. ASSUME NEW c \in Clients, RemoveExpired(c) \/ Evict(c) PROVE Sized'
  <2>1. PICK K, l : l # "write" /\ Goto(c, l) /\ Remove(K)
    BY <1>11 DEF RemoveExpired, Evict, EvictGoingOnAt
  <2> QED
    BY <2>1, <1>1, <1>2
<1>12. ASSUME NEW c \in Clients, Count(c) \/ EvictNone(c) \/ Fails(c) PROVE Sized'
  <2>1. UNCHANGED rows
    BY <1>12 DEF Count, EvictNone, Fails
  <2>2. PICK l : l # "write" /\ Goto(c, l)
    BY <1>12, Zenon DEF Count, EvictNone, Fails, AfterFlush
  <2> QED
    BY <2>1, <2>2, <1>2, <1>3
<1> QED
  BY <1>4, <1>5, <1>6, <1>7, <1>8, <1>9, <1>10, <1>11, <1>12 DEF Next, Steps

-----------------------------------------------------------------------------
(* Sums over the keys: the bytes of a namespace.                           *)

\* h is the sum of g, for every set of keys, in the order in which the elements
\* of a set are chosen.
First(s) == CHOOSE x \in s : TRUE
Sums(g, h) ==
    /\ h \in [SUBSET Keys -> Nat]
    /\ \A s \in SUBSET Keys : h[s] = IF s = {} THEN 0 ELSE g[First(s)] + h[s \ {First(s)}]

\* The sizes of the rows.
SizeOf == [k \in Keys |-> rows[k].size]

\* A set of natural numbers that is not empty has a least one.
LEMMA LeastNat ==
  ASSUME NEW S \in SUBSET Nat, S # {}
  PROVE  \E x \in S : \A y \in S : x <= y
<1> DEFINE R == OpToRel(<, Nat)
<1>1. IsWellFoundedOn(R, Nat)
  BY NatLessThanWellFounded
<1>2. \A x, y \in Nat : y < x => <<y, x>> \in R
  BY DEF OpToRel
<1> HIDE DEF R
<1>3. PICK x \in S : \A y \in S : ~(<<y, x>> \in R)
  BY <1>1, WFMin
<1>4. ASSUME NEW y \in S PROVE x <= y
  <2>1. x \in Nat /\ y \in Nat /\ ~(y < x)
    BY <1>2, <1>3
  <2> QED
    BY <2>1
<1> QED
  BY <1>4

\* A set of keys that is not empty is one element and a smaller set.
LEMMA FirstAndRest ==
  ASSUME NEW s \in SUBSET Keys, s # {}
  PROVE  /\ First(s) \in s /\ First(s) \in Keys /\ s \ {First(s)} \in SUBSET Keys
         /\ Cardinality(s) \in Nat \ {0}
         /\ Cardinality(s \ {First(s)}) = Cardinality(s) - 1
<1>1. First(s) \in s
  BY DEF First
<1>2. IsFiniteSet(s)
  BY CapacityAssumption, FS_Subset
<1>3. Cardinality(s) \in Nat /\ Cardinality(s) # 0
  BY <1>2, FS_CardinalityType, FS_EmptySet
<1>4. Cardinality(s \ {First(s)}) = Cardinality(s) - 1
  BY <1>1, <1>2, FS_RemoveElement
<1> QED
  BY <1>1, <1>3, <1>4

\* In a family of sets of keys that is not empty there is one with the fewest
\* elements.
LEMMA LeastSet ==
  ASSUME NEW F \in SUBSET (SUBSET Keys), F # {}
  PROVE  \E s \in F : \A r \in F : Cardinality(s) <= Cardinality(r)
<1> DEFINE N == {Cardinality(s) : s \in F}
<1>1. \A s \in F : Cardinality(s) \in Nat
  <2> SUFFICES ASSUME NEW s \in F PROVE Cardinality(s) \in Nat
    OBVIOUS
  <2>1. IsFiniteSet(s)
    BY CapacityAssumption, FS_Subset
  <2> QED
    BY <2>1, FS_CardinalityType
<1>2. N \in SUBSET Nat /\ N # {}
  BY <1>1
<1>3. PICK n \in N : \A m \in N : n <= m
  BY <1>2, LeastNat
<1> QED
  BY <1>3

\* Larger terms have larger sums.
LEMMA SumsCompare ==
  ASSUME NEW a \in [Keys -> Nat], NEW b \in [Keys -> Nat], NEW g, NEW h,
         Sums(a, g), Sums(b, h), \A k \in Keys : a[k] <= b[k]
  PROVE  \A s \in SUBSET Keys : g[s] <= h[s]
<1> DEFINE Bad == {s \in SUBSET Keys : ~(g[s] <= h[s])}
<1> SUFFICES ASSUME Bad # {} PROVE FALSE
  OBVIOUS
<1>1. Bad \in SUBSET (SUBSET Keys)
  OBVIOUS
<1>2. PICK s \in Bad : \A r \in Bad : Cardinality(s) <= Cardinality(r)
  BY <1>1, LeastSet
<1>3. s \in SUBSET Keys /\ ~(g[s] <= h[s])
  BY <1>2
<1>4. CASE s = {}
  <2>1. g[{}] = 0 /\ h[{}] = 0
    BY DEF Sums
  <2> HIDE DEF Bad
  <2>2. g[s] = 0 /\ h[s] = 0
    BY <1>4, <2>1
  <2> QED
    BY <1>3, <2>2
<1>5. CASE s # {}
  <2>1. PICK x, r : x = First(s) /\ r = s \ {First(s)}
    OBVIOUS
  <2>2. /\ x \in Keys /\ r \in SUBSET Keys /\ Cardinality(s) \in Nat
        /\ Cardinality(r) = Cardinality(s) - 1
    BY <1>3, <1>5, <2>1, FirstAndRest
  <2>3. r \notin Bad
    BY <1>2, <2>2
  <2>4. g[s] = a[x] + g[r] /\ h[s] = b[x] + h[r]
    BY <1>3, <1>5, <2>1 DEF Sums
  <2>5. g[r] <= h[r] /\ g[r] \in Nat /\ h[r] \in Nat
    BY <2>2, <2>3 DEF Sums
  <2>6. a[x] \in Nat /\ b[x] \in Nat /\ a[x] <= b[x]
    BY <2>2
  <2> HIDE DEF Bad
  <2> QED
    BY <1>3, <2>4, <2>5, <2>6
<1> QED
  BY <1>4, <1>5

\* Every function on the keys has sums: set by set, in the order of their size.
LEMMA SumsExist ==
  ASSUME NEW a \in [Keys -> Nat]
  PROVE  \E h : Sums(a, h)
<1> DEFINE Upto(n) == {s \in SUBSET Keys : Cardinality(s) <= n}
           Part(n, h) == /\ h \in [Upto(n) -> Nat]
                         /\ \A s \in Upto(n) :
                               h[s] = IF s = {} THEN 0 ELSE a[First(s)] + h[s \ {First(s)}]
           Bad == {n \in Nat : ~(\E h : Part(n, h))}
<1>0. \A s \in SUBSET Keys : Cardinality(s) \in Nat
  <2> SUFFICES ASSUME NEW s \in SUBSET Keys PROVE Cardinality(s) \in Nat
    OBVIOUS
  <2>1. IsFiniteSet(s)
    BY CapacityAssumption, FS_Subset
  <2> QED
    BY <2>1, FS_CardinalityType
<1>1. Bad = {}
  <2> SUFFICES ASSUME Bad # {} PROVE FALSE
    OBVIOUS
  <2>1. PICK n \in Bad : \A m \in Bad : n <= m
    BY LeastNat
  <2>2. CASE n = 0
    <3>1. ASSUME NEW s \in Upto(0) PROVE s = {}
      <4>1. Cardinality(s) \in Nat /\ Cardinality(s) <= 0 /\ s \in SUBSET Keys
        BY <1>0
      <4>2. CASE s # {}
        <5>1. Cardinality(s) \in Nat \ {0}
          BY <4>1, <4>2, FirstAndRest
        <5> QED
          BY <4>1, <5>1
      <4> QED
        BY <4>2
    <3>2. Part(0, [s \in Upto(0) |-> 0])
      BY <3>1
    <3> QED
      BY <2>1, <2>2, <3>2
  <2>3. CASE n # 0
    <3>0. n \in Nat
      OBVIOUS
    <3>1. n \in Nat /\ n - 1 \in Nat /\ ~(n <= n - 1)
      BY <2>3, <3>0
    <3>2. PICK g : Part(n - 1, g)
      <4>1. n - 1 \notin Bad
        BY <2>1, <3>1
      <4> HIDE DEF Part
      <4> QED
        BY <3>1, <4>1
    <3> DEFINE h == [s \in Upto(n) |-> IF Cardinality(s) = n THEN a[First(s)] + g[s \ {First(s)}]
                                        ELSE g[s]]
    <3>3. ASSUME NEW s \in Upto(n), Cardinality(s) # n PROVE s \in Upto(n - 1)
      <4>1. Cardinality(s) \in Nat /\ Cardinality(s) <= n
        BY <1>0
      <4>2. Cardinality(s) <= n - 1
        BY <3>1, <3>3, <4>1
      <4> QED
        BY <4>2
    <3>4. ASSUME NEW s \in Upto(n), s # {}
          PROVE  /\ First(s) \in Keys /\ s \ {First(s)} \in Upto(n - 1)
                 /\ s \ {First(s)} \in Upto(n) /\ Cardinality(s \ {First(s)}) # n
      <4>1. /\ First(s) \in Keys /\ s \ {First(s)} \in SUBSET Keys
            /\ Cardinality(s) \in Nat /\ Cardinality(s) <= n
            /\ Cardinality(s \ {First(s)}) = Cardinality(s) - 1
        BY <3>4, FirstAndRest
      <4>2. Cardinality(s \ {First(s)}) <= n - 1
        BY <3>1, <4>1
      <4>3. Cardinality(s \ {First(s)}) <= n /\ Cardinality(s \ {First(s)}) # n
        BY <3>1, <4>1
      <4> QED
        BY <4>1, <4>2, <4>3
    <3>5. ASSUME NEW s \in Upto(n), Cardinality(s) = n PROVE s # {}
      BY <2>3, <3>5, FS_EmptySet
    <3> HIDE DEF Upto
    <3>6. ASSUME NEW s \in Upto(n)
          PROVE  /\ h[s] \in Nat
                 /\ h[s] = IF s = {} THEN 0 ELSE a[First(s)] + h[s \ {First(s)}]
      <4>1. CASE Cardinality(s) = n
        <5>1. s # {}
          BY <3>5, <4>1
        <5>2. PICK x, r : x = First(s) /\ r = s \ {First(s)}
          OBVIOUS
        <5>3. x \in Keys /\ r \in Upto(n - 1) /\ r \in Upto(n) /\ Cardinality(r) # n
          BY <3>4, <5>1, <5>2
        <5>4. h[s] = a[x] + g[r] /\ h[r] = g[r]
          BY <4>1, <5>2, <5>3
        <5>5. a[x] \in Nat /\ g[r] \in Nat
          BY <3>2, <5>3
        <5> HIDE DEF h
        <5> QED
          BY <5>1, <5>2, <5>4, <5>5
      <4>2. CASE Cardinality(s) # n
        <5>1. s \in Upto(n - 1) /\ h[s] = g[s]
          BY <3>3, <4>2
        <5>2. CASE s = {}
          BY <3>2, <5>1, <5>2
        <5>3. CASE s # {}
          <6>1. h[s \ {First(s)}] = g[s \ {First(s)}]
            BY <3>4, <5>3
          <6> HIDE DEF h
          <6> QED
            BY <3>2, <5>1, <5>3, <6>1
        <5> QED
          BY <5>2, <5>3
      <4> QED
        BY <4>1, <4>2
    <3>7. Part(n, h)
      BY <3>6
    <3> QED
      BY <2>1, <3>7
  <2> QED
    BY <2>2, <2>3
<1>2. Cardinality(Keys) \in Nat
  BY <1>0
<1>3. PICK h : Part(Cardinality(Keys), h)
  BY <1>1, <1>2
<1>4. Upto(Cardinality(Keys)) = SUBSET Keys
  <2>1. ASSUME NEW s \in SUBSET Keys PROVE Cardinality(s) <= Cardinality(Keys)
    BY CapacityAssumption, FS_Subset
  <2> QED
    BY <2>1
<1> HIDE DEF Upto
<1> QED
  BY <1>3, <1>4 DEF Sums

\* Bytes is the sum of the sizes of all rows.
BytesAreSums == \E h : Sums(SizeOf, h) /\ Bytes = h[Keys]

LEMMA SizesTyped == TypeOK => SizeOf \in [Keys -> Nat]
<1> SUFFICES ASSUME TypeOK, NEW k \in Keys PROVE rows[k].size \in Nat
  BY DEF SizeOf
<1>1. rows[k] \in Row
  BY DEF TypeOK
<1>2. rows[k].size \in {0} \cup Sizes
  BY <1>1 DEF Row
<1>3. \A n \in {0} \cup Sizes : n \in Nat
  BY CapacityAssumption
<1> QED
  BY <1>2, <1>3, Zenon

LEMMA BytesSums == TypeOK => BytesAreSums
<1> SUFFICES ASSUME TypeOK PROVE BytesAreSums
  OBVIOUS
<1>1. SizeOf \in [Keys -> Nat]
  BY SizesTyped
<1>2. PICK h : Sums(SizeOf, h)
  BY <1>1, SumsExist
<1> DEFINE Body(f, s) == IF s = {} THEN 0 ELSE rows[First(s)].size + f[s \ {First(s)}]
           Is(f) == f = [s \in SUBSET Keys |-> Body(f, s)]
<1>3. Bytes = (CHOOSE f : Is(f))[Keys]
  BY DEF Bytes, MapThenSumSet, MapThenFoldSet, First
<1>4. Is(h)
  <2>1. ASSUME NEW s \in SUBSET Keys PROVE h[s] = Body(h, s)
    <3>1. CASE s = {}
      BY <1>2, <3>1 DEF Sums
    <3>2. CASE s # {}
      <4>1. SizeOf[First(s)] = rows[First(s)].size
        BY <3>2, FirstAndRest DEF SizeOf
      <4>2. h[s] = SizeOf[First(s)] + h[s \ {First(s)}]
        BY <1>2, <3>2 DEF Sums
      <4> QED
        BY <3>2, <4>1, <4>2
    <3> QED
      BY <3>1, <3>2
  <2>2. h \in [SUBSET Keys -> Nat]
    BY <1>2 DEF Sums
  <2> HIDE DEF Body
  <2> QED
    BY <2>1, <2>2
<1> HIDE DEF Is
<1>5. PICK f : f = (CHOOSE x : Is(x)) /\ Is(f)
  BY <1>4
<1> USE DEF Is
<1>6. ASSUME NEW s \in SUBSET Keys PROVE f[s] = Body(f, s)
  BY <1>5
<1> HIDE DEF Is
<1> DEFINE Bad == {s \in SUBSET Keys : f[s] # h[s]}
<1>7. Bad = {}
  <2> SUFFICES ASSUME Bad # {} PROVE FALSE
    OBVIOUS
  <2>1. Bad \in SUBSET (SUBSET Keys)
    OBVIOUS
  <2>2. PICK s \in Bad : \A r \in Bad : Cardinality(s) <= Cardinality(r)
    BY <2>1, LeastSet
  <2>3. s \in SUBSET Keys /\ f[s] # h[s]
    BY <2>2
  <2>4. f[s] = Body(f, s) /\ h[s] = Body(h, s)
    <3>1. ASSUME NEW r \in SUBSET Keys PROVE h[r] = Body(h, r)
      BY <1>4 DEF Is
    <3> HIDE DEF Body, Bad
    <3> QED
      BY <1>6, <2>3, <3>1
  <2>5. CASE s = {}
    BY <2>3, <2>4, <2>5
  <2>6. CASE s # {}
    <3>1. PICK x, r : x = First(s) /\ r = s \ {First(s)}
      OBVIOUS
    <3>2. /\ x \in Keys /\ r \in SUBSET Keys /\ Cardinality(s) \in Nat
          /\ Cardinality(r) = Cardinality(s) - 1
      BY <2>3, <2>6, <3>1, FirstAndRest
    <3>3. r \notin Bad
      BY <2>2, <3>2
    <3>4. f[r] = h[r]
      BY <3>2, <3>3
    <3>5. f[s] = rows[x].size + f[r] /\ h[s] = rows[x].size + h[r]
      BY <2>4, <2>6, <3>1
    <3> HIDE DEF Body, Bad
    <3> QED
      BY <2>3, <3>4, <3>5
  <2> QED
    BY <2>5, <2>6
<1>8. f[Keys] = h[Keys]
  BY <1>7
<1>9. Bytes = h[Keys]
  BY <1>3, <1>5, <1>8
<1> QED
  BY <1>2, <1>9 DEF BytesAreSums

\* The bytes are a number, and none when there is no row.
LEMMA BytesTyped == TypeOK => Bytes \in Nat /\ (Present = {} => Bytes = 0)
<1> SUFFICES ASSUME TypeOK PROVE Bytes \in Nat /\ (Present = {} => Bytes = 0)
  OBVIOUS
<1>1. PICK h : Sums(SizeOf, h) /\ Bytes = h[Keys]
  BY BytesSums DEF BytesAreSums
<1>2. Bytes \in Nat
  BY <1>1 DEF Sums
<1>3. ASSUME Present = {} PROVE Bytes = 0
  <2> DEFINE zero == [k \in Keys |-> 0]
             none == [s \in SUBSET Keys |-> 0]
  <2>1. Sums(zero, none)
    <3>1. ASSUME NEW s \in SUBSET Keys, s # {}
          PROVE  none[s] = zero[First(s)] + none[s \ {First(s)}]
      <4>1. First(s) \in Keys /\ s \ {First(s)} \in SUBSET Keys
        BY <3>1, FirstAndRest
      <4> QED
        BY <4>1
    <3>2. none \in [SUBSET Keys -> Nat] /\ none[{}] = 0
      OBVIOUS
    <3> HIDE DEF zero, none
    <3>3. ASSUME NEW s \in SUBSET Keys
          PROVE  none[s] = IF s = {} THEN 0 ELSE zero[First(s)] + none[s \ {First(s)}]
      BY <3>1, <3>2
    <3> QED
      BY <3>2, <3>3 DEF Sums
  <2>2. \A k \in Keys : SizeOf[k] <= zero[k]
    BY <1>3 DEF SizeOf, Present, NoRow
  <2>3. SizeOf \in [Keys -> Nat] /\ zero \in [Keys -> Nat]
    BY SizesTyped
  <2>4. h[Keys] <= none[Keys]
    BY <1>1, <2>1, <2>2, <2>3, SumsCompare
  <2> QED
    BY <1>1, <1>2, <2>4
<1> QED
  BY <1>2, <1>3

\* When no row grows, neither do the bytes.
LEMMA BytesShrink ==
  ASSUME TypeOK, TypeOK', \A k \in Keys : rows'[k].size <= rows[k].size
  PROVE  Bytes' <= Bytes /\ Bytes' \in Nat
<1>1. PICK h : Sums(SizeOf, h) /\ Bytes = h[Keys]
  BY BytesSums DEF BytesAreSums
<1>2. BytesAreSums' /\ (SizeOf \in [Keys -> Nat])' /\ (Bytes \in Nat)'
  BY BytesSums, SizesTyped, BytesTyped, PTL
<1>3. PICK g : Sums(SizeOf', g) /\ Bytes' = g[Keys]
  BY <1>2 DEF BytesAreSums
<1>4. \A k \in Keys : SizeOf'[k] <= SizeOf[k]
  BY DEF SizeOf
<1>5. SizeOf \in [Keys -> Nat] /\ SizeOf' \in [Keys -> Nat]
  BY <1>2, SizesTyped
<1>6. g[Keys] <= h[Keys]
  BY <1>1, <1>3, <1>4, <1>5, SumsCompare
<1> QED
  BY <1>1, <1>2, <1>3, <1>6

-----------------------------------------------------------------------------
(* The limit at rest.                                                      *)

\* A step that adds no row and grows none does not take the namespace over a
\* limit.
LEMMA OverBefore ==
  ASSUME TypeOK, TypeOK', Over', Present' \subseteq Present,
         \A k \in Keys : rows'[k].size <= rows[k].size
  PROVE  Over
<1>1. Cardinality(Present') <= Cardinality(Present) /\ Cardinality(Present') \in Nat
  BY Counted, FS_Subset, FS_CardinalityType
<1>2. Bytes' <= Bytes /\ Bytes' \in Nat /\ Bytes \in Nat
  BY BytesShrink, BytesTyped
<1>3. Cardinality(Present) \in Nat
  BY Counted
<1>4. \/ MaxKeys # 0 /\ Cardinality(Present') > MaxKeys
      \/ MaxBytes # 0 /\ Bytes' > MaxBytes
  BY DEF Over
<1>5. MaxKeys \in Nat /\ MaxBytes \in Nat
  BY CapacityAssumption
<1>6. ASSUME Cardinality(Present') > MaxKeys PROVE Cardinality(Present) > MaxKeys
  BY <1>1, <1>3, <1>5, <1>6
<1>7. ASSUME Bytes' > MaxBytes PROVE Bytes > MaxBytes
  BY <1>2, <1>5, <1>7
<1> QED
  BY <1>4, <1>6, <1>7 DEF Over

\* An empty namespace is within its limits.
LEMMA NoneIsNotOver == ASSUME TypeOK, Present = {} PROVE ~Over
<1>1. Bytes = 0 /\ Cardinality(Present) = 0
  BY BytesTyped, FS_EmptySet
<1>2. MaxKeys \in Nat /\ MaxBytes \in Nat
  BY CapacityAssumption
<1> QED
  BY <1>1, <1>2 DEF Over

\* Initially the namespace is empty and within its limits.
LEMMA WillCountInit == ASSUME Init PROVE SomeoneWillCount
<1>1. Present = {}
  BY DEF Init, Present
<1>2. ~Over
  BY <1>1, NoneIsNotOver, TypeInit
<1> QED
  BY <1>2 DEF SomeoneWillCount

\* A step that takes the namespace over its limit is a write whose call goes on
\* to count or is recorded, and a call that is going to count does so or is
\* recorded as having failed to.
LEMMA WillCountNext ==
  ASSUME TypeOK, SomeoneWillCount, [Next]_vars
  PROVE  SomeoneWillCount'
<1> SUFFICES ASSUME Limited, ~unenforced', Over' PROVE \E d \in Clients : WillCount(d)'
  BY DEF SomeoneWillCount, Limited
<1> USE CapacityAssumption
<1>0. TypeOK' /\ (\A k \in Keys : rows[k].size \in Nat)
  BY TypeNext, SizesTyped DEF SizeOf
<1>1. ASSUME UNCHANGED rows PROVE Over
  <2>1. Present' = Present
    BY <1>1 DEF Present
  <2>2. \A k \in Keys : rows'[k].size <= rows[k].size
    BY <1>0, <1>1
  <2> QED
    BY <1>0, <2>1, <2>2, OverBefore
<1>2. ASSUME NEW K, Remove(K) PROVE Over
  <2>1. Present' \subseteq Present
    BY <1>2, RemovePresent
  <2>2. ASSUME NEW k \in Keys PROVE rows'[k].size <= rows[k].size
    <3>1. rows'[k] = NoRow \/ rows'[k] = rows[k]
      BY <1>2 DEF Remove
    <3>2. NoRow.size = 0
      BY DEF NoRow
    <3> QED
      BY <1>0, <3>1, <3>2
  <2> QED
    BY <1>0, <2>1, <2>2, OverBefore
<1>3. ASSUME ~unenforced, Over PROVE \E d \in Clients : WillCount(d)
  BY <1>3 DEF SomeoneWillCount
<1>4. ASSUME NEW c \in Clients, NEW d \in Clients, d # c, WillCount(d),
             \E l : pc' = [pc EXCEPT ![c] = l], \E r : call' = [call EXCEPT ![c] = r]
      PROVE  WillCount(d)'
  BY <1>4 DEF WillCount, TypeOK
<1>5. ASSUME NEW c \in Clients, NEW l, Goto(c, l)
      PROVE  /\ \E m : pc' = [pc EXCEPT ![c] = m]
             /\ \E r : call' = [call EXCEPT ![c] = r]
             /\ pc'[c] = l
             /\ l # "idle" => call'[c].op = call[c].op
  BY <1>5 DEF Goto, TypeOK, NoCall, Call
<1>6. ASSUME NEW c \in Clients, NEW l, Goto(c, l), ~unenforced, Over,
             WillCount(c) => l \in {"expire", "count", "evict"}
      PROVE  \E d \in Clients : WillCount(d)'
  <2>1. PICK d \in Clients : WillCount(d)
    BY <1>6, <1>3
  <2>2. CASE d = c
    BY <2>1, <2>2, <1>6, <1>5 DEF WillCount
  <2>3. CASE d # c
    BY <2>1, <2>3, <1>6, <1>5, <1>4
  <2> QED
    BY <2>2, <2>3
<1>7. CASE Tick \/ UNCHANGED vars
  <2>1. UNCHANGED <<rows, pc, call, unenforced>>
    BY <1>7 DEF Tick, vars, hist
  <2> QED
    BY <2>1, <1>1, <1>3 DEF WillCount
<1>8. ASSUME NEW c \in Clients, CallWrite(c) \/ Delete(c) \/ Get(c) \/ Maintain(c)
      PROVE  \E d \in Clients : WillCount(d)'
  <2>1. pc[c] = "idle" /\ UNCHANGED unenforced
    BY <1>8 DEF CallWrite, Delete, Get, Maintain, Begins, Remove, hist
  <2>2. Over
    BY <1>8, <1>1, <1>2 DEF CallWrite, Delete, Get, Maintain
  <2>3. PICK d \in Clients : WillCount(d)
    BY <2>1, <2>2, <1>3
  <2>4. d # c
    BY <2>1, <2>3 DEF WillCount
  <2>5. pc'[d] = pc[d] /\ call'[d] = call[d]
    <3>1. CASE CallWrite(c)
      BY <3>1, <2>4 DEF CallWrite, Begins, TypeOK
    <3>2. CASE Delete(c)
      BY <3>2, <2>4 DEF Delete, Begins, TypeOK
    <3>3. CASE Get(c)
      <4>1. \E l : pc' = [pc EXCEPT ![c] = l]
        BY <3>3, Zenon DEF Get, Begins
      <4>2. call' = call \/ call' = [call EXCEPT ![c].op = "get"]
        BY <3>3 DEF Get
      <4> QED
        BY <4>1, <4>2, <2>4 DEF TypeOK
    <3>4. CASE Maintain(c)
      BY <3>4, <2>4 DEF Maintain, TypeOK
    <3> QED
      BY <1>8, <3>1, <3>2, <3>3, <3>4
  <2> QED
    BY <2>3, <2>5 DEF WillCount
<1>9. ASSUME NEW c \in Clients, Write(c) PROVE \E d \in Clients : WillCount(d)'
  <2>1. PICK l : /\ Goto(c, l) /\ l = (IF Hit(c) = {} THEN "idle" ELSE MaybeEvict(call[c].op))
                 /\ pc[c] = "write"
                 /\ unenforced' = (unenforced \/ (Hit(c) # {} /\ l = "idle"))
                 /\ rows' = [k \in Keys |-> IF k \in Hit(c) THEN Written(c, k) ELSE rows[k]]
    BY <1>9 DEF Write
  <2>2. ~unenforced /\ ~WillCount(c)
    BY <2>1 DEF WillCount
  <2>3. CASE Hit(c) = {}
    <3>1. UNCHANGED rows
      BY <2>1, <2>3 DEF TypeOK
    <3> QED
      BY <3>1, <2>1, <2>2, <1>1, <1>6
  <2>4. CASE Hit(c) # {}
    <3>1. l # "idle"
      BY <2>1, <2>4
    <3>2. l \in {"flush", "count"} /\ call[c].op # "get"
      BY <2>1, <2>4, <3>1 DEF MaybeEvict
    <3> QED
      BY <2>1, <3>1, <3>2, <1>5 DEF WillCount
  <2> QED
    BY <2>3, <2>4
<1>10. ASSUME NEW c \in Clients, TakeBuffer(c) PROVE \E d \in Clients : WillCount(d)'
  <2>1. UNCHANGED <<rows, unenforced>> /\ pc[c] = "flush"
    BY <1>10 DEF TakeBuffer, hist
  <2>2. ~unenforced /\ Over
    BY <2>1, <1>1
  <2>3. CASE Goto(c, AfterFlush(c))
    <3>1. WillCount(c) => AfterFlush(c) \in {"expire", "count", "evict"}
      BY <2>1, Zenon DEF WillCount, AfterFlush
    <3> QED
      BY <2>2, <2>3, <3>1, <1>6
  <2>4. CASE pc' = [pc EXCEPT ![c] = "apply"] /\ call' = [call EXCEPT ![c].pending = buffer[CacheOf[c]]]
    <3>1. PICK d \in Clients : WillCount(d)
      BY <2>2, <1>3
    <3>2. call'[d].op = call[d].op
      BY <2>4 DEF TypeOK, Call
    <3> QED
      BY <2>1, <2>4, <3>1, <3>2 DEF WillCount, TypeOK
  <2> QED
    BY <1>10, <2>3, <2>4 DEF TakeBuffer
<1>11. ASSUME NEW c \in Clients, Apply(c) PROVE \E d \in Clients : WillCount(d)'
  <2>1. pc[c] = "apply" /\ UNCHANGED unenforced /\ Goto(c, AfterFlush(c))
    BY <1>11 DEF Apply, hist
  <2>2. Over
    <3>1. Present' \subseteq Present
      BY <1>11 DEF Apply, Present
    <3>2. ASSUME NEW k \in Keys PROVE rows'[k].size <= rows[k].size
      <4>1. rows[k] \in Row
        BY DEF TypeOK
      <4>2. rows'[k].size = rows[k].size
        BY <1>11, <4>1 DEF Apply, Row
      <4> QED
        BY <1>0, <4>2
    <3> QED
      BY <1>0, <3>1, <3>2, OverBefore
  <2>3. WillCount(c) => AfterFlush(c) \in {"expire", "count", "evict"}
    BY <2>1, Zenon DEF WillCount, AfterFlush
  <2> QED
    BY <2>1, <2>2, <2>3, <1>6
<1>12. ASSUME NEW c \in Clients, RemoveExpired(c) \/ Evict(c)
       PROVE  \E d \in Clients : WillCount(d)'
  <2>1. Goto(c, "count")
    BY <1>12 DEF RemoveExpired, Evict, EvictGoingOnAt
  <2> QED
    BY <2>1, <1>5 DEF WillCount
<1>13. ASSUME NEW c \in Clients, Count(c) PROVE \E d \in Clients : WillCount(d)'
  <2>1. Over
    BY <1>13, <1>1 DEF Count
  <2>2. Goto(c, "evict")
    BY <1>13, <2>1 DEF Count
  <2> QED
    BY <2>2, <1>5 DEF WillCount
<1>14. ASSUME NEW c \in Clients, EvictNone(c) PROVE FALSE
  <2>1. Over /\ Present = {}
    BY <1>14, <1>1 DEF EvictNone
  <2> QED
    BY <2>1, NoneIsNotOver
<1>15. ASSUME NEW c \in Clients, Fails(c) PROVE \E d \in Clients : WillCount(d)'
  <2>1. /\ pc[c] \in {"write", "apply", "expire"} /\ ~unenforced
        /\ UNCHANGED rows
    BY <1>15 DEF Fails
  <2>2. CASE pc[c] = "write"
    <3>1. Goto(c, "idle") /\ ~WillCount(c)
      BY <1>15, <2>2, Zenon DEF Fails, WillCount
    <3> QED
      BY <2>1, <3>1, <1>1, <1>6
  <2>3. CASE pc[c] = "apply"
    <3>1. Goto(c, AfterFlush(c))
      BY <1>15, <2>3, Zenon DEF Fails
    <3>2. WillCount(c) => AfterFlush(c) \in {"expire", "count", "evict"}
      BY <2>3, Zenon DEF WillCount, AfterFlush
    <3> QED
      BY <2>1, <3>1, <3>2, <1>1, <1>6
  <2>4. CASE pc[c] = "expire"
    <3>1. Goto(c, "count")
      BY <1>15, <2>4, Zenon DEF Fails
    <3> QED
      BY <3>1, <1>5 DEF WillCount
  <2> QED
    BY <2>1, <2>2, <2>3, <2>4
<1> QED
  BY <1>7, <1>8, <1>9, <1>10, <1>11, <1>12, <1>13, <1>14, <1>15 DEF Next, Steps

\* A namespace at rest is within its limits, of keys and of bytes, unless the
\* last write did not enforce them or its enforcement failed: for any number of
\* clients and any interleaving of their counts, evictions, flushes and failures.
THEOREM LimitAtRest == Spec => []WithinLimitsAtRest
<1>1. Init => SomeoneWillCount
  BY WillCountInit
<1>2. TypeOK /\ SomeoneWillCount /\ [Next]_vars => SomeoneWillCount'
  BY WillCountNext
<1>3. SomeoneWillCount => WithinLimitsAtRest
  BY DEF SomeoneWillCount, WithinLimitsAtRest, WillCount
<1> QED
  BY CapacityTypeCorrect, <1>1, <1>2, <1>3, PTL DEF Spec

-----------------------------------------------------------------------------
(* Concurrent evictions.                                                   *)

\* Initially nobody evicts.
LEMMA BoundInit == Init => OverEvictionIsBounded
BY DEF Init, OverEvictionIsBounded, Evicting

\* The bound is kept: whoever starts to evict has just counted more rows than
\* the limit, whoever evicts stops evicting, and every other loss of a row is
\* counted.
LEMMA BoundNext ==
  ASSUME TypeOK, Sized, OverEvictionIsBounded, [Next]_vars
  PROVE  OverEvictionIsBounded'
<1> SUFFICES ASSUME MaxBytes = 0, Evicting' # {}
             PROVE  Cardinality(Present') + removed'
                      >= MaxKeys + 1 - Cardinality(Clients) + Cardinality(Evicting')
  BY DEF OverEvictionIsBounded
<1> USE CapacityAssumption
<1> DEFINE Goal == Cardinality(Present') + removed'
                      >= MaxKeys + 1 - Cardinality(Clients) + Cardinality(Evicting')
<1>1. /\ Cardinality(Present') \in Nat /\ Cardinality(Evicting') \in Nat
      /\ Cardinality(Evicting') <= Cardinality(Clients) /\ IsFiniteSet(Present')
  <2>1. Present' \in SUBSET Keys /\ Evicting' \in SUBSET Clients
    BY DEF Present, Evicting
  <2> QED
    BY <2>1, FS_Subset, FS_CardinalityType
<1>2. removed \in Nat /\ Evicting # {} =>
        Cardinality(Present) + removed >= MaxKeys + 1 - Cardinality(Clients) + Cardinality(Evicting)
  BY DEF OverEvictionIsBounded, TypeOK
<1>3. ASSUME Evicting' \subseteq Evicting, Present \subseteq Present', UNCHANGED removed
      PROVE  Goal
  <2>1. Cardinality(Evicting') <= Cardinality(Evicting) /\ Cardinality(Present) <= Cardinality(Present')
    BY <1>1, <1>3, Counted, FS_Subset
  <2> QED
    BY <1>1, <1>2, <1>3, <2>1, Counted DEF TypeOK
<1>4. ASSUME NEW c \in Clients, NEW l, l # "evict", pc' = [pc EXCEPT ![c] = l]
      PROVE  Evicting' = Evicting \ {c}
  BY <1>4, EvictingAfter
<1>5. ASSUME UNCHANGED rows PROVE Present' = Present
  BY <1>5 DEF Present
<1>6. CASE Tick \/ UNCHANGED vars
  BY <1>6, <1>3, <1>5 DEF Tick, vars, hist, Evicting
<1>7. ASSUME NEW c \in Clients, CallWrite(c) \/ Get(c) \/ Maintain(c) PROVE Goal
  <2>1. UNCHANGED <<rows, removed>>
    BY <1>7 DEF CallWrite, Get, Maintain, hist
  <2>2. \E l : l # "evict" /\ pc' = [pc EXCEPT ![c] = l]
    BY <1>7, Zenon DEF CallWrite, Get, Maintain, Begins
  <2> QED
    BY <2>1, <2>2, <1>3, <1>4, <1>5
<1>8. ASSUME NEW c \in Clients, Delete(c) PROVE Goal
  <2>1. PICK k \in Present : Begins(c, "delete", "idle") /\ Remove({k}) /\ Left({k})
    BY <1>8 DEF Delete
  <2>2. Evicting' = Evicting
    BY <2>1, <1>4 DEF Begins, Evicting
  <2>3. removed' = removed + 1
    BY <2>1, <2>2, FS_Singleton DEF Left
  <2>4. Cardinality(Present') = Cardinality(Present) - 1
    BY <2>1, RemovePresent, Counted, FS_RemoveElement
  <2> QED
    BY <1>1, <1>2, <2>2, <2>3, <2>4, Counted DEF TypeOK
<1>9. ASSUME NEW c \in Clients, Write(c) PROVE Goal
  <2>1. \A k \in Keys : rows'[k] = rows[k] \/ rows'[k] = Written(c, k)
    BY <1>9 DEF Write
  <2>2. \A k \in Keys : Written(c, k) # NoRow
    BY <1>9 DEF Write, Written, NoRow, Sized
  <2>3. Present \subseteq Present'
    BY <2>1, <2>2 DEF Present
  <2>4. \E l : l # "evict" /\ pc' = [pc EXCEPT ![c] = l]
    BY <1>9 DEF Write, MaybeEvict, Goto
  <2> QED
    BY <1>9, <2>3, <2>4, <1>3, <1>4 DEF Write
<1>10. ASSUME NEW c \in Clients, TakeBuffer(c) \/ EvictNone(c) \/ Fails(c) PROVE Goal
  <2>1. UNCHANGED <<rows, removed>>
    BY <1>10 DEF TakeBuffer, EvictNone, Fails, hist
  <2>2. \E l : l # "evict" /\ pc' = [pc EXCEPT ![c] = l]
    BY <1>10, Zenon DEF TakeBuffer, EvictNone, Fails, AfterFlush, Goto
  <2> QED
    BY <2>1, <2>2, <1>3, <1>4, <1>5
<1>11. ASSUME NEW c \in Clients, Apply(c) PROVE Goal
  <2>1. \A k \in Keys : rows'[k].size = rows[k].size
    BY <1>11 DEF Apply, TypeOK, Row
  <2>2. Present \subseteq Present'
    BY <2>1 DEF Present, Sized, NoRow
  <2>3. \E l : l # "evict" /\ pc' = [pc EXCEPT ![c] = l]
    BY <1>11, Zenon DEF Apply, AfterFlush, Goto
  <2> QED
    BY <1>11, <2>2, <2>3, <1>3, <1>4 DEF Apply, hist
<1>12. ASSUME NEW c \in Clients, RemoveExpired(c) PROVE Goal
  <2> DEFINE K == {k \in Keys : Expired(k, now)}
  <2>1. Remove(K) /\ Left(K) /\ pc[c] = "expire" /\ Goto(c, IF Limited THEN "count" ELSE "idle")
    BY <1>12 DEF RemoveExpired
  <2>2. Evicting' = Evicting
    BY <2>1, <1>4 DEF Goto, Evicting
  <2>3. K \subseteq Present
    BY DEF Expired, Present, NoRow, Never
  <2>4. IsFiniteSet(K) /\ Cardinality(K) \in Nat
    BY FS_Subset, FS_CardinalityType
  <2>5. Cardinality(Present') = Cardinality(Present) - Cardinality(K)
    <3>1. Present' = Present \ K /\ Present \cap K = K
      BY <2>1, <2>3, RemovePresent
    <3> HIDE DEF K
    <3> QED
      BY <3>1, Counted, FS_Difference
  <2>6. removed' = removed + Cardinality(K)
    BY <2>1, <2>2 DEF Left
  <2> HIDE DEF K
  <2> QED
    BY <1>1, <1>2, <2>2, <2>4, <2>5, <2>6, Counted DEF TypeOK
<1>13. ASSUME NEW c \in Clients, Count(c) PROVE Goal
  <2>1. UNCHANGED rows /\ pc[c] = "count"
    BY <1>13 DEF Count
  <2>2. CASE Over
    <3>1. Cardinality(Present') > MaxKeys
      BY <2>1, <2>2, <1>5, OverByCount
    <3>2. removed' \in Nat
      BY <1>13 DEF Count, TypeOK
    <3> QED
      BY <3>1, <3>2, <1>1, Counted
  <2>3. CASE ~Over
    <3>1. Evicting' = Evicting \ {c}
      BY <1>13, <2>3, <1>4 DEF Count, Goto
    <3>2. UNCHANGED removed
      BY <1>13, <3>1 DEF Count
    <3> QED
      BY <2>1, <3>1, <3>2, <1>3, <1>5
  <2> QED
    BY <2>2, <2>3
<1>14. ASSUME NEW c \in Clients, Evict(c) PROVE Goal
  <2>1. PICK k \in Present : Remove({k})
    BY <1>14 DEF Evict, EvictGoingOnAt
  <2>2. c \in Evicting /\ UNCHANGED removed /\ Goto(c, "count")
    BY <1>14 DEF Evict, EvictGoingOnAt, Evicting
  <2>3. Cardinality(Present') = Cardinality(Present) - 1
    BY <2>1, RemovePresent, Counted, FS_RemoveElement
  <2>4. Cardinality(Evicting') = Cardinality(Evicting) - 1
    <3>1. Evicting' = Evicting \ {c}
      BY <2>2, <1>4 DEF Goto
    <3>2. Cardinality(Evicting \ {c}) = Cardinality(Evicting) - 1
      BY <2>2, Counted, FS_RemoveElement
    <3> QED
      BY <3>1, <3>2
  <2> QED
    BY <1>1, <1>2, <2>2, <2>3, <2>4, Counted DEF TypeOK
<1> QED
  BY <1>6, <1>7, <1>8, <1>9, <1>10, <1>11, <1>12, <1>13, <1>14 DEF Next, Steps

\* However many clients enforce a key limit at the same time, they evict at most
\* one row too many for each other client.
THEOREM OverEvictionBound == Spec => []OverEvictionIsBounded
<1>1. Init => Sized /\ OverEvictionIsBounded
  BY SizedInit, BoundInit
<1>2. TypeOK /\ Sized /\ OverEvictionIsBounded /\ [Next]_vars => (Sized /\ OverEvictionIsBounded)'
  BY SizedNext, BoundNext
<1> QED
  BY CapacityTypeCorrect, <1>1, <1>2, PTL DEF Spec
=============================================================================
