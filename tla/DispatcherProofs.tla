-------------------------- MODULE DispatcherProofs --------------------------
(***************************************************************************)
(* Proofs about Dispatcher: for any number of writers and listeners, any   *)
(* depth limit and any interleaving, listeners are called in the order of  *)
(* the queue, miss no record, are silent once unsubscribed, and rest once  *)
(* Close has returned; and the mutations that listeners make themselves    *)
(* lead to a bounded number of records.                                    *)
(***************************************************************************)
EXTENDS Dispatcher, FiniteSetTheorems, WellFoundedInduction, TLAPS

-----------------------------------------------------------------------------
(* Listener ids and the queue.                                             *)

\* Listener ids are natural numbers.
LEMMA ListenersAreNat == Listeners \subseteq Nat
<1>1. Cardinality(Listeners) \in Nat
  BY DispatcherAssumption, FS_CardinalityType
<1> QED
  BY <1>1, DispatcherAssumption

\* A set of natural numbers that is not empty has a least one.
LEMMA LeastNat ==
  ASSUME NEW S \in SUBSET Nat, S # {}
  PROVE  \E x \in S : \A y \in S : x <= y
<1> DEFINE R == OpToRel(<, Nat)
<1>1. IsWellFoundedOn(R, Nat)
  BY NatLessThanWellFounded
<1>2. \A x, y \in Nat : y < x => <<y, x>> \in R
  BY DEF OpToRel
<1> HIDE DEF R
<1>3. PICK x \in S : \A y \in S : ~(<<y, x>> \in R)
  BY <1>1, WFMin
<1>4. ASSUME NEW y \in S PROVE x <= y
  <2>1. x \in Nat /\ y \in Nat /\ ~(y < x)
    BY <1>2, <1>3
  <2> QED
    BY <2>1
<1> QED
  BY <1>4

\* The first target, which the goroutine calls next, is a target.
LEMMA FirstTarget ==
  ASSUME NEW T \in SUBSET Listeners, T # {}
  PROVE  Min(T) \in T
<1>1. T \in SUBSET Nat
  BY ListenersAreNat
<1>2. \E x \in T : \A y \in T : x <= y
  BY <1>1, LeastNat
<1> QED
  BY <1>2 DEF Min

\* The next record is appended to the queue.
Queued ==
    \E r \in Record :
        r.n = records + 1 /\ queue' = Append(queue, r) /\ records' = records + 1

\* submit appends the next record, or does nothing.
LEMMA SubmitQueues ==
  ASSUME TypeOK, NEW op \in Ops, NEW depth \in Nat \ {0}, Submit(op, depth)
  PROVE  UNCHANGED <<queue, records>> \/ Queued
<1>1. CASE depth > MaxDepth \/ closed
  BY <1>1 DEF Submit
<1>2. CASE ~(depth > MaxDepth \/ closed)
  <2> DEFINE r == [n |-> records + 1, op |-> op, depth |-> depth]
  <2>1. r \in Record /\ r.n = records + 1
    BY <1>2, DispatcherAssumption DEF TypeOK, Record
  <2>2. queue' = Append(queue, r) /\ records' = records + 1
    BY <1>2 DEF Submit
  <2> QED
    BY <2>1, <2>2 DEF Queued
<1> QED
  BY <1>1, <1>2

\* The shape of the queue after an append.
LEMMA AppendShape ==
  ASSUME TypeOK, NEW r \in Record, queue' = Append(queue, r)
  PROVE  /\ queue' \in Seq(Record)
         /\ Len(queue) \in Nat
         /\ DOMAIN queue = 1 .. Len(queue)
         /\ DOMAIN queue' = 1 .. Len(queue) + 1
         /\ \A i \in DOMAIN queue : queue[i] \in Record /\ queue'[i] = queue[i]
         /\ queue'[Len(queue) + 1] = r
BY DEF TypeOK

\* A queue that is as it was, or one record longer, is a queue.
LEMMA QueueType ==
  ASSUME TypeOK, UNCHANGED <<queue, records>> \/ Queued
  PROVE  records' \in Nat /\ queue' \in Seq(Record)
<1>1. CASE UNCHANGED <<queue, records>>
  BY <1>1 DEF TypeOK
<1>2. CASE Queued
  BY <1>2, AppendShape DEF TypeOK, Queued
<1> QED
  BY <1>1, <1>2

\* The shape of the queue after its head is taken.
LEMMA TailShape ==
  ASSUME TypeOK, queue # << >>
  PROVE  /\ Head(queue) = queue[1] /\ Head(queue) \in Record
         /\ Tail(queue) \in Seq(Record)
         /\ Len(queue) \in Nat \ {0}
         /\ DOMAIN queue = 1 .. Len(queue)
         /\ DOMAIN Tail(queue) = 1 .. Len(queue) - 1
         /\ \A i \in DOMAIN Tail(queue) : Tail(queue)[i] = queue[i + 1]
         /\ \A i \in DOMAIN queue : queue[i] \in Record
BY DEF TypeOK

-----------------------------------------------------------------------------
(* Types.                                                                  *)

\* The initial state has its types.
LEMMA TypeInit == Init => TypeOK
<1> SUFFICES ASSUME Init PROVE TypeOK
  OBVIOUS
<1>1. closed \in BOOLEAN
  BY Zenon DEF Init
<1>2. queue \in Seq(Record) /\ delivered \in [Listeners -> Seq(Nat)]
  BY DEF Init
<1> QED
  BY <1>1, <1>2 DEF Init, TypeOK

\* Every step keeps the types.
LEMMA TypeNext == TypeOK /\ [Next]_vars => TypeOK'
<1> SUFFICES ASSUME TypeOK, [Next]_vars PROVE TypeOK'
  OBVIOUS
<1> USE DEF TypeOK, regVars, runVars
<1>1. ASSUME NEW w \in Writers, Write(w) PROVE TypeOK'
  BY <1>1 DEF Write
<1>2. ASSUME NEW w \in Writers, WriterSubmits(w) PROVE TypeOK'
  <2>1. wpc[w] \in Ops /\ Submit(wpc[w], 1)
    BY <1>2 DEF WriterSubmits
  <2>2. records' \in Nat /\ queue' \in Seq(Record)
    BY <2>1, SubmitQueues, QueueType
  <2> QED
    BY <1>2, <2>2 DEF WriterSubmits
<1>3. CASE OnChange
  BY <1>3 DEF OnChange
<1>4. ASSUME NEW l \in Listeners, Unsubscribe(l) PROVE TypeOK'
  BY <1>4 DEF Unsubscribe
<1>5. ASSUME NEW inside \in BOOLEAN, Close(inside) PROVE TypeOK'
  <2>1. closed' \in BOOLEAN
    BY <1>5, Zenon DEF Close
  <2> QED
    BY <1>5, <2>1 DEF Close
<1>6. CASE CloseReturns \/ CloseGivesUp
  BY <1>6 DEF CloseReturns, CloseGivesUp
<1>7. CASE Exit
  BY <1>7 DEF Exit
<1>8. CASE Take
  BY <1>8, TailShape DEF Take
<1>9. CASE Recheck
  BY <1>9 DEF Recheck
<1>10. CASE Enter
  <2>1. item.n \in Nat
    BY DEF Record, NoItem
  <2>2. PICK l : /\ delivered' = [delivered EXCEPT ![l] = Append(@, item.n)]
                 /\ targets' = targets \ {l} /\ overtaken' = overtaken \ {l}
    BY <1>10 DEF Enter
  <2>3. ASSUME NEW m \in Listeners
        PROVE  /\ delivered'[m] = (IF m = l THEN Append(delivered[m], item.n) ELSE delivered[m])
               /\ delivered'[m] \in Seq(Nat)
    <3>1. delivered'[m] = (IF m = l THEN Append(delivered[m], item.n) ELSE delivered[m])
      BY <2>2
    <3>2. delivered[m] \in Seq(Nat)
      OBVIOUS
    <3>3. Append(delivered[m], item.n) \in Seq(Nat)
      BY <2>1, <3>2
    <3> QED
      BY <3>1, <3>2, <3>3
  <2>4. delivered' \in [Listeners -> Seq(Nat)]
    BY <2>2, <2>3
  <2> QED
    BY <1>10, <2>2, <2>4 DEF Enter
<1>11. CASE ListenerReturns \/ Dispatched
  BY <1>11 DEF ListenerReturns, Dispatched
<1>12. CASE ListenerWrites
  <2>1. item.depth + 1 \in Nat \ {0}
    BY DispatcherAssumption DEF Record, NoItem
  <2>2. UNCHANGED <<queue, records>> \/ \E op \in Ops : Submit(op, item.depth + 1)
    BY <1>12 DEF ListenerWrites
  <2>3. records' \in Nat /\ queue' \in Seq(Record)
    BY <2>1, <2>2, SubmitQueues, QueueType
  <2> QED
    BY <1>12, <2>3 DEF ListenerWrites
<1>13. CASE UNCHANGED vars
  BY <1>13 DEF vars
<1> QED
  BY <1>1, <1>2, <1>3, <1>4, <1>5, <1>6, <1>7, <1>8, <1>9, <1>10, <1>11, <1>12, <1>13
  DEF Next, Goroutine

\* Every variable keeps its type.
THEOREM DispatcherTypeCorrect == Spec => []TypeOK
BY TypeInit, TypeNext, PTL DEF Spec

-----------------------------------------------------------------------------
(* The invariant.                                                          *)

\* Nothing is queued or delivered at the start.
LEMMA InvInit == Init => DispatchInv
<1> SUFFICES ASSUME Init PROVE DispatchInv
  OBVIOUS
<1>1. ItemWhileDispatching /\ GoneIsGone /\ QuietAfterClose
  BY DEF Init, ItemWhileDispatching, GoneIsGone, QuietAfterClose
<1>2. DOMAIN queue = {} /\ \A l \in Listeners : DOMAIN delivered[l] = {}
  BY DEF Init
<1>3. QueueInOrder /\ DeliveredBefore /\ DeliveredInOrder
  BY <1>2 DEF Init, QueueInOrder, DeliveredBefore, DeliveredInOrder, NoItem
<1>4. NoRecordMissed
  BY DEF Init, NoRecordMissed
<1> QED
  BY <1>1, <1>3, <1>4 DEF DispatchInv

\* A record joins the end of the queue: it has the highest number, and every
\* listener that is to be called with it has it ahead.
LEMMA QueuedKeepsInv ==
  ASSUME TypeOK, DispatchInv, Queued,
         UNCHANGED <<regVars, pc, item, targets, closing, delivered>>
  PROVE  DispatchInv'
<1> USE DEF DispatchInv, regVars
<1>1. PICK r \in Record : r.n = records + 1 /\ queue' = Append(queue, r) /\ records' = records + 1
  BY DEF Queued
<1>2. /\ DOMAIN queue = 1 .. Len(queue) /\ Len(queue) \in Nat
      /\ DOMAIN queue' = 1 .. Len(queue) + 1
      /\ \A i \in DOMAIN queue : queue[i] \in Record /\ queue'[i] = queue[i]
      /\ queue'[Len(queue) + 1] = r
  BY <1>1, AppendShape
<1>3. \A i \in DOMAIN queue' : i \in DOMAIN queue \/ i = Len(queue) + 1
  BY <1>2
<1>4. records \in Nat /\ item.n \in Nat /\ \A i \in DOMAIN queue : queue[i].n \in Nat
  BY <1>2 DEF TypeOK, Record, NoItem
<1>5. ItemWhileDispatching' /\ GoneIsGone' /\ QuietAfterClose' /\ DeliveredInOrder'
  BY DEF ItemWhileDispatching, GoneIsGone, QuietAfterClose, DeliveredInOrder
<1>6. QueueInOrder'
  <2>1. \A i \in DOMAIN queue' : queue'[i].n <= records'
    BY <1>1, <1>2, <1>3, <1>4 DEF QueueInOrder
  <2>2. \A i, j \in DOMAIN queue' : i < j => queue'[i].n < queue'[j].n
    BY <1>1, <1>2, <1>3, <1>4 DEF QueueInOrder
  <2>3. item'.n <= records'
    BY <1>1, <1>4 DEF QueueInOrder
  <2>4. \A i \in DOMAIN queue' : item'.n < queue'[i].n
    BY <1>1, <1>2, <1>3, <1>4 DEF QueueInOrder
  <2> QED
    BY <2>1, <2>2, <2>3, <2>4 DEF QueueInOrder
<1>7. DeliveredBefore'
  <2> SUFFICES ASSUME NEW l \in Listeners, NEW i \in DOMAIN delivered[l]
               PROVE  /\ delivered[l][i] <= records'
                      /\ \A j \in DOMAIN queue' : delivered[l][i] < queue'[j].n
                      /\ pc \in {"next", "enter", "running"} => delivered[l][i] <= item.n
                      /\ l \in targets => delivered[l][i] < item.n
    BY DEF DeliveredBefore
  <2>1. delivered[l][i] \in Nat
    BY DEF TypeOK
  <2> QED
    BY <2>1, <1>1, <1>2, <1>3, <1>4 DEF DeliveredBefore
<1>8. NoRecordMissed'
  <2> SUFFICES ASSUME NEW l \in listeners, OpsOf[l] = Ops, NEW n \in since[l] + 1 .. records'
               PROVE  n \in Got(l)' \cup Ahead(l)'
    BY DEF NoRecordMissed
  <2>1. Got(l)' = Got(l)
    BY DEF Got
  <2>2. n = records + 1 => n \in Ahead(l)'
    <3>1. Len(queue) + 1 \in DOMAIN queue' /\ queue'[Len(queue) + 1].n = records + 1
      BY <1>1, <1>2
    <3> QED
      BY <3>1 DEF Ahead
  <2>3. Ahead(l) \subseteq Ahead(l)'
    <3>1. \A i \in DOMAIN queue : i \in DOMAIN queue' /\ queue'[i].n = queue[i].n
      BY <1>2
    <3> QED
      BY <3>1 DEF Ahead
  <2>4. since[l] \in Nat
    BY DEF TypeOK
  <2>5. n # records + 1 => n \in since[l] + 1 .. records
    BY <2>4, <1>1, <1>4
  <2> QED
    BY <2>1, <2>2, <2>3, <2>5 DEF NoRecordMissed
<1> QED
  BY <1>5, <1>6, <1>7, <1>8

\* A step that leaves the queue, the dispatch and the deliveries as they are,
\* and registers nobody, keeps the invariant.
LEMMA QuietStepKeepsInv ==
  ASSUME TypeOK, DispatchInv, GoneIsGone', QuietAfterClose', ItemWhileDispatching',
         listeners' \subseteq listeners,
         pc' \in {"next", "enter", "running"} => pc \in {"next", "enter", "running"},
         UNCHANGED <<since, queue, records, item, targets, delivered>>
  PROVE  DispatchInv'
<1> USE DEF DispatchInv
<1>1. QueueInOrder' /\ DeliveredBefore' /\ DeliveredInOrder'
  BY DEF QueueInOrder, DeliveredBefore, DeliveredInOrder
<1>2. NoRecordMissed'
  BY DEF NoRecordMissed, Got, Ahead
<1> QED
  BY <1>1, <1>2

\* Taking the oldest record: those who are registered and want it are its
\* targets, so that it is still ahead of them.
LEMMA TakeKeepsInv ==
  ASSUME TypeOK, DispatchInv, Take
  PROVE  DispatchInv'
<1> USE DEF DispatchInv, regVars
<1>1. /\ queue # << >> /\ pc = "wait" /\ pc' = "next"
      /\ item' = Head(queue) /\ queue' = Tail(queue)
      /\ targets' = {l \in listeners : Head(queue).op \in OpsOf[l]}
      /\ UNCHANGED <<regVars, closing, records, delivered>>
  BY DEF Take
<1>2. /\ item' = queue[1] /\ item' \in Record
      /\ DOMAIN queue = 1 .. Len(queue) /\ Len(queue) \in Nat \ {0}
      /\ DOMAIN queue' = 1 .. Len(queue) - 1
      /\ \A i \in DOMAIN queue' : queue'[i] = queue[i + 1]
      /\ \A i \in DOMAIN queue : queue[i] \in Record
  BY <1>1, TailShape
<1>3. records \in Nat /\ \A i \in DOMAIN queue : queue[i].n \in Nat
  BY <1>2 DEF TypeOK, Record
<1>4. 1 \in DOMAIN queue /\ \A i \in DOMAIN queue' : i + 1 \in DOMAIN queue /\ 1 < i + 1
  BY <1>2
<1>5. ItemWhileDispatching' /\ GoneIsGone' /\ QuietAfterClose' /\ DeliveredInOrder'
  BY <1>1, <1>2 DEF ItemWhileDispatching, GoneIsGone, QuietAfterClose, DeliveredInOrder
<1>6. QueueInOrder'
  <2>1. \A i \in DOMAIN queue' : queue'[i].n <= records'
    BY <1>1, <1>2, <1>4 DEF QueueInOrder
  <2>2. \A i, j \in DOMAIN queue' : i < j => queue'[i].n < queue'[j].n
    BY <1>2, <1>4 DEF QueueInOrder
  <2>3. item'.n <= records'
    BY <1>1, <1>2, <1>4 DEF QueueInOrder
  <2>4. \A i \in DOMAIN queue' : item'.n < queue'[i].n
    BY <1>2, <1>4 DEF QueueInOrder
  <2> QED
    BY <2>1, <2>2, <2>3, <2>4 DEF QueueInOrder
<1>7. DeliveredBefore'
  <2> SUFFICES ASSUME NEW l \in Listeners, NEW i \in DOMAIN delivered[l]
               PROVE  /\ delivered[l][i] <= records
                      /\ \A j \in DOMAIN queue' : delivered[l][i] < queue'[j].n
                      /\ delivered[l][i] < item'.n
                      /\ delivered[l][i] <= item'.n
    BY <1>1 DEF DeliveredBefore
  <2>1. delivered[l][i] \in Nat /\ item'.n \in Nat
    BY <1>2 DEF TypeOK, Record
  <2>2. /\ delivered[l][i] <= records
        /\ \A j \in DOMAIN queue : delivered[l][i] < queue[j].n
    BY DEF DeliveredBefore
  <2> QED
    BY <2>1, <2>2, <1>2, <1>4
<1>8. NoRecordMissed'
  <2> SUFFICES ASSUME NEW l \in listeners, OpsOf[l] = Ops, NEW n \in since[l] + 1 .. records
               PROVE  n \in Got(l)' \cup Ahead(l)'
    BY <1>1 DEF NoRecordMissed
  <2>1. n \in Got(l) \/ \E i \in DOMAIN queue : n = queue[i].n
    BY <1>1 DEF NoRecordMissed, Ahead, ItemWhileDispatching
  <2>2. Got(l)' = Got(l)
    BY <1>1 DEF Got
  <2>3. l \in targets'
    BY <1>1, <1>2 DEF Record
  <2>4. ASSUME NEW i \in DOMAIN queue, n = queue[i].n PROVE n \in Ahead(l)'
    <3>1. CASE i = 1
      BY <3>1, <2>3, <2>4, <1>2 DEF Ahead
    <3>2. CASE i # 1
      <4>1. i - 1 \in DOMAIN queue' /\ queue'[i - 1] = queue[i]
        BY <3>2, <1>2
      <4> QED
        BY <4>1, <2>4 DEF Ahead
    <3> QED
      BY <3>1, <3>2
  <2> QED
    BY <2>1, <2>2, <2>4
<1> QED
  BY <1>5, <1>6, <1>7, <1>8

\* A target that is not registered any more is skipped; one that is registered
\* is not gone, and is about to be entered.
LEMMA RecheckKeepsInv ==
  ASSUME TypeOK, DispatchInv, Recheck
  PROVE  DispatchInv'
<1> USE DEF DispatchInv, regVars
<1>1. /\ pc = "next" /\ targets # {} /\ pc' \in {"next", "enter"}
      /\ targets' \subseteq targets
      /\ \A l \in listeners : l \in targets => l \in targets'
      /\ pc' = "enter" => targets' = targets /\ Min(targets) \in listeners
      /\ UNCHANGED <<regVars, queue, item, closing, records, delivered>>
  BY DEF Recheck
<1>2. ItemWhileDispatching' /\ GoneIsGone' /\ QuietAfterClose'
  BY <1>1 DEF ItemWhileDispatching, GoneIsGone, QuietAfterClose
<1>3. QueueInOrder' /\ DeliveredBefore' /\ DeliveredInOrder'
  BY <1>1 DEF QueueInOrder, DeliveredBefore, DeliveredInOrder
<1>4. NoRecordMissed'
  BY <1>1 DEF NoRecordMissed, Got, Ahead
<1> QED
  BY <1>2, <1>3, <1>4

\* The first target is called: the record goes from ahead of it to what it got.
LEMMA EnterShape ==
  ASSUME TypeOK, DispatchInv, Enter, NEW l \in Listeners
  PROVE  /\ Min(targets) \in targets /\ item \in Record
         /\ Len(delivered[l]) \in Nat
         /\ DOMAIN delivered[l] = 1 .. Len(delivered[l])
         /\ \A i \in DOMAIN delivered[l] : delivered[l][i] \in Nat
         /\ l # Min(targets) => delivered'[l] = delivered[l]
         /\ l = Min(targets) =>
               /\ DOMAIN delivered'[l] = 1 .. Len(delivered[l]) + 1
               /\ \A i \in DOMAIN delivered[l] : delivered'[l][i] = delivered[l][i]
               /\ delivered'[l][Len(delivered[l]) + 1] = item.n
<1>1. targets # {} /\ item \in Record
  BY DEF Enter, DispatchInv, ItemWhileDispatching
<1>2. Min(targets) \in targets
  BY <1>1, FirstTarget DEF TypeOK
<1>3. delivered[l] \in Seq(Nat) /\ item.n \in Nat
  BY <1>1 DEF TypeOK, Record
<1>4. l # Min(targets) => delivered'[l] = delivered[l]
  BY DEF Enter, TypeOK
<1>5. l = Min(targets) => delivered'[l] = Append(delivered[l], item.n)
  BY DEF Enter, TypeOK
<1>6. /\ Len(delivered[l]) \in Nat
      /\ DOMAIN delivered[l] = 1 .. Len(delivered[l])
      /\ \A i \in DOMAIN delivered[l] : delivered[l][i] \in Nat
  BY <1>3
<1>7. ASSUME NEW s \in Seq(Nat), NEW n \in Nat
      PROVE  /\ DOMAIN Append(s, n) = 1 .. Len(s) + 1
             /\ \A i \in DOMAIN s : Append(s, n)[i] = s[i]
             /\ Append(s, n)[Len(s) + 1] = n
  OBVIOUS
<1>8. l = Min(targets) =>
        /\ DOMAIN delivered'[l] = 1 .. Len(delivered[l]) + 1
        /\ \A i \in DOMAIN delivered[l] : delivered'[l][i] = delivered[l][i]
        /\ delivered'[l][Len(delivered[l]) + 1] = item.n
  <2> SUFFICES ASSUME l = Min(targets)
               PROVE  /\ DOMAIN Append(delivered[l], item.n) = 1 .. Len(delivered[l]) + 1
                      /\ \A i \in DOMAIN delivered[l] :
                             Append(delivered[l], item.n)[i] = delivered[l][i]
                      /\ Append(delivered[l], item.n)[Len(delivered[l]) + 1] = item.n
    BY <1>5, Zenon
  <2> QED
    BY <1>3, <1>7, Zenon
<1> QED
  BY <1>1, <1>2, <1>4, <1>6, <1>8, Zenon

\* Calling it keeps the invariant.
LEMMA EnterKeepsInv ==
  ASSUME TypeOK, DispatchInv, Enter
  PROVE  DispatchInv'
<1> USE DEF DispatchInv
<1> DEFINE first == Min(targets)
<1>1. /\ pc = "enter" /\ pc' = "running" /\ targets' = targets \ {first}
      /\ overtaken' = overtaken \ {first}
      /\ UNCHANGED <<listeners, nextID, since, gone, queue, item, closing, records>>
  BY DEF Enter
<1> HIDE DEF first
<1>2. ItemWhileDispatching' /\ GoneIsGone' /\ QuietAfterClose' /\ QueueInOrder'
  BY <1>1 DEF ItemWhileDispatching, GoneIsGone, QuietAfterClose, QueueInOrder
<1>3. item.n \in Nat /\ item.n <= records /\ \A j \in DOMAIN queue : item.n < queue[j].n
  BY DEF TypeOK, Record, NoItem, QueueInOrder
<1>4. DeliveredBefore'
  <2> SUFFICES ASSUME NEW l \in Listeners, NEW i \in DOMAIN delivered'[l]
               PROVE  /\ delivered'[l][i] <= records
                      /\ \A j \in DOMAIN queue : delivered'[l][i] < queue[j].n
                      /\ delivered'[l][i] <= item.n
                      /\ l \in targets' => delivered'[l][i] < item.n
    BY <1>1 DEF DeliveredBefore
  <2>1. CASE l # first
    BY <2>1, <1>1, EnterShape DEF DeliveredBefore, first
  <2>2. CASE l = first
    <3>1. l \notin targets'
      BY <1>1, <2>2
    <3>2. \/ i \in DOMAIN delivered[l] /\ delivered'[l][i] = delivered[l][i]
          \/ delivered'[l][i] = item.n
      BY <2>2, EnterShape DEF first
    <3> QED
      BY <3>1, <3>2, <1>1, <1>3 DEF DeliveredBefore
  <2> QED
    BY <2>1, <2>2
<1>5. DeliveredInOrder'
  <2> SUFFICES ASSUME NEW l \in Listeners, NEW i \in DOMAIN delivered'[l],
                      NEW j \in DOMAIN delivered'[l], i < j
               PROVE  delivered'[l][i] < delivered'[l][j]
    BY DEF DeliveredInOrder
  <2>1. CASE l # first
    BY <2>1, EnterShape DEF DeliveredInOrder, first
  <2>2. CASE l = first
    <3>1. i \in DOMAIN delivered[l] /\ delivered'[l][i] = delivered[l][i]
      BY <2>2, EnterShape DEF first
    <3>2. CASE j \in DOMAIN delivered[l]
      BY <2>2, <3>1, <3>2, EnterShape DEF DeliveredInOrder, first
    <3>3. CASE j \notin DOMAIN delivered[l]
      <4>1. delivered'[l][j] = item.n /\ l \in targets
        BY <2>2, <3>3, EnterShape DEF first
      <4> QED
        BY <3>1, <4>1 DEF DeliveredBefore
    <3> QED
      BY <3>2, <3>3
  <2> QED
    BY <2>1, <2>2
<1>6. NoRecordMissed'
  <2> SUFFICES ASSUME NEW l \in listeners, OpsOf[l] = Ops, NEW n \in since[l] + 1 .. records
               PROVE  n \in Got(l)' \cup Ahead(l)'
    BY <1>1 DEF NoRecordMissed
  <2>1. n \in Got(l) \cup Ahead(l) /\ l \in Listeners
    BY DEF NoRecordMissed, TypeOK
  <2>2. CASE l # first
    BY <2>1, <2>2, <1>1, EnterShape DEF Got, Ahead, first
  <2>3. CASE l = first
    <3>1. Got(l) \subseteq Got(l)'
      <4>1. \A i \in DOMAIN delivered[l] :
                i \in DOMAIN delivered'[l] /\ delivered'[l][i] = delivered[l][i]
        BY <2>1, <2>3, EnterShape DEF first
      <4> QED
        BY <4>1 DEF Got
    <3>2. item.n \in Got(l)'
      <4>1. PICK i \in DOMAIN delivered'[l] : delivered'[l][i] = item.n
        BY <2>1, <2>3, EnterShape DEF first
      <4> QED
        BY <4>1 DEF Got
    <3>3. Ahead(l) \subseteq Ahead(l)' \cup {item.n}
      BY <1>1 DEF Ahead
    <3> QED
      BY <2>1, <3>1, <3>2, <3>3
  <2> QED
    BY <2>2, <2>3
<1> QED
  BY <1>2, <1>4, <1>5, <1>6

\* A new listener has missed nothing: it counts from the records there are.
LEMMA OnChangeKeepsInv ==
  ASSUME TypeOK, DispatchInv, OnChange
  PROVE  DispatchInv'
<1> USE DEF DispatchInv
<1>1. /\ closing \in {"no", "waiting"} /\ nextID \in Listeners
      /\ listeners' = listeners \cup {nextID}
      /\ since' = [since EXCEPT ![nextID] = records]
      /\ nextID' = nextID + 1
      /\ pc' = IF pc = "none" THEN "wait" ELSE pc
      /\ UNCHANGED <<queue, item, targets, closing, records, gone, overtaken, delivered>>
  BY DEF OnChange
<1>2. nextID \in Nat /\ gone \subseteq Nat
  BY ListenersAreNat DEF TypeOK
<1>3. GoneIsGone'
  BY <1>1, <1>2 DEF GoneIsGone
<1>4. ItemWhileDispatching' /\ QuietAfterClose' /\ QueueInOrder' /\ DeliveredBefore' /\ DeliveredInOrder'
  BY <1>1 DEF ItemWhileDispatching, QuietAfterClose, QueueInOrder, DeliveredBefore, DeliveredInOrder
<1>5. NoRecordMissed'
  <2> SUFFICES ASSUME NEW l \in listeners', OpsOf[l] = Ops, NEW n \in since'[l] + 1 .. records
               PROVE  n \in Got(l) \cup Ahead(l)
    BY <1>1 DEF NoRecordMissed, Got, Ahead
  <2>1. CASE l = nextID
    <3>1. since'[l] = records /\ records \in Nat
      BY <1>1, <2>1 DEF TypeOK
    <3> QED
      BY <3>1
  <2>2. CASE l # nextID
    BY <1>1, <2>2 DEF NoRecordMissed, TypeOK
  <2> QED
    BY <2>1, <2>2
<1> QED
  BY <1>3, <1>4, <1>5

\* Every step keeps the invariant.
LEMMA InvNext == TypeOK /\ DispatchInv /\ [Next]_vars => DispatchInv'
<1> SUFFICES ASSUME TypeOK, DispatchInv, [Next]_vars PROVE DispatchInv'
  OBVIOUS
<1>1. ASSUME NEW w \in Writers, Write(w) PROVE DispatchInv'
  BY <1>1, QuietStepKeepsInv
  DEF Write, DispatchInv, regVars, runVars, GoneIsGone, QuietAfterClose, ItemWhileDispatching
<1>2. ASSUME NEW w \in Writers, WriterSubmits(w) PROVE DispatchInv'
  <2>1. wpc[w] \in Ops /\ Submit(wpc[w], 1)
    BY <1>2 DEF WriterSubmits, TypeOK
  <2>2. UNCHANGED <<queue, records>> \/ Queued
    BY <2>1, SubmitQueues
  <2>3. UNCHANGED <<regVars, pc, item, targets, closing, delivered>>
    BY <1>2 DEF WriterSubmits, runVars
  <2>4. CASE UNCHANGED <<queue, records>>
    BY <2>3, <2>4, QuietStepKeepsInv
    DEF DispatchInv, regVars, GoneIsGone, QuietAfterClose, ItemWhileDispatching
  <2> QED
    BY <2>2, <2>3, <2>4, QueuedKeepsInv
<1>3. CASE OnChange
  BY <1>3, OnChangeKeepsInv
<1>4. ASSUME NEW l \in Listeners, Unsubscribe(l) PROVE DispatchInv'
  <2>1. GoneIsGone'
    BY <1>4 DEF Unsubscribe, runVars, DispatchInv, GoneIsGone
  <2>2. QuietAfterClose' /\ ItemWhileDispatching'
    BY <1>4 DEF Unsubscribe, runVars, DispatchInv, QuietAfterClose, ItemWhileDispatching
  <2> QED
    BY <1>4, <2>1, <2>2, QuietStepKeepsInv DEF Unsubscribe, runVars
<1>5. ASSUME NEW inside \in BOOLEAN, Close(inside) PROVE DispatchInv'
  <2>1. listeners' \subseteq listeners
    BY <1>5 DEF Close
  <2>2. GoneIsGone' /\ QuietAfterClose' /\ ItemWhileDispatching'
    BY <1>5 DEF Close, runVars, DispatchInv, GoneIsGone, QuietAfterClose, ItemWhileDispatching
  <2> QED
    BY <1>5, <2>1, <2>2, QuietStepKeepsInv DEF Close, runVars
<1>6. CASE CloseReturns \/ CloseGivesUp
  BY <1>6, QuietStepKeepsInv
  DEF CloseReturns, CloseGivesUp, DispatchInv, regVars, runVars, GoneIsGone, QuietAfterClose,
      ItemWhileDispatching
<1>7. CASE Exit
  BY <1>7, QuietStepKeepsInv
  DEF Exit, DispatchInv, regVars, GoneIsGone, QuietAfterClose, ItemWhileDispatching
<1>8. CASE Take
  BY <1>8, TakeKeepsInv
<1>9. CASE Recheck
  BY <1>9, RecheckKeepsInv
<1>10. CASE Enter
  BY <1>10, EnterKeepsInv
<1>11. CASE ListenerReturns
  BY <1>11, QuietStepKeepsInv
  DEF ListenerReturns, DispatchInv, regVars, GoneIsGone, QuietAfterClose, ItemWhileDispatching
<1>12. CASE Dispatched
  <2> USE DEF DispatchInv, regVars
  <2>1. /\ pc = "next" /\ pc' = "wait" /\ item' = NoItem /\ targets = {}
        /\ UNCHANGED <<regVars, queue, targets, closing, records, delivered>>
    BY <1>12 DEF Dispatched
  <2>2. records \in Nat /\ item'.n = 0 /\ item.n \in Nat
    BY <2>1 DEF TypeOK, NoItem, Record
  <2>3. \A i \in DOMAIN queue : queue[i].n \in Nat
    <3>1. \A i \in DOMAIN queue : queue[i] \in Record
      BY DEF TypeOK
    <3> QED
      BY <3>1 DEF Record
  <2>4. QueueInOrder'
    BY <2>1, <2>2, <2>3 DEF QueueInOrder
  <2>5. DeliveredBefore' /\ DeliveredInOrder' /\ GoneIsGone' /\ QuietAfterClose' /\ ItemWhileDispatching'
    BY <2>1 DEF DeliveredBefore, DeliveredInOrder, GoneIsGone, QuietAfterClose, ItemWhileDispatching
  <2>6. NoRecordMissed'
    BY <2>1 DEF NoRecordMissed, Got, Ahead
  <2> QED
    BY <2>4, <2>5, <2>6
<1>13. CASE ListenerWrites
  <2>1. item.depth + 1 \in Nat \ {0}
    BY DispatcherAssumption DEF TypeOK, Record, NoItem
  <2>2. UNCHANGED <<queue, records>> \/ Queued
    BY <1>13, <2>1, SubmitQueues DEF ListenerWrites
  <2>3. UNCHANGED <<regVars, pc, item, targets, closing, delivered>>
    BY <1>13 DEF ListenerWrites
  <2>4. CASE UNCHANGED <<queue, records>>
    BY <2>3, <2>4, QuietStepKeepsInv
    DEF DispatchInv, regVars, GoneIsGone, QuietAfterClose, ItemWhileDispatching
  <2> QED
    BY <2>2, <2>3, <2>4, QueuedKeepsInv
<1>14. CASE UNCHANGED vars
  BY <1>14, QuietStepKeepsInv
  DEF vars, DispatchInv, regVars, runVars, GoneIsGone, QuietAfterClose, ItemWhileDispatching
<1> QED
  BY <1>1, <1>2, <1>3, <1>4, <1>5, <1>6, <1>7, <1>8, <1>9, <1>10, <1>11, <1>12, <1>13, <1>14
  DEF Next, Goroutine

\* The inductive invariant of the dispatcher.
THEOREM DispatcherInvariant == Spec => []DispatchInv
<1>1. Init => TypeOK /\ DispatchInv
  BY TypeInit, InvInit
<1>2. TypeOK /\ DispatchInv /\ [Next]_vars => TypeOK' /\ DispatchInv'
  BY TypeNext, InvNext
<1> QED
  BY <1>1, <1>2, PTL DEF Spec

-----------------------------------------------------------------------------
(* The properties.                                                         *)

\* Listeners are called with each record at most once, in the order of the
\* queue.
THEOREM DeliveredInOrderTheorem == Spec => []DeliveredInOrder
<1>1. DispatchInv => DeliveredInOrder
  BY DEF DispatchInv
<1> QED
  BY <1>1, DispatcherInvariant, PTL

\* A listener that wants everything and stays registered misses no record.
THEOREM NoRecordMissedTheorem == Spec => []NoRecordMissed
<1>1. DispatchInv => NoRecordMissed
  BY DEF DispatchInv
<1> QED
  BY <1>1, DispatcherInvariant, PTL

\* Once Close has returned without giving up, nothing runs.
THEOREM QuietAfterCloseTheorem == Spec => []QuietAfterClose
<1>1. DispatchInv => QuietAfterClose
  BY DEF DispatchInv
<1> QED
  BY <1>1, DispatcherInvariant, PTL

\* A listener is not called once its unsubscribe has returned, unless the
\* goroutine had re-checked it before.
THEOREM SilentTheorem == Spec => SilentOnceUnsubscribed
<1>1. TypeOK /\ DispatchInv /\ [Next]_vars
        => [\A l \in gone \ overtaken : delivered'[l] = delivered[l]]_vars
  <2> SUFFICES ASSUME TypeOK, DispatchInv, Next, NEW l \in gone \ overtaken
               PROVE  delivered'[l] = delivered[l]
    OBVIOUS
  <2>1. CASE Enter
    <3>1. l # Min(targets)
      BY <2>1 DEF Enter, DispatchInv, GoneIsGone
    <3> QED
      BY <2>1, <3>1, EnterShape DEF TypeOK
  <2>2. CASE ~Enter
    BY <2>2 DEF Next, Goroutine, Write, WriterSubmits, OnChange, Unsubscribe, Close, CloseReturns,
       CloseGivesUp, Exit, Take, Recheck, ListenerReturns, Dispatched, ListenerWrites
  <2> QED
    BY <2>1, <2>2
<1> QED
  BY <1>1, DispatcherTypeCorrect, DispatcherInvariant, PTL DEF Spec, SilentOnceUnsubscribed

-----------------------------------------------------------------------------
(* The number of records that one mutation can lead to.                    *)

\* g is Chain up to n.
Prefix(n, g) ==
    /\ g \in [0 .. n -> Nat]
    /\ \A i \in 0 .. n : g[i] = IF i = 0 THEN 0 ELSE 1 + Fan * g[i - 1]

\* Fan is a natural number.
LEMMA FanType == Fan \in Nat
<1>1. Cardinality(Listeners) \in Nat
  BY DispatcherAssumption, FS_CardinalityType
<1> QED
  BY <1>1, DispatcherAssumption DEF Fan

\* Chain can be computed up to every n.
LEMMA PrefixExists == \A n \in Nat : \E g : Prefix(n, g)
<1> DEFINE Bad == {n \in Nat : ~(\E g : Prefix(n, g))}
<1> SUFFICES ASSUME Bad # {} PROVE FALSE
  OBVIOUS
<1>1. PICK n \in Bad : \A m \in Bad : n <= m
  BY LeastNat
<1>2. CASE n = 0
  <2>1. Prefix(0, [i \in 0 .. 0 |-> 0])
    BY DEF Prefix
  <2> QED
    BY <1>1, <1>2, <2>1
<1>3. CASE n # 0
  <2>1. n \in Nat /\ n - 1 \in Nat /\ n - 1 \notin Bad
    BY <1>1, <1>3
  <2>2. PICK g : Prefix(n - 1, g)
    BY <2>1
  <2>3. g[n - 1] \in Nat
    BY <2>1, <2>2 DEF Prefix
  <2>4. PICK v : v = 1 + Fan * g[n - 1] /\ v \in Nat
    BY <2>3, FanType
  <2> DEFINE h == [i \in 0 .. n |-> IF i = n THEN v ELSE g[i]]
  <2>5. h \in [0 .. n -> Nat]
    BY <2>1, <2>2, <2>4 DEF Prefix
  <2>6. ASSUME NEW i \in 0 .. n PROVE h[i] = IF i = 0 THEN 0 ELSE 1 + Fan * h[i - 1]
    <3>1. CASE i = n
      <4>1. h[i] = v /\ h[i - 1] = g[n - 1]
        BY <2>1, <3>1
      <4> QED
        BY <1>3, <2>4, <3>1, <4>1
    <3>2. CASE i # n
      <4>1. i \in 0 .. n - 1 /\ h[i] = g[i]
        BY <2>1, <3>2
      <4>2. i # 0 => h[i - 1] = g[i - 1]
        BY <2>1, <3>2
      <4> HIDE DEF h
      <4> QED
        BY <2>2, <4>1, <4>2 DEF Prefix
    <3> QED
      BY <3>1, <3>2
  <2>7. Prefix(n, h)
    BY <2>5, <2>6 DEF Prefix
  <2> QED
    BY <1>1, <2>7
<1> QED
  BY <1>2, <1>3

\* In one way only.
LEMMA PrefixesAgree ==
  ASSUME NEW n \in Nat, NEW m \in Nat, n <= m, NEW g, Prefix(n, g), NEW h, Prefix(m, h)
  PROVE  \A i \in 0 .. n : g[i] = h[i]
<1> DEFINE Bad == {i \in 0 .. n : g[i] # h[i]}
<1> SUFFICES ASSUME Bad # {} PROVE FALSE
  OBVIOUS
<1>0. Bad \in SUBSET Nat
  OBVIOUS
<1>1. PICK i \in Bad : \A j \in Bad : i <= j
  BY <1>0, LeastNat
<1>2. i \in 0 .. n /\ i \in 0 .. m /\ g[i] # h[i]
  BY <1>1
<1>3. CASE i = 0
  BY <1>2, <1>3 DEF Prefix
<1>4. CASE i # 0
  <2>1. i - 1 \in 0 .. n /\ i - 1 \notin Bad
    BY <1>1, <1>2, <1>4
  <2>2. g[i - 1] = h[i - 1]
    BY <2>1
  <2> HIDE DEF Bad
  <2> QED
    BY <1>2, <1>4, <2>2 DEF Prefix
<1> QED
  BY <1>3, <1>4

\* Chain satisfies its definition: nothing comes of no depth, and a record leads
\* to itself and to Fan times what a record one level deeper leads to.
LEMMA ChainEquation ==
  /\ Chain \in [Nat -> Nat] /\ Chain[0] = 0
  /\ \A d \in Nat \ {0} : Chain[d] = 1 + Fan * Chain[d - 1]
<1> DEFINE P(d) == CHOOSE g : Prefix(d, g)
           f == [d \in Nat |-> P(d)[d]]
<1>1. ASSUME NEW d \in Nat PROVE Prefix(d, P(d))
  BY PrefixExists
<1> HIDE DEF P
<1>2. f \in [Nat -> Nat]
  BY <1>1 DEF Prefix
<1>3. ASSUME NEW d \in Nat PROVE f[d] = IF d = 0 THEN 0 ELSE 1 + Fan * f[d - 1]
  <2>1. f[d] = IF d = 0 THEN 0 ELSE 1 + Fan * P(d)[d - 1]
    BY <1>1 DEF Prefix
  <2>2. d # 0 => P(d)[d - 1] = f[d - 1]
    <3> SUFFICES ASSUME d # 0 PROVE P(d)[d - 1] = f[d - 1]
      OBVIOUS
    <3>1. d - 1 \in Nat /\ d - 1 <= d /\ d - 1 \in 0 .. d - 1
      OBVIOUS
    <3>2. P(d - 1)[d - 1] = P(d)[d - 1]
      BY <1>1, <3>1, PrefixesAgree
    <3> QED
      BY <3>1, <3>2
  <2> QED
    BY <2>1, <2>2
<1> HIDE DEF f
<1>4. f = [d \in Nat |-> IF d = 0 THEN 0 ELSE 1 + Fan * f[d - 1]]
  BY <1>2, <1>3
<1>5. \E g : g = [d \in Nat |-> IF d = 0 THEN 0 ELSE 1 + Fan * g[d - 1]]
  BY <1>4
<1>6. Chain = [d \in Nat |-> IF d = 0 THEN 0 ELSE 1 + Fan * Chain[d - 1]]
  BY <1>5 DEF Chain
<1>7. \A d \in Nat : Chain[d] = IF d = 0 THEN 0 ELSE 1 + Fan * Chain[d - 1]
  BY <1>6
<1>8. ASSUME NEW d \in Nat PROVE Chain[d] \in Nat
  <2> DEFINE Bad == {n \in Nat : Chain[n] \notin Nat}
  <2>0. Bad \in SUBSET Nat
    OBVIOUS
  <2>1. CASE Bad = {}
    BY <2>1
  <2>2. CASE Bad # {}
    <3>1. PICK n \in Bad : \A m \in Bad : n <= m
      BY <2>0, <2>2, LeastNat
    <3>2. n # 0
      BY <1>7, <3>1
    <3>3. n \in Nat /\ n - 1 \in Nat /\ n - 1 \notin Bad
      BY <3>1, <3>2
    <3>4. Chain[n - 1] \in Nat
      BY <3>3
    <3>5. Fan * Chain[n - 1] \in Nat
      BY <3>4, FanType
    <3>6. Chain[n] \in Nat
      BY <1>7, <3>2, <3>3, <3>5
    <3> QED
      BY <3>1, <3>6
  <2> QED
    BY <2>1, <2>2
<1> QED
  BY <1>6, <1>7, <1>8

-----------------------------------------------------------------------------
(* What is still to come of the records and of the writers.                *)

\* A record in the queue may be followed by what Fan mutations lead to, one
\* level deeper.
OwedBy(r) == Fan * Chain[MaxDepth - r.depth]

\* t is what the queue owes: s[i] is the part of the records after the i-th.
QueueOwes(t) ==
    \E s \in [0 .. Len(queue) -> Nat] :
        /\ s[0] = t /\ s[Len(queue)] = 0
        /\ \A i \in 1 .. Len(queue) : s[i - 1] = s[i] + OwedBy(queue[i])

\* The mutations to come by the listeners of the record that is dispatched.
Runs == Cardinality(targets) * MaxOwn + (IF pc = "running" THEN MaxOwn - own ELSE 0)
ItemOwes == Runs * Chain[MaxDepth - item.depth]

\* The mutations to come by writers, and those not yet submitted.
Pending == {w \in Writers : wpc[w] # "idle"}
Unsubmitted == MaxWrites - writes + Cardinality(Pending)
WritersOwe == Unsubmitted * Chain[MaxDepth]

\* The counters of mutations are within their bounds.
Counting == own <= MaxOwn /\ writes <= MaxWrites /\ IsFiniteSet(Pending)

\* Records there are, and records still to come, stay within the bound.
StormInv ==
    /\ Counting
    /\ \E t \in Nat : /\ QueueOwes(t)
                      /\ records + t + ItemOwes + WritersOwe <= MaxWrites * Chain[MaxDepth]

\* Multiplication by a natural number keeps the order.
LEMMA TimesGrows ==
  ASSUME NEW a \in Nat, NEW b \in Nat, NEW k \in Nat, a <= b
  PROVE  a * k \in Nat /\ b * k \in Nat /\ a * k <= b * k
<1>1. b - a \in Nat /\ (b - a) * k \in Nat
  OBVIOUS
<1>2. b * k = a * k + (b - a) * k
  OBVIOUS
<1>3. a * k \in Nat /\ b * k \in Nat
  OBVIOUS
<1> QED
  BY <1>1, <1>2, <1>3

\* And one more is k more.
LEMMA TimesNext ==
  ASSUME NEW a \in Nat, NEW k \in Nat
  PROVE  (a + 1) * k = a * k + k /\ a * k \in Nat
OBVIOUS

\* A record leads to itself and to what it owes.
LEMMA OwedByType ==
  ASSUME NEW r \in Record
  PROVE  /\ OwedBy(r) \in Nat /\ MaxDepth - r.depth \in Nat
         /\ Chain[MaxDepth - r.depth + 1] = 1 + OwedBy(r)
<1>1. MaxDepth - r.depth \in Nat
  BY DispatcherAssumption DEF Record
<1>2. PICK d \in Nat : d = MaxDepth - r.depth
  BY <1>1
<1>3. Chain[d] \in Nat /\ Fan * Chain[d] \in Nat
  BY FanType, ChainEquation
<1>4. Chain[d + 1] = 1 + Fan * Chain[d]
  <2>1. d + 1 \in Nat \ {0} /\ (d + 1) - 1 = d
    BY <1>2
  <2> QED
    BY <2>1, ChainEquation
<1> QED
  BY <1>2, <1>3, <1>4 DEF OwedBy

\* Mutations to come are counted by natural numbers.
LEMMA OwedTypes ==
  ASSUME TypeOK, Counting
  PROVE  /\ Cardinality(targets) \in Nat /\ Cardinality(targets) <= Cardinality(Listeners)
         /\ Cardinality(Listeners) \in Nat /\ IsFiniteSet(targets)
         /\ Runs \in Nat /\ Unsubmitted \in Nat
         /\ Chain[MaxDepth - item.depth] \in Nat /\ Chain[MaxDepth] \in Nat
         /\ ItemOwes \in Nat /\ WritersOwe \in Nat
<1>1. /\ IsFiniteSet(targets) /\ Cardinality(targets) \in Nat /\ Cardinality(Listeners) \in Nat
      /\ Cardinality(targets) <= Cardinality(Listeners)
  <2>1. targets \in SUBSET Listeners /\ IsFiniteSet(Listeners)
    BY DispatcherAssumption DEF TypeOK
  <2> QED
    BY <2>1, FS_Subset, FS_CardinalityType
<1>2. Runs \in Nat
  <2>1. Cardinality(targets) * MaxOwn \in Nat
    BY <1>1, DispatcherAssumption
  <2>2. (IF pc = "running" THEN MaxOwn - own ELSE 0) \in Nat
    BY DispatcherAssumption DEF TypeOK, Counting
  <2> QED
    BY <2>1, <2>2 DEF Runs
<1>3. Unsubmitted \in Nat
  <2>1. Cardinality(Pending) \in Nat
    BY FS_CardinalityType DEF Counting
  <2> QED
    BY <2>1, DispatcherAssumption DEF Unsubmitted, TypeOK, Counting
<1>4. Chain[MaxDepth - item.depth] \in Nat /\ Chain[MaxDepth] \in Nat
  <2>1. MaxDepth - item.depth \in Nat /\ MaxDepth \in Nat
    BY DispatcherAssumption DEF TypeOK, Record, NoItem
  <2> QED
    BY <2>1, ChainEquation
<1>5. ItemOwes \in Nat /\ WritersOwe \in Nat
  BY <1>2, <1>3, <1>4 DEF ItemOwes, WritersOwe
<1> QED
  BY <1>1, <1>2, <1>3, <1>4, <1>5

\* What is owed is a natural number, before
OwedNat == ItemOwes \in Nat /\ WritersOwe \in Nat
LEMMA OwedBefore == TypeOK /\ Counting => OwedNat
BY OwedTypes DEF OwedNat
\* and after a step.
LEMMA OwedAfter == TypeOK' /\ Counting' => OwedNat'
BY OwedBefore, PTL

\* The bound is a natural number.
LEMMA BoundType == MaxWrites * Chain[MaxDepth] \in Nat /\ Chain[MaxDepth] \in Nat
BY DispatcherAssumption, ChainEquation

\* What a record that joins the queue owes is added,
LEMMA QueueOwesMore ==
  ASSUME TypeOK, NEW r \in Record, queue' = Append(queue, r), NEW t \in Nat, QueueOwes(t),
         NEW v \in Nat, v = OwedBy(r)
  PROVE  QueueOwes(t + v)'
<1>1. PICK s \in [0 .. Len(queue) -> Nat] :
          /\ s[0] = t /\ s[Len(queue)] = 0
          /\ \A i \in 1 .. Len(queue) : s[i - 1] = s[i] + OwedBy(queue[i])
  BY DEF QueueOwes
<1>3. /\ Len(queue) \in Nat /\ Len(queue') = Len(queue) + 1
      /\ \A i \in 1 .. Len(queue) : queue'[i] = queue[i]
      /\ queue'[Len(queue) + 1] = r
  BY AppendShape DEF TypeOK
<1>4. PICK n \in Nat : n = Len(queue)
  BY <1>3
<1> DEFINE u == [i \in 0 .. n + 1 |-> IF i = n + 1 THEN 0 ELSE s[i] + v]
<1>5. u \in [0 .. n + 1 -> Nat] /\ u[0] = t + v /\ u[n + 1] = 0
  <2>1. \A i \in 0 .. n : s[i] \in Nat /\ s[i] + v \in Nat
    BY <1>4
  <2>2. u \in [0 .. n + 1 -> Nat]
    BY <2>1
  <2>3. s[0] = t /\ 0 \in 0 .. n + 1 /\ 0 # n + 1 /\ n + 1 \in 0 .. n + 1
    BY <1>1
  <2> QED
    BY <2>2, <2>3
<1>6. ASSUME NEW i \in 1 .. n + 1 PROVE u[i - 1] = u[i] + OwedBy(queue'[i])
  <2>1. CASE i = n + 1
    <3>1. u[i - 1] = v /\ u[i] = 0 /\ queue'[i] = r
      BY <1>1, <1>3, <1>4, <2>1
    <3> QED
      BY <3>1
  <2>2. CASE i # n + 1
    <3>1. i \in 1 .. n /\ u[i - 1] = s[i - 1] + v /\ u[i] = s[i] + v /\ queue'[i] = queue[i]
      BY <1>3, <1>4, <2>2
    <3>2. s[i - 1] = s[i] + OwedBy(queue[i]) /\ s[i] \in Nat /\ OwedBy(queue[i]) \in Nat
      <4>1. queue[i] \in Record
        BY <1>4, <3>1 DEF TypeOK
      <4>2. OwedBy(queue[i]) \in Nat
        BY <4>1, OwedByType
      <4>3. s[i] \in Nat
        BY <1>4, <3>1
      <4> QED
        BY <1>1, <1>4, <3>1, <4>2, <4>3
    <3> HIDE DEF u
    <3> QED
      BY <3>1, <3>2
  <2> QED
    BY <2>1, <2>2
<1> HIDE DEF u
<1>7. \E s2 \in [0 .. Len(queue') -> Nat] :
        /\ s2[0] = t + v /\ s2[Len(queue')] = 0
        /\ \A i \in 1 .. Len(queue') : s2[i - 1] = s2[i] + OwedBy(queue'[i])
  BY <1>3, <1>4, <1>5, <1>6
<1> QED
  BY <1>7 DEF QueueOwes, OwedBy

\* and that of the one that is taken goes.
LEMMA QueueOwesLess ==
  ASSUME TypeOK, queue # << >>, queue' = Tail(queue), NEW t \in Nat, QueueOwes(t)
  PROVE  \E u \in Nat : QueueOwes(u)' /\ t = u + OwedBy(Head(queue))
<1>1. PICK s \in [0 .. Len(queue) -> Nat] :
          /\ s[0] = t /\ s[Len(queue)] = 0
          /\ \A i \in 1 .. Len(queue) : s[i - 1] = s[i] + OwedBy(queue[i])
  BY DEF QueueOwes
<1>2. /\ Len(queue) \in Nat \ {0} /\ Len(queue') = Len(queue) - 1
      /\ \A i \in 1 .. Len(queue) - 1 : queue'[i] = queue[i + 1]
      /\ Head(queue) = queue[1]
  BY TailShape DEF TypeOK
<1>3. PICK n \in Nat \ {0} : n = Len(queue)
  BY <1>2
<1> DEFINE u == [i \in 0 .. n - 1 |-> s[i + 1]]
<1>4. u \in [0 .. n - 1 -> Nat] /\ u[n - 1] = 0 /\ u[0] = s[1] /\ s[1] \in Nat
  BY <1>1, <1>3
<1>5. ASSUME NEW i \in 1 .. n - 1 PROVE u[i - 1] = u[i] + OwedBy(queue'[i])
  <2>1. u[i - 1] = s[i] /\ u[i] = s[i + 1] /\ queue'[i] = queue[i + 1]
    BY <1>2, <1>3
  <2>2. i + 1 \in 1 .. Len(queue) /\ (i + 1) - 1 = i
    BY <1>3
  <2>3. s[i] = s[i + 1] + OwedBy(queue[i + 1])
    BY <1>1, <2>2
  <2> HIDE DEF u
  <2> QED
    BY <2>1, <2>3
<1> HIDE DEF u
<1>6. \E s2 \in [0 .. Len(queue') -> Nat] :
        /\ s2[0] = s[1] /\ s2[Len(queue')] = 0
        /\ \A i \in 1 .. Len(queue') : s2[i - 1] = s2[i] + OwedBy(queue'[i])
  <2>1. Len(queue') = n - 1
    BY <1>2, <1>3
  <2>2. \A i \in 1 .. n - 1 : u[i - 1] = u[i] + OwedBy(queue'[i])
    BY <1>5
  <2> QED
    BY <1>4, <2>1, <2>2, Zenon
<1>7. QueueOwes(s[1])'
  BY <1>6 DEF QueueOwes, OwedBy
<1>8. t = s[1] + OwedBy(Head(queue))
  BY <1>1, <1>2
<1> QED
  BY <1>4, <1>7, <1>8

\* At the start only the writers owe something.
LEMMA StormInit == Init => StormInv
<1> SUFFICES ASSUME Init PROVE StormInv
  OBVIOUS
<1>1. Pending = {} /\ targets = {} /\ own = 0 /\ writes = 0 /\ records = 0 /\ pc = "none"
  BY DEF Init, Pending
<1>2. IsFiniteSet(Pending) /\ Cardinality(Pending) = 0 /\ Cardinality(targets) = 0
  BY <1>1, FS_EmptySet
<1>3. QueueOwes(0)
  <2>1. Len(queue) = 0
    BY DEF Init
  <2>2. PICK s : s = [i \in 0 .. 0 |-> 0]
    OBVIOUS
  <2>3. s \in [0 .. 0 -> Nat] /\ s[0] = 0
    BY <2>2
  <2> QED
    BY <2>1, <2>3 DEF QueueOwes
<1>4. Chain[MaxDepth] \in Nat /\ MaxWrites * Chain[MaxDepth] \in Nat
  BY BoundType
<1>5. Runs = 0
  BY <1>1, <1>2, DispatcherAssumption DEF Runs
<1>6. ItemOwes = 0
  <2>1. MaxDepth - item.depth \in Nat
    BY DispatcherAssumption DEF Init, NoItem
  <2>2. Chain[MaxDepth - item.depth] \in Nat
    BY <2>1, ChainEquation
  <2> QED
    BY <1>5, <2>2 DEF ItemOwes
<1>7. WritersOwe = MaxWrites * Chain[MaxDepth]
  <2>1. Unsubmitted = MaxWrites
    BY <1>1, <1>2, DispatcherAssumption DEF Unsubmitted
  <2> QED
    BY <2>1 DEF WritersOwe
<1>8. records + 0 + ItemOwes + WritersOwe <= MaxWrites * Chain[MaxDepth]
  BY <1>1, <1>4, <1>6, <1>7
<1> QED
  BY <1>1, <1>2, <1>3, <1>8, DispatcherAssumption DEF StormInv, Counting

\* Steps that queue nothing, and after which no more is owed.
LEMMA StormStays ==
  ASSUME TypeOK, TypeOK', StormInv, UNCHANGED <<queue, records>>,
         Counting',
         ItemOwes' <= ItemOwes, WritersOwe' <= WritersOwe
  PROVE  StormInv'
<1>1. PICK t \in Nat : /\ QueueOwes(t)
                       /\ records + t + ItemOwes + WritersOwe <= MaxWrites * Chain[MaxDepth]
  BY DEF StormInv
<1>2. QueueOwes(t)'
  BY <1>1 DEF QueueOwes, OwedBy
<1>3. ItemOwes \in Nat /\ WritersOwe \in Nat /\ ItemOwes' \in Nat /\ WritersOwe' \in Nat
  BY OwedBefore, OwedAfter DEF StormInv, OwedNat
<1>4. MaxWrites * Chain[MaxDepth] \in Nat /\ records \in Nat
  BY BoundType DEF TypeOK
<1>5. records' + t + ItemOwes' + WritersOwe' <= MaxWrites * Chain[MaxDepth]
  BY <1>1, <1>3, <1>4
<1> QED
  BY <1>2, <1>5 DEF StormInv

\* submit appends a record of its depth, or does nothing.
LEMMA SubmitShape ==
  ASSUME TypeOK, NEW op \in Ops, NEW depth \in Nat \ {0}, Submit(op, depth)
  PROVE  \/ UNCHANGED <<queue, records>>
         \/ \E r \in Record : /\ r.depth = depth /\ depth <= MaxDepth
                             /\ queue' = Append(queue, r) /\ records' = records + 1
<1>1. CASE depth > MaxDepth \/ closed
  BY <1>1 DEF Submit
<1>2. CASE ~(depth > MaxDepth \/ closed)
  <2>1. PICK r : r = [n |-> records + 1, op |-> op, depth |-> depth]
    OBVIOUS
  <2>2. r \in Record /\ r.depth = depth /\ depth <= MaxDepth
    BY <1>2, <2>1, DispatcherAssumption DEF TypeOK, Record
  <2>3. queue' = Append(queue, r) /\ records' = records + 1
    BY <1>2, <2>1 DEF Submit
  <2> QED
    BY <2>2, <2>3
<1> QED
  BY <1>1, <1>2

\* A record is queued, and paid for by the mutation it comes from.
LEMMA StormSubmits ==
  ASSUME TypeOK, TypeOK', StormInv,
         NEW r \in Record, queue' = Append(queue, r), records' = records + 1,
         Counting',
         ItemOwes' + WritersOwe' + Chain[MaxDepth - r.depth + 1] <= ItemOwes + WritersOwe
  PROVE  StormInv'
<1>1. PICK t \in Nat : /\ QueueOwes(t)
                       /\ records + t + ItemOwes + WritersOwe <= MaxWrites * Chain[MaxDepth]
  BY DEF StormInv
<1>2. PICK v \in Nat : v = OwedBy(r) /\ Chain[MaxDepth - r.depth + 1] = 1 + v
  BY OwedByType
<1>3. QueueOwes(t + v)'
  BY <1>1, <1>2, QueueOwesMore
<1>4. ItemOwes \in Nat /\ WritersOwe \in Nat /\ ItemOwes' \in Nat /\ WritersOwe' \in Nat
  BY OwedBefore, OwedAfter DEF StormInv, OwedNat
<1>5. MaxWrites * Chain[MaxDepth] \in Nat /\ records \in Nat
  BY BoundType DEF TypeOK
<1>6. records' + (t + v) + ItemOwes' + WritersOwe' <= MaxWrites * Chain[MaxDepth]
  <2>1. PICK b \in Nat : b = MaxWrites * Chain[MaxDepth]
    BY <1>5
  <2>2. ItemOwes' + WritersOwe' + (1 + v) <= ItemOwes + WritersOwe
    BY <1>2
  <2>3. records + t + ItemOwes + WritersOwe <= b /\ t \in Nat /\ v \in Nat /\ b \in Nat
    BY <1>1, <1>2, <2>1
  <2>4. PICK n \in Nat, i \in Nat, w \in Nat, j \in Nat, z \in Nat :
            n = records /\ i = ItemOwes /\ w = WritersOwe /\ j = ItemOwes' /\ z = WritersOwe'
    BY <1>4, <1>5
  <2>5. n + t + i + w <= b /\ j + z + (1 + v) <= i + w
    BY <2>2, <2>3, <2>4
  <2>6. (n + 1) + (t + v) + j + z <= b
    BY <2>5
  <2>7. records' + (t + v) + ItemOwes' + WritersOwe' <= b
    BY <2>4, <2>6
  <2> QED
    BY <2>1, <2>7
<1>7. t + v \in Nat
  BY <1>2
<1> QED
  BY <1>3, <1>6, <1>7 DEF StormInv

\* A mutation of a writer is counted when it begins, and submitted once.
LEMMA WritersKeepStorm ==
  ASSUME TypeOK, TypeOK', StormInv, NEW w \in Writers, Write(w) \/ WriterSubmits(w)
  PROVE  StormInv'
<1>1. UNCHANGED <<own, targets, pc, item>> /\ own <= MaxOwn /\ IsFiniteSet(Pending)
  BY DEF Write, WriterSubmits, runVars, StormInv, Counting
<1>2. ItemOwes' = ItemOwes
  BY <1>1 DEF ItemOwes, Runs
<1>3. Cardinality(Pending) \in Nat /\ Unsubmitted \in Nat /\ Chain[MaxDepth] \in Nat
      /\ ItemOwes \in Nat /\ WritersOwe \in Nat
  BY <1>1, FS_CardinalityType, OwedTypes DEF StormInv
<1>4. CASE Write(w)
  <2>1. /\ wpc[w] = "idle" /\ writes < MaxWrites /\ writes' = writes + 1
        /\ UNCHANGED <<queue, records>>
    BY <1>4 DEF Write
  <2>2. Pending' = Pending \/ Pending' = Pending \cup {w}
    BY <1>4 DEF Write, Pending, TypeOK
  <2>3. IsFiniteSet(Pending') /\ Cardinality(Pending') \in Nat
        /\ Cardinality(Pending') <= Cardinality(Pending) + 1
    <3>1. CASE Pending' = Pending
      BY <1>1, <1>3, <3>1
    <3>2. CASE Pending' = Pending \cup {w}
      <4>1. IsFiniteSet(Pending \cup {w}) /\ w \notin Pending
        BY <1>1, <2>1, FS_AddElement DEF Pending
      <4>2. Cardinality(Pending \cup {w}) = Cardinality(Pending) + 1
        BY <1>1, <4>1, FS_AddElement
      <4> QED
        BY <1>3, <3>2, <4>1, <4>2
    <3> QED
      BY <2>2, <3>1, <3>2
  <2>4. writes' <= MaxWrites /\ writes' \in Nat
    BY <2>1, DispatcherAssumption DEF TypeOK
  <2>5. Unsubmitted' \in Nat /\ Unsubmitted' <= Unsubmitted
    BY <1>3, <2>1, <2>3, <2>4, DispatcherAssumption DEF Unsubmitted, TypeOK
  <2>6. WritersOwe' <= WritersOwe
    BY <1>3, <2>5, TimesGrows DEF WritersOwe
  <2> QED
    BY <1>1, <1>2, <1>3, <2>1, <2>3, <2>4, <2>6, StormStays DEF Counting
<1>5. CASE WriterSubmits(w)
  <2>1. wpc[w] \in Ops /\ wpc[w] # "idle" /\ Submit(wpc[w], 1) /\ writes' = writes
    BY <1>5 DEF WriterSubmits, TypeOK
  <2>2. w \in Pending /\ Pending' = Pending \ {w}
    BY <1>5 DEF WriterSubmits, Pending, TypeOK
  <2>3. IsFiniteSet(Pending') /\ Cardinality(Pending') = Cardinality(Pending) - 1
        /\ Cardinality(Pending') \in Nat
    <3>1. IsFiniteSet(Pending \ {w}) /\ Cardinality(Pending \ {w}) = Cardinality(Pending) - 1
      BY <1>1, <2>2, FS_RemoveElement
    <3>2. Cardinality(Pending \ {w}) \in Nat
      BY <3>1, FS_CardinalityType
    <3> QED
      BY <2>2, <3>1, <3>2
  <2>4. writes' <= MaxWrites
    BY <2>1 DEF StormInv, Counting
  <2>5. Unsubmitted' \in Nat /\ Unsubmitted = Unsubmitted' + 1
    BY <1>3, <2>1, <2>3, <2>4, DispatcherAssumption DEF Unsubmitted, TypeOK
  <2>6. WritersOwe = WritersOwe' + Chain[MaxDepth] /\ WritersOwe' \in Nat
    BY <1>3, <2>5, TimesNext DEF WritersOwe
  <2>7. CASE UNCHANGED <<queue, records>>
    <3>1. WritersOwe' <= WritersOwe
      BY <1>3, <2>6
    <3> QED
      BY <1>1, <1>2, <1>3, <2>3, <2>4, <2>7, <3>1, StormStays DEF Counting
  <2>8. CASE \E r \in Record : /\ r.depth = 1
                              /\ queue' = Append(queue, r) /\ records' = records + 1
    <3>1. PICK r \in Record : r.depth = 1 /\ queue' = Append(queue, r) /\ records' = records + 1
      BY <2>8
    <3>2. MaxDepth - r.depth + 1 = MaxDepth
      BY <3>1, DispatcherAssumption
    <3>3. ItemOwes' + WritersOwe' + Chain[MaxDepth - r.depth + 1] <= ItemOwes + WritersOwe
      BY <1>2, <1>3, <2>6, <3>2
    <3> QED
      BY <1>1, <2>3, <2>4, <3>1, <3>3, StormSubmits DEF Counting
  <2> QED
    BY <2>1, <2>7, <2>8, SubmitShape
<1> QED
  BY <1>4, <1>5

\* A mutation of a listener is paid for by what its record owes.
LEMMA ListenerKeepsStorm ==
  ASSUME TypeOK, TypeOK', ItemWhileDispatching, StormInv, ListenerWrites
  PROVE  StormInv'
<1>1. /\ pc = "running" /\ own < MaxOwn /\ own' = own + 1
      /\ UNCHANGED <<pc, item, targets, wpc, writes>>
  BY DEF ListenerWrites
<1>2. Counting /\ Counting'
  BY <1>1, DispatcherAssumption DEF StormInv, Counting, Pending, TypeOK
<1>3. WritersOwe' = WritersOwe
  BY <1>1 DEF WritersOwe, Unsubmitted, Pending
<1>4. item \in Record /\ item.depth + 1 \in Nat \ {0}
  BY <1>1 DEF ItemWhileDispatching, Record
<1>5. PICK k \in Nat : k = Chain[MaxDepth - item.depth]
  BY <1>2, OwedTypes
<1>6. ItemOwes = ItemOwes' + k /\ ItemOwes' \in Nat /\ WritersOwe \in Nat
  <2>1. PICK m \in Nat : m = Cardinality(targets) * MaxOwn
    BY <1>2, OwedTypes, DispatcherAssumption
  <2>2. Runs = Runs' + 1 /\ Runs' \in Nat
    BY <1>1, <2>1, DispatcherAssumption DEF Runs, TypeOK
  <2>3. ItemOwes = Runs * k /\ ItemOwes' = Runs' * k
    BY <1>1, <1>5 DEF ItemOwes
  <2>4. WritersOwe \in Nat
    BY <1>2, OwedTypes
  <2> QED
    BY <1>5, <2>2, <2>3, <2>4, TimesNext
<1>7. CASE UNCHANGED <<queue, records>>
  <2>1. ItemOwes' <= ItemOwes /\ WritersOwe' <= WritersOwe
    BY <1>3, <1>5, <1>6
  <2> QED
    BY <1>2, <1>7, <2>1, StormStays
<1>8. ASSUME NEW r \in Record, r.depth = item.depth + 1,
             queue' = Append(queue, r), records' = records + 1
      PROVE  StormInv'
  <2>1. MaxDepth - r.depth + 1 = MaxDepth - item.depth
    BY <1>4, <1>8, DispatcherAssumption DEF Record
  <2>2. ItemOwes' + WritersOwe' + Chain[MaxDepth - r.depth + 1] <= ItemOwes + WritersOwe
    BY <1>3, <1>5, <1>6, <2>1
  <2> QED
    BY <1>2, <1>8, <2>2, StormSubmits
<1>9. UNCHANGED <<queue, records>> \/ \E op \in Ops : Submit(op, item.depth + 1)
  BY DEF ListenerWrites
<1> QED
  BY <1>4, <1>7, <1>8, <1>9, SubmitShape

\* A record that is taken goes from the queue to its listeners.
LEMMA TakeKeepsStorm ==
  ASSUME TypeOK, TypeOK', StormInv, Take
  PROVE  StormInv'
<1>1. /\ queue # << >> /\ queue' = Tail(queue) /\ item' = Head(queue)
      /\ pc' = "next" /\ UNCHANGED <<own, wpc, writes, records>>
  BY DEF Take
<1>2. Counting /\ Counting'
  BY <1>1 DEF StormInv, Counting, Pending
<1>3. WritersOwe' = WritersOwe /\ WritersOwe \in Nat /\ ItemOwes \in Nat
  BY <1>1, <1>2, OwedTypes DEF WritersOwe, Unsubmitted, Pending
<1>4. PICK r \in Record : r = Head(queue)
  BY <1>1, TailShape
<1>5. ItemOwes' \in Nat /\ ItemOwes' <= OwedBy(r)
  <2>1. /\ Cardinality(targets') \in Nat /\ Cardinality(Listeners) \in Nat
        /\ Cardinality(targets') <= Cardinality(Listeners)
    <3>1. targets' \in SUBSET Listeners /\ IsFiniteSet(Listeners)
      BY DispatcherAssumption DEF TypeOK
    <3> QED
      BY <3>1, FS_Subset, FS_CardinalityType
  <2>2. Runs' = Cardinality(targets') * MaxOwn
    BY <1>1, <2>1, DispatcherAssumption DEF Runs
  <2>3. Runs' \in Nat /\ Runs' <= Fan
    <3>1. Fan = Cardinality(Listeners) * MaxOwn
      BY <2>1, DispatcherAssumption DEF Fan
    <3> QED
      BY <2>1, <2>2, <3>1, TimesGrows, DispatcherAssumption
  <2>4. PICK k \in Nat : k = Chain[MaxDepth - r.depth]
    BY OwedByType, ChainEquation
  <2>5. ItemOwes' = Runs' * k /\ OwedBy(r) = Fan * k
    BY <1>1, <1>4, <2>4 DEF ItemOwes, OwedBy
  <2> QED
    BY <2>3, <2>4, <2>5, FanType, TimesGrows
<1>6. PICK t \in Nat : /\ QueueOwes(t)
                       /\ records + t + ItemOwes + WritersOwe <= MaxWrites * Chain[MaxDepth]
  BY DEF StormInv
<1>7. PICK u \in Nat : QueueOwes(u)' /\ t = u + OwedBy(r)
  BY <1>1, <1>4, <1>6, QueueOwesLess
<1>8. records' + u + ItemOwes' + WritersOwe' <= MaxWrites * Chain[MaxDepth]
  <2>1. PICK b \in Nat : b = MaxWrites * Chain[MaxDepth]
    BY BoundType
  <2>2. records + t + ItemOwes + WritersOwe <= b
    BY <1>6, <2>1
  <2>3. PICK v \in Nat : v = OwedBy(r)
    BY OwedByType
  <2>4. /\ records \in Nat /\ u \in Nat /\ t = u + v /\ ItemOwes' <= v
        /\ v \in Nat /\ b \in Nat
    BY <1>5, <1>7, <2>1, <2>3 DEF TypeOK
  <2>5. PICK n \in Nat, i \in Nat, j \in Nat, w \in Nat :
            n = records /\ i = ItemOwes /\ j = ItemOwes' /\ w = WritersOwe
    BY <1>3, <1>5, <2>4
  <2>6. n + t + i + w <= b /\ t = u + v /\ j <= v /\ u \in Nat /\ v \in Nat /\ b \in Nat
    BY <2>2, <2>4, <2>5
  <2>7. n + u + j + w <= b
    BY <2>6
  <2>8. records' + u + ItemOwes' + WritersOwe' <= b
    BY <1>1, <1>3, <2>5, <2>7
  <2> QED
    BY <2>1, <2>8
<1> QED
  BY <1>2, <1>7, <1>8 DEF StormInv

\* Calling the listeners of a record adds nothing to what it owes.
LEMMA DispatchKeepsStorm ==
  ASSUME TypeOK, TypeOK', ItemWhileDispatching, StormInv,
         Recheck \/ Enter \/ ListenerReturns \/ Dispatched
  PROVE  StormInv'
<1>1. UNCHANGED <<queue, records, wpc, writes>> /\ own' \in {own, 0}
  BY DEF Recheck, Enter, ListenerReturns, Dispatched
<1>2. Counting /\ Counting'
  BY <1>1, DispatcherAssumption DEF StormInv, Counting, Pending
<1>3. WritersOwe' <= WritersOwe
  <2>1. WritersOwe \in Nat /\ WritersOwe' = WritersOwe
    BY <1>1, <1>2, OwedTypes DEF WritersOwe, Unsubmitted, Pending
  <2> QED
    BY <2>1
<1>4. PICK n \in Nat : n = Cardinality(targets) /\ IsFiniteSet(targets)
  BY <1>2, OwedTypes
<1>5. PICK k \in Nat : k = Chain[MaxDepth - item.depth]
  BY <1>2, OwedTypes
<1>6. Runs \in Nat /\ ItemOwes = Runs * k /\ ItemOwes \in Nat
  BY <1>2, <1>5, OwedTypes DEF ItemOwes
<1>7. CASE Dispatched
  <2>1. targets' = {} /\ pc' = "wait" /\ item' = NoItem
    BY <1>7 DEF Dispatched
  <2>2. Runs' = 0
    BY <2>1, FS_EmptySet, DispatcherAssumption DEF Runs
  <2>3. Chain[MaxDepth - item'.depth] \in Nat
    <3>1. MaxDepth - item'.depth \in Nat
      BY <2>1, DispatcherAssumption DEF NoItem
    <3> QED
      BY <3>1, ChainEquation
  <2>4. ItemOwes' = 0
    BY <2>2, <2>3 DEF ItemOwes
  <2> QED
    BY <1>1, <1>2, <1>3, <1>6, <2>4, StormStays
<1>8. CASE Recheck \/ Enter \/ ListenerReturns
  <2>1. item' = item
    BY <1>8 DEF Recheck, Enter, ListenerReturns
  <2>2. Runs' \in Nat /\ Runs' <= Runs
    <3>1. CASE Recheck
      <4>1. targets' \in SUBSET targets /\ pc = "next" /\ pc' # "running"
        BY <3>1 DEF Recheck
      <4>2. Cardinality(targets') \in Nat /\ Cardinality(targets') <= n
        BY <1>4, <4>1, FS_Subset, FS_CardinalityType
      <4>3. Runs = n * MaxOwn /\ Runs' = Cardinality(targets') * MaxOwn
        BY <1>4, <4>1, <4>2, DispatcherAssumption DEF Runs
      <4> QED
        BY <1>4, <4>2, <4>3, TimesGrows, DispatcherAssumption
    <3>2. CASE Enter
      <4>1. targets # {} /\ pc = "enter" /\ pc' = "running" /\ own' = 0
        BY <3>2 DEF Enter, ItemWhileDispatching
      <4>2. Min(targets) \in targets /\ targets' = targets \ {Min(targets)}
        BY <3>2, <4>1, FirstTarget DEF Enter, TypeOK
      <4>3. Cardinality(targets') = n - 1 /\ Cardinality(targets') \in Nat
        BY <1>4, <4>2, FS_RemoveElement, FS_CardinalityType
      <4>4. PICK m \in Nat : m = n - 1 /\ n = m + 1
        BY <1>4, <4>3
      <4>5. Runs = (m + 1) * MaxOwn
        BY <1>4, <4>1, <4>4, DispatcherAssumption DEF Runs
      <4>6. Runs' = m * MaxOwn + MaxOwn
        BY <4>1, <4>3, <4>4, DispatcherAssumption DEF Runs
      <4> QED
        BY <1>6, <4>4, <4>5, <4>6, TimesNext, DispatcherAssumption
    <3>3. CASE ListenerReturns
      <4>1. pc = "running" /\ pc' = "next" /\ targets' = targets
        BY <3>3 DEF ListenerReturns
      <4>2. PICK m \in Nat : m = n * MaxOwn
        BY <1>4, DispatcherAssumption
      <4>3. Runs = m + (MaxOwn - own) /\ Runs' = m
        BY <1>4, <4>1, <4>2, DispatcherAssumption DEF Runs
      <4> QED
        BY <1>2, <4>2, <4>3, DispatcherAssumption DEF Counting, TypeOK
    <3> QED
      BY <1>8, <3>1, <3>2, <3>3
  <2>3. ItemOwes' = Runs' * k
    BY <1>5, <2>1 DEF ItemOwes
  <2>4. ItemOwes' <= ItemOwes
    BY <1>5, <1>6, <2>2, <2>3, TimesGrows
  <2> QED
    BY <1>1, <1>2, <1>3, <2>4, StormStays
<1> QED
  BY <1>7, <1>8

\* Every step keeps the bound.
LEMMA StormNext ==
  ASSUME TypeOK, TypeOK', ItemWhileDispatching, StormInv, [Next]_vars
  PROVE  StormInv'
<1>1. ASSUME \/ OnChange \/ CloseReturns \/ CloseGivesUp \/ Exit \/ UNCHANGED vars
             \/ \E l \in Listeners : Unsubscribe(l)
             \/ \E inside \in BOOLEAN : Close(inside)
      PROVE  StormInv'
  <2>1. UNCHANGED <<queue, records, wpc, writes, own, targets, item>>
    BY <1>1 DEF OnChange, CloseReturns, CloseGivesUp, Exit, Unsubscribe, Close, vars, runVars
  <2>2. pc' = "running" <=> pc = "running"
    BY <1>1 DEF OnChange, CloseReturns, CloseGivesUp, Exit, Unsubscribe, Close, vars, runVars
  <2>3. Counting /\ Counting'
    BY <2>1 DEF StormInv, Counting, Pending
  <2>4. ItemOwes' = ItemOwes /\ WritersOwe' = WritersOwe
    BY <2>1, <2>2 DEF ItemOwes, Runs, WritersOwe, Unsubmitted, Pending
  <2>5. ItemOwes \in Nat /\ WritersOwe \in Nat
    BY <2>3, OwedTypes
  <2>6. ItemOwes' <= ItemOwes /\ WritersOwe' <= WritersOwe
    BY <2>4, <2>5
  <2> QED
    BY <2>1, <2>3, <2>6, StormStays
<1> QED
  BY <1>1, WritersKeepStorm, ListenerKeepsStorm, TakeKeepsStorm, DispatchKeepsStorm
     DEF Next, Goroutine

\* However deep listeners that write react to each other, the records that are
\* queued stay within a bound that depends on the mutations of the writers and
\* on maxDispatchDepth only (submit drops what is deeper).
THEOREM StormTheorem == Spec => []StormIsBounded
<1>1. Init => TypeOK /\ DispatchInv /\ StormInv
  BY TypeInit, InvInit, StormInit
<1>2. TypeOK /\ DispatchInv /\ StormInv /\ [Next]_vars => TypeOK' /\ DispatchInv' /\ StormInv'
  <2> SUFFICES ASSUME TypeOK, DispatchInv, StormInv, [Next]_vars
               PROVE  TypeOK' /\ DispatchInv' /\ StormInv'
    OBVIOUS
  <2>1. TypeOK' /\ DispatchInv'
    BY TypeNext, InvNext
  <2>2. ItemWhileDispatching
    BY DEF DispatchInv
  <2> QED
    BY <2>1, <2>2, StormNext
<1>3. TypeOK /\ StormInv => StormIsBounded
  <2> SUFFICES ASSUME TypeOK, StormInv PROVE StormIsBounded
    OBVIOUS
  <2>1. PICK t \in Nat : records + t + ItemOwes + WritersOwe <= MaxWrites * Chain[MaxDepth]
    BY DEF StormInv
  <2>2. ItemOwes \in Nat /\ WritersOwe \in Nat /\ records \in Nat
    BY OwedTypes DEF StormInv, TypeOK
  <2> QED
    BY <2>1, <2>2, BoundType DEF StormIsBounded
<1> QED
  BY <1>1, <1>2, <1>3, PTL DEF Spec
=============================================================================
