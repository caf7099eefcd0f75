--------------------------- MODULE EventLogProofs ---------------------------
(***************************************************************************)
(* Proofs about EventLog, for any number of processes, subscriptions,      *)
(* channels and events, any retention, batch and queue sizes.              *)
(*                                                                         *)
(* The argument: retention removes prefixes only, so a cursor that passes  *)
(* the gap check has every later event retained (or deleted by hand); a    *)
(* batch read on that snapshot therefore skips nothing that is due, and    *)
(* sending it in order moves the cursor over events that are queued.       *)
(***************************************************************************)
EXTENDS EventLog, FiniteSetTheorems, WellFoundedInduction, SequenceTheorems, TLAPS

-----------------------------------------------------------------------------
(* Sets of naturals. *)

\* A non-empty set of naturals has a least element: SELECT min(seq) is defined.
LEMMA HasMin ==
  ASSUME NEW T \in SUBSET Nat, T # {}
  PROVE  \E x \in T : \A y \in T : x <= y
<1> DEFINE R == OpToRel(<, Nat)
<1>1. IsWellFoundedOn(R, Nat)
  BY NatLessThanWellFounded
<1>2. \A x, y \in Nat : y < x => <<y, x>> \in R
  BY DEF OpToRel
<1> HIDE DEF R
<1>3. PICK x \in T : \A y \in T : ~ (<<y, x>> \in R)
  BY <1>1, WFMin
<1>4. ASSUME NEW y \in T PROVE x <= y
  <2>1. x \in Nat /\ y \in Nat
    OBVIOUS
  <2>2. ~ (y < x)
    BY <2>1, <1>2, <1>3
  <2> QED
    BY <2>1, <2>2
<1> QED
  BY <1>4

\* A bounded non-empty set of naturals has a greatest element.
LEMMA HasMax ==
  ASSUME NEW T \in SUBSET Nat, T # {}, NEW n \in Nat, \A x \in T : x <= n
  PROVE  \E x \in T : \A y \in T : y <= x
<1> DEFINE U == {u \in Nat : n - u \in T}
<1>1. U \in SUBSET Nat /\ U # {}
  <2>1. PICK x \in T : TRUE
    OBVIOUS
  <2>2. n - x \in Nat /\ n - (n - x) = x
    BY <2>1
  <2> QED
    BY <2>1, <2>2
<1>2. PICK u \in U : \A v \in U : u <= v
  BY <1>1, HasMin
<1>3. n - u \in T
  BY <1>2
<1>4. ASSUME NEW y \in T PROVE y <= n - u
  <2>1. n - y \in Nat /\ n - (n - y) = y
    OBVIOUS
  <2>2. n - y \in U
    BY <2>1
  <2>3. u <= n - y /\ u \in Nat
    BY <2>2, <1>2
  <2> QED
    BY <2>3, <2>1
<1> QED
  BY <1>3, <1>4

\* Min is a least element.
LEMMA MinIsLeast ==
  ASSUME NEW T \in SUBSET Nat, T # {}
  PROVE  Min(T) \in T /\ \A y \in T : Min(T) <= y
BY HasMin DEF Min

\* The bound a sweep reads is one of the rows it looked at, or none.
LEMMA MaxOrNoneType ==
  ASSUME NEW n \in Nat, NEW T \in SUBSET (1 .. n)
  PROVE  MaxOrNone(T) \in 0 .. n
<1>1. CASE T = {}
  BY <1>1 DEF MaxOrNone, NoBound
<1>2. CASE T # {}
  <2>1. T \in SUBSET Nat /\ \A x \in T : x <= n
    OBVIOUS
  <2>2. \E x \in T : \A y \in T : y <= x
    BY <1>2, <2>1, HasMax
  <2>3. \E x \in T : \A y \in T : x >= y
    BY <2>1, <2>2
  <2>4. Max(T) \in T
    BY <2>3 DEF Max
  <2> DEFINE t == Max(T)
  <2>5. t \in 1 .. n
    BY <2>4
  <2>6. t \in 0 .. n
    BY <2>5
  <2> QED
    BY <1>2, <2>6 DEF MaxOrNone
<1> QED
  BY <1>1, <1>2

\* ORDER BY seq LIMIT n returns a prefix: with a row it returns every earlier one.
LEMMA FirstNIsPrefix ==
  ASSUME NEW m \in Nat, NEW S \in SUBSET (1 .. m), NEW n \in Nat,
         NEW q \in FirstN(S, n), NEW r \in S, r < q
  PROVE  r \in FirstN(S, n)
<1> DEFINE Q == {x \in S : x <= q}  R == {x \in S : x <= r}
<1>1. q \in S /\ Cardinality(Q) <= n
  BY DEF FirstN
<1>2. IsFiniteSet(S)
  <2>1. IsFiniteSet(1 .. m)
    BY FS_Interval
  <2> QED
    BY <2>1, FS_Subset
<1>3. IsFiniteSet(Q) /\ R \in SUBSET Q
  <2>1. ASSUME NEW x \in S, x <= r PROVE x <= q
    <3>1. x \in Int /\ r \in Int /\ q \in Int
      BY <1>1
    <3> QED
      BY <2>1, <3>1
  <2>2. Q \in SUBSET S /\ R \in SUBSET Q
    BY <2>1
  <2> HIDE DEF Q, R
  <2> QED
    BY <1>2, <2>2, FS_Subset
<1>4. Cardinality(R) <= Cardinality(Q) /\ IsFiniteSet(R)
  BY <1>3, FS_Subset
<1>5. Cardinality(R) \in Nat /\ Cardinality(Q) \in Nat
  BY <1>3, <1>4, FS_CardinalityType
<1>6. Cardinality(R) <= n
  BY <1>1, <1>4, <1>5
<1> QED
  BY <1>6 DEF FirstN

-----------------------------------------------------------------------------
(* Consequences of the invariant at a poll. *)

\* The oldest retained seq, or the next one to be assigned.
LEMMA OldestType ==
  ASSUME TypeOK
  PROVE  /\ Last \in Nat /\ Oldest \in 1 .. Last + 1
         /\ \A q \in retained : Oldest <= q
         /\ retained # {} => Oldest \in retained
<1>1. Last \in Nat /\ retained \in SUBSET (1 .. Last)
  BY DEF TypeOK, Last, Seqs
<1>2. CASE retained = {}
  BY <1>1, <1>2 DEF Oldest
<1>3. CASE retained # {}
  <2>1. retained \in SUBSET Nat
    BY <1>1
  <2>2. Min(retained) \in retained /\ \A y \in retained : Min(retained) <= y
    BY <1>3, <2>1, MinIsLeast
  <2>3. Oldest = Min(retained)
    BY <1>3 DEF Oldest
  <2>4. Oldest \in 1 .. Last
    BY <1>1, <2>2, <2>3
  <2> QED
    BY <1>1, <2>2, <2>3, <2>4
<1> QED
  BY <1>2, <1>3

\* A cursor that passes gapCheck has every later event in the table, but for
\* those an administrator deleted: the fact that makes a poll safe.
LEMMA NoGapMeansRetained ==
  ASSUME TypeOK, RetentionLeavesNoHole, NEW c \in Nat, GapCheck(c) = NoGap
  PROVE  /\ c <= Last
         /\ \A q \in Seqs : c < q => q \in retained \cup purged
<1>1. Last \in Nat /\ Oldest \in 1 .. Last + 1
  BY OldestType
<1>2. ~(c > Last) /\ ~(c < Oldest - 1)
  BY DEF GapCheck, NoGap
<1>3. ASSUME NEW q \in Seqs, c < q, q \notin retained \cup purged
      PROVE  FALSE
  <2>1. q \in Nat /\ q <= Last /\ Oldest <= q
    BY <1>1, <1>2, <1>3 DEF Seqs
  <2>2. \A r \in retained : r > q
    BY <1>3 DEF RetentionLeavesNoHole
  <2>3. retained # {} => Oldest \in retained
    BY OldestType
  <2>4. CASE retained = {}
    BY <1>1, <2>1, <2>4 DEF Oldest
  <2>5. CASE retained # {}
    <3>1. Oldest > q
      BY <2>2, <2>3, <2>5
    <3> QED
      BY <1>1, <2>1, <3>1
  <2> QED
    BY <2>4, <2>5
<1> QED
  BY <1>1, <1>2, <1>3

\* A gap that is reported names the oldest retained seq.
LEMMA GapFacts ==
  ASSUME TypeOK, NEW c \in 0 .. MaxSeq + 1
  PROVE  /\ GapCheck(c) \in [kind : {"none", "lost", "ahead"}, oldest : 0 .. MaxSeq + 1]
         /\ GapCheck(c).kind = "lost" =>
              /\ c < Oldest - 1 /\ GapCheck(c).oldest = Oldest
         /\ GapCheck(c).kind = "none" => GapCheck(c) = NoGap
<1>1. Last \in Nat /\ Oldest \in 1 .. Last + 1 /\ Last <= MaxSeq /\ MaxSeq \in Nat
  BY OldestType, EventLogAssumption DEF TypeOK
<1>2. CASE c > Last
  BY <1>1, <1>2 DEF GapCheck, NoGap
<1>3. CASE ~(c > Last) /\ c < Oldest - 1
  BY <1>1, <1>3 DEF GapCheck, NoGap
<1>4. CASE ~(c > Last) /\ ~(c < Oldest - 1)
  BY <1>1, <1>4 DEF GapCheck, NoGap
<1> QED
  BY <1>2, <1>3, <1>4

-----------------------------------------------------------------------------
(* Type correctness. *)

\* Seqs that have a row or had one are within the bound.
LEMMA SeqsBound ==
  ASSUME TypeOK
  PROVE  /\ Last \in 0 .. MaxSeq /\ MaxSeq \in Nat
         /\ Seqs \subseteq 1 .. MaxSeq
         /\ retained \subseteq 1 .. MaxSeq
<1>1. Last \in Nat /\ Last <= MaxSeq /\ MaxSeq \in Nat
  BY EventLogAssumption DEF TypeOK, Last
<1>2. \A q \in Seqs : q \in 1 .. MaxSeq
  BY <1>1 DEF Seqs
<1> QED
  BY <1>1, <1>2 DEF TypeOK

\* Publishing appends well-formed rows and keeps every earlier one.
LEMMA NotifyFacts ==
  ASSUME TypeOK, NEW c \in Caches, NEW chs \in ChannelLists, Notify(c, chs)
  PROVE  /\ published' \in Seq(Event)
         /\ Last' \in Nat /\ Last <= Last' /\ Last' <= MaxSeq
         /\ Last' = Last + Len(chs)
         /\ \A q \in Seqs : published'[q] = published[q]
         /\ retained' = retained \cup (Last + 1 .. Last')
<1> DEFINE new == [i \in 1 .. Len(chs) |->
               [channel |-> chs[i], namespace |-> NamespaceOf[c], at |-> now]]
<1>1. PICK n \in 1 .. MaxBatch : chs \in [1 .. n -> Channels]
  BY DEF ChannelLists
<1>2. n \in Nat /\ Len(chs) = n
  BY <1>1, EventLogAssumption
<1>3. ASSUME NEW i \in 1 .. n
      PROVE  [channel |-> chs[i], namespace |-> NamespaceOf[c], at |-> now] \in Event
  BY <1>1, EventLogAssumption DEF Event, TypeOK
<1>4. new \in Seq(Event) /\ Len(new) = n
  BY <1>2, <1>3
<1>5. published \in Seq(Event) /\ published' = published \o new
  BY DEF TypeOK, Notify
<1> HIDE DEF new
<1>6. /\ published' \in Seq(Event) /\ Len(published') = Len(published) + n
      /\ \A i \in 1 .. Len(published) + n :
             published'[i] = IF i <= Len(published) THEN published[i]
                             ELSE new[i - Len(published)]
  BY <1>4, <1>5, ConcatProperties
<1>7. Len(published) \in Nat /\ Len(published) + n <= MaxSeq
  BY <1>2, <1>5 DEF Notify, Last
<1> QED
  BY <1>2, <1>6, <1>7 DEF Notify, Last, Seqs

\* What Watch stores is well typed, for a start position within the bounds.
LEMMA StartType ==
  ASSUME TypeOK, NEW s \in Subs, NEW o \in {"now", "zero", "seq"},
         NEW n \in 0 .. MaxSeq + 1, NEW org \in 0 .. MaxSeq + 1,
         NEW seen \in SUBSET (1 .. MaxSeq), Start(s, o, n, org, seen)
  PROVE  TypeOK'
<1> DEFINE gap == IF o = "seq" THEN GapCheck(n) ELSE NoGap
<1>1. gap \in [kind : {"none", "lost", "ahead"}, oldest : 0 .. MaxSeq + 1]
  BY GapFacts, EventLogAssumption DEF NoGap
<1>2. err' = [err EXCEPT ![s] = gap] /\ pc' = [pc EXCEPT ![s] = IF gap = NoGap THEN "poll" ELSE "ended"]
  BY DEF Start
<1> HIDE DEF gap
<1>3. /\ err' \in [Subs -> [kind : {"none", "lost", "ahead"}, oldest : 0 .. MaxSeq + 1]]
      /\ pc' \in [Subs -> {"none", "poll", "send", "wait", "ended"}]
  BY <1>1, <1>2 DEF TypeOK
<1>4. /\ queue' \in [Subs -> Seq(1 .. MaxSeq)]
      /\ \A t \in Subs : Len(queue'[t]) <= QueueCap
  BY EventLogAssumption DEF TypeOK, Start
<1>5. /\ published' = published /\ retained' = retained /\ purged' = purged
      /\ Last' = Last /\ Seqs' = Seqs
  BY DEF Start, logVars, Last, Seqs
<1> QED
  BY <1>3, <1>4, <1>5 DEF TypeOK, Start, logVars

\* What a crash of c does to each variable.
LEMMA CrashFacts ==
  ASSUME NEW c \in Caches, Crash(c)
  PROVE  /\ pc' = [s \in Subs |-> IF CacheOf[s] = c THEN "none" ELSE pc[s]]
         /\ stop' = [s \in Subs |-> IF CacheOf[s] = c THEN FALSE ELSE stop[s]]
         /\ cursor' = [s \in Subs |-> IF CacheOf[s] = c THEN 0 ELSE cursor[s]]
         /\ batch' = [s \in Subs |-> IF CacheOf[s] = c THEN {} ELSE batch[s]]
         /\ more' = [s \in Subs |-> IF CacheOf[s] = c THEN FALSE ELSE more[s]]
         /\ queue' = [s \in Subs |-> IF CacheOf[s] = c THEN << >> ELSE queue[s]]
         /\ err' = [s \in Subs |-> IF CacheOf[s] = c THEN NoGap ELSE err[s]]
         /\ taken' = [s \in Subs |-> IF CacheOf[s] = c THEN 0 ELSE taken[s]]
         /\ sweep' = [sweep EXCEPT ![c] = [at |-> "idle", bound |-> NoBound]]
         /\ UNCHANGED <<logVars, now, origin, handled, saved>>
BY DEF Crash

\* Every step keeps the types; the invariant is needed where a step takes the
\* least element of a batch or the oldest seq of a reported gap.
LEMMA TypeStep ==
  ASSUME TypeOK, IndInv, [Next]_vars
  PROVE  TypeOK'
<1> USE EventLogAssumption
<1>1. CASE ClockStep
  BY <1>1 DEF TypeOK, ClockStep, logVars, pollVars, appVars, Last, Seqs
<1>2. ASSUME NEW c \in Caches, NEW chs \in ChannelLists, Notify(c, chs)
      PROVE  TypeOK'
  <2>1. /\ published' \in Seq(Event) /\ Last' <= MaxSeq
        /\ retained' \in SUBSET Seqs' /\ purged' \in SUBSET Seqs'
    <3>1. /\ published' \in Seq(Event) /\ Last' \in Nat /\ Last <= Last' /\ Last' <= MaxSeq
          /\ retained' = retained \cup (Last + 1 .. Last')
      BY <1>2, NotifyFacts
    <3>2. Last \in Nat /\ retained \in SUBSET (1 .. Last) /\ purged \in SUBSET (1 .. Last)
      <4>1. Last \in Nat
        BY SeqsBound
      <4>2. retained \in SUBSET Seqs /\ purged \in SUBSET Seqs
        BY DEF TypeOK
      <4> QED
        BY <4>1, <4>2 DEF Seqs
    <3>3. purged' = purged /\ Seqs' = 1 .. Last'
      BY <1>2 DEF Notify, Seqs
    <3>4. ASSUME NEW q \in retained' PROVE q \in 1 .. Last'
      BY <3>1, <3>2
    <3>5. ASSUME NEW q \in purged PROVE q \in 1 .. Last'
      BY <3>1, <3>2
    <3> QED
      BY <3>1, <3>3, <3>4, <3>5
  <2> QED
    BY <1>2, <2>1 DEF TypeOK, Notify, pollVars, appVars
<1>3. ASSUME NEW c \in Caches, SweepAge(c) \/ SweepCap(c) \/ \E t \in 0 .. MaxTime + 1 : DeleteEventsBefore(c, t)
      PROVE  TypeOK'
  <2>1. MaxSeq \in Nat /\ \A T \in SUBSET retained : MaxOrNone(T) \in 0 .. MaxSeq
    BY SeqsBound, MaxOrNoneType
  <2>2. CapBound \in 0 .. MaxSeq
    <3> DEFINE T == {q \in retained : Cardinality({r \in retained : r > q}) >= MaxCount}
    <3>1. T \in SUBSET retained
      OBVIOUS
    <3>2. CapBound = IF MaxCount = 0 THEN 0 ELSE MaxOrNone(T)
      BY DEF CapBound, NoBound
    <3> HIDE DEF T
    <3>3. MaxOrNone(T) \in 0 .. MaxSeq /\ 0 \in 0 .. MaxSeq
      BY <2>1, <3>1
    <3> QED
      BY <3>2, <3>3
  <2>3. sweep' \in [Caches -> [at : {"idle", "cap", "delete"}, bound : 0 .. MaxSeq]]
    <3>1. CASE SweepAge(c)
      BY <2>1, <3>1 DEF SweepAge, TypeOK
    <3>2. CASE SweepCap(c)
      BY <2>2, <3>2 DEF SweepCap, TypeOK
    <3>3. ASSUME NEW t \in 0 .. MaxTime + 1, DeleteEventsBefore(c, t)
          PROVE  sweep' \in [Caches -> [at : {"idle", "cap", "delete"}, bound : 0 .. MaxSeq]]
      BY <2>1, <3>3 DEF DeleteEventsBefore, TypeOK
    <3> QED
      BY <1>3, <3>1, <3>2, <3>3
  <2>4. UNCHANGED <<logVars, now, pollVars, appVars, saved>>
    BY <1>3 DEF SweepAge, SweepCap, DeleteEventsBefore
  <2> QED
    BY <2>3, <2>4 DEF TypeOK, logVars, pollVars, appVars, Last, Seqs
<1>4. ASSUME NEW c \in Caches, SweepDelete(c) PROVE TypeOK'
  <2>1. retained' \subseteq retained /\ UNCHANGED <<published, purged, now, pollVars, appVars, saved>>
    BY <1>4 DEF SweepDelete
  <2>2. sweep' \in [Caches -> [at : {"idle", "cap", "delete"}, bound : 0 .. MaxSeq]]
    BY <1>4 DEF SweepDelete, TypeOK, NoBound
  <2> QED
    BY <2>1, <2>2 DEF TypeOK, pollVars, appVars, Last, Seqs
<1>5. ASSUME NEW q \in retained, DeleteEvent(q) PROVE TypeOK'
  BY <1>5 DEF TypeOK, DeleteEvent, pollVars, appVars, Last, Seqs
<1>6. ASSUME NEW ch \in Channels, DeleteChannelEvents(ch) PROVE TypeOK'
  <2>1. PICK D \in SUBSET retained : retained' = retained \ D /\ purged' = purged \cup D
    BY <1>6 DEF DeleteChannelEvents, FirstN
  <2> QED
    BY <1>6, <2>1 DEF TypeOK, DeleteChannelEvents, pollVars, appVars, Last, Seqs
<1>7. ASSUME NEW s \in Subs, Watch(s) PROVE TypeOK'
  <2>1. /\ Last \in 0 .. MaxSeq + 1 /\ Oldest - 1 \in 0 .. MaxSeq + 1
        /\ {} \in SUBSET (1 .. MaxSeq)
    BY OldestType, SeqsBound
  <2>2. CASE WatchNow(s)
    BY <2>1, <2>2, StartType DEF WatchNow
  <2>3. CASE WatchRetained(s)
    BY <2>1, <2>3, StartType DEF WatchRetained
  <2>4. ASSUME NEW n \in 1 .. MaxSeq + 1, WatchFrom(s, n) PROVE TypeOK'
    <3>1. n \in 0 .. MaxSeq + 1
      OBVIOUS
    <3> QED
      BY <2>1, <2>4, <3>1, StartType DEF WatchFrom
  <2>5. CASE Resume(s)
    <3>1. /\ saved[s] \in 0 .. MaxSeq + 1 /\ origin[s] \in 0 .. MaxSeq + 1
          /\ handled[s] \in SUBSET (1 .. MaxSeq)
      BY <2>5 DEF Resume, TypeOK, NoCursor
    <3> QED
      BY <2>5, <3>1, StartType DEF Resume
  <2>6. CASE AcceptGap(s)
    <3>1. err[s].oldest \in 0 .. MaxSeq + 1 /\ 1 <= err[s].oldest
      BY <2>6 DEF AcceptGap, IndInv, SubInv, GapRecord, TypeOK
    <3>2. err[s].oldest - 1 \in 0 .. MaxSeq + 1
      BY <3>1
    <3> QED
      BY <2>1, <2>6, <3>2, StartType DEF AcceptGap
  <2> QED
    BY <1>7, <2>2, <2>3, <2>4, <2>5, <2>6 DEF Watch
<1>8. ASSUME NEW s \in Subs, Stopped(s) \/ FetchError(s) \/ WaitOver(s) \/ Close(s)
      PROVE  TypeOK'
  <2>1. UNCHANGED <<logVars, now, sweep, cursor, queue, err, appVars, saved>>
    BY <1>8 DEF Stopped, FetchError, WaitOver, Close
  <2>2. /\ pc' \in [Subs -> {"none", "poll", "send", "wait", "ended"}]
        /\ stop' \in [Subs -> BOOLEAN] /\ more' \in [Subs -> BOOLEAN]
        /\ batch' \in [Subs -> SUBSET (1 .. MaxSeq)]
    BY <1>8 DEF Stopped, FetchError, WaitOver, Close, TypeOK
  <2> QED
    BY <2>1, <2>2 DEF TypeOK, logVars, appVars, Last, Seqs
<1>9. ASSUME NEW s \in Subs, Fetch(s) PROVE TypeOK'
  <2> DEFINE gap == GapCheck(cursor[s])
             rows == FirstN(Pending(s), EventsBatch)
  <2>1. rows \in SUBSET (1 .. MaxSeq)
    BY SeqsBound DEF FirstN, Pending
  <2>2. gap \in [kind : {"none", "lost", "ahead"}, oldest : 0 .. MaxSeq + 1]
    BY GapFacts DEF TypeOK
  <2>3. UNCHANGED <<logVars, now, sweep, stop, cursor, queue, appVars, saved>>
    BY <1>9 DEF Fetch
  <2>4. /\ pc' \in [Subs -> {"none", "poll", "send", "wait", "ended"}]
        /\ more' \in [Subs -> BOOLEAN]
        /\ batch' \in [Subs -> SUBSET (1 .. MaxSeq)]
        /\ err' \in [Subs -> [kind : {"none", "lost", "ahead"}, oldest : 0 .. MaxSeq + 1]]
    <3>1. CASE gap # NoGap
      <4>1. /\ err' = [err EXCEPT ![s] = gap] /\ pc' = [pc EXCEPT ![s] = "ended"]
            /\ batch' = batch /\ more' = more
        BY <1>9, <3>1 DEF Fetch
      <4> HIDE DEF gap
      <4> QED
        BY <4>1, <2>2 DEF TypeOK
    <3>2. CASE gap = NoGap
      <4>1. /\ batch' = [batch EXCEPT ![s] = rows] /\ err' = err
            /\ more' = [more EXCEPT ![s] = Cardinality(rows) = EventsBatch]
            /\ pc' = [pc EXCEPT ![s] = IF rows = {} THEN "wait" ELSE "send"]
        BY <1>9, <3>2 DEF Fetch
      <4> HIDE DEF rows
      <4>2. more' \in [Subs -> BOOLEAN]
        BY <4>1 DEF TypeOK
      <4> QED
        BY <4>1, <4>2, <2>1 DEF TypeOK
    <3> QED
      BY <3>1, <3>2
  <2> QED
    BY <2>3, <2>4 DEF TypeOK, logVars, appVars, Last, Seqs
<1>10. ASSUME NEW s \in Subs, Send(s) PROVE TypeOK'
  <2> DEFINE q == Min(batch[s])
  <2>1. q \in batch[s]
    <3>1. batch[s] # {} /\ batch[s] \in SUBSET (1 .. MaxSeq)
      BY <1>10 DEF Send, IndInv, SubInv, Positions, TypeOK
    <3>2. batch[s] \in SUBSET Nat
      BY <3>1
    <3> QED
      BY <3>1, <3>2, MinIsLeast
  <2>2. q \in 1 .. MaxSeq /\ q \in 0 .. MaxSeq + 1
    BY <2>1 DEF TypeOK
  <2>3. /\ Len(queue[s]) < QueueCap
        /\ queue' = [queue EXCEPT ![s] = Append(@, q)]
        /\ cursor' = [cursor EXCEPT ![s] = q]
        /\ batch' = [batch EXCEPT ![s] = @ \ {q}]
        /\ more' = [more EXCEPT ![s] = @ /\ ~(batch[s] = {q})]
        /\ pc' = [pc EXCEPT ![s] = IF ~(batch[s] = {q}) THEN "send"
                                   ELSE IF more[s] THEN "poll" ELSE "wait"]
        /\ UNCHANGED <<logVars, now, sweep, stop, err, appVars, saved>>
    BY <1>10 DEF Send
  <2> HIDE DEF q
  <2>4. more' \in [Subs -> BOOLEAN]
    BY <2>3 DEF TypeOK
  <2>5. /\ queue' \in [Subs -> Seq(1 .. MaxSeq)]
        /\ \A t \in Subs : Len(queue'[t]) <= QueueCap
    BY <2>2, <2>3 DEF TypeOK
  <2>6. /\ pc' \in [Subs -> {"none", "poll", "send", "wait", "ended"}]
        /\ batch' \in [Subs -> SUBSET (1 .. MaxSeq)]
        /\ cursor' \in [Subs -> 0 .. MaxSeq + 1]
    BY <2>2, <2>3 DEF TypeOK
  <2> QED
    BY <2>3, <2>4, <2>5, <2>6 DEF TypeOK, logVars, appVars, Last, Seqs
<1>11. ASSUME NEW s \in Subs, Receive(s) PROVE TypeOK'
  <2>1. /\ queue[s] \in Seq(1 .. MaxSeq) /\ queue[s] # << >>
        /\ Head(queue[s]) \in 1 .. MaxSeq
        /\ Tail(queue[s]) \in Seq(1 .. MaxSeq)
        /\ Len(Tail(queue[s])) <= QueueCap
    BY <1>11 DEF Receive, TypeOK
  <2>2. queue' = [queue EXCEPT ![s] = Tail(queue[s])]
    BY <1>11 DEF Receive
  <2>3. /\ queue' \in [Subs -> Seq(1 .. MaxSeq)]
        /\ \A t \in Subs : Len(queue'[t]) <= QueueCap
    BY <2>1, <2>2 DEF TypeOK
  <2>4. /\ taken' \in [Subs -> 0 .. MaxSeq + 1]
        /\ handled' \in [Subs -> SUBSET (1 .. MaxSeq)]
    BY <1>11, <2>1, SMTT(30) DEF Receive, TypeOK
  <2> QED
    BY <1>11, <2>3, <2>4 DEF Receive, TypeOK, logVars, Last, Seqs
<1>12. ASSUME NEW s \in Subs, SaveCursor(s) PROVE TypeOK'
  BY <1>12 DEF SaveCursor, TypeOK, logVars, pollVars, appVars, Last, Seqs
<1>13. ASSUME NEW c \in Caches, Crash(c) PROVE TypeOK'
  <2> DEFINE own(t) == CacheOf[t] = c
  <2>1. pc' \in [Subs -> {"none", "poll", "send", "wait", "ended"}]
    <3>1. pc' = [s \in Subs |-> IF own(s) THEN "none" ELSE pc[s]]
      BY <1>13, CrashFacts
    <3> QED
      BY <3>1 DEF TypeOK
  <2>2. cursor' \in [Subs -> 0 .. MaxSeq + 1] /\ taken' \in [Subs -> 0 .. MaxSeq + 1]
    <3>1. /\ cursor' = [s \in Subs |-> IF own(s) THEN 0 ELSE cursor[s]]
          /\ taken' = [s \in Subs |-> IF own(s) THEN 0 ELSE taken[s]]
      BY <1>13, CrashFacts
    <3> QED
      BY <3>1 DEF TypeOK
  <2>3. stop' \in [Subs -> BOOLEAN] /\ more' \in [Subs -> BOOLEAN]
    <3>1. /\ stop' = [s \in Subs |-> IF own(s) THEN FALSE ELSE stop[s]]
          /\ more' = [s \in Subs |-> IF own(s) THEN FALSE ELSE more[s]]
      BY <1>13, CrashFacts
    <3> QED
      BY <3>1 DEF TypeOK
  <2>4. batch' \in [Subs -> SUBSET (1 .. MaxSeq)]
    <3>1. batch' = [s \in Subs |-> IF own(s) THEN {} ELSE batch[s]]
      BY <1>13, CrashFacts
    <3> QED
      BY <3>1 DEF TypeOK
  <2>5. /\ queue' \in [Subs -> Seq(1 .. MaxSeq)]
        /\ \A t \in Subs : Len(queue'[t]) <= QueueCap
    <3>1. queue' = [s \in Subs |-> IF own(s) THEN << >> ELSE queue[s]]
      BY <1>13, CrashFacts
    <3>2. << >> \in Seq(1 .. MaxSeq) /\ Len(<< >>) <= QueueCap
      OBVIOUS
    <3>3. queue \in [Subs -> Seq(1 .. MaxSeq)] /\ \A t \in Subs : Len(queue[t]) <= QueueCap
      BY DEF TypeOK
    <3> HIDE DEF own
    <3> QED
      BY <3>1, <3>2, <3>3
  <2>6. err' \in [Subs -> [kind : {"none", "lost", "ahead"}, oldest : 0 .. MaxSeq + 1]]
    <3>1. err' = [s \in Subs |-> IF own(s) THEN NoGap ELSE err[s]]
      BY <1>13, CrashFacts
    <3>2. NoGap \in [kind : {"none", "lost", "ahead"}, oldest : 0 .. MaxSeq + 1]
      BY DEF NoGap
    <3> QED
      BY <3>1, <3>2 DEF TypeOK
  <2>8. sweep' \in [Caches -> [at : {"idle", "cap", "delete"}, bound : 0 .. MaxSeq]]
    <3>1. sweep' = [sweep EXCEPT ![c] = [at |-> "idle", bound |-> NoBound]]
      BY <1>13, CrashFacts
    <3> QED
      BY <3>1 DEF TypeOK, NoBound
  <2>9. UNCHANGED <<logVars, now, origin, handled, saved>>
    BY <1>13, CrashFacts
  <2> QED
    BY <2>1, <2>2, <2>3, <2>4, <2>5, <2>6, <2>8, <2>9 DEF TypeOK, logVars, Last, Seqs
<1>14. CASE UNCHANGED vars
  BY <1>14 DEF TypeOK, vars, logVars, pollVars, appVars, Last, Seqs
<1> QED
  BY <1>1, <1>2, <1>3, <1>4, <1>5, <1>6, <1>7, <1>8, <1>9, <1>10, <1>11, <1>12, <1>13, <1>14
     DEF Next, Publish, SweepStep, Admin, Poller, App

-----------------------------------------------------------------------------
(* Preservation of the invariant. *)

\* A subscription that a step does not touch keeps its invariant when rows are
\* only deleted, and administrators' deletes recorded.
LEMMA SubFrame ==
  ASSUME NEW t \in Subs, SubInv(t),
         published' = published, retained' \subseteq retained, purged \subseteq purged',
         pc'[t] = pc[t], cursor'[t] = cursor[t], batch'[t] = batch[t],
         queue'[t] = queue[t], err'[t] = err[t], taken'[t] = taken[t],
         origin'[t] = origin[t], handled'[t] = handled[t], saved'[t] = saved[t]
  PROVE  SubInv(t)'
<1>1. Last' = Last /\ Seqs' = Seqs
  BY DEF Last, Seqs
<1>2. \A q : Due(t, q)' => Due(t, q)
  BY DEF Due, Matches
<1>3. Ordered(t)'
  BY DEF SubInv, Ordered
<1>4. (pc[t] # "none" => ReceivedInFull(t) /\ QueuedInFull(t))'
  BY <1>1, <1>2 DEF SubInv, ReceivedInFull, QueuedInFull
<1>5. BatchInFull(t)' /\ SavedInFull(t)'
  BY <1>1, <1>2 DEF SubInv, BatchInFull, SavedInFull
<1>6. Positions(t)'
  BY <1>1 DEF SubInv, Positions
<1>7. GapRecord(t)'
  BY <1>1 DEF SubInv, GapRecord
<1> QED
  BY <1>3, <1>4, <1>5, <1>6, <1>7 DEF SubInv

\* Steps that change neither rows nor subscriptions.
LEMMA FrameInv ==
  ASSUME IndInv, UNCHANGED <<logVars, pc, cursor, batch, queue, err, appVars, saved>>
  PROVE  IndInv'
<1>1. RetentionLeavesNoHole'
  BY DEF IndInv, RetentionLeavesNoHole, Seqs, Last, logVars
<1>2. ASSUME NEW t \in Subs PROVE SubInv(t)'
  BY SubFrame DEF IndInv, logVars, appVars
<1> QED
  BY <1>1, <1>2 DEF IndInv

\* Steps of one subscription s: what is left to show concerns s alone.
LEMMA OneSub ==
  ASSUME IndInv, NEW s \in Subs, UNCHANGED logVars, SubInv(s)',
         \A t \in Subs \ {s} :
            /\ pc'[t] = pc[t] /\ cursor'[t] = cursor[t] /\ batch'[t] = batch[t]
            /\ queue'[t] = queue[t] /\ err'[t] = err[t] /\ taken'[t] = taken[t]
            /\ origin'[t] = origin[t] /\ handled'[t] = handled[t] /\ saved'[t] = saved[t]
  PROVE  IndInv'
<1>1. RetentionLeavesNoHole'
  BY DEF IndInv, RetentionLeavesNoHole, Seqs, Last, logVars
<1>2. ASSUME NEW t \in Subs \ {s} PROVE SubInv(t)'
  BY SubFrame DEF IndInv, logVars
<1> QED
  BY <1>1, <1>2 DEF IndInv

\* Removing rows: a prefix of the retained ones, or rows recorded as purged.
LEMMA RemoveRows ==
  ASSUME TypeOK, IndInv, NEW D \in SUBSET retained,
         published' = published, retained' = retained \ D,
         \/ /\ purged' = purged
            /\ \A q \in D, r \in retained : r < q => r \in D
         \/ purged' = purged \cup D,
         UNCHANGED <<pollVars, appVars, saved>>
  PROVE  IndInv'
<1>1. Seqs' = Seqs /\ purged \subseteq purged'
  BY DEF Seqs, Last
<1>2. ASSUME NEW q \in Seqs', q \notin (retained \cup purged)', NEW r \in retained'
      PROVE  r > q
  <2>1. r \in retained /\ r \notin D /\ q \in Nat /\ r \in Nat
    BY <1>1, <1>2, OldestType DEF TypeOK, Seqs
  <2>2. CASE q \notin retained
    BY <1>1, <1>2, <2>1, <2>2 DEF IndInv, RetentionLeavesNoHole
  <2>3. CASE q \in retained
    <3>1. q \in D /\ q # r
      BY <1>2, <2>1, <2>3
    <3>2. purged' = purged
      BY <1>2, <3>1
    <3>3. ~(r < q)
      BY <1>2, <2>1, <3>1
    <3> QED
      BY <2>1, <3>1, <3>3
  <2> QED
    BY <2>2, <2>3
<1>3. RetentionLeavesNoHole'
  BY <1>2 DEF RetentionLeavesNoHole
<1>4. ASSUME NEW t \in Subs PROVE SubInv(t)'
  BY <1>1, SubFrame DEF IndInv, pollVars, appVars
<1> QED
  BY <1>3, <1>4 DEF IndInv

\* Publishing: the new seqs are beyond every cursor that could skip them.
LEMMA NotifyInv ==
  ASSUME TypeOK, IndInv, NEW c \in Caches, NEW chs \in ChannelLists, Notify(c, chs)
  PROVE  IndInv'
<1>1. /\ Last \in Nat /\ Last' \in Nat /\ Last <= Last'
      /\ \A q \in Seqs : published'[q] = published[q]
      /\ retained' = retained \cup (Last + 1 .. Last')
  BY NotifyFacts, OldestType
<1>2. /\ purged' = purged /\ pc' = pc /\ cursor' = cursor /\ batch' = batch
      /\ queue' = queue /\ err' = err /\ taken' = taken /\ origin' = origin
      /\ handled' = handled /\ saved' = saved
  BY DEF Notify, pollVars, appVars
<1>3. /\ Seqs \subseteq Seqs'
      /\ \A q \in Seqs' : q \in Nat /\ (q \in Seqs \/ (q > Last /\ q \in retained'))
      /\ \A q \in Seqs : q \in Nat /\ q <= Last
  BY <1>1 DEF Seqs
<1>4. \A t \in Subs : \A q \in Seqs : Due(t, q)' => Due(t, q)
  BY <1>1, <1>2 DEF Due, Matches
<1>5. RetentionLeavesNoHole'
  <2>1. ASSUME NEW q \in Seqs', q \notin retained' \cup purged, NEW r \in retained'
        PROVE  r > q
    <3>1. q \in Seqs /\ q \notin retained /\ q \in Nat /\ q <= Last
      BY <1>1, <1>3, <2>1
    <3>2. CASE r \in retained
      BY <2>1, <3>1, <3>2 DEF IndInv, RetentionLeavesNoHole
    <3>3. CASE r \in Last + 1 .. Last'
      BY <1>1, <3>1, <3>3
    <3> QED
      BY <1>1, <3>2, <3>3
  <2> QED
    BY <1>2, <2>1 DEF RetentionLeavesNoHole
<1>6. ASSUME NEW t \in Subs PROVE SubInv(t)'
  <2>1. SubInv(t) /\ Positions(t) /\ GapRecord(t)
    BY DEF IndInv, SubInv
  <2>2. /\ cursor[t] \in Nat /\ taken[t] \in Nat /\ origin[t] \in Nat
        /\ saved[t] \in Int /\ batch[t] \in SUBSET Seqs
    BY <2>1, EventLogAssumption DEF TypeOK, Positions, NoCursor
  <2>3. Ordered(t)'
    BY <1>2, <2>1 DEF SubInv, Ordered
  <2>4. ASSUME pc[t] # "none" PROVE ReceivedInFull(t)' /\ QueuedInFull(t)'
    <3>1. taken[t] <= cursor[t] /\ (cursor[t] <= Last \/ (cursor[t] = taken[t] /\ taken[t] = origin[t]))
      BY <2>1, <2>4 DEF Positions
    <3>2. ReceivedInFull(t) /\ QueuedInFull(t)
      BY <2>1, <2>4 DEF SubInv
    <3>3. ASSUME NEW q \in Seqs', origin[t] < q, q <= taken[t], Due(t, q)'
          PROVE  q \in handled[t]
      <4>1. q \in Seqs
        BY <1>1, <1>3, <2>2, <3>1, <3>3
      <4> QED
        BY <1>4, <3>2, <3>3, <4>1 DEF ReceivedInFull
    <3>4. ASSUME NEW q \in Seqs', taken[t] < q, q <= cursor[t], Due(t, q)'
          PROVE  q \in Range(queue[t])
      <4>1. q \in Seqs
        BY <1>1, <1>3, <2>2, <3>1, <3>4
      <4> QED
        BY <1>4, <3>2, <3>4, <4>1 DEF QueuedInFull
    <3> QED
      BY <1>2, <3>3, <3>4 DEF ReceivedInFull, QueuedInFull
  <2>5. BatchInFull(t)'
    <3>1. BatchInFull(t)
      BY <2>1 DEF SubInv
    <3>2. ASSUME NEW b \in batch[t], NEW q \in Seqs', cursor[t] < q, q < b, Due(t, q)'
          PROVE  q \in batch[t]
      <4>1. b \in Seqs /\ q \in Nat
        BY <1>3, <2>2
      <4>2. q \in Seqs
        BY <1>1, <1>3, <3>2, <4>1
      <4> QED
        BY <1>4, <3>1, <3>2, <4>2 DEF BatchInFull
    <3>3. \A b \in batch[t] : b > cursor[t]
      BY <3>1 DEF BatchInFull
    <3> QED
      BY <1>2, <3>2, <3>3 DEF BatchInFull
  <2>6. SavedInFull(t)'
    <3>1. ASSUME NEW q \in Seqs', origin[t] < q, q <= saved[t], Due(t, q)'
          PROVE  q \in handled[t]
      <4>1. saved[t] <= Last
        BY <2>1 DEF Positions
      <4>2. q \in Seqs
        BY <1>1, <1>3, <2>2, <3>1, <4>1
      <4> QED
        BY <1>4, <2>1, <3>1, <4>2 DEF SubInv, SavedInFull
    <3> QED
      BY <1>2, <3>1 DEF SavedInFull
  <2>7. Positions(t)'
    BY <1>1, <1>2, <1>3, <2>1, <2>2 DEF Positions
  <2>8. GapRecord(t)'
    <3>1. CASE err[t].kind = "lost"
      <4>1. /\ err[t].oldest \in Nat /\ 1 <= err[t].oldest /\ err[t].oldest <= Last + 1
            /\ pc[t] = "ended" /\ cursor[t] < err[t].oldest
            /\ \A q \in retained : q >= err[t].oldest
        BY <2>1, <3>1, EventLogAssumption DEF GapRecord, TypeOK
      <4>2. err[t].oldest <= Last' + 1 /\ \A q \in retained' : q >= err[t].oldest
        BY <1>1, <4>1
      <4> QED
        BY <1>2, <4>1, <4>2 DEF GapRecord
    <3>2. CASE err[t].kind # "lost"
      BY <1>2, <3>2 DEF GapRecord
    <3> QED
      BY <3>1, <3>2
  <2> QED
    BY <1>2, <2>3, <2>4, <2>5, <2>6, <2>7, <2>8 DEF SubInv
<1> QED
  BY <1>5, <1>6 DEF IndInv

\* Watch: the stream it starts owes nothing between its origin and its start
\* that the application has not already seen.
LEMMA StartInv ==
  ASSUME TypeOK, IndInv, NEW s \in Subs, NEW o \in {"now", "zero", "seq"},
         NEW n \in 0 .. MaxSeq + 1, NEW org \in 0 .. MaxSeq + 1,
         NEW seen \in SUBSET Seqs, Start(s, o, n, org, seen),
         \A q \in Seqs : org < q /\ q <= n /\ Due(s, q) => q \in seen,
         saved[s] <= n, n <= Last \/ n = org
  PROVE  IndInv'
<1> DEFINE gap == IF o = "seq" THEN GapCheck(n) ELSE NoGap
<1>1. /\ pc[s] \in {"none", "ended"}
      /\ err' = [err EXCEPT ![s] = gap]
      /\ pc' = [pc EXCEPT ![s] = IF gap = NoGap THEN "poll" ELSE "ended"]
      /\ cursor' = [cursor EXCEPT ![s] = n] /\ queue' = [queue EXCEPT ![s] = << >>]
      /\ taken' = [taken EXCEPT ![s] = n] /\ origin' = [origin EXCEPT ![s] = org]
      /\ handled' = [handled EXCEPT ![s] = seen]
      /\ batch' = batch /\ saved' = saved /\ UNCHANGED logVars
  BY DEF Start
<1>2. /\ gap.kind = "lost" =>
           /\ n < Oldest - 1 /\ gap.oldest = Oldest /\ gap # NoGap
  BY GapFacts DEF NoGap
<1> HIDE DEF gap
<1>3. /\ err'[s] = gap /\ pc'[s] = (IF gap = NoGap THEN "poll" ELSE "ended")
      /\ cursor'[s] = n /\ queue'[s] = << >> /\ taken'[s] = n /\ origin'[s] = org
      /\ handled'[s] = seen /\ batch'[s] = batch[s] /\ saved'[s] = saved[s]
  BY <1>1 DEF TypeOK
<1>4. Last' = Last /\ Seqs' = Seqs /\ retained' = retained /\ \A q : Due(s, q)' = Due(s, q)
  BY <1>1 DEF Last, Seqs, logVars, Due, Matches
<1>5. SubInv(s) /\ Positions(s) /\ batch[s] = {} /\ SavedInFull(s)
  BY <1>1 DEF IndInv, SubInv, Positions
<1>6. n \in Nat /\ org \in Nat /\ Last \in Nat /\ saved[s] \in Int /\ \A q \in Seqs : q \in Nat
  <2>1. Last \in Nat /\ n \in Nat /\ org \in Nat
    BY OldestType, EventLogAssumption
  <2>2. saved[s] \in Int
    BY EventLogAssumption DEF TypeOK, NoCursor
  <2> QED
    BY <2>1, <2>2 DEF Seqs
<1>7. Ordered(s)'
  BY <1>3 DEF Ordered
<1>8. ReceivedInFull(s)'
  BY <1>3, <1>4 DEF ReceivedInFull
<1>9. QueuedInFull(s)'
  BY <1>3, <1>4, <1>6 DEF QueuedInFull
<1>10. BatchInFull(s)'
  BY <1>3, <1>5 DEF BatchInFull
<1>11. Range(<< >>) = {}
  BY DEF Range
<1>12. Positions(s)'
  BY <1>3, <1>4, <1>5, <1>6, <1>11 DEF Positions
<1>13. GapRecord(s)'
  BY <1>2, <1>3, <1>4, <1>6, OldestType DEF GapRecord
<1>14. SavedInFull(s)'
  BY <1>3, <1>4, <1>6 DEF SavedInFull
<1>15. SubInv(s)'
  BY <1>7, <1>8, <1>9, <1>10, <1>12, <1>13, <1>14 DEF SubInv
<1>16. \A t \in Subs \ {s} :
            /\ pc'[t] = pc[t] /\ cursor'[t] = cursor[t] /\ batch'[t] = batch[t]
            /\ queue'[t] = queue[t] /\ err'[t] = err[t] /\ taken'[t] = taken[t]
            /\ origin'[t] = origin[t] /\ handled'[t] = handled[t] /\ saved'[t] = saved[t]
  BY <1>1 DEF TypeOK
<1> QED
  BY <1>1, <1>15, <1>16, OneSub

\* Every way an application may start or restart a stream.
LEMMA WatchInv ==
  ASSUME TypeOK, IndInv, NEW s \in Subs, Watch(s)
  PROVE  IndInv'
<1>1. /\ Last \in 0 .. MaxSeq + 1 /\ Oldest - 1 \in 0 .. MaxSeq + 1
      /\ Oldest - 1 <= Last /\ {} \in SUBSET Seqs /\ MaxSeq \in Nat
      /\ \A n \in Nat : \A q \in Seqs : ~(n < q /\ q <= n)
  <2>1. /\ Last \in 0 .. MaxSeq + 1 /\ Oldest - 1 \in 0 .. MaxSeq + 1
        /\ Oldest - 1 <= Last /\ MaxSeq \in Nat
    BY OldestType, SeqsBound
  <2> QED
    BY <2>1 DEF Seqs
<1>2. SubInv(s) /\ Positions(s) /\ GapRecord(s) /\ SavedInFull(s)
  BY DEF IndInv, SubInv
<1>3. ASSUME saved[s] = NoCursor, NEW o \in {"now", "zero", "seq"},
             NEW n \in 0 .. MaxSeq + 1, Start(s, o, n, n, {})
      PROVE  IndInv'
  <2>1. saved[s] <= n /\ n \in Nat
    BY <1>1, <1>3 DEF NoCursor
  <2>2. \A q \in Seqs : n < q /\ q <= n /\ Due(s, q) => q \in {}
    BY <1>1, <2>1
  <2> QED
    BY <1>1, <1>3, <2>1, <2>2, StartInv
<1>4. CASE WatchNow(s)
  BY <1>1, <1>3, <1>4 DEF WatchNow
<1>5. CASE WatchRetained(s)
  BY <1>1, <1>3, <1>5 DEF WatchRetained
<1>6. ASSUME NEW n \in 1 .. MaxSeq + 1, WatchFrom(s, n) PROVE IndInv'
  <2>1. n \in 0 .. MaxSeq + 1
    BY <1>1
  <2> QED
    BY <1>3, <1>6, <2>1 DEF WatchFrom
<1>7. CASE Resume(s)
  <2>1. /\ saved[s] \in 0 .. MaxSeq + 1 /\ origin[s] \in 0 .. MaxSeq + 1
        /\ handled[s] \in SUBSET Seqs /\ saved[s] <= Last /\ saved[s] <= saved[s]
    BY <1>1, <1>2, <1>7 DEF Resume, TypeOK, Positions, NoCursor
  <2>2. \A q \in Seqs : origin[s] < q /\ q <= saved[s] /\ Due(s, q) => q \in handled[s]
    BY <1>2 DEF SavedInFull
  <2> QED
    BY <1>7, <2>1, <2>2, StartInv DEF Resume
<1>8. CASE AcceptGap(s)
  <2>1. /\ err[s].oldest \in 0 .. MaxSeq + 1 /\ 1 <= err[s].oldest
        /\ pc[s] = "ended" /\ cursor[s] < err[s].oldest
        /\ cursor[s] \in Nat /\ taken[s] \in Nat /\ saved[s] \in Int
    BY <1>1, <1>2, <1>8 DEF AcceptGap, GapRecord, TypeOK, NoCursor
  <2>2. saved[s] <= taken[s] /\ taken[s] <= cursor[s]
    BY <1>2, <2>1 DEF Positions
  <2> DEFINE n == err[s].oldest - 1
  <2>3. n \in 0 .. MaxSeq + 1 /\ n \in Nat /\ saved[s] <= n
    BY <1>1, <2>1, <2>2
  <2>4. Start(s, "seq", n, n, {})
    BY <1>8 DEF AcceptGap
  <2> HIDE DEF n
  <2>5. \A q \in Seqs : n < q /\ q <= n /\ Due(s, q) => q \in {}
    BY <1>1, <2>3
  <2> QED
    BY <1>1, <2>3, <2>4, <2>5, StartInv
<1> QED
  BY <1>4, <1>5, <1>6, <1>7, <1>8 DEF Watch

\* A poll that finds no gap reads a batch that skips nothing due.
LEMMA FetchInv ==
  ASSUME TypeOK, IndInv, NEW s \in Subs, Fetch(s)
  PROVE  IndInv'
<1> DEFINE gap == GapCheck(cursor[s])
           rows == FirstN(Pending(s), EventsBatch)
<1>1. /\ pc[s] = "poll" /\ UNCHANGED <<logVars, cursor, queue, appVars, saved>>
  BY DEF Fetch
<1>2. Last' = Last /\ Seqs' = Seqs /\ retained' = retained /\ \A q : Due(s, q)' = Due(s, q)
  BY <1>1 DEF Last, Seqs, logVars, Due, Matches
<1>3. /\ SubInv(s) /\ Ordered(s) /\ ReceivedInFull(s) /\ QueuedInFull(s) /\ Positions(s)
      /\ GapRecord(s) /\ SavedInFull(s) /\ batch[s] = {}
  BY <1>1 DEF IndInv, SubInv, Positions
<1>4. Ordered(s)' /\ ReceivedInFull(s)' /\ QueuedInFull(s)' /\ SavedInFull(s)'
  BY <1>1, <1>2, <1>3 DEF Ordered, ReceivedInFull, QueuedInFull, SavedInFull, appVars
<1>5. cursor[s] \in 0 .. MaxSeq + 1 /\ cursor[s] \in Nat
  BY EventLogAssumption DEF TypeOK
<1>6. CASE gap # NoGap
  <2>1. /\ err' = [err EXCEPT ![s] = gap] /\ pc' = [pc EXCEPT ![s] = "ended"]
        /\ batch' = batch
    BY <1>6 DEF Fetch
  <2>2. /\ gap.kind = "lost" => cursor[s] < Oldest - 1 /\ gap.oldest = Oldest
    BY <1>5, GapFacts
  <2> HIDE DEF gap
  <2>3. err'[s] = gap /\ pc'[s] = "ended" /\ batch'[s] = batch[s]
    BY <2>1 DEF TypeOK
  <2>4. BatchInFull(s)' /\ Positions(s)'
    BY <1>1, <1>2, <1>3, <2>3 DEF BatchInFull, Positions, appVars
  <2>5. GapRecord(s)'
    BY <1>1, <1>2, <1>5, <2>2, <2>3, OldestType DEF GapRecord
  <2>6. SubInv(s)'
    BY <1>4, <2>4, <2>5 DEF SubInv
  <2> QED
    BY <1>1, <2>1, <2>6, OneSub DEF appVars, TypeOK
<1>7. CASE gap = NoGap
  <2>1. /\ err' = err /\ batch' = [batch EXCEPT ![s] = rows]
        /\ pc' = [pc EXCEPT ![s] = IF rows = {} THEN "wait" ELSE "send"]
    BY <1>7 DEF Fetch
  <2>2. Last \in Nat /\ Pending(s) \in SUBSET (1 .. Last) /\ EventsBatch \in Nat
    <3>1. Last \in Nat /\ EventsBatch \in Nat
      BY OldestType, EventLogAssumption
    <3>2. retained \in SUBSET (1 .. Last)
      BY DEF TypeOK, Seqs
    <3> QED
      BY <3>1, <3>2 DEF Pending
  <2>3. ASSUME NEW b \in rows, NEW q \in Seqs, cursor[s] < q, q < b, Due(s, q)
        PROVE  q \in rows
    <3>1. q \in retained
      BY <1>5, <1>7, <2>3, NoGapMeansRetained DEF IndInv, Due
    <3>2. q \in Pending(s)
      BY <2>3, <3>1 DEF Pending, Due
    <3> QED
      BY <2>2, <2>3, <3>2, FirstNIsPrefix
  <2>4. rows \in SUBSET Seqs /\ \A b \in rows : b > cursor[s]
    BY <2>2 DEF FirstN, Pending, Seqs
  <2> HIDE DEF rows
  <2>5. /\ err'[s] = err[s] /\ batch'[s] = rows
        /\ pc'[s] = IF rows = {} THEN "wait" ELSE "send"
    BY <2>1 DEF TypeOK
  <2>6. BatchInFull(s)'
    BY <1>1, <1>2, <2>3, <2>4, <2>5 DEF BatchInFull
  <2>7. Positions(s)'
    BY <1>1, <1>2, <1>3, <2>4, <2>5 DEF Positions, appVars
  <2>8. GapRecord(s)'
    BY <1>1, <1>3, <2>5 DEF GapRecord
  <2>9. SubInv(s)'
    BY <1>4, <2>6, <2>7, <2>8 DEF SubInv
  <2> QED
    BY <1>1, <2>1, <2>9, OneSub DEF appVars, TypeOK
<1> QED
  BY <1>6, <1>7

\* Appending to a sequence of seqs.
LEMMA AppendFacts ==
  ASSUME NEW n \in Nat, NEW Q \in Seq(1 .. n), NEW m \in 1 .. n
  PROVE  /\ Len(Q) \in Nat /\ Len(Append(Q, m)) = Len(Q) + 1
         /\ Append(Q, m)[Len(Q) + 1] = m
         /\ \A i \in 1 .. Len(Q) : Append(Q, m)[i] = Q[i] /\ Q[i] \in Nat
         /\ Range(Append(Q, m)) = Range(Q) \cup {m}
<1>1. /\ Len(Q) \in Nat /\ Len(Append(Q, m)) = Len(Q) + 1
      /\ Append(Q, m)[Len(Q) + 1] = m
      /\ \A i \in 1 .. Len(Q) : Append(Q, m)[i] = Q[i]
  OBVIOUS
<1>2. \A i \in 1 .. Len(Q) : Q[i] \in 1 .. n
  OBVIOUS
<1>3. \A i \in 1 .. Len(Q) : Q[i] \in Nat
  BY <1>2
<1>4. DOMAIN Append(Q, m) = 1 .. Len(Q) + 1 /\ DOMAIN Q = 1 .. Len(Q)
  OBVIOUS
<1>5. Range(Append(Q, m)) = Range(Q) \cup {m}
  <2>1. ASSUME NEW x \in Range(Append(Q, m)) PROVE x \in Range(Q) \cup {m}
    <3>1. PICK i \in 1 .. Len(Q) + 1 : x = Append(Q, m)[i]
      BY <1>4 DEF Range
    <3>2. CASE i = Len(Q) + 1
      BY <1>1, <3>1, <3>2
    <3>3. CASE i \in 1 .. Len(Q)
      BY <1>1, <1>4, <3>1, <3>3 DEF Range
    <3> QED
      BY <1>1, <3>2, <3>3
  <2>2. m \in Range(Append(Q, m))
    <3>1. Len(Q) + 1 \in 1 .. Len(Q) + 1
      BY <1>1
    <3> QED
      BY <1>1, <1>4, <3>1 DEF Range
  <2>3. ASSUME NEW x \in Range(Q) PROVE x \in Range(Append(Q, m))
    <3>1. PICK i \in 1 .. Len(Q) : x = Q[i]
      BY <1>4 DEF Range
    <3>2. i \in 1 .. Len(Q) + 1 /\ x = Append(Q, m)[i]
      BY <1>1, <3>1
    <3> QED
      BY <1>4, <3>2 DEF Range
  <2> QED
    BY <2>1, <2>2, <2>3
<1> QED
  BY <1>1, <1>3, <1>5

\* Sending the least row of the batch moves the cursor over nothing else due.
LEMMA SendInv ==
  ASSUME TypeOK, IndInv, NEW s \in Subs, Send(s)
  PROVE  IndInv'
<1> DEFINE m == Min(batch[s])
<1>1. /\ pc[s] = "send"
      /\ queue' = [queue EXCEPT ![s] = Append(@, m)]
      /\ cursor' = [cursor EXCEPT ![s] = m]
      /\ batch' = [batch EXCEPT ![s] = @ \ {m}]
      /\ pc' = [pc EXCEPT ![s] = IF ~(batch[s] = {m}) THEN "send"
                                 ELSE IF more[s] THEN "poll" ELSE "wait"]
      /\ UNCHANGED <<logVars, err, appVars, saved>>
  BY DEF Send
<1>2. /\ SubInv(s) /\ Ordered(s) /\ ReceivedInFull(s) /\ QueuedInFull(s) /\ BatchInFull(s)
      /\ Positions(s) /\ GapRecord(s) /\ SavedInFull(s) /\ batch[s] # {}
      /\ batch[s] \in SUBSET Seqs
  BY <1>1 DEF IndInv, SubInv, Positions
<1>3. Last \in Nat /\ \A q \in Seqs : q \in Nat /\ q <= Last
  BY OldestType DEF Seqs
<1>4. m \in batch[s] /\ \A b \in batch[s] : m <= b
  <2>1. batch[s] \in SUBSET Nat
    BY <1>2, <1>3
  <2> QED
    BY <1>2, <2>1, MinIsLeast
<1> HIDE DEF m
<1>5. /\ cursor[s] \in Nat /\ taken[s] \in Nat /\ saved[s] \in Int
      /\ m \in Seqs /\ m \in Nat /\ m > cursor[s]
      /\ queue[s] \in Seq(1 .. MaxSeq) /\ m \in 1 .. MaxSeq
  BY <1>2, <1>3, <1>4, SeqsBound, EventLogAssumption, SMTT(30) DEF TypeOK, BatchInFull, NoCursor
<1>6. /\ queue'[s] = Append(queue[s], m) /\ cursor'[s] = m /\ batch'[s] = batch[s] \ {m}
      /\ pc'[s] = (IF ~(batch[s] = {m}) THEN "send" ELSE IF more[s] THEN "poll" ELSE "wait")
      /\ err'[s] = err[s] /\ taken'[s] = taken[s] /\ origin'[s] = origin[s]
      /\ handled'[s] = handled[s] /\ saved'[s] = saved[s]
  BY <1>1 DEF TypeOK, appVars
<1>7. Last' = Last /\ Seqs' = Seqs /\ retained' = retained /\ \A q : Due(s, q)' = Due(s, q)
  BY <1>1 DEF Last, Seqs, logVars, Due, Matches
<1>8. /\ Len(queue'[s]) = Len(queue[s]) + 1 /\ Len(queue[s]) \in Nat
      /\ queue'[s][Len(queue[s]) + 1] = m
      /\ \A i \in 1 .. Len(queue[s]) : queue'[s][i] = queue[s][i]
      /\ Range(queue'[s]) = Range(queue[s]) \cup {m}
      /\ \A i \in 1 .. Len(queue[s]) : queue[s][i] \in Nat
  BY <1>5, <1>6, SeqsBound, AppendFacts, SMTT(30)
<1>9. taken[s] <= cursor[s] /\ saved[s] <= taken[s]
  BY <1>1, <1>2 DEF Positions
<1>10. Ordered(s)'
  <2>1. ASSUME NEW i \in 1 .. Len(queue'[s])
        PROVE  taken[s] < queue'[s][i] /\ queue'[s][i] <= m
    <3>1. CASE i = Len(queue[s]) + 1
      BY <1>5, <1>8, <1>9, <3>1
    <3>2. CASE i \in 1 .. Len(queue[s])
      <4>1. /\ queue'[s][i] = queue[s][i] /\ queue[s][i] \in Nat
            /\ taken[s] < queue[s][i] /\ queue[s][i] <= cursor[s]
        BY <1>2, <1>8, <3>2 DEF Ordered
      <4> QED
        BY <1>5, <4>1
    <3> QED
      BY <1>8, <3>1, <3>2
  <2>2. ASSUME NEW i \in 1 .. Len(queue'[s]), NEW j \in 1 .. Len(queue'[s]), i < j
        PROVE  queue'[s][i] < queue'[s][j]
    <3>1. i \in 1 .. Len(queue[s])
      BY <1>8, <2>2
    <3>2. CASE j \in 1 .. Len(queue[s])
      <4>1. queue[s][i] < queue[s][j]
        BY <1>2, <2>2, <3>1, <3>2 DEF Ordered
      <4> QED
        BY <1>8, <3>1, <3>2, <4>1
    <3>3. CASE j = Len(queue[s]) + 1
      <4>1. queue'[s][i] = queue[s][i] /\ queue[s][i] \in Nat /\ queue[s][i] <= cursor[s]
        BY <1>2, <1>8, <3>1 DEF Ordered
      <4> QED
        BY <1>5, <1>8, <3>3, <4>1
    <3> QED
      BY <1>8, <3>2, <3>3
  <2> QED
    BY <1>6, <2>1, <2>2 DEF Ordered
<1>11. ReceivedInFull(s)' /\ SavedInFull(s)'
  BY <1>2, <1>6, <1>7 DEF ReceivedInFull, SavedInFull
<1>12. QueuedInFull(s)'
  <2>1. ASSUME NEW q \in Seqs, taken[s] < q, q <= m, Due(s, q)
        PROVE  q \in Range(queue[s]) \cup {m}
    <3>1. CASE q <= cursor[s]
      BY <1>2, <2>1, <3>1 DEF QueuedInFull
    <3>2. CASE cursor[s] < q /\ q < m
      <4>1. q \in batch[s]
        BY <1>2, <1>4, <2>1, <3>2 DEF BatchInFull
      <4>2. q \in Nat /\ m <= q
        BY <1>3, <1>4, <4>1
      <4> QED
        BY <1>5, <3>2, <4>2
    <3> QED
      BY <1>3, <1>5, <2>1, <3>1, <3>2
  <2> QED
    BY <1>6, <1>7, <1>8, <2>1 DEF QueuedInFull
<1>13. BatchInFull(s)'
  <2>1. ASSUME NEW b \in batch[s] \ {m} PROVE b > m
    <3>1. b \in Nat /\ m <= b /\ b # m
      BY <1>2, <1>3, <1>4
    <3> QED
      BY <1>5, <3>1
  <2>2. ASSUME NEW b \in batch[s] \ {m}, NEW q \in Seqs, m < q, q < b, Due(s, q)
        PROVE  q \in batch[s] \ {m}
    <3>1. cursor[s] < q /\ q # m
      <4>1. q \in Nat
        BY <1>3
      <4> QED
        BY <1>5, <2>2, <4>1
    <3> QED
      BY <1>2, <2>2, <3>1 DEF BatchInFull
  <2> QED
    BY <1>6, <1>7, <2>1, <2>2 DEF BatchInFull
<1>14. Positions(s)'
  <2>1. /\ taken[s] <= m /\ saved[s] <= taken[s] /\ m <= Last /\ saved[s] <= Last
        /\ handled[s] \subseteq Seqs
    BY <1>2, <1>3, <1>5, <1>9 DEF Positions
  <2>2. Range(queue[s]) \cup {m} \subseteq Seqs /\ batch[s] \ {m} \subseteq Seqs
    BY <1>2, <1>5 DEF Positions
  <2>3. pc'[s] = "send" <=> batch[s] \ {m} # {}
    BY <1>4, <1>6
  <2> QED
    BY <1>6, <1>7, <1>8, <2>1, <2>2, <2>3 DEF Positions
<1>15. GapRecord(s)'
  BY <1>1, <1>2, <1>6 DEF GapRecord
<1>16. SubInv(s)'
  BY <1>10, <1>11, <1>12, <1>13, <1>14, <1>15 DEF SubInv
<1>17. \A t \in Subs \ {s} :
            /\ pc'[t] = pc[t] /\ cursor'[t] = cursor[t] /\ batch'[t] = batch[t]
            /\ queue'[t] = queue[t] /\ err'[t] = err[t] /\ taken'[t] = taken[t]
            /\ origin'[t] = origin[t] /\ handled'[t] = handled[t] /\ saved'[t] = saved[t]
  BY <1>1 DEF TypeOK, appVars
<1> QED
  BY <1>1, <1>16, <1>17, OneSub

\* Receiving the head of the channel moves `taken` over nothing else due.
LEMMA ReceiveInv ==
  ASSUME TypeOK, IndInv, NEW s \in Subs, Receive(s)
  PROVE  IndInv'
<1> DEFINE h == Head(queue[s])
<1>1. /\ pc[s] # "none" /\ queue[s] # << >>
      /\ queue' = [queue EXCEPT ![s] = Tail(@)]
      /\ taken' = [taken EXCEPT ![s] = h]
      /\ handled' = [handled EXCEPT ![s] = @ \cup {h}]
      /\ UNCHANGED <<logVars, pc, cursor, batch, err, origin, saved>>
  BY DEF Receive
<1>2. /\ SubInv(s) /\ Ordered(s) /\ ReceivedInFull(s) /\ QueuedInFull(s) /\ BatchInFull(s)
      /\ Positions(s) /\ GapRecord(s) /\ SavedInFull(s)
  BY <1>1 DEF IndInv, SubInv
<1>3. Last \in Nat /\ \A q \in Seqs : q \in Nat /\ q <= Last
  BY OldestType DEF Seqs
<1>4. /\ cursor[s] \in Nat /\ taken[s] \in Nat /\ saved[s] \in Int /\ origin[s] \in Nat
      /\ queue[s] \in Seq(1 .. MaxSeq)
  BY EventLogAssumption DEF TypeOK, NoCursor
<1>5. /\ Len(queue[s]) \in Nat \ {0} /\ Len(Tail(queue[s])) = Len(queue[s]) - 1
      /\ h = queue[s][1]
      /\ \A i \in 1 .. Len(queue[s]) - 1 : Tail(queue[s])[i] = queue[s][i + 1]
      /\ DOMAIN queue[s] = 1 .. Len(queue[s])
      /\ DOMAIN Tail(queue[s]) = 1 .. Len(queue[s]) - 1
  BY <1>1, <1>4
<1>6. /\ \A i \in 1 .. Len(queue[s]) : queue[s][i] \in Seqs /\ queue[s][i] \in Nat
      /\ h \in Seqs /\ h \in Nat
      /\ taken[s] < h /\ h <= cursor[s]
  <2>1. \A i \in 1 .. Len(queue[s]) : queue[s][i] \in Range(queue[s])
    BY <1>5 DEF Range
  <2>2. \A i \in 1 .. Len(queue[s]) : queue[s][i] \in Seqs /\ queue[s][i] \in Nat
    BY <1>2, <1>3, <2>1 DEF Positions
  <2>3. 1 \in 1 .. Len(queue[s])
    BY <1>5
  <2> QED
    BY <1>2, <1>5, <2>2, <2>3 DEF Ordered
<1>7. /\ Range(Tail(queue[s])) \subseteq Range(queue[s])
      /\ \A q \in Range(queue[s]) : q # h => q \in Range(Tail(queue[s]))
  <2>1. ASSUME NEW q \in Range(Tail(queue[s])) PROVE q \in Range(queue[s])
    <3>1. PICK i \in 1 .. Len(queue[s]) - 1 : q = Tail(queue[s])[i]
      BY <1>5 DEF Range
    <3>2. q = queue[s][i + 1] /\ i + 1 \in 1 .. Len(queue[s])
      BY <1>5, <3>1
    <3> QED
      BY <1>5, <3>2 DEF Range
  <2>2. ASSUME NEW q \in Range(queue[s]), q # h PROVE q \in Range(Tail(queue[s]))
    <3>1. PICK i \in 1 .. Len(queue[s]) : q = queue[s][i]
      BY <1>5 DEF Range
    <3>2. i # 1
      BY <1>5, <2>2, <3>1
    <3>3. i - 1 \in 1 .. Len(queue[s]) - 1 /\ (i - 1) + 1 = i
      BY <1>5, <3>1, <3>2
    <3>4. q = Tail(queue[s])[i - 1]
      BY <1>5, <3>1, <3>3
    <3> QED
      BY <1>5, <3>3, <3>4 DEF Range
  <2> QED
    BY <2>1, <2>2
<1> HIDE DEF h
<1>8. /\ queue'[s] = Tail(queue[s]) /\ taken'[s] = h /\ handled'[s] = handled[s] \cup {h}
      /\ pc'[s] = pc[s] /\ cursor'[s] = cursor[s] /\ batch'[s] = batch[s]
      /\ err'[s] = err[s] /\ origin'[s] = origin[s] /\ saved'[s] = saved[s]
  BY <1>1 DEF TypeOK
<1>9. Last' = Last /\ Seqs' = Seqs /\ retained' = retained /\ \A q : Due(s, q)' = Due(s, q)
  BY <1>1 DEF Last, Seqs, logVars, Due, Matches
<1>10. Ordered(s)'
  <2>1. ASSUME NEW i \in 1 .. Len(queue[s]) - 1
        PROVE  /\ i + 1 \in 1 .. Len(queue[s]) /\ 1 < i + 1 /\ 1 \in 1 .. Len(queue[s])
               /\ Tail(queue[s])[i] = queue[s][i + 1]
    BY <1>5
  <2>2. ASSUME NEW i \in 1 .. Len(queue[s]) - 1
        PROVE  h < Tail(queue[s])[i] /\ Tail(queue[s])[i] <= cursor[s]
    BY <1>2, <1>5, <2>1 DEF Ordered
  <2>3. ASSUME NEW i \in 1 .. Len(queue[s]) - 1, NEW j \in 1 .. Len(queue[s]) - 1, i < j
        PROVE  Tail(queue[s])[i] < Tail(queue[s])[j]
    <3>1. i + 1 < j + 1
      BY <2>3
    <3> QED
      BY <1>2, <2>1, <3>1 DEF Ordered
  <2> QED
    BY <1>5, <1>8, <2>2, <2>3 DEF Ordered
<1>11. ReceivedInFull(s)'
  <2>1. ASSUME NEW q \in Seqs, origin[s] < q, q <= h, Due(s, q)
        PROVE  q \in handled[s] \cup {h}
    <3>1. CASE q <= taken[s]
      BY <1>2, <2>1, <3>1 DEF ReceivedInFull
    <3>2. CASE taken[s] < q /\ q # h
      <4>1. q \in Range(queue[s])
        BY <1>2, <1>3, <1>4, <1>6, <2>1, <3>2 DEF QueuedInFull
      <4>2. PICK i \in 1 .. Len(queue[s]) : q = queue[s][i]
        BY <1>5, <4>1 DEF Range
      <4>3. i # 1 /\ 1 \in 1 .. Len(queue[s]) /\ 1 < i
        BY <1>5, <3>2, <4>2
      <4>4. h < q
        BY <1>2, <1>5, <4>2, <4>3 DEF Ordered
      <4> QED
        BY <1>3, <1>6, <2>1, <4>4
    <3> QED
      BY <1>3, <1>4, <2>1, <3>1, <3>2
  <2> QED
    BY <1>8, <1>9, <2>1 DEF ReceivedInFull
<1>12. QueuedInFull(s)'
  <2>1. ASSUME NEW q \in Seqs, h < q, q <= cursor[s], Due(s, q)
        PROVE  q \in Range(Tail(queue[s]))
    <3>1. taken[s] < q /\ q # h
      <4>1. q \in Nat
        BY <1>3
      <4> QED
        BY <1>4, <1>6, <2>1, <4>1
    <3> QED
      BY <1>2, <1>7, <2>1, <3>1 DEF QueuedInFull
  <2> QED
    BY <1>8, <1>9, <2>1 DEF QueuedInFull
<1>13. BatchInFull(s)' /\ SavedInFull(s)' /\ GapRecord(s)'
  BY <1>2, <1>8, <1>9 DEF BatchInFull, SavedInFull, GapRecord
<1>14. Positions(s)'
  <2>1. h <= cursor[s] /\ saved[s] <= h /\ saved[s] <= Last
        /\ (cursor[s] <= Last \/ (cursor[s] = taken[s] /\ taken[s] = origin[s]))
    BY <1>1, <1>2, <1>4, <1>6 DEF Positions
  <2>2. cursor[s] <= Last
    BY <1>3, <1>4, <1>6, <2>1
  <2>3. handled[s] \cup {h} \subseteq Seqs /\ Range(Tail(queue[s])) \subseteq Seqs
        /\ batch[s] \subseteq Seqs /\ (pc[s] = "send" <=> batch[s] # {})
    BY <1>2, <1>6, <1>7 DEF Positions
  <2> QED
    BY <1>8, <1>9, <2>1, <2>2, <2>3 DEF Positions
<1>15. SubInv(s)'
  BY <1>10, <1>11, <1>12, <1>13, <1>14 DEF SubInv
<1>16. \A t \in Subs \ {s} :
            /\ pc'[t] = pc[t] /\ cursor'[t] = cursor[t] /\ batch'[t] = batch[t]
            /\ queue'[t] = queue[t] /\ err'[t] = err[t] /\ taken'[t] = taken[t]
            /\ origin'[t] = origin[t] /\ handled'[t] = handled[t] /\ saved'[t] = saved[t]
  BY <1>1 DEF TypeOK
<1> QED
  BY <1>1, <1>15, <1>16, OneSub

\* The steps of s that move neither its cursor nor its position.
LEMMA QuietInv ==
  ASSUME TypeOK, IndInv, NEW s \in Subs,
         Stopped(s) \/ FetchError(s) \/ WaitOver(s) \/ Close(s)
  PROVE  IndInv'
<1>1. /\ UNCHANGED <<logVars, cursor, queue, err, appVars, saved>>
      /\ err[s].kind = "lost" => pc[s] = "ended"
      /\ SubInv(s)
      /\ \A t \in Subs \ {s} : pc'[t] = pc[t] /\ batch'[t] = batch[t]
  BY DEF Stopped, FetchError, WaitOver, Close, TypeOK, IndInv, SubInv, GapRecord
<1>2. Last' = Last /\ Seqs' = Seqs /\ retained' = retained /\ \A q : Due(s, q)' = Due(s, q)
  BY <1>1 DEF Last, Seqs, logVars, Due, Matches
<1>3. /\ batch'[s] \in {batch[s], {}}
      /\ pc[s] # "none" /\ pc'[s] # "none"
      /\ pc'[s] = "send" <=> batch'[s] # {}
      /\ pc[s] = "ended" => pc'[s] = "ended"
  BY <1>1 DEF Stopped, FetchError, WaitOver, Close, TypeOK, SubInv, Positions
<1>4. Ordered(s)' /\ ReceivedInFull(s)' /\ QueuedInFull(s)' /\ SavedInFull(s)'
  BY <1>1, <1>2, <1>3 DEF SubInv, Ordered, ReceivedInFull, QueuedInFull, SavedInFull, appVars
<1>5. BatchInFull(s)'
  BY <1>1, <1>2, <1>3 DEF SubInv, BatchInFull
<1>6. Positions(s)'
  BY <1>1, <1>2, <1>3 DEF SubInv, Positions, appVars
<1>7. GapRecord(s)'
  BY <1>1, <1>2, <1>3 DEF SubInv, GapRecord
<1>8. SubInv(s)'
  BY <1>4, <1>5, <1>6, <1>7 DEF SubInv
<1> QED
  BY <1>1, <1>8, OneSub DEF appVars

\* Saving the position of a handled event.
LEMMA SaveInv ==
  ASSUME TypeOK, IndInv, NEW s \in Subs, SaveCursor(s)
  PROVE  IndInv'
<1>1. /\ UNCHANGED <<logVars, pollVars, appVars>>
      /\ saved' = [saved EXCEPT ![s] = taken[s]]
      /\ pc[s] # "none" /\ taken[s] \in handled[s] /\ SubInv(s)
  BY DEF SaveCursor, IndInv
<1>2. Last' = Last /\ Seqs' = Seqs /\ retained' = retained /\ \A q : Due(s, q)' = Due(s, q)
  BY <1>1 DEF Last, Seqs, logVars, Due, Matches
<1>3. saved'[s] = taken[s] /\ \A t \in Subs \ {s} : saved'[t] = saved[t]
  BY <1>1 DEF TypeOK
<1>4. taken[s] \in Nat /\ taken[s] <= Last
  BY <1>1, OldestType, EventLogAssumption DEF SubInv, Positions, Seqs, TypeOK
<1>5. /\ Ordered(s)' /\ ReceivedInFull(s)' /\ QueuedInFull(s)' /\ BatchInFull(s)'
      /\ GapRecord(s)'
  BY <1>1, <1>2 DEF SubInv, Ordered, ReceivedInFull, QueuedInFull, BatchInFull, GapRecord,
                    pollVars, appVars
<1>6. SavedInFull(s)'
  BY <1>1, <1>2, <1>3 DEF SubInv, ReceivedInFull, SavedInFull, appVars
<1>7. Positions(s)'
  BY <1>1, <1>2, <1>3, <1>4 DEF SubInv, Positions, pollVars, appVars
<1>8. SubInv(s)'
  BY <1>5, <1>6, <1>7 DEF SubInv
<1> QED
  BY <1>1, <1>3, <1>8, OneSub DEF pollVars, appVars

\* A crash leaves only what is durable: rows, saved cursors, handled events.
LEMMA CrashInv ==
  ASSUME TypeOK, IndInv, NEW c \in Caches, Crash(c)
  PROVE  IndInv'
<1>1. UNCHANGED <<logVars, origin, handled, saved>>
  BY CrashFacts
<1>2. RetentionLeavesNoHole'
  BY <1>1 DEF IndInv, RetentionLeavesNoHole, Seqs, Last, logVars
<1>3. ASSUME NEW t \in Subs PROVE SubInv(t)'
  <2>1. CASE CacheOf[t] # c
    <3>1. /\ pc'[t] = pc[t] /\ cursor'[t] = cursor[t] /\ batch'[t] = batch[t]
          /\ queue'[t] = queue[t] /\ err'[t] = err[t] /\ taken'[t] = taken[t]
      <4>1. pc'[t] = pc[t]
        <5>1. pc' = [s \in Subs |-> IF CacheOf[s] = c THEN "none" ELSE pc[s]]
          BY CrashFacts
        <5> QED
          BY <2>1, <5>1
      <4>2. cursor'[t] = cursor[t]
        <5>1. cursor' = [s \in Subs |-> IF CacheOf[s] = c THEN 0 ELSE cursor[s]]
          BY CrashFacts
        <5> QED
          BY <2>1, <5>1
      <4>3. batch'[t] = batch[t]
        <5>1. batch' = [s \in Subs |-> IF CacheOf[s] = c THEN {} ELSE batch[s]]
          BY CrashFacts
        <5> QED
          BY <2>1, <5>1
      <4>4. queue'[t] = queue[t]
        <5>1. queue' = [s \in Subs |-> IF CacheOf[s] = c THEN << >> ELSE queue[s]]
          BY CrashFacts
        <5> QED
          BY <2>1, <5>1
      <4>5. err'[t] = err[t]
        <5>1. err' = [s \in Subs |-> IF CacheOf[s] = c THEN NoGap ELSE err[s]]
          BY CrashFacts
        <5> QED
          BY <2>1, <5>1
      <4>6. taken'[t] = taken[t]
        <5>1. taken' = [s \in Subs |-> IF CacheOf[s] = c THEN 0 ELSE taken[s]]
          BY CrashFacts
        <5> QED
          BY <2>1, <5>1
      <4> QED
        BY <4>1, <4>2, <4>3, <4>4, <4>5, <4>6
    <3> QED
      BY <1>1, <3>1, SubFrame DEF IndInv, logVars
  <2>2. CASE CacheOf[t] = c
    <3>1. /\ pc'[t] = "none" /\ cursor'[t] = 0 /\ batch'[t] = {}
          /\ queue'[t] = << >> /\ err'[t] = NoGap /\ taken'[t] = 0
      BY <2>2, CrashFacts
    <3>2. Last' = Last /\ Seqs' = Seqs /\ \A q : Due(t, q)' = Due(t, q)
      BY <1>1 DEF Last, Seqs, logVars, Due, Matches
    <3>3. Ordered(t)'
      BY <3>1 DEF Ordered
    <3>4. BatchInFull(t)'
      BY <3>1 DEF BatchInFull
    <3>5. Range(<< >>) = {}
      BY DEF Range
    <3>6. Positions(t)'
      BY <1>1, <3>1, <3>2, <3>5 DEF Positions, IndInv, SubInv
    <3>7. GapRecord(t)'
      BY <3>1 DEF GapRecord, NoGap
    <3>8. SavedInFull(t)'
      BY <1>1, <3>2 DEF SavedInFull, IndInv, SubInv
    <3> QED
      BY <3>1, <3>3, <3>4, <3>6, <3>7, <3>8 DEF SubInv
  <2> QED
    BY <2>1, <2>2
<1> QED
  BY <1>2, <1>3 DEF IndInv

\* The invariant holds initially.
LEMMA InitInv ==
  ASSUME Init
  PROVE  TypeOK /\ IndInv
<1> USE EventLogAssumption
<1>1. Last = 0 /\ Seqs = {}
  BY DEF Init, Last, Seqs
<1>2. TypeOK
  <2>1. /\ published \in Seq(Event) /\ Last <= MaxSeq
        /\ retained \in SUBSET Seqs /\ purged \in SUBSET Seqs /\ now \in 0 .. MaxTime
    BY <1>1 DEF Init
  <2>2. /\ sweep \in [Caches -> [at : {"idle", "cap", "delete"}, bound : 0 .. MaxSeq]]
        /\ err \in [Subs -> [kind : {"none", "lost", "ahead"}, oldest : 0 .. MaxSeq + 1]]
    BY DEF Init, NoBound, NoGap
  <2>3. /\ queue \in [Subs -> Seq(1 .. MaxSeq)]
        /\ \A s \in Subs : Len(queue[s]) <= QueueCap
    BY DEF Init
  <2>4. saved \in [Subs -> {NoCursor} \cup 0 .. MaxSeq + 1]
    BY DEF Init
  <2> QED
    BY <2>1, <2>2, <2>3, <2>4 DEF Init, TypeOK
<1>3. RetentionLeavesNoHole
  BY <1>1 DEF RetentionLeavesNoHole
<1>4. ASSUME NEW s \in Subs PROVE SubInv(s)
  <2>1. /\ pc[s] = "none" /\ cursor[s] = 0 /\ batch[s] = {} /\ queue[s] = << >>
        /\ err[s] = NoGap /\ taken[s] = 0 /\ handled[s] = {} /\ saved[s] = -1
    BY DEF Init, NoCursor
  <2>2. Range(<< >>) = {}
    BY DEF Range
  <2>3. Ordered(s)
    BY <2>1 DEF Ordered
  <2>4. Positions(s)
    BY <1>1, <2>1, <2>2 DEF Positions
  <2> QED
    BY <1>1, <2>1, <2>3, <2>4 DEF SubInv, BatchInFull, GapRecord, SavedInFull, NoGap
<1> QED
  BY <1>2, <1>3, <1>4 DEF IndInv

\* The invariant is inductive.
LEMMA InvStep ==
  ASSUME TypeOK, IndInv, [Next]_vars
  PROVE  IndInv'
<1>1. CASE ClockStep
  BY <1>1, FrameInv DEF ClockStep, pollVars
<1>2. ASSUME NEW c \in Caches, NEW chs \in ChannelLists, Notify(c, chs) PROVE IndInv'
  BY <1>2, NotifyInv
<1>3. ASSUME NEW c \in Caches,
             SweepAge(c) \/ SweepCap(c) \/ \E t \in 0 .. MaxTime + 1 : DeleteEventsBefore(c, t)
      PROVE  IndInv'
  <2>1. UNCHANGED <<logVars, pollVars, appVars, saved>>
    BY <1>3 DEF SweepAge, SweepCap, DeleteEventsBefore
  <2> QED
    BY <2>1, FrameInv DEF pollVars
<1>4. ASSUME NEW c \in Caches, SweepDelete(c) PROVE IndInv'
  <2> DEFINE S == {q \in retained : q <= sweep[c].bound}
             D == FirstN(S, SweepBatch)
  <2>1. /\ retained' = retained \ D /\ published' = published /\ purged' = purged
        /\ UNCHANGED <<pollVars, appVars, saved>>
    BY <1>4 DEF SweepDelete
  <2>2. /\ Last \in Nat /\ S \in SUBSET (1 .. Last) /\ SweepBatch \in Nat
        /\ sweep[c].bound \in Nat /\ \A q \in retained : q \in Nat
    <3>1. Last \in Nat /\ SweepBatch \in Nat
      BY OldestType, EventLogAssumption
    <3>2. retained \in SUBSET (1 .. Last)
      BY DEF TypeOK, Seqs
    <3>3. sweep[c].bound \in Nat
      BY EventLogAssumption DEF TypeOK
    <3>4. ASSUME NEW q \in retained PROVE q \in 1 .. Last /\ q \in Nat
      BY <3>1, <3>2
    <3> QED
      BY <3>1, <3>3, <3>4
  <2>3. ASSUME NEW q \in D, NEW r \in retained, r < q PROVE r \in D
    <3>1. q \in S
      BY DEF FirstN
    <3>2. r \in S
      BY <2>2, <2>3, <3>1
    <3> HIDE DEF S
    <3> QED
      BY <2>2, <2>3, <3>2, FirstNIsPrefix
  <2>4. D \in SUBSET retained
    BY DEF FirstN
  <2> HIDE DEF D
  <2> QED
    BY <2>1, <2>3, <2>4, RemoveRows
<1>5. ASSUME NEW q \in retained, DeleteEvent(q) PROVE IndInv'
  <2>1. {q} \in SUBSET retained
    OBVIOUS
  <2> QED
    BY <1>5, <2>1, RemoveRows DEF DeleteEvent
<1>6. ASSUME NEW ch \in Channels, DeleteChannelEvents(ch) PROVE IndInv'
  <2>1. PICK D \in SUBSET retained : retained' = retained \ D /\ purged' = purged \cup D
    BY <1>6 DEF DeleteChannelEvents, FirstN
  <2> QED
    BY <1>6, <2>1, RemoveRows DEF DeleteChannelEvents
<1>7. ASSUME NEW s \in Subs, Watch(s) PROVE IndInv'
  BY <1>7, WatchInv
<1>8. ASSUME NEW s \in Subs, Stopped(s) \/ FetchError(s) \/ WaitOver(s) \/ Close(s)
      PROVE  IndInv'
  BY <1>8, QuietInv
<1>9. ASSUME NEW s \in Subs, Fetch(s) PROVE IndInv'
  BY <1>9, FetchInv
<1>10. ASSUME NEW s \in Subs, Send(s) PROVE IndInv'
  BY <1>10, SendInv
<1>11. ASSUME NEW s \in Subs, Receive(s) PROVE IndInv'
  BY <1>11, ReceiveInv
<1>12. ASSUME NEW s \in Subs, SaveCursor(s) PROVE IndInv'
  BY <1>12, SaveInv
<1>13. ASSUME NEW c \in Caches, Crash(c) PROVE IndInv'
  BY <1>13, CrashInv
<1>14. CASE UNCHANGED vars
  BY <1>14, FrameInv DEF vars, pollVars
<1> QED
  BY <1>1, <1>2, <1>3, <1>4, <1>5, <1>6, <1>7, <1>8, <1>9, <1>10, <1>11, <1>12, <1>13, <1>14,
     EventLogAssumption
     DEF Next, Publish, SweepStep, Admin, Poller, App

-----------------------------------------------------------------------------
(* The theorems. *)

\* Type correctness and the inductive invariant hold in every reachable state.
THEOREM EventLogInvariant == Spec => [](TypeOK /\ IndInv)
<1>1. Init => TypeOK /\ IndInv
  BY InitInv
<1>2. (TypeOK /\ IndInv) /\ [Next]_vars => (TypeOK /\ IndInv)'
  BY TypeStep, InvStep
<1> QED
  BY <1>1, <1>2, PTL DEF Spec

\* Rows, cursors, queues and bounds keep their types: no queue overflows.
THEOREM EventLogTypeCorrect == Spec => []TypeOK
BY EventLogInvariant, PTL

\* The invariant implies each safety property of the event log.
LEMMA InvImpliesSafety ==
  ASSUME TypeOK, IndInv
  PROVE  NoSilentLoss /\ RetentionLeavesNoHole /\ InSeqOrder /\ SavedCursorIsSafe
         /\ ResumeSeqSkipsNothing
<1>1. NoSilentLoss
  <2>1. ASSUME NEW s \in Subs, pc[s] # "none", NEW q \in Seqs,
               origin[s] < q, q <= cursor[s], Matches(s, q), q \notin purged
        PROVE  q \in handled[s] \cup Range(queue[s])
    <3>1. ReceivedInFull(s) /\ QueuedInFull(s) /\ Due(s, q)
      BY <2>1 DEF IndInv, SubInv, Due
    <3>2. q \in Nat /\ taken[s] \in Nat
      BY OldestType, EventLogAssumption DEF Seqs, TypeOK
    <3>3. CASE q <= taken[s]
      BY <2>1, <3>1, <3>3 DEF ReceivedInFull
    <3>4. CASE taken[s] < q
      BY <2>1, <3>1, <3>4 DEF QueuedInFull
    <3> QED
      BY <3>2, <3>3, <3>4
  <2> QED
    BY <2>1 DEF NoSilentLoss
<1>2. RetentionLeavesNoHole /\ InSeqOrder
  BY DEF IndInv, SubInv, InSeqOrder
<1>3. SavedCursorIsSafe
  BY DEF IndInv, SubInv, SavedInFull, SavedCursorIsSafe, Due
<1>4. ResumeSeqSkipsNothing
  <2>1. ASSUME NEW s \in Subs, err[s].kind = "lost", NEW q \in retained
        PROVE  q > err[s].oldest - 1
    <3>1. q >= err[s].oldest
      BY <2>1 DEF IndInv, SubInv, GapRecord
    <3>2. q \in Nat
      BY SeqsBound
    <3>3. err[s].oldest \in Nat
      BY EventLogAssumption DEF TypeOK
    <3> QED
      BY <3>1, <3>2, <3>3
  <2> QED
    BY <2>1 DEF ResumeSeqSkipsNothing
<1> QED
  BY <1>1, <1>2, <1>3, <1>4

\* No event that a subscription matches is skipped silently, whatever the
\* retention, the clocks, the failures of polls, the crashes and resumptions.
THEOREM NoSilentLossTheorem == Spec => []NoSilentLoss
BY EventLogInvariant, InvImpliesSafety, PTL

\* Events are delivered in seq order to every subscription.
THEOREM InSeqOrderTheorem == Spec => []InSeqOrder
BY EventLogInvariant, InvImpliesSafety, PTL

\* Retention never leaves a hole below a retained event.
THEOREM RetentionTheorem == Spec => []RetentionLeavesNoHole
BY EventLogInvariant, InvImpliesSafety, PTL

\* A cursor saved after handling covers only handled events.
THEOREM SavedCursorTheorem == Spec => []SavedCursorIsSafe
BY EventLogInvariant, InvImpliesSafety, PTL

\* Resuming at a gap's ResumeSeq skips no event that is still retained.
THEOREM ResumeSeqTheorem == Spec => []ResumeSeqSkipsNothing
BY EventLogInvariant, InvImpliesSafety, PTL

=============================================================================
