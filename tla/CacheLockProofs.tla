--------------------------- MODULE CacheLockProofs ---------------------------
(***************************************************************************)
(* Proofs about CacheLock: its types, and mutual exclusion within the TTL  *)
(* for any number of clients, any timeout, policy and limit, and any       *)
(* interleaving, of the clients whose lock row nobody else removed.        *)
(***************************************************************************)
EXTENDS CacheLock, TLAPS

\* The initial state has its types.
LEMMA TypeInit == Init => TypeOK
<1> SUFFICES ASSUME Init PROVE TypeOK
  OBVIOUS
<1>1. reader \in BOOLEAN /\ lost \subseteq Clients
  BY Zenon DEF Init
<1>2. /\ row \in [token : 0 .. MaxLocks, exp : Nat]
      /\ others \in Nat /\ older \in 0 .. others
      /\ now \in 0 .. MaxTime /\ locks \in 0 .. MaxLocks
  BY CacheLockAssumption DEF Init, NoRow
<1>3. /\ pc \in [Clients -> {"idle", "try", "insert", "wait", "put", "count", "evict", "held"}]
      /\ token \in [Clients -> 0 .. MaxLocks]
      /\ deadline \in [Clients -> Nat]
      /\ at \in [Clients -> 0 .. MaxTime]
      /\ until \in [Clients -> Nat]
  BY CacheLockAssumption DEF Init
<1> QED
  BY <1>1, <1>2, <1>3 DEF TypeOK

\* Every step keeps the types.
LEMMA TypeNext == TypeOK /\ [Next]_vars => TypeOK'
<1> SUFFICES ASSUME TypeOK, [Next]_vars PROVE TypeOK'
  OBVIOUS
<1> USE CacheLockAssumption DEF TypeOK, NoRow, rowVars, RemoveRow
<1>1. CASE Tick
  BY <1>1 DEF Tick
<1>2. ASSUME NEW c \in Clients, Lock(c) PROVE TypeOK'
  BY <1>2 DEF Lock
<1>3. ASSUME NEW c \in Clients, Try(c) PROVE TypeOK'
  BY <1>3 DEF Try, Leave
<1>4. ASSUME NEW c \in Clients, Insert(c) PROVE TypeOK'
  BY <1>4 DEF Insert, InsertWithTTL
<1>5. ASSUME NEW c \in Clients, Wait(c) PROVE TypeOK'
  BY <1>5 DEF Wait, Leave, Goto
<1>6. ASSUME NEW c \in Clients, Release(c) PROVE TypeOK'
  BY <1>6 DEF Release, Leave
<1>7. ASSUME NEW c \in Clients, Crash(c) PROVE TypeOK'
  BY <1>7 DEF Crash, Leave
<1>8. ASSUME NEW c \in Clients, CountRows(c) PROVE TypeOK'
  BY <1>8 DEF CountRows, Goto, WithinLimit, Leave
<1>9. ASSUME NEW c \in Clients, EvictLock(c) PROVE TypeOK'
  BY <1>9 DEF EvictLock, Goto
<1>10. ASSUME NEW c \in Clients, EvictOther(c) PROVE TypeOK'
  BY <1>10 DEF EvictOther, OtherIsFirst, Goto
<1>11. ASSUME NEW c \in Clients, EvictNone(c) \/ EnforceFails(c) PROVE TypeOK'
  BY <1>11 DEF EvictNone, EnforceFails, Goto, WithinLimit, Leave
<1>12. ASSUME NEW c \in Clients, SetOther(c) \/ PutOther(c) PROVE TypeOK'
  BY <1>12 DEF SetOther, PutOther, Goto
<1>13. CASE TouchOther
  BY <1>13 DEF TouchOther
<1>14. CASE Sweep
  BY <1>14 DEF Sweep
<1>15. CASE ReadExpired
  BY <1>15 DEF ReadExpired
<1>16. CASE LazyDelete
  <2>1. reader' \in BOOLEAN
    BY <1>16, Zenon DEF LazyDelete
  <2>2. row' \in [token : 0 .. MaxLocks, exp : Nat]
    BY <1>16 DEF LazyDelete
  <2> QED
    BY <1>16, <2>1, <2>2 DEF LazyDelete
<1>17. CASE Flush
  BY <1>17 DEF Flush
<1>18. CASE UNCHANGED vars
  BY <1>18 DEF vars
<1> QED
  BY <1>1, <1>2, <1>3, <1>4, <1>5, <1>6, <1>7, <1>8, <1>9, <1>10, <1>11, <1>12,
     <1>13, <1>14, <1>15, <1>16, <1>17, <1>18 DEF Next, Client

\* Every variable keeps its type: in particular LRU positions stay within the
\* rows that are there, however evictions interleave.
THEOREM CacheLockTypeCorrect == Spec => []TypeOK
<1>1. TypeOK /\ [Next]_vars => TypeOK'
  BY TypeNext
<1> QED
  BY TypeInit, <1>1, PTL DEF Spec

-----------------------------------------------------------------------------
\* The invariant behind mutual exclusion holds at the start: nobody holds.
LEMMA LockInvInit == Init => LockInv
BY CacheLockAssumption DEF Init, LockInv, TokensDistinct, ClockBehind, InCall,
   HolderOwnsRow, Acquired

\* A client that has the lock finds its own token in the row, which is
\* therefore present and not expired.
LEMMA AcquiredRowIsLive ==
  ASSUME TypeOK, LockInv, NEW d \in Clients, Acquired(d)
  PROVE  Present /\ ~Expired(now) /\ row.token = token[d] /\ token[d] # 0
BY DEF TypeOK, LockInv, InCall, HolderOwnsRow, Acquired, Present, Expired, NoRow

\* Removing the row, whoever does it, leaves nobody with the lock: whoever had
\* it found its own token in the row, and has lost it.
LEMMA RemovedIsLost ==
  ASSUME TypeOK, LockInv, RemoveRow, NEW d \in Clients, Acquired(d)
  PROVE  d \in lost'
<1>1. row.token = token[d] /\ token[d] # 0
  BY AcquiredRowIsLive
<1> QED
  BY <1>1 DEF RemoveRow

\* Every step keeps the invariant: an add replaces the row only when nobody has
\* the lock, a Release removes its own row only, a sweep an expired one, and
\* what removes the row of a holder is recorded.
LEMMA LockInvNext ==
  ASSUME TypeOK, LockInv, [Next]_vars
  PROVE  LockInv'
<1> USE DEF TypeOK, LockInv
<1>1. CASE Tick
  BY <1>1 DEF Tick, TokensDistinct, ClockBehind, InCall, HolderOwnsRow, Acquired, rowVars
<1>2. ASSUME NEW c \in Clients, Lock(c) PROVE LockInv'
  <2> USE <1>2 DEF Lock, rowVars
  <2>1. TokensDistinct'
    BY DEF TokensDistinct
  <2>2. ClockBehind' /\ InCall' /\ HolderOwnsRow'
    BY DEF ClockBehind, InCall, HolderOwnsRow, Acquired
  <2> QED
    BY <2>1, <2>2
<1>3. ASSUME NEW c \in Clients, Try(c) PROVE LockInv'
  BY <1>3 DEF Try, Leave, rowVars, TokensDistinct, ClockBehind, InCall, HolderOwnsRow, Acquired
<1>4. ASSUME NEW c \in Clients, Insert(c) PROVE LockInv'
  <2> USE <1>4 DEF Insert, InsertWithTTL
  <2>1. TokensDistinct' /\ ClockBehind' /\ InCall'
    BY DEF TokensDistinct, ClockBehind, InCall
  <2>2. CASE ~(~Present \/ Expired(at[c]))
    <3>1. HolderOwnsRow'
      BY <2>2 DEF HolderOwnsRow, Acquired
    <3> QED
      BY <2>1, <3>1
  <2>3. CASE ~Present \/ Expired(at[c])
    <3>1. ~Present \/ Expired(now)
      BY <2>3 DEF ClockBehind, Expired
    <3>2. \A d \in Clients : ~Acquired(d)
      BY <3>1, AcquiredRowIsLive
    <3>3. ASSUME NEW d \in Clients, Acquired(d)'
          PROVE  (row.token = token[d] /\ row.exp = until[d])'
      <4>1. d = c
        BY <2>3, <3>2, <3>3 DEF Acquired
      <4> QED
        BY <2>3, <4>1
    <3> QED
      BY <2>1, <3>3 DEF HolderOwnsRow
  <2> QED
    BY <2>2, <2>3
<1>5. ASSUME NEW c \in Clients, Wait(c) PROVE LockInv'
  BY <1>5 DEF Wait, Leave, Goto, rowVars, TokensDistinct, ClockBehind, InCall, HolderOwnsRow, Acquired
<1>6. ASSUME NEW c \in Clients, Release(c) PROVE LockInv'
  <2> USE <1>6 DEF Release, Leave
  <2>1. TokensDistinct' /\ ClockBehind' /\ InCall'
    BY DEF TokensDistinct, ClockBehind, InCall
  <2>2. ASSUME NEW d \in Clients, Acquired(d)' PROVE (row.token = token[d] /\ row.exp = until[d])'
    <3>1. d # c /\ Acquired(d) /\ token'[d] = token[d] /\ until'[d] = until[d]
      BY <2>2 DEF Acquired
    <3>2. row.token = token[d] /\ row.exp = until[d] /\ token[d] # 0
      BY <3>1 DEF HolderOwnsRow, Acquired
    <3>3. row.token # token[c]
      BY <3>1, <3>2 DEF TokensDistinct
    <3> QED
      BY <3>1, <3>2, <3>3
  <2> QED
    BY <2>1, <2>2 DEF HolderOwnsRow
<1>7. ASSUME NEW c \in Clients, Crash(c) PROVE LockInv'
  BY <1>7 DEF Crash, Leave, rowVars, TokensDistinct, ClockBehind, InCall, HolderOwnsRow, Acquired
<1>8. ASSUME NEW c \in Clients, CountRows(c) \/ EvictNone(c) \/ EnforceFails(c)
      PROVE  LockInv'
  BY <1>8 DEF CountRows, EvictNone, EnforceFails, WithinLimit, Goto, Leave, rowVars,
     TokensDistinct, ClockBehind, InCall, HolderOwnsRow, Acquired
<1>9. ASSUME NEW c \in Clients, EvictLock(c) PROVE LockInv'
  <2>1. TokensDistinct' /\ ClockBehind' /\ InCall'
    BY <1>9 DEF EvictLock, TokensDistinct, ClockBehind, InCall
  <2>2. ASSUME NEW d \in Clients, Acquired(d)' PROVE FALSE
    <3>1. Acquired(d)
      BY <1>9, <2>2 DEF EvictLock, RemoveRow, Acquired
    <3> QED
      BY <1>9, <2>2, <3>1, RemovedIsLost DEF EvictLock, Acquired
  <2> QED
    BY <2>1, <2>2 DEF HolderOwnsRow
<1>10. ASSUME NEW c \in Clients, EvictOther(c) PROVE LockInv'
  BY <1>10 DEF EvictOther, Goto, TokensDistinct, ClockBehind, InCall, HolderOwnsRow, Acquired
<1>11. ASSUME NEW c \in Clients, SetOther(c) \/ PutOther(c) PROVE LockInv'
  <2>1. pc[c] \in {"idle", "put"} /\ UNCHANGED <<row, now, locks, token, deadline, at, until, lost>>
        /\ \E l \in {"put", "count", "idle"} : pc' = [pc EXCEPT ![c] = l]
    BY <1>11 DEF SetOther, PutOther, Goto, rowVars
  <2>2. TokensDistinct' /\ ClockBehind' /\ InCall'
    BY <2>1 DEF TokensDistinct, ClockBehind, InCall
  <2>3. token[c] = 0
    BY <2>1 DEF InCall
  <2> QED
    BY <2>1, <2>2, <2>3 DEF HolderOwnsRow, Acquired
<1>12. CASE TouchOther
  BY <1>12 DEF TouchOther, TokensDistinct, ClockBehind, InCall, HolderOwnsRow, Acquired
<1>13. CASE Sweep
  <2>1. \A d \in Clients : ~Acquired(d)
    BY <1>13, AcquiredRowIsLive DEF Sweep
  <2> QED
    BY <1>13, <2>1 DEF Sweep, TokensDistinct, ClockBehind, InCall, HolderOwnsRow, Acquired
<1>14. CASE ReadExpired
  BY <1>14 DEF ReadExpired, rowVars, TokensDistinct, ClockBehind, InCall, HolderOwnsRow, Acquired
<1>15. CASE LazyDelete \/ Flush
  <2>1. RemoveRow /\ UNCHANGED <<now, locks, pc, token, at, until>>
    BY <1>15 DEF LazyDelete, Flush
  <2>2. TokensDistinct' /\ ClockBehind' /\ InCall'
    BY <2>1 DEF TokensDistinct, ClockBehind, InCall
  <2>3. ASSUME NEW d \in Clients, Acquired(d)' PROVE FALSE
    <3>1. Acquired(d)
      BY <2>1, <2>3 DEF RemoveRow, Acquired
    <3> QED
      BY <2>1, <2>3, <3>1, RemovedIsLost DEF Acquired
  <2> QED
    BY <2>2, <2>3 DEF HolderOwnsRow
<1>16. CASE UNCHANGED vars
  BY <1>16 DEF vars, rowVars, TokensDistinct, ClockBehind, InCall, HolderOwnsRow, Acquired
<1> QED
  BY <1>1, <1>2, <1>3, <1>4, <1>5, <1>6, <1>7, <1>8, <1>9, <1>10, <1>11, <1>12,
     <1>13, <1>14, <1>15, <1>16 DEF Next, Client

\* Mutual exclusion of Lock within the TTL, for any number of clients, any
\* timeout, policy and limit and any number of calls, crashes and late releases:
\* two clients can hold the lock at once only if one lost its row to an
\* eviction, a Flush or the lazy delete of a read.
THEOREM LockExclusion == Spec => []ExclusiveUnlessRemoved
<1>1. TypeOK /\ LockInv /\ [Next]_vars => LockInv'
  BY LockInvNext
<1>2. LockInv => ExclusiveUnlessRemoved
  BY DEF LockInv, ExclusiveUnlessRemoved, HolderOwnsRow, TokensDistinct, InCall, Holds, Acquired
<1> QED
  BY CacheLockTypeCorrect, LockInvInit, <1>1, <1>2, PTL DEF Spec
==============================================================================
