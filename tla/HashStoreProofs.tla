-------------------------- MODULE HashStoreProofs ---------------------------
(***************************************************************************)
(* Proofs about HashStore: for any number of clients, native or not, of    *)
(* keys, fields and calls, each hash call acts once and as a whole (the    *)
(* refinement of HashSpec), counts one access, and has a change record     *)
(* exactly if it changed the table; and only a native call makes a         *)
(* namespace grow past its limit.                                          *)
(***************************************************************************)
EXTENDS HashStore, FiniteSetTheorems, TLAPS

-----------------------------------------------------------------------------
(* Documents, rows and replies.                                            *)

\* The defaults have their types.
LEMMA DefaultTypes ==
  /\ NoField \in Values /\ Text \in Values
  /\ EmptyDoc \in Docs
  /\ NoRow \in Rows
  /\ NoTx \in Transactions
  /\ NoTx.row = NoRow /\ NoTx.todo = {} /\ NoTx.n = 0 /\ NoTx.reply = Hash!NoReply
<1>1. NoField \in Values /\ Text \in Values
  BY DEF NoField, Hash!NoField, Text, Values
<1>2. EmptyDoc \in Docs
  BY <1>1 DEF EmptyDoc, Hash!EmptyDoc, Docs, NoField
<1>3. NoRow \in Rows
  BY <1>2 DEF NoRow, Rows, Never
<1>4. Hash!NoReply \in Replies
  BY <1>2 DEF Hash!NoReply, Hash!Error, Hash!Reply, Replies, EmptyDoc, Tags
<1> QED
  BY <1>1, <1>2, <1>3, <1>4 DEF NoTx, Transactions

\* A reply is typed by its number and its document.
LEMMA ReplyTypes ==
  /\ \A tag \in Tags, n \in Int, d \in Docs : Hash!Reply(tag, n, d) \in Replies
  /\ \A tag \in Tags : Hash!Error(tag) \in Replies
  /\ \A n \in Int : Ok(n) \in Replies
<1>1. \A tag \in Tags, n \in Int, d \in Docs : Hash!Reply(tag, n, d) \in Replies
  BY DEF Hash!Reply, Replies
<1> QED
  BY <1>1, DefaultTypes DEF Hash!Error, Ok, EmptyDoc, Tags

\* Setting some fields of a document.
LEMMA WithType ==
  ASSUME NEW doc \in Docs, NEW F, NEW v \in Values
  PROVE  /\ Hash!With(doc, F, v) \in Docs
         /\ \A f \in Fields : Hash!With(doc, F, v)[f] = IF f \in F THEN v ELSE doc[f]
BY DEF Hash!With, Docs

\* Documents are equal when their fields are.
LEMMA DocsEqual ==
  ASSUME NEW d \in Docs, NEW e \in Docs, \A f \in Fields : d[f] = e[f]
  PROVE  d = e
BY DEF Docs

\* A document has finitely many fields.
LEMMA HasFinite ==
  ASSUME NEW doc, NEW F
  PROVE  /\ Hash!Has(doc) \subseteq Fields
         /\ IsFiniteSet(Hash!Has(doc)) /\ Cardinality(Hash!Has(doc)) \in Nat
         /\ IsFiniteSet(Hash!Has(doc) \cap F) /\ Cardinality(Hash!Has(doc) \cap F) \in Nat
<1>1. Hash!Has(doc) \subseteq Fields
  BY DEF Hash!Has
<1>2. IsFiniteSet(Hash!Has(doc)) /\ IsFiniteSet(Hash!Has(doc) \cap F)
  BY <1>1, FS_Subset, HashStoreAssumption
<1> QED
  BY <1>1, <1>2, FS_CardinalityType

\* The cardinality that HashSpec speaks of.
LEMMA SameCardinality == \A S : Hash!Cardinality(S) = Cardinality(S)
BY DEF Hash!Cardinality, Cardinality

-----------------------------------------------------------------------------
(* What a call promises, by kind of call.                                  *)

Same(row, r) == [row |-> row, reply |-> r]
New(x, row, t, v, n) ==
    [row |-> Hash!NewRow(x, row, t, Hash!NewDoc(x, Hash!OldDoc(row, t), v)),
     reply |-> Ok(n)]

\* A key with a live value that is no object.
LEMMA OutcomeWrongType ==
  ASSUME NEW x, NEW row, NEW t, Hash!Live(row, t), row.kind # "object"
  PROVE  Hash!Outcome(x, row, t) = Same(row, Hash!Error("wrongtype"))
BY SameCardinality DEF Hash!Outcome, Hash!IncrOps, Same

\* The calls that set fields.
LEMMA OutcomeOfSets ==
  ASSUME NEW x, NEW row, NEW t, Hash!Live(row, t) => row.kind = "object"
  PROVE  LET has == Hash!Has(Hash!OldDoc(row, t)) \cap x.fields IN
         /\ x.op = "hset" => Hash!Outcome(x, row, t) = New(x, row, t, x.val, 1 - Cardinality(has))
         /\ x.op = "hsetmany" => Hash!Outcome(x, row, t) = New(x, row, t, x.val, 0)
         /\ x.op = "hsetnx" =>
               Hash!Outcome(x, row, t) = IF has = {} THEN New(x, row, t, x.val, 1) ELSE Same(row, Ok(0))
BY SameCardinality DEF Hash!Outcome, Hash!IncrOps, Same, New, Ok, EmptyDoc

\* HDel.
LEMMA OutcomeOfDel ==
  ASSUME NEW x, NEW row, NEW t, Hash!Live(row, t) => row.kind = "object", x.op = "hdel"
  PROVE  LET has == Hash!Has(Hash!OldDoc(row, t)) \cap x.fields IN
         Hash!Outcome(x, row, t) =
            IF has = {} THEN Same(row, Ok(0)) ELSE New(x, row, t, x.val, Cardinality(has))
BY SameCardinality DEF Hash!Outcome, Hash!IncrOps, Same, New, Ok, EmptyDoc

\* HIncrBy and HIncrByFloat.
LEMMA OutcomeOfIncr ==
  ASSUME NEW x, NEW row, NEW t, Hash!Live(row, t) => row.kind = "object", x.op \in Hash!IncrOps
  PROVE  LET old == Hash!OldDoc(row, t)[Hash!TheField(x.fields)] IN
         Hash!Outcome(x, row, t) =
            IF ~Hash!Numeric(x.op, old) THEN Same(row, Hash!Error("notnumeric"))
            ELSE IF old.n + 1 > IntMax THEN Same(row, Hash!Error("overflow"))
            ELSE New(x, row, t, Hash!Sum(x.op, old), old.n + 1)
BY SameCardinality DEF Hash!Outcome, Hash!IncrOps, Same, New, Ok, EmptyDoc

\* The calls that read leave the row.
LEMMA OutcomeOfReads ==
  ASSUME NEW x, NEW row, NEW t, x.op \in Hash!ReadOps
  PROVE  LET doc == Hash!OldDoc(row, t) IN
         Hash!Outcome(x, row, t) =
            Same(row, IF Hash!Live(row, t) /\ row.kind # "object" THEN Hash!Error("wrongtype")
                      ELSE IF x.op = "hmget" THEN Hash!Reply("ok", 0, Hash!With(doc, Fields \ x.fields, NoField))
                      ELSE Ok(Cardinality(Hash!Has(doc))))
BY SameCardinality DEF Hash!Outcome, Hash!IncrOps, Same, Ok, EmptyDoc, NoField, Hash!ReadOps

-----------------------------------------------------------------------------
(* The transaction of a client, as the hash calls see it.                  *)

\* What callers see of a row.
LEMMA VisibleRow ==
  ASSUME NEW row \in Rows, NEW t
  PROVE  /\ Visible(row).kind = row.kind /\ Visible(row).doc = row.doc /\ Visible(row).exp = row.exp
         /\ Hash!Live(Visible(row), t) <=> Hash!Live(row, t)
         /\ Hash!OldDoc(Visible(row), t) = IF Hash!Live(row, t) THEN row.doc ELSE EmptyDoc
BY DEF Visible, Rows, Hash!Live, Hash!OldDoc, EmptyDoc

\* The parts of a call in progress.
LEMMA CallTypes ==
  ASSUME TypeOK, NEW c \in Clients, CallOK(c), pc[c] # "idle"
  PROVE  /\ call[c] \in CallRecords
         /\ call[c].op \in Ops /\ call[c].op \in Hash!AllOps
         /\ call[c].key \in Called /\ call[c].key \in Keys
         /\ call[c].fields \subseteq Fields /\ call[c].val \in Values
         /\ call[c].ttl \in Nat \cup {Never}
         /\ call[c].at \in Nat /\ call[c].now \in Nat
         /\ FreshExp(c) \in Nat \cup {Never}
         /\ Base(c) \in Rows
<1>1. call[c] \in CallRecords
  BY DEF TypeOK, CallOK
<1>2. /\ call[c].op \in Ops /\ call[c].key \in Called
      /\ call[c].fields \subseteq Fields /\ call[c].val \in Values
      /\ call[c].ttl \in TTLs \cup {Never}
      /\ call[c].at \in Nat /\ call[c].now \in Nat
  BY <1>1 DEF CallRecords
<1>3. /\ call[c].op \in Hash!AllOps /\ call[c].key \in Keys
      /\ call[c].ttl \in Nat \cup {Never}
  BY <1>2, HashStoreAssumption
<1>4. FreshExp(c) \in Nat \cup {Never}
  BY <1>2, <1>3 DEF FreshExp, Never
<1> QED
  BY <1>1, <1>2, <1>3, <1>4 DEF TypeOK, Base

\* The row an upsert leaves.
LEMMA UpsertRow ==
  ASSUME TypeOK, NEW c \in Clients, CallOK(c), pc[c] # "idle", NEW doc \in Docs
  PROVE  /\ Upsert(c, doc) \in Rows
         /\ Upsert(c, doc).doc = doc
         /\ Live(c) => /\ Upsert(c, doc).kind = tx[c].row.kind
                       /\ Upsert(c, doc).exp = tx[c].row.exp
                       /\ Upsert(c, doc).acc = tx[c].row.acc + 1
         /\ ~Live(c) => /\ Upsert(c, doc).kind = "object"
                        /\ Upsert(c, doc).exp = FreshExp(c)
<1>1. FreshExp(c) \in Nat \cup {Never}
  BY CallTypes
<1>2. tx[c].row \in Rows
  BY DEF TypeOK, Transactions
<1>3. CASE Live(c)
  <2>1. PICK v : v = [tx[c].row EXCEPT !.doc = doc, !.acc = @ + 1]
    OBVIOUS
  <2>2. Upsert(c, doc) = v
    BY <1>3, <2>1 DEF Upsert
  <2>3. tx[c].row.acc + 1 \in Nat
    BY <1>2 DEF Rows
  <2>4. /\ v.doc = doc /\ v.kind = tx[c].row.kind /\ v.exp = tx[c].row.exp
        /\ v.acc = tx[c].row.acc + 1
    BY <1>2, <2>1 DEF Rows
  <2>5. v \in Rows
    BY <1>2, <2>1, <2>3 DEF Rows
  <2> QED
    BY <1>3, <2>2, <2>4, <2>5
<1>4. CASE ~Live(c)
  <2>1. Upsert(c, doc) = [kind |-> "object", doc |-> doc, acc |-> 0, exp |-> FreshExp(c)]
    BY <1>4 DEF Upsert, FreshExp
  <2> QED
    BY <1>1, <1>4, <2>1 DEF Rows
<1> QED
  BY <1>3, <1>4

\* Over the row as it was, an upsert leaves the row that HashSpec wants.
LEMMA UpsertIsNewRow ==
  ASSUME TypeOK, NEW c \in Clients, CallOK(c), pc[c] # "idle", NEW row \in Rows, NEW doc,
         row.doc = doc,
         LiveBase(c) => row.kind = Base(c).kind /\ row.exp = Base(c).exp,
         ~LiveBase(c) => row.kind = "object" /\ row.exp = FreshExp(c)
  PROVE  Visible(row) = Hash!NewRow(call[c], Visible(Base(c)), call[c].now, doc)
<1>1. Base(c) \in Rows
  BY CallTypes
<1>2. CASE LiveBase(c)
  <2>1. Hash!NewRow(call[c], Visible(Base(c)), call[c].now, doc) = [Visible(Base(c)) EXCEPT !.doc = doc]
    BY <1>1, <1>2, VisibleRow DEF Hash!NewRow, LiveBase
  <2>2. [Visible(Base(c)) EXCEPT !.doc = doc] = [kind |-> Base(c).kind, doc |-> doc, exp |-> Base(c).exp]
    BY DEF Visible
  <2> QED
    BY <1>2, <2>1, <2>2 DEF Visible
<1>3. CASE ~LiveBase(c)
  <2>1. Hash!NewRow(call[c], Visible(Base(c)), call[c].now, doc)
          = [kind |-> "object", doc |-> doc, exp |-> FreshExp(c)]
    BY <1>1, <1>3, VisibleRow DEF Hash!NewRow, LiveBase, FreshExp, Never, Hash!Never
  <2> QED
    BY <1>3, <2>1 DEF Visible
<1> QED
  BY <1>2, <1>3

-----------------------------------------------------------------------------
(* Steps that do not concern a client, and the ways a client's step ends.  *)

\* A client that is not touched is all right still, if the table is as it was or
\* its transaction has not begun.
LEMMA Untouched ==
  ASSUME TypeOK, NEW d \in Clients, ClientOK(d),
         pc'[d] = pc[d], call'[d] = call[d], tx'[d] = tx[d], reply'[d] = reply[d],
         now' \in Nat, now' >= now,
         rows' = rows \/ pc[d] \notin InTx
  PROVE  ClientOK(d)'
<1>1. CallOK(d)'
  <2>1. pc[d] # "idle" => call[d].now \in Nat /\ now \in Nat
    BY CallTypes DEF ClientOK, TypeOK
  <2> QED
    BY <2>1 DEF ClientOK, CallOK
<1>2. CASE rows' = rows
  <2>1. /\ Base(d)' = Base(d) /\ LiveBase(d)' = LiveBase(d) /\ Live(d)' = Live(d)
        /\ IsObject(d)' = IsObject(d) /\ Unwritten(d)' = Unwritten(d)
        /\ FreshExp(d)' = FreshExp(d) /\ Full' = Full
        /\ \A F : Has(d, F)' = Has(d, F)
    BY <1>2 DEF Base, LiveBase, Live, IsObject, Unwritten, FreshExp, Full, Present, Has, Doc
  <2>2. PartlySet(d)' = PartlySet(d) /\ PartlyDeleted(d)' = PartlyDeleted(d)
    BY <2>1 DEF PartlySet, PartlyDeleted
  <2>3. Decided(d)' = Decided(d)
    BY <2>1 DEF Decided
  <2>4. TxOK(d)'
    BY <2>1, <2>2, <2>3 DEF ClientOK, TxOK
  <2>5. RoomOK(d)'
    BY <2>1 DEF ClientOK, RoomOK
  <2> QED
    BY <1>1, <2>4, <2>5 DEF ClientOK
<1>3. CASE pc[d] \notin InTx
  <2>1. TxOK(d)' /\ RoomOK(d)'
    BY <1>3 DEF TxOK, RoomOK, InTx
  <2> QED
    BY <1>1, <2>1 DEF ClientOK
<1> QED
  BY <1>2, <1>3

\* A transaction has the lock for itself.
LEMMA Alone ==
  ASSUME HashInv, NEW c \in Clients, pc[c] \in InTx
  PROVE  writer = c /\ \A d \in Clients \ {c} : pc[d] \notin InTx
BY DEF HashInv, LockIsHeld

\* A call that is answered, whether or not it commits.
LEMMA AnswerKeeps ==
  ASSUME HashInv, NEW c \in Clients, pc[c] \in Waiting,
         NEW r \in Replies, NEW l \in {"return", "emit"}, Answer(c, r, l),
         rows' \in [Keys -> Rows], NoGhosts', rows' = rows \/ pc[c] \in InTx,
         fails' \in Nat, owed' \in Int
  PROVE  HashInv'
<1> USE DEF HashInv
<1>1. TypeOK'
  <2>1. /\ now' \in Nat /\ calls' \in Nat /\ foreign' \in Nat
        /\ call' \in [Clients -> CallRecords \cup {NoCall}]
        /\ reply' \in [Clients -> Replies]
        /\ writer' \in Clients \cup {NoOne}
    BY DEF TypeOK, Answer
  <2>2. pc' \in [Clients -> Labels]
    BY DEF TypeOK, Answer, Labels
  <2>3. tx' \in [Clients -> Transactions]
    BY DefaultTypes DEF TypeOK, Answer
  <2> QED
    BY <2>1, <2>2, <2>3 DEF TypeOK
<1>2. pc'[c] = l /\ call'[c] = call[c] /\ reply'[c] = r
  BY DEF TypeOK, Answer
<1>3. \A d \in Clients \ {c} : /\ pc'[d] = pc[d] /\ call'[d] = call[d]
                               /\ tx'[d] = tx[d] /\ reply'[d] = reply[d]
  BY DEF TypeOK, Answer
<1>4. now' = now /\ now \in Nat
  BY DEF TypeOK, Answer
<1>5. LockIsHeld'
  <2>1. pc'[c] \notin InTx
    BY <1>2 DEF InTx
  <2>2. writer' # c /\ (writer # c => writer' = writer) /\ (writer = c => writer' = NoOne)
    BY HashStoreAssumption DEF Answer
  <2> QED
    BY <1>3, <2>1, <2>2, HashStoreAssumption DEF LockIsHeld
<1>6. ClientOK(c)'
  <2>1. pc[c] # "idle"
    BY DEF Waiting, InTx
  <2>2. CallOK(c)'
    BY <1>2, <1>4, <2>1 DEF ClientOK, CallOK, Waiting, InTx
  <2>3. TxOK(c)' /\ RoomOK(c)'
    BY <1>2 DEF TxOK, RoomOK
  <2> QED
    BY <2>2, <2>3 DEF ClientOK
<1>7. ASSUME NEW d \in Clients, d # c PROVE ClientOK(d)'
  <2>1. rows' = rows \/ pc[d] \notin InTx
    BY <1>7, Alone
  <2> QED
    BY <1>3, <1>4, <1>7, <2>1, Untouched
<1> QED
  BY <1>1, <1>5, <1>6, <1>7

\* A call that is rolled back.
LEMMA RollbackKeeps ==
  ASSUME HashInv, NEW c \in Clients, pc[c] \in Waiting, NEW tag \in Tags, Rollback(c, tag)
  PROVE  HashInv'
<1>1. Hash!Error(tag) \in Replies
  BY ReplyTypes
<1>2. NoGhosts'
  BY DEF HashInv, Rollback, NoGhosts
<1> QED
  BY <1>1, <1>2, AnswerKeeps DEF Rollback, HashInv, TypeOK

\* What a statement inside a transaction leaves alone.
LEMMA DidStep ==
  ASSUME TypeOK, NEW c \in Clients, NEW row, NEW left, NEW n, NEW r, NEW l, Did(c, row, left, n, r, l)
  PROVE  /\ pc'[c] = l /\ call'[c] = call[c] /\ reply'[c] = reply[c] /\ rows' = rows /\ now' = now
         /\ tx'[c].row = row /\ tx'[c].todo = left /\ tx'[c].n = n /\ tx'[c].reply = r
         /\ Base(c)' = Base(c) /\ LiveBase(c)' = LiveBase(c) /\ FreshExp(c)' = FreshExp(c)
<1>1. tx'[c] = [row |-> row, todo |-> left, n |-> n, reply |-> r]
  BY DEF TypeOK, Did
<1> QED
  BY <1>1 DEF TypeOK, Did, Base, LiveBase, FreshExp

\* A statement inside a transaction preserves the invariant if it leaves the
\* transaction as its next step expects it.
LEMMA DidKeeps ==
  ASSUME HashInv, NEW c \in Clients, pc[c] \in InTx,
         NEW row \in Rows, NEW left \in SUBSET Fields, NEW n \in Nat, NEW r \in Replies,
         NEW l \in InTx, Did(c, row, left, n, r, l),
         l = "stmt" => c \in Native,
         l = "set" => c \in Native /\ call[c].op = "hset",
         l \in {"load", "mutate"} => c \notin Native,
         TxOK(c)', RoomOK(c)'
  PROVE  HashInv'
<1> USE DEF HashInv
<1>1. TypeOK'
  <2>1. [row |-> row, todo |-> left, n |-> n, reply |-> r] \in Transactions
    BY DEF Transactions
  <2>2. tx' \in [Clients -> Transactions]
    BY <2>1 DEF TypeOK, Did
  <2>3. pc' \in [Clients -> Labels]
    BY DEF TypeOK, Did, Labels, Waiting
  <2> QED
    BY <2>2, <2>3 DEF TypeOK, Did
<1>2. \A d \in Clients \ {c} : /\ pc'[d] = pc[d] /\ call'[d] = call[d]
                               /\ tx'[d] = tx[d] /\ reply'[d] = reply[d]
  BY DEF TypeOK, Did
<1>3. NoGhosts'
  BY DEF NoGhosts, Did
<1>4. LockIsHeld'
  <2>1. pc'[c] \in InTx /\ writer' = writer
    BY DEF TypeOK, Did
  <2> QED
    BY <1>2, <2>1 DEF LockIsHeld
<1>5. ClientOK(c)'
  <2>1. pc'[c] = l /\ pc[c] # "idle" /\ l # "idle"
    BY DEF TypeOK, Did, InTx
  <2>2. CallOK(c)'
    BY <2>1, DidStep DEF ClientOK, CallOK, Waiting, InTx
  <2> QED
    BY <2>2 DEF ClientOK
<1>6. ASSUME NEW d \in Clients, d # c PROVE ClientOK(d)'
  <2>1. rows' = rows /\ now' = now /\ now \in Nat
    BY DEF TypeOK, Did
  <2> QED
    BY <1>2, <1>6, <2>1, Untouched
<1> QED
  BY <1>1, <1>3, <1>4, <1>5, <1>6
-----------------------------------------------------------------------------
(* Each action preserves the invariant.                                    *)

\* The clock advances.
LEMMA TickKeeps == HashInv /\ Tick => HashInv'
<1> SUFFICES ASSUME HashInv, Tick PROVE HashInv'
  OBVIOUS
<1> USE DEF HashInv
<1>1. TypeOK' /\ now' >= now
  BY DEF TypeOK, Tick
<1>2. NoGhosts' /\ LockIsHeld'
  BY DEF NoGhosts, LockIsHeld, Tick
<1>3. ASSUME NEW d \in Clients PROVE ClientOK(d)'
  BY <1>1, Untouched DEF TypeOK, Tick
<1> QED
  BY <1>1, <1>2, <1>3

\* Someone writes or removes a whole row.
LEMMA OthersKeeps == ASSUME HashInv, NEW k \in Keys, Others(k) PROVE HashInv'
<1>0. \A ttl \in TTLs : now + ttl \in Nat
  <2>1. now \in Nat /\ TTLs \subseteq Nat
    BY HashStoreAssumption DEF HashInv, TypeOK
  <2> QED
    BY <2>1
<1> USE DEF HashInv
<1>1. PICK row \in {NoRow} \cup [kind : {"object", "other"}, doc : {EmptyDoc},
                                 exp : {Never} \cup {now + ttl : ttl \in TTLs}, acc : {0}] :
          rows' = [rows EXCEPT ![k] = row]
  BY DEF Others
<1>2. row \in Rows /\ (row.kind = "none" => row = NoRow)
  <2>1. CASE row = NoRow
    BY <2>1, DefaultTypes
  <2>2. CASE row # NoRow
    <3>1. /\ row \in [kind : {"object", "other"}, doc : {EmptyDoc},
                      exp : {Never} \cup {now + ttl : ttl \in TTLs}, acc : {0}]
      BY <1>1, <2>2
    <3>2. row.exp \in Nat \cup {Never}
      BY <1>0, <3>1
    <3>3. row \in Rows
      BY <3>1, <3>2, DefaultTypes DEF Rows
    <3> QED
      BY <3>1, <3>3
  <2> QED
    BY <2>1, <2>2
<1>3. TypeOK'
  BY <1>1, <1>2 DEF TypeOK, Others
<1>4. NoGhosts'
  BY <1>1, <1>2 DEF NoGhosts, TypeOK
<1>5. LockIsHeld'
  BY DEF LockIsHeld, Others
<1>6. ASSUME NEW d \in Clients PROVE ClientOK(d)'
  <2>1. pc[d] \notin InTx
    BY HashStoreAssumption DEF LockIsHeld, Others
  <2> QED
    BY <2>1, Untouched DEF TypeOK, Others
<1> QED
  BY <1>3, <1>4, <1>5, <1>6

\* A step of c that leaves the table and the write lock alone, at places outside
\* transactions: the other clients are not concerned.
LEMMA OutsideStep ==
  ASSUME HashInv, NEW c \in Clients, pc[c] \notin InTx, pc'[c] \notin InTx,
         rows' = rows, now' = now, writer' = writer,
         \A d \in Clients \ {c} : /\ pc'[d] = pc[d] /\ call'[d] = call[d]
                                  /\ tx'[d] = tx[d] /\ reply'[d] = reply[d],
         TypeOK', CallOK(c)'
  PROVE  HashInv'
<1> USE DEF HashInv
<1>1. NoGhosts' /\ LockIsHeld'
  BY DEF NoGhosts, LockIsHeld
<1>2. ClientOK(c)'
  BY DEF ClientOK, TxOK, RoomOK, InTx
<1>3. ASSUME NEW d \in Clients, d # c PROVE ClientOK(d)'
  BY <1>3, Untouched DEF TypeOK
<1> QED
  BY <1>1, <1>2, <1>3

\* What a call does.
LEMMA CallStep ==
  ASSUME NEW c \in Clients, Call(c)
  PROVE  \E op \in Ops, k \in Called, ttl \in TTLs \cup {Never} : \E F \in Targets(op) :
        /\ pc[c] = "idle"
        /\ calls' = calls + 1
        /\ call' = [call EXCEPT ![c] =
               [op |-> op, key |-> k, fields |-> F, ttl |-> ttl, at |-> now, now |-> now,
                val |-> IF op \in Hash!SetOps THEN Text ELSE NoField]]
        /\ reply' = [reply EXCEPT ![c] = Hash!Pending]
        /\ pc' = [pc EXCEPT ![c] =
               IF op \in Hash!ReadOps THEN "select"
               ELSE IF c \in Native /\ op \in Hash!Creating /\ MaxKeys # 0 THEN "check"
               ELSE "begin"]
        /\ UNCHANGED <<rows, now, writer, tx, foreign, fails, owed>>
BY DEF Call

\* A client calls.
LEMMA CallKeeps == ASSUME HashInv, NEW c \in Clients, Call(c) PROVE HashInv'
<1> USE DEF HashInv
<1>1. PICK op \in Ops, k \in Called, ttl \in TTLs \cup {Never} : \E F \in Targets(op) :
        /\ pc[c] = "idle"
        /\ calls' = calls + 1
        /\ call' = [call EXCEPT ![c] =
               [op |-> op, key |-> k, fields |-> F, ttl |-> ttl, at |-> now, now |-> now,
                val |-> IF op \in Hash!SetOps THEN Text ELSE NoField]]
        /\ reply' = [reply EXCEPT ![c] = Hash!Pending]
        /\ pc' = [pc EXCEPT ![c] =
               IF op \in Hash!ReadOps THEN "select"
               ELSE IF c \in Native /\ op \in Hash!Creating /\ MaxKeys # 0 THEN "check"
               ELSE "begin"]
        /\ UNCHANGED <<rows, now, writer, tx, foreign, fails, owed>>
  BY CallStep
<1>2. PICK F \in Targets(op) :
        /\ pc[c] = "idle"
        /\ calls' = calls + 1
        /\ call' = [call EXCEPT ![c] =
               [op |-> op, key |-> k, fields |-> F, ttl |-> ttl, at |-> now, now |-> now,
                val |-> IF op \in Hash!SetOps THEN Text ELSE NoField]]
        /\ reply' = [reply EXCEPT ![c] = Hash!Pending]
        /\ pc' = [pc EXCEPT ![c] =
               IF op \in Hash!ReadOps THEN "select"
               ELSE IF c \in Native /\ op \in Hash!Creating /\ MaxKeys # 0 THEN "check"
               ELSE "begin"]
        /\ UNCHANGED <<rows, now, writer, tx, foreign, fails, owed>>
  BY <1>1
<1>3. PICK x : x = [op |-> op, key |-> k, fields |-> F, ttl |-> ttl, at |-> now, now |-> now,
                    val |-> IF op \in Hash!SetOps THEN Text ELSE NoField]
  OBVIOUS
<1>4. F \in SUBSET Fields
  <2>1. Targets(op) \subseteq SUBSET Fields
    BY DEF Targets
  <2> QED
    BY <2>1
<1>5. /\ x \in CallRecords
      /\ x.op = op /\ x.fields = F /\ x.at = now /\ x.now = now
      /\ x.val = IF op \in Hash!SetOps THEN Text ELSE NoField
  BY <1>3, <1>4, DefaultTypes DEF CallRecords, TypeOK
<1>6. op # "none" /\ op \in Hash!AllOps
  BY HashStoreAssumption DEF Hash!AllOps, Hash!Creating, Hash!SetOps, Hash!IncrOps, Hash!ReadOps
<1>7. x # NoCall
  BY <1>5, <1>6 DEF NoCall
<1>8. TypeOK'
  <2>1. Hash!Pending \in Replies
    BY ReplyTypes DEF Hash!Pending, Tags
  <2>2. pc' \in [Clients -> Labels]
    BY <1>2 DEF TypeOK, Labels, Waiting
  <2>3. call' \in [Clients -> CallRecords \cup {NoCall}]
    BY <1>2, <1>3, <1>5 DEF TypeOK
  <2> QED
    BY <1>2, <2>1, <2>2, <2>3 DEF TypeOK
<1>9. /\ call'[c] = x /\ reply'[c] = Hash!Pending
      /\ pc'[c] = IF op \in Hash!ReadOps THEN "select"
                  ELSE IF c \in Native /\ op \in Hash!Creating /\ MaxKeys # 0 THEN "check"
                  ELSE "begin"
  BY <1>2, <1>3 DEF TypeOK
<1>10. CallOK(c)'
  <2>1. now' = now /\ now \in Nat
    BY <1>2 DEF TypeOK
  <2> QED
    BY <1>5, <1>6, <1>7, <1>9, <2>1 DEF CallOK, Waiting, InTx, Hash!AllOps
<1>11. pc[c] \notin InTx /\ pc'[c] \notin InTx
  BY <1>1, <1>9 DEF InTx
<1> QED
  BY <1>2, <1>8, <1>10, <1>11, OutsideStep DEF TypeOK

\* A native call checks the capacity.
LEMMA CheckKeeps == ASSUME HashInv, NEW c \in Clients, Check(c) PROVE HashInv'
<1>1. pc[c] = "check" /\ pc[c] \in Waiting /\ pc[c] \notin InTx
  BY DEF Check, Waiting, InTx
<1>2. CASE call[c].key \notin Present /\ Full
  BY <1>1, <1>2, RollbackKeeps DEF Check, Rollback, Tags
<1>3. CASE ~(call[c].key \notin Present /\ Full)
  <2> USE DEF HashInv
  <2>1. /\ pc' = [pc EXCEPT ![c] = "begin"]
        /\ call' = [call EXCEPT ![c].now = now]
        /\ UNCHANGED <<rows, now, writer, tx, reply, calls, foreign, fails, owed>>
    BY <1>3 DEF Check
  <2>2. PICK x : x = [call[c] EXCEPT !.now = now]
    OBVIOUS
  <2>3. call[c] \in CallRecords /\ now \in Nat
    BY <1>1, CallTypes DEF ClientOK, TypeOK
  <2>4. /\ x \in CallRecords /\ x.now = now
        /\ x.op = call[c].op /\ x.fields = call[c].fields /\ x.at = call[c].at /\ x.val = call[c].val
    BY <2>2, <2>3 DEF CallRecords
  <2>5. call'[c] = x /\ pc'[c] = "begin" /\ reply'[c] = reply[c]
    BY <2>1, <2>2 DEF TypeOK
  <2>6. TypeOK'
    <3>1. call' \in [Clients -> CallRecords \cup {NoCall}]
      BY <2>1, <2>2, <2>4 DEF TypeOK
    <3> QED
      BY <2>1, <3>1 DEF TypeOK, Labels, Waiting
  <2>7. x # NoCall
    <3>1. x.op \in Hash!AllOps
      BY <1>1, <2>4, CallTypes DEF ClientOK
    <3> QED
      BY <3>1 DEF NoCall, Hash!AllOps, Hash!Creating, Hash!SetOps, Hash!IncrOps, Hash!ReadOps
  <2>8. CallOK(c)'
    <3>1. CallOK(c) /\ call[c].at \in Nat /\ call[c].now \in Nat
      BY <1>1, CallTypes DEF ClientOK
    <3> QED
      BY <1>1, <2>1, <2>3, <2>4, <2>5, <2>7, <3>1 DEF CallOK, Waiting, InTx
  <2> QED
    BY <1>1, <2>1, <2>5, <2>6, <2>8, OutsideStep DEF TypeOK, InTx
<1> QED
  BY <1>2, <1>3

\* A call that reads.
LEMMA SelectKeeps == ASSUME HashInv, NEW c \in Clients, Select(c) PROVE HashInv'
<1> USE DEF HashInv
<1>1. pc[c] = "select" /\ pc[c] \in Waiting /\ pc[c] # "idle" /\ CallOK(c)
  BY DEF Select, Waiting, ClientOK
<1>2. Hash!Outcome(call[c], Base(c), call[c].now).reply \in Replies
  <2>1. Base(c) \in Rows /\ call[c].op \in Hash!ReadOps
    BY <1>1, CallTypes DEF CallOK
  <2> DEFINE doc == Hash!OldDoc(Base(c), call[c].now)
  <2>2. doc \in Docs
    BY <2>1, DefaultTypes DEF Hash!OldDoc, Rows, EmptyDoc
  <2>3. Hash!With(doc, Fields \ call[c].fields, NoField) \in Docs
    BY <2>2, WithType, DefaultTypes
  <2> HIDE DEF doc
  <2>4. Cardinality(Hash!Has(doc)) \in Int
    <3>1. Cardinality(Hash!Has(doc)) \in Nat
      BY HasFinite
    <3> QED
      BY <3>1
  <2>5. /\ Hash!Error("wrongtype") \in Replies
        /\ Hash!Reply("ok", 0, Hash!With(doc, Fields \ call[c].fields, NoField)) \in Replies
        /\ Ok(Cardinality(Hash!Has(doc))) \in Replies
    BY <2>3, <2>4, ReplyTypes DEF Tags
  <2> QED
    BY <2>1, <2>5, OutcomeOfReads DEF Same, doc
<1>3. NoGhosts' /\ rows' \in [Keys -> Rows] /\ rows' = rows /\ fails' \in Nat /\ owed' \in Int
  BY DEF Select, NoGhosts, TypeOK
<1> QED
  BY <1>1, <1>2, <1>3, AnswerKeeps DEF Select, Base

\* The caller has its answer.
LEMMA ReturnKeeps == ASSUME HashInv, NEW c \in Clients, Return(c) PROVE HashInv'
<1> USE DEF HashInv
<1>1. pc[c] = "return" /\ pc'[c] = "idle" /\ call'[c] = NoCall
  BY DEF Return, TypeOK
<1>2. TypeOK'
  <2>1. Hash!NoReply \in Replies
    BY ReplyTypes DEF Hash!NoReply, Tags
  <2> QED
    BY <2>1 DEF TypeOK, Return, Labels
<1>3. CallOK(c)'
  BY <1>1 DEF CallOK, Waiting, InTx
<1> QED
  BY <1>1, <1>2, <1>3, OutsideStep DEF TypeOK, Return, InTx

\* The change record is emitted.
LEMMA EmitKeeps == ASSUME HashInv, NEW c \in Clients, Emit(c) PROVE HashInv'
<1> USE DEF HashInv
<1>1. pc[c] = "emit" /\ pc'[c] = "return" /\ call'[c] = call[c] /\ now' = now
  BY DEF Emit, TypeOK
<1>2. TypeOK'
  BY DEF TypeOK, Emit, Labels
<1>3. CallOK(c)'
  BY <1>1 DEF ClientOK, CallOK, Waiting, InTx
<1> QED
  BY <1>1, <1>2, <1>3, OutsideStep DEF TypeOK, Emit, InTx

\* A statement fails.
LEMMA FailsKeeps == ASSUME HashInv, NEW c \in Clients, Fails(c) PROVE HashInv'
<1> USE DEF HashInv
<1>1. pc[c] \in Waiting
  BY DEF Fails, Waiting, InTx
<1>2. Hash!Error("failed") \in Replies
  BY ReplyTypes DEF Tags
<1>3. NoGhosts' /\ rows' = rows /\ fails' \in Nat /\ owed' \in Int /\ rows' \in [Keys -> Rows]
  BY DEF Fails, NoGhosts, TypeOK
<1> QED
  BY <1>1, <1>2, <1>3, AnswerKeeps DEF Fails

\* The process dies.
LEMMA CrashKeeps == ASSUME HashInv, NEW c \in Clients, Crash(c) PROVE HashInv'
<1> USE DEF HashInv
<1>1. pc'[c] = "idle" /\ call'[c] = NoCall /\ now' = now /\ rows' = rows
  BY DEF Crash, TypeOK
<1>2. TypeOK'
  <2>1. Hash!NoReply \in Replies
    BY ReplyTypes DEF Hash!NoReply, Tags
  <2>2. tx' \in [Clients -> Transactions]
    BY DefaultTypes DEF TypeOK, Crash
  <2>3. pc' \in [Clients -> Labels] /\ call' \in [Clients -> CallRecords \cup {NoCall}]
    BY DEF TypeOK, Crash, Labels
  <2>4. writer' \in Clients \cup {NoOne} /\ owed' \in Int /\ fails' \in Nat
    BY DEF TypeOK, Crash
  <2> QED
    BY <2>1, <2>2, <2>3, <2>4 DEF TypeOK, Crash
<1>3. ClientOK(c)'
  BY <1>1 DEF ClientOK, CallOK, TxOK, RoomOK, Waiting, InTx
<1>4. \A d \in Clients \ {c} : /\ pc'[d] = pc[d] /\ call'[d] = call[d]
                               /\ tx'[d] = tx[d] /\ reply'[d] = reply[d]
  BY DEF TypeOK, Crash
<1>5. LockIsHeld'
  <2>1. pc'[c] \notin InTx
    BY <1>1 DEF InTx
  <2>2. writer' # c /\ (writer # c => writer' = writer) /\ (writer = c => writer' = NoOne)
    BY HashStoreAssumption DEF Crash
  <2> QED
    BY <1>4, <2>1, <2>2, HashStoreAssumption DEF LockIsHeld
<1>6. NoGhosts'
  BY <1>1 DEF NoGhosts
<1>7. ASSUME NEW d \in Clients, d # c PROVE ClientOK(d)'
  BY <1>1, <1>4, <1>7, Untouched DEF TypeOK
<1> QED
  BY <1>2, <1>3, <1>5, <1>6, <1>7
-----------------------------------------------------------------------------
(* The statements of a transaction.                                        *)

\* Setting no field, and the fields of an empty document.
LEMMA NoFields ==
  /\ Hash!Has(EmptyDoc) = {}
  /\ \A doc \in Docs, v \in Values : Hash!With(doc, {}, v) = doc
<1>1. Hash!Has(EmptyDoc) = {}
  BY DEF Hash!Has, EmptyDoc, Hash!EmptyDoc
<1>2. ASSUME NEW doc \in Docs, NEW v \in Values PROVE Hash!With(doc, {}, v) = doc
  BY DEF Hash!With, Docs
<1> QED
  BY <1>1, <1>2

\* Setting some fields, and then some more.
LEMMA WithTwice ==
  ASSUME NEW doc \in Docs, NEW v \in Values, NEW D, NEW F
  PROVE  Hash!With(Hash!With(doc, D, v), F, v) = Hash!With(doc, D \cup F, v)
<1>1. Hash!With(doc, D, v) \in Docs /\ Hash!With(doc, D \cup F, v) \in Docs
  BY WithType
<1>2. Hash!With(Hash!With(doc, D, v), F, v) \in Docs
  BY <1>1, WithType
<1>3. \A f \in Fields : Hash!With(Hash!With(doc, D, v), F, v)[f] = Hash!With(doc, D \cup F, v)[f]
  BY <1>1, WithType
<1> QED
  BY <1>1, <1>2, <1>3, DocsEqual

\* What is known of a client inside a transaction.
LEMMA InTxTypes ==
  ASSUME HashInv, NEW c \in Clients, pc[c] \in InTx
  PROVE  /\ TypeOK /\ CallOK(c) /\ TxOK(c) /\ RoomOK(c) /\ pc[c] # "idle" /\ pc[c] \in Waiting
         /\ tx[c].row \in Rows /\ tx[c].todo \in SUBSET Fields /\ tx[c].n \in Nat
         /\ tx[c].reply \in Replies
         /\ Base(c) \in Rows /\ call[c].val \in Values /\ call[c].fields \in SUBSET Fields
<1>1. TypeOK /\ CallOK(c) /\ TxOK(c) /\ RoomOK(c) /\ pc[c] # "idle" /\ pc[c] \in Waiting
  BY DEF HashInv, ClientOK, InTx, Waiting
<1>2. tx[c] \in Transactions
  BY <1>1 DEF TypeOK
<1> QED
  BY <1>1, <1>2, CallTypes DEF Transactions

\* A transaction that has not written sees the row as it was.
LEMMA UnwrittenRow ==
  ASSUME HashInv, NEW c \in Clients, pc[c] \in InTx, Unwritten(c)
  PROVE  /\ Live(c) <=> LiveBase(c)
         /\ IsObject(c) <=> LiveBase(c) /\ Base(c).kind = "object"
         /\ Doc(c) \in Docs
         /\ Doc(c) = Hash!OldDoc(Visible(Base(c)), call[c].now)
         /\ ~Live(c) => Doc(c) = EmptyDoc
         /\ Hash!Live(Visible(Base(c)), call[c].now) <=> LiveBase(c)
         /\ Visible(Base(c)).kind = Base(c).kind
         /\ \A F : Has(c, F) = Hash!Has(Doc(c)) \cap F
<1>1. Base(c) \in Rows
  BY InTxTypes
<1>2. Live(c) <=> LiveBase(c)
  BY DEF Live, LiveBase, Unwritten
<1>3. Doc(c) = IF LiveBase(c) THEN Base(c).doc ELSE EmptyDoc
  BY <1>2 DEF Doc, Unwritten
<1>4. Doc(c) \in Docs
  BY <1>1, <1>3, DefaultTypes DEF Rows
<1> QED
  BY <1>1, <1>2, <1>3, <1>4, VisibleRow DEF LiveBase, IsObject, Unwritten, Has

\* The call's outcome is a new row, and the statement writes it.
LEMMA WriteDecides ==
  ASSUME HashInv, NEW c \in Clients, pc[c] \in InTx, Unwritten(c),
         LiveBase(c) => Base(c).kind = "object",
         NEW doc \in Docs, NEW n \in Int, NEW v,
         doc = Hash!NewDoc(call[c], Doc(c), v),
         Hash!Outcome(call[c], Visible(Base(c)), call[c].now)
            = New(call[c], Visible(Base(c)), call[c].now, v, n),
         call[c].op \in Hash!Creating \/ LiveBase(c),
         call[c].op # "hsetmany" \/ c \notin Native,
         c \in Native \/ pc[c] = "mutate",
         Did(c, Upsert(c, doc), {}, 1, Ok(n), "commit")
  PROVE  HashInv'
<1> DEFINE row == Upsert(c, doc)
<1>1. /\ row \in Rows /\ row.doc = doc /\ row.kind = "object"
      /\ LiveBase(c) => row.exp = Base(c).exp /\ row.acc = Base(c).acc + 1
      /\ ~LiveBase(c) => row.exp = FreshExp(c)
  BY InTxTypes, UnwrittenRow, UpsertRow DEF Unwritten
<1> HIDE DEF row
<1>2. Visible(row) = Hash!NewRow(call[c], Visible(Base(c)), call[c].now, doc)
  BY <1>1, InTxTypes, UpsertIsNewRow
<1>3. /\ Hash!Outcome(call[c], Visible(Base(c)), call[c].now).row = Visible(row)
      /\ Hash!Outcome(call[c], Visible(Base(c)), call[c].now).reply = Ok(n)
  BY <1>2, UnwrittenRow DEF New
<1>4. Did(c, row, {}, 1, Ok(n), "commit")
  BY DEF row
<1>5. /\ pc'[c] = "commit" /\ call'[c] = call[c] /\ rows' = rows
      /\ tx'[c].row = row /\ tx'[c].n = 1 /\ tx'[c].reply = Ok(n)
      /\ Base(c)' = Base(c) /\ LiveBase(c)' = LiveBase(c) /\ FreshExp(c)' = FreshExp(c)
  BY <1>4, DidStep, InTxTypes
<1>6. Decided(c)'
  BY <1>1, <1>3, <1>5 DEF Decided
<1>7. TxOK(c)'
  BY <1>5, <1>6 DEF TxOK
<1>8. RoomOK(c)'
  <2>1. RoomOK(c) /\ Full' = Full
    BY <1>5, InTxTypes DEF Full, Present
  <2> QED
    BY <1>5, <2>1 DEF RoomOK
<1>9. Ok(n) \in Replies
  BY ReplyTypes
<1> QED
  BY <1>1, <1>4, <1>7, <1>8, <1>9, DidKeeps DEF InTx

\* The call's outcome is the row as it was, and the transaction leaves it.
LEMMA LeaveDecides ==
  ASSUME HashInv, NEW c \in Clients, pc[c] \in InTx, Unwritten(c),
         Hash!Outcome(call[c], Visible(Base(c)), call[c].now) = Same(Visible(Base(c)), Ok(0)),
         c \in Native \/ pc[c] = "mutate",
         Did(c, tx[c].row, {}, 0, Ok(0), "commit")
  PROVE  HashInv'
<1>1. /\ Hash!Outcome(call[c], Visible(Base(c)), call[c].now).row = Visible(Base(c))
      /\ Hash!Outcome(call[c], Visible(Base(c)), call[c].now).reply = Ok(0)
  BY DEF Same
<1>2. /\ pc'[c] = "commit" /\ call'[c] = call[c] /\ rows' = rows
      /\ tx'[c].row = tx[c].row /\ tx'[c].n = 0 /\ tx'[c].reply = Ok(0)
      /\ Base(c)' = Base(c) /\ LiveBase(c)' = LiveBase(c)
  BY DidStep, InTxTypes
<1>3. Decided(c)'
  BY <1>1, <1>2 DEF Decided, Unwritten
<1>4. TxOK(c)'
  BY <1>2, <1>3 DEF TxOK
<1>5. RoomOK(c)'
  <2>1. RoomOK(c) /\ Full' = Full
    BY <1>2, InTxTypes DEF Full, Present
  <2> QED
    BY <1>2, <2>1 DEF RoomOK
<1>6. Ok(0) \in Replies
  BY ReplyTypes
<1> QED
  BY <1>4, <1>5, <1>6, InTxTypes, DidKeeps DEF InTx

\* The write lock is granted.
LEMMA BeginKeeps == ASSUME HashInv, NEW c \in Clients, Begin(c) PROVE HashInv'
<1> USE DEF HashInv
<1>1. /\ writer = NoOne /\ writer' = c /\ pc[c] = "begin"
      /\ pc' = [pc EXCEPT ![c] = IF c \in Native THEN "stmt" ELSE "load"]
      /\ UNCHANGED <<rows, now, call, reply, calls, foreign, fails, owed>>
  BY DEF Begin, BeginWithoutLock
<1>2. PICK t : t = [NoTx EXCEPT !.row = rows[call[c].key], !.todo = call[c].fields]
  OBVIOUS
<1>3. CallOK(c) /\ pc[c] # "idle"
  BY <1>1 DEF ClientOK
<1>4. /\ t \in Transactions
      /\ t.row = Base(c) /\ t.todo = call[c].fields /\ t.n = 0
  BY <1>2, <1>3, CallTypes, DefaultTypes DEF Base, Transactions
<1>5. tx' = [tx EXCEPT ![c] = t]
  BY <1>2 DEF Begin, BeginWithoutLock
<1>6. TypeOK'
  BY <1>1, <1>4, <1>5 DEF TypeOK, Labels, Waiting, InTx
<1>7. /\ pc'[c] = IF c \in Native THEN "stmt" ELSE "load"
      /\ tx'[c] = t /\ call'[c] = call[c] /\ reply'[c] = reply[c] /\ now' = now
      /\ Base(c)' = Base(c) /\ LiveBase(c)' = LiveBase(c)
  BY <1>1, <1>5 DEF TypeOK, Base, LiveBase
<1>8. \A d \in Clients \ {c} : /\ pc'[d] = pc[d] /\ call'[d] = call[d]
                               /\ tx'[d] = tx[d] /\ reply'[d] = reply[d]
  BY <1>1, <1>5 DEF TypeOK
<1>9. LockIsHeld'
  BY <1>1, <1>7, <1>8, HashStoreAssumption DEF LockIsHeld, InTx
<1>10. CallOK(c)'
  BY <1>1, <1>3, <1>7 DEF CallOK, Waiting, InTx
<1>11. TxOK(c)' /\ RoomOK(c)'
  <2>1. Base(c) \in Rows
    BY <1>3, CallTypes
  <2>2. Unwritten(c)' /\ PartlySet(c)'
    BY <1>4, <1>7 DEF Unwritten, PartlySet
  <2>3. PartlyDeleted(c)'
    <3>1. Hash!With(Base(c).doc, {}, NoField) = Base(c).doc
      BY <2>1, NoFields, DefaultTypes DEF Rows
    <3>2. Cardinality(Hash!Has(Base(c).doc) \cap {}) = 0
      <4>1. Hash!Has(Base(c).doc) \cap {} = {}
        OBVIOUS
      <4> QED
        BY <4>1, FS_EmptySet
    <3>3. call'[c].fields \ tx'[c].todo = {} /\ tx'[c].todo \subseteq call'[c].fields
      BY <1>4, <1>7
    <3>4. Base(c).acc \in Nat
      BY <2>1 DEF Rows
    <3>5. tx'[c].row = Base(c) /\ tx'[c].n = 0 /\ Base(c).acc + 0 = Base(c).acc
      BY <1>4, <1>7, <3>4
    <3> QED
      BY <1>7, <2>2, <3>1, <3>2, <3>3, <3>5, SMTT(30) DEF PartlyDeleted
  <2> QED
    BY <1>7, <2>2, <2>3 DEF TxOK, RoomOK
<1>12. ASSUME NEW d \in Clients, d # c PROVE ClientOK(d)'
  BY <1>1, <1>8, <1>12, Untouched DEF TypeOK
<1>13. NoGhosts'
  BY <1>1 DEF NoGhosts
<1> QED
  BY <1>6, <1>9, <1>10, <1>11, <1>12, <1>13 DEF ClientOK
\* A call on one field has that field only.
LEMMA OneField ==
  ASSUME HashInv, NEW c \in Clients, pc[c] \in InTx, call[c].op \notin {"hsetmany", "hdel"}
  PROVE  \E f \in Fields : call[c].fields = {f}
<1>1. call[c].fields \in Targets(call[c].op)
  BY InTxTypes DEF CallOK
<1>2. call[c].op \notin {"hsetmany", "hdel", "hmget"} /\ call[c].op # "hlen"
  BY InTxTypes DEF CallOK, Hash!Creating, Hash!SetOps, Hash!IncrOps
<1>3. Targets(call[c].op) = {{f} : f \in Fields}
  BY <1>2 DEF Targets
<1> QED
  BY <1>1, <1>3

\* checkHashType, when the row was not written.
LEMMA CheckHashTypeKeeps ==
  ASSUME HashInv, NEW c \in Clients, pc[c] \in InTx, c \in Native, Unwritten(c),
         (LiveBase(c) => Base(c).kind = "object") =>
             Hash!Outcome(call[c], Visible(Base(c)), call[c].now) = Same(Visible(Base(c)), Ok(0)),
         CheckHashType(c, Ok(0))
  PROVE  HashInv'
<1>1. CASE Live(c) /\ ~IsObject(c)
  BY <1>1, InTxTypes, RollbackKeeps DEF CheckHashType, Tags
<1>2. CASE ~(Live(c) /\ ~IsObject(c))
  <2>1. LiveBase(c) => Base(c).kind = "object"
    BY <1>2, UnwrittenRow
  <2> QED
    BY <1>2, <2>1, LeaveDecides DEF CheckHashType
<1> QED
  BY <1>1, <1>2

\* HSet and HSetNX, first statement.
LEMMA SetAbsentKeeps == ASSUME HashInv, NEW c \in Clients, SetAbsent(c) PROVE HashInv'
<1> DEFINE F == call[c].fields
           V == Visible(Base(c))
<1>1. pc[c] = "stmt" /\ pc[c] \in InTx /\ call[c].op \in {"hset", "hsetnx"}
  BY DEF SetAbsent, InTx
<1>2. Unwritten(c) /\ c \in Native /\ call[c].op \in Hash!Creating
  BY <1>1, InTxTypes DEF TxOK, CallOK, Hash!Creating, Hash!SetOps
<1>3. F \in SUBSET Fields /\ call[c].val \in Values
  BY <1>1, InTxTypes
<1>4. CASE ~Live(c) \/ (IsObject(c) /\ Has(c, F) = {})
  <2>1. Hash!Has(Doc(c)) \cap F = {}
    BY <1>1, <1>2, <1>4, UnwrittenRow, NoFields
  <2>2. LiveBase(c) => Base(c).kind = "object"
    BY <1>1, <1>2, <1>4, UnwrittenRow
  <2>3. Cardinality(Hash!Has(Doc(c)) \cap F) = 0
    BY <2>1, FS_EmptySet
  <2>4. Hash!Outcome(call[c], V, call[c].now) = New(call[c], V, call[c].now, call[c].val, 1)
    BY <1>1, <1>2, <2>1, <2>2, <2>3, UnwrittenRow, OutcomeOfSets
  <2>5. Hash!With(Doc(c), F, call[c].val) = Hash!NewDoc(call[c], Doc(c), call[c].val)
    <3>1. F \ Hash!Has(Doc(c)) = F
      BY <2>1
    <3> QED
      BY <1>1, <3>1 DEF Hash!NewDoc
  <2>6. Hash!With(Doc(c), F, call[c].val) \in Docs
    BY <1>1, <1>2, <1>3, UnwrittenRow, WithType
  <2>7. Did(c, Upsert(c, Hash!With(Doc(c), F, call[c].val)), {}, 1, Ok(1), "commit")
    BY <1>4 DEF SetAbsent
  <2>8. call[c].op # "hsetmany"
    BY <1>1
  <2> HIDE DEF F, V
  <2> QED
    BY <1>1, <1>2, <2>2, <2>4, <2>5, <2>6, <2>7, <2>8, WriteDecides DEF V
<1>5. CASE ~(~Live(c) \/ (IsObject(c) /\ Has(c, F) = {})) /\ call[c].op = "hset"
  <2>1. Did(c, tx[c].row, F, 0, Ok(0), "set")
    BY <1>5 DEF SetAbsent
  <2>2. /\ pc'[c] = "set" /\ call'[c] = call[c] /\ rows' = rows
        /\ tx'[c].row = tx[c].row /\ tx'[c].todo = F /\ tx'[c].n = 0
        /\ Base(c)' = Base(c) /\ LiveBase(c)' = LiveBase(c)
    BY <1>1, <2>1, DidStep, InTxTypes
  <2>3. Unwritten(c)' /\ LiveBase(c)'
    BY <1>1, <1>2, <1>5, <2>2, UnwrittenRow DEF Unwritten
  <2>4. Live(c)' = Live(c) /\ IsObject(c)' = IsObject(c) /\ Has(c, F)' = Has(c, F)
    BY <2>2 DEF Live, IsObject, Has, Doc
  <2>5. TxOK(c)' /\ RoomOK(c)'
    BY <1>2, <1>5, <2>2, <2>3, <2>4 DEF TxOK, RoomOK
  <2>6. Ok(0) \in Replies
    BY ReplyTypes
  <2> QED
    BY <1>1, <1>2, <1>3, <1>5, <2>1, <2>5, <2>6, InTxTypes, DidKeeps DEF InTx
<1>6. CASE ~(~Live(c) \/ (IsObject(c) /\ Has(c, F) = {})) /\ call[c].op # "hset"
  <2>1. CheckHashType(c, Ok(0)) /\ call[c].op = "hsetnx"
    BY <1>1, <1>6 DEF SetAbsent
  <2>2. ASSUME LiveBase(c) => Base(c).kind = "object"
        PROVE  Hash!Outcome(call[c], V, call[c].now) = Same(V, Ok(0))
    <3>1. Hash!Has(Doc(c)) \cap F # {}
      BY <1>1, <1>2, <1>6, <2>2, UnwrittenRow
    <3>2. /\ Hash!OldDoc(V, call[c].now) = Doc(c)
          /\ Hash!Live(V, call[c].now) => V.kind = "object"
      BY <1>1, <1>2, <2>2, UnwrittenRow
    <3> QED
      BY <2>1, <3>1, <3>2, OutcomeOfSets
  <2> QED
    BY <1>1, <1>2, <2>1, <2>2, CheckHashTypeKeeps
<1> QED
  BY <1>4, <1>5, <1>6

\* HSet, second statement.
LEMMA SetPresentKeeps == ASSUME HashInv, NEW c \in Clients, SetPresent(c) PROVE HashInv'
<1> DEFINE F == call[c].fields
           V == Visible(Base(c))
<1>1. pc[c] = "set" /\ pc[c] \in InTx
  BY DEF SetPresent, InTx
<1>2. /\ Unwritten(c) /\ LiveBase(c) /\ tx[c].todo = F /\ c \in Native
      /\ call[c].op = "hset" /\ call[c].op \in Hash!Creating
      /\ IsObject(c) => Has(c, F) # {}
  BY <1>1, InTxTypes DEF TxOK, CallOK, Hash!Creating, Hash!SetOps
<1>3. CASE IsObject(c)
  <2>1. Base(c).kind = "object"
    BY <1>1, <1>2, <1>3, UnwrittenRow
  <2>2. Cardinality(Hash!Has(Doc(c)) \cap F) = 1
    <3>1. PICK f \in Fields : F = {f}
      BY <1>1, <1>2, OneField
    <3>2. Hash!Has(Doc(c)) \cap F = {f}
      BY <1>1, <1>2, <1>3, <3>1, UnwrittenRow
    <3> QED
      BY <3>2, FS_Singleton
  <2>3. Hash!Outcome(call[c], V, call[c].now) = New(call[c], V, call[c].now, call[c].val, 0)
    BY <1>1, <1>2, <2>1, <2>2, UnwrittenRow, OutcomeOfSets
  <2>4. Hash!With(Doc(c), F, call[c].val) = Hash!NewDoc(call[c], Doc(c), call[c].val)
    BY <1>2 DEF Hash!NewDoc
  <2>5. Hash!With(Doc(c), F, call[c].val) \in Docs
    BY <1>1, <1>2, InTxTypes, UnwrittenRow, WithType
  <2>6. Did(c, Upsert(c, Hash!With(Doc(c), F, call[c].val)), {}, 1, Ok(0), "commit")
    BY <1>2, <1>3 DEF SetPresent
  <2> HIDE DEF F, V
  <2> QED
    BY <1>1, <1>2, <2>1, <2>3, <2>4, <2>5, <2>6, WriteDecides DEF V
<1>4. CASE ~IsObject(c)
  <2>1. ~(LiveBase(c) => Base(c).kind = "object")
    BY <1>1, <1>2, <1>4, UnwrittenRow
  <2> QED
    BY <1>1, <1>2, <1>4, <2>1, CheckHashTypeKeeps DEF SetPresent
<1> QED
  BY <1>3, <1>4

\* HIncrBy and HIncrByFloat.
LEMMA IncrKeeps == ASSUME HashInv, NEW c \in Clients, Incr(c) PROVE HashInv'
<1> DEFINE F == call[c].fields
           V == Visible(Base(c))
           old == Doc(c)[Hash!TheField(F)]
<1>1. pc[c] = "stmt" /\ pc[c] \in InTx /\ call[c].op \in Hash!IncrOps
  BY DEF Incr, InTx
<1>2. Unwritten(c) /\ c \in Native /\ call[c].op \in Hash!Creating
  BY <1>1, InTxTypes DEF TxOK, CallOK, Hash!Creating, Hash!IncrOps
<1>3. Hash!TheField(F) \in Fields
  <2>1. PICK f \in Fields : F = {f}
    BY <1>1, OneField DEF Hash!IncrOps
  <2>2. Hash!TheField({f}) \in {f}
    BY DEF Hash!TheField
  <2> QED
    BY <2>1, <2>2
<1>4. old \in Values
  BY <1>1, <1>2, <1>3, UnwrittenRow DEF Docs
<1>5. CASE ~Live(c) \/ (IsObject(c) /\ Hash!Numeric(call[c].op, old) /\ Fits(old))
  <2>1. LiveBase(c) => Base(c).kind = "object"
    BY <1>1, <1>2, <1>5, UnwrittenRow
  <2>2. Hash!Numeric(call[c].op, old) /\ Fits(old)
    <3>1. CASE ~Live(c)
      <4>1. old = NoField
        BY <1>1, <1>2, <1>3, <3>1, UnwrittenRow DEF EmptyDoc, Hash!EmptyDoc, NoField
      <4> QED
        BY <4>1, HashStoreAssumption DEF NoField, Hash!NoField, Hash!Numeric, Fits
    <3> QED
      BY <1>5, <3>1
  <2>3. ~(old.n + 1 > IntMax) /\ old.n + 1 \in Int
    BY <1>4, <2>2, HashStoreAssumption DEF Fits, Values
  <2>4. Hash!Outcome(call[c], V, call[c].now)
          = New(call[c], V, call[c].now, Hash!Sum(call[c].op, old), old.n + 1)
    BY <1>1, <1>2, <2>1, <2>2, <2>3, UnwrittenRow, OutcomeOfIncr
  <2>5. Hash!Sum(call[c].op, old) \in Values
    BY <1>4 DEF Hash!Sum, Values
  <2>6. Hash!With(Doc(c), F, Hash!Sum(call[c].op, old)) \in Docs
    BY <1>1, <1>2, <2>5, UnwrittenRow, WithType
  <2>7. Hash!With(Doc(c), F, Hash!Sum(call[c].op, old))
          = Hash!NewDoc(call[c], Doc(c), Hash!Sum(call[c].op, old))
    BY <1>1 DEF Hash!NewDoc, Hash!IncrOps
  <2>8. Did(c, Upsert(c, Hash!With(Doc(c), F, Hash!Sum(call[c].op, old))), {}, 1, Ok(old.n + 1), "commit")
    BY <1>5 DEF Incr
  <2>9. call[c].op # "hsetmany"
    BY <1>1 DEF Hash!IncrOps
  <2> HIDE DEF F, V, old
  <2> QED
    BY <1>1, <1>2, <2>1, <2>3, <2>4, <2>6, <2>7, <2>8, <2>9, WriteDecides DEF V
<1>6. CASE ~(~Live(c) \/ (IsObject(c) /\ Hash!Numeric(call[c].op, old) /\ Fits(old)))
  <2>1. PICK tag \in {"wrongtype", "overflow", "notnumeric"} : Rollback(c, tag)
    BY <1>6 DEF Incr
  <2> QED
    BY <1>1, <2>1, InTxTypes, RollbackKeeps DEF Tags
<1> QED
  BY <1>5, <1>6

\* The fallback loads the document and checks the capacity.
LEMMA LoadKeeps == ASSUME HashInv, NEW c \in Clients, Load(c) PROVE HashInv'
<1>1. pc[c] = "load" /\ pc[c] \in InTx
  BY DEF Load, InTx
<1>2. Unwritten(c) /\ c \notin Native
  BY <1>1, InTxTypes DEF TxOK, CallOK
<1>3. CASE Live(c) /\ ~IsObject(c)
  BY <1>1, <1>3, InTxTypes, RollbackKeeps DEF Load, Tags
<1>4. CASE ~(Live(c) /\ ~IsObject(c)) /\ ~Live(c) /\ call[c].op \in Hash!Creating /\ Full
  BY <1>1, <1>4, InTxTypes, RollbackKeeps DEF Load, Tags
<1>5. CASE ~(Live(c) /\ ~IsObject(c)) /\ ~(~Live(c) /\ call[c].op \in Hash!Creating /\ Full)
  <2>1. Did(c, tx[c].row, tx[c].todo, 0, Ok(0), "mutate")
    BY <1>5 DEF Load
  <2>2. /\ pc'[c] = "mutate" /\ call'[c] = call[c] /\ rows' = rows
        /\ tx'[c].row = tx[c].row /\ tx'[c].n = 0
        /\ Base(c)' = Base(c) /\ LiveBase(c)' = LiveBase(c)
    BY <1>1, <2>1, DidStep, InTxTypes
  <2>3. Unwritten(c)' /\ (LiveBase(c) => Base(c).kind = "object")
    BY <1>1, <1>2, <1>5, <2>2, UnwrittenRow DEF Unwritten
  <2>4. TxOK(c)'
    BY <2>2, <2>3 DEF TxOK
  <2>5. Full' = Full /\ (Live(c) <=> LiveBase(c))
    BY <1>1, <1>2, <2>2, UnwrittenRow DEF Full, Present
  <2>6. RoomOK(c)'
    BY <1>5, <2>2, <2>5 DEF RoomOK
  <2>7. Ok(0) \in Replies
    BY ReplyTypes
  <2> QED
    BY <1>1, <1>2, <2>1, <2>4, <2>6, <2>7, InTxTypes, DidKeeps DEF InTx
<1> QED
  BY <1>3, <1>4, <1>5
\* A statement of HSetMany leaves the fields done set, whether or not some are
\* left to do.
LEMMA SetManyStatement ==
  ASSUME HashInv, NEW c \in Clients, pc[c] = "stmt", call[c].op = "hsetmany",
         ~(Live(c) /\ ~IsObject(c)),
         NEW F \in SUBSET tx[c].todo, NEW l,
         Did(c, Upsert(c, Hash!With(Doc(c), F, call[c].val)), tx[c].todo \ F, tx[c].n + 1, Ok(0), l)
  PROVE  PartlySet(c)' /\ Upsert(c, Hash!With(Doc(c), F, call[c].val)) \in Rows
<1> DEFINE val == call[c].val
           done == call[c].fields \ tx[c].todo
           doc == Hash!With(Doc(c), F, val)
           row == Upsert(c, doc)
<1>1. pc[c] \in InTx /\ PartlySet(c) /\ TypeOK /\ CallOK(c) /\ pc[c] # "idle"
  BY InTxTypes DEF InTx, TxOK
<1>2. tx[c].row \in Rows /\ Base(c) \in Rows /\ val \in Values /\ tx[c].n \in Nat
  BY <1>1, InTxTypes
<1>3. Doc(c) \in Docs
  BY <1>2, DefaultTypes DEF Doc, Rows
<1>4. doc \in Docs
  BY <1>2, <1>3, WithType
<1>5. /\ row \in Rows /\ row.doc = doc
      /\ Live(c) => row.kind = tx[c].row.kind /\ row.exp = tx[c].row.exp /\ row.acc = tx[c].row.acc + 1
      /\ ~Live(c) => row.kind = "object" /\ row.exp = FreshExp(c)
  <2> HIDE DEF doc
  <2> QED
    BY <1>1, <1>4, UpsertRow
<1>6. row.kind = "object"
  BY <1>5 DEF IsObject
<1>7. /\ call'[c] = call[c] /\ tx'[c].row = row /\ tx'[c].todo = tx[c].todo \ F
      /\ tx'[c].n = tx[c].n + 1
      /\ Base(c)' = Base(c) /\ LiveBase(c)' = LiveBase(c) /\ FreshExp(c)' = FreshExp(c)
  <2> HIDE DEF doc
  <2> QED
    BY <1>1, DidStep DEF doc
<1>8. /\ tx[c].todo \subseteq call[c].fields
      /\ call'[c].fields \ tx'[c].todo = done \cup F
  BY <1>1, <1>7 DEF PartlySet
<1>9. LiveBase(c) => /\ Base(c).kind = "object"
                     /\ row.doc = Hash!With(Base(c).doc, done \cup F, val)
                     /\ row.exp = Base(c).exp
                     /\ row.acc = Base(c).acc + (tx[c].n + 1)
  <2> SUFFICES ASSUME LiveBase(c)
               PROVE  /\ Base(c).kind = "object"
                      /\ row.doc = Hash!With(Base(c).doc, done \cup F, val)
                      /\ row.exp = Base(c).exp
                      /\ row.acc = Base(c).acc + (tx[c].n + 1)
    OBVIOUS
  <2>1. Base(c).doc \in Docs /\ Base(c).acc \in Nat
    BY <1>2 DEF Rows
  <2>2. CASE tx[c].n = 0
    <3>1. Unwritten(c) /\ done = {}
      BY <1>1, <2>2 DEF PartlySet
    <3>2. Live(c) /\ Doc(c) = Base(c).doc /\ Base(c).kind = "object"
      BY <3>1 DEF Live, LiveBase, Unwritten, Doc, IsObject
    <3>3. done \cup F = F
      BY <3>1
    <3>4. row.doc = Hash!With(Base(c).doc, done \cup F, val)
      BY <1>5, <3>2, <3>3
    <3> HIDE DEF row
    <3> QED
      BY <1>5, <2>1, <2>2, <3>1, <3>2, <3>4 DEF Unwritten
  <2>3. CASE tx[c].n # 0
    <3>1. /\ tx[c].row.kind = "object" /\ Base(c).kind = "object"
          /\ tx[c].row.doc = Hash!With(Base(c).doc, done, val)
          /\ tx[c].row.exp = Base(c).exp
          /\ tx[c].row.acc = Base(c).acc + tx[c].n
      BY <1>1, <1>2, <2>3 DEF PartlySet
    <3>2. Live(c) /\ Doc(c) = tx[c].row.doc
      BY <3>1 DEF Live, LiveBase, Doc, Hash!Live
    <3>3. row.doc = Hash!With(Base(c).doc, done \cup F, val)
      BY <1>2, <1>5, <2>1, <3>1, <3>2, WithTwice
    <3> HIDE DEF row
    <3> QED
      BY <1>2, <1>5, <2>1, <3>1, <3>2, <3>3
  <2> QED
    BY <2>2, <2>3
<1>10. ~LiveBase(c) => /\ row.exp = FreshExp(c)
                       /\ call[c].ttl # 0 => row.doc = Hash!With(EmptyDoc, done \cup F, val)
  <2> SUFFICES ASSUME ~LiveBase(c)
               PROVE  /\ row.exp = FreshExp(c)
                      /\ call[c].ttl # 0 => row.doc = Hash!With(EmptyDoc, done \cup F, val)
    OBVIOUS
  <2>1. CASE tx[c].n = 0
    <3>1. Unwritten(c) /\ done = {}
      BY <1>1, <2>1 DEF PartlySet
    <3>2. ~Live(c) /\ Doc(c) = EmptyDoc
      BY <3>1 DEF Live, LiveBase, Unwritten, Doc
    <3>3. done \cup F = F
      BY <3>1
    <3> QED
      BY <1>5, <3>2, <3>3
  <2>2. CASE tx[c].n # 0
    <3>1. /\ tx[c].row.kind = "object" /\ tx[c].row.exp = FreshExp(c)
          /\ call[c].ttl # 0 => tx[c].row.doc = Hash!With(EmptyDoc, done, val)
      BY <1>1, <1>2, <2>2 DEF PartlySet
    <3>2. row.exp = FreshExp(c)
      BY <1>5, <3>1
    <3>3. ASSUME call[c].ttl # 0 PROVE row.doc = Hash!With(EmptyDoc, done \cup F, val)
      <4>1. Live(c)
        <5>1. call[c].ttl \in Nat \cup {Never} /\ call[c].now \in Nat
          BY <1>1, CallTypes
        <5>2. FreshExp(c) = Never \/ FreshExp(c) > call[c].now
          BY <3>3, <5>1 DEF FreshExp, Never
        <5> QED
          BY <3>1, <5>2 DEF Live, Hash!Live, Never, Hash!Never
      <4>2. Doc(c) = Hash!With(EmptyDoc, done, val)
        BY <3>1, <3>3, <4>1 DEF Doc
      <4> QED
        BY <1>2, <1>5, <4>2, WithTwice, DefaultTypes
    <3> QED
      BY <3>2, <3>3
  <2> QED
    BY <2>1, <2>2
<1>11. tx[c].n + 1 > 0 /\ tx[c].n + 1 # 0
  BY <1>2
<1>12. PartlySet(c)'
  <2> HIDE DEF row, done, doc
  <2> QED
    BY <1>6, <1>7, <1>8, <1>9, <1>10, <1>11 DEF PartlySet, done
<1> QED
  BY <1>5, <1>12

\* When all its fields are set, HSetMany has done what it promises.
LEMMA SetManyOutcome ==
  ASSUME TypeOK, NEW c \in Clients, CallOK(c), pc[c] # "idle", call[c].op = "hsetmany",
         NEW row \in Rows, row.kind = "object",
         LiveBase(c) => /\ Base(c).kind = "object" /\ row.exp = Base(c).exp
                        /\ row.doc = Hash!With(Base(c).doc, call[c].fields, call[c].val),
         ~LiveBase(c) => /\ row.exp = FreshExp(c)
                         /\ call[c].ttl # 0 => row.doc = Hash!With(EmptyDoc, call[c].fields, call[c].val)
  PROVE  /\ Hash!Outcome(call[c], Visible(Base(c)), call[c].now).reply = Ok(0)
         /\ call[c].ttl # 0 =>
                Visible(row) = Hash!Outcome(call[c], Visible(Base(c)), call[c].now).row
<1> DEFINE V == Visible(Base(c))
           doc == Hash!NewDoc(call[c], Hash!OldDoc(V, call[c].now), call[c].val)
<1>1. Base(c) \in Rows
  BY CallTypes
<1>2. /\ V.kind = Base(c).kind /\ (Hash!Live(V, call[c].now) <=> LiveBase(c))
      /\ Hash!OldDoc(V, call[c].now) = IF LiveBase(c) THEN Base(c).doc ELSE EmptyDoc
  BY <1>1, VisibleRow DEF LiveBase
<1>3. Hash!Live(V, call[c].now) => V.kind = "object"
  BY <1>2
<1>4. Hash!Outcome(call[c], V, call[c].now) = New(call[c], V, call[c].now, call[c].val, 0)
  <2> HIDE DEF V
  <2> QED
    BY <1>3, OutcomeOfSets
<1>5. /\ Hash!Outcome(call[c], V, call[c].now).reply = Ok(0)
      /\ Hash!Outcome(call[c], V, call[c].now).row = Hash!NewRow(call[c], V, call[c].now, doc)
  BY <1>4 DEF New
<1>6. doc = Hash!With(IF LiveBase(c) THEN Base(c).doc ELSE EmptyDoc, call[c].fields, call[c].val)
  BY <1>2 DEF Hash!NewDoc
<1>7. call[c].ttl # 0 => Visible(row) = Hash!NewRow(call[c], V, call[c].now, doc)
  <2> HIDE DEF doc
  <2>1. call[c].ttl # 0 => row.doc = doc
    BY <1>6
  <2> QED
    BY <2>1, UpsertIsNewRow
<1> QED
  BY <1>5, <1>7

\* HSetMany.
LEMMA SetManyKeeps == ASSUME HashInv, NEW c \in Clients, SetMany(c) PROVE HashInv'
<1>1. pc[c] = "stmt" /\ pc[c] \in InTx /\ call[c].op = "hsetmany"
  BY DEF SetMany, InTx
<1>2. PICK F \in SUBSET tx[c].todo :
          IF Live(c) /\ ~IsObject(c) THEN Rollback(c, "wrongtype")
          ELSE Did(c, Upsert(c, Hash!With(Doc(c), F, call[c].val)), tx[c].todo \ F,
                   tx[c].n + 1, Ok(0), IF F = tx[c].todo THEN "commit" ELSE "stmt")
  BY DEF SetMany
<1>3. CASE Live(c) /\ ~IsObject(c)
  BY <1>1, <1>2, <1>3, InTxTypes, RollbackKeeps DEF Tags
<1>4. CASE ~(Live(c) /\ ~IsObject(c))
  <2> DEFINE row == Upsert(c, Hash!With(Doc(c), F, call[c].val))
  <2>1. PICK l \in {"commit", "stmt"} : /\ l = "commit" <=> F = tx[c].todo
                                        /\ Did(c, row, tx[c].todo \ F, tx[c].n + 1, Ok(0), l)
    BY <1>2, <1>4
  <2>2. PartlySet(c)' /\ row \in Rows
    BY <1>1, <1>4, <2>1, SetManyStatement
  <2> HIDE DEF row
  <2>3. /\ TypeOK /\ CallOK(c) /\ c \in Native /\ tx[c].n \in Nat /\ tx[c].todo \in SUBSET Fields
        /\ pc[c] # "idle"
    BY <1>1, InTxTypes DEF CallOK
  <2>4. /\ pc'[c] = l /\ call'[c] = call[c] /\ rows' = rows /\ reply'[c] = reply[c] /\ now' = now
        /\ tx'[c].row = row /\ tx'[c].todo = tx[c].todo \ F /\ tx'[c].n = tx[c].n + 1
        /\ tx'[c].reply = Ok(0)
    BY <2>1, <2>3, DidStep
  <2>5. Ok(0) \in Replies
    BY ReplyTypes
  <2>6. Base(c)' = Base(c) /\ LiveBase(c)' = LiveBase(c) /\ FreshExp(c)' = FreshExp(c)
    BY <2>1, <2>3, DidStep
  <2>7. l = "commit" => Decided(c)'
    <3> SUFFICES ASSUME l = "commit" PROVE Decided(c)'
      OBVIOUS
    <3>1. call'[c].fields \ tx'[c].todo = call[c].fields /\ tx'[c].n > 0 /\ tx'[c].n # 0
      BY <2>1, <2>3, <2>4
    <3>2. /\ row.kind = "object"
          /\ LiveBase(c) => /\ Base(c).kind = "object" /\ row.exp = Base(c).exp
                            /\ row.doc = Hash!With(Base(c).doc, call[c].fields, call[c].val)
                            /\ row.acc = Base(c).acc + tx'[c].n
          /\ ~LiveBase(c) => /\ row.exp = FreshExp(c)
                             /\ call[c].ttl # 0 => row.doc = Hash!With(EmptyDoc, call[c].fields, call[c].val)
      BY <2>2, <2>4, <2>6, <3>1 DEF PartlySet
    <3>3. /\ Hash!Outcome(call[c], Visible(Base(c)), call[c].now).reply = Ok(0)
          /\ call[c].ttl # 0 =>
                 Visible(row) = Hash!Outcome(call[c], Visible(Base(c)), call[c].now).row
      BY <1>1, <2>2, <2>3, <3>2, SetManyOutcome
    <3>4. call[c].op \in Hash!Creating
      BY <1>1 DEF Hash!Creating, Hash!SetOps
    <3> QED
      BY <1>1, <2>3, <2>4, <2>6, <3>1, <3>2, <3>3, <3>4 DEF Decided
  <2>8. TxOK(c)' /\ RoomOK(c)'
    BY <1>1, <2>2, <2>3, <2>4, <2>7 DEF TxOK, RoomOK
  <2> QED
    BY <1>1, <2>1, <2>2, <2>3, <2>5, <2>8, DidKeeps DEF InTx
<1> QED
  BY <1>3, <1>4
\* HDel, the statement for one field.
LEMMA DelKeeps == ASSUME HashInv, NEW c \in Clients, Del(c) PROVE HashInv'
<1> DEFINE done == call[c].fields \ tx[c].todo
<1>1. pc[c] = "stmt" /\ pc[c] \in InTx /\ call[c].op = "hdel"
  BY DEF Del, InTx
<1>2. PICK f \in tx[c].todo :
          IF IsObject(c) /\ Has(c, {f}) # {}
          THEN Did(c, [tx[c].row EXCEPT !.doc[f] = NoField,
                                        !.acc = IF tx[c].n = 0 THEN @ + 1 ELSE @],
                   tx[c].todo \ {f}, tx[c].n + 1, Ok(tx[c].n + 1), "stmt")
          ELSE Did(c, tx[c].row, tx[c].todo \ {f}, tx[c].n, Ok(tx[c].n), "stmt")
  BY DEF Del
<1>3. /\ PartlyDeleted(c) /\ TypeOK /\ c \in Native /\ pc[c] # "idle"
      /\ tx[c].row \in Rows /\ Base(c) \in Rows /\ tx[c].n \in Nat /\ tx[c].todo \in SUBSET Fields
  BY <1>1, InTxTypes DEF TxOK, CallOK
<1>4. f \in Fields /\ f \notin done /\ tx[c].todo \subseteq call[c].fields
      /\ call[c].fields \ (tx[c].todo \ {f}) = done \cup {f}
  BY <1>3 DEF PartlyDeleted
<1>5. Ok(tx[c].n) \in Replies /\ Ok(tx[c].n + 1) \in Replies
  BY <1>3, ReplyTypes
<1>6. IsObject(c) <=> LiveBase(c) /\ Base(c).kind = "object"
  BY <1>3 DEF PartlyDeleted, IsObject, Live, LiveBase, Unwritten, Hash!Live
<1>7. IsObject(c) => /\ tx[c].row.doc = Hash!With(Base(c).doc, done, NoField)
                     /\ Doc(c) = tx[c].row.doc /\ tx[c].row.doc \in Docs /\ Base(c).doc \in Docs
                     /\ tx[c].row.exp = Base(c).exp /\ tx[c].row.kind = "object"
                     /\ tx[c].n = Cardinality(Hash!Has(Base(c).doc) \cap done)
                     /\ tx[c].row.acc = Base(c).acc + (IF tx[c].n = 0 THEN 0 ELSE 1)
                     /\ Base(c).acc \in Nat /\ tx[c].row.acc \in Nat
                     /\ tx[c].n > 0 => tx[c].reply = Ok(tx[c].n)
  BY <1>3, <1>6 DEF PartlyDeleted, Doc, Rows, IsObject
<1>8. IsObject(c) => /\ tx[c].row.doc[f] = Base(c).doc[f]
                     /\ Has(c, {f}) # {} <=> Base(c).doc[f] # NoField
  <2> SUFFICES ASSUME IsObject(c) PROVE /\ tx[c].row.doc[f] = Base(c).doc[f]
                                        /\ Has(c, {f}) # {} <=> Base(c).doc[f] # NoField
    OBVIOUS
  <2>1. tx[c].row.doc[f] = Base(c).doc[f]
    BY <1>4, <1>7, WithType, DefaultTypes
  <2> HIDE DEF done
  <2> QED
    BY <1>4, <1>7, <2>1 DEF Has, Hash!Has, NoField
<1>9. CASE IsObject(c) /\ Has(c, {f}) # {}
  <2>1. PICK row : row = [tx[c].row EXCEPT !.doc[f] = NoField,
                                           !.acc = IF tx[c].n = 0 THEN @ + 1 ELSE @]
    OBVIOUS
  <2>2. /\ row \in Rows /\ row.kind = "object" /\ row.exp = Base(c).exp
        /\ row.acc = Base(c).acc + 1
        /\ row.doc = [tx[c].row.doc EXCEPT ![f] = NoField]
    <3>1. PICK a \in Nat : a = IF tx[c].n = 0 THEN tx[c].row.acc + 1 ELSE tx[c].row.acc
      BY <1>7, <1>9
    <3>2. PICK d : d = [tx[c].row.doc EXCEPT ![f] = NoField]
      OBVIOUS
    <3>3. d \in Docs
      BY <1>7, <1>9, <3>2, DefaultTypes DEF Docs
    <3>4. row = [tx[c].row EXCEPT !.doc = d, !.acc = a]
      BY <2>1, <3>1, <3>2, <1>3 DEF Rows
    <3>5. row \in Rows /\ row.kind = tx[c].row.kind /\ row.exp = tx[c].row.exp /\ row.acc = a /\ row.doc = d
      BY <1>3, <3>1, <3>3, <3>4 DEF Rows
    <3>6. a = Base(c).acc + 1
      BY <1>7, <1>9, <3>1
    <3> QED
      BY <1>7, <1>9, <3>2, <3>5, <3>6
  <2>3. row.doc = Hash!With(Base(c).doc, done \cup {f}, NoField)
    <3>1. row.doc \in Docs
      BY <2>2 DEF Rows
    <3>2. Hash!With(Base(c).doc, done \cup {f}, NoField) \in Docs
      BY <1>7, <1>9, WithType, DefaultTypes
    <3>3. ASSUME NEW g \in Fields
          PROVE  row.doc[g] = Hash!With(Base(c).doc, done \cup {f}, NoField)[g]
      <4>1. row.doc[g] = IF g = f THEN NoField ELSE tx[c].row.doc[g]
        BY <1>7, <1>9, <2>2 DEF Docs
      <4>2. tx[c].row.doc[g] = IF g \in done THEN NoField ELSE Base(c).doc[g]
        BY <1>7, <1>9, WithType, DefaultTypes
      <4>3. Hash!With(Base(c).doc, done \cup {f}, NoField)[g]
              = IF g \in done \cup {f} THEN NoField ELSE Base(c).doc[g]
        BY <1>7, <1>9, WithType, DefaultTypes
      <4> HIDE DEF done
      <4> QED
        BY <4>1, <4>2, <4>3
    <3> HIDE DEF done
    <3> QED
      BY <3>1, <3>2, <3>3, DocsEqual
  <2>4. tx[c].n + 1 = Cardinality(Hash!Has(Base(c).doc) \cap (done \cup {f}))
    <3>1. /\ f \in Hash!Has(Base(c).doc)
      BY <1>4, <1>8, <1>9 DEF Hash!Has, NoField
    <3> HIDE DEF done
    <3>2. Hash!Has(Base(c).doc) \cap (done \cup {f}) = (Hash!Has(Base(c).doc) \cap done) \cup {f}
      BY <3>1
    <3>3. IsFiniteSet(Hash!Has(Base(c).doc) \cap done) /\ f \notin Hash!Has(Base(c).doc) \cap done
      BY <1>4, HasFinite
    <3>4. Cardinality((Hash!Has(Base(c).doc) \cap done) \cup {f})
            = Cardinality(Hash!Has(Base(c).doc) \cap done) + 1
      BY <3>3, FS_AddElement
    <3>5. tx[c].n = Cardinality(Hash!Has(Base(c).doc) \cap done)
      BY <1>7, <1>9
    <3> QED
      BY <3>2, <3>4, <3>5
  <2>5. Did(c, row, tx[c].todo \ {f}, tx[c].n + 1, Ok(tx[c].n + 1), "stmt")
    BY <1>2, <1>9, <2>1
  <2>6. /\ pc'[c] = "stmt" /\ call'[c] = call[c] /\ tx'[c].row = row
        /\ tx'[c].todo = tx[c].todo \ {f} /\ tx'[c].n = tx[c].n + 1 /\ tx'[c].reply = Ok(tx[c].n + 1)
        /\ Base(c)' = Base(c) /\ LiveBase(c)' = LiveBase(c)
    BY <1>3, <2>5, DidStep
  <2>7. tx[c].n + 1 # 0 /\ tx[c].n + 1 \in Nat
    BY <1>3
  <2>8. PartlyDeleted(c)'
    <3>1. call'[c].fields \ tx'[c].todo = done \cup {f} /\ tx'[c].todo \subseteq call'[c].fields
      BY <1>4, <2>6
    <3>2. Ok(tx[c].n)' = Ok(tx[c].n + 1)
      BY <2>6 DEF Ok
    <3> HIDE DEF done
    <3> QED
      BY <1>6, <1>9, <2>2, <2>3, <2>4, <2>6, <2>7, <3>1, <3>2 DEF PartlyDeleted
  <2>9. TxOK(c)' /\ RoomOK(c)'
    BY <1>1, <1>3, <2>6, <2>8 DEF TxOK, RoomOK
  <2> QED
    BY <1>1, <1>3, <1>5, <2>2, <2>5, <2>7, <2>9, DidKeeps DEF InTx
<1>10. CASE ~(IsObject(c) /\ Has(c, {f}) # {})
  <2>1. Did(c, tx[c].row, tx[c].todo \ {f}, tx[c].n, Ok(tx[c].n), "stmt")
    BY <1>2, <1>10
  <2>2. /\ pc'[c] = "stmt" /\ call'[c] = call[c] /\ tx'[c].row = tx[c].row
        /\ tx'[c].todo = tx[c].todo \ {f} /\ tx'[c].n = tx[c].n /\ tx'[c].reply = Ok(tx[c].n)
        /\ Base(c)' = Base(c) /\ LiveBase(c)' = LiveBase(c) /\ Unwritten(c)' = Unwritten(c)
    BY <1>3, <2>1, DidStep DEF Unwritten
  <2>3. /\ call'[c].fields \ tx'[c].todo = done \cup {f} /\ tx'[c].todo \subseteq call'[c].fields
        /\ Ok(tx[c].n)' = Ok(tx[c].n)
    BY <1>4, <2>2 DEF Ok
  <2>4. PartlyDeleted(c)'
    <3>1. CASE ~IsObject(c)
      <4>1. Unwritten(c)
        BY <1>3, <1>6, <3>1 DEF PartlyDeleted
      <4> QED
        BY <1>6, <2>2, <2>3, <3>1, <4>1 DEF PartlyDeleted
    <3>2. CASE IsObject(c)
      <4>1. Base(c).doc[f] = NoField
        BY <1>8, <1>10, <3>2
      <4>2. tx[c].row.doc = Hash!With(Base(c).doc, done \cup {f}, NoField)
        <5>1. Hash!With(Base(c).doc, done \cup {f}, NoField) \in Docs
          BY <1>7, <3>2, WithType, DefaultTypes
        <5>2. ASSUME NEW g \in Fields
              PROVE  tx[c].row.doc[g] = Hash!With(Base(c).doc, done \cup {f}, NoField)[g]
          <6>1. tx[c].row.doc[g] = IF g \in done THEN NoField ELSE Base(c).doc[g]
            BY <1>7, <3>2, WithType, DefaultTypes
          <6>2. Hash!With(Base(c).doc, done \cup {f}, NoField)[g]
                  = IF g \in done \cup {f} THEN NoField ELSE Base(c).doc[g]
            BY <1>7, <3>2, WithType, DefaultTypes
          <6> HIDE DEF done
          <6> QED
            BY <4>1, <6>1, <6>2
        <5> HIDE DEF done
        <5> QED
          BY <1>7, <3>2, <5>1, <5>2, DocsEqual
      <4>3. Hash!Has(Base(c).doc) \cap (done \cup {f}) = Hash!Has(Base(c).doc) \cap done
        <5> HIDE DEF done
        <5> QED
          BY <4>1 DEF Hash!Has, NoField
      <4> HIDE DEF done
      <4> QED
        BY <1>6, <1>7, <2>2, <2>3, <3>2, <4>2, <4>3 DEF PartlyDeleted
    <3> QED
      BY <3>1, <3>2
  <2>5. TxOK(c)' /\ RoomOK(c)'
    BY <1>1, <1>3, <2>2, <2>4 DEF TxOK, RoomOK
  <2> QED
    BY <1>1, <1>3, <1>5, <2>1, <2>5, DidKeeps DEF InTx
<1> QED
  BY <1>9, <1>10

\* HDel, at the end.
LEMMA DelDoneKeeps == ASSUME HashInv, NEW c \in Clients, DelDone(c) PROVE HashInv'
<1> DEFINE V == Visible(Base(c))
           F == call[c].fields
           has == Hash!Has(Base(c).doc) \cap F
<1>1. pc[c] = "stmt" /\ pc[c] \in InTx /\ call[c].op = "hdel" /\ tx[c].todo = {}
  BY DEF DelDone, InTx
<1>2. /\ PartlyDeleted(c) /\ TypeOK /\ CallOK(c) /\ c \in Native /\ pc[c] # "idle"
      /\ tx[c].row \in Rows /\ Base(c) \in Rows /\ tx[c].n \in Nat
  BY <1>1, InTxTypes DEF TxOK, CallOK
<1>3. F \ tx[c].todo = F
  BY <1>1
<1>4. /\ V.kind = Base(c).kind /\ (Hash!Live(V, call[c].now) <=> LiveBase(c))
      /\ Hash!OldDoc(V, call[c].now) = IF LiveBase(c) THEN Base(c).doc ELSE EmptyDoc
  BY <1>2, VisibleRow DEF LiveBase
<1>5. LiveBase(c) /\ Base(c).kind = "object" =>
          /\ tx[c].row.kind = "object" /\ tx[c].row.exp = Base(c).exp
          /\ tx[c].row.doc = Hash!With(Base(c).doc, F, NoField)
          /\ tx[c].n = Cardinality(has)
          /\ tx[c].row.acc = Base(c).acc + (IF tx[c].n = 0 THEN 0 ELSE 1)
          /\ tx[c].n > 0 => tx[c].reply = Ok(tx[c].n)
  BY <1>2, <1>3 DEF PartlyDeleted
<1>6. ~(LiveBase(c) /\ Base(c).kind = "object") => Unwritten(c)
  BY <1>2 DEF PartlyDeleted
<1>7. IsFiniteSet(has) /\ (has = {} <=> Cardinality(has) = 0)
  BY HasFinite, FS_EmptySet
<1>8. CASE tx[c].n = 0
  <2>1. Unwritten(c)
    <3>1. CASE LiveBase(c) /\ Base(c).kind = "object"
      <4>1. has = {}
        BY <1>5, <1>7, <1>8, <3>1
      <4>2. Base(c).doc \in Docs /\ Hash!With(Base(c).doc, F, NoField) \in Docs
        BY <1>2, WithType, DefaultTypes DEF Rows
      <4>3. \A g \in Fields : Hash!With(Base(c).doc, F, NoField)[g] = Base(c).doc[g]
        BY <4>1, <4>2, WithType, DefaultTypes DEF Hash!Has, NoField
      <4>4. tx[c].row.doc = Base(c).doc
        BY <1>5, <3>1, <4>2, <4>3, DocsEqual
      <4>5. tx[c].row.acc = Base(c).acc
        BY <1>2, <1>5, <1>8, <3>1 DEF Rows
      <4>6. tx[c].row = Base(c)
        BY <1>2, <1>5, <3>1, <4>4, <4>5 DEF Rows
      <4> QED
        BY <1>8, <4>6 DEF Unwritten
    <3> QED
      BY <1>6, <3>1
  <2>2. ASSUME LiveBase(c) => Base(c).kind = "object"
        PROVE  Hash!Outcome(call[c], V, call[c].now) = Same(V, Ok(0))
    <3>1. Hash!Live(V, call[c].now) => V.kind = "object"
      BY <1>4, <2>2
    <3>2. Hash!Has(Hash!OldDoc(V, call[c].now)) \cap F = {}
      <4>1. CASE LiveBase(c)
        BY <1>4, <1>5, <1>7, <1>8, <2>2, <4>1
      <4>2. CASE ~LiveBase(c)
        BY <1>4, <4>2, NoFields
      <4> QED
        BY <4>1, <4>2
    <3> HIDE DEF V
    <3> QED
      BY <1>1, <3>1, <3>2, OutcomeOfDel
  <2> QED
    BY <1>1, <1>2, <1>8, <2>1, <2>2, CheckHashTypeKeeps DEF DelDone
<1>9. CASE tx[c].n # 0
  <2>1. LiveBase(c) /\ Base(c).kind = "object" /\ tx[c].n > 0
    BY <1>2, <1>6, <1>9 DEF Unwritten
  <2>2. Did(c, tx[c].row, {}, tx[c].n, tx[c].reply, "commit")
    BY <1>9 DEF DelDone
  <2>3. /\ pc'[c] = "commit" /\ call'[c] = call[c] /\ tx'[c].row = tx[c].row
        /\ tx'[c].n = tx[c].n /\ tx'[c].reply = tx[c].reply
        /\ Base(c)' = Base(c) /\ LiveBase(c)' = LiveBase(c)
    BY <1>2, <2>2, DidStep
  <2>4. Hash!Outcome(call[c], V, call[c].now) = New(call[c], V, call[c].now, call[c].val, tx[c].n)
    <3>1. /\ Hash!Live(V, call[c].now) => V.kind = "object"
          /\ Hash!Has(Hash!OldDoc(V, call[c].now)) \cap F = has
      BY <1>4, <2>1
    <3>2. has # {} /\ Cardinality(has) = tx[c].n
      BY <1>5, <1>7, <2>1
    <3> HIDE DEF V, has
    <3> QED
      BY <1>1, <3>1, <3>2, OutcomeOfDel
  <2>5. Hash!NewDoc(call[c], Hash!OldDoc(V, call[c].now), call[c].val) = tx[c].row.doc
    BY <1>1, <1>4, <1>5, <2>1 DEF Hash!NewDoc, NoField
  <2>6. Visible(tx[c].row) = Hash!NewRow(call[c], V, call[c].now, tx[c].row.doc)
    BY <1>2, <1>5, <2>1, UpsertIsNewRow
  <2>7. /\ Hash!Outcome(call[c], V, call[c].now).row = Visible(tx[c].row)
        /\ Hash!Outcome(call[c], V, call[c].now).reply = tx[c].reply
    BY <1>5, <2>1, <2>4, <2>5, <2>6 DEF New
  <2>8. Decided(c)'
    BY <1>1, <1>5, <1>9, <2>1, <2>3, <2>7 DEF Decided
  <2>9. TxOK(c)' /\ RoomOK(c)'
    BY <1>2, <2>3, <2>8 DEF TxOK, RoomOK
  <2> QED
    BY <1>1, <1>2, <2>2, <2>9, InTxTypes, DidKeeps DEF InTx
<1> QED
  BY <1>8, <1>9
\* The fallback changes the document and writes it back.
LEMMA MutateKeeps == ASSUME HashInv, NEW c \in Clients, Mutate(c) PROVE HashInv'
<1> DEFINE F == call[c].fields
           V == Visible(Base(c))
           has == Hash!Has(Doc(c)) \cap F
           out == Hash!Outcome(call[c], V, call[c].now)
           write(doc, n) == Did(c, Upsert(c, doc), {}, 1, Ok(n), "commit")
           leave == Did(c, tx[c].row, {}, 0, Ok(0), "commit")
<1>1. pc[c] = "mutate" /\ pc[c] \in InTx
  BY DEF Mutate, InTx
<1>2. /\ Unwritten(c) /\ c \notin Native /\ (LiveBase(c) => Base(c).kind = "object")
      /\ call[c].op \in Hash!Creating \cup {"hdel"} /\ call[c].val \in Values
      /\ F \in SUBSET Fields
  BY <1>1, InTxTypes DEF TxOK, CallOK
<1>3. /\ Doc(c) \in Docs /\ Doc(c) = Hash!OldDoc(V, call[c].now)
      /\ Hash!Live(V, call[c].now) => V.kind = "object"
      /\ ~LiveBase(c) => Doc(c) = EmptyDoc
      /\ Has(c, F) = has
  BY <1>1, <1>2, UnwrittenRow
<1>4. has \subseteq Hash!Has(Doc(c)) /\ IsFiniteSet(has) /\ Cardinality(has) \in Nat
  BY HasFinite
<1>5. ASSUME NEW doc \in Docs, NEW n \in Int, NEW v, doc = Hash!NewDoc(call[c], Doc(c), v),
             out = New(call[c], V, call[c].now, v, n),
             call[c].op \in Hash!Creating \/ LiveBase(c),
             write(doc, n)
      PROVE  HashInv'
  BY <1>1, <1>2, <1>5, WriteDecides
<1>6. ASSUME out = Same(V, Ok(0)), leave PROVE HashInv'
  BY <1>1, <1>2, <1>6, LeaveDecides
<1>7. CASE call[c].op = "hset"
  <2>1. write(Hash!With(Doc(c), F, call[c].val), IF has = {} THEN 1 ELSE 0)
    BY <1>3, <1>7 DEF Mutate, Hash!IncrOps
  <2>2. (IF has = {} THEN 1 ELSE 0) = 1 - Cardinality(has)
    <3>1. PICK f \in Fields : F = {f}
      BY <1>1, <1>7, OneField
    <3>2. has = {} \/ has = {f}
      BY <3>1
    <3> HIDE DEF has
    <3>3. CASE has = {}
      BY <3>3, FS_EmptySet
    <3>4. CASE has = {f}
      <4>1. Cardinality({f}) = 1
        BY FS_Singleton
      <4> QED
        BY <3>4, <4>1
    <3> QED
      BY <3>2, <3>3, <3>4
  <2>3. Hash!With(Doc(c), F, call[c].val) = Hash!NewDoc(call[c], Doc(c), call[c].val)
    BY <1>7 DEF Hash!NewDoc
  <2>4. Hash!With(Doc(c), F, call[c].val) \in Docs
    BY <1>2, <1>3, WithType
  <2>5. out = New(call[c], V, call[c].now, call[c].val, 1 - Cardinality(has))
    <3> HIDE DEF V
    <3> QED
      BY <1>3, <1>7, OutcomeOfSets DEF V
  <2>6. call[c].op \in Hash!Creating /\ 1 - Cardinality(has) \in Int
    BY <1>4, <1>7 DEF Hash!Creating, Hash!SetOps
  <2> HIDE DEF F, V, has, out, write
  <2> QED
    BY <1>5, <2>1, <2>2, <2>3, <2>4, <2>5, <2>6
<1>8. CASE call[c].op = "hsetmany"
  <2>1. write(Hash!With(Doc(c), F, call[c].val), 0)
    BY <1>8 DEF Mutate, Hash!IncrOps
  <2>2. Hash!With(Doc(c), F, call[c].val) = Hash!NewDoc(call[c], Doc(c), call[c].val)
    BY <1>8 DEF Hash!NewDoc
  <2>3. Hash!With(Doc(c), F, call[c].val) \in Docs
    BY <1>2, <1>3, WithType
  <2>4. out = New(call[c], V, call[c].now, call[c].val, 0)
    <3> HIDE DEF V
    <3> QED
      BY <1>3, <1>8, OutcomeOfSets DEF V
  <2>5. call[c].op \in Hash!Creating
    BY <1>8 DEF Hash!Creating, Hash!SetOps
  <2> HIDE DEF F, V, has, out, write
  <2> QED
    BY <1>5, <2>1, <2>2, <2>3, <2>4, <2>5
<1>9. CASE call[c].op = "hsetnx"
  <2>1. IF has = {} THEN write(Hash!With(Doc(c), F, call[c].val), 1) ELSE leave
    BY <1>3, <1>9 DEF Mutate, Hash!IncrOps
  <2>2. out = IF has = {} THEN New(call[c], V, call[c].now, call[c].val, 1) ELSE Same(V, Ok(0))
    <3>1. Hash!Has(Hash!OldDoc(V, call[c].now)) \cap call[c].fields = has
      BY <1>3
    <3>2. Hash!Live(V, call[c].now) => V.kind = "object"
      BY <1>3
    <3> HIDE DEF V, has
    <3> QED
      BY <1>9, <3>1, <3>2, OutcomeOfSets
  <2>3. CASE has = {}
    <3>1. F \ Hash!Has(Doc(c)) = F
      BY <2>3
    <3>2. Hash!With(Doc(c), F, call[c].val) = Hash!NewDoc(call[c], Doc(c), call[c].val)
      BY <1>9, <3>1 DEF Hash!NewDoc
    <3>3. Hash!With(Doc(c), F, call[c].val) \in Docs
      BY <1>2, <1>3, WithType
    <3>4. call[c].op \in Hash!Creating
      BY <1>9 DEF Hash!Creating, Hash!SetOps
    <3> HIDE DEF F, V, has, out, write
    <3> QED
      BY <1>5, <2>1, <2>2, <2>3, <3>2, <3>3, <3>4
  <2>4. CASE has # {}
    <3> HIDE DEF F, V, has, out, leave
    <3> QED
      BY <1>6, <2>1, <2>2, <2>4
  <2> QED
    BY <2>3, <2>4
<1>10. CASE call[c].op = "hdel"
  <2>1. IF has = {} THEN leave ELSE write(Hash!With(Doc(c), has, NoField), Cardinality(has))
    BY <1>3, <1>10 DEF Mutate, Hash!IncrOps
  <2>2. out = IF has = {} THEN Same(V, Ok(0))
              ELSE New(call[c], V, call[c].now, call[c].val, Cardinality(has))
    <3> HIDE DEF V
    <3>1. Hash!Outcome(call[c], V, call[c].now)
            = LET old == Hash!Has(Hash!OldDoc(V, call[c].now)) \cap call[c].fields IN
              IF old = {} THEN Same(V, Ok(0))
              ELSE New(call[c], V, call[c].now, call[c].val, Cardinality(old))
      BY <1>3, <1>10, OutcomeOfDel, Zenon
    <3>2. Hash!OldDoc(V, call[c].now) = Doc(c)
      BY <1>3
    <3> QED
      BY <3>1, <3>2, Zenon
  <2>3. CASE has = {}
    <3> HIDE DEF F, V, has, out, leave
    <3> QED
      BY <1>6, <2>1, <2>2, <2>3
  <2>4. CASE has # {}
    <3>1. LiveBase(c)
      BY <1>3, <2>4, NoFields
    <3>2. Hash!With(Doc(c), has, NoField) \in Docs /\ Hash!With(Doc(c), F, NoField) \in Docs
      BY <1>3, WithType, DefaultTypes
    <3>3. \A g \in Fields : Hash!With(Doc(c), has, NoField)[g] = Hash!With(Doc(c), F, NoField)[g]
      BY <1>3, WithType, DefaultTypes DEF Hash!Has, NoField
    <3>4. Hash!With(Doc(c), has, NoField) = Hash!With(Doc(c), F, NoField)
      BY <3>2, <3>3, DocsEqual
    <3>5. Hash!With(Doc(c), has, NoField) = Hash!NewDoc(call[c], Doc(c), call[c].val)
      BY <1>10, <3>4 DEF Hash!NewDoc, NoField
    <3>6. Cardinality(has) \in Int
      BY <1>4
    <3> HIDE DEF F, V, has, out, write
    <3> QED
      BY <1>5, <2>1, <2>2, <2>4, <3>1, <3>2, <3>5, <3>6
  <2> QED
    BY <2>3, <2>4
<1>11. CASE call[c].op \in Hash!IncrOps
  <2> DEFINE old == Doc(c)[Hash!TheField(F)]
             doc == Hash!With(Doc(c), F, Hash!Sum(call[c].op, old))
  <2>1. IF ~Hash!Numeric(call[c].op, old) THEN Rollback(c, "notnumeric")
        ELSE IF ~Fits(old) THEN Rollback(c, "overflow")
        ELSE write(doc, old.n + 1)
    BY <1>11 DEF Mutate, Hash!IncrOps
  <2>2. CASE ~Hash!Numeric(call[c].op, old) \/ ~Fits(old)
    BY <1>1, <2>1, <2>2, InTxTypes, RollbackKeeps DEF Tags
  <2>3. CASE Hash!Numeric(call[c].op, old) /\ Fits(old)
    <3>1. Hash!TheField(F) \in Fields
      <4>1. PICK f \in Fields : F = {f}
        BY <1>1, <1>11, OneField DEF Hash!IncrOps
      <4>2. Hash!TheField({f}) \in {f}
        BY DEF Hash!TheField
      <4> QED
        BY <4>1, <4>2
    <3>2. old \in Values
      BY <1>3, <3>1 DEF Docs
    <3>3. ~(old.n + 1 > IntMax) /\ old.n + 1 \in Int
      BY <2>3, <3>2, HashStoreAssumption DEF Fits, Values
    <3>4. out = New(call[c], V, call[c].now, Hash!Sum(call[c].op, old), old.n + 1)
      <4> HIDE DEF V
      <4> QED
        BY <1>3, <1>11, <2>3, <3>3, OutcomeOfIncr DEF V
    <3>5. Hash!Sum(call[c].op, old) \in Values
      BY <3>2 DEF Hash!Sum, Values
    <3>6. doc \in Docs
      BY <1>3, <3>5, WithType
    <3>7. doc = Hash!NewDoc(call[c], Doc(c), Hash!Sum(call[c].op, old))
      BY <1>11 DEF Hash!NewDoc, Hash!IncrOps
    <3>8. call[c].op \in Hash!Creating
      BY <1>11 DEF Hash!Creating
    <3>9. write(doc, old.n + 1)
      BY <2>1, <2>3
    <3> HIDE DEF F, V, has, out, write, old, doc
    <3> QED
      BY <1>5, <3>3, <3>4, <3>6, <3>7, <3>8, <3>9
  <2> QED
    BY <2>2, <2>3
<1> QED
  BY <1>2, <1>7, <1>8, <1>9, <1>10, <1>11 DEF Hash!Creating, Hash!SetOps

\* COMMIT.
LEMMA CommitKeeps == ASSUME HashInv, NEW c \in Clients, Commit(c) PROVE HashInv'
<1>1. pc[c] = "commit" /\ pc[c] \in InTx
  BY DEF Commit, CommitReporting, InTx
<1>2. /\ Decided(c) /\ TypeOK /\ NoGhosts /\ pc[c] # "idle" /\ CallOK(c) /\ pc[c] \in Waiting
      /\ tx[c].row \in Rows /\ tx[c].reply \in Replies /\ tx[c].n \in Nat
  BY <1>1, InTxTypes DEF TxOK, HashInv
<1>3. call[c].key \in Keys
  BY <1>2, CallTypes
<1>4. rows' = [rows EXCEPT ![call[c].key] = tx[c].row]
  BY DEF Commit, CommitReporting
<1>5. rows' \in [Keys -> Rows]
  BY <1>2, <1>4 DEF TypeOK
<1>6. NoGhosts'
  <2>1. tx[c].row.kind = "none" => tx[c].row = NoRow
    BY <1>2, <1>3 DEF Decided, Unwritten, Base, NoGhosts
  <2> QED
    BY <1>2, <1>4, <2>1 DEF NoGhosts, TypeOK
<1>7. fails' \in Nat /\ owed' \in Int
  BY <1>2 DEF Commit, CommitReporting, TypeOK
<1>8. PICK l \in {"return", "emit"} : Answer(c, tx[c].reply, l)
  BY DEF Commit, CommitReporting
<1> QED
  BY <1>1, <1>2, <1>5, <1>6, <1>7, <1>8, AnswerKeeps

\* The invariant holds in the beginning.
LEMMA InitInv == Init => HashInv
<1> SUFFICES ASSUME Init PROVE HashInv
  OBVIOUS
<1>1. TypeOK
  <2>1. Hash!NoReply \in Replies
    BY ReplyTypes DEF Hash!NoReply, Tags
  <2> QED
    BY <2>1, DefaultTypes DEF Init, TypeOK, Labels
<1>2. NoGhosts
  BY DEF Init, NoGhosts
<1>3. LockIsHeld
  BY HashStoreAssumption DEF Init, LockIsHeld, InTx
<1>4. \A c \in Clients : ClientOK(c)
  BY DEF Init, ClientOK, CallOK, TxOK, RoomOK, Waiting, InTx
<1> QED
  BY <1>1, <1>2, <1>3, <1>4 DEF HashInv

\* Every step preserves the invariant.
LEMMA NextInv == HashInv /\ [Next]_vars => HashInv'
<1> SUFFICES ASSUME HashInv, [Next]_vars PROVE HashInv'
  OBVIOUS
<1>1. CASE Tick
  BY <1>1, TickKeeps
<1>2. CASE \E k \in Keys : Others(k)
  BY <1>2, OthersKeeps
<1>3. CASE \E c \in Clients : Call(c) \/ Fails(c) \/ Crash(c)
  BY <1>3, CallKeeps, FailsKeeps, CrashKeeps
<1>4. ASSUME NEW c \in Clients, Steps(c) PROVE HashInv'
  <2>1. CASE Check(c) \/ Select(c) \/ Begin(c)
    BY <2>1, CheckKeeps, SelectKeeps, BeginKeeps
  <2>2. CASE SetAbsent(c) \/ SetPresent(c) \/ SetMany(c)
    BY <2>2, SetAbsentKeeps, SetPresentKeeps, SetManyKeeps
  <2>3. CASE Del(c) \/ DelDone(c) \/ Incr(c)
    BY <2>3, DelKeeps, DelDoneKeeps, IncrKeeps
  <2>4. CASE Load(c) \/ Mutate(c) \/ Commit(c)
    BY <2>4, LoadKeeps, MutateKeeps, CommitKeeps
  <2>5. CASE Emit(c) \/ Return(c)
    BY <2>5, EmitKeeps, ReturnKeeps
  <2> QED
    BY <1>4, <2>1, <2>2, <2>3, <2>4, <2>5 DEF Steps
<1>5. CASE UNCHANGED vars
  <2>1. TypeOK' /\ NoGhosts' /\ LockIsHeld'
    BY <1>5 DEF HashInv, TypeOK, NoGhosts, LockIsHeld, vars
  <2>2. ASSUME NEW d \in Clients PROVE ClientOK(d)'
    BY <1>5, Untouched DEF HashInv, TypeOK, vars
  <2> QED
    BY <2>1, <2>2 DEF HashInv
<1> QED
  BY <1>1, <1>2, <1>3, <1>4, <1>5 DEF Next

\* The inductive invariant of the hash calls: what an open transaction holds is
\* what its call promises so far for the row as it was, which nobody else writes.
THEOREM HashInvariant == Spec => []HashInv
<1>1. Init => HashInv
  BY InitInv
<1>2. HashInv /\ [Next]_vars => HashInv'
  BY NextInv
<1> QED
  BY <1>1, <1>2, PTL DEF Spec

\* Every variable keeps its type.
THEOREM HashTypeCorrect == Spec => []TypeOK
<1>1. HashInv => TypeOK
  BY DEF HashInv
<1> QED
  BY <1>1, HashInvariant, PTL
-----------------------------------------------------------------------------
(* Who writes, and who reports.                                            *)

\* The clients about to emit their change record.
Emitting == {c \in Clients : pc[c] = "emit"}

\* Without a commit only others write, and unless a record is emitted or a process
\* dies, as much is owed as before.
LEMMA QuietStep ==
  ASSUME HashInv, [Next]_vars, \A c \in Clients : ~Commit(c)
  PROVE  /\ rows' = rows \/ \E k \in Keys : Others(k)
         /\ \/ \E c \in Clients : Emit(c) \/ Crash(c)
            \/ owed' = owed /\ Emitting' = Emitting
<1> USE DEF HashInv
<1>1. CASE Tick \/ UNCHANGED vars
  BY <1>1 DEF Tick, vars, Emitting
<1>2. CASE \E k \in Keys : Others(k)
  BY <1>2 DEF Others, Emitting
<1>3. ASSUME NEW c \in Clients, pc[c] # "emit", rows' = rows, owed' = owed,
             NEW l \in Labels \ {"emit"}, pc' = [pc EXCEPT ![c] = l]
      PROVE  rows' = rows /\ owed' = owed /\ Emitting' = Emitting
  BY <1>3 DEF TypeOK, Emitting
<1>4. ASSUME NEW c \in Clients, Call(c) PROVE rows' = rows /\ owed' = owed /\ Emitting' = Emitting
  <2>1. PICK l \in {"select", "check", "begin"} : pc' = [pc EXCEPT ![c] = l]
    BY <1>4 DEF Call
  <2>2. pc[c] = "idle" /\ rows' = rows /\ owed' = owed
    BY <1>4 DEF Call
  <2> QED
    BY <1>3, <2>1, <2>2 DEF Labels, Waiting
<1>5. ASSUME NEW c \in Clients, Fails(c) PROVE rows' = rows /\ owed' = owed /\ Emitting' = Emitting
  BY <1>3, <1>5 DEF Fails, Answer, Labels
<1>6. ASSUME NEW c \in Clients, Crash(c) PROVE rows' = rows
  BY <1>6 DEF Crash
<1>7. ASSUME NEW c \in Clients, Steps(c), ~Emit(c)
      PROVE  rows' = rows /\ owed' = owed /\ Emitting' = Emitting
  <2>1. ASSUME pc[c] # "emit", NEW tag, Rollback(c, tag)
        PROVE  rows' = rows /\ owed' = owed /\ Emitting' = Emitting
    BY <1>3, <2>1 DEF Rollback, Answer, Labels
  <2>2. ASSUME pc[c] # "emit", NEW row, NEW left, NEW n, NEW r, NEW l \in InTx, Did(c, row, left, n, r, l)
        PROVE  rows' = rows /\ owed' = owed /\ Emitting' = Emitting
    BY <1>3, <2>2 DEF Did, Labels, Waiting, InTx
  <2>3. CASE Check(c)
    <3>1. pc[c] # "emit" /\ rows' = rows /\ owed' = owed
      BY <2>3 DEF Check
    <3>2. PICK l \in {"return", "begin"} : pc' = [pc EXCEPT ![c] = l]
      BY <2>3 DEF Check, Answer
    <3> QED
      BY <1>3, <3>1, <3>2 DEF Labels, Waiting
  <2>4. CASE Select(c)
    BY <1>3, <2>4 DEF Select, Answer, Labels
  <2>5. CASE Begin(c)
    <3>1. PICK l \in {"stmt", "load"} : pc' = [pc EXCEPT ![c] = l]
      BY <2>5 DEF Begin, BeginWithoutLock
    <3> QED
      BY <1>3, <2>5, <3>1 DEF Begin, BeginWithoutLock, Labels, Waiting, InTx
  <2>6. CASE SetAbsent(c)
    BY <2>1, <2>2, <2>6 DEF SetAbsent, CheckHashType, InTx
  <2>7. CASE SetPresent(c)
    BY <2>1, <2>2, <2>7 DEF SetPresent, CheckHashType, InTx
  <2>8. CASE SetMany(c)
    BY <2>1, <2>2, <2>8 DEF SetMany, InTx
  <2>9. CASE Del(c) \/ DelDone(c)
    BY <2>1, <2>2, <2>9 DEF Del, DelDone, CheckHashType, InTx
  <2>10. CASE Incr(c)
    BY <2>1, <2>2, <2>10 DEF Incr, InTx
  <2>11. CASE Load(c)
    BY <2>1, <2>2, <2>11 DEF Load, InTx
  <2>12. CASE Mutate(c)
    <3>1. pc[c] # "emit" /\ ~("hset" \in Hash!IncrOps)
      BY <2>12 DEF Mutate, Hash!IncrOps
    <3>2. \/ \E tag \in Tags : Rollback(c, tag)
          \/ \E row, n, r : Did(c, row, {}, n, r, "commit")
      <4>1. call[c].op \in Hash!SetOps \cup Hash!IncrOps \cup {"hdel"}
        BY <2>12, InTxTypes DEF Mutate, InTx, CallOK, Hash!Creating
      <4> QED
        BY <2>12, <4>1 DEF Mutate, Hash!IncrOps, Hash!SetOps, Tags
    <3> QED
      BY <2>1, <2>2, <3>1, <3>2 DEF InTx
  <2>13. CASE Return(c)
    BY <1>3, <2>13 DEF Return, Labels
  <2> QED
    BY <1>7, <2>3, <2>4, <2>5, <2>6, <2>7, <2>8, <2>9, <2>10, <2>11, <2>12, <2>13 DEF Steps
<1>8. ASSUME NEW c \in Clients, Emit(c) PROVE rows' = rows
  BY <1>8 DEF Emit
<1> QED
  BY <1>1, <1>2, <1>4, <1>5, <1>6, <1>7, <1>8 DEF Next
\* What a commit does.
LEMMA CommitStep ==
  ASSUME HashInv, NEW c \in Clients, Commit(c)
  PROVE  /\ pc[c] = "commit" /\ Decided(c) /\ call[c].key \in Keys
         /\ tx[c].row \in Rows /\ tx[c].n \in Nat /\ Base(c) \in Rows
         /\ rows' = [rows EXCEPT ![call[c].key] = tx[c].row]
         /\ rows'[call[c].key] = tx[c].row
         /\ pc' = [pc EXCEPT ![c] = IF tx[c].n > 0 THEN "emit" ELSE "return"]
         /\ pc'[c] = IF tx[c].n > 0 THEN "emit" ELSE "return"
         /\ owed' = IF tx[c].row # Base(c) THEN owed + 1 ELSE owed
<1>1. pc[c] = "commit" /\ pc[c] \in InTx
  BY DEF Commit, CommitReporting, InTx
<1>2. /\ Decided(c) /\ TypeOK /\ CallOK(c) /\ pc[c] # "idle"
      /\ tx[c].row \in Rows /\ tx[c].n \in Nat /\ Base(c) \in Rows
  BY <1>1, InTxTypes DEF TxOK
<1>3. call[c].key \in Keys
  BY <1>2, CallTypes
<1>4. /\ rows' = [rows EXCEPT ![call[c].key] = tx[c].row]
      /\ pc' = [pc EXCEPT ![c] = IF tx[c].n > 0 THEN "emit" ELSE "return"]
      /\ owed' = IF tx[c].row # Base(c) THEN owed + 1 ELSE owed
  BY DEF Commit, CommitReporting, Answer, Base
<1> QED
  BY <1>1, <1>2, <1>3, <1>4 DEF TypeOK

\* With TTLs that are not 0, a transaction that counted a statement changed its
\* row: the access count of a live row, and a dead row into a live one.
LEMMA WritesChange ==
  ASSUME HashInv, 0 \notin TTLs, NEW c \in Clients, pc[c] = "commit"
  PROVE  call[c].ttl # 0 /\ (tx[c].n > 0 <=> tx[c].row # Base(c))
<1>1. /\ Decided(c) /\ TypeOK /\ CallOK(c) /\ pc[c] # "idle"
      /\ tx[c].row \in Rows /\ tx[c].n \in Nat /\ Base(c) \in Rows
  BY InTxTypes DEF TxOK, InTx
<1>2. call[c].ttl # 0 /\ call[c].ttl \in Nat \cup {Never} /\ call[c].now \in Nat
  BY <1>1, CallTypes DEF CallRecords, Never
<1>3. CASE LiveBase(c)
  <2>1. tx[c].row.acc \in Nat /\ Base(c).acc \in Nat
    BY <1>1 DEF Rows
  <2>2. tx[c].n > 0 => tx[c].row.acc # Base(c).acc
    BY <1>1, <1>3, <2>1 DEF Decided
  <2> QED
    BY <1>1, <1>2, <2>2 DEF Decided, Unwritten
<1>4. CASE ~LiveBase(c)
  <2>1. FreshExp(c) = Never \/ FreshExp(c) > call[c].now
    BY <1>2 DEF FreshExp, Never
  <2>2. tx[c].n > 0 => Hash!Live(tx[c].row, call[c].now)
    BY <1>1, <1>4, <2>1 DEF Decided, Hash!Live, Never, Hash!Never
  <2> QED
    BY <1>1, <1>2, <1>4, <2>2 DEF Decided, Unwritten, LiveBase
<1> QED
  BY <1>3, <1>4

\* The clients about to emit are finitely many.
LEMMA EmittingFinite ==
  /\ IsFiniteSet(Emitting) /\ Cardinality(Emitting) \in Nat
  /\ \A c : c \notin Emitting => Cardinality(Emitting \cup {c}) = Cardinality(Emitting) + 1
  /\ \A c : c \in Emitting => Cardinality(Emitting \ {c}) = Cardinality(Emitting) - 1
<1>1. Emitting \subseteq Clients
  BY DEF Emitting
<1>2. IsFiniteSet(Emitting)
  BY <1>1, FS_Subset, HashStoreAssumption
<1> QED
  BY <1>2, FS_CardinalityType, FS_AddElement, FS_RemoveElement

\* Each step preserves that there is a record owed for each client about to emit.
LEMMA RecordsNext ==
  ASSUME 0 \notin TTLs, HashInv, RecordsMatchChanges, [Next]_vars
  PROVE  RecordsMatchChanges'
<1> DEFINE Owes == owed = Cardinality(Emitting)
<1>1. Owes /\ owed \in Int /\ pc \in [Clients -> Labels]
  BY DEF RecordsMatchChanges, Emitting, HashInv, TypeOK
<1>2. Owes'
  <2>1. ASSUME NEW c \in Clients, Commit(c) PROVE Owes'
    <3>1. /\ pc[c] = "commit" /\ c \notin Emitting
          /\ pc' = [pc EXCEPT ![c] = IF tx[c].n > 0 THEN "emit" ELSE "return"]
          /\ owed' = IF tx[c].row # Base(c) THEN owed + 1 ELSE owed
      BY <2>1, CommitStep DEF Emitting
    <3>2. tx[c].n > 0 <=> tx[c].row # Base(c)
      BY <3>1, WritesChange
    <3>3. CASE tx[c].n > 0
      <4>1. Emitting' = Emitting \cup {c}
        BY <1>1, <3>1, <3>3 DEF Emitting
      <4> QED
        BY <1>1, <3>1, <3>2, <3>3, <4>1, EmittingFinite
    <3>4. CASE ~(tx[c].n > 0)
      <4>1. Emitting' = Emitting
        BY <1>1, <3>1, <3>4 DEF Emitting
      <4> QED
        BY <1>1, <3>1, <3>2, <3>4, <4>1
    <3> QED
      BY <3>3, <3>4
  <2>2. ASSUME NEW c \in Clients, Emit(c) PROVE Owes'
    <3>1. c \in Emitting /\ owed' = owed - 1 /\ Emitting' = Emitting \ {c}
      BY <1>1, <2>2 DEF Emit, Emitting
    <3> QED
      BY <1>1, <3>1, EmittingFinite
  <2>3. ASSUME NEW c \in Clients, Crash(c) PROVE Owes'
    <3>1. /\ Emitting' = Emitting \ {c}
          /\ owed' = IF c \in Emitting THEN owed - 1 ELSE owed
      BY <1>1, <2>3 DEF Crash, Emitting
    <3>2. CASE c \in Emitting
      BY <1>1, <3>1, <3>2, EmittingFinite
    <3>3. CASE c \notin Emitting
      <4>1. Emitting \ {c} = Emitting
        BY <3>3
      <4> QED
        BY <1>1, <3>1, <3>3, <4>1
    <3> QED
      BY <3>2, <3>3
  <2>4. CASE owed' = owed /\ Emitting' = Emitting
    BY <1>1, <2>4
  <2> QED
    BY <2>1, <2>2, <2>3, <2>4, QuietStep
<1> QED
  BY <1>2 DEF RecordsMatchChanges, Emitting

\* There is a change record for each call that changed the table, and for no
\* other, with TTLs that are not 0 (a row that is dead when written may be
\* written over by an equal one).
THEOREM RecordsTheorem ==
  ASSUME 0 \notin TTLs
  PROVE  Spec => []RecordsMatchChanges
<1>1. Init => RecordsMatchChanges
  <2> SUFFICES ASSUME Init PROVE RecordsMatchChanges
    OBVIOUS
  <2>1. {c \in Clients : pc[c] = "emit"} = {}
    BY DEF Init
  <2> QED
    BY <2>1, FS_EmptySet DEF RecordsMatchChanges, Init
<1>2. HashInv /\ RecordsMatchChanges /\ [Next]_vars => RecordsMatchChanges'
  BY RecordsNext
<1> QED
  BY <1>1, <1>2, HashInvariant, PTL DEF Spec

\* The commit of a call adds one access to a live row, unless the call is a
\* native HSetMany that took several statements.
THEOREM OneAccessTheorem == Spec => OneAccessUnlessSplit
<1> DEFINE Split(c) == c \in Native /\ call[c].op = "hsetmany" /\ tx[c].n > 1
           Adds(c) == Counts(c, 1) \/ Split(c)
<1>1. HashInv /\ [Next]_vars => [\A c \in Clients : Adds(c)]_vars
  <2> SUFFICES ASSUME HashInv, [Next]_vars, NEW c \in Clients, pc[c] = "commit", pc'[c] = "emit",
                      LiveBase(c), ~Split(c)
               PROVE  rows'[call[c].key].acc = Base(c).acc + 1
    BY DEF Base, LiveBase, Counts
  <2>1. PICK d \in Clients : Commit(d) \/ Emit(d) \/ Crash(d)
    <3>1. c \in Emitting' /\ c \notin Emitting
      BY DEF Emitting
    <3> QED
      BY <3>1, QuietStep
  <2>2. Commit(d)
    <3>1. pc \in [Clients -> Labels]
      BY DEF HashInv, TypeOK
    <3> QED
      BY <2>1, <3>1 DEF Emit, Crash
  <2>3. d = c
    <3>1. d # c => pc'[c] = pc[c]
      BY <2>2, CommitStep DEF HashInv, TypeOK
    <3> QED
      BY <3>1
  <2>4. tx[c].n > 0 /\ rows'[call[c].key] = tx[c].row /\ Decided(c)
    BY <2>2, <2>3, CommitStep
  <2>5. c \in Native /\ call[c].op = "hsetmany" => tx[c].n = 1
    <3>1. tx[c].n \in Nat
      BY DEF HashInv, TypeOK, Transactions
    <3> QED
      BY <2>4, <3>1
  <2> QED
    BY <2>4, <2>5 DEF Decided
<1> QED
  BY <1>1, HashInvariant, PTL DEF Spec, OneAccessUnlessSplit

\* Under NoEviction, of the hash calls only a native one makes a full namespace
\* grow.
THEOREM OvershootTheorem == Spec => OnlyEarlyChecksOvershoot
<1> DEFINE Grows == /\ foreign' = foreign
                    /\ Present' # Present /\ Present \subseteq Present' /\ Full
           Native1 == \E c \in Native : pc[c] = "commit" /\ pc'[c] = "emit"
<1>1. HashInv /\ [Next]_vars => [Grows => Native1]_vars
  <2> SUFFICES ASSUME HashInv, [Next]_vars, Grows PROVE Native1
    OBVIOUS
  <2>1. PICK j \in Keys : rows[j] = NoRow /\ rows'[j] # NoRow
    BY DEF Present
  <2>2. ~\E k \in Keys : Others(k)
    <3> SUFFICES ASSUME NEW k \in Keys, Others(k) PROVE FALSE
      OBVIOUS
    <3> QED
      BY DEF Others, HashInv, TypeOK
  <2>3. PICK c \in Clients : Commit(c)
    BY <2>1, <2>2, QuietStep
  <2>4. /\ pc[c] = "commit" /\ Decided(c) /\ tx[c].n \in Nat
        /\ pc'[c] = IF tx[c].n > 0 THEN "emit" ELSE "return"
        /\ rows' = [rows EXCEPT ![call[c].key] = tx[c].row] /\ call[c].key \in Keys
    BY <2>3, CommitStep
  <2>5. j = call[c].key /\ tx[c].row # NoRow /\ Base(c) = NoRow
    BY <2>1, <2>4 DEF HashInv, TypeOK, Base
  <2>6. tx[c].n > 0 /\ ~LiveBase(c)
    BY <2>4, <2>5 DEF Decided, Unwritten, LiveBase, Hash!Live, NoRow
  <2>7. call[c].op \in Hash!Creating
    BY <2>4, <2>6 DEF Decided
  <2>8. c \in Native
    BY <2>4, <2>6, <2>7 DEF HashInv, ClientOK, RoomOK
  <2> QED
    BY <2>4, <2>6, <2>8
<1> QED
  BY <1>1, HashInvariant, PTL DEF Spec, OnlyEarlyChecksOvershoot
-----------------------------------------------------------------------------
(* HashStore implements HashSpec.                                          *)

\* The table and the calls, as callers see them.
LEMMA Abstract ==
  /\ \A k \in Keys : AbsTable[k] = Visible(rows[k])
  /\ \A c \in Clients : AbsCall[c] = VisibleCall(call[c])
  /\ rows' = rows => AbsTable' = AbsTable
  /\ call' = call => AbsCall' = AbsCall
BY DEF AbsTable, AbsCall

\* What callers see of a call in progress, and what it promises.
LEMMA AbstractCall ==
  ASSUME TypeOK, NEW c \in Clients, CallOK(c), pc[c] # "idle", NEW row, NEW t
  PROVE  /\ AbsCall[c].op = call[c].op /\ AbsCall[c].key = call[c].key /\ AbsCall[c].at = call[c].at
         /\ AbsCall[c] # Hash!NoCall
         /\ Hash!Outcome(AbsCall[c], row, t) = Hash!Outcome(call[c], row, t)
<1> DEFINE x == AbsCall[c]
<1>1. call[c].op # "none"
  BY CallTypes DEF Hash!AllOps, Hash!Creating, Hash!SetOps, Hash!IncrOps, Hash!ReadOps
<1>2. x = [op |-> call[c].op, key |-> call[c].key, fields |-> call[c].fields,
           val |-> call[c].val, ttl |-> call[c].ttl, at |-> call[c].at]
  BY <1>1, Abstract DEF VisibleCall
<1>3. /\ x.op = call[c].op /\ x.key = call[c].key /\ x.at = call[c].at
      /\ x.fields = call[c].fields /\ x.val = call[c].val /\ x.ttl = call[c].ttl
  BY <1>2
<1>4. x # Hash!NoCall
  BY <1>1, <1>3 DEF Hash!NoCall
<1>5. Hash!Outcome(x, row, t) = Hash!Outcome(call[c], row, t)
  <2> HIDE DEF x
  <2>1. /\ \A doc, v : Hash!NewDoc(x, doc, v) = Hash!NewDoc(call[c], doc, v)
        /\ \A doc : Hash!NewRow(x, row, t, doc) = Hash!NewRow(call[c], row, t, doc)
    BY <1>3 DEF Hash!NewDoc, Hash!NewRow
  <2> QED
    BY <1>3, <2>1 DEF Hash!Outcome
<1> QED
  BY <1>3, <1>4, <1>5

\* HashSpec's table has the rows that are there.
LEMMA AbstractPresent ==
  ASSUME TypeOK, NoGhosts
  PROVE  Hash!Present = Present
<1>1. ASSUME NEW k \in Keys PROVE AbsTable[k] = Hash!NoRow <=> rows[k] = NoRow
  <2>1. AbsTable[k] = Visible(rows[k])
    BY Abstract
  <2>2. rows[k].kind = "none" => rows[k] = NoRow
    BY DEF NoGhosts
  <2>3. Hash!NoRow.kind = "none" /\ Visible(rows[k]).kind = rows[k].kind
    BY DEF Hash!NoRow, Visible
  <2>4. Visible(NoRow) = Hash!NoRow
    BY DEF Visible, NoRow, Hash!NoRow, Never, Hash!Never, EmptyDoc
  <2> QED
    BY <2>1, <2>2, <2>3, <2>4
<1> QED
  BY <1>1 DEF Hash!Present, Present

\* A step that shows to no caller.
LEMMA Hidden ==
  ASSUME rows' = rows, now' = now, call' = call, reply' = reply, foreign' = foreign
  PROVE  UNCHANGED Hash!vars
BY Abstract DEF Hash!vars

\* A statement inside a transaction shows to no caller.
LEMMA DidIsHidden ==
  ASSUME NEW c, NEW row, NEW left, NEW n, NEW r, NEW l, Did(c, row, left, n, r, l)
  PROVE  UNCHANGED Hash!vars
BY Hidden DEF Did

\* A call that is answered as promised, and leaves the row it promises, acts.
LEMMA AnswerActs ==
  ASSUME HashInv, NEW c \in Clients, pc[c] \in Waiting, NEW r, NEW l, Answer(c, r, l),
         NEW new, rows' = [rows EXCEPT ![call[c].key] = new],
         r = Hash!Outcome(call[c], Visible(Base(c)), call[c].now).reply,
         Visible(new) = Hash!Outcome(call[c], Visible(Base(c)), call[c].now).row
  PROVE  Hash!Act(c)
<1>1. TypeOK /\ CallOK(c) /\ pc[c] # "idle"
  BY DEF HashInv, ClientOK, Waiting, InTx
<1>2. /\ call[c].key \in Keys /\ call[c].at \in Nat /\ call[c].now \in Nat /\ now \in Nat
      /\ call[c].at <= call[c].now /\ call[c].now <= now /\ reply[c] = Hash!Pending
  BY <1>1, CallTypes DEF CallOK, TypeOK
<1> DEFINE t == call[c].now
           k == AbsCall[c].key
<1>3. t \in AbsCall[c].at .. now /\ k = call[c].key /\ AbsTable[k] = Visible(Base(c))
  BY <1>1, <1>2, AbstractCall, Abstract DEF Base
<1>4. Hash!Outcome(AbsCall[c], AbsTable[k], t) = Hash!Outcome(call[c], Visible(Base(c)), call[c].now)
  BY <1>1, <1>3, AbstractCall
<1>5. AbsTable' = [AbsTable EXCEPT ![k] = Visible(new)]
  BY <1>1, <1>2, <1>3 DEF AbsTable, TypeOK
<1>6. Hash!Answer(c, r)
  BY <1>2, Abstract DEF Answer, Hash!Answer
<1> HIDE DEF t, k
<1>7. /\ Hash!Answer(c, Hash!Outcome(AbsCall[c], AbsTable[k], t).reply)
      /\ AbsTable' = [AbsTable EXCEPT ![k] = Hash!Outcome(AbsCall[c], AbsTable[k], t).row]
  BY <1>4, <1>5, <1>6
<1> QED
  BY <1>2, <1>3, <1>7 DEF Hash!Act, k

\* A rollback with the error that the call promises.
LEMMA RollbackActs ==
  ASSUME HashInv, NEW c \in Clients, pc[c] \in Waiting, NEW tag, Rollback(c, tag),
         Hash!Outcome(call[c], Visible(Base(c)), call[c].now) = Same(Visible(Base(c)), Hash!Error(tag))
  PROVE  Hash!Act(c)
<1>1. /\ Hash!Outcome(call[c], Visible(Base(c)), call[c].now).row = Visible(Base(c))
      /\ Hash!Outcome(call[c], Visible(Base(c)), call[c].now).reply = Hash!Error(tag)
  BY DEF Same
<1>2. rows' = [rows EXCEPT ![call[c].key] = Base(c)]
  BY DEF Rollback, Base, HashInv, TypeOK
<1> QED
  BY <1>1, <1>2, AnswerActs DEF Rollback

\* A refusal in a full namespace, for a key that has no live value.
LEMMA RollbackRefuses ==
  ASSUME HashInv, NEW c \in Clients, pc[c] \in Waiting, Rollback(c, "full"),
         call[c].op \in Hash!Creating, Full, ~LiveBase(c)
  PROVE  Hash!Refuse(c)
<1>1. TypeOK /\ NoGhosts /\ CallOK(c) /\ pc[c] # "idle"
  BY DEF HashInv, ClientOK, Waiting, InTx
<1>2. /\ call[c].key \in Keys /\ Base(c) \in Rows /\ call[c].now \in Nat /\ now \in Nat
      /\ call[c].now <= now /\ reply[c] = Hash!Pending
  BY <1>1, CallTypes DEF CallOK, TypeOK
<1>3. ~Hash!Live(AbsTable[AbsCall[c].key], now)
  <2>1. AbsTable[AbsCall[c].key] = Visible(Base(c))
    BY <1>1, <1>2, AbstractCall, Abstract DEF Base
  <2>2. Base(c).exp \in Nat \cup {Never}
    BY <1>2 DEF Rows
  <2>3. ~Hash!Live(Base(c), now)
    BY <1>2, <2>2 DEF LiveBase, Hash!Live, Never, Hash!Never
  <2> QED
    BY <1>2, <2>1, <2>3, VisibleRow
<1>4. MaxKeys # 0 /\ Hash!Cardinality(Hash!Present) >= MaxKeys
  BY <1>1, AbstractPresent, SameCardinality DEF Full
<1>5. AbsCall[c].op \in Hash!Creating
  BY <1>1, AbstractCall
<1>6. Hash!Answer(c, Hash!Error("full")) /\ AbsTable' = AbsTable
  BY <1>2, Abstract DEF Rollback, Answer, Hash!Answer
<1> QED
  BY <1>2, <1>3, <1>4, <1>5, <1>6 DEF Hash!Refuse

\* What a step of c is for its caller.
Shows(c) == UNCHANGED Hash!vars \/ Hash!Act(c) \/ Hash!Refuse(c) \/ Hash!Fail(c) \/ Hash!Return(c)

\* checkHashType fails the call as it promises.
LEMMA WrongTypeActs ==
  ASSUME HashInv, NEW c \in Clients, pc[c] \in InTx, Unwritten(c), Live(c), ~IsObject(c),
         Rollback(c, "wrongtype")
  PROVE  Hash!Act(c)
<1>1. Hash!Live(Visible(Base(c)), call[c].now) /\ Visible(Base(c)).kind # "object"
  BY UnwrittenRow
<1>2. Hash!Outcome(call[c], Visible(Base(c)), call[c].now)
        = Same(Visible(Base(c)), Hash!Error("wrongtype"))
  BY <1>1, OutcomeWrongType
<1> QED
  BY <1>2, InTxTypes, RollbackActs
\* HIncrBy and HIncrByFloat fail as they promise.
LEMMA IncrFailureActs ==
  ASSUME HashInv, NEW c \in Clients, pc[c] \in InTx, Unwritten(c), call[c].op \in Hash!IncrOps,
         LiveBase(c) => Base(c).kind = "object",
         NEW old, old = Doc(c)[Hash!TheField(call[c].fields)],
         ~Hash!Numeric(call[c].op, old) \/ ~Fits(old),
         Rollback(c, IF Hash!Numeric(call[c].op, old) THEN "overflow" ELSE "notnumeric")
  PROVE  Hash!Act(c)
<1> DEFINE V == Visible(Base(c))
           tag == IF Hash!Numeric(call[c].op, old) THEN "overflow" ELSE "notnumeric"
<1>1. /\ Hash!Live(V, call[c].now) => V.kind = "object"
      /\ Hash!OldDoc(V, call[c].now)[Hash!TheField(call[c].fields)] = old
      /\ Doc(c) \in Docs
  BY UnwrittenRow
<1>2. old \in Values
  <2>1. PICK f \in Fields : call[c].fields = {f}
    BY OneField DEF Hash!IncrOps
  <2>2. Hash!TheField({f}) \in {f}
    BY DEF Hash!TheField
  <2> QED
    BY <1>1, <2>1, <2>2 DEF Docs
<1>3. ~Fits(old) => old.n + 1 > IntMax
  BY <1>2, HashStoreAssumption DEF Fits, Values
<1>4. Hash!Outcome(call[c], V, call[c].now) = Same(V, Hash!Error(tag))
  <2> HIDE DEF V
  <2> QED
    BY <1>1, <1>3, OutcomeOfIncr
<1> HIDE DEF tag
<1> QED
  BY <1>4, InTxTypes, RollbackActs DEF tag

\* The statements of a transaction show only when they fail, as the call
\* promises.
LEMMA StatementsImplement ==
  ASSUME HashInv, NEW c \in Clients,
         \/ SetAbsent(c) \/ SetPresent(c) \/ SetMany(c) \/ Del(c) \/ DelDone(c)
         \/ Incr(c) \/ Load(c) \/ Mutate(c)
  PROVE  Shows(c)
<1>1. pc[c] \in {"stmt", "set", "load", "mutate"} /\ pc[c] \in InTx
  BY DEF SetAbsent, SetPresent, SetMany, Del, DelDone, Incr, Load, Mutate, InTx
<1>2. TypeOK /\ TxOK(c) /\ CallOK(c) /\ tx[c].n \in Nat
  BY <1>1, InTxTypes
<1>3. ASSUME Unwritten(c), NEW r, CheckHashType(c, r) PROVE Shows(c)
  BY <1>1, <1>3, WrongTypeActs, DidIsHidden DEF CheckHashType, Shows
<1>4. CASE SetAbsent(c)
  <2>1. Unwritten(c)
    BY <1>2, <1>4 DEF SetAbsent, TxOK
  <2> QED
    BY <1>3, <1>4, <2>1, DidIsHidden DEF SetAbsent, Shows
<1>5. CASE SetPresent(c)
  <2>1. Unwritten(c)
    BY <1>2, <1>5 DEF SetPresent, TxOK
  <2> QED
    BY <1>3, <1>5, <2>1, DidIsHidden DEF SetPresent, Shows
<1>6. CASE SetMany(c)
  <2>1. CASE Live(c) /\ ~IsObject(c)
    <3>1. PartlySet(c)
      BY <1>2, <1>6 DEF SetMany, TxOK
    <3>2. tx[c].n = 0
      BY <1>2, <2>1, <3>1 DEF PartlySet, IsObject
    <3>3. Unwritten(c) /\ Rollback(c, "wrongtype")
      BY <1>6, <2>1, <3>1, <3>2 DEF SetMany, PartlySet
    <3> QED
      BY <1>1, <2>1, <3>3, WrongTypeActs DEF Shows
  <2>2. CASE ~(Live(c) /\ ~IsObject(c))
    BY <1>6, <2>2, DidIsHidden DEF SetMany, Shows
  <2> QED
    BY <2>1, <2>2
<1>7. CASE Del(c)
  BY <1>7, DidIsHidden DEF Del, Shows
<1>8. CASE DelDone(c)
  <2>1. PartlyDeleted(c)
    BY <1>2, <1>8 DEF DelDone, TxOK
  <2>2. CASE Live(c) /\ ~IsObject(c)
    <3>1. Unwritten(c)
      BY <2>1, <2>2 DEF PartlyDeleted, IsObject
    <3> QED
      BY <1>3, <1>8, <3>1, DidIsHidden DEF DelDone, Shows
  <2>3. CASE ~(Live(c) /\ ~IsObject(c))
    BY <1>8, <2>3, DidIsHidden DEF DelDone, CheckHashType, Shows
  <2> QED
    BY <2>2, <2>3
<1>9. CASE Incr(c)
  <2>1. PICK old : old = Doc(c)[Hash!TheField(call[c].fields)]
    OBVIOUS
  <2>2. Unwritten(c) /\ call[c].op \in Hash!IncrOps
    BY <1>2, <1>9 DEF Incr, TxOK, Hash!IncrOps
  <2>3. CASE ~Live(c) \/ (IsObject(c) /\ Hash!Numeric(call[c].op, old) /\ Fits(old))
    BY <1>9, <2>1, <2>3, DidIsHidden DEF Incr, Shows
  <2>4. CASE Live(c) /\ ~IsObject(c)
    <3>1. Rollback(c, "wrongtype")
      BY <1>9, <2>4 DEF Incr
    <3> QED
      BY <1>1, <2>2, <2>4, <3>1, WrongTypeActs DEF Shows
  <2>5. CASE Live(c) /\ IsObject(c) /\ ~(Hash!Numeric(call[c].op, old) /\ Fits(old))
    <3>1. Rollback(c, IF Hash!Numeric(call[c].op, old) THEN "overflow" ELSE "notnumeric")
      BY <1>9, <2>1, <2>5 DEF Incr
    <3>2. LiveBase(c) => Base(c).kind = "object"
      BY <1>1, <2>2, <2>5, UnwrittenRow
    <3> QED
      BY <1>1, <2>1, <2>2, <2>5, <3>1, <3>2, IncrFailureActs DEF Shows
  <2> QED
    BY <2>3, <2>4, <2>5
<1>10. CASE Load(c)
  <2>1. Unwritten(c)
    BY <1>2, <1>10 DEF Load, TxOK
  <2>2. CASE Live(c) /\ ~IsObject(c)
    BY <1>1, <1>10, <2>1, <2>2, WrongTypeActs DEF Load, Shows
  <2>3. CASE ~Live(c) /\ call[c].op \in Hash!Creating /\ Full
    <3>1. Rollback(c, "full") /\ ~LiveBase(c)
      BY <1>1, <1>10, <2>1, <2>3, UnwrittenRow DEF Load
    <3> QED
      BY <1>1, <2>3, <3>1, InTxTypes, RollbackRefuses DEF Shows
  <2>4. CASE ~(Live(c) /\ ~IsObject(c)) /\ ~(~Live(c) /\ call[c].op \in Hash!Creating /\ Full)
    BY <1>10, <2>4, DidIsHidden DEF Load, Shows
  <2> QED
    BY <2>2, <2>3, <2>4
<1>11. CASE Mutate(c)
  <2>1. Unwritten(c) /\ (LiveBase(c) => Base(c).kind = "object")
    BY <1>2, <1>11 DEF Mutate, TxOK
  <2>2. CASE call[c].op \in Hash!IncrOps
    <3>1. PICK old : old = Doc(c)[Hash!TheField(call[c].fields)]
      OBVIOUS
    <3>2. IF ~Hash!Numeric(call[c].op, old) THEN Rollback(c, "notnumeric")
          ELSE IF ~Fits(old) THEN Rollback(c, "overflow")
          ELSE Did(c, Upsert(c, Hash!With(Doc(c), call[c].fields, Hash!Sum(call[c].op, old))),
                   {}, 1, Ok(old.n + 1), "commit")
      BY <1>11, <2>2, <3>1 DEF Mutate, Hash!IncrOps
    <3>3. CASE Hash!Numeric(call[c].op, old) /\ Fits(old)
      BY <3>2, <3>3, DidIsHidden DEF Shows
    <3>4. CASE ~(Hash!Numeric(call[c].op, old) /\ Fits(old))
      <4>1. Rollback(c, IF Hash!Numeric(call[c].op, old) THEN "overflow" ELSE "notnumeric")
        BY <3>2, <3>4
      <4> QED
        BY <1>1, <2>1, <2>2, <3>1, <3>4, <4>1, IncrFailureActs DEF Shows
    <3> QED
      BY <3>3, <3>4
  <2>3. CASE call[c].op \notin Hash!IncrOps
    <3>1. \E row, n, r : Did(c, row, {}, n, r, "commit")
      <4>1. call[c].op \in Hash!SetOps \cup {"hdel"}
        BY <1>1, <1>2, <2>3 DEF CallOK, Hash!Creating
      <4> QED
        BY <1>11, <4>1 DEF Mutate, Hash!IncrOps, Hash!SetOps
    <3> QED
      BY <3>1, DidIsHidden DEF Shows
  <2> QED
    BY <2>2, <2>3
<1> QED
  BY <1>4, <1>5, <1>6, <1>7, <1>8, <1>9, <1>10, <1>11

\* A call that reads acts when it selects.
LEMMA SelectImplements == ASSUME HashInv, NEW c \in Clients, Select(c) PROVE Hash!Act(c)
<1> DEFINE r == Hash!Outcome(call[c], Base(c), call[c].now).reply
<1>1. pc[c] = "select" /\ pc[c] \in Waiting /\ pc[c] # "idle" /\ CallOK(c) /\ TypeOK
  BY DEF Select, Waiting, HashInv, ClientOK
<1>2. Base(c) \in Rows /\ call[c].op \in Hash!ReadOps
  BY <1>1, CallTypes DEF CallOK
<1>3. /\ Hash!Live(Visible(Base(c)), call[c].now) <=> Hash!Live(Base(c), call[c].now)
      /\ Visible(Base(c)).kind = Base(c).kind
      /\ Hash!OldDoc(Visible(Base(c)), call[c].now) = Hash!OldDoc(Base(c), call[c].now)
  BY <1>2, VisibleRow DEF Hash!OldDoc, EmptyDoc
<1>4. /\ r = Hash!Outcome(call[c], Visible(Base(c)), call[c].now).reply
      /\ Visible(Base(c)) = Hash!Outcome(call[c], Visible(Base(c)), call[c].now).row
  <2>1. PICK answer :
          /\ Hash!Outcome(call[c], Visible(Base(c)), call[c].now) = Same(Visible(Base(c)), answer)
          /\ Hash!Outcome(call[c], Base(c), call[c].now) = Same(Base(c), answer)
    <3> DEFINE answer(row) ==
          IF Hash!Live(row, call[c].now) /\ row.kind # "object" THEN Hash!Error("wrongtype")
          ELSE IF call[c].op = "hmget"
               THEN Hash!Reply("ok", 0, Hash!With(Hash!OldDoc(row, call[c].now),
                                                  Fields \ call[c].fields, NoField))
               ELSE Ok(Cardinality(Hash!Has(Hash!OldDoc(row, call[c].now))))
    <3>1. \A row : Hash!Outcome(call[c], row, call[c].now) = Same(row, answer(row))
      BY <1>2, OutcomeOfReads
    <3>2. answer(Visible(Base(c))) = answer(Base(c))
      BY <1>3
    <3> HIDE DEF answer
    <3> QED
      BY <3>1, <3>2
  <2> QED
    BY <2>1 DEF Same
<1>5. rows' = [rows EXCEPT ![call[c].key] = Base(c)]
  BY <1>1 DEF Select, Base, TypeOK
<1>6. Answer(c, r, "return")
  BY DEF Select, Base
<1> HIDE DEF r
<1> QED
  BY <1>1, <1>4, <1>5, <1>6, AnswerActs

\* A call that writes acts when it commits.
LEMMA CommitImplements ==
  ASSUME HashInv, 0 \notin TTLs, NEW c \in Clients, Commit(c)
  PROVE  Hash!Act(c)
<1>1. /\ pc[c] = "commit" /\ pc[c] \in Waiting /\ Decided(c)
      /\ rows' = [rows EXCEPT ![call[c].key] = tx[c].row]
  BY CommitStep DEF Waiting, InTx
<1>2. PICK l : Answer(c, tx[c].reply, l)
  BY DEF Commit, CommitReporting
<1>3. call[c].ttl # 0
  BY <1>1, WritesChange
<1> QED
  BY <1>1, <1>2, <1>3, AnswerActs DEF Decided

\* The other steps of a client.
LEMMA OtherStepsImplement ==
  ASSUME HashInv, NEW c \in Clients,
         Check(c) \/ Begin(c) \/ Emit(c) \/ Return(c) \/ Fails(c) \/ Crash(c)
  PROVE  Shows(c)
<1>1. TypeOK /\ CallOK(c)
  BY DEF HashInv, ClientOK
<1>2. CASE Begin(c) \/ Emit(c)
  BY <1>2, Hidden DEF Begin, BeginWithoutLock, Emit, Shows
<1>3. CASE Check(c)
  <2>1. pc[c] = "check" /\ pc[c] # "idle" /\ pc[c] \in Waiting /\ call[c].op \in Hash!Creating
    BY <1>1, <1>3 DEF Check, CallOK, Waiting
  <2>2. CASE call[c].key \notin Present /\ Full
    <3>1. Rollback(c, "full")
      BY <1>3, <2>2 DEF Check, Rollback
    <3>2. ~LiveBase(c)
      <4>1. rows[call[c].key] = NoRow
        BY <1>1, <2>1, <2>2, CallTypes DEF Present
      <4> QED
        BY <4>1 DEF LiveBase, Base, Hash!Live, NoRow
    <3> QED
      BY <2>1, <2>2, <3>1, <3>2, RollbackRefuses DEF Shows
  <2>3. CASE ~(call[c].key \notin Present /\ Full)
    <3>1. /\ call' = [call EXCEPT ![c].now = now]
          /\ UNCHANGED <<rows, now, reply, foreign>>
      BY <1>3, <2>3 DEF Check
    <3>2. PICK x : x = [call[c] EXCEPT !.now = now]
      OBVIOUS
    <3>3. call[c] \in CallRecords
      BY <1>1, <2>1, CallTypes
    <3>4. VisibleCall(x) = VisibleCall(call[c])
      <4>1. /\ x.op = call[c].op /\ x.key = call[c].key /\ x.fields = call[c].fields
            /\ x.val = call[c].val /\ x.ttl = call[c].ttl /\ x.at = call[c].at
        BY <3>2, <3>3 DEF CallRecords
      <4> QED
        BY <4>1 DEF VisibleCall
    <3>5. call' = [call EXCEPT ![c] = x]
      BY <3>1, <3>2
    <3>6. \A d \in Clients : VisibleCall(call'[d]) = VisibleCall(call[d])
      BY <1>1, <3>4, <3>5 DEF TypeOK
    <3>7. AbsCall' = AbsCall
      BY <3>6 DEF AbsCall
    <3> QED
      BY <3>1, <3>7, Abstract DEF Shows, Hash!vars
  <2> QED
    BY <2>2, <2>3
<1>4. CASE Return(c) \/ Crash(c)
  <2>1. pc[c] # "idle"
    BY <1>4 DEF Return, Crash
  <2>2. /\ call' = [call EXCEPT ![c] = NoCall]
        /\ reply' = [reply EXCEPT ![c] = Hash!NoReply]
        /\ UNCHANGED <<rows, now, foreign>>
    BY <1>4 DEF Return, Crash
  <2>3. AbsCall[c] # Hash!NoCall
    BY <1>1, <2>1, AbstractCall
  <2>4. AbsCall' = [AbsCall EXCEPT ![c] = Hash!NoCall]
    <3>1. VisibleCall(NoCall) = Hash!NoCall
      BY DEF VisibleCall, NoCall, Hash!NoCall
    <3> QED
      BY <1>1, <2>2, <3>1 DEF AbsCall, TypeOK
  <2> QED
    BY <2>2, <2>3, <2>4, Abstract DEF Hash!Return, Shows
<1>5. CASE Fails(c)
  <2>1. pc[c] \in Waiting /\ reply[c] = Hash!Pending
    BY <1>1, <1>5 DEF Fails, Waiting, InTx, CallOK
  <2> QED
    BY <1>5, <2>1, Abstract DEF Fails, Answer, Hash!Fail, Hash!Answer, Shows
<1> QED
  BY <1>2, <1>3, <1>4, <1>5

\* A client calls.
LEMMA CallImplements == ASSUME HashInv, NEW c \in Clients, Call(c) PROVE Hash!Call(c)
<1>1. TypeOK /\ CallOK(c) /\ pc[c] = "idle" /\ call[c] = NoCall
  BY DEF HashInv, ClientOK, Call, CallOK
<1>2. PICK x : /\ x.op \in Ops /\ x.at = now
               /\ call' = [call EXCEPT ![c] = x]
  <2>1. PICK op \in Ops, k \in Called, ttl \in TTLs \cup {Never} : \E F \in Targets(op) :
        /\ pc[c] = "idle"
        /\ calls' = calls + 1
        /\ call' = [call EXCEPT ![c] =
               [op |-> op, key |-> k, fields |-> F, ttl |-> ttl, at |-> now, now |-> now,
                val |-> IF op \in Hash!SetOps THEN Text ELSE NoField]]
        /\ reply' = [reply EXCEPT ![c] = Hash!Pending]
        /\ pc' = [pc EXCEPT ![c] =
               IF op \in Hash!ReadOps THEN "select"
               ELSE IF c \in Native /\ op \in Hash!Creating /\ MaxKeys # 0 THEN "check"
               ELSE "begin"]
        /\ UNCHANGED <<rows, now, writer, tx, foreign, fails, owed>>
    BY CallStep
  <2>2. PICK F \in Targets(op) :
          call' = [call EXCEPT ![c] =
               [op |-> op, key |-> k, fields |-> F, ttl |-> ttl, at |-> now, now |-> now,
                val |-> IF op \in Hash!SetOps THEN Text ELSE NoField]]
    BY <2>1
  <2>3. PICK x : x = [op |-> op, key |-> k, fields |-> F, ttl |-> ttl, at |-> now, now |-> now,
                      val |-> IF op \in Hash!SetOps THEN Text ELSE NoField]
    OBVIOUS
  <2>4. x.op = op /\ x.at = now
    BY <2>3
  <2> QED
    BY <2>2, <2>3, <2>4
<1>3. /\ reply' = [reply EXCEPT ![c] = Hash!Pending]
      /\ UNCHANGED <<rows, now, foreign>>
  BY DEF Call
<1>4. x.op # "none"
  BY <1>2, HashStoreAssumption DEF Hash!AllOps, Hash!Creating, Hash!SetOps, Hash!IncrOps, Hash!ReadOps
<1>5. /\ AbsCall'[c] = VisibleCall(x)
      /\ \A d \in Clients \ {c} : AbsCall'[d] = AbsCall[d]
  BY <1>1, <1>2 DEF AbsCall, TypeOK
<1>6. VisibleCall(x).at = now /\ VisibleCall(x) # Hash!NoCall
  <2>1. VisibleCall(x).op = x.op /\ VisibleCall(x).at = now
    BY <1>2, <1>4 DEF VisibleCall
  <2> QED
    BY <1>4, <2>1 DEF Hash!NoCall
<1>7. AbsCall[c] = Hash!NoCall
  <2>1. VisibleCall(NoCall) = Hash!NoCall
    BY DEF VisibleCall, NoCall, Hash!NoCall
  <2> QED
    BY <1>1, <2>1, Abstract
<1>8. AbsCall' = [AbsCall EXCEPT ![c] = AbsCall'[c]]
  BY <1>5 DEF AbsCall
<1> QED
  BY <1>3, <1>5, <1>6, <1>7, <1>8, Abstract DEF Hash!Call

\* Every step is a step of HashSpec, or shows to no caller.
LEMMA StepImplements ==
  ASSUME 0 \notin TTLs, HashInv, [Next]_vars
  PROVE  [Hash!Next]_(Hash!vars)
<1>1. CASE Tick
  BY <1>1, Abstract DEF Tick, Hash!Tick, Hash!Next
<1>2. ASSUME NEW k \in Keys, Others(k) PROVE Hash!Next
  <2>1. PICK row : rows' = [rows EXCEPT ![k] = row]
    BY <1>2 DEF Others
  <2>2. AbsTable' = [AbsTable EXCEPT ![k] = AbsTable'[k]]
    BY <2>1 DEF AbsTable, HashInv, TypeOK
  <2> QED
    BY <1>2, <2>2, Abstract DEF Others, Hash!Outside, Hash!Next
<1>3. ASSUME NEW c \in Clients, Shows(c) PROVE [Hash!Next]_(Hash!vars)
  BY <1>3 DEF Shows, Hash!Next
<1>4. ASSUME NEW c \in Clients, Call(c) \/ Steps(c) \/ Fails(c) \/ Crash(c)
      PROVE  [Hash!Next]_(Hash!vars)
  <2>1. CASE Call(c)
    BY <2>1, CallImplements DEF Hash!Next
  <2>2. CASE Select(c) \/ Commit(c)
    BY <1>3, <2>2, SelectImplements, CommitImplements DEF Shows
  <2>3. CASE Check(c) \/ Begin(c) \/ Emit(c) \/ Return(c) \/ Fails(c) \/ Crash(c)
    BY <1>3, <2>3, OtherStepsImplement
  <2>4. CASE \/ SetAbsent(c) \/ SetPresent(c) \/ SetMany(c) \/ Del(c) \/ DelDone(c)
             \/ Incr(c) \/ Load(c) \/ Mutate(c)
    BY <1>3, <2>4, StatementsImplement
  <2> QED
    BY <1>4, <2>1, <2>2, <2>3, <2>4 DEF Steps
<1>5. CASE UNCHANGED vars
  BY <1>5, Hidden DEF vars
<1> QED
  BY <1>1, <1>2, <1>4, <1>5 DEF Next

\* HashStore implements HashSpec: each hash call, native or not, acts once and as
\* a whole between its call and its return, on the row as it then is, or answers
\* an error and changes nothing. TTLs are not 0 here: HSetMany in several
\* statements leaves the last fields only in a row that is dead when written.
THEOREM ActsAtomicallyTheorem ==
  ASSUME 0 \notin TTLs
  PROVE  Spec => ActsAtomically
<1>1. Init => Hash!Init
  <2> SUFFICES ASSUME Init PROVE Hash!Init
    OBVIOUS
  <2>1. AbsTable = [k \in Keys |-> Hash!NoRow]
    BY DEF Init, AbsTable, Visible, NoRow, Hash!NoRow, Never, Hash!Never, EmptyDoc
  <2>2. AbsCall = [c \in Clients |-> Hash!NoCall]
    BY DEF Init, AbsCall, VisibleCall, NoCall, Hash!NoCall
  <2> QED
    BY <2>1, <2>2 DEF Init, Hash!Init
<1>2. HashInv /\ [Next]_vars => [Hash!Next]_(Hash!vars)
  BY StepImplements
<1> QED
  BY <1>1, <1>2, HashInvariant, PTL DEF Spec, ActsAtomically, Hash!Spec
=============================================================================
