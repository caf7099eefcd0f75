------------------------------ MODULE HashSpec ------------------------------
(***************************************************************************)
(* What the hash calls of a Cache promise, whichever implementation runs   *)
(* them (the doc comments of lytecache-go/hash.go): between its call and   *)
(* its return, a hash call acts once, on the whole row of its key, at one  *)
(* instant, and judges the row's expiry by one reading of the clock made   *)
(* since it was called. A call that returns an error changed nothing.      *)
(*                                                                         *)
(* HashStore implements this specification.                                *)
(***************************************************************************)
EXTENDS Integers, FiniteSets

CONSTANTS Clients, Keys, Fields, IntMax, MaxKeys

VARIABLES
    table,          \* key |-> row
    clock,
    call,           \* client |-> the call it is making
    reply,          \* client |-> what its call returns, Pending until it has acted
    foreign         \* whole-row writes and removals by others so far

vars == <<table, clock, call, reply, foreign>>

Never == -1
NoField == [type |-> "none", n |-> 0]
EmptyDoc == [f \in Fields |-> NoField]
NoRow == [kind |-> "none", doc |-> EmptyDoc, exp |-> Never]
NoCall == [op |-> "none"]

Reply(tag, n, doc) == [tag |-> tag, n |-> n, doc |-> doc]
Error(tag) == Reply(tag, 0, EmptyDoc)
NoReply == Error("none")
Pending == Error("pending")

Has(doc) == {f \in Fields : doc[f] # NoField}
Present == {k \in Keys : table[k] # NoRow}
Live(row, t) == row.kind # "none" /\ (row.exp = Never \/ row.exp > t)

SetOps == {"hset", "hsetnx", "hsetmany"}
IncrOps == {"hincrby", "hincrbyfloat"}
ReadOps == {"hmget", "hlen"}
Creating == SetOps \cup IncrOps
AllOps == Creating \cup ReadOps \cup {"hdel"}

-----------------------------------------------------------------------------
(* The effect of a call x on a row, at time t.                             *)

With(doc, F, v) == [f \in Fields |-> IF f \in F THEN v ELSE doc[f]]

\* The document a call that writes leaves, and the document it is applied to.
NewDoc(x, doc, v) ==
    CASE x.op = "hdel" -> With(doc, x.fields, NoField)
      [] x.op = "hsetnx" -> With(doc, x.fields \ Has(doc), v)
      [] OTHER -> With(doc, x.fields, v)
OldDoc(row, t) == IF Live(row, t) THEN row.doc ELSE EmptyDoc

\* The field of a call that takes one.
TheField(F) == CHOOSE f \in F : TRUE

\* HIncrBy wants an integer, HIncrByFloat a number; an absent field is 0.
Numeric(op, v) == v.type \in (IF op = "hincrby" THEN {"none", "int"} ELSE {"none", "int", "real"})
Sum(op, v) == [type |-> IF op = "hincrby" THEN "int" ELSE "real", n |-> v.n + 1]

\* A live row keeps its expiry; a fresh one has the caller's.
NewRow(x, row, t, doc) ==
    IF Live(row, t) THEN [row EXCEPT !.doc = doc]
    ELSE [kind |-> "object", doc |-> doc, exp |-> IF x.ttl = Never THEN Never ELSE t + x.ttl]

\* The row a call leaves and what it returns.
Outcome(x, row, t) ==
    LET doc == OldDoc(row, t)
        has == Has(doc) \cap x.fields
        field == TheField(x.fields)
        same(r) == [row |-> row, reply |-> r]
        new(v, n) == [row |-> NewRow(x, row, t, NewDoc(x, doc, v)),
                      reply |-> Reply("ok", n, EmptyDoc)]
    IN  IF Live(row, t) /\ row.kind # "object" THEN same(Error("wrongtype"))
        ELSE
        CASE x.op = "hmget" -> same(Reply("ok", 0, With(doc, Fields \ x.fields, NoField)))
          [] x.op = "hlen" -> same(Reply("ok", Cardinality(Has(doc)), EmptyDoc))
          [] x.op = "hset" -> new(x.val, 1 - Cardinality(has))
          [] x.op = "hsetmany" -> new(x.val, 0)
          [] x.op = "hsetnx" -> IF has = {} THEN new(x.val, 1) ELSE same(Reply("ok", 0, EmptyDoc))
          [] x.op = "hdel" -> IF has = {} THEN same(Reply("ok", 0, EmptyDoc))
                              ELSE new(x.val, Cardinality(has))
          [] x.op \in IncrOps ->
                IF ~Numeric(x.op, doc[field]) THEN same(Error("notnumeric"))
                ELSE IF doc[field].n + 1 > IntMax THEN same(Error("overflow"))
                ELSE new(Sum(x.op, doc[field]), doc[field].n + 1)

-----------------------------------------------------------------------------
Init ==
    /\ table = [k \in Keys |-> NoRow]
    /\ clock = 0
    /\ call = [c \in Clients |-> NoCall]
    /\ reply = [c \in Clients |-> NoReply]
    /\ foreign = 0

Tick == clock' = clock + 1 /\ UNCHANGED <<table, call, reply, foreign>>

Answer(c, r) ==
    /\ reply[c] = Pending
    /\ reply' = [reply EXCEPT ![c] = r]
    /\ UNCHANGED <<clock, call, foreign>>

Call(c) ==
    /\ call[c] = NoCall
    /\ call'[c] # NoCall
    /\ call'[c].at = clock
    /\ call' = [call EXCEPT ![c] = call'[c]]
    /\ reply' = [reply EXCEPT ![c] = Pending]
    /\ UNCHANGED <<table, clock, foreign>>

\* The one instant at which a call acts.
Act(c) ==
    /\ reply[c] = Pending
    /\ \E t \in call[c].at .. clock :
           LET k == call[c].key
               out == Outcome(call[c], table[k], t)
           IN  /\ Answer(c, out.reply)
               /\ table' = [table EXCEPT ![k] = out.row]

\* ErrCacheFull: only for a key that has no live value, in a full namespace.
Refuse(c) ==
    /\ reply[c] = Pending
    /\ call[c].op \in Creating
    /\ ~Live(table[call[c].key], clock)
    /\ MaxKeys # 0 /\ Cardinality(Present) >= MaxKeys
    /\ Answer(c, Error("full"))
    /\ UNCHANGED table

Fail(c) == Answer(c, Error("failed")) /\ UNCHANGED table

\* The caller has its answer, or its process is gone.
Return(c) ==
    /\ call[c] # NoCall
    /\ call' = [call EXCEPT ![c] = NoCall]
    /\ reply' = [reply EXCEPT ![c] = NoReply]
    /\ UNCHANGED <<table, clock, foreign>>

\* Whole rows are written and removed by other calls, the sweeper and eviction.
Outside ==
    /\ foreign' = foreign + 1
    /\ \E k \in Keys : table' = [table EXCEPT ![k] = table'[k]]
    /\ UNCHANGED <<clock, call, reply>>

Next ==
    \/ Tick \/ Outside
    \/ \E c \in Clients : Call(c) \/ Act(c) \/ Refuse(c) \/ Fail(c) \/ Return(c)

Spec == Init /\ [][Next]_vars
=============================================================================
