----------------------------- MODULE HashStore ------------------------------
(***************************************************************************)
(* The hash calls of lytecache-go/hash.go, made concurrently by processes  *)
(* that share the file. A process whose SQLite has the JSON functions      *)
(* (Native) runs guarded statements in one transaction, each computed by   *)
(* SQLite from the row; another one (the fallback) reads the document,     *)
(* changes it in Go and writes it back, under BEGIN IMMEDIATE. Both take   *)
(* the write lock before the first statement and hold it to the end.       *)
(*                                                                         *)
(* The two differ in where NoEviction's limit is checked: native calls     *)
(* check before they begin, and unless the key has a row; the fallback     *)
(* checks inside the transaction, and unless the key has a live row.       *)
(*                                                                         *)
(* A field's value is a number or a text; an HIncrBy adds 1, and a number  *)
(* beyond IntMax stands for what overflows int64 or float64. Value sizes,  *)
(* field order and the buffered bookkeeping of reads are left out, and     *)
(* checkCapacity's two queries are taken as one. Clients of one process    *)
(* share its write connection, which excludes no more than the write lock. *)
(***************************************************************************)
EXTENDS Integers, FiniteSets

CONSTANTS
    Clients,        \* goroutines, each of a process of its own
    Native,         \* the clients whose Cache has c.json1
    Keys,
    Called,         \* the keys the clients call with, and
    Ops,            \* the calls they make
    Fields,
    MaxKeys,        \* WithMaxKeys under NoEviction, 0 for none
    TTLs,           \* durations given to TTL(...)
    IntMax,         \* the largest number
    PerStatement,   \* hsetManyPerStatement
    MaxCalls,       \* bound: calls made
    MaxForeign,     \* bound: whole rows written or removed by others
    MaxTime,        \* bound: readings of the wall clock
    MaxFails        \* bound: statements that fail, and crashes

VARIABLES
    rows,           \* the cache table, as committed: key |-> row
    now,            \* the wall clock
    writer,         \* the client that holds SQLite's write lock, or NoOne
    pc,             \* client |-> where its call is
    call,           \* client |-> the call's arguments
    tx,             \* client |-> the state of its transaction
    reply,          \* client |-> what its call returns
    calls, foreign, fails,
    owed            \* history: calls that changed the table, less the change records
                    \* emitted (c.changed), lost with their process, or lost
                    \* because publishing them failed

vars == <<rows, now, writer, pc, call, tx, reply, calls, foreign, fails, owed>>

-----------------------------------------------------------------------------
\* What callers see: the access count of a row and the progress of a call are
\* hidden.
Visible(row) == [kind |-> row.kind, doc |-> row.doc, exp |-> row.exp]
VisibleCall(x) ==
    IF x.op = "none" THEN [op |-> "none"]
    ELSE [op |-> x.op, key |-> x.key, fields |-> x.fields, val |-> x.val, ttl |-> x.ttl, at |-> x.at]
AbsTable == [k \in Keys |-> Visible(rows[k])]
AbsCall == [c \in Clients |-> VisibleCall(call[c])]
Hash == INSTANCE HashSpec WITH table <- AbsTable, clock <- now, call <- AbsCall

NoOne == "no one"

ASSUME HashStoreAssumption ==
    /\ NoOne \notin Clients
    /\ Native \subseteq Clients /\ Called \subseteq Keys
    /\ IsFiniteSet(Clients) /\ IsFiniteSet(Keys) /\ IsFiniteSet(Fields)
    /\ Ops \subseteq Hash!AllOps
    /\ MaxKeys \in Nat /\ TTLs \subseteq Nat /\ IntMax \in Nat \ {0}
    /\ PerStatement \in Nat \ {0}
    /\ MaxCalls \in Nat /\ MaxForeign \in Nat /\ MaxTime \in Nat /\ MaxFails \in Nat

Never == -1             \* expires_at IS NULL
NoField == Hash!NoField
EmptyDoc == Hash!EmptyDoc
Text == [type |-> "text", n |-> 0]
NoRow == [kind |-> "none", doc |-> EmptyDoc, exp |-> Never, acc |-> 0]
NoCall == [op |-> "none", key |-> "none", fields |-> {}, val |-> NoField, ttl |-> Never,
           at |-> 0, now |-> 0]
NoTx == [row |-> NoRow, todo |-> {}, n |-> 0, reply |-> Hash!NoReply]

Present == {k \in Keys : rows[k] # NoRow}
Full == MaxKeys # 0 /\ Cardinality(Present) >= MaxKeys

\* hashLive, and hashIsObj of a live row, at the clock value of c's call.
Live(c) == Hash!Live(tx[c].row, call[c].now)
IsObject(c) == Live(c) /\ tx[c].row.kind = "object"

Init ==
    /\ rows = [k \in Keys |-> NoRow]
    /\ now = 0
    /\ writer = NoOne
    /\ pc = [c \in Clients |-> "idle"]
    /\ call = [c \in Clients |-> NoCall]
    /\ tx = [c \in Clients |-> NoTx]
    /\ reply = [c \in Clients |-> Hash!NoReply]
    /\ calls = 0 /\ foreign = 0 /\ fails = 0
    /\ owed = 0

Tick ==
    /\ now < MaxTime
    /\ now' = now + 1
    /\ UNCHANGED <<rows, writer, pc, call, tx, reply, calls, foreign, fails, owed>>

-----------------------------------------------------------------------------
(* Calling and returning.                                                  *)

\* The fields of a call: HSetMany, HDel and HMGet take several (here: all; with
\* one, they are HSet, and HGet), HLen none.
Targets(op) ==
    CASE op \in {"hsetmany", "hdel", "hmget"} -> {Fields}
      [] op = "hlen" -> {{}}
      [] OTHER -> {{f} : f \in Fields}

\* A client calls; native calls that may create a key check the capacity first.
Call(c) ==
    \E op \in Ops, k \in Called, ttl \in TTLs \cup {Never} :
    \E F \in Targets(op) :
        /\ pc[c] = "idle"
        /\ calls < MaxCalls
        /\ ttl # Never => op \in Hash!Creating
        /\ calls' = calls + 1
        /\ call' = [call EXCEPT ![c] =
               [op |-> op, key |-> k, fields |-> F, ttl |-> ttl, at |-> now, now |-> now,
                val |-> IF op \in Hash!SetOps THEN Text ELSE NoField]]
        /\ reply' = [reply EXCEPT ![c] = Hash!Pending]
        /\ pc' = [pc EXCEPT ![c] =
               IF op \in Hash!ReadOps THEN "select"
               ELSE IF c \in Native /\ op \in Hash!Creating /\ MaxKeys # 0 THEN "check"
               ELSE "begin"]
        /\ UNCHANGED <<rows, now, writer, tx, foreign, fails, owed>>

\* c's transaction is over and its call answers r; it goes on at l.
Answer(c, r, l) ==
    /\ reply' = [reply EXCEPT ![c] = r]
    /\ pc' = [pc EXCEPT ![c] = l]
    /\ writer' = IF writer = c THEN NoOne ELSE writer
    /\ tx' = [tx EXCEPT ![c] = NoTx]
    /\ UNCHANGED <<now, call, calls, foreign>>

\* capacityCheck, before nowMillis() is read.
Check(c) ==
    /\ pc[c] = "check"
    /\ IF call[c].key \notin Present /\ Full
       THEN Answer(c, Hash!Error("full"), "return") /\ UNCHANGED <<rows, fails, owed>>
       ELSE /\ pc' = [pc EXCEPT ![c] = "begin"]
            /\ call' = [call EXCEPT ![c].now = now]
            /\ UNCHANGED <<rows, now, writer, tx, reply, calls, foreign, fails, owed>>

\* The call returns to the application.
Return(c) ==
    /\ pc[c] = "return"
    /\ pc' = [pc EXCEPT ![c] = "idle"]
    /\ call' = [call EXCEPT ![c] = NoCall]
    /\ reply' = [reply EXCEPT ![c] = Hash!NoReply]
    /\ UNCHANGED <<rows, now, writer, tx, calls, foreign, fails, owed>>

\* hmget, hashEntries, HLen, loadHash of HGetAll: one SELECT of the committed
\* row, judged by the clock value read before it.
Select(c) ==
    /\ pc[c] = "select"
    /\ Answer(c, Hash!Outcome(call[c], rows[call[c].key], call[c].now).reply, "return")
    /\ UNCHANGED <<rows, fails, owed>>

-----------------------------------------------------------------------------
(* Transactions. A step that fails its call rolls back.                    *)

\* The write lock is granted: to the first statement of inTx, a write, and to
\* inImmediate's BEGIN.
BeginWithoutLock(c) ==
    /\ pc[c] = "begin"
    /\ writer' = c
    /\ tx' = [tx EXCEPT ![c] = [NoTx EXCEPT !.row = rows[call[c].key], !.todo = call[c].fields]]
    /\ pc' = [pc EXCEPT ![c] = IF c \in Native THEN "stmt" ELSE "load"]
    /\ UNCHANGED <<rows, now, call, reply, calls, foreign, fails, owed>>
Begin(c) == writer = NoOne /\ BeginWithoutLock(c)

Rollback(c, tag) == Answer(c, Hash!Error(tag), "return") /\ UNCHANGED <<rows, fails, owed>>

\* The statement leaves `row` in the transaction, with `left` of the fields
\* still to do, n done, and the call's answer r; it goes on at l.
Did(c, row, left, n, r, l) ==
    /\ tx' = [tx EXCEPT ![c] = [row |-> row, todo |-> left, n |-> n, reply |-> r]]
    /\ pc' = [pc EXCEPT ![c] = l]
    /\ UNCHANGED <<rows, now, writer, call, reply, calls, foreign, fails, owed>>

Ok(n) == Hash!Reply("ok", n, EmptyDoc)

\* upsertHashSQL: the row with `doc`, or a fresh one. A live row keeps its
\* expiry, and the access is counted.
Upsert(c, doc) ==
    IF Live(c) THEN [tx[c].row EXCEPT !.doc = doc, !.acc = @ + 1]
    ELSE [kind |-> "object", doc |-> doc, acc |-> 0,
          exp |-> IF call[c].ttl = Never THEN Never ELSE call[c].now + call[c].ttl]
Doc(c) == IF Live(c) THEN tx[c].row.doc ELSE EmptyDoc
Has(c, F) == Hash!Has(Doc(c)) \cap F

\* checkHashType, when no row was affected: an error, or the answer r.
CheckHashType(c, r) ==
    IF Live(c) /\ ~IsObject(c) THEN Rollback(c, "wrongtype")
    ELSE Did(c, tx[c].row, {}, 0, r, "commit")

\* HSet and HSetNX: set the field where it is absent,
SetAbsent(c) ==
    LET F == call[c].fields IN
    /\ pc[c] = "stmt"
    /\ call[c].op \in {"hset", "hsetnx"}
    /\ IF ~Live(c) \/ (IsObject(c) /\ Has(c, F) = {})
       THEN Did(c, Upsert(c, Hash!With(Doc(c), F, call[c].val)), {}, 1, Ok(1), "commit")
       ELSE IF call[c].op = "hset" THEN Did(c, tx[c].row, F, 0, Ok(0), "set")
       ELSE CheckHashType(c, Ok(0))

\* and HSet sets it where the key is a live object.
SetPresent(c) ==
    /\ pc[c] = "set"
    /\ IF IsObject(c)
       THEN Did(c, Upsert(c, Hash!With(Doc(c), tx[c].todo, call[c].val)), {}, 1, Ok(0), "commit")
       ELSE CheckHashType(c, Ok(0))

\* HSetMany: one statement for each PerStatement fields.
SetMany(c) ==
    /\ pc[c] = "stmt"
    /\ call[c].op = "hsetmany"
    /\ \E F \in SUBSET tx[c].todo :
           /\ F # {} /\ Cardinality(F) <= PerStatement
           /\ Cardinality(F) < PerStatement => F = tx[c].todo
           /\ IF Live(c) /\ ~IsObject(c) THEN Rollback(c, "wrongtype")
              ELSE Did(c, Upsert(c, Hash!With(Doc(c), F, call[c].val)), tx[c].todo \ F,
                       tx[c].n + 1, Ok(0), IF F = tx[c].todo THEN "commit" ELSE "stmt")

\* HDel: one statement for each field; the first that removes one counts the
\* access.
DelCountingEach(c) ==
    \E f \in tx[c].todo :
        /\ pc[c] = "stmt"
        /\ call[c].op = "hdel"
        /\ IF IsObject(c) /\ Has(c, {f}) # {}
           THEN Did(c, Upsert(c, Hash!With(Doc(c), {f}, NoField)), tx[c].todo \ {f},
                    tx[c].n + 1, Ok(tx[c].n + 1), "stmt")
           ELSE Did(c, tx[c].row, tx[c].todo \ {f}, tx[c].n, Ok(tx[c].n), "stmt")
Del(c) ==
    \E f \in tx[c].todo :
        /\ pc[c] = "stmt"
        /\ call[c].op = "hdel"
        /\ IF IsObject(c) /\ Has(c, {f}) # {}
           THEN Did(c, [tx[c].row EXCEPT !.doc[f] = NoField,
                                         !.acc = IF tx[c].n = 0 THEN @ + 1 ELSE @],
                    tx[c].todo \ {f}, tx[c].n + 1, Ok(tx[c].n + 1), "stmt")
           ELSE Did(c, tx[c].row, tx[c].todo \ {f}, tx[c].n, Ok(tx[c].n), "stmt")

DelDone(c) ==
    /\ pc[c] = "stmt"
    /\ call[c].op = "hdel"
    /\ tx[c].todo = {}
    /\ IF tx[c].n = 0 THEN CheckHashType(c, Ok(0))
       ELSE Did(c, tx[c].row, {}, tx[c].n, tx[c].reply, "commit")

\* The sum is within the range of its type.
Fits(v) == v.n + 1 <= IntMax

\* hincr: the guarded upsert, or why it did not write.
Incr(c) ==
    LET op == call[c].op
        old == Doc(c)[Hash!TheField(call[c].fields)]
    IN  /\ pc[c] = "stmt"
        /\ op \in Hash!IncrOps
        /\ IF ~Live(c) \/ (IsObject(c) /\ Hash!Numeric(op, old) /\ Fits(old))
           THEN Did(c, Upsert(c, Hash!With(Doc(c), call[c].fields, Hash!Sum(op, old))),
                    {}, 1, Ok(old.n + 1), "commit")
           ELSE Rollback(c, IF ~IsObject(c) THEN "wrongtype"
                            ELSE IF Hash!Numeric(op, old) THEN "overflow" ELSE "notnumeric")

\* rmwHash: load the document; a new key is refused when the namespace is full.
LoadUnchecked(c) ==
    /\ pc[c] = "load"
    /\ IF Live(c) /\ ~IsObject(c) THEN Rollback(c, "wrongtype")
       ELSE Did(c, tx[c].row, tx[c].todo, 0, Ok(0), "mutate")
Load(c) ==
    /\ pc[c] = "load"
    /\ IF Live(c) /\ ~IsObject(c) THEN Rollback(c, "wrongtype")
       ELSE IF ~Live(c) /\ call[c].op \in Hash!Creating /\ Full THEN Rollback(c, "full")
       ELSE Did(c, tx[c].row, tx[c].todo, 0, Ok(0), "mutate")

\* Change it in Go and write it back: UPDATE, or INSERT OR REPLACE.
Mutate(c) ==
    LET op == call[c].op
        F == call[c].fields
        has == Has(c, F)
        old == Doc(c)[Hash!TheField(F)]
        write(doc, n) == Did(c, Upsert(c, doc), {}, 1, Ok(n), "commit")
        leave == Did(c, tx[c].row, {}, 0, Ok(0), "commit")
    IN  /\ pc[c] = "mutate"
        /\ CASE op = "hset" -> write(Hash!With(Doc(c), F, call[c].val), IF has = {} THEN 1 ELSE 0)
             [] op = "hsetmany" -> write(Hash!With(Doc(c), F, call[c].val), 0)
             [] op = "hsetnx" -> IF has = {} THEN write(Hash!With(Doc(c), F, call[c].val), 1) ELSE leave
             [] op = "hdel" -> IF has = {} THEN leave
                               ELSE write(Hash!With(Doc(c), has, NoField), Cardinality(has))
             [] op \in Hash!IncrOps ->
                   IF ~Hash!Numeric(op, old) THEN Rollback(c, "notnumeric")
                   ELSE IF ~Fits(old) THEN Rollback(c, "overflow")
                   ELSE write(Hash!With(Doc(c), F, Hash!Sum(op, old)), old.n + 1)

\* COMMIT. A call that wrote goes on to emit its change record.
CommitReporting(c, wrote) ==
    /\ pc[c] = "commit"
    /\ rows' = [rows EXCEPT ![call[c].key] = tx[c].row]
    /\ Answer(c, tx[c].reply, IF wrote THEN "emit" ELSE "return")
    /\ owed' = IF tx[c].row # rows[call[c].key] THEN owed + 1 ELSE owed
    /\ UNCHANGED fails
CommitAlwaysReporting(c) == CommitReporting(c, TRUE)
Commit(c) == CommitReporting(c, tx[c].n > 0)

\* c.changed, in a transaction of its own when it publishes, and maybeEvict,
\* which does nothing under NoEviction. If insertEvents fails, that is logged:
\* the record is lost and the call answers as it would have.
Emit(c) ==
    /\ pc[c] = "emit"
    /\ owed' = owed - 1
    /\ \/ UNCHANGED fails
       \/ fails < MaxFails /\ fails' = fails + 1
    /\ pc' = [pc EXCEPT ![c] = "return"]
    /\ UNCHANGED <<rows, now, writer, call, tx, reply, calls, foreign>>

-----------------------------------------------------------------------------
(* Failures, and what others do to whole rows.                             *)

\* A statement, or the wait for the write lock, fails: rolled back.
Fails(c) ==
    /\ pc[c] \in {"check", "begin", "select", "stmt", "set", "load", "mutate", "commit"}
    /\ fails < MaxFails
    /\ fails' = fails + 1
    /\ Answer(c, Hash!Error("failed"), "return")
    /\ UNCHANGED <<rows, owed>>

\* The process dies and starts again; SQLite discards its transaction.
Crash(c) ==
    /\ pc[c] # "idle"
    /\ fails < MaxFails
    /\ fails' = fails + 1
    /\ pc' = [pc EXCEPT ![c] = "idle"]
    /\ call' = [call EXCEPT ![c] = NoCall]
    /\ reply' = [reply EXCEPT ![c] = Hash!NoReply]
    /\ writer' = IF writer = c THEN NoOne ELSE writer
    /\ tx' = [tx EXCEPT ![c] = NoTx]
    /\ owed' = IF pc[c] = "emit" THEN owed - 1 ELSE owed
    /\ UNCHANGED <<rows, now, calls, foreign>>

\* The statement of another call writes an object or something else, or Delete
\* or a sweep removes the row. It adds a key to a full namespace too: Set and
\* Add look at the limit in a statement before this one, and SetMany, GetSet
\* and Incr do not look.
Others(k) ==
    /\ writer = NoOne
    /\ foreign < MaxForeign
    /\ foreign' = foreign + 1
    /\ \E row \in {NoRow} \cup [kind : {"object", "other"}, doc : {EmptyDoc},
                                exp : {Never} \cup {now + ttl : ttl \in TTLs}, acc : {0}] :
           /\ row # rows[k]
           /\ rows' = [rows EXCEPT ![k] = row]
    /\ UNCHANGED <<now, writer, pc, call, tx, reply, calls, fails, owed>>

Steps(c) ==
    \/ Check(c) \/ Select(c) \/ Begin(c)
    \/ SetAbsent(c) \/ SetPresent(c) \/ SetMany(c) \/ Del(c) \/ DelDone(c) \/ Incr(c)
    \/ Load(c) \/ Mutate(c) \/ Commit(c) \/ Emit(c) \/ Return(c)

Next ==
    \/ Tick
    \/ \E k \in Keys : Others(k)
    \/ \E c \in Clients : Call(c) \/ Steps(c) \/ Fails(c) \/ Crash(c)

Spec == Init /\ [][Next]_vars

-----------------------------------------------------------------------------
(* Properties.                                                             *)

\* Every hash call, native or fallback, acts at one instant and as a whole on
\* the row of its key, and answers what a hash of Redis would at that instant;
\* no update is lost, and a call that fails, or whose process dies, before its
\* commit changed nothing. A live row keeps its expiry.
ActsAtomically == Hash!Spec

\* The commit of c's call adds n to the access count of a live row.
Counts(c, n) ==
    LET k == call[c].key IN
    pc[c] = "commit" /\ pc'[c] = "emit" /\ Hash!Live(rows[k], call[c].now) =>
        rows'[k].acc = rows[k].acc + n

\* What SPEC.md says of the LRU metadata: a hash write increments access_count
\* by exactly 1 per call, even when the call takes several statements. It fails
\* for a native HSetMany of more than hsetManyPerStatement fields.
OneAccessPerCall == [][\A c \in Clients : Counts(c, 1)]_vars

\* What holds of it: a call counts as one access, however many fields HDel
\* removes and whichever statement of HSet applies, unless it is a native
\* HSetMany that was split into several statements.
OneAccessUnlessSplit ==
    [][\A c \in Clients :
         Counts(c, 1) \/ (c \in Native /\ call[c].op = "hsetmany" /\ tx[c].n > 1)]_vars

\* Of the hash calls under NoEviction, only a native one, which checked before
\* it began, can add a key to a namespace that is full: the fallback, which
\* checks under the write lock, never does, whatever other calls wrote between.
OnlyEarlyChecksOvershoot ==
    [][/\ foreign' = foreign
       /\ Present' # Present /\ Present \subseteq Present' /\ Full
       => \E c \in Native : pc[c] = "commit" /\ pc'[c] = "emit"]_vars

\* There is a change record for each call that changed the table, and for no
\* other, except those about to be emitted and those lost after the commit,
\* with a process that died or because publishing them failed.
RecordsMatchChanges == owed = Cardinality({c \in Clients : pc[c] = "emit"})
-----------------------------------------------------------------------------
(* The invariants behind the proofs (HashStoreProofs).                     *)

Values == [type : {"none", "int", "real", "text"}, n : Nat]
Docs == [Fields -> Values]
Rows == [kind : {"none", "object", "other"}, doc : Docs, exp : Nat \cup {Never}, acc : Nat]
Tags == {"none", "pending", "ok", "wrongtype", "notnumeric", "overflow", "full", "failed"}
Replies == [tag : Tags, n : Int, doc : Docs]
CallRecords == [op : Ops, key : Called, fields : SUBSET Fields, val : Values,
                ttl : TTLs \cup {Never}, at : Nat, now : Nat]
Transactions == [row : Rows, todo : SUBSET Fields, n : Nat, reply : Replies]

InTx == {"stmt", "set", "load", "mutate", "commit"}
Waiting == InTx \cup {"check", "begin", "select"}
Labels == Waiting \cup {"idle", "emit", "return"}

TypeOK ==
    /\ rows \in [Keys -> Rows]
    /\ now \in Nat
    /\ writer \in Clients \cup {NoOne}
    /\ pc \in [Clients -> Labels]
    /\ call \in [Clients -> CallRecords \cup {NoCall}]
    /\ tx \in [Clients -> Transactions]
    /\ reply \in [Clients -> Replies]
    /\ calls \in Nat /\ foreign \in Nat /\ fails \in Nat
    /\ owed \in Int

\* A row that has no kind is not there.
NoGhosts == \A k \in Keys : rows[k].kind = "none" => rows[k] = NoRow

\* A transaction is open exactly while its client has the write lock.
LockIsHeld == \A c \in Clients : pc[c] \in InTx <=> writer = c

\* The call a client is making fits the place where it is; it has read the
\* clock since it was called, and has no answer before its transaction ends.
CallOK(c) ==
    /\ pc[c] = "idle" <=> call[c] = NoCall
    /\ pc[c] # "idle" =>
           /\ call[c].fields \in Targets(call[c].op)
           /\ call[c].at <= call[c].now /\ call[c].now <= now
           /\ call[c].val = IF call[c].op \in Hash!SetOps THEN Text ELSE NoField
    /\ pc[c] \in Waiting => reply[c] = Hash!Pending
    /\ pc[c] = "select" => call[c].op \in Hash!ReadOps
    /\ pc[c] = "check" => call[c].op \in Hash!Creating
    /\ pc[c] \in InTx \cup {"begin"} => call[c].op \in Hash!Creating \cup {"hdel"}
    /\ pc[c] = "stmt" => c \in Native
    /\ pc[c] = "set" => c \in Native /\ call[c].op = "hset"
    /\ pc[c] \in {"load", "mutate"} => c \notin Native

\* The row as it was when c's transaction began: nobody else writes since.
Base(c) == rows[call[c].key]
LiveBase(c) == Hash!Live(Base(c), call[c].now)

\* The expiry of the row that c's call creates.
FreshExp(c) == IF call[c].ttl = Never THEN Never ELSE call[c].now + call[c].ttl

\* The statements so far have read, but not written.
Unwritten(c) == tx[c].row = Base(c) /\ tx[c].n = 0

\* Between two statements of HSetMany, the fields done are set and the rest is
\* as it was. (A fresh row that has expired already is made anew by each.)
PartlySet(c) ==
    LET done == call[c].fields \ tx[c].todo
        row == tx[c].row
    IN  /\ tx[c].todo \subseteq call[c].fields
        /\ tx[c].n = 0 => Unwritten(c) /\ done = {}
        /\ tx[c].n > 0 =>
               /\ row.kind = "object"
               /\ IF LiveBase(c)
                  THEN /\ Base(c).kind = "object"
                       /\ row.doc = Hash!With(Base(c).doc, done, call[c].val)
                       /\ row.exp = Base(c).exp
                       /\ row.acc = Base(c).acc + tx[c].n
                  ELSE /\ row.exp = FreshExp(c)
                       /\ call[c].ttl # 0 => row.doc = Hash!With(EmptyDoc, done, call[c].val)

\* Between two statements of HDel, the fields done are gone, those that were
\* there are counted, and the first of them counted the access.
PartlyDeleted(c) ==
    LET done == call[c].fields \ tx[c].todo
        row == tx[c].row
    IN  /\ tx[c].todo \subseteq call[c].fields
        /\ IF LiveBase(c) /\ Base(c).kind = "object"
           THEN /\ row.kind = "object" /\ row.exp = Base(c).exp
                /\ row.doc = Hash!With(Base(c).doc, done, NoField)
                /\ tx[c].n = Cardinality(Hash!Has(Base(c).doc) \cap done)
                /\ row.acc = Base(c).acc + (IF tx[c].n = 0 THEN 0 ELSE 1)
                /\ tx[c].n > 0 => tx[c].reply = Ok(tx[c].n)
           ELSE Unwritten(c)

\* What is about to be committed is what the call promises for the row as it was,
\* and the transaction wrote exactly if it counted a statement.
Decided(c) ==
    LET out == Hash!Outcome(call[c], Visible(Base(c)), call[c].now) IN
    /\ tx[c].reply = out.reply
    /\ call[c].ttl # 0 => Visible(tx[c].row) = out.row
    /\ tx[c].n = 0 => Unwritten(c)
    /\ tx[c].n > 0 =>
           /\ tx[c].row.kind = "object"
           /\ IF LiveBase(c)
              THEN tx[c].row.acc = Base(c).acc + (IF c \in Native /\ call[c].op = "hsetmany"
                                                  THEN tx[c].n ELSE 1)
              ELSE call[c].op \in Hash!Creating /\ tx[c].row.exp = FreshExp(c)

TxOK(c) ==
    /\ pc[c] = "load" => Unwritten(c)
    /\ pc[c] = "stmt" /\ call[c].op \notin {"hsetmany", "hdel"} => Unwritten(c)
    /\ pc[c] = "stmt" /\ call[c].op = "hsetmany" => PartlySet(c)
    /\ pc[c] = "stmt" /\ call[c].op = "hdel" => PartlyDeleted(c)
    /\ pc[c] = "set" => /\ Unwritten(c) /\ LiveBase(c)
                        /\ tx[c].todo = call[c].fields
                        /\ IsObject(c) => Has(c, call[c].fields) # {}
    /\ pc[c] = "mutate" => Unwritten(c) /\ (LiveBase(c) => Base(c).kind = "object")
    /\ pc[c] = "commit" => Decided(c)

\* A fallback call that is past its check of the limit still has room.
RoomOK(c) ==
    /\ c \notin Native
    /\ pc[c] \in {"mutate", "commit"}
    /\ call[c].op \in Hash!Creating
    /\ ~LiveBase(c)
    => ~Full

ClientOK(c) == CallOK(c) /\ TxOK(c) /\ RoomOK(c)
HashInv == TypeOK /\ NoGhosts /\ LockIsHeld /\ \A c \in Clients : ClientOK(c)
=============================================================================
