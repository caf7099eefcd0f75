----------------------------- MODULE Dispatcher -----------------------------
(***************************************************************************)
(* In-process change notification (lytecache-go/changes.go): mutations     *)
(* that have committed queue a record, one dispatch goroutine calls the    *)
(* registered listeners, a listener may write to the cache itself, and     *)
(* Close stops the goroutine.                                              *)
(*                                                                         *)
(* The dispatcher's mutex is released between `wants` and `submit`, between*)
(* the snapshot of the targets and each call, and between the re-check in  *)
(* `call` and the listener's first instruction; the model interleaves the  *)
(* goroutines there. A record is known by its number, in the order of the  *)
(* queue. A listener that panics is recovered, which is the same as its    *)
(* returning.                                                              *)
(***************************************************************************)
EXTENDS Integers, Sequences, FiniteSetsExt

CONSTANTS
    Writers,        \* goroutines that mutate the cache
    Listeners,      \* ids of the listeners, numbered in registration order
    Ops,            \* the change operations
    OpsOf,          \* listener |-> the operations it asked for
    MaxDepth,       \* maxDispatchDepth
    MaxWrites,      \* bound: mutations by Writers
    MaxOwn          \* bound: mutations by one run of a listener

ASSUME DispatcherAssumption ==
    /\ IsFiniteSet(Listeners) /\ Listeners = 1 .. Cardinality(Listeners)
    /\ OpsOf \in [Listeners -> SUBSET Ops]
    /\ MaxDepth \in Nat \ {0} /\ MaxWrites \in Nat /\ MaxOwn \in Nat

VARIABLES
    listeners,      \* d.listeners: those registered now
    nextID,         \* d.nextID
    queue,          \* d.queue
    closed,         \* d.closed
    pc,             \* where the dispatch goroutine is
    item,           \* the record it is dispatching (d.depth is its depth)
    targets,        \* the listeners still to be called with it
    own,            \* mutations made by the listener that is running
    wpc,            \* writer |-> the operation it is about to submit
    closing,        \* where Close is
    writes,         \* mutations by Writers so far
    records,        \* history: number of records queued
    since,          \* history: listener |-> records queued before it
    gone,           \* history: listeners whose unsubscribe has returned
    overtaken,      \* history: those of gone about to be called when it returned
    delivered       \* history: listener |-> the records it was called with

regVars == <<listeners, nextID, since, gone, overtaken>>
runVars == <<pc, item, targets, own>>
vars == <<regVars, queue, closed, runVars, wpc, closing, writes, records, delivered>>

-----------------------------------------------------------------------------
(* Definitions whose name says what they get wrong are the mutated forms   *)
(* used to show that the properties can fail; no specification uses them.  *)

Record == [n : Nat, op : Ops, depth : 1 .. MaxDepth]
NoItem == [n |-> 0, op |-> "none", depth |-> 0]

Init ==
    /\ listeners = {} /\ nextID = 1
    /\ queue = << >> /\ closed = FALSE
    /\ pc = "none" /\ item = NoItem /\ targets = {} /\ own = 0
    /\ wpc = [w \in Writers |-> "idle"]
    /\ closing = "no"
    /\ writes = 0 /\ records = 0
    /\ since = [l \in Listeners |-> 0]
    /\ gone = {} /\ overtaken = {}
    /\ delivered = [l \in Listeners |-> << >>]

\* The Cache still points to a dispatcher.
Loaded == pc # "none" /\ closing \notin {"done", "gaveup"}

Wants(op) == \E l \in listeners : op \in OpsOf[l]

\* submit: a record beyond MaxDepth is dropped, so is one after close.
SubmitUnlessBusy(op, depth) ==
    IF depth > MaxDepth \/ closed \/ queue # << >>
    THEN UNCHANGED queue /\ records' = records + 1
    ELSE /\ queue' = Append(queue, [n |-> records + 1, op |-> op, depth |-> depth])
         /\ records' = records + 1
Submit(op, depth) ==
    IF depth > MaxDepth \/ closed
    THEN UNCHANGED <<queue, records>>
    ELSE /\ queue' = Append(queue, [n |-> records + 1, op |-> op, depth |-> depth])
         /\ records' = records + 1

-----------------------------------------------------------------------------
(* Writers, and the calls of the application.                              *)

\* A mutation commits and calls changed, which asks whether anyone listens.
Write(w) ==
    \E op \in Ops :
        /\ wpc[w] = "idle"
        /\ writes < MaxWrites
        /\ writes' = writes + 1
        /\ wpc' = [wpc EXCEPT ![w] = IF Loaded /\ Wants(op) THEN op ELSE "idle"]
        /\ UNCHANGED <<regVars, queue, closed, runVars, closing, records, delivered>>

\* changed queues the record; a writer is not the dispatch goroutine.
WriterSubmits(w) ==
    /\ wpc[w] # "idle"
    /\ Submit(wpc[w], 1)
    /\ wpc' = [wpc EXCEPT ![w] = "idle"]
    /\ UNCHANGED <<regVars, closed, runVars, closing, writes, delivered>>

\* OnChange: the first one starts the goroutine. (After Close it would start a
\* new dispatcher; no mutation reaches that one, the database is closed.)
OnChange ==
    /\ closing \in {"no", "waiting"}
    /\ nextID \in Listeners
    /\ listeners' = listeners \cup {nextID}
    /\ since' = [since EXCEPT ![nextID] = records]
    /\ nextID' = nextID + 1
    /\ pc' = IF pc = "none" THEN "wait" ELSE pc
    /\ UNCHANGED <<queue, closed, item, targets, own, wpc, closing, writes, records,
                   gone, overtaken, delivered>>

Unsubscribe(l) ==
    /\ l < nextID /\ l \notin gone
    /\ listeners' = listeners \ {l}
    /\ gone' = gone \cup {l}
    /\ overtaken' = IF pc = "enter" /\ Min(targets) = l THEN overtaken \cup {l} ELSE overtaken
    /\ UNCHANGED <<nextID, since, queue, closed, runVars, wpc, closing, writes,
                   records, delivered>>

\* Close: without a dispatcher there is nothing to do. With one, it is marked
\* closed; a Close inside a listener does not wait for the goroutine.
Close(inside) ==
    /\ closing = "no"
    /\ inside => pc = "running"
    /\ IF pc = "none" THEN closing' = "done" /\ UNCHANGED <<closed, listeners>>
       ELSE /\ closed' = TRUE
            /\ listeners' = {}
            /\ closing' = IF inside THEN "gaveup" ELSE "waiting"
    /\ UNCHANGED <<nextID, since, gone, overtaken, queue, runVars, wpc, writes, records, delivered>>

\* It returns when the goroutine has exited,
CloseWithoutWaiting ==
    /\ closing = "waiting"
    /\ closing' = "done"
    /\ UNCHANGED <<regVars, queue, closed, runVars, wpc, writes, records, delivered>>
CloseReturns ==
    /\ closing = "waiting"
    /\ pc = "exit"
    /\ closing' = "done"
    /\ UNCHANGED <<regVars, queue, closed, runVars, wpc, writes, records, delivered>>

\* or after 5 seconds, with a warning.
CloseGivesUp ==
    /\ closing = "waiting"
    /\ closing' = "gaveup"
    /\ UNCHANGED <<regVars, queue, closed, runVars, wpc, writes, records, delivered>>

-----------------------------------------------------------------------------
(* The dispatch goroutine: run and call.                                   *)

Exit ==
    /\ pc = "wait"
    /\ closed
    /\ pc' = "exit"
    /\ UNCHANGED <<regVars, queue, closed, item, targets, own, wpc, closing, writes,
                   records, delivered>>

\* The oldest record is taken, with the listeners that want it.
TakeNewest ==
    /\ pc = "wait"
    /\ ~closed
    /\ queue # << >>
    /\ item' = queue[Len(queue)]
    /\ queue' = SubSeq(queue, 1, Len(queue) - 1)
    /\ targets' = {l \in listeners : item'.op \in OpsOf[l]}
    /\ pc' = "next"
    /\ UNCHANGED <<regVars, closed, own, wpc, closing, writes, records, delivered>>
Take ==
    /\ pc = "wait"
    /\ ~closed
    /\ queue # << >>
    /\ item' = Head(queue)
    /\ queue' = Tail(queue)
    /\ targets' = {l \in listeners : Head(queue).op \in OpsOf[l]}
    /\ pc' = "next"
    /\ UNCHANGED <<regVars, closed, own, wpc, closing, writes, records, delivered>>

\* call: a target that is no longer registered is skipped.
RecheckNothing ==
    /\ pc = "next"
    /\ targets # {}
    /\ pc' = "enter"
    /\ UNCHANGED <<regVars, queue, closed, item, targets, own, wpc, closing, writes, records,
                   delivered>>
Recheck ==
    /\ pc = "next"
    /\ targets # {}
    /\ IF Min(targets) \in listeners
       THEN pc' = "enter" /\ UNCHANGED targets
       ELSE targets' = targets \ {Min(targets)} /\ UNCHANGED pc
    /\ UNCHANGED <<regVars, queue, closed, item, own, wpc, closing, writes, records,
                   delivered>>

\* The listener's function starts.
Enter ==
    /\ pc = "enter"
    /\ LET l == Min(targets) IN
       /\ delivered' = [delivered EXCEPT ![l] = Append(@, item.n)]
       /\ targets' = targets \ {l}
       /\ overtaken' = overtaken \ {l}
    /\ own' = 0
    /\ pc' = "running"
    /\ UNCHANGED <<listeners, nextID, since, gone, queue, closed, item, wpc, closing, writes, records>>

\* The listener writes to the cache: changed on the dispatch goroutine.
ListenerWritesAtDepthOne ==
    /\ pc = "running"
    /\ own < MaxOwn
    /\ own' = own + 1
    /\ \E op \in Ops :
           IF Loaded /\ Wants(op) THEN Submit(op, 1) ELSE UNCHANGED <<queue, records>>
    /\ UNCHANGED <<regVars, closed, pc, item, targets, wpc, closing, writes, delivered>>
ListenerWrites ==
    /\ pc = "running"
    /\ own < MaxOwn
    /\ own' = own + 1
    /\ \E op \in Ops :
           IF Loaded /\ Wants(op) THEN Submit(op, item.depth + 1)
           ELSE UNCHANGED <<queue, records>>
    /\ UNCHANGED <<regVars, closed, pc, item, targets, wpc, closing, writes, delivered>>

\* It returns, or panics and is recovered.
ListenerReturnsOrEndsRun ==
    /\ pc = "running"
    /\ pc' \in {"next", "exit"}
    /\ UNCHANGED <<regVars, queue, closed, item, targets, own, wpc, closing, writes,
                   records, delivered>>
ListenerReturns ==
    /\ pc = "running"
    /\ pc' = "next"
    /\ UNCHANGED <<regVars, queue, closed, item, targets, own, wpc, closing, writes,
                   records, delivered>>

Dispatched ==
    /\ pc = "next"
    /\ targets = {}
    /\ pc' = "wait"
    /\ item' = NoItem
    /\ UNCHANGED <<regVars, queue, closed, targets, own, wpc, closing, writes, records,
                   delivered>>

-----------------------------------------------------------------------------
Goroutine == Exit \/ Take \/ Recheck \/ Enter \/ ListenerReturns \/ Dispatched

Next ==
    \/ \E w \in Writers : Write(w) \/ WriterSubmits(w)
    \/ OnChange
    \/ \E l \in Listeners : Unsubscribe(l)
    \/ \E inside \in BOOLEAN : Close(inside)
    \/ CloseReturns \/ CloseGivesUp
    \/ Goroutine
    \/ ListenerWrites

Spec == Init /\ [][Next]_vars

\* The dispatch goroutine is scheduled and listeners return.
FairSpec == Spec /\ WF_vars(Goroutine)

-----------------------------------------------------------------------------
(* Properties.                                                             *)

\* The records that a listener has been called with, as a set.
Got(l) == {delivered[l][i] : i \in DOMAIN delivered[l]}

\* A listener is called with each record at most once and in the order of the
\* queue, although records come from many goroutines and from listeners.
DeliveredInOrder ==
    \A l \in Listeners : \A i, j \in DOMAIN delivered[l] :
        i < j => delivered[l][i] < delivered[l][j]

\* The records that are queued, or being dispatched to l.
Ahead(l) ==
    {queue[i].n : i \in DOMAIN queue} \cup (IF l \in targets THEN {item.n} ELSE {})

\* A listener that asked for every operation and has stayed registered has been
\* called with every record queued since, but for those still ahead of it.
NoRecordMissed ==
    \A l \in listeners : OpsOf[l] = Ops =>
        \A n \in since[l] + 1 .. records : n \in Got(l) \cup Ahead(l)

\* Listeners that write to the cache whenever they are called cannot keep it
\* busy for ever: each mutation by a writer leads to a bounded number of
\* records, because a chain of reactions is cut off at MaxDepth.
Fan == MaxOwn * Cardinality(Listeners)
Chain[d \in Nat] == IF d = 0 THEN 0 ELSE 1 + Fan * Chain[d - 1]
StormIsBounded == records <= MaxWrites * Chain[MaxDepth]

\* Once Close has returned without giving up, no listener is running or about
\* to run, and none will.
QuietAfterClose == closing = "done" => pc \in {"none", "exit"}

\* What is queued is dispatched, or dropped by Close.
QueueDrains == queue # << >> ~> (queue = << >> \/ closed)

\* A listener is not called once its unsubscribe has returned, however many
\* records are queued for it, unless the goroutine had already re-checked its
\* registration and released the mutex: then it is called once more.
SilentOnceUnsubscribed ==
    [][\A l \in gone \ overtaken : delivered'[l] = delivered[l]]_vars

-----------------------------------------------------------------------------
(* The invariants behind the proofs (DispatcherProofs).                    *)

TypeOK ==
    /\ listeners \subseteq Listeners /\ gone \subseteq Listeners /\ overtaken \subseteq Listeners
    /\ nextID \in Nat
    /\ queue \in Seq(Record) /\ item \in Record \cup {NoItem} /\ targets \subseteq Listeners
    /\ closed \in BOOLEAN
    /\ pc \in {"none", "wait", "next", "enter", "running", "exit"}
    /\ own \in Nat /\ writes \in Nat /\ records \in Nat
    /\ wpc \in [Writers -> Ops \cup {"idle"}]
    /\ closing \in {"no", "waiting", "done", "gaveup"}
    /\ since \in [Listeners -> Nat]
    /\ delivered \in [Listeners -> Seq(Nat)]

\* The goroutine has a record exactly while it dispatches one, and before it
\* enters a listener there is one to enter.
ItemWhileDispatching ==
    /\ pc \in {"next", "enter", "running"} => item \in Record
    /\ pc \notin {"next", "enter", "running"} => targets = {}
    /\ pc = "enter" => targets # {}

\* Records are numbered in the order of the queue, the one being dispatched
\* comes before those queued, and no number is above records.
QueueInOrder ==
    /\ \A i \in DOMAIN queue : queue[i].n <= records
    /\ \A i, j \in DOMAIN queue : i < j => queue[i].n < queue[j].n
    /\ item.n <= records
    /\ \A i \in DOMAIN queue : item.n < queue[i].n

\* What a listener was called with comes before what is queued, and before the
\* record being dispatched if it is still to be called with that.
DeliveredBefore ==
    \A l \in Listeners : \A i \in DOMAIN delivered[l] :
        /\ delivered[l][i] <= records
        /\ \A j \in DOMAIN queue : delivered[l][i] < queue[j].n
        /\ pc \in {"next", "enter", "running"} => delivered[l][i] <= item.n
        /\ l \in targets => delivered[l][i] < item.n

\* A listener that is gone is not registered, and if the goroutine is about to
\* enter it, it was overtaken.
GoneIsGone ==
    /\ listeners \cap gone = {}
    /\ \A l \in gone : l < nextID
    /\ pc = "enter" /\ Min(targets) \in gone => Min(targets) \in overtaken

DispatchInv ==
    /\ ItemWhileDispatching /\ QueueInOrder /\ DeliveredBefore /\ GoneIsGone
    /\ DeliveredInOrder /\ NoRecordMissed /\ QuietAfterClose
=============================================================================
