------------------------------ MODULE EventLog ------------------------------
(***************************************************************************)
(* The events table of a lytecache file and everything that acts on it     *)
(* (lytecache-go/events.go and events_admin.go): publishers (Notify,       *)
(* NotifyMany), the retention sweepers of the processes that have the file *)
(* open, the administrative deletes, and polled subscriptions with the     *)
(* application that receives from them, saves cursors, crashes and         *)
(* resumes.                                                                *)
(*                                                                         *)
(* The seq of an event is its position in `published`: seq is an           *)
(* AUTOINCREMENT key, so sqlite_sequence holds Len(published), and a seq is*)
(* never used twice. `retained` is the set of seqs that still have a row.  *)
(* A batch read by fetch (ORDER BY seq) is the set of its seqs, sent in    *)
(* ascending order. Waiting ends when the timer fires or a publisher of    *)
(* the same process pokes the subscription; the model lets a wait end at   *)
(* any time, which covers both, so the poll interval, its back-off and the *)
(* wake channel need no state. Payloads play no part.                      *)
(***************************************************************************)
EXTENDS Integers, Sequences, FiniteSetsExt

CONSTANTS
    Caches,         \* open Cache handles, one per process
    Subs,           \* subscriptions an application keeps (by cursor name)
    Channels,
    Namespaces,
    NamespaceOf,    \* Cache |-> its namespace
    Admins,         \* the Caches used by administrative tooling
    CacheOf,        \* subscription |-> the Cache it was opened on
    Patterns,       \* subscription |-> the channels its patterns match
    Retention,      \* WithEventRetention
    MaxCount,       \* WithEventMaxCount, 0 for none
    EventsBatch,    \* eventsBatch, the LIMIT of one fetch
    SweepBatch,     \* sweepBatchSize, the LIMIT of one DELETE
    QueueCap,       \* subscriptionQueue, the capacity of the Go channel
    MaxSeq,         \* bound: events ever published
    MaxTime,        \* bound: readings of the wall clock
    MaxBatch        \* bound: events in one NotifyMany

ASSUME EventLogAssumption ==
    /\ NamespaceOf \in [Caches -> Namespaces]
    /\ Admins \subseteq Caches
    /\ CacheOf \in [Subs -> Caches]
    /\ Patterns \in [Subs -> SUBSET Channels]
    /\ Retention \in Nat /\ MaxCount \in Nat
    /\ EventsBatch \in Nat \ {0} /\ SweepBatch \in Nat \ {0}
    /\ QueueCap \in Nat \ {0}
    /\ MaxSeq \in Nat /\ MaxTime \in Nat /\ MaxBatch \in Nat

VARIABLES
    published,      \* every event ever inserted, by seq
    retained,       \* seqs that still have a row
    purged,         \* history: seqs removed by DeleteEvent, DeleteChannelEvents
    now,            \* the wall clock; it may be set back
    sweep,          \* Cache |-> its sweeper: control point and bound read so far
    pc,             \* subscription |-> where its poller goroutine is
    stop,           \* subscription |-> Close was called
    cursor,         \* subscription |-> s.cursor (and s.lastSeq)
    batch,          \* subscription |-> fetched seqs not yet sent
    more,           \* subscription |-> the batch was a full one
    queue,          \* subscription |-> the Events channel
    err,            \* subscription |-> the GapError that ended it
    taken,          \* application: seq of the last event received
    origin,         \* application: seq after which it asked to see events
    handled,        \* application: seqs received since it started at origin
    saved           \* meta table: the saved cursor, or NoCursor

logVars == <<published, retained, purged>>
pollVars == <<pc, stop, cursor, batch, more, queue, err>>
appVars == <<taken, origin, handled>>
vars == <<logVars, now, sweep, pollVars, appVars, saved>>

-----------------------------------------------------------------------------
(* Queries. Definitions whose name says what they get wrong (as           *)
(* GapCheckTooLax does) are the mutated forms used to show that the        *)
(* properties can fail; no specification uses them.                        *)

Last == Len(published)
Seqs == 1 .. Last
NoCursor == -1
NoBound == 0
NoGap == [kind |-> "none", oldest |-> 0]

Event == [channel : Channels, namespace : Namespaces, at : 0 .. MaxTime]

\* The n smallest elements of S: ORDER BY seq LIMIT n.
FirstN(S, n) == {q \in S : Cardinality({r \in S : r <= q}) <= n}

\* SELECT max(seq), NoBound standing for NULL.
MaxOrNone(S) == IF S = {} THEN NoBound ELSE Max(S)

\* SELECT min(seq), or the next seq to be assigned if the table is empty.
Oldest == IF retained = {} THEN Last + 1 ELSE Min(retained)

\* The WHERE clause of a subscription: namespace = ? AND its channel filter.
Matches(s, q) ==
    /\ published[q].namespace = NamespaceOf[CacheOf[s]]
    /\ published[q].channel \in Patterns[s]

\* The rows a fetch asks for.
PendingInclusive(s) == {q \in retained : q >= cursor[s] /\ Matches(s, q)}
PendingFilteredLate(s) ==
    {q \in FirstN({r \in retained : r > cursor[s]}, 1) : Matches(s, q)}
Pending(s) == {q \in retained : q > cursor[s] /\ Matches(s, q)}

\* The gap rule of gapCheck for cursor c.
GapCheckTooLax(c) ==
    IF c > Last THEN [kind |-> "ahead", oldest |-> Last + 1]
    ELSE IF c < Oldest - 2 THEN [kind |-> "lost", oldest |-> Oldest]
    ELSE NoGap
GapCheckResumeAtEnd(c) ==
    IF c > Last THEN [kind |-> "ahead", oldest |-> Last + 1]
    ELSE IF c < Oldest - 1 THEN [kind |-> "lost", oldest |-> Last + 1]
    ELSE NoGap
GapCheck(c) ==
    IF c > Last THEN [kind |-> "ahead", oldest |-> Last + 1]
    ELSE IF c < Oldest - 1 THEN [kind |-> "lost", oldest |-> Oldest]
    ELSE NoGap

-----------------------------------------------------------------------------
Init ==
    /\ published = << >>
    /\ retained = {}
    /\ purged = {}
    /\ now \in 0 .. MaxTime
    /\ sweep = [c \in Caches |-> [at |-> "idle", bound |-> NoBound]]
    /\ pc = [s \in Subs |-> "none"]
    /\ stop = [s \in Subs |-> FALSE]
    /\ cursor = [s \in Subs |-> 0]
    /\ batch = [s \in Subs |-> {}]
    /\ more = [s \in Subs |-> FALSE]
    /\ queue = [s \in Subs |-> << >>]
    /\ err = [s \in Subs |-> NoGap]
    /\ taken = [s \in Subs |-> 0]
    /\ handled = [s \in Subs |-> {}]
    /\ origin = [s \in Subs |-> 0]
    /\ saved = [s \in Subs |-> NoCursor]

\* time.Now is the wall clock: it advances, and it may be stepped back.
ClockStep ==
    /\ now' \in (0 .. MaxTime) \ {now}
    /\ UNCHANGED <<logVars, sweep, pollVars, appVars, saved>>

(* Publishers. *)

\* insertEvents: all the rows of one call in one transaction.
Notify(c, channels) ==
    /\ Last + Len(channels) <= MaxSeq
    /\ published' = published \o
           [i \in 1 .. Len(channels) |->
               [channel |-> channels[i], namespace |-> NamespaceOf[c], at |-> now]]
    /\ retained' = retained \cup (Last + 1 .. Last + Len(channels))
    /\ UNCHANGED <<purged, now, sweep, pollVars, appVars, saved>>

(* Retention: two reads on the read pool, then deletes in batches. *)

SweepAge(c) ==
    /\ sweep[c].at = "idle"
    /\ sweep' = [sweep EXCEPT ![c] =
           [at |-> "cap",
            bound |-> MaxOrNone({q \in retained : published[q].at <= now - Retention})]]
    /\ UNCHANGED <<logVars, now, pollVars, appVars, saved>>

\* The newest event outside the newest MaxCount ones, NoBound if there is none.
CapBound ==
    IF MaxCount = 0 THEN NoBound
    ELSE MaxOrNone({q \in retained : Cardinality({r \in retained : r > q}) >= MaxCount})

SweepCap(c) ==
    /\ sweep[c].at = "cap"
    /\ LET b == IF CapBound > sweep[c].bound THEN CapBound ELSE sweep[c].bound
       IN  sweep' = [sweep EXCEPT ![c] =
               [at |-> IF b = NoBound THEN "idle" ELSE "delete", bound |-> b]]
    /\ UNCHANGED <<logVars, now, pollVars, appVars, saved>>

SweepDeleteByAge(c) ==
    /\ sweep[c].at = "delete"
    /\ LET D == {q \in retained : published[q].at <= now - Retention}
       IN  /\ retained' = retained \ D
           /\ sweep' = [sweep EXCEPT ![c] = [at |-> "idle", bound |-> NoBound]]
    /\ UNCHANGED <<published, purged, now, pollVars, appVars, saved>>

\* One batched DELETE; the loop ends with the first batch that is not full.
SweepDelete(c) ==
    /\ sweep[c].at = "delete"
    /\ LET D == FirstN({q \in retained : q <= sweep[c].bound}, SweepBatch)
       IN  /\ retained' = retained \ D
           /\ sweep' = IF Cardinality(D) < SweepBatch
                       THEN [sweep EXCEPT ![c] = [at |-> "idle", bound |-> NoBound]]
                       ELSE sweep
    /\ UNCHANGED <<published, purged, now, pollVars, appVars, saved>>

(* Administration. *)

DeleteEvent(q) ==
    /\ q \in retained
    /\ retained' = retained \ {q}
    /\ purged' = purged \cup {q}
    /\ UNCHANGED <<published, now, sweep, pollVars, appVars, saved>>

\* One batch of DeleteChannelEvents; the caller repeats it until one is short.
DeleteChannelEvents(ch) ==
    /\ LET D == FirstN({q \in retained : published[q].channel = ch}, SweepBatch)
       IN  /\ D # {}
           /\ retained' = retained \ D
           /\ purged' = purged \cup D
    /\ UNCHANGED <<published, now, sweep, pollVars, appVars, saved>>

\* DeleteEventsBefore(t) reads its bound as a sweeper does and then runs the
\* same batched deletes; the administrator's process borrows c's sweeper.
DeleteEventsBefore(c, t) ==
    /\ sweep[c].at = "idle"
    /\ LET b == MaxOrNone({q \in retained : published[q].at < t})
       IN  /\ b # NoBound
           /\ sweep' = [sweep EXCEPT ![c] = [at |-> "delete", bound |-> b]]
    /\ UNCHANGED <<logVars, now, pollVars, appVars, saved>>

(* Subscriptions. *)

\* Watch with option o, which starts after seq n: a gap found here ends it at
\* once. `org` and `seen` are the application's own record of its stream.
Start(s, o, n, org, seen) ==
    /\ pc[s] \in {"none", "ended"}
    /\ LET gap == IF o = "seq" THEN GapCheck(n) ELSE NoGap
       IN  /\ err' = [err EXCEPT ![s] = gap]
           /\ pc' = [pc EXCEPT ![s] = IF gap = NoGap THEN "poll" ELSE "ended"]
    /\ cursor' = [cursor EXCEPT ![s] = n]
    /\ stop' = [stop EXCEPT ![s] = FALSE]
    /\ queue' = [queue EXCEPT ![s] = << >>]
    /\ taken' = [taken EXCEPT ![s] = n]
    /\ origin' = [origin EXCEPT ![s] = org]
    /\ handled' = [handled EXCEPT ![s] = seen]
    /\ UNCHANGED <<logVars, now, sweep, batch, more, saved>>

\* An application without a saved cursor (LoadCursor finds none) starts a new
\* stream from now on, from FromSeq(0), which is everything still retained, or
\* from a seq of its choosing.
WatchNow(s) == saved[s] = NoCursor /\ Start(s, "now", Last, Last, {})
WatchRetainedTooEarly(s) ==
    saved[s] = NoCursor /\ Start(s, "zero", Oldest - 2, Oldest - 2, {})
WatchRetained(s) ==
    saved[s] = NoCursor /\ Start(s, "zero", Oldest - 1, Oldest - 1, {})
WatchFrom(s, n) == saved[s] = NoCursor /\ n > 0 /\ Start(s, "seq", n, n, {})

\* LoadCursor, then FromSeq of what it returned.
Resume(s) ==
    /\ saved[s] > 0
    /\ Start(s, "seq", saved[s], origin[s], handled[s])

\* The application accepts the loss a GapError reports: FromSeq(ResumeSeq).
AcceptGap(s) ==
    /\ err[s].kind = "lost"
    /\ Start(s, "seq", err[s].oldest - 1, err[s].oldest - 1, {})

\* The stop case of each select of run.
Stopped(s) ==
    /\ stop[s] /\ pc[s] \in {"poll", "send", "wait"}
    /\ pc' = [pc EXCEPT ![s] = "ended"]
    /\ batch' = [batch EXCEPT ![s] = {}]
    /\ more' = [more EXCEPT ![s] = FALSE]
    /\ UNCHANGED <<logVars, now, sweep, stop, cursor, queue, err, appVars, saved>>

\* fetch: gap check and batch read on one snapshot.
Fetch(s) ==
    /\ pc[s] = "poll" /\ ~stop[s]
    /\ LET gap == GapCheck(cursor[s])
           rows == FirstN(Pending(s), EventsBatch)
       IN  IF gap # NoGap
           THEN /\ err' = [err EXCEPT ![s] = gap]
                /\ pc' = [pc EXCEPT ![s] = "ended"]
                /\ UNCHANGED <<batch, more>>
           ELSE /\ batch' = [batch EXCEPT ![s] = rows]
                /\ more' = [more EXCEPT ![s] = Cardinality(rows) = EventsBatch]
                /\ pc' = [pc EXCEPT ![s] = IF rows = {} THEN "wait" ELSE "send"]
                /\ UNCHANGED err
    /\ UNCHANGED <<logVars, now, sweep, stop, cursor, queue, appVars, saved>>

\* A failed poll (a busy file, an I/O error) is logged and retried.
FetchError(s) ==
    /\ pc[s] = "poll" /\ ~stop[s]
    /\ pc' = [pc EXCEPT ![s] = "wait"]
    /\ UNCHANGED <<logVars, now, sweep, stop, cursor, batch, more, queue, err,
                   appVars, saved>>

\* Send the next event of the batch: blocks while the channel is full. After a
\* full batch run polls again at once.
Send(s) ==
    /\ pc[s] = "send"
    /\ Len(queue[s]) < QueueCap
    /\ LET q == Min(batch[s])
           done == batch[s] = {q}
       IN  /\ queue' = [queue EXCEPT ![s] = Append(@, q)]
           /\ cursor' = [cursor EXCEPT ![s] = q]
           /\ batch' = [batch EXCEPT ![s] = @ \ {q}]
           /\ more' = [more EXCEPT ![s] = @ /\ ~done]
           /\ pc' = [pc EXCEPT ![s] = IF ~done THEN "send"
                                      ELSE IF more[s] THEN "poll" ELSE "wait"]
    /\ UNCHANGED <<logVars, now, sweep, stop, err, appVars, saved>>

WaitOver(s) ==
    /\ pc[s] = "wait"
    /\ pc' = [pc EXCEPT ![s] = "poll"]
    /\ UNCHANGED <<logVars, now, sweep, stop, cursor, batch, more, queue, err,
                   appVars, saved>>

Close(s) ==
    /\ pc[s] # "none" /\ ~stop[s]
    /\ stop' = [stop EXCEPT ![s] = TRUE]
    /\ UNCHANGED <<logVars, now, sweep, pc, cursor, batch, more, queue, err,
                   appVars, saved>>

(* The application. *)

\* Next, TryNext or a receive from Events; a closed channel is drained first.
Receive(s) ==
    /\ pc[s] # "none" /\ queue[s] # << >>
    /\ queue' = [queue EXCEPT ![s] = Tail(@)]
    /\ taken' = [taken EXCEPT ![s] = Head(queue[s])]
    /\ handled' = [handled EXCEPT ![s] = @ \cup {Head(queue[s])}]
    /\ UNCHANGED <<logVars, now, sweep, pc, stop, cursor, batch, more, err, origin,
                   saved>>

SaveLastSeq(s) ==
    /\ pc[s] # "none" /\ taken[s] \in handled[s] /\ saved[s] # cursor[s]
    /\ saved' = [saved EXCEPT ![s] = cursor[s]]
    /\ UNCHANGED <<logVars, now, sweep, pollVars, appVars>>

\* SaveCursor, as documented, with the seq of an event that has been handled.
SaveCursor(s) ==
    /\ pc[s] # "none" /\ taken[s] \in handled[s] /\ saved[s] # taken[s]
    /\ saved' = [saved EXCEPT ![s] = taken[s]]
    /\ UNCHANGED <<logVars, now, sweep, pollVars, appVars>>

\* The process of c dies: what it had in memory is gone. The application's
\* record of what it handled stands for its own durable effects.
Crash(c) ==
    /\ \E s \in Subs : CacheOf[s] = c /\ pc[s] # "none"
    /\ LET Lose(f, d) == [s \in Subs |-> IF CacheOf[s] = c THEN d ELSE f[s]]
       IN  /\ pc' = Lose(pc, "none")
           /\ stop' = Lose(stop, FALSE)
           /\ cursor' = Lose(cursor, 0)
           /\ batch' = Lose(batch, {})
           /\ more' = Lose(more, FALSE)
           /\ queue' = Lose(queue, << >>)
           /\ err' = Lose(err, NoGap)
           /\ taken' = Lose(taken, 0)
    /\ sweep' = [sweep EXCEPT ![c] = [at |-> "idle", bound |-> NoBound]]
    /\ UNCHANGED <<logVars, now, origin, handled, saved>>

-----------------------------------------------------------------------------
ChannelLists == UNION {[1 .. n -> Channels] : n \in 1 .. MaxBatch}

Publish == \E c \in Caches, chs \in ChannelLists : Notify(c, chs)
SweepStep == \E c \in Caches : SweepAge(c) \/ SweepCap(c) \/ SweepDelete(c)
Admin(c) ==
    \/ \E q \in retained : DeleteEvent(q)
    \/ \E ch \in Channels : DeleteChannelEvents(ch)
    \/ \E t \in 0 .. MaxTime + 1 : DeleteEventsBefore(c, t)
Watch(s) ==
    \/ WatchNow(s)
    \/ WatchRetained(s)
    \/ \E n \in 1 .. MaxSeq + 1 : WatchFrom(s, n)
    \/ Resume(s)
    \/ AcceptGap(s)
Poller(s) == Stopped(s) \/ Fetch(s) \/ FetchError(s) \/ Send(s) \/ WaitOver(s)
App(s) == Receive(s) \/ SaveCursor(s) \/ Close(s)

Next ==
    \/ ClockStep
    \/ Publish
    \/ SweepStep
    \/ \E c \in Admins : Admin(c)
    \/ \E s \in Subs : Watch(s) \/ Poller(s) \/ App(s)
    \/ \E c \in Caches : Crash(c)

Spec == Init /\ [][Next]_vars

-----------------------------------------------------------------------------
(* Properties. *)

Live(s) == pc[s] \in {"poll", "send", "wait"}

\* Type invariant: rows, cursors, queues (never above their capacity) and the
\* sweepers' bounds of events.go hold what the code may store in them.
TypeOK ==
    /\ published \in Seq(Event) /\ Last <= MaxSeq
    /\ retained \in SUBSET Seqs /\ purged \in SUBSET Seqs
    /\ now \in 0 .. MaxTime
    /\ sweep \in [Caches -> [at : {"idle", "cap", "delete"}, bound : 0 .. MaxSeq]]
    /\ pc \in [Subs -> {"none", "poll", "send", "wait", "ended"}]
    /\ stop \in [Subs -> BOOLEAN]
    /\ cursor \in [Subs -> 0 .. MaxSeq + 1]
    /\ batch \in [Subs -> SUBSET (1 .. MaxSeq)]
    /\ more \in [Subs -> BOOLEAN]
    /\ queue \in [Subs -> Seq(1 .. MaxSeq)]
    /\ \A s \in Subs : Len(queue[s]) <= QueueCap
    /\ err \in [Subs -> [kind : {"none", "lost", "ahead"}, oldest : 0 .. MaxSeq + 1]]
    /\ taken \in [Subs -> 0 .. MaxSeq + 1]
    /\ handled \in [Subs -> SUBSET (1 .. MaxSeq)]
    /\ origin \in [Subs -> 0 .. MaxSeq + 1]
    /\ saved \in [Subs -> {NoCursor} \cup 0 .. MaxSeq + 1]

\* sweepEvents and DeleteEventsBefore only ever remove a prefix of the seq
\* range: a seq that is gone, and was not deleted singly by an administrator,
\* has no retained seq below it, whatever the clocks and however many sweepers
\* interleave their batches.
RetentionLeavesNoHole ==
    \A q \in Seqs : q \notin retained \cup purged =>
        \A r \in retained : r > q

\* A subscription never skips an event silently: every matching event between
\* the position the application asked for and the poller's cursor was received
\* or is waiting in the channel, unless an administrator deleted it. Holds
\* across retention, failed polls, gaps, Close, crashes and resumption.
NoSilentLoss ==
    \A s \in Subs : pc[s] # "none" =>
        \A q \in Seqs :
            (origin[s] < q /\ q <= cursor[s] /\ Matches(s, q) /\ q \notin purged)
                => q \in handled[s] \cup Range(queue[s])

\* Delivery is in seq order: the channel holds ascending seqs, all later than
\* the last event received and none later than the poller's cursor.
Ordered(s) ==
    /\ \A i, j \in 1 .. Len(queue[s]) : i < j => queue[s][i] < queue[s][j]
    /\ \A i \in 1 .. Len(queue[s]) :
           taken[s] < queue[s][i] /\ queue[s][i] <= cursor[s]

InSeqOrder == \A s \in Subs : Ordered(s)

\* At-least-once across a crash: a cursor saved after handling an event covers
\* only events that were handled, so resuming from it loses nothing.
SavedCursorIsSafe ==
    \A s \in Subs : \A q \in Seqs :
        (origin[s] < q /\ q <= saved[s] /\ Matches(s, q) /\ q \notin purged)
            => q \in handled[s]

\* The ResumeSeq of a GapError skips only events that are gone: every event
\* still retained comes after it, also when more were deleted since.
ResumeSeqSkipsNothing ==
    \A s \in Subs : err[s].kind = "lost" =>
        \A q \in retained : q > err[s].oldest - 1

\* An event a live subscription is waiting for is eventually received, unless
\* the subscription ends (gap, Close, crash) or an administrator deletes it.
EventuallyReceived ==
    \A s \in Subs : \A q \in 1 .. MaxSeq :
        (Live(s) /\ q \in Seqs /\ Matches(s, q) /\ taken[s] < q)
            ~> (~Live(s) \/ taken[s] >= q \/ q \in purged)

\* The poller goroutine is scheduled; a poll does not fail for ever; the
\* application keeps receiving. Publishing, sweeping, closing owe nothing.
Fairness ==
    \A s \in Subs :
        /\ WF_vars(Stopped(s)) /\ SF_vars(Fetch(s)) /\ WF_vars(Send(s))
        /\ WF_vars(WaitOver(s)) /\ WF_vars(Receive(s))

FairSpec == Spec /\ Fairness

-----------------------------------------------------------------------------
(* The inductive strengthening of the safety properties, proved in         *)
(* EventLogProofs. An event is due to s if s must not skip it.             *)

Due(s, q) == Matches(s, q) /\ q \notin purged

\* All that was due up to the last event received was received.
ReceivedInFull(s) ==
    \A q \in Seqs : origin[s] < q /\ q <= taken[s] /\ Due(s, q) => q \in handled[s]

\* All that is due between the last event received and the cursor is queued.
QueuedInFull(s) ==
    \A q \in Seqs :
        taken[s] < q /\ q <= cursor[s] /\ Due(s, q) => q \in Range(queue[s])

\* A fetched batch skips nothing that is due between the cursor and its rows.
BatchInFull(s) ==
    \A b \in batch[s] :
        /\ b > cursor[s]
        /\ \A q \in Seqs : cursor[s] < q /\ q < b /\ Due(s, q) => q \in batch[s]

\* Positions: a cursor beyond the last seq is one that Watch was given.
Positions(s) ==
    /\ pc[s] # "none" =>
           /\ taken[s] <= cursor[s]
           /\ saved[s] <= taken[s]
           /\ cursor[s] <= Last \/ (cursor[s] = taken[s] /\ taken[s] = origin[s])
    /\ saved[s] <= Last
    /\ handled[s] \subseteq Seqs /\ Range(queue[s]) \subseteq Seqs /\ batch[s] \subseteq Seqs
    /\ pc[s] = "send" <=> batch[s] # {}

\* What a reported gap says stays true.
GapRecord(s) ==
    err[s].kind = "lost" =>
        /\ pc[s] = "ended"
        /\ 1 <= err[s].oldest /\ err[s].oldest <= Last + 1
        /\ cursor[s] < err[s].oldest
        /\ \A q \in retained : q >= err[s].oldest

SavedInFull(s) ==
    \A q \in Seqs : origin[s] < q /\ q <= saved[s] /\ Due(s, q) => q \in handled[s]

SubInv(s) ==
    /\ Ordered(s)
    /\ pc[s] # "none" => ReceivedInFull(s) /\ QueuedInFull(s)
    /\ BatchInFull(s)
    /\ Positions(s)
    /\ GapRecord(s)
    /\ SavedInFull(s)

IndInv == RetentionLeavesNoHole /\ \A s \in Subs : SubInv(s)

=============================================================================
