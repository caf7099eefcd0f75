------------------------------ MODULE UIServer ------------------------------
(***************************************************************************)
(* The server of `lytecache ui`: the databases it knows (Manager, dbEntry  *)
(* in ui/dbmanager.go), the Cache handle it opens once for each of them    *)
(* and shares between all requests, the pages and scrapes that read        *)
(* through it (ui/handlers.go, viewmodel.go, events.go, metrics.go,        *)
(* mutations.go), and shutdown (cmd_ui.go, server.go). Opening a handle is *)
(* lytecache.New of cache.go, with the schema version of the file.         *)
(*                                                                         *)
(* Applications create and remove the files meanwhile, publish events,     *)
(* advance their cursors and let retention delete. A file that is removed  *)
(* and created again is another file: the connection that writes stays     *)
(* with the old one, while a connection of the read pool opened later      *)
(* reads the new one. One namespace of each database is modelled, and one  *)
(* cursor. What the pages show of keys and values is left out.             *)
(***************************************************************************)
EXTENDS Integers, FiniteSets

CONSTANTS
    Requests,       \* goroutines that serve a request each
    Main,           \* the goroutine that starts the server
    Paths,          \* database files
    NameOf,         \* the name scanDBFiles derives from a path
    Sources,        \* the entries the server may start with
    Kinds,          \* the requests made
    MaxKinds,       \* bound: different kinds of requests in a behaviour
    MaxFiles,       \* bound: files ever created at a path
    MaxSteps,       \* bound: steps of the applications
    MaxFails        \* bound: failures to open

AllKinds == {"page", "mutation", "dashboard", "search", "metrics", "events"}
OneDatabase == {"page", "mutation", "events"}
EventReaders == {"events", "dashboard", "metrics"}
Names == {NameOf[p] : p \in Paths}
NoPath == "no path"
NoOne == "no one"
Actors == Requests \cup {Main}

\* MergeSources and NewManager: a name stands for one of the paths that bear it,
\* configured or found by a scan, or is not known yet.
MergedSources ==
    {e \in [Names -> Paths \cup {NoPath}] : \A n \in Names : e[n] # NoPath => NameOf[e[n]] = n}

ASSUME UIServerAssumption ==
    /\ Main \notin Requests /\ Kinds \subseteq AllKinds /\ Sources \subseteq MergedSources
    /\ NoPath \notin Paths \cup Names /\ NoOne \notin Actors
    /\ MaxKinds \in Nat /\ MaxFiles \in Nat \ {0} /\ MaxSteps \in Nat
    /\ MaxFails \in Nat

VARIABLES
    file,           \* path |-> which of the files created there it is, 0 for none
    version,        \* path, file |-> its schema_version, 0 until one is recorded
    events,         \* path, file |-> the oldest retained seq, the newest ever, and the cursor
    entry,          \* name |-> the path of its dbEntry, or NoPath
    mu,             \* name |-> who holds the dbEntry's mutex, or NoOne
    cache,          \* name |-> the handle in the dbEntry's map, or NoHandle
    req,            \* actor |-> what it is doing
    scraper,        \* who holds the mutex of the metrics collector, or NoOne
    phase,          \* "warmup", "serving", "draining", "closing", "exited"
    toClose,        \* the entries Manager.Close has still to visit
    rushed,         \* Close began although requests were running
    mix,            \* the kinds of requests made in this behaviour
    created, steps, fails,
    handles,        \* history: name |-> handles opened and not closed
    broken          \* history: a request met a closed handle

disk == <<file, version, events, created, steps>>
manager == <<entry, mu, cache, handles>>
vars == <<disk, manager, req, scraper, phase, toClose, rushed, mix, fails, broken>>

NoHandle == [file |-> 0, open |-> FALSE]
Supported == 1          \* schemaVersion

NoInfo == [old |-> 0, new |-> 0, empty |-> FALSE, from |-> 0]
Idle == [kind |-> "none", pc |-> "idle", name |-> NoPath, todo |-> {}, file |-> 0, info |-> NoInfo]
NoEvents == [old |-> 1, new |-> 0, cur |-> 0]
SomeEvents == [old |-> 1, new |-> 2, cur |-> 0]
CaughtUp == [old |-> 2, new |-> 2, cur |-> 2]
Listed == {n \in Names : entry[n] # NoPath}
Running == {r \in Requests : req[r].pc \notin {"idle", "done"}}

Init ==
    /\ file = [p \in Paths |-> 1]
    /\ mix \in {K \in SUBSET Kinds : Cardinality(K) = MaxKinds}
    /\ \E e \in IF mix \cap EventReaders # {} THEN {SomeEvents, CaughtUp} ELSE {NoEvents} :
           events = [p \in Paths |-> [i \in 1 .. MaxFiles |-> IF i = file[p] THEN e ELSE NoEvents]]
    /\ version = [p \in Paths |-> [i \in 1 .. MaxFiles |->
                    IF events[p][i] # NoEvents THEN Supported ELSE 0]]
    /\ entry \in Sources
    /\ mu = [n \in Names |-> NoOne]
    /\ cache = [n \in Names |-> NoHandle]
    /\ req = [a \in Actors |-> IF a # Main THEN Idle
                               ELSE [Idle EXCEPT !.kind = "warmup", !.pc = "names"]]
    /\ scraper = NoOne
    /\ phase = "warmup"
    /\ toClose = {} /\ rushed = FALSE
    /\ created = file /\ steps = 0 /\ fails = 0
    /\ handles = [n \in Names |-> 0] /\ broken = FALSE

-----------------------------------------------------------------------------
(* The applications.                                                       *)

Others == steps < MaxSteps /\ steps' = steps + 1 /\ UNCHANGED <<manager, req, scraper, phase, toClose, rushed, mix, fails, broken>>

CreateFile(p) ==
    /\ file[p] = 0 /\ created[p] < MaxFiles
    /\ created' = [created EXCEPT ![p] = @ + 1]
    /\ file' = [file EXCEPT ![p] = created'[p]]
    /\ UNCHANGED <<version, events>> /\ Others
RemoveFile(p) ==
    /\ file[p] # 0 /\ created[p] < MaxFiles
    /\ file' = [file EXCEPT ![p] = 0]
    /\ UNCHANGED <<version, events, created>> /\ Others
\* An application of this release, or of a newer one, records the version.
RecordVersion(p) ==
    /\ file[p] # 0 /\ version[p][file[p]] = 0
    /\ \E v \in {Supported, Supported + 1} : version' = [version EXCEPT ![p][file[p]] = v]
    /\ UNCHANGED <<file, events, created>> /\ Others

\* A publisher, retention and a subscriber, in the file at p: what they do while
\* no request is at that database makes no difference.
UseEvents(p, e) ==
    /\ version[p][file[p]] # 0
    /\ events' = [events EXCEPT ![p][file[p]] = e]
    /\ UNCHANGED <<file, version, created>> /\ Others
Log(p) == events[p][file[p]]
Publish(p) == UseEvents(p, [Log(p) EXCEPT !.new = @ + 1])
Retire(p) == Log(p).old <= Log(p).new /\ UseEvents(p, [Log(p) EXCEPT !.old = @ + 1])
SaveCursor(p) ==
    \E s \in Log(p).cur + 1 .. Log(p).new : UseEvents(p, [Log(p) EXCEPT !.cur = s])
Read == {entry[n] : n \in {req[r].name : r \in {q \in Running : req[q].kind \in EventReaders}} \ {NoPath}}
Application(p) ==
    \/ CreateFile(p) \/ RemoveFile(p) \/ RecordVersion(p)
    \/ file[p] # 0 /\ p \in Read /\ (Publish(p) \/ Retire(p) \/ SaveCursor(p))

-----------------------------------------------------------------------------
(* Requests.                                                               *)

Goto(r, l) == req' = [req EXCEPT ![r].pc = l]
Finished == [Idle EXCEPT !.pc = "done"]
Done(r) == req' = [req EXCEPT ![r] = Finished]
Server == UNCHANGED <<phase, toClose, rushed, mix>>

FirstStep(k) == CASE k \in OneDatabase -> "cache"
                  [] k = "dashboard" -> "rescan"
                  [] k = "metrics" -> "collect"
                  [] k = "search" -> "names"

\* A request is routed; an unknown database is not found.
Serve(r) ==
    \E k \in mix, n \in Names :
        /\ phase = "serving" /\ req[r].pc = "idle"
        /\ k \in OneDatabase => n \in Listed
        /\ k \notin OneDatabase => n = (CHOOSE m \in Names : TRUE)
        /\ req' = [req EXCEPT ![r] = [Idle EXCEPT
               !.kind = k, !.name = IF k \in OneDatabase THEN n ELSE NoPath, !.pc = FirstStep(k)]]
        /\ UNCHANGED <<disk, manager, scraper, fails, broken>> /\ Server

\* Manager.Rescan: files that have appeared become entries; a name that is
\* taken keeps its path.
RescanReplacing(r) ==
    LET found(n) == {p \in Paths : NameOf[p] = n /\ file[p] # 0}
    IN  /\ req[r].pc = "rescan"
        /\ entry' \in {e \in [Names -> Paths \cup {NoPath}] : \A n \in Names :
                          IF found(n) = {} THEN e[n] = entry[n] ELSE e[n] \in found(n)}
        /\ cache' = [n \in Names |-> IF entry'[n] = entry[n] THEN cache[n] ELSE NoHandle]
        /\ Goto(r, "names")
        /\ UNCHANGED <<disk, mu, handles, scraper, fails, broken>> /\ Server
Rescan(r) ==
    LET found(n) == {p \in Paths : NameOf[p] = n /\ file[p] # 0}
    IN  /\ req[r].pc = "rescan"
        /\ entry' \in {e \in [Names -> Paths \cup {NoPath}] : \A n \in Names :
                          IF n \in Listed \/ found(n) = {} THEN e[n] = entry[n] ELSE e[n] \in found(n)}
        /\ Goto(r, "names")
        /\ UNCHANGED <<disk, mu, cache, handles, scraper, fails, broken>> /\ Server

\* metricsCollector.metrics: a recent result is served again. Whether the last
\* one is recent is left open.
Collect(r) ==
    /\ req[r].pc = "collect" /\ scraper = NoOne
    /\ \/ scraper' = r /\ Goto(r, "names")
       \/ scraper' = scraper /\ Done(r)
    /\ UNCHANGED <<disk, manager, fails, broken>> /\ Server

\* Manager.Names (WarmUp reads the entries themselves).
ListNames(a) ==
    /\ req[a].pc = "names"
    /\ req' = [req EXCEPT ![a].todo = Listed, ![a].pc = "next"]
    /\ UNCHANGED <<disk, manager, scraper, fails, broken>> /\ Server

\* BuildDashboard, BuildSearch, metrics, WarmUp: one database after the other.
NextName(a) ==
    /\ req[a].pc = "next"
    /\ \/ \E n \in req[a].todo :
              /\ req' = [req EXCEPT ![a].name = n, ![a].todo = @ \ {n}, ![a].pc = "cache"]
              /\ UNCHANGED <<scraper, phase>>
       \/ /\ req[a].todo = {}
          /\ Done(a)
          /\ scraper' = IF scraper = a THEN NoOne ELSE scraper
          /\ phase' = IF a = Main THEN "serving" ELSE phase
    /\ UNCHANGED <<disk, manager, toClose, rushed, mix, fails, broken>>

\* Where an actor goes on when it is done with a database.
After(a) == IF req[a].kind \in OneDatabase THEN Finished
            ELSE [req[a] EXCEPT !.pc = "next", !.name = NoPath, !.file = 0, !.info = NoInfo]

-----------------------------------------------------------------------------
(* dbEntry.Cache.                                                          *)

\* It takes the mutex; a handle in the map is returned at once.
CacheUnlocked(a) ==
    LET n == req[a].name IN
    /\ req[a].pc = "cache"
    /\ Goto(a, IF cache[n] # NoHandle THEN "use" ELSE "stat")
    /\ mu' = [mu EXCEPT ![n] = IF cache[n] # NoHandle THEN NoOne ELSE a]
    /\ UNCHANGED <<disk, entry, cache, handles, scraper, fails, broken>> /\ Server
Cache(a) == req[a].pc = "cache" /\ mu[req[a].name] = NoOne /\ CacheUnlocked(a)

Unlock(a) == mu' = [mu EXCEPT ![req[a].name] = NoOne]

\* os.Stat: a file that does not exist is not opened.
StatKeepingLock(a) ==
    /\ req[a].pc = "stat"
    /\ req' = [req EXCEPT ![a] = IF file[entry[req[a].name]] # 0 THEN [@ EXCEPT !.pc = "open"] ELSE After(a)]
    /\ UNCHANGED <<disk, entry, mu, cache, handles, scraper, fails, broken>> /\ Server
Stat(a) ==
    /\ req[a].pc = "stat"
    /\ IF file[entry[req[a].name]] # 0
       THEN Goto(a, "open") /\ UNCHANGED mu
       ELSE req' = [req EXCEPT ![a] = After(a)] /\ Unlock(a)
    /\ UNCHANGED <<disk, entry, cache, handles, scraper, fails, broken>> /\ Server

\* A connection creates the file if it is gone by now.
Connect(p) ==
    /\ created' = [created EXCEPT ![p] = IF file[p] = 0 THEN @ + 1 ELSE @]
    /\ file' = [file EXCEPT ![p] = created'[p]]

\* lytecache.New: sql.Open and the DDL.
Open(a) ==
    LET n == req[a].name
        p == entry[n]
    IN  /\ req[a].pc = "open"
        /\ Connect(p)
        /\ req' = [req EXCEPT ![a].pc = "version", ![a].file = file'[p]]
        /\ handles' = [handles EXCEPT ![n] = @ + 1]
        /\ UNCHANGED <<version, events, steps, entry, mu, cache, scraper, fails, broken>> /\ Server

\* The handle is in the map, and in use.
Opened(a) ==
    /\ cache' = [cache EXCEPT ![req[a].name] = [file |-> req[a].file, open |-> TRUE]]
    /\ Goto(a, "use")
    /\ Unlock(a)
    /\ UNCHANGED handles

\* initSchema failed: the connection is closed again.
Discard(a) ==
    /\ handles' = [handles EXCEPT ![req[a].name] = @ - 1]
    /\ req' = [req EXCEPT ![a] = After(a)]
    /\ Unlock(a)
    /\ UNCHANGED cache

\* SELECT v FROM meta: a newer version is refused, a missing one recorded.
ReadVersion(a) ==
    LET v == version[entry[req[a].name]][req[a].file] IN
    /\ req[a].pc = "version"
    /\ CASE v = 0 -> Goto(a, "record") /\ UNCHANGED <<mu, cache, handles>>
         [] v > Supported -> Discard(a)
         [] OTHER -> Opened(a)
    /\ UNCHANGED <<disk, entry, scraper, fails, broken>> /\ Server

\* INSERT OR IGNORE.
Record(a) ==
    /\ req[a].pc = "record"
    /\ version' = [version EXCEPT ![entry[req[a].name]][req[a].file] = IF @ = 0 THEN Supported ELSE @]
    /\ Opened(a)
    /\ UNCHANGED <<file, events, created, steps, entry, scraper, fails, broken>> /\ Server

\* initSchemaWithRetry gives up: the file stays locked, or is no database.
OpenFails(a) ==
    /\ req[a].pc \in {"version", "record"} /\ fails < MaxFails
    /\ fails' = fails + 1
    /\ Discard(a)
    /\ UNCHANGED <<disk, entry, scraper, broken>> /\ Server

-----------------------------------------------------------------------------
(* Using the handle.                                                       *)

\* The events in file f of name n.
Seen(n, f) == events[entry[n]][f]

Reading == UNCHANGED <<version, events, steps, manager, scraper, fails>> /\ Server
SameFiles == UNCHANGED <<file, created>>

\* A read for name n goes to file f: over a connection of the pool that was open
\* before, or over a new one.
ReadFrom(n, f) ==
    \/ f = cache[n].file /\ SameFiles
    \/ Connect(entry[n]) /\ f = file'[entry[n]]
Reads(a) == \E f \in 1 .. MaxFiles : ReadFrom(req[a].name, f)
Using(a, kinds) == req[a].pc = "use" /\ req[a].kind \in kinds /\ cache[req[a].name].open
Proceed(a) == req' = [req EXCEPT ![a] = After(a)] /\ UNCHANGED broken /\ Reading

\* A closed one fails the request, or the row, with an error.
UseClosed(a) ==
    /\ req[a].pc \in {"use", "newest"} /\ ~cache[req[a].name].open
    /\ req' = [req EXCEPT ![a] = After(a)]
    /\ broken' = (broken \/ a # Main)
    /\ SameFiles /\ Reading
Warmed(a) == Using(a, {"warmup"}) /\ Proceed(a) /\ SameFiles
ShowKeys(a) == Using(a, {"page"}) /\ Proceed(a) /\ Reads(a)
SearchKeys(a) == Using(a, {"search"}) /\ Proceed(a) /\ Reads(a)
Mutate(a) == Using(a, {"mutation"}) /\ Goto(a, "audit") /\ UNCHANGED broken /\ SameFiles /\ Reading

\* Cache.EventStats: one statement counts the events and reads the oldest seq
\* (NULL if there is none; `old` is then the seq it would have been),
EventStats(a) ==
    /\ Using(a, EventReaders)
    /\ \E f \in 1 .. MaxFiles :
           /\ ReadFrom(req[a].name, f)
           /\ LET e == Seen(req[a].name, f) IN
              req' = [req EXCEPT ![a].pc = "newest",
                          ![a].info = [old |-> e.old, new |-> 0, empty |-> e.old > e.new, from |-> f]]
    /\ UNCHANGED broken /\ Reading

\* another the last seq assigned, perhaps in another file.
LastAssignedSeq(a) ==
    /\ req[a].pc = "newest" /\ cache[req[a].name].open
    /\ \E f \in 1 .. MaxFiles :
           /\ ReadFrom(req[a].name, f)
           /\ req' = [req EXCEPT ![a].pc = "cursors", ![a].info.new = Seen(req[a].name, f).new,
                          ![a].info.from = IF @ = f THEN f ELSE 0]
    /\ UNCHANGED broken /\ Reading

\* logMutation, after the change.
Audit(a) == req[a].pc = "audit" /\ Done(a) /\ UNCHANGED broken /\ SameFiles /\ Reading

\* BuildCursorRows: the cursor is read after the statistics it is judged by. The
\* oldest event of a log that was empty is the one after the newest.
OldestBy(info) == IF info.empty THEN info.new + 1 ELSE info.old
LostByOne(info, cur) == cur < info.new /\ cur < OldestBy(info)
LostBy(info, cur) == cur < info.new /\ cur < OldestBy(info) - 1
Cursors(a) ==
    /\ req[a].pc = "cursors"
    /\ \/ /\ ~cache[req[a].name].open
          /\ broken' = TRUE /\ Goto(a, "fine") /\ SameFiles
       \/ /\ cache[req[a].name].open /\ UNCHANGED broken
          /\ \E f \in 1 .. MaxFiles :
                 /\ ReadFrom(req[a].name, f)
                 /\ req' = [req EXCEPT
                        ![a].pc = IF LostBy(req[a].info, Seen(req[a].name, f).cur) THEN "lost" ELSE "fine",
                        ![a].file = f]
    /\ Reading
Showing(a, kind) ==
    req[a].pc \in {"lost", "fine"} /\ req[a].kind = kind /\ Proceed(a) /\ SameFiles
ShowEvents(a) == Showing(a, "events")
ShowRow(a) == Showing(a, "dashboard")
ShowSeries(a) == Showing(a, "metrics")

-----------------------------------------------------------------------------
(* Shutdown (builtUIServer.Shutdown, Server.Close, Manager.Close).         *)

Rest == UNCHANGED <<disk, entry, mu, req, scraper, mix, fails, broken>>

\* A signal arrives: no more requests are accepted, those running are awaited.
SignalClosingAtOnce ==
    /\ phase = "serving"
    /\ phase' = "closing"
    /\ toClose' = Listed
    /\ UNCHANGED <<cache, handles, rushed>> /\ Rest
Signal ==
    /\ phase = "serving"
    /\ phase' = "draining"
    /\ UNCHANGED <<toClose, cache, handles, rushed>> /\ Rest

\* All have ended, or the deadline has passed.
Drained ==
    /\ phase = "draining"
    /\ phase' = "closing"
    /\ toClose' = Listed
    /\ rushed' = (Running # {})
    /\ UNCHANGED <<cache, handles>> /\ Rest

\* The listener fails (runUI): the databases are closed at once.
ServeFails ==
    /\ phase = "serving"
    /\ phase' = "closing"
    /\ toClose' = Listed
    /\ rushed' = TRUE
    /\ UNCHANGED <<cache, handles>> /\ Rest

\* One entry, under its mutex; its handle stays in the map.
CloseEntry(n) ==
    /\ phase = "closing" /\ n \in toClose /\ mu[n] = NoOne
    /\ toClose' = toClose \ {n}
    /\ handles' = [handles EXCEPT ![n] = IF cache[n].open THEN @ - 1 ELSE @]
    /\ cache' = [cache EXCEPT ![n].open = FALSE]
    /\ UNCHANGED <<phase, rushed>> /\ Rest

\* The process ends, with whatever requests are left.
Exit ==
    /\ phase = "closing" /\ toClose = {}
    /\ phase' = "exited"
    /\ UNCHANGED <<toClose, rushed, cache, handles>> /\ Rest

Step(a) ==
    \/ ListNames(a) \/ NextName(a) \/ Cache(a) \/ Stat(a) \/ Open(a) \/ ReadVersion(a)
    \/ Record(a) \/ UseClosed(a)
Handle(r) ==
    \/ Step(r) \/ Rescan(r) \/ Collect(r) \/ Warmed(r) \/ ShowKeys(r) \/ SearchKeys(r) \/ Mutate(r)
    \/ Audit(r) \/ EventStats(r) \/ LastAssignedSeq(r) \/ Cursors(r) \/ ShowEvents(r) \/ ShowRow(r) \/ ShowSeries(r)
Shutdown == Drained \/ Exit \/ \E n \in Names : CloseEntry(n)

Next ==
    \/ phase # "exited" /\ \E a \in Actors : Handle(a) \/ OpenFails(a)
    \/ \E r \in Requests : Serve(r)
    \/ phase # "exited" /\ \E p \in Paths : Application(p)
    \/ Signal \/ ServeFails \/ Shutdown

\* Goroutines run on; the deadline of Shutdown passes.
Fairness ==
    /\ \A a \in Actors : WF_vars(phase # "exited" /\ Handle(a))
    /\ WF_vars(Shutdown)

Spec == Init /\ [][Next]_vars /\ Fairness

-----------------------------------------------------------------------------
(* Properties.                                                             *)

\* However many requests ask for a database at once, it has at most one open
\* handle, and that is the one in the map or the one about to be put there: no
\* handle is opened twice, or lost when opening fails.
HandlesAreShared ==
    \A n \in Names :
        handles[n] = (IF cache[n].open THEN 1 ELSE 0)
                     + Cardinality({a \in Actors : req[a].name = n /\ req[a].pc \in {"version", "record"}})
        /\ handles[n] <= 1

\* A request never meets a closed handle, and the process ends with every
\* handle closed, unless Close did not wait for the requests.
ClosesAfterDraining ==
    /\ broken => rushed
    /\ phase = "exited" /\ ~rushed => \A n \in Names : handles[n] = 0

\* The schema version recorded in a file is never overwritten, and a name once
\* listed never comes to mean another file.
NothingIsReplaced ==
    [][/\ \A p \in Paths, i \in 1 .. MaxFiles :
             version[p][i] # 0 => version'[p][i] = version[p][i]
       /\ \A n \in Names : entry[n] # NoPath => entry'[n] = entry[n]]_vars

\* A cursor that the Events tab, the dashboard or a scrape reports as lost has
\* lost events, although the oldest seq, the newest and the cursor are read by
\* three statements and all may have moved on; provided all three read the same
\* file, and nothing was published between the first two if the first found the
\* log empty.
LostCursorsAreReal ==
    [][\A r \in Requests :
         /\ req[r].pc = "cursors" /\ req'[r].pc = "lost"
         /\ req'[r].file = req[r].info.from
         /\ req[r].info.empty => req[r].info.new < req[r].info.old
         => LET e == Seen(req[r].name, req'[r].file) IN e.cur + 1 < e.old]_vars

\* Once a shutdown has begun, the process ends: no request holds a mutex that
\* Close waits for forever.
ShutdownCompletes == phase \in {"draining", "closing"} ~> phase = "exited"

-----------------------------------------------------------------------------
(* The invariants behind the proofs (UIServerProofs).                      *)

Locking == {"stat", "open", "version", "record"}
AtDatabase == Locking \cup {"cache", "use", "audit", "newest", "cursors", "lost", "fine"}
Labels == AtDatabase \cup {"idle", "rescan", "collect", "names", "next", "done"}
Closing == {"closing", "exited"}
Logs == [old : Int, new : Int, cur : Int]
Activities ==
    [kind : AllKinds \cup {"none", "warmup"}, pc : Labels, name : Names \cup {NoPath},
     todo : SUBSET Names, file : Nat, info : [old : Int, new : Int, empty : BOOLEAN, from : Nat]]

TypeOK ==
    /\ file \in [Paths -> Nat] /\ created \in [Paths -> Nat]
    /\ version \in [Paths -> [1 .. MaxFiles -> Nat]]
    /\ events \in [Paths -> [1 .. MaxFiles -> Logs]]
    /\ entry \in [Names -> Paths \cup {NoPath}]
    /\ mu \in [Names -> Actors \cup {NoOne}]
    /\ cache \in [Names -> [file : Nat, open : BOOLEAN]]
    /\ req \in [Actors -> Activities]
    /\ scraper \in Actors \cup {NoOne}
    /\ phase \in {"warmup", "serving", "draining"} \cup Closing
    /\ toClose \subseteq Names
    /\ mix \subseteq AllKinds
    /\ steps \in Nat /\ fails \in Nat
    /\ handles \in [Names -> Int]
    /\ rushed \in BOOLEAN /\ broken \in BOOLEAN

\* A file that exists is the last one created at its path, and the bound leaves
\* room for one that Open creates.
FilesExist ==
    \A p \in Paths :
        /\ created[p] \in 1 .. MaxFiles /\ file[p] \in {0, created[p]}
        /\ file[p] = 0 => created[p] < MaxFiles

\* What an actor knows of a database: it is listed; while a handle is being
\* opened the actor has the mutex and the map is empty; a handle it uses is in
\* the map; the statistics it judges a cursor by are not ahead of retention.
ActorOK(a) ==
    /\ req[a].pc \in AtDatabase => req[a].name \in Listed
    /\ req[a].todo \subseteq Listed
    /\ req[a].pc \in Locking => mu[req[a].name] = a /\ cache[req[a].name] = NoHandle
    /\ req[a].pc \in {"version", "record"} => req[a].file \in 1 .. MaxFiles
    /\ req[a].pc \in {"use", "newest", "cursors"} => cache[req[a].name] # NoHandle
    /\ req[a].pc \in {"newest", "cursors"} =>
           /\ req[a].kind \in EventReaders /\ req[a].info.from \in 0 .. MaxFiles
           /\ req[a].info.from # 0 =>
                  req[a].info.old <= events[entry[req[a].name]][req[a].info.from].old
ActorsOK == \A a \in Actors : ActorOK(a)

\* A mutex is held by the one actor that is opening the database.
LocksAreHeld ==
    \A n \in Names : mu[n] # NoOne => req[mu[n]].name = n /\ req[mu[n]].pc \in Locking

\* A handle in the map is of a listed database and, until Close, open.
MapOK ==
    \A n \in Names :
        /\ cache[n].open => n \in Listed
        /\ \/ cache[n] = NoHandle
           \/ cache[n].file \in 1 .. MaxFiles /\ (cache[n].open \/ phase \in Closing)

\* The open handles of a database are the one in the map and the one that is
\* being opened.
Opening(a, n) == req[a].name = n /\ req[a].pc \in {"version", "record"}
InMap(n) == IF cache[n].open THEN 1 ELSE 0
BeingOpened(n) == IF \E a \in Actors : Opening(a, n) THEN 1 ELSE 0
HandleCounted == \A n \in Names : handles[n] = InMap(n) + BeingOpened(n)

\* The main goroutine warms up before the server serves. Close begins when no
\* request runs, or in a rush, and has closed the entries it has visited.
PhaseOK ==
    /\ req[Main].kind = "warmup" \/ req[Main].pc = "done"
    /\ phase # "warmup" => req[Main].pc = "done"
    /\ rushed => phase \in Closing
    /\ broken => rushed
    /\ phase = "exited" => toClose = {}
    /\ phase \in Closing /\ ~rushed =>
           /\ Running = {}
           /\ \A n \in Names \ toClose : ~cache[n].open

ServerInv ==
    FilesExist /\ ActorsOK /\ LocksAreHeld /\ MapOK /\ HandleCounted /\ PhaseOK
=============================================================================
