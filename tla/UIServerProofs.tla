--------------------------- MODULE UIServerProofs ---------------------------
(***************************************************************************)
(* Proofs about UIServer: for any number of requests, databases, files and *)
(* failures to open, a database has at most one open handle, a shutdown    *)
(* that waited for the requests leaves none, no request meets a closed     *)
(* one, schema versions and names are not replaced, and a cursor reported  *)
(* as lost has lost events.                                                *)
(***************************************************************************)
EXTENDS UIServer, FiniteSetTheorems, TLAPS

-----------------------------------------------------------------------------
(* What an actor is doing.                                                 *)

\* Being idle, being finished, and going on after a database are activities.
LEMMA Activity ==
  /\ Idle \in Activities /\ Finished \in Activities
  /\ Finished.pc = "done" /\ Finished.todo = {} /\ Finished.kind = "none"
<1>1. {"idle", "done"} \subseteq Labels
  BY DEF Labels
<1>2. NoInfo \in [old : Int, new : Int, empty : BOOLEAN, from : Nat]
  BY DEF NoInfo
<1>3. Idle \in Activities /\ Finished \in Activities
  BY <1>1, <1>2 DEF Idle, Finished, Activities
<1> QED
  BY <1>3 DEF Finished, Idle

\* After a database, a request for one is finished; the others go on with the
\* databases they have left.
LEMMA AfterType ==
  ASSUME TypeOK, NEW a \in Actors
  PROVE  /\ After(a) \in Activities /\ After(a).pc \in {"next", "done"}
         /\ After(a).todo \in {{}, req[a].todo}
         /\ After(a).kind = req[a].kind \/ After(a).pc = "done"
         /\ req[a].kind = "warmup" => After(a).kind = "warmup"
<1>1. req[a] \in Activities
  BY DEF TypeOK
<1>2. CASE req[a].kind \in OneDatabase
  BY <1>2, Activity DEF After, OneDatabase
<1>3. CASE req[a].kind \notin OneDatabase
  <2>1. "next" \in Labels
    BY DEF Labels
  <2>2. /\ After(a) = [kind |-> req[a].kind, pc |-> "next", name |-> NoPath,
                       todo |-> req[a].todo, file |-> 0, info |-> NoInfo]
    BY <1>1, <1>3 DEF After, Activities
  <2> QED
    BY <1>1, <2>1, <2>2 DEF Activities, NoInfo
<1> QED
  BY <1>2, <1>3

\* An actor that changes its own activity only.
LEMMA OwnActivity ==
  ASSUME TypeOK, NEW a \in Actors, NEW v \in Activities, req' = [req EXCEPT ![a] = v]
  PROVE  /\ req' \in [Actors -> Activities] /\ req'[a] = v
         /\ \A d \in Actors \ {a} : req'[d] = req[d]
BY DEF TypeOK

\* Goto changes where the actor is, and nothing else of its activity.
LEMMA GotoActivity ==
  ASSUME TypeOK, NEW a \in Actors, NEW l \in Labels, Goto(a, l)
  PROVE  /\ req' \in [Actors -> Activities]
         /\ req'[a] = [req[a] EXCEPT !.pc = l]
         /\ req'[a].pc = l /\ req'[a].name = req[a].name /\ req'[a].kind = req[a].kind
         /\ req'[a].todo = req[a].todo /\ req'[a].file = req[a].file
         /\ \A d \in Actors \ {a} : req'[d] = req[d]
<1>1. req \in [Actors -> Activities] /\ req[a] \in Activities
  BY DEF TypeOK
<1>2. [req[a] EXCEPT !.pc = l] \in Activities
  BY <1>1 DEF Activities
<1>3. req' = [req EXCEPT ![a] = [req[a] EXCEPT !.pc = l]]
  BY DEF Goto
<1>4. req'[a] = [req[a] EXCEPT !.pc = l]
  BY <1>1, <1>3
<1> QED
  BY <1>1, <1>2, <1>3, <1>4, OwnActivity DEF Activities

-----------------------------------------------------------------------------
(* Files.                                                                  *)

\* A connection leaves a file at its path, the last one created.
LEMMA ConnectFiles ==
  ASSUME TypeOK, FilesExist, NEW p \in Paths, Connect(p)
  PROVE  /\ FilesExist' /\ file' \in [Paths -> Nat] /\ created' \in [Paths -> Nat]
         /\ file'[p] \in 1 .. MaxFiles
<1>0. file \in [Paths -> Nat] /\ created \in [Paths -> Nat] /\ MaxFiles \in Nat
  BY UIServerAssumption DEF TypeOK
<1>1. /\ created[p] \in 1 .. MaxFiles /\ file[p] \in {0, created[p]}
      /\ file[p] = 0 => created[p] < MaxFiles
  BY DEF FilesExist
<1>2. PICK c \in 1 .. MaxFiles :
        created' = [created EXCEPT ![p] = c] /\ file' = [file EXCEPT ![p] = c]
  <2>1. CASE file[p] = 0
    <3>1. created[p] + 1 \in 1 .. MaxFiles
      BY <1>0, <1>1, <2>1
    <3>2. created' = [created EXCEPT ![p] = created[p] + 1]
      BY <2>1 DEF Connect
    <3>3. created'[p] = created[p] + 1
      BY <1>0, <3>2
    <3>4. file' = [file EXCEPT ![p] = created[p] + 1]
      BY <3>3 DEF Connect
    <3> QED
      BY <3>1, <3>2, <3>4
  <2>2. CASE file[p] # 0
    BY <1>0, <1>1, <2>2 DEF Connect
  <2> QED
    BY <2>1, <2>2
<1>3. created'[p] = c /\ file'[p] = c /\ c \in Nat /\ c # 0
  BY <1>0, <1>2
<1>4. \A q \in Paths \ {p} : created'[q] = created[q] /\ file'[q] = file[q]
  BY <1>0, <1>2
<1>5. FilesExist'
  BY <1>3, <1>4 DEF FilesExist
<1> QED
  BY <1>0, <1>2, <1>3, <1>5

\* The files stay what they are.
LEMMA SameFilesExist ==
  ASSUME TypeOK, FilesExist, SameFiles
  PROVE  FilesExist' /\ file' \in [Paths -> Nat] /\ created' \in [Paths -> Nat]
BY DEF SameFiles, TypeOK, FilesExist

\* Recording a version where there is none changes no other.
LEMMA RecordedVersion ==
  ASSUME TypeOK, NEW p \in Paths, NEW i \in 1 .. MaxFiles,
         version' = [version EXCEPT ![p][i] = IF @ = 0 THEN Supported ELSE @]
  PROVE  /\ version' \in [Paths -> [1 .. MaxFiles -> Nat]]
         /\ \A q \in Paths, j \in 1 .. MaxFiles :
               version[q][j] # 0 => version'[q][j] = version[q][j]
<1>1. version \in [Paths -> [1 .. MaxFiles -> Nat]] /\ version[p] \in [1 .. MaxFiles -> Nat]
  BY DEF TypeOK
<1>2. PICK v : v = IF version[p][i] = 0 THEN Supported ELSE version[p][i]
  OBVIOUS
<1>3. v \in Nat /\ (version[p][i] # 0 => v = version[p][i])
  BY <1>1, <1>2 DEF Supported
<1>4. PICK w : w = [version[p] EXCEPT ![i] = v]
  OBVIOUS
<1>5. /\ w \in [1 .. MaxFiles -> Nat] /\ w[i] = v
      /\ \A j \in 1 .. MaxFiles \ {i} : w[j] = version[p][j]
  BY <1>1, <1>3, <1>4
<1>6. version' = [version EXCEPT ![p] = w]
  BY <1>2, <1>4
<1> QED
  BY <1>1, <1>3, <1>5, <1>6

-----------------------------------------------------------------------------
(* A step of one actor.                                                    *)

\* What a step leaves of what another actor d relies on.
Keeps(d) ==
    /\ \A n \in Listed : entry'[n] = entry[n]
    /\ \A n \in Names : cache[n] # NoHandle => cache'[n] # NoHandle
    /\ \A n \in Names : mu[n] = d => mu'[n] = d /\ (cache[n] = NoHandle => cache'[n] = NoHandle)
    /\ \A p \in Paths, i \in 1 .. MaxFiles : events[p][i].old <= events'[p][i].old

\* Events that nobody touches are no older than they were.
LEMMA EventsSame ==
  ASSUME TypeOK, UNCHANGED events, NEW p \in Paths, NEW i \in 1 .. MaxFiles
  PROVE  events[p][i].old <= events'[p][i].old
<1>1. events[p] \in [1 .. MaxFiles -> Logs]
  BY DEF TypeOK
<1>2. events[p][i] \in Logs
  BY <1>1
<1> QED
  BY <1>2 DEF Logs

\* An actor that does not move still knows what it knew.
LEMMA OtherOK ==
  ASSUME TypeOK, TypeOK', NEW d \in Actors, ActorOK(d), req'[d] = req[d], Keeps(d)
  PROVE  ActorOK(d)'
<1>0. req[d] \in Activities
  BY DEF TypeOK
<1>1. Listed \subseteq Listed'
  BY DEF Keeps, Listed
<1>2. ASSUME req[d].pc \in AtDatabase
      PROVE  /\ req[d].name \in Names /\ entry'[req[d].name] = entry[req[d].name]
             /\ entry[req[d].name] \in Paths
  BY <1>2 DEF ActorOK, Listed, Keeps, TypeOK
<1>3. Locking \subseteq AtDatabase /\ {"use", "newest", "cursors"} \subseteq AtDatabase
  BY DEF AtDatabase
<1>4. req[d].pc \in Locking => mu'[req[d].name] = d /\ cache'[req[d].name] = NoHandle
  BY <1>2, <1>3 DEF ActorOK, Keeps
<1>5. req[d].pc \in {"use", "newest", "cursors"} => cache'[req[d].name] # NoHandle
  BY <1>2, <1>3 DEF ActorOK, Keeps
<1>6. ASSUME req[d].pc \in {"newest", "cursors"}, req[d].info.from # 0
      PROVE  req[d].info.old <= events'[entry'[req[d].name]][req[d].info.from].old
  <2> DEFINE p == entry[req[d].name]
             i == req[d].info.from
  <2>1. p \in Paths /\ i \in 1 .. MaxFiles /\ entry'[req[d].name] = p
    <3>1. i \in 0 .. MaxFiles /\ i # 0 /\ MaxFiles \in Nat
      BY <1>6, UIServerAssumption DEF ActorOK
    <3> QED
      BY <1>2, <1>3, <1>6, <3>1
  <2>5. events[p][i] \in Logs /\ events'[p][i] \in Logs
    <3> HIDE DEF p, i
    <3>1. events[p] \in [1 .. MaxFiles -> Logs] /\ events'[p] \in [1 .. MaxFiles -> Logs]
      BY <2>1 DEF TypeOK
    <3> QED
      BY <2>1, <3>1
  <2>2. events[p][i].old \in Int /\ events'[p][i].old \in Int /\ req[d].info.old \in Int
    BY <1>0, <2>5 DEF Logs, Activities
  <2>3. events[p][i].old <= events'[p][i].old
    BY <2>1 DEF Keeps
  <2>4. req[d].info.old <= events[p][i].old
    BY <1>6 DEF ActorOK
  <2> HIDE DEF p, i
  <2>6. req[d].info.old <= events'[p][i].old
    BY <2>2, <2>3, <2>4
  <2> QED
    BY <2>1, <2>6 DEF i
<1> QED
  BY <1>1, <1>4, <1>5, <1>6 DEF ActorOK

\* An actor away from databases knows nothing that could be wrong.
LEMMA AwayOK ==
  ASSUME TypeOK', NEW a \in Actors, req'[a].pc \notin AtDatabase,
         req'[a].todo \subseteq Listed, \A n \in Listed : entry'[n] = entry[n]
  PROVE  ActorOK(a)'
<1>1. Listed \subseteq Listed'
  BY DEF Listed
<1>2. Locking \subseteq AtDatabase /\ {"use", "newest", "cursors", "version", "record"} \subseteq AtDatabase
  BY DEF AtDatabase, Locking
<1> QED
  BY <1>1, <1>2 DEF ActorOK

\* A step of a: it takes and gives back mutexes, puts a handle into an empty
\* place of the map, and meets a closed handle only after a rushed Close.
Moves(a) ==
    /\ \A d \in Actors \ {a} : req'[d] = req[d]
    /\ \A n \in Listed : entry'[n] = entry[n]
    /\ \A n \in Names :
          \/ mu'[n] = mu[n] /\ (mu[n] = a => req'[a].name = n /\ req'[a].pc \in Locking)
          \/ mu[n] \in {a, NoOne} /\ mu'[n] = NoOne
          \/ mu[n] = NoOne /\ mu'[n] = a /\ req'[a].name = n /\ req'[a].pc \in Locking
    /\ \A n \in Names :
          \/ cache'[n] = cache[n]
          \/ /\ cache[n] = NoHandle /\ mu[n] = a /\ n \in Listed
             /\ cache'[n].open /\ cache'[n].file \in 1 .. MaxFiles
    /\ \A p \in Paths, i \in 1 .. MaxFiles : events[p][i].old <= events'[p][i].old
    /\ req[a].pc # "done" /\ (req[a].pc = "idle" => phase = "serving")
    /\ a = Main => req'[a].kind = "warmup" \/ req'[a].pc = "done"
    /\ UNCHANGED <<toClose, rushed>>
    /\ \/ UNCHANGED phase
       \/ a = Main /\ phase' = "serving" /\ req'[a].pc = "done"
    /\ broken' => broken \/ rushed

\* Such a step keeps the invariants, if it keeps what a knows.
LEMMA MovesKeep ==
  ASSUME TypeOK, ServerInv, TypeOK', NEW a \in Actors, Moves(a), ActorOK(a)'
  PROVE  ActorsOK' /\ LocksAreHeld' /\ MapOK' /\ PhaseOK'
<1>0. /\ NoOne \notin Actors /\ Main \in Actors
      /\ \A n \in Names : cache[n].file \in 1 .. MaxFiles => cache[n] # NoHandle
      /\ \A n \in Names : cache'[n].file \in 1 .. MaxFiles => cache'[n] # NoHandle
  BY UIServerAssumption DEF Actors, NoHandle
<1>1. ActorsOK'
  <2> SUFFICES ASSUME NEW d \in Actors, d # a PROVE ActorOK(d)'
    BY DEF ActorsOK
  <2>1. Keeps(d)
    BY <1>0 DEF Moves, Keeps
  <2> QED
    BY <2>1, OtherOK DEF ServerInv, ActorsOK, Moves
<1>2. LocksAreHeld'
  <2> SUFFICES ASSUME NEW n \in Names, mu'[n] # NoOne
               PROVE  req'[mu'[n]].name = n /\ req'[mu'[n]].pc \in Locking
    BY DEF LocksAreHeld
  <2>1. CASE mu'[n] = a
    BY <1>0, <2>1 DEF Moves
  <2>2. CASE mu'[n] # a
    <3>1. mu'[n] = mu[n] /\ mu[n] \in Actors \ {a}
      BY <2>2 DEF Moves, TypeOK
    <3> QED
      BY <3>1 DEF Moves, ServerInv, LocksAreHeld
  <2> QED
    BY <2>1, <2>2
<1>3. MapOK'
  <2>1. \A n \in Listed : n \in Listed'
    BY DEF Moves, Listed
  <2>2. phase \in Closing => phase' \in Closing
    BY <1>0 DEF Moves, ServerInv, PhaseOK, Closing
  <2> QED
    BY <2>1, <2>2 DEF Moves, ServerInv, MapOK
<1>4. PhaseOK'
  <2>1. a = Main => phase = "warmup"
    BY DEF Moves, ServerInv, PhaseOK
  <2>2. req'[Main].kind = "warmup" \/ req'[Main].pc = "done"
    BY <1>0 DEF Moves, ServerInv, PhaseOK
  <2>3. phase' # "warmup" => req'[Main].pc = "done"
    BY <1>0, <2>1 DEF Moves, ServerInv, PhaseOK
  <2>4. phase' \in Closing => phase' = phase
    BY DEF Moves, Closing
  <2>5. rushed' => phase' \in Closing
    BY <2>1 DEF Moves, ServerInv, PhaseOK, Closing
  <2>6. broken' => rushed'
    BY DEF Moves, ServerInv, PhaseOK
  <2>7. phase' = "exited" => toClose' = {}
    BY DEF Moves, ServerInv, PhaseOK
  <2>8. ~(phase' \in Closing /\ ~rushed')
    <3> SUFFICES ASSUME phase' \in Closing, ~rushed' PROVE FALSE
      OBVIOUS
    <3>1. phase \in Closing /\ ~rushed /\ phase # "serving" /\ phase # "warmup"
      BY <2>4 DEF Moves, Closing
    <3>2. Running = {}
      BY <3>1 DEF ServerInv, PhaseOK
    <3>3. a \in Requests
      BY <2>1, <3>1 DEF Actors
    <3> QED
      BY <3>1, <3>2, <3>3 DEF Moves, Running
  <2> QED
    BY <2>2, <2>3, <2>5, <2>6, <2>7, <2>8 DEF PhaseOK
<1> QED
  BY <1>1, <1>2, <1>3, <1>4

\* The count of handles, when no handle is opened or closed.
LEMMA CountKept ==
  ASSUME HandleCounted, NEW a \in Actors, \A d \in Actors \ {a} : req'[d] = req[d],
         UNCHANGED <<cache, handles>>,
         \A n \in Names : Opening(a, n)' <=> Opening(a, n)
  PROVE  HandleCounted'
<1>1. \A d \in Actors, n \in Names : Opening(d, n)' <=> Opening(d, n)
  BY DEF Opening
<1>2. \A n \in Names : InMap(n)' = InMap(n) /\ BeingOpened(n)' = BeingOpened(n)
  BY <1>1 DEF InMap, BeingOpened
<1> QED
  BY <1>2 DEF HandleCounted

\* The same, when only the handles of one database n change.
LEMMA CountOthers ==
  ASSUME HandleCounted, NEW n \in Names,
         \A m \in Names \ {n} : /\ handles'[m] = handles[m] /\ cache'[m] = cache[m]
                                /\ \A d \in Actors : Opening(d, m)' <=> Opening(d, m),
         handles'[n] = InMap(n)' + BeingOpened(n)'
  PROVE  HandleCounted'
<1>1. \A m \in Names \ {n} : InMap(m)' = InMap(m)
  BY DEF InMap
<1>2. \A m \in Names \ {n} : BeingOpened(m)' = BeingOpened(m)
  BY DEF BeingOpened
<1> QED
  BY <1>1, <1>2 DEF HandleCounted

-----------------------------------------------------------------------------
(* Steps that leave the manager alone.                                     *)

\* v is what a does next: no handle is opened, closed or stored.
Plain(a, v) ==
    /\ req' = [req EXCEPT ![a] = v]
    /\ UNCHANGED <<version, events, steps, entry, mu, cache, handles, fails, mix, toClose, rushed>>
    /\ scraper' \in Actors \cup {NoOne}
    /\ SameFiles \/ \E p \in Paths : Connect(p)
    /\ broken' \in BOOLEAN /\ (broken' => broken \/ rushed)
    /\ \/ UNCHANGED phase
       \/ a = Main /\ phase' = "serving" /\ v.pc = "done"
    /\ req[a].pc \notin Locking /\ req[a].pc # "done" /\ (req[a].pc = "idle" => phase = "serving")
    /\ v.pc \notin Locking
    /\ a = Main => v.kind = "warmup" \/ v.pc = "done"
    /\ v.pc \in AtDatabase => v.name \in Listed
    /\ v.todo \subseteq Listed
    /\ v.pc \in {"use", "newest", "cursors"} => cache[v.name] # NoHandle
    /\ v.pc \in {"newest", "cursors"} =>
           /\ v.kind \in EventReaders /\ v.info.from \in 0 .. MaxFiles
           /\ v.info.from # 0 => v.info.old <= events[entry[v.name]][v.info.from].old

\* Such a step keeps the invariant.
LEMMA PlainKeeps ==
  ASSUME TypeOK, ServerInv, NEW a \in Actors, NEW v \in Activities, Plain(a, v)
  PROVE  TypeOK' /\ ServerInv'
<1>0. {"version", "record"} \subseteq Locking
  BY DEF Locking
<1>1. /\ req' \in [Actors -> Activities] /\ req'[a] = v
      /\ \A d \in Actors \ {a} : req'[d] = req[d]
  BY OwnActivity DEF Plain
<1>2. FilesExist' /\ file' \in [Paths -> Nat] /\ created' \in [Paths -> Nat]
  BY ConnectFiles, SameFilesExist DEF Plain, ServerInv
<1>3. phase' \in {"warmup", "serving", "draining"} \cup Closing
  BY DEF Plain, TypeOK
<1>4. rushed' \in BOOLEAN /\ broken' \in BOOLEAN
  BY Zenon DEF Plain, TypeOK
<1>5. TypeOK'
  BY <1>1, <1>2, <1>3, <1>4 DEF Plain, TypeOK
<1>6. \A p \in Paths, i \in 1 .. MaxFiles : events[p][i].old <= events'[p][i].old
  BY EventsSame DEF Plain
<1>7. \A n \in Names : mu[n] # a
  BY UIServerAssumption DEF Plain, ServerInv, LocksAreHeld
<1>8. Moves(a)
  BY <1>1, <1>6, <1>7 DEF Plain, Moves
<1>9. ActorOK(a)'
  BY <1>0, <1>1 DEF Plain, ActorOK, Listed
<1>10. HandleCounted'
  <2>1. \A n \in Names : ~Opening(a, n)' /\ ~Opening(a, n)
    BY <1>0, <1>1 DEF Plain, Opening
  <2> QED
    BY <1>1, <2>1, CountKept DEF Plain, ServerInv
<1> QED
  BY <1>2, <1>5, <1>8, <1>9, <1>10, MovesKeep DEF ServerInv

\* A request is routed.
LEMMA ServeKeeps ==
  ASSUME TypeOK, ServerInv, NEW r \in Requests, Serve(r)
  PROVE  TypeOK' /\ ServerInv'
<1>0. r \in Actors /\ r # Main
  BY UIServerAssumption DEF Actors
<1>1. PICK k \in mix, n \in Names :
        /\ phase = "serving" /\ req[r].pc = "idle"
        /\ k \in OneDatabase => n \in Listed
        /\ req' = [req EXCEPT ![r] = [Idle EXCEPT
               !.kind = k, !.name = IF k \in OneDatabase THEN n ELSE NoPath, !.pc = FirstStep(k)]]
        /\ UNCHANGED <<disk, manager, scraper, fails, broken>> /\ Server
  BY DEF Serve
<1> DEFINE v == [kind |-> k, pc |-> FirstStep(k), name |-> IF k \in OneDatabase THEN n ELSE NoPath,
                 todo |-> {}, file |-> 0, info |-> NoInfo]
<1>2. req' = [req EXCEPT ![r] = v]
  <2>1. PICK w : w = [Idle EXCEPT !.kind = k, !.name = IF k \in OneDatabase THEN n ELSE NoPath,
                                  !.pc = FirstStep(k)]
    OBVIOUS
  <2>2. w = v
    BY <2>1 DEF Idle
  <2> QED
    BY <1>1, <2>1, <2>2
<1>3. k \in AllKinds
  BY DEF TypeOK
<1>4. IF k \in OneDatabase THEN FirstStep(k) = "cache"
      ELSE FirstStep(k) \in {"rescan", "collect", "names"}
  <2>1. CASE k \in OneDatabase
    BY <2>1 DEF FirstStep, OneDatabase
  <2>2. CASE k = "dashboard"
    BY <2>2 DEF FirstStep, OneDatabase
  <2>3. CASE k = "metrics"
    BY <2>3 DEF FirstStep, OneDatabase
  <2>4. CASE k = "search"
    BY <2>4 DEF FirstStep, OneDatabase
  <2> QED
    BY <1>3, <2>1, <2>2, <2>3, <2>4 DEF AllKinds, OneDatabase
<1>5. FirstStep(k) \in Labels /\ FirstStep(k) \notin Locking \cup {"use", "newest", "cursors"}
  BY <1>4 DEF Labels, AtDatabase, Locking
<1>6. FirstStep(k) \in AtDatabase => k \in OneDatabase
  BY <1>4 DEF AtDatabase, Locking
<1>7. v \in Activities
  BY <1>3, <1>5 DEF Activities, NoInfo
<1>8. /\ v.pc = FirstStep(k) /\ v.todo = {}
      /\ v.name = IF k \in OneDatabase THEN n ELSE NoPath
  OBVIOUS
<1> HIDE DEF v
<1>9. broken' \in BOOLEAN /\ (broken' => broken)
  BY <1>1, Zenon DEF TypeOK
<1>10. Plain(r, v)
  <2>1. "idle" \notin Locking
    BY DEF Locking
  <2> QED
    BY <1>0, <1>1, <1>2, <1>5, <1>6, <1>8, <1>9, <2>1
       DEF Plain, disk, manager, Server, SameFiles, TypeOK
<1> QED
  BY <1>0, <1>7, <1>10, PlainKeeps

\* A scrape takes the collector, or serves the last result again.
LEMMA CollectKeeps ==
  ASSUME TypeOK, ServerInv, NEW a \in Actors, Collect(a)
  PROVE  TypeOK' /\ ServerInv'
<1>0. req[a] \in Activities /\ req[a].todo \subseteq Listed
  BY DEF TypeOK, ServerInv, ActorsOK, ActorOK
<1>1. /\ req[a].pc = "collect" /\ UNCHANGED <<disk, manager, fails, broken>> /\ Server
      /\ scraper' \in {a, scraper}
  BY DEF Collect
<1>2. PICK v \in Activities :
        /\ req' = [req EXCEPT ![a] = v]
        /\ v.pc \in {"names", "done"} /\ v.todo \subseteq Listed
        /\ v.pc = "done" \/ v.kind = req[a].kind
  <2>1. CASE Goto(a, "names")
    <3>1. "names" \in Labels
      BY DEF Labels
    <3> DEFINE w == [req[a] EXCEPT !.pc = "names"]
    <3>2. /\ w \in Activities /\ w.pc = "names" /\ w.todo = req[a].todo
          /\ w.kind = req[a].kind
      BY <1>0, <3>1 DEF Activities
    <3>3. req' = [req EXCEPT ![a] = w]
      BY <2>1 DEF Goto
    <3> HIDE DEF w
    <3> QED
      BY <1>0, <3>2, <3>3
  <2>2. CASE Done(a)
    BY <2>2, Activity DEF Done
  <2> QED
    BY <2>1, <2>2 DEF Collect
<1>3. a = Main => req[a].kind = "warmup"
  BY <1>1 DEF ServerInv, PhaseOK
<1>4. broken' \in BOOLEAN /\ (broken' => broken)
  BY <1>1, Zenon DEF TypeOK
<1>5. Plain(a, v)
  <2>1. {"collect", "names", "done"} \cap AtDatabase = {} /\ Locking \subseteq AtDatabase
    BY DEF AtDatabase, Locking
  <2>2. scraper' \in Actors \cup {NoOne}
    BY <1>1 DEF TypeOK
  <2> QED
    BY <1>1, <1>2, <1>3, <1>4, <2>1, <2>2
       DEF Plain, disk, manager, Server, SameFiles
<1> QED
  BY <1>5, PlainKeeps

\* The databases are listed.
LEMMA ListNamesKeeps ==
  ASSUME TypeOK, ServerInv, NEW a \in Actors, ListNames(a)
  PROVE  TypeOK' /\ ServerInv'
<1>0. req[a] \in Activities /\ req \in [Actors -> Activities]
  BY DEF TypeOK
<1>1. /\ req[a].pc = "names" /\ UNCHANGED <<disk, manager, scraper, fails, broken>> /\ Server
      /\ req' = [req EXCEPT ![a].todo = Listed, ![a].pc = "next"]
  BY DEF ListNames
<1>2. PICK v : v = [req[a] EXCEPT !.todo = Listed, !.pc = "next"]
  OBVIOUS
<1>3. req' = [req EXCEPT ![a] = v]
  BY <1>0, <1>1, <1>2
<1>4. /\ v \in Activities /\ v.pc = "next" /\ v.todo = Listed /\ v.kind = req[a].kind
  <2>1. Listed \in SUBSET Names /\ "next" \in Labels
    BY DEF Listed, Labels
  <2> QED
    BY <1>0, <1>2, <2>1 DEF Activities
<1>5. a = Main => req[a].kind = "warmup"
  BY <1>1 DEF ServerInv, PhaseOK
<1>6. broken' \in BOOLEAN /\ (broken' => broken)
  BY <1>1, Zenon DEF TypeOK
<1>7. Plain(a, v)
  <2>1. {"names", "next"} \cap AtDatabase = {} /\ Locking \subseteq AtDatabase
        /\ {"use", "newest", "cursors"} \subseteq AtDatabase
    BY DEF AtDatabase, Locking
  <2> QED
    BY <1>1, <1>3, <1>4, <1>5, <1>6, <2>1 DEF Plain, disk, manager, Server, SameFiles, TypeOK
<1> QED
  BY <1>4, <1>7, PlainKeeps

\* One database after the other, until none is left.
LEMMA NextNameKeeps ==
  ASSUME TypeOK, ServerInv, NEW a \in Actors, NextName(a)
  PROVE  TypeOK' /\ ServerInv'
<1>0. /\ req[a] \in Activities /\ req \in [Actors -> Activities]
      /\ req[a].todo \subseteq Listed /\ Listed \subseteq Names
  BY DEF TypeOK, ServerInv, ActorsOK, ActorOK, Listed
<1>1. /\ req[a].pc = "next"
      /\ UNCHANGED <<disk, manager, toClose, rushed, mix, fails, broken>>
  BY DEF NextName
<1>2. {"next", "done"} \cap AtDatabase = {} /\ "cache" \notin Locking \cup {"use", "newest", "cursors"}
      /\ Locking \subseteq AtDatabase /\ {"use", "newest", "cursors"} \subseteq AtDatabase
      /\ "cache" \in Labels
  BY DEF AtDatabase, Locking, Labels
<1>3. broken' \in BOOLEAN /\ (broken' => broken)
  BY <1>1, Zenon DEF TypeOK
<1>4. ASSUME NEW n \in req[a].todo, UNCHANGED <<scraper, phase>>,
             req' = [req EXCEPT ![a].name = n, ![a].todo = @ \ {n}, ![a].pc = "cache"]
      PROVE  TypeOK' /\ ServerInv'
  <2>1. PICK v : v = [req[a] EXCEPT !.name = n, !.todo = req[a].todo \ {n}, !.pc = "cache"]
    OBVIOUS
  <2>2. req' = [req EXCEPT ![a] = v]
    BY <1>0, <1>4, <2>1 DEF Activities
  <2>3. /\ v \in Activities /\ v.pc = "cache" /\ v.todo \subseteq Listed
        /\ v.name = n /\ v.kind = req[a].kind
    <3>1. req[a].todo \ {n} \in SUBSET Names /\ n \in Names
      BY <1>0
    <3> QED
      BY <1>0, <1>2, <2>1, <3>1 DEF Activities
  <2>4. a = Main => req[a].kind = "warmup"
    BY <1>1 DEF ServerInv, PhaseOK
  <2>5. Plain(a, v)
    BY <1>0, <1>1, <1>2, <1>3, <1>4, <2>2, <2>3, <2>4
       DEF Plain, disk, manager, SameFiles, TypeOK
  <2> QED
    BY <2>3, <2>5, PlainKeeps
<1>5. ASSUME Done(a), scraper' = (IF scraper = a THEN NoOne ELSE scraper),
             phase' = (IF a = Main THEN "serving" ELSE phase)
      PROVE  TypeOK' /\ ServerInv'
  <2>1. Plain(a, Finished)
    <3>1. scraper' \in Actors \cup {NoOne}
      BY <1>5 DEF TypeOK
    <3> QED
      BY <1>0, <1>1, <1>2, <1>3, <1>5, <3>1, Activity
         DEF Plain, Done, disk, manager, SameFiles
  <2> QED
    BY <2>1, Activity, PlainKeeps
<1> QED
  BY <1>4, <1>5 DEF NextName

\* The databases a request is at.
LEMMA AtListed ==
  ASSUME TypeOK, ServerInv, NEW a \in Actors, req[a].pc \in AtDatabase
  PROVE  req[a].name \in Names /\ req[a].name \in Listed /\ entry[req[a].name] \in Paths
BY DEF TypeOK, ServerInv, ActorsOK, ActorOK, Listed

\* A read leaves the files alone, or opens a connection at the database's path.
LEMMA ReadFromFiles ==
  ASSUME TypeOK, NEW n \in Listed, NEW f, ReadFrom(n, f)
  PROVE  SameFiles \/ \E p \in Paths : Connect(p)
BY DEF ReadFrom, Listed, TypeOK

\* An actor is done with a database.
LEMMA LeaveKeeps ==
  ASSUME TypeOK, ServerInv, NEW a \in Actors, req[a].pc \in AtDatabase \ Locking,
         req' = [req EXCEPT ![a] = After(a)], Reading,
         SameFiles \/ \E p \in Paths : Connect(p),
         broken' \in BOOLEAN, broken' => broken \/ rushed
  PROVE  TypeOK' /\ ServerInv'
<1>1. /\ After(a) \in Activities /\ After(a).pc \in {"next", "done"}
      /\ After(a).todo \subseteq Listed
      /\ a = Main => After(a).kind = "warmup" \/ After(a).pc = "done"
  <2>1. req[a].todo \subseteq Listed
    BY DEF ServerInv, ActorsOK, ActorOK
  <2>2. req[a].pc # "done"
    BY DEF AtDatabase, Locking
  <2>3. a = Main => req[a].kind = "warmup"
    BY <2>2 DEF ServerInv, PhaseOK
  <2> QED
    BY <2>1, <2>3, AfterType
<1>2. {"next", "done", "idle"} \cap AtDatabase = {} /\ Locking \subseteq AtDatabase
      /\ {"use", "newest", "cursors"} \subseteq AtDatabase
  BY DEF AtDatabase, Locking
<1>3. Plain(a, After(a))
  BY <1>1, <1>2 DEF Plain, Reading, manager, Server, TypeOK
<1> QED
  BY <1>1, <1>3, PlainKeeps

\* A page, a row of a search, the warm-up of a handle, and what is shown of
\* events; a closed handle is met only if Close did not wait.
LEMMA ProceedKeeps ==
  ASSUME TypeOK, ServerInv, NEW a \in Actors,
         \/ Warmed(a) \/ ShowKeys(a) \/ SearchKeys(a) \/ UseClosed(a)
         \/ ShowEvents(a) \/ ShowRow(a) \/ ShowSeries(a)
  PROVE  TypeOK' /\ ServerInv'
<1>0. {"use", "newest", "lost", "fine"} \subseteq AtDatabase \ Locking
  BY DEF AtDatabase, Locking
<1>1. CASE \/ Warmed(a) \/ ShowKeys(a) \/ SearchKeys(a)
           \/ ShowEvents(a) \/ ShowRow(a) \/ ShowSeries(a)
  <2>1. req[a].pc \in {"use", "lost", "fine"} /\ Proceed(a) /\ (SameFiles \/ Reads(a))
    BY <1>1 DEF Warmed, ShowKeys, SearchKeys, ShowEvents, ShowRow, ShowSeries, Showing, Using
  <2>2. SameFiles \/ \E p \in Paths : Connect(p)
    BY <1>0, <2>1, AtListed, ReadFromFiles DEF Reads
  <2>3. req' = [req EXCEPT ![a] = After(a)] /\ Reading /\ UNCHANGED broken
    BY <2>1 DEF Proceed
  <2>4. broken' \in BOOLEAN /\ (broken' => broken)
    BY <2>3, Zenon DEF TypeOK
  <2> QED
    BY <1>0, <2>1, <2>2, <2>3, <2>4, LeaveKeeps
<1>2. CASE UseClosed(a)
  <2>1. /\ req[a].pc \in {"use", "newest"} /\ ~cache[req[a].name].open
        /\ req' = [req EXCEPT ![a] = After(a)] /\ SameFiles /\ Reading
        /\ broken' = (broken \/ a # Main)
    BY <1>2 DEF UseClosed
  <2>2. broken' \in BOOLEAN
    BY <2>1
  <2>3. phase \in Closing
    BY <1>0, <2>1, AtListed DEF ServerInv, ActorsOK, ActorOK, MapOK
  <2>4. a # Main => rushed
    <3> SUFFICES ASSUME a \in Requests PROVE rushed
      BY DEF Actors
    <3>1. a \in Running
      BY <2>1 DEF Running
    <3> QED
      BY <2>3, <3>1 DEF ServerInv, PhaseOK
  <2> QED
    BY <1>0, <2>1, <2>2, <2>4, LeaveKeeps
<1> QED
  BY <1>1, <1>2

\* A mutation is followed by its audit record.
LEMMA MutateKeeps ==
  ASSUME TypeOK, ServerInv, NEW a \in Actors, Mutate(a) \/ Audit(a)
  PROVE  TypeOK' /\ ServerInv'
<1>0. /\ {"use", "audit"} \subseteq AtDatabase \ Locking /\ "audit" \in Labels
      /\ "done" \notin AtDatabase /\ "idle" \notin AtDatabase /\ Locking \subseteq AtDatabase
      /\ {"use", "newest", "cursors"} \subseteq AtDatabase
  BY DEF AtDatabase, Locking, Labels
<1>1. req[a] \in Activities /\ req[a].todo \subseteq Listed
  BY DEF TypeOK, ServerInv, ActorsOK, ActorOK
<1>2. CASE Mutate(a)
  <2>1. /\ req[a].pc = "use" /\ Goto(a, "audit") /\ UNCHANGED broken /\ SameFiles /\ Reading
    BY <1>2 DEF Mutate, Using
  <2>2. PICK v : v = [req[a] EXCEPT !.pc = "audit"]
    OBVIOUS
  <2>3. req' = [req EXCEPT ![a] = v]
    BY <2>1, <2>2 DEF Goto
  <2>4. /\ v \in Activities /\ v.pc = "audit" /\ v.name = req[a].name
        /\ v.todo = req[a].todo /\ v.kind = req[a].kind
    BY <1>0, <1>1, <2>2 DEF Activities
  <2>5. req[a].name \in Listed /\ (a = Main => req[a].kind = "warmup")
    BY <1>0, <2>1, AtListed DEF ServerInv, PhaseOK
  <2>6. broken' \in BOOLEAN /\ (broken' => broken)
    BY <2>1, Zenon DEF TypeOK
  <2>7. Plain(a, v)
    BY <1>0, <1>1, <2>1, <2>3, <2>4, <2>5, <2>6 DEF Plain, Reading, manager, Server, TypeOK
  <2> QED
    BY <2>4, <2>7, PlainKeeps
<1>3. CASE Audit(a)
  <2>1. req[a].pc = "audit" /\ Done(a) /\ UNCHANGED broken /\ SameFiles /\ Reading
    BY <1>3 DEF Audit
  <2>2. broken' \in BOOLEAN /\ (broken' => broken)
    BY <2>1, Zenon DEF TypeOK
  <2>3. Plain(a, Finished)
    BY <1>0, <2>1, <2>2, Activity DEF Plain, Done, Reading, manager, Server, TypeOK
  <2> QED
    BY <2>3, Activity, PlainKeeps
<1> QED
  BY <1>2, <1>3

\* A read of the statistics leaves info i, which is not ahead of retention.
LEMMA StatsKeep ==
  ASSUME TypeOK, ServerInv, NEW a \in Actors, NEW f \in 1 .. MaxFiles,
         NEW l \in {"newest", "cursors"},
         NEW i \in [old : Int, new : Int, empty : BOOLEAN, from : Nat],
         req[a].pc \in {"use", "newest"}, req[a].kind \in EventReaders, UNCHANGED broken, Reading,
         ReadFrom(req[a].name, f), req' = [req EXCEPT ![a].pc = l, ![a].info = i],
         i.from \in 0 .. MaxFiles,
         i.from # 0 => i.old <= events[entry[req[a].name]][i.from].old
  PROVE  TypeOK' /\ ServerInv'
<1>0. /\ {"use", "newest", "cursors"} \subseteq AtDatabase \ Locking
      /\ {"newest", "cursors"} \subseteq Labels /\ Locking \subseteq AtDatabase
  BY DEF AtDatabase, Locking, Labels
<1>1. /\ req[a] \in Activities /\ req[a].todo \subseteq Listed
      /\ req \in [Actors -> Activities]
  BY DEF TypeOK, ServerInv, ActorsOK, ActorOK
<1>4. /\ req[a].name \in Listed /\ entry[req[a].name] \in Paths
      /\ (a = Main => req[a].kind = "warmup") /\ cache[req[a].name] # NoHandle
  BY <1>0, AtListed DEF ServerInv, PhaseOK, ActorsOK, ActorOK
<1>8. PICK v : v = [req[a] EXCEPT !.pc = l, !.info = i]
  OBVIOUS
<1>9. req' = [req EXCEPT ![a] = v]
  BY <1>1, <1>8
<1>10. /\ v \in Activities /\ v.pc = l /\ v.name = req[a].name /\ v.info = i
       /\ v.todo = req[a].todo /\ v.kind = req[a].kind
  BY <1>0, <1>1, <1>8 DEF Activities
<1>11. SameFiles \/ \E p \in Paths : Connect(p)
  BY <1>4, ReadFromFiles
<1>12. broken' \in BOOLEAN /\ (broken' => broken)
  BY Zenon DEF TypeOK
<1>13. Plain(a, v)
  BY <1>0, <1>1, <1>4, <1>9, <1>10, <1>11, <1>12
     DEF Plain, Reading, manager, Server, TypeOK
<1> QED
  BY <1>10, <1>13, PlainKeeps

\* The events of a listed database have their types.
LEMMA SeenType ==
  ASSUME TypeOK, NEW n \in Names, entry[n] \in Paths, NEW f \in 1 .. MaxFiles
  PROVE  Seen(n, f) \in Logs
<1>1. events[entry[n]] \in [1 .. MaxFiles -> Logs]
  BY DEF TypeOK
<1> QED
  BY <1>1 DEF Seen

\* The count and the oldest seq are those of the file that was read.
LEMMA EventStatsKeeps ==
  ASSUME TypeOK, ServerInv, NEW a \in Actors, EventStats(a)
  PROVE  TypeOK' /\ ServerInv'
<1>0. MaxFiles \in Nat /\ "use" \in AtDatabase
  BY UIServerAssumption DEF AtDatabase
<1>1. /\ req[a].pc = "use" /\ req[a].kind \in EventReaders /\ UNCHANGED broken /\ Reading
  BY DEF EventStats, Using
<1>2. PICK f \in 1 .. MaxFiles :
        /\ ReadFrom(req[a].name, f)
        /\ req' = [req EXCEPT ![a].pc = "newest",
                       ![a].info = [old |-> Seen(req[a].name, f).old, new |-> 0,
                                    empty |-> Seen(req[a].name, f).old > Seen(req[a].name, f).new,
                                    from |-> f]]
  BY DEF EventStats
<1>3. Seen(req[a].name, f) \in Logs
  BY <1>0, <1>1, AtListed, SeenType
<1>4. PICK e : e = (Seen(req[a].name, f).old > Seen(req[a].name, f).new)
  OBVIOUS
<1>5. e \in BOOLEAN
  BY <1>4
<1>6. PICK o : o = Seen(req[a].name, f).old
  OBVIOUS
<1>7. o \in Int /\ f \in Nat /\ f \in 0 .. MaxFiles
  BY <1>0, <1>3, <1>6 DEF Logs
<1>8. PICK i : i = [old |-> o, new |-> 0, empty |-> e, from |-> f]
  OBVIOUS
<1>9. i \in [old : Int, new : Int, empty : BOOLEAN, from : Nat] /\ i.from = f /\ i.old = o
  BY <1>5, <1>7, <1>8
<1>10. i.old <= events[entry[req[a].name]][f].old
  BY <1>6, <1>7, <1>9 DEF Seen
<1>11. req' = [req EXCEPT ![a].pc = "newest", ![a].info = i]
  BY <1>2, <1>4, <1>6, <1>8
<1> QED
  BY <1>1, <1>2, <1>7, <1>9, <1>10, <1>11, StatsKeep

\* The last seq assigned is added, and whether it is of the same file.
LEMMA LastAssignedKeeps ==
  ASSUME TypeOK, ServerInv, NEW a \in Actors, LastAssignedSeq(a)
  PROVE  TypeOK' /\ ServerInv'
<1>0. MaxFiles \in Nat /\ "newest" \in AtDatabase
  BY UIServerAssumption DEF AtDatabase
<1>1. req[a].pc = "newest" /\ UNCHANGED broken /\ Reading
  BY DEF LastAssignedSeq
<1>2. /\ req[a] \in Activities /\ req \in [Actors -> Activities]
      /\ req[a].kind \in EventReaders /\ req[a].info.from \in 0 .. MaxFiles
      /\ req[a].info.from # 0 =>
             req[a].info.old <= events[entry[req[a].name]][req[a].info.from].old
  BY <1>1 DEF TypeOK, ServerInv, ActorsOK, ActorOK
<1>3. PICK f \in 1 .. MaxFiles :
        /\ ReadFrom(req[a].name, f)
        /\ req' = [req EXCEPT ![a].pc = "cursors", ![a].info.new = Seen(req[a].name, f).new,
                       ![a].info.from = IF @ = f THEN f ELSE 0]
  BY DEF LastAssignedSeq
<1>4. PICK m : m = Seen(req[a].name, f).new
  OBVIOUS
<1>5. m \in Int /\ f \in Nat
  <2>1. Seen(req[a].name, f) \in Logs
    BY <1>0, <1>1, AtListed, SeenType
  <2> QED
    BY <1>0, <1>4, <2>1 DEF Logs
<1>6. PICK g : g = IF req[a].info.from = f THEN f ELSE 0
  OBVIOUS
<1>7. g \in 0 .. MaxFiles /\ g \in Nat /\ (g # 0 => g = req[a].info.from)
  BY <1>0, <1>5, <1>6
<1>8. PICK i : i = [req[a].info EXCEPT !.new = m, !.from = g]
  OBVIOUS
<1>9. /\ i \in [old : Int, new : Int, empty : BOOLEAN, from : Nat]
      /\ i.from = g /\ i.old = req[a].info.old
  BY <1>2, <1>5, <1>7, <1>8 DEF Activities
<1>10. req' = [req EXCEPT ![a].pc = "cursors", ![a].info = i]
  <2> DEFINE r == [req[a] EXCEPT !.pc = "cursors", !.info.new = m, !.info.from = g]
  <2>1. req' = [req EXCEPT ![a] = r]
    BY <1>2, <1>3, <1>4, <1>6 DEF Activities
  <2>2. r = [req[a] EXCEPT !.pc = "cursors", !.info = i]
    BY <1>2, <1>8 DEF Activities
  <2> QED
    BY <1>2, <2>1, <2>2
<1> QED
  BY <1>1, <1>2, <1>3, <1>7, <1>9, <1>10, StatsKeep

\* The cursor is read and judged; a closed handle is met only if Close did not
\* wait.
LEMMA CursorsKeeps ==
  ASSUME TypeOK, ServerInv, NEW a \in Actors, Cursors(a)
  PROVE  TypeOK' /\ ServerInv'
<1>0. /\ {"cursors", "lost", "fine"} \subseteq AtDatabase \ Locking /\ {"lost", "fine"} \subseteq Labels
      /\ Locking \subseteq AtDatabase /\ MaxFiles \in Nat
  BY UIServerAssumption DEF AtDatabase, Locking, Labels
<1>1. /\ req[a] \in Activities /\ req[a].todo \subseteq Listed
      /\ req \in [Actors -> Activities]
  BY DEF TypeOK, ServerInv, ActorsOK, ActorOK
<1>2. req[a].pc = "cursors" /\ Reading
  BY DEF Cursors
<1>3. /\ req[a].name \in Listed /\ req[a].kind \in EventReaders
      /\ cache[req[a].name] # NoHandle /\ req[a].name \in Names
  BY <1>0, <1>2, AtListed DEF ServerInv, ActorsOK, ActorOK
<1>4. a # Main /\ a \in Running
  <2>1. a # Main
    BY <1>2, <1>3 DEF ServerInv, PhaseOK, EventReaders
  <2> QED
    BY <1>2, <2>1 DEF Actors, Running
<1>5. PICK v \in Activities :
        /\ req' = [req EXCEPT ![a] = v]
        /\ v.pc \in {"lost", "fine"} /\ v.name = req[a].name /\ v.todo = req[a].todo
        /\ SameFiles \/ \E p \in Paths : Connect(p)
        /\ broken' \in BOOLEAN /\ (broken' => broken \/ ~cache[req[a].name].open)
  <2>1. CASE ~cache[req[a].name].open /\ broken' = TRUE /\ Goto(a, "fine") /\ SameFiles
    <3>1. PICK w : w = [req[a] EXCEPT !.pc = "fine"]
      OBVIOUS
    <3>2. req' = [req EXCEPT ![a] = w]
      BY <2>1, <3>1 DEF Goto
    <3>3. w \in Activities /\ w.pc = "fine" /\ w.name = req[a].name /\ w.todo = req[a].todo
      BY <1>0, <1>1, <3>1 DEF Activities
    <3> QED
      BY <2>1, <3>2, <3>3
  <2>2. ASSUME NEW f \in 1 .. MaxFiles, UNCHANGED broken, ReadFrom(req[a].name, f),
               NEW l \in {"lost", "fine"}, req' = [req EXCEPT ![a].pc = l, ![a].file = f]
        PROVE  \E v \in Activities :
                 /\ req' = [req EXCEPT ![a] = v]
                 /\ v.pc \in {"lost", "fine"} /\ v.name = req[a].name /\ v.todo = req[a].todo
                 /\ SameFiles \/ \E p \in Paths : Connect(p)
                 /\ broken' \in BOOLEAN /\ (broken' => broken \/ ~cache[req[a].name].open)
    <3>1. PICK w : w = [req[a] EXCEPT !.pc = l, !.file = f]
      OBVIOUS
    <3>2. req' = [req EXCEPT ![a] = w]
      BY <1>1, <2>2, <3>1
    <3>6. f \in Nat /\ l \in Labels
      BY <1>0
    <3>3. w \in Activities /\ w.pc = l /\ w.name = req[a].name /\ w.todo = req[a].todo
      BY <1>1, <3>1, <3>6 DEF Activities
    <3>4. broken' \in BOOLEAN /\ (broken' => broken)
      BY <2>2, Zenon DEF TypeOK
    <3>5. SameFiles \/ \E p \in Paths : Connect(p)
      BY <1>3, <2>2, ReadFromFiles
    <3> QED
      BY <3>2, <3>3, <3>4, <3>5
  <2> QED
    BY <2>1, <2>2 DEF Cursors
<1>6. ~cache[req[a].name].open => rushed
  BY <1>3, <1>4 DEF ServerInv, MapOK, PhaseOK
<1>7. Plain(a, v)
  BY <1>0, <1>1, <1>2, <1>3, <1>4, <1>5, <1>6 DEF Plain, Reading, manager, Server, TypeOK
<1> QED
  BY <1>5, <1>7, PlainKeeps

\* Rescan adds entries for names that had none.
LEMMA RescanKeeps ==
  ASSUME TypeOK, ServerInv, NEW a \in Actors, Rescan(a)
  PROVE  TypeOK' /\ ServerInv'
<1>0. /\ {"rescan", "names"} \cap AtDatabase = {} /\ "names" \in Labels
      /\ Locking \subseteq AtDatabase /\ {"version", "record"} \subseteq AtDatabase
  BY DEF AtDatabase, Locking, Labels
<1>1. /\ req[a].pc = "rescan" /\ Goto(a, "names")
      /\ UNCHANGED <<disk, mu, cache, handles, scraper, fails, broken>> /\ Server
      /\ entry' \in [Names -> Paths \cup {NoPath}]
      /\ \A n \in Listed : entry'[n] = entry[n]
  BY DEF Rescan, Listed
<1>2. /\ req' \in [Actors -> Activities] /\ req'[a].pc = "names"
      /\ req'[a].todo = req[a].todo /\ req'[a].kind = req[a].kind
      /\ \A d \in Actors \ {a} : req'[d] = req[d]
  BY <1>0, <1>1, GotoActivity
<1>3. rushed' \in BOOLEAN /\ broken' \in BOOLEAN /\ (broken' => broken)
  BY <1>1, Zenon DEF TypeOK, Server
<1>4. TypeOK'
  BY <1>1, <1>2, <1>3 DEF TypeOK, disk, Server
<1>5. ActorOK(a)'
  BY <1>0, <1>1, <1>2, <1>4, AwayOK DEF ServerInv, ActorsOK, ActorOK
<1>6. \A n \in Names : mu[n] # a
  BY <1>0, <1>1, UIServerAssumption DEF ServerInv, LocksAreHeld
<1>7. \A p \in Paths, i \in 1 .. MaxFiles : events[p][i].old <= events'[p][i].old
  BY <1>1, EventsSame DEF disk
<1>8. a = Main => req[a].kind = "warmup"
  BY <1>1 DEF ServerInv, PhaseOK
<1>9. Moves(a)
  BY <1>1, <1>2, <1>3, <1>6, <1>7, <1>8 DEF Moves, Server
<1>10. HandleCounted'
  <2>1. \A n \in Names : ~Opening(a, n)' /\ ~Opening(a, n)
    BY <1>0, <1>1, <1>2 DEF Opening
  <2> QED
    BY <1>1, <1>2, <2>1, CountKept DEF ServerInv
<1>11. FilesExist'
  BY <1>1 DEF disk, FilesExist, ServerInv
<1> QED
  BY <1>4, <1>5, <1>9, <1>10, <1>11, MovesKeep DEF ServerInv

-----------------------------------------------------------------------------
(* dbEntry.Cache: steps under the mutex of a database.                     *)

\* While a opens a database, it is listed, no one else opens it, and there is
\* no handle in the map.
LEMMA Holding ==
  ASSUME TypeOK, ServerInv, NEW a \in Actors, req[a].pc \in Locking
  PROVE  /\ req[a].name \in Names /\ req[a].name \in Listed /\ entry[req[a].name] \in Paths
         /\ mu[req[a].name] = a /\ cache[req[a].name] = NoHandle
         /\ \A n \in Names : mu[n] = a => n = req[a].name
         /\ \A d \in Actors \ {a} : ~Opening(d, req[a].name)
         /\ a = Main => req[a].kind = "warmup"
         /\ req[a].pc # "done" /\ req[a].pc # "idle" /\ req[a].todo \subseteq Listed
<1>1. Locking \subseteq AtDatabase /\ "done" \notin Locking /\ "idle" \notin Locking
      /\ {"version", "record"} \subseteq Locking
  BY DEF AtDatabase, Locking
<1>2. /\ mu[req[a].name] = a /\ cache[req[a].name] = NoHandle /\ req[a].todo \subseteq Listed
  BY DEF ServerInv, ActorsOK, ActorOK
<1>3. \A n \in Names : mu[n] = a => n = req[a].name
  BY UIServerAssumption DEF ServerInv, LocksAreHeld
<1>4. \A d \in Actors \ {a} : ~Opening(d, req[a].name)
  BY <1>1, <1>2 DEF Opening, ServerInv, ActorsOK, ActorOK
<1>5. a = Main => req[a].kind = "warmup"
  BY <1>1 DEF ServerInv, PhaseOK
<1> QED
  BY <1>1, <1>2, <1>3, <1>4, <1>5, AtListed

\* The mutex is taken if there is no handle in the map yet.
LEMMA CacheKeeps ==
  ASSUME TypeOK, ServerInv, NEW a \in Actors, Cache(a)
  PROVE  TypeOK' /\ ServerInv'
<1> DEFINE n == req[a].name
           l == IF cache[n] # NoHandle THEN "use" ELSE "stat"
<1>0. /\ "cache" \in AtDatabase \ Locking /\ {"use", "stat"} \subseteq Labels \cap AtDatabase
      /\ "use" \notin Locking /\ "stat" \in Locking
      /\ Locking \subseteq AtDatabase /\ {"version", "record"} \subseteq Locking
  BY DEF AtDatabase, Locking, Labels
<1>1. /\ req[a].pc = "cache" /\ mu[n] = NoOne /\ Goto(a, l)
      /\ mu' = [mu EXCEPT ![n] = IF cache[n] # NoHandle THEN NoOne ELSE a]
      /\ UNCHANGED <<disk, entry, cache, handles, scraper, fails, broken>> /\ Server
  BY DEF Cache, CacheUnlocked
<1>2. n \in Names /\ n \in Listed
  BY <1>0, <1>1, AtListed
<1>3. l \in {"use", "stat"} /\ l \in Labels
  BY <1>0
<1>4. /\ req' \in [Actors -> Activities] /\ req'[a].pc = l /\ req'[a].name = n
      /\ req'[a].todo = req[a].todo /\ req'[a].kind = req[a].kind
      /\ \A d \in Actors \ {a} : req'[d] = req[d]
  BY <1>1, <1>3, GotoActivity
<1>5. /\ mu' \in [Names -> Actors \cup {NoOne}]
      /\ mu'[n] = IF cache[n] # NoHandle THEN NoOne ELSE a
      /\ \A m \in Names \ {n} : mu'[m] = mu[m]
  BY <1>1, <1>2 DEF TypeOK
<1>6. rushed' \in BOOLEAN /\ broken' \in BOOLEAN /\ (broken' => broken)
  BY <1>1, Zenon DEF TypeOK, Server
<1>7. TypeOK'
  BY <1>1, <1>4, <1>5, <1>6 DEF TypeOK, disk, Server
<1>8. ActorOK(a)'
  <2>1. Listed' = Listed
    BY <1>1 DEF Listed
  <2>2. req[a].todo \subseteq Listed
    BY DEF ServerInv, ActorsOK, ActorOK
  <2>3. l \notin {"version", "record", "newest", "cursors"}
    BY <1>3
  <2>4. l \in Locking => mu'[n] = a /\ cache'[n] = NoHandle
    BY <1>0, <1>1, <1>5
  <2>5. l = "use" => cache'[n] # NoHandle
    BY <1>1
  <2> HIDE DEF l, n
  <2> QED
    BY <1>2, <1>3, <1>4, <2>1, <2>2, <2>3, <2>4, <2>5 DEF ActorOK
<1>9. \A m \in Names : mu[m] # a
  BY <1>0, <1>1, UIServerAssumption DEF ServerInv, LocksAreHeld
<1>10. \A p \in Paths, i \in 1 .. MaxFiles : events[p][i].old <= events'[p][i].old
  BY <1>1, EventsSame DEF disk
<1>11. a = Main => req[a].kind = "warmup"
  BY <1>1 DEF ServerInv, PhaseOK
<1>12. \A m \in Names :
         \/ mu'[m] = mu[m]
         \/ mu[m] = NoOne /\ mu'[m] = a /\ req'[a].name = m /\ req'[a].pc \in Locking
  BY <1>0, <1>1, <1>4, <1>5
<1>13. Moves(a)
  <2> HIDE DEF n, l
  <2> QED
    BY <1>1, <1>4, <1>6, <1>9, <1>10, <1>11, <1>12 DEF Moves, Server
<1>14. HandleCounted'
  <2>1. \A m \in Names : ~Opening(a, m)' /\ ~Opening(a, m)
    BY <1>1, <1>3, <1>4 DEF Opening
  <2> QED
    BY <1>1, <1>4, <2>1, CountKept DEF ServerInv
<1>15. FilesExist'
  BY <1>1 DEF disk, FilesExist, ServerInv
<1> QED
  BY <1>7, <1>8, <1>13, <1>14, <1>15, MovesKeep DEF ServerInv

\* What the steps under the mutex leave alone.
Undisturbed ==
    /\ UNCHANGED <<events, entry, scraper, broken, steps>> /\ Server
    /\ fails' \in Nat /\ version' \in [Paths -> [1 .. MaxFiles -> Nat]]

\* Opening is given up: the mutex is free again, and a connection closed.
LEMMA GiveUp ==
  ASSUME TypeOK, ServerInv, NEW a \in Actors, req[a].pc \in Locking, Undisturbed, SameFiles,
         req' = [req EXCEPT ![a] = After(a)], Unlock(a), UNCHANGED cache,
         handles' = IF req[a].pc \in {"version", "record"}
                    THEN [handles EXCEPT ![req[a].name] = @ - 1] ELSE handles
  PROVE  TypeOK' /\ ServerInv'
<1> SUFFICES ASSUME NEW n, n = req[a].name PROVE TypeOK' /\ ServerInv'
  OBVIOUS
<1>0. {"next", "done"} \cap AtDatabase = {} /\ {"version", "record"} \subseteq AtDatabase
  BY DEF AtDatabase, Locking
<1>1. /\ n \in Names /\ mu[n] = a /\ cache[n] = NoHandle
      /\ \A m \in Names : mu[m] = a => m = n
      /\ \A d \in Actors \ {a} : ~Opening(d, n)
      /\ a = Main => req[a].kind = "warmup"
      /\ req[a].pc # "done" /\ req[a].pc # "idle" /\ req[a].todo \subseteq Listed
  BY Holding
<1>2. /\ After(a) \in Activities /\ After(a).pc \in {"next", "done"}
      /\ After(a).todo \subseteq Listed
      /\ a = Main => After(a).kind = "warmup" \/ After(a).pc = "done"
  BY <1>1, AfterType
<1>3. /\ req' \in [Actors -> Activities] /\ req'[a] = After(a)
      /\ \A d \in Actors \ {a} : req'[d] = req[d]
  BY <1>2, OwnActivity
<1>4. /\ mu' \in [Names -> Actors \cup {NoOne}] /\ mu'[n] = NoOne
      /\ \A m \in Names \ {n} : mu'[m] = mu[m]
  BY <1>1 DEF Unlock, TypeOK
<1>5. FilesExist' /\ file' \in [Paths -> Nat] /\ created' \in [Paths -> Nat]
  BY SameFilesExist DEF ServerInv
<1>6. rushed' \in BOOLEAN /\ broken' \in BOOLEAN /\ (broken' => broken)
  BY Zenon DEF TypeOK, Server, Undisturbed
<1>7. handles' \in [Names -> Int]
  BY <1>1 DEF TypeOK
<1>8. TypeOK'
  BY <1>3, <1>4, <1>5, <1>6, <1>7 DEF TypeOK, Undisturbed, Server
<1>9. ActorOK(a)'
  BY <1>0, <1>2, <1>3, <1>8, AwayOK DEF Undisturbed
<1>10. \A p \in Paths, i \in 1 .. MaxFiles : events[p][i].old <= events'[p][i].old
  BY EventsSame DEF Undisturbed
<1>11. Moves(a)
  <2>1. \A m \in Names : (mu'[m] = mu[m] /\ mu[m] # a) \/ (mu[m] = a /\ mu'[m] = NoOne)
    BY <1>1, <1>4
  <2> QED
    BY <1>1, <1>2, <1>3, <1>6, <1>10, <2>1 DEF Moves, Undisturbed, Server
<1>12. HandleCounted'
  <2>1. InMap(n) = 0 /\ InMap(n)' = 0
    BY <1>1 DEF InMap, NoHandle
  <2>2. BeingOpened(n) = IF req[a].pc \in {"version", "record"} THEN 1 ELSE 0
    BY <1>1 DEF BeingOpened, Opening
  <2>3. ~\E d \in Actors : Opening(d, n)'
    BY <1>1, <1>2, <1>3 DEF Opening
  <2>4. BeingOpened(n)' = 0
    BY <2>3 DEF BeingOpened
  <2>5. handles[n] = BeingOpened(n)
    BY <1>1, <2>1, <2>2 DEF HandleCounted, ServerInv
  <2>6. handles'[n] = 0
    BY <1>1, <2>2, <2>5 DEF TypeOK
  <2>7. \A m \in Names \ {n} : handles'[m] = handles[m] /\ cache'[m] = cache[m]
    BY <1>1 DEF TypeOK
  <2>8. \A m \in Names \ {n}, d \in Actors : Opening(d, m)' <=> Opening(d, m)
    BY <1>2, <1>3 DEF Opening
  <2>9. handles'[n] = InMap(n)' + BeingOpened(n)'
    BY <2>1, <2>4, <2>6
  <2> QED
    BY <1>1, <2>7, <2>8, <2>9, CountOthers DEF ServerInv
<1> QED
  BY <1>5, <1>8, <1>9, <1>11, <1>12, MovesKeep DEF ServerInv

\* Opening goes on at l, with file f; the count of handles is kept.
LEMMA GoOnOpening ==
  ASSUME TypeOK, ServerInv, NEW a \in Actors, req[a].pc \in Locking, Undisturbed,
         UNCHANGED <<mu, cache>>, FilesExist',
         file' \in [Paths -> Nat], created' \in [Paths -> Nat],
         NEW v \in Activities, req' = [req EXCEPT ![a] = v],
         v.pc \in Locking, v.name = req[a].name, v.todo = req[a].todo, v.kind = req[a].kind,
         v.pc \in {"version", "record"} => v.file \in 1 .. MaxFiles,
         handles' \in [Names -> Int],
         \A m \in Names \ {req[a].name} : handles'[m] = handles[m],
         handles'[req[a].name] = handles[req[a].name]
             + (IF v.pc \in {"version", "record"} THEN 1 ELSE 0)
             - (IF req[a].pc \in {"version", "record"} THEN 1 ELSE 0)
  PROVE  TypeOK' /\ ServerInv'
<1> SUFFICES ASSUME NEW n, n = req[a].name PROVE TypeOK' /\ ServerInv'
  OBVIOUS
<1>0. Locking \cap {"use", "newest", "cursors", "done", "idle"} = {}
  BY DEF Locking
<1>1. /\ n \in Names /\ n \in Listed /\ mu[n] = a /\ cache[n] = NoHandle
      /\ \A m \in Names : mu[m] = a => m = n
      /\ \A d \in Actors \ {a} : ~Opening(d, n)
      /\ a = Main => req[a].kind = "warmup"
      /\ req[a].pc # "done" /\ req[a].pc # "idle" /\ req[a].todo \subseteq Listed
  BY Holding
<1>2. /\ req' \in [Actors -> Activities] /\ req'[a] = v
      /\ \A d \in Actors \ {a} : req'[d] = req[d]
  BY OwnActivity
<1>3. rushed' \in BOOLEAN /\ broken' \in BOOLEAN /\ (broken' => broken)
  BY Zenon DEF TypeOK, Server, Undisturbed
<1>4. TypeOK'
  BY <1>2, <1>3 DEF TypeOK, Undisturbed, Server
<1>5. ActorOK(a)'
  <2>1. Listed' = Listed
    BY DEF Undisturbed, Listed
  <2> QED
    BY <1>0, <1>1, <1>2, <2>1 DEF ActorOK
<1>6. \A p \in Paths, i \in 1 .. MaxFiles : events[p][i].old <= events'[p][i].old
  BY EventsSame DEF Undisturbed
<1>7. Moves(a)
  BY <1>1, <1>2, <1>3, <1>6 DEF Moves, Undisturbed, Server
<1>8. HandleCounted'
  <2>1. InMap(n) = 0 /\ InMap(n)' = 0
    BY <1>1 DEF InMap, NoHandle
  <2>2. BeingOpened(n) = IF req[a].pc \in {"version", "record"} THEN 1 ELSE 0
    BY <1>1 DEF BeingOpened, Opening
  <2>3. (\E d \in Actors : Opening(d, n)') <=> v.pc \in {"version", "record"}
    BY <1>1, <1>2 DEF Opening
  <2>4. BeingOpened(n)' = IF v.pc \in {"version", "record"} THEN 1 ELSE 0
    BY <2>3 DEF BeingOpened
  <2>5. handles[n] = BeingOpened(n)
    BY <1>1, <2>1, <2>2 DEF HandleCounted, ServerInv
  <2>6. handles'[n] = BeingOpened(n)'
    BY <2>2, <2>4, <2>5
  <2>7. \A m \in Names \ {n} : handles'[m] = handles[m] /\ cache'[m] = cache[m]
    OBVIOUS
  <2>8. \A m \in Names \ {n}, d \in Actors : Opening(d, m)' <=> Opening(d, m)
    BY <1>2 DEF Opening
  <2>9. handles'[n] = InMap(n)' + BeingOpened(n)'
    BY <2>1, <2>4, <2>6
  <2> QED
    BY <1>1, <2>7, <2>8, <2>9, CountOthers DEF ServerInv
<1> QED
  BY <1>4, <1>5, <1>7, <1>8, MovesKeep DEF ServerInv

\* The handle is put into the map, and the mutex is free again.
LEMMA OpenedKeeps ==
  ASSUME TypeOK, ServerInv, NEW a \in Actors, req[a].pc \in {"version", "record"},
         Undisturbed, SameFiles, Opened(a)
  PROVE  TypeOK' /\ ServerInv'
<1> SUFFICES ASSUME NEW n, n = req[a].name PROVE TypeOK' /\ ServerInv'
  OBVIOUS
<1>0. /\ {"version", "record"} \subseteq Locking /\ "use" \in Labels /\ "use" \notin Locking
      /\ MaxFiles \in Nat
  BY UIServerAssumption DEF Locking, Labels, AtDatabase
<1>1. /\ n \in Names /\ n \in Listed /\ mu[n] = a /\ cache[n] = NoHandle
      /\ \A m \in Names : mu[m] = a => m = n
      /\ \A d \in Actors \ {a} : ~Opening(d, n)
      /\ a = Main => req[a].kind = "warmup"
      /\ req[a].pc # "done" /\ req[a].pc # "idle" /\ req[a].todo \subseteq Listed
  BY <1>0, Holding
<1>2. /\ req' \in [Actors -> Activities] /\ req'[a].pc = "use" /\ req'[a].name = n
      /\ req'[a].todo = req[a].todo /\ req'[a].kind = req[a].kind
      /\ \A d \in Actors \ {a} : req'[d] = req[d]
  BY <1>0, GotoActivity DEF Opened
<1>3. /\ mu' \in [Names -> Actors \cup {NoOne}] /\ mu'[n] = NoOne
      /\ \A m \in Names \ {n} : mu'[m] = mu[m]
  BY <1>1 DEF Opened, Unlock, TypeOK
<1>4. req[a].file \in 1 .. MaxFiles /\ req[a].file \in Nat
  BY <1>0 DEF ServerInv, ActorsOK, ActorOK
<1>5. PICK h : h = [file |-> req[a].file, open |-> TRUE]
  OBVIOUS
<1>6. h \in [file : Nat, open : BOOLEAN] /\ h.file = req[a].file /\ h.open = TRUE
  BY <1>4, <1>5
<1>7. /\ cache' \in [Names -> [file : Nat, open : BOOLEAN]] /\ cache'[n] = h
      /\ \A m \in Names \ {n} : cache'[m] = cache[m]
  BY <1>1, <1>5, <1>6 DEF Opened, TypeOK
<1>8. h # NoHandle
  BY <1>6 DEF NoHandle
<1>9. FilesExist' /\ file' \in [Paths -> Nat] /\ created' \in [Paths -> Nat]
  BY SameFilesExist DEF ServerInv
<1>10. rushed' \in BOOLEAN /\ broken' \in BOOLEAN /\ (broken' => broken)
  BY Zenon DEF TypeOK, Server, Undisturbed
<1>11. UNCHANGED handles
  BY DEF Opened
<1>12. TypeOK'
  BY <1>2, <1>3, <1>7, <1>9, <1>10, <1>11 DEF TypeOK, Undisturbed, Server
<1>13. ActorOK(a)'
  <2>1. Listed' = Listed
    BY DEF Undisturbed, Listed
  <2> QED
    BY <1>0, <1>1, <1>2, <1>7, <1>8, <2>1 DEF ActorOK
<1>14. \A p \in Paths, i \in 1 .. MaxFiles : events[p][i].old <= events'[p][i].old
  BY EventsSame DEF Undisturbed
<1>15. Moves(a)
  <2>1. \A m \in Names : (mu'[m] = mu[m] /\ mu[m] # a) \/ (mu[m] = a /\ mu'[m] = NoOne)
    BY <1>1, <1>3
  <2>2. \A m \in Names :
          \/ cache'[m] = cache[m]
          \/ /\ cache[m] = NoHandle /\ mu[m] = a /\ m \in Listed
             /\ cache'[m].open /\ cache'[m].file \in 1 .. MaxFiles
    BY <1>1, <1>4, <1>6, <1>7
  <2> QED
    BY <1>1, <1>2, <1>10, <1>14, <2>1, <2>2 DEF Moves, Undisturbed, Server
<1>16. HandleCounted'
  <2>1. InMap(n) = 0
    BY <1>1 DEF InMap, NoHandle
  <2>2. BeingOpened(n) = 1
    BY DEF BeingOpened, Opening
  <2>3. handles'[n] = 1
    BY <1>1, <1>11, <2>1, <2>2 DEF HandleCounted, ServerInv
  <2>4. ~\E d \in Actors : Opening(d, n)'
    BY <1>1, <1>2 DEF Opening
  <2>5. InMap(n)' = 1
    BY <1>6, <1>7 DEF InMap
  <2>6. BeingOpened(n)' = 0
    BY <2>4 DEF BeingOpened
  <2>7. \A m \in Names \ {n} : handles'[m] = handles[m] /\ cache'[m] = cache[m]
    BY <1>7, <1>11
  <2>8. \A m \in Names \ {n}, d \in Actors : Opening(d, m)' <=> Opening(d, m)
    BY <1>2 DEF Opening
  <2>9. handles'[n] = InMap(n)' + BeingOpened(n)'
    BY <2>3, <2>5, <2>6
  <2> QED
    BY <1>1, <2>7, <2>8, <2>9, CountOthers DEF ServerInv
<1> QED
  BY <1>9, <1>12, <1>13, <1>15, <1>16, MovesKeep DEF ServerInv

\* os.Stat: opening goes on, or is given up.
LEMMA StatKeeps ==
  ASSUME TypeOK, ServerInv, NEW a \in Actors, Stat(a)
  PROVE  TypeOK' /\ ServerInv'
<1>0. /\ {"stat", "open"} \subseteq Locking \ {"version", "record"} /\ "open" \in Labels
  BY DEF Locking, Labels, AtDatabase
<1>1. /\ req[a].pc = "stat"
      /\ UNCHANGED <<disk, entry, cache, handles, scraper, fails, broken>> /\ Server
  BY DEF Stat
<1>2. Undisturbed /\ SameFiles
  BY <1>1 DEF Undisturbed, SameFiles, disk, TypeOK
<1>3. CASE Goto(a, "open") /\ UNCHANGED mu
  <2>1. PICK v : v = [req[a] EXCEPT !.pc = "open"]
    OBVIOUS
  <2>2. req' = [req EXCEPT ![a] = v]
    BY <1>3, <2>1 DEF Goto
  <2>3. /\ v \in Activities /\ v.pc = "open" /\ v.name = req[a].name
        /\ v.todo = req[a].todo /\ v.kind = req[a].kind
    BY <1>0, <2>1 DEF Activities, TypeOK
  <2>4. FilesExist' /\ file' \in [Paths -> Nat] /\ created' \in [Paths -> Nat]
    BY <1>2, SameFilesExist DEF ServerInv
  <2>5. /\ handles' \in [Names -> Int] /\ \A m \in Names : handles'[m] = handles[m]
        /\ req[a].name \in Names
    BY <1>0, <1>1, Holding DEF TypeOK
  <2>6. handles'[req[a].name] = handles[req[a].name]
             + (IF v.pc \in {"version", "record"} THEN 1 ELSE 0)
             - (IF req[a].pc \in {"version", "record"} THEN 1 ELSE 0)
    BY <1>1, <2>3, <2>5
  <2> QED
    BY <1>0, <1>1, <1>2, <1>3, <2>2, <2>3, <2>4, <2>5, <2>6, GoOnOpening
<1>4. CASE req' = [req EXCEPT ![a] = After(a)] /\ Unlock(a)
  BY <1>0, <1>1, <1>2, <1>4, GiveUp
<1> QED
  BY <1>3, <1>4 DEF Stat

\* sql.Open: there is one more connection, to a file that exists.
LEMMA OpenKeeps ==
  ASSUME TypeOK, ServerInv, NEW a \in Actors, Open(a)
  PROVE  TypeOK' /\ ServerInv'
<1>0. /\ "open" \in Locking \ {"version", "record"} /\ "version" \in Labels
      /\ "version" \in Locking /\ MaxFiles \in Nat
  BY UIServerAssumption DEF Locking, Labels, AtDatabase
<1>1. /\ req[a].pc = "open" /\ Connect(entry[req[a].name])
      /\ req' = [req EXCEPT ![a].pc = "version", ![a].file = file'[entry[req[a].name]]]
      /\ handles' = [handles EXCEPT ![req[a].name] = @ + 1]
      /\ UNCHANGED <<version, events, steps, entry, mu, cache, scraper, fails, broken>> /\ Server
  BY DEF Open
<1>2. req[a].name \in Names /\ entry[req[a].name] \in Paths
  BY <1>0, <1>1, Holding
<1>3. /\ FilesExist' /\ file' \in [Paths -> Nat] /\ created' \in [Paths -> Nat]
      /\ file'[entry[req[a].name]] \in 1 .. MaxFiles
  BY <1>1, <1>2, ConnectFiles DEF ServerInv
<1>4. PICK f : f = file'[entry[req[a].name]]
  OBVIOUS
<1>5. f \in 1 .. MaxFiles /\ f \in Nat
  BY <1>0, <1>3, <1>4
<1>6. PICK v : v = [req[a] EXCEPT !.pc = "version", !.file = f]
  OBVIOUS
<1>7. req \in [Actors -> Activities] /\ req[a] \in Activities
  BY DEF TypeOK
<1>8. req' = [req EXCEPT ![a] = v]
  BY <1>1, <1>4, <1>6, <1>7
<1>9. /\ v \in Activities /\ v.pc = "version" /\ v.name = req[a].name /\ v.file = f
      /\ v.todo = req[a].todo /\ v.kind = req[a].kind
  BY <1>0, <1>5, <1>6, <1>7 DEF Activities
<1>10. /\ handles' \in [Names -> Int] /\ \A m \in Names \ {req[a].name} : handles'[m] = handles[m]
       /\ handles'[req[a].name] = handles[req[a].name] + 1 /\ handles[req[a].name] \in Int
  BY <1>1, <1>2 DEF TypeOK
<1>11. handles'[req[a].name] = handles[req[a].name]
             + (IF v.pc \in {"version", "record"} THEN 1 ELSE 0)
             - (IF req[a].pc \in {"version", "record"} THEN 1 ELSE 0)
  BY <1>1, <1>9, <1>10
<1>12. Undisturbed
  BY <1>1 DEF Undisturbed, TypeOK
<1>13. /\ req[a].pc \in Locking /\ v.pc \in Locking /\ UNCHANGED <<mu, cache>>
       /\ v.pc \in {"version", "record"} => v.file \in 1 .. MaxFiles
  BY <1>0, <1>1, <1>5, <1>9
<1>14. FilesExist' /\ file' \in [Paths -> Nat] /\ created' \in [Paths -> Nat]
  BY <1>3
<1> QED
  BY <1>8, <1>9, <1>10, <1>11, <1>12, <1>13, <1>14, GoOnOpening

\* The schema version: recorded next, refused, or supported.
LEMMA ReadVersionKeeps ==
  ASSUME TypeOK, ServerInv, NEW a \in Actors, ReadVersion(a)
  PROVE  TypeOK' /\ ServerInv'
<1>0. /\ {"version", "record"} \subseteq Locking /\ "record" \in Labels
  BY DEF Locking, Labels, AtDatabase
<1>1. /\ req[a].pc = "version" /\ UNCHANGED <<disk, entry, scraper, fails, broken>> /\ Server
  BY DEF ReadVersion
<1>2. Undisturbed /\ SameFiles
  BY <1>1 DEF Undisturbed, SameFiles, disk, TypeOK
<1>3. CASE Goto(a, "record") /\ UNCHANGED <<mu, cache, handles>>
  <2>1. PICK v : v = [req[a] EXCEPT !.pc = "record"]
    OBVIOUS
  <2>2. req' = [req EXCEPT ![a] = v]
    BY <1>3, <2>1 DEF Goto
  <2>3. /\ v \in Activities /\ v.pc = "record" /\ v.name = req[a].name /\ v.file = req[a].file
        /\ v.todo = req[a].todo /\ v.kind = req[a].kind
    BY <1>0, <2>1 DEF Activities, TypeOK
  <2>4. FilesExist' /\ file' \in [Paths -> Nat] /\ created' \in [Paths -> Nat]
    BY <1>2, SameFilesExist DEF ServerInv
  <2>5. /\ handles' \in [Names -> Int] /\ \A m \in Names : handles'[m] = handles[m]
        /\ req[a].name \in Names /\ handles[req[a].name] \in Int
    BY <1>0, <1>1, <1>3, Holding DEF TypeOK
  <2>6. handles'[req[a].name] = handles[req[a].name]
             + (IF v.pc \in {"version", "record"} THEN 1 ELSE 0)
             - (IF req[a].pc \in {"version", "record"} THEN 1 ELSE 0)
    BY <1>1, <2>3, <2>5
  <2>7. req[a].file \in 1 .. MaxFiles
    BY <1>1 DEF ServerInv, ActorsOK, ActorOK
  <2> QED
    BY <1>0, <1>1, <1>2, <1>3, <2>2, <2>3, <2>4, <2>5, <2>6, <2>7, GoOnOpening
<1>4. CASE Discard(a)
  BY <1>0, <1>1, <1>2, <1>4, GiveUp DEF Discard
<1>5. CASE Opened(a)
  BY <1>1, <1>2, <1>5, OpenedKeeps
<1>6. \/ Goto(a, "record") /\ UNCHANGED <<mu, cache, handles>>
      \/ Discard(a) \/ Opened(a)
  BY DEF ReadVersion
<1> QED
  BY <1>3, <1>4, <1>5, <1>6

\* INSERT OR IGNORE of the version, or a failure of initSchema.
LEMMA RecordKeeps ==
  ASSUME TypeOK, ServerInv, NEW a \in Actors, Record(a) \/ OpenFails(a)
  PROVE  TypeOK' /\ ServerInv'
<1>0. {"version", "record"} \subseteq Locking
  BY DEF Locking
<1>1. CASE Record(a)
  <2>1. /\ req[a].pc = "record" /\ Opened(a)
        /\ version' = [version EXCEPT ![entry[req[a].name]][req[a].file] =
                           IF @ = 0 THEN Supported ELSE @]
        /\ UNCHANGED <<file, events, created, steps, entry, scraper, fails, broken>> /\ Server
    BY <1>1 DEF Record
  <2>2. entry[req[a].name] \in Paths /\ req[a].file \in 1 .. MaxFiles
    BY <1>0, <2>1, Holding DEF ServerInv, ActorsOK, ActorOK
  <2>3. version' \in [Paths -> [1 .. MaxFiles -> Nat]]
    BY <2>1, <2>2, RecordedVersion
  <2>4. Undisturbed /\ SameFiles
    BY <2>1, <2>3 DEF Undisturbed, SameFiles, TypeOK
  <2> QED
    BY <2>1, <2>4, OpenedKeeps
<1>2. CASE OpenFails(a)
  <2>1. /\ req[a].pc \in {"version", "record"} /\ fails' = fails + 1 /\ Discard(a)
        /\ UNCHANGED <<disk, entry, scraper, broken>> /\ Server
    BY <1>2 DEF OpenFails
  <2>2. Undisturbed /\ SameFiles
    BY <2>1 DEF Undisturbed, SameFiles, disk, TypeOK
  <2> QED
    BY <1>0, <2>1, <2>2, GiveUp DEF Discard
<1> QED
  BY <1>1, <1>2

-----------------------------------------------------------------------------
(* Shutdown, and the applications.                                         *)

\* Steps that no actor takes keep what the actors know.
LEMMA RestKeeps ==
  ASSUME TypeOK, ServerInv, TypeOK', UNCHANGED <<entry, mu, req>>,
         \A n \in Names : cache[n] # NoHandle => cache'[n] # NoHandle,
         \A n \in Names : mu[n] # NoOne => cache'[n] = cache[n],
         \A p \in Paths, i \in 1 .. MaxFiles : events[p][i].old <= events'[p][i].old
  PROVE  ActorsOK' /\ LocksAreHeld'
<1>1. ASSUME NEW d \in Actors PROVE ActorOK(d)'
  <2>1. d # NoOne
    BY UIServerAssumption
  <2>2. Keeps(d)
    BY <2>1 DEF Keeps
  <2> QED
    BY <2>2, OtherOK DEF ServerInv, ActorsOK
<1> QED
  BY <1>1 DEF ActorsOK, LocksAreHeld, ServerInv

\* A signal, the end of the wait, a failing listener, and the end of the process.
LEMMA PhaseKeeps ==
  ASSUME TypeOK, ServerInv, Signal \/ Drained \/ ServeFails \/ Exit
  PROVE  TypeOK' /\ ServerInv'
<1>1. Rest /\ UNCHANGED <<cache, handles>>
  BY DEF Signal, Drained, ServeFails, Exit
<1>2. phase' \in {"draining"} \cup Closing /\ toClose' \in {toClose, Listed} /\ phase # "warmup"
  BY DEF Signal, Drained, ServeFails, Exit, Closing
<1>3. rushed' \in BOOLEAN /\ broken' \in BOOLEAN /\ (broken' => broken)
  <2>1. rushed' \in BOOLEAN
    <3>1. CASE Signal \/ Exit
      BY <3>1, Zenon DEF Signal, Exit, TypeOK
    <3>2. CASE Drained \/ ServeFails
      BY <3>2 DEF Drained, ServeFails
    <3> QED
      BY <3>1, <3>2
  <2>2. broken' \in BOOLEAN /\ (broken' => broken)
    BY <1>1, Zenon DEF Rest, TypeOK
  <2> QED
    BY <2>1, <2>2
<1>4. TypeOK'
  <2>1. toClose' \subseteq Names
    BY <1>2 DEF Listed, TypeOK
  <2> QED
    BY <1>1, <1>2, <1>3, <2>1 DEF TypeOK, Rest, disk
<1>5. ActorsOK' /\ LocksAreHeld'
  <2>1. \A p \in Paths, i \in 1 .. MaxFiles : events[p][i].old <= events'[p][i].old
    BY <1>1, EventsSame DEF Rest, disk
  <2> QED
    BY <1>1, <1>4, <2>1, RestKeeps DEF Rest
<1>6. FilesExist'
  BY <1>1 DEF Rest, disk, FilesExist, ServerInv
<1>7. HandleCounted'
  <2>1. \A n \in Names : InMap(n)' = InMap(n) /\ BeingOpened(n)' = BeingOpened(n)
    BY <1>1 DEF Rest, InMap, BeingOpened, Opening
  <2> QED
    BY <1>1, <2>1 DEF HandleCounted, ServerInv
<1>8. MapOK'
  <2>1. Listed' = Listed
    BY <1>1 DEF Rest, Listed
  <2>2. phase \in Closing => phase' \in Closing
    BY DEF Signal, Drained, ServeFails, Exit, Closing
  <2> QED
    BY <1>1, <2>1, <2>2 DEF MapOK, ServerInv
<1>9. PhaseOK'
  <2>0. /\ req[Main].pc = "done" /\ UNCHANGED <<req, cache>>
    BY <1>1, <1>2 DEF Rest, ServerInv, PhaseOK
  <2>1. Running' = Running
    BY <2>0 DEF Running
  <2>2. CASE Signal
    BY <1>3, <2>0, <2>2 DEF Signal, PhaseOK, ServerInv, Closing
  <2>3. CASE Drained
    <3>1. rushed' = (Running # {}) /\ phase' = "closing" /\ toClose' = Listed /\ ~broken
      BY <2>3 DEF Drained, PhaseOK, ServerInv, Closing
    <3>2. \A n \in Names \ Listed : ~cache'[n].open
      BY <2>0 DEF MapOK, ServerInv
    <3> QED
      BY <1>3, <2>0, <2>1, <3>1, <3>2 DEF PhaseOK, Closing
  <2>4. CASE ServeFails
    BY <1>3, <2>0, <2>4 DEF ServeFails, PhaseOK, ServerInv, Closing
  <2>5. CASE Exit
    <3>1. /\ phase = "closing" /\ toClose = {} /\ phase' = "exited"
          /\ UNCHANGED <<toClose, rushed>>
      BY <2>5 DEF Exit
    <3> QED
      BY <1>3, <2>0, <2>1, <3>1 DEF PhaseOK, ServerInv, Closing
  <2> QED
    BY <2>2, <2>3, <2>4, <2>5
<1> QED
  BY <1>4, <1>5, <1>6, <1>7, <1>8, <1>9 DEF ServerInv

\* Manager.Close visits an entry.
LEMMA CloseEntryKeeps ==
  ASSUME TypeOK, ServerInv, NEW n \in Names, CloseEntry(n)
  PROVE  TypeOK' /\ ServerInv'
<1>0. /\ cache \in [Names -> [file : Nat, open : BOOLEAN]]
      /\ cache[n] \in [file : Nat, open : BOOLEAN]
      /\ handles \in [Names -> Int]
  BY DEF TypeOK
<1>1. /\ phase = "closing" /\ n \in toClose /\ mu[n] = NoOne /\ toClose' = toClose \ {n}
      /\ handles' = [handles EXCEPT ![n] = IF cache[n].open THEN @ - 1 ELSE @]
      /\ cache' = [cache EXCEPT ![n].open = FALSE]
      /\ UNCHANGED <<phase, rushed>> /\ Rest
  BY DEF CloseEntry
<1>2. PICK h : h = [cache[n] EXCEPT !.open = FALSE]
  OBVIOUS
<1>3. h \in [file : Nat, open : BOOLEAN] /\ h.open = FALSE /\ h.file = cache[n].file
  BY <1>0, <1>2
<1>4. /\ cache' \in [Names -> [file : Nat, open : BOOLEAN]] /\ cache'[n] = h
      /\ \A m \in Names \ {n} : cache'[m] = cache[m]
  BY <1>0, <1>1, <1>2, <1>3
<1>5. /\ handles' \in [Names -> Int]
      /\ handles'[n] = IF cache[n].open THEN handles[n] - 1 ELSE handles[n]
      /\ \A m \in Names \ {n} : handles'[m] = handles[m]
  BY <1>0, <1>1
<1>6. rushed' \in BOOLEAN /\ broken' \in BOOLEAN /\ (broken' => broken)
  BY <1>1, Zenon DEF Rest, TypeOK
<1>7. TypeOK'
  BY <1>1, <1>4, <1>5, <1>6 DEF TypeOK, Rest, disk
<1>8. \A m \in Names : cache[m] # NoHandle => cache'[m] # NoHandle
  <2>1. ASSUME cache[n] # NoHandle PROVE h # NoHandle
    <3>1. cache[n].file \in 1 .. MaxFiles
      BY <2>1 DEF ServerInv, MapOK
    <3> QED
      BY <1>3, <3>1 DEF NoHandle
  <2> QED
    BY <1>4, <2>1
<1>9. ActorsOK' /\ LocksAreHeld'
  <2>1. \A p \in Paths, i \in 1 .. MaxFiles : events[p][i].old <= events'[p][i].old
    BY <1>1, EventsSame DEF Rest, disk
  <2> QED
    BY <1>1, <1>4, <1>7, <1>8, <2>1, RestKeeps DEF Rest
<1>10. FilesExist'
  BY <1>1 DEF Rest, disk, FilesExist, ServerInv
<1>11. HandleCounted'
  <2>1. \A m \in Names, d \in Actors : Opening(d, m)' <=> Opening(d, m)
    BY <1>1 DEF Rest, Opening
  <2>2. InMap(n)' = 0 /\ BeingOpened(n)' = BeingOpened(n)
    BY <1>3, <1>4, <2>1 DEF InMap, BeingOpened
  <2>3. BeingOpened(n) \in Int
    BY DEF BeingOpened
  <2>4. InMap(n) = IF cache[n].open THEN 1 ELSE 0
    BY DEF InMap
  <2>5. handles[n] = InMap(n) + BeingOpened(n)
    BY DEF HandleCounted, ServerInv
  <2>6. handles'[n] = InMap(n)' + BeingOpened(n)'
    BY <1>5, <2>2, <2>3, <2>4, <2>5
  <2> QED
    BY <1>4, <1>5, <2>1, <2>6, CountOthers DEF ServerInv
<1>12. MapOK'
  <2>1. Listed' = Listed /\ phase' \in Closing
    BY <1>1 DEF Rest, Listed, Closing
  <2>2. cache'[n] = NoHandle \/ cache'[n].file \in 1 .. MaxFiles
    <3>1. CASE cache[n] = NoHandle
      <4>1. h = [file |-> h.file, open |-> h.open]
        BY <1>3
      <4>2. h.file = 0
        BY <1>3, <3>1 DEF NoHandle
      <4> QED
        BY <1>3, <1>4, <4>1, <4>2 DEF NoHandle
    <3>2. CASE cache[n].file \in 1 .. MaxFiles
      BY <1>3, <1>4, <3>2
    <3> QED
      BY <3>1, <3>2 DEF MapOK, ServerInv
  <2> QED
    BY <1>3, <1>4, <2>1, <2>2 DEF MapOK, ServerInv
<1>13. PhaseOK'
  <2>1. Running' = Running /\ UNCHANGED req
    BY <1>1 DEF Rest, Running
  <2>2. phase \in Closing /\ phase' = phase /\ phase' # "exited"
    BY <1>1 DEF Closing
  <2>3. \A m \in Names \ toClose' : m = n \/ m \in Names \ toClose
    BY <1>1
  <2> QED
    BY <1>1, <1>3, <1>4, <1>6, <2>1, <2>2, <2>3 DEF PhaseOK, ServerInv
<1> QED
  BY <1>7, <1>9, <1>10, <1>11, <1>12, <1>13 DEF ServerInv

\* What the applications do to the files and the events.
LEMMA ApplicationFiles ==
  ASSUME TypeOK, ServerInv, NEW p \in Paths, Application(p)
  PROVE  /\ FilesExist' /\ file' \in [Paths -> Nat] /\ created' \in [Paths -> Nat]
         /\ version' \in [Paths -> [1 .. MaxFiles -> Nat]]
         /\ events' \in [Paths -> [1 .. MaxFiles -> Logs]]
         /\ \A q \in Paths, i \in 1 .. MaxFiles : events[q][i].old <= events'[q][i].old
         /\ \A q \in Paths, i \in 1 .. MaxFiles :
               version[q][i] # 0 => version'[q][i] = version[q][i]
         /\ Others
<1>0. /\ file \in [Paths -> Nat] /\ created \in [Paths -> Nat] /\ MaxFiles \in Nat
      /\ version \in [Paths -> [1 .. MaxFiles -> Nat]]
      /\ events \in [Paths -> [1 .. MaxFiles -> Logs]]
      /\ created[p] \in 1 .. MaxFiles /\ file[p] \in {0, created[p]}
      /\ file[p] = 0 => created[p] < MaxFiles
      /\ FilesExist
  BY UIServerAssumption DEF TypeOK, ServerInv, FilesExist
<1>1. CASE CreateFile(p)
  <2>1. /\ file[p] = 0 /\ created' = [created EXCEPT ![p] = @ + 1]
        /\ file' = [file EXCEPT ![p] = created'[p]] /\ UNCHANGED <<version, events>> /\ Others
    BY <1>1 DEF CreateFile
  <2>2. Connect(p)
    BY <2>1 DEF Connect
  <2> QED
    BY <1>0, <2>1, <2>2, ConnectFiles, EventsSame
<1>2. CASE RemoveFile(p)
  <2>1. /\ created[p] < MaxFiles /\ file' = [file EXCEPT ![p] = 0]
        /\ UNCHANGED <<version, events, created>> /\ Others
    BY <1>2 DEF RemoveFile
  <2>2. FilesExist' /\ file' \in [Paths -> Nat]
    BY <1>0, <2>1 DEF FilesExist
  <2> QED
    BY <1>0, <2>1, <2>2, EventsSame
<1>3. CASE RecordVersion(p)
  <2>1. /\ file[p] # 0 /\ version[p][file[p]] = 0
        /\ UNCHANGED <<file, events, created>> /\ Others
    BY <1>3 DEF RecordVersion
  <2>2. PICK v \in {Supported, Supported + 1} : version' = [version EXCEPT ![p][file[p]] = v]
    BY <1>3 DEF RecordVersion
  <2>3. file[p] \in 1 .. MaxFiles /\ v \in Nat
    BY <1>0, <2>1 DEF Supported
  <2>4. PICK w : w = [version[p] EXCEPT ![file[p]] = v]
    OBVIOUS
  <2>5. /\ w \in [1 .. MaxFiles -> Nat]
        /\ \A i \in 1 .. MaxFiles : version[p][i] # 0 => w[i] = version[p][i]
    BY <1>0, <2>1, <2>3, <2>4
  <2>6. version' = [version EXCEPT ![p] = w]
    BY <2>2, <2>4
  <2>7. /\ version' \in [Paths -> [1 .. MaxFiles -> Nat]]
        /\ \A q \in Paths, i \in 1 .. MaxFiles :
              version[q][i] # 0 => version'[q][i] = version[q][i]
    BY <1>0, <2>5, <2>6
  <2>8. FilesExist'
    BY <1>0, <2>1 DEF FilesExist
  <2> QED
    BY <1>0, <2>1, <2>7, <2>8, EventsSame
<1>4. CASE file[p] # 0 /\ (Publish(p) \/ Retire(p) \/ SaveCursor(p))
  <2>1. file[p] \in 1 .. MaxFiles
    BY <1>0, <1>4
  <2>2. Log(p) \in Logs
    <3>1. events[p] \in [1 .. MaxFiles -> Logs]
      BY <1>0
    <3> QED
      BY <2>1, <3>1 DEF Log
  <2>3. PICK e \in Logs : UseEvents(p, e) /\ Log(p).old <= e.old
    <3>1. CASE Publish(p)
      <4>1. PICK e : e = [Log(p) EXCEPT !.new = Log(p).new + 1]
        OBVIOUS
      <4>2. e \in Logs /\ e.old = Log(p).old /\ Log(p).old \in Int
        BY <2>2, <4>1 DEF Logs
      <4>3. UseEvents(p, e)
        BY <3>1, <4>1 DEF Publish, UseEvents
      <4>4. Log(p).old <= e.old
        BY <4>2
      <4> QED
        BY <4>2, <4>3, <4>4
    <3>2. CASE Retire(p)
      <4>1. PICK e : e = [Log(p) EXCEPT !.old = Log(p).old + 1]
        OBVIOUS
      <4>2. e \in Logs /\ e.old = Log(p).old + 1 /\ Log(p).old \in Int
        BY <2>2, <4>1 DEF Logs
      <4>3. UseEvents(p, e)
        BY <3>2, <4>1 DEF Retire, UseEvents
      <4>4. Log(p).old <= e.old
        BY <4>2
      <4> QED
        BY <4>2, <4>3, <4>4
    <3>3. CASE SaveCursor(p)
      <4>1. PICK s \in Log(p).cur + 1 .. Log(p).new : UseEvents(p, [Log(p) EXCEPT !.cur = s])
        BY <3>3 DEF SaveCursor
      <4>2. PICK e : e = [Log(p) EXCEPT !.cur = s]
        OBVIOUS
      <4>3. s \in Int
        BY <2>2 DEF Logs
      <4>4. e \in Logs /\ e.old = Log(p).old /\ Log(p).old \in Int
        BY <2>2, <4>2, <4>3 DEF Logs
      <4>5. UseEvents(p, e)
        BY <4>1, <4>2 DEF UseEvents
      <4>6. Log(p).old <= e.old
        BY <4>4
      <4> QED
        BY <4>4, <4>5, <4>6
    <3> QED
      BY <1>4, <3>1, <3>2, <3>3
  <2>4. events' = [events EXCEPT ![p][file[p]] = e] /\ UNCHANGED <<file, version, created>> /\ Others
    BY <2>3 DEF UseEvents
  <2>5. PICK w : w = [events[p] EXCEPT ![file[p]] = e]
    OBVIOUS
  <2>6. events' = [events EXCEPT ![p] = w]
    BY <2>4, <2>5
  <2>7. /\ w \in [1 .. MaxFiles -> Logs] /\ w[file[p]] = e
        /\ \A i \in 1 .. MaxFiles \ {file[p]} : w[i] = events[p][i]
    BY <1>0, <2>1, <2>3, <2>5
  <2>8. /\ events' \in [Paths -> [1 .. MaxFiles -> Logs]] /\ events'[p] = w
        /\ \A q \in Paths \ {p} : events'[q] = events[q]
    BY <1>0, <2>6, <2>7
  <2>9. ASSUME NEW q \in Paths, NEW i \in 1 .. MaxFiles
        PROVE  events[q][i].old <= events'[q][i].old
    <3>1. events[q] \in [1 .. MaxFiles -> Logs]
      BY <1>0
    <3>2. events[q][i] \in Logs
      BY <3>1
    <3>3. events[q][i].old \in Int
      BY <3>2 DEF Logs
    <3>4. CASE q = p /\ i = file[p]
      <4>1. events[q][i] = Log(p) /\ events'[q][i] = e
        BY <2>7, <2>8, <3>4 DEF Log
      <4> QED
        BY <2>3, <4>1
    <3>5. CASE ~(q = p /\ i = file[p])
      <4>1. events'[q][i] = events[q][i]
        BY <2>7, <2>8, <3>5
      <4> QED
        BY <3>3, <4>1
    <3> QED
      BY <3>4, <3>5
  <2>10. FilesExist'
    BY <1>0, <2>4 DEF FilesExist
  <2> QED
    BY <1>0, <2>4, <2>8, <2>9, <2>10
<1> QED
  BY <1>1, <1>2, <1>3, <1>4 DEF Application

\* The applications do not touch what the server has in memory.
LEMMA ApplicationKeeps ==
  ASSUME TypeOK, ServerInv, NEW p \in Paths, Application(p)
  PROVE  TypeOK' /\ ServerInv'
<1>1. /\ FilesExist' /\ file' \in [Paths -> Nat] /\ created' \in [Paths -> Nat]
      /\ version' \in [Paths -> [1 .. MaxFiles -> Nat]]
      /\ events' \in [Paths -> [1 .. MaxFiles -> Logs]]
      /\ \A q \in Paths, i \in 1 .. MaxFiles : events[q][i].old <= events'[q][i].old
      /\ Others
  BY ApplicationFiles
<1>2. steps' = steps + 1 /\ UNCHANGED <<entry, mu, cache, handles, req, scraper, phase,
                                       toClose, rushed, mix, fails, broken>>
  BY <1>1 DEF Others, manager
<1>3. rushed' \in BOOLEAN /\ broken' \in BOOLEAN
  BY <1>2, Zenon DEF TypeOK
<1>4. TypeOK'
  BY <1>1, <1>2, <1>3 DEF TypeOK
<1>5. ActorsOK' /\ LocksAreHeld'
  BY <1>1, <1>2, <1>4, RestKeeps
<1>6. HandleCounted'
  <2>1. \A n \in Names : InMap(n)' = InMap(n) /\ BeingOpened(n)' = BeingOpened(n)
    BY <1>2 DEF InMap, BeingOpened, Opening
  <2> QED
    BY <1>2, <2>1 DEF HandleCounted, ServerInv
<1>7. MapOK'
  BY <1>2 DEF MapOK, ServerInv, Listed
<1>8. PhaseOK'
  BY <1>2 DEF PhaseOK, ServerInv, Running
<1> QED
  BY <1>1, <1>4, <1>5, <1>6, <1>7, <1>8 DEF ServerInv

-----------------------------------------------------------------------------
(* The theorems.                                                           *)

\* The server starts with no handle, no lock and no request.
LEMMA ServerInit ==
  Init => TypeOK /\ ServerInv
<1> SUFFICES ASSUME Init PROVE TypeOK /\ ServerInv
  OBVIOUS
<1>0. MaxFiles \in Nat \ {0} /\ Main \in Actors /\ NoOne \notin Actors
  BY UIServerAssumption DEF Actors
<1>1. /\ file \in [Paths -> Nat] /\ created \in [Paths -> Nat]
      /\ \A p \in Paths : file[p] = 1 /\ created[p] = 1
  BY DEF Init
<1>2. SomeEvents \in Logs /\ CaughtUp \in Logs /\ NoEvents \in Logs
  BY DEF SomeEvents, CaughtUp, NoEvents, Logs
<1>3. events \in [Paths -> [1 .. MaxFiles -> Logs]]
  <2>1. PICK e \in {SomeEvents, CaughtUp, NoEvents} :
          events = [p \in Paths |-> [i \in 1 .. MaxFiles |-> IF i = file[p] THEN e ELSE NoEvents]]
    BY DEF Init
  <2> QED
    BY <1>2, <2>1
<1>4. version \in [Paths -> [1 .. MaxFiles -> Nat]]
  BY DEF Init, Supported
<1>5. entry \in [Names -> Paths \cup {NoPath}]
  BY UIServerAssumption DEF Init, MergedSources
<1>6. mu \in [Names -> Actors \cup {NoOne}] /\ \A n \in Names : mu[n] = NoOne
  BY DEF Init
<1>7. /\ NoHandle \in [file : Nat, open : BOOLEAN] /\ ~NoHandle.open
  BY DEF NoHandle
<1>8. /\ cache \in [Names -> [file : Nat, open : BOOLEAN]]
      /\ \A n \in Names : cache[n] = NoHandle /\ ~cache[n].open
  BY <1>7 DEF Init
<1>9. PICK w : w = [Idle EXCEPT !.kind = "warmup", !.pc = "names"]
  OBVIOUS
<1>10. w \in Activities /\ w.pc = "names" /\ w.kind = "warmup" /\ w.todo = {}
  <2>1. w = [kind |-> "warmup", pc |-> "names", name |-> NoPath, todo |-> {}, file |-> 0,
             info |-> NoInfo]
    BY <1>9 DEF Idle
  <2>2. "names" \in Labels
    BY DEF Labels
  <2> QED
    BY <2>1, <2>2 DEF Activities, NoInfo
<1>11. req = [a \in Actors |-> IF a # Main THEN Idle ELSE w]
  BY <1>9 DEF Init
<1>12. Idle \in Activities /\ Idle.pc = "idle" /\ Idle.todo = {}
  BY Activity DEF Idle
<1>13. /\ req \in [Actors -> Activities]
       /\ \A a \in Actors : req[a].pc \in {"idle", "names"} /\ req[a].todo = {}
       /\ req[Main].kind = "warmup"
  BY <1>0, <1>10, <1>11, <1>12
<1>14. handles \in [Names -> Int] /\ \A n \in Names : handles[n] = 0
  BY DEF Init
<1>15. rushed \in BOOLEAN /\ broken \in BOOLEAN /\ ~rushed /\ ~broken
  BY DEF Init
<1>16. /\ phase = "warmup" /\ toClose = {} /\ steps = 0 /\ fails = 0 /\ scraper = NoOne
       /\ mix \subseteq AllKinds
  BY UIServerAssumption DEF Init
<1>17. TypeOK
  BY <1>1, <1>3, <1>4, <1>5, <1>6, <1>8, <1>13, <1>14, <1>15, <1>16 DEF TypeOK
<1>18. FilesExist
  BY <1>0, <1>1 DEF FilesExist
<1>19. ActorsOK
  <2>1. {"idle", "names"} \cap AtDatabase = {} /\ Locking \subseteq AtDatabase
        /\ {"use", "newest", "cursors", "version", "record"} \subseteq AtDatabase
    BY DEF AtDatabase, Locking
  <2> QED
    BY <1>13, <2>1 DEF ActorsOK, ActorOK
<1>20. LocksAreHeld
  BY <1>6 DEF LocksAreHeld
<1>21. MapOK
  BY <1>8 DEF MapOK
<1>22. HandleCounted
  <2>1. \A n \in Names : InMap(n) = 0 /\ BeingOpened(n) = 0
    BY <1>8, <1>13 DEF InMap, BeingOpened, Opening
  <2> QED
    BY <1>14, <2>1 DEF HandleCounted
<1>23. PhaseOK
  BY <1>13, <1>15, <1>16 DEF PhaseOK, Closing
<1> QED
  BY <1>17, <1>18, <1>19, <1>20, <1>21, <1>22, <1>23 DEF ServerInv

\* Every step keeps the invariant.
LEMMA ServerNext ==
  TypeOK /\ ServerInv /\ [Next]_vars => TypeOK' /\ ServerInv'
<1> SUFFICES ASSUME TypeOK, ServerInv, [Next]_vars PROVE TypeOK' /\ ServerInv'
  OBVIOUS
<1>1. ASSUME NEW a \in Actors, Handle(a) PROVE TypeOK' /\ ServerInv'
  <2>1. CASE Step(a)
    BY <2>1, ListNamesKeeps, NextNameKeeps, CacheKeeps, StatKeeps, OpenKeeps,
       ReadVersionKeeps, RecordKeeps, ProceedKeeps DEF Step
  <2>2. CASE Rescan(a)
    BY <2>2, RescanKeeps
  <2>3. CASE Collect(a)
    BY <2>3, CollectKeeps
  <2>4. CASE Warmed(a) \/ ShowKeys(a) \/ SearchKeys(a) \/ ShowEvents(a) \/ ShowRow(a) \/ ShowSeries(a)
    BY <2>4, ProceedKeeps
  <2>5. CASE Mutate(a) \/ Audit(a)
    BY <2>5, MutateKeeps
  <2>6. CASE EventStats(a)
    BY <2>6, EventStatsKeeps
  <2>7. CASE LastAssignedSeq(a)
    BY <2>7, LastAssignedKeeps
  <2>8. CASE Cursors(a)
    BY <2>8, CursorsKeeps
  <2> QED
    BY <1>1, <2>1, <2>2, <2>3, <2>4, <2>5, <2>6, <2>7, <2>8 DEF Handle
<1>2. ASSUME NEW a \in Actors, OpenFails(a) PROVE TypeOK' /\ ServerInv'
  BY <1>2, RecordKeeps
<1>3. ASSUME NEW r \in Requests, Serve(r) PROVE TypeOK' /\ ServerInv'
  BY <1>3, ServeKeeps
<1>4. ASSUME NEW p \in Paths, Application(p) PROVE TypeOK' /\ ServerInv'
  BY <1>4, ApplicationKeeps
<1>5. CASE Signal \/ ServeFails \/ Shutdown
  BY <1>5, PhaseKeeps, CloseEntryKeeps DEF Shutdown
<1>6. CASE UNCHANGED vars
  <2>1. /\ UNCHANGED <<file, version, events, created, steps, entry, mu, cache, handles, req,
                       scraper, phase, toClose, rushed, mix, fails, broken>>
    BY <1>6 DEF vars, disk, manager
  <2>2. TypeOK'
    BY <2>1 DEF TypeOK
  <2>3. FilesExist' /\ LocksAreHeld' /\ MapOK' /\ PhaseOK'
    BY <2>1 DEF ServerInv, FilesExist, LocksAreHeld, MapOK, PhaseOK, Listed, Running
  <2>4. ActorsOK'
    BY <2>1 DEF ServerInv, ActorsOK, ActorOK, Listed
  <2>5. HandleCounted'
    BY <2>1 DEF ServerInv, HandleCounted, InMap, BeingOpened, Opening
  <2> QED
    BY <2>2, <2>3, <2>4, <2>5 DEF ServerInv
<1> QED
  BY <1>1, <1>2, <1>3, <1>4, <1>5, <1>6 DEF Next

\* The server's maps, mutexes and requests have their types in every reachable
\* state.
THEOREM ServerTypeCorrect == Spec => []TypeOK
<1> QED
  BY ServerInit, ServerNext, PTL DEF Spec

\* A mutex is held by the one actor that is opening the database, which has found
\* the map empty; a handle is in the map while it is used; Close begins only when
\* nothing runs, or in a rush.
THEOREM ServerInvariant == Spec => []ServerInv
<1> QED
  BY ServerInit, ServerNext, PTL DEF Spec

\* dbEntry.Cache opens each database once, however many requests, scrapes and
\* failures there are.
THEOREM HandlesTheorem == Spec => []HandlesAreShared
<1>1. TypeOK /\ ServerInv => HandlesAreShared
  <2> SUFFICES ASSUME TypeOK, ServerInv, NEW n \in Names
               PROVE  /\ handles[n] = (IF cache[n].open THEN 1 ELSE 0) + Cardinality(
                             {a \in Actors : req[a].name = n /\ req[a].pc \in {"version", "record"}})
                      /\ handles[n] <= 1
    BY DEF HandlesAreShared
  <2> DEFINE S == {a \in Actors : req[a].name = n /\ req[a].pc \in {"version", "record"}}
  <2>0. {"version", "record"} \subseteq Locking
    BY DEF Locking
  <2>1. handles[n] = InMap(n) + BeingOpened(n) /\ InMap(n) = (IF cache[n].open THEN 1 ELSE 0)
    BY DEF ServerInv, HandleCounted, InMap
  <2>2. CASE S = {}
    <3>1. BeingOpened(n) = 0
      BY <2>2 DEF BeingOpened, Opening
    <3>2. Cardinality(S) = 0
      BY <2>2, FS_EmptySet
    <3> QED
      BY <2>1, <3>1, <3>2
  <2>3. CASE S # {}
    <3>1. PICK a \in Actors : req[a].name = n /\ req[a].pc \in {"version", "record"}
      BY <2>3
    <3>2. mu[n] = a /\ cache[n] = NoHandle
      BY <2>0, <3>1 DEF ServerInv, ActorsOK, ActorOK
    <3>3. S = {a}
      BY <2>0, <3>1, <3>2 DEF ServerInv, ActorsOK, ActorOK
    <3>4. Cardinality(S) = 1
      BY <3>3, FS_Singleton
    <3>5. BeingOpened(n) = 1
      BY <3>1 DEF BeingOpened, Opening
    <3>6. ~cache[n].open
      BY <3>2 DEF NoHandle
    <3> QED
      BY <2>1, <3>4, <3>5, <3>6
  <2> QED
    BY <2>2, <2>3
<1> QED
  BY <1>1, ServerTypeCorrect, ServerInvariant, PTL

\* Server.Close, called after Shutdown has waited, breaks no request and leaves
\* no handle open.
THEOREM ClosesTheorem == Spec => []ClosesAfterDraining
<1>1. TypeOK /\ ServerInv => ClosesAfterDraining
  <2> SUFFICES ASSUME TypeOK, ServerInv PROVE ClosesAfterDraining
    OBVIOUS
  <2>1. broken => rushed
    BY DEF ServerInv, PhaseOK
  <2>2. ASSUME phase = "exited", ~rushed, NEW n \in Names PROVE handles[n] = 0
    <3>1. Running = {} /\ toClose = {} /\ req[Main].pc = "done"
      BY <2>2 DEF ServerInv, PhaseOK, Closing
    <3>2. ~cache[n].open
      BY <2>2, <3>1 DEF ServerInv, PhaseOK, Closing
    <3>3. \A a \in Actors : ~Opening(a, n)
      BY <3>1 DEF Actors, Running, Opening
    <3>4. InMap(n) = 0 /\ BeingOpened(n) = 0
      BY <3>2, <3>3 DEF InMap, BeingOpened
    <3> QED
      BY <3>4 DEF ServerInv, HandleCounted
  <2> QED
    BY <2>1, <2>2 DEF ClosesAfterDraining
<1> QED
  BY <1>1, ServerTypeCorrect, ServerInvariant, PTL

\* initSchema records a schema version only where there is none, and Rescan keeps
\* the path of every name that has one.
THEOREM ReplacesTheorem == Spec => NothingIsReplaced
<1> DEFINE Versions == \A p \in Paths, i \in 1 .. MaxFiles :
                           version[p][i] # 0 => version'[p][i] = version[p][i]
           Entries == \A n \in Names : entry[n] # NoPath => entry'[n] = entry[n]
<1>1. ASSUME TypeOK, ServerInv, [Next]_vars PROVE Versions /\ Entries
  <2>0. /\ UNCHANGED version => Versions
        /\ UNCHANGED entry => Entries
    OBVIOUS
  <2> HIDE DEF Versions, Entries
  <2>1. ASSUME NEW a \in Actors, Record(a) PROVE Versions /\ Entries
    <3>1. /\ req[a].pc = "record" /\ UNCHANGED entry
          /\ version' = [version EXCEPT ![entry[req[a].name]][req[a].file] =
                             IF @ = 0 THEN Supported ELSE @]
      BY <2>1 DEF Record
    <3>2. entry[req[a].name] \in Paths /\ req[a].file \in 1 .. MaxFiles
      BY <1>1, <3>1, Holding DEF ServerInv, ActorsOK, ActorOK, Locking
    <3>3. Versions
      BY <1>1, <3>1, <3>2, RecordedVersion DEF Versions
    <3> QED
      BY <2>0, <3>1, <3>3
  <2>2. ASSUME NEW a \in Actors, Rescan(a) PROVE Versions /\ Entries
    <3>1. UNCHANGED version /\ \A n \in Names : entry[n] # NoPath => entry'[n] = entry[n]
      BY <2>2 DEF Rescan, Listed, disk
    <3> QED
      BY <2>0, <3>1 DEF Entries
  <2>3. ASSUME NEW a \in Actors, Handle(a), ~Record(a), ~Rescan(a)
        PROVE  UNCHANGED <<version, entry>>
    <3>1. CASE Step(a)
      BY <2>3, <3>1 DEF Step, ListNames, NextName, Cache, CacheUnlocked, Stat, Open,
         ReadVersion, UseClosed, Reading, disk, manager
    <3>2. CASE ~Step(a)
      BY <2>3, <3>2 DEF Handle, Collect, Warmed, ShowKeys, SearchKeys, Mutate, Audit,
         EventStats, LastAssignedSeq, Cursors, ShowEvents, ShowRow, ShowSeries, Showing,
         Proceed, Reading,
         disk, manager
    <3> QED
      BY <3>1, <3>2
  <2>4. ASSUME NEW p \in Paths, Application(p) PROVE Versions /\ Entries
    <3>1. Versions /\ Others
      BY <1>1, <2>4, ApplicationFiles DEF Versions
    <3> QED
      BY <2>0, <3>1 DEF Others, manager
  <2>5. ASSUME NEW a \in Actors, OpenFails(a) PROVE UNCHANGED <<version, entry>>
    BY <2>5 DEF OpenFails, disk
  <2>6. ASSUME NEW r \in Requests, Serve(r) PROVE UNCHANGED <<version, entry>>
    BY <2>6 DEF Serve, disk, manager
  <2>7. Signal \/ ServeFails \/ Shutdown => UNCHANGED <<version, entry>>
    BY DEF Signal, ServeFails, Shutdown, Drained, Exit, CloseEntry, Rest, disk
  <2>8. UNCHANGED vars => UNCHANGED <<version, entry>>
    BY DEF vars, disk, manager
  <2> QED
    BY <1>1, <2>0, <2>1, <2>2, <2>3, <2>4, <2>5, <2>6, <2>7, <2>8 DEF Next
<1>2. TypeOK /\ ServerInv /\ [Next]_vars => [Versions /\ Entries]_vars
  BY <1>1
<1> QED
  BY <1>2, ServerTypeCorrect, ServerInvariant, PTL DEF Spec, NothingIsReplaced

\* An actor's step changes its own activity only.
LEMMA OnlyOwn ==
  ASSUME TypeOK, NEW a \in Actors, Handle(a) \/ OpenFails(a) \/ Serve(a), NEW d \in Actors \ {a}
  PROVE  req'[d] = req[d]
<1>0. req \in [Actors -> Activities]
  BY DEF TypeOK
<1>1. CASE ListNames(a) \/ NextName(a) \/ Cache(a) \/ Stat(a) \/ Open(a)
  BY <1>0, <1>1 DEF ListNames, NextName, Cache, CacheUnlocked, Stat, Open, Goto, Done
<1>2. CASE Record(a) \/ UseClosed(a) \/ OpenFails(a) \/ Serve(a)
  BY <1>0, <1>2 DEF Record, Opened, UseClosed, OpenFails, Discard, Serve, Goto
<1>3. CASE ReadVersion(a)
  <2>1. Goto(a, "record") \/ Discard(a) \/ Opened(a)
    BY <1>3 DEF ReadVersion
  <2> QED
    BY <1>0, <2>1 DEF Goto, Discard, Opened
<1>4. CASE Rescan(a) \/ Collect(a) \/ Mutate(a) \/ Audit(a)
  BY <1>0, <1>4 DEF Rescan, Collect, Mutate, Audit, Goto, Done
<1>5. CASE \/ Warmed(a) \/ ShowKeys(a) \/ SearchKeys(a)
           \/ ShowEvents(a) \/ ShowRow(a) \/ ShowSeries(a)
  BY <1>0, <1>5 DEF Warmed, ShowKeys, SearchKeys, ShowEvents, ShowRow, ShowSeries, Showing, Proceed
<1>6. CASE EventStats(a) \/ LastAssignedSeq(a)
  BY <1>0, <1>6 DEF EventStats, LastAssignedSeq
<1>7. CASE Cursors(a)
  BY <1>0, <1>7 DEF Cursors, Goto
<1> QED
  BY <1>1, <1>2, <1>3, <1>4, <1>5, <1>6, <1>7 DEF Handle, Step

\* The cursor that was read is judged by statistics of the same file, taken before.
LEMMA LostIsReal ==
  ASSUME TypeOK, ServerInv, NEW r \in Requests, Cursors(r),
         req'[r].pc = "lost", req'[r].file = req[r].info.from,
         req[r].info.empty => req[r].info.new < req[r].info.old
  PROVE  Seen(req[r].name, req'[r].file).cur + 1 < Seen(req[r].name, req'[r].file).old
<1>0. /\ r \in Actors /\ req \in [Actors -> Activities] /\ req[r] \in Activities
      /\ MaxFiles \in Nat
  BY UIServerAssumption DEF Actors, TypeOK
<1>1. req[r].pc = "cursors" /\ ~Goto(r, "fine")
  BY <1>0 DEF Cursors, Goto, Activities
<1>2. PICK f \in 1 .. MaxFiles :
        req' = [req EXCEPT
            ![r].pc = IF LostBy(req[r].info, Seen(req[r].name, f).cur) THEN "lost" ELSE "fine",
            ![r].file = f]
  BY <1>1 DEF Cursors
<1>3. PICK l : l = IF LostBy(req[r].info, Seen(req[r].name, f).cur) THEN "lost" ELSE "fine"
  OBVIOUS
<1>4. PICK w : w = [req[r] EXCEPT !.pc = l, !.file = f]
  OBVIOUS
<1>5. req'[r] = w
  BY <1>0, <1>2, <1>3, <1>4
<1>6. w.pc = l /\ w.file = f
  BY <1>0, <1>4 DEF Activities
<1>7. req'[r].file = f /\ LostBy(req[r].info, Seen(req[r].name, f).cur)
  BY <1>3, <1>5, <1>6
<1>8. /\ f = req[r].info.from
      /\ req[r].info.old <= Seen(req[r].name, f).old
  <2>1. f # 0 /\ f = req[r].info.from
    BY <1>0, <1>7
  <2> QED
    BY <1>0, <1>1, <2>1 DEF ServerInv, ActorsOK, ActorOK, Seen
<1>9. Seen(req[r].name, f) \in Logs
  BY <1>0, <1>1, AtListed, SeenType DEF AtDatabase
<1>10. /\ Seen(req[r].name, f).cur \in Int /\ Seen(req[r].name, f).old \in Int
       /\ req[r].info.old \in Int /\ req[r].info.new \in Int
  BY <1>0, <1>9 DEF Logs, Activities
<1>11. Seen(req[r].name, f).cur < req[r].info.old - 1
  <2>1. CASE req[r].info.empty
    BY <1>7, <1>10, <2>1 DEF LostBy
  <2>2. CASE ~req[r].info.empty
    BY <1>7, <2>2 DEF LostBy, OldestBy
  <2> QED
    BY <2>1, <2>2
<1>12. Seen(req[r].name, f).cur + 1 < Seen(req[r].name, f).old
  BY <1>8, <1>10, <1>11
<1> QED
  BY <1>7, <1>12

\* BuildCursorRows reports no cursor as lost that has not lost events, although
\* the oldest seq, the newest and the cursor are read one after the other;
\* unless they are of different files, or an event was published between the
\* first two reads of a log that was empty.
THEOREM LostTheorem == Spec => LostCursorsAreReal
<1> DEFINE Real == \A r \in Requests :
                     /\ req[r].pc = "cursors" /\ req'[r].pc = "lost"
                     /\ req'[r].file = req[r].info.from
                     /\ req[r].info.empty => req[r].info.new < req[r].info.old
                     => LET e == Seen(req[r].name, req'[r].file) IN e.cur + 1 < e.old
<1>1. ASSUME TypeOK, ServerInv, [Next]_vars, NEW r \in Requests,
             req[r].pc = "cursors", req'[r].pc = "lost", req'[r].file = req[r].info.from,
             req[r].info.empty => req[r].info.new < req[r].info.old
      PROVE  Seen(req[r].name, req'[r].file).cur + 1 < Seen(req[r].name, req'[r].file).old
  <2>0. r \in Actors
    BY DEF Actors
  <2>1. Cursors(r)
    <3>1. req' # req
      BY <1>1
    <3>2. ASSUME NEW a \in Actors, Handle(a) \/ OpenFails(a) \/ Serve(a) PROVE Cursors(r)
      <4>1. a = r
        BY <1>1, <2>0, <3>2, OnlyOwn
      <4>2. ~Step(r)
        BY <1>1 DEF Step, ListNames, NextName, Cache, Stat, Open, ReadVersion, Record, UseClosed
      <4>3. ~OpenFails(r) /\ ~Serve(r)
        BY <1>1 DEF OpenFails, Serve
      <4>4. /\ ~Rescan(r) /\ ~Collect(r) /\ ~Warmed(r) /\ ~ShowKeys(r) /\ ~SearchKeys(r)
            /\ ~Mutate(r) /\ ~Audit(r) /\ ~EventStats(r) /\ ~LastAssignedSeq(r)
        BY <1>1 DEF Rescan, Collect, Warmed, ShowKeys, SearchKeys, Mutate, Audit, EventStats,
           LastAssignedSeq, Using
      <4>5. ~ShowEvents(r) /\ ~ShowRow(r) /\ ~ShowSeries(r)
        BY <1>1 DEF ShowEvents, ShowRow, ShowSeries, Showing
      <4> QED
        BY <3>2, <4>1, <4>2, <4>3, <4>4, <4>5 DEF Handle
    <3>3. ASSUME NEW p \in Paths, Application(p) PROVE FALSE
      BY <1>1, <3>1, <3>3, ApplicationFiles DEF Others
    <3>4. ~(Signal \/ ServeFails \/ Shutdown)
      BY <3>1 DEF Signal, ServeFails, Shutdown, Drained, Exit, CloseEntry, Rest
    <3>5. ~UNCHANGED vars
      BY <3>1 DEF vars
    <3>6. Requests \subseteq Actors
      BY DEF Actors
    <3> QED
      BY <1>1, <3>2, <3>3, <3>4, <3>5, <3>6 DEF Next
  <2> QED
    BY <1>1, <2>1, LostIsReal
<1>2. TypeOK /\ ServerInv /\ [Next]_vars => [Real]_vars
  BY <1>1
<1> QED
  BY <1>2, ServerTypeCorrect, ServerInvariant, PTL DEF Spec, LostCursorsAreReal
=============================================================================
