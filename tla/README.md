# A verification of lytecache

lytecache is an embedded cache with Redis-like calls over one SQLite file that
several goroutines and several processes share. There is no server: whatever
coordination there is comes from SQLite's write lock, from the granularity of
the SQL statements, from one write connection per process, and from a few
mutexes. These modules model the Go library (`src/lytecache-go`) at that
granularity, and the parts of the command-line program that keep state of their
own (`src/lytecache-cli`: the web UI and the service), check them with TLC and
prove most of their safety properties with TLAPS.

`PROJECT.json` maps every definition to its lines of code, lists the runs, the
mutants that show that each property can fail, the findings and the hazards.

## 1. The system

| Part | State it keeps | Operations | Why it is hard |
|---|---|---|---|
| key-value store (`kv.go`, `ttl.go`, `counters.go`, `inspect.go`) | rows of a namespace: value, type, expiry | Set, SetMany, Add, Replace, GetSet, Delete, Get, GetMany, Exists, Expire, Persist, Touch, TTLOf, Inspect, Incr, Decr | a call is several statements with Go code in between; clocks are read before statements that wait for a lock |
| sweeper and capacity (`sweep.go`, `checkCapacity`) | `last_accessed`, `access_count`, `size_bytes`; an in-memory buffer of reads | maintenance passes, eviction after a write, refusal before one | count and delete are separate; every process evicts for itself; reads are written later than they happen |
| lock (`lock.go`) | a row with a token and a TTL | Lock, Release | the row is an ordinary row: it expires, is evicted, swept, flushed |
| event log (`events.go`, `events_admin.go`) | a table of events with ascending seq, cursors in `meta` | Notify, NotifyMany, Watch, Next, SaveCursor, LoadCursor, retention, administrative deletion | subscribers poll; retention deletes what they have not read; clocks of several processes; crash and resume |
| change notification (`changes.go`) | listeners, a queue, a goroutine | OnChange, unsubscribe, Close | listeners write themselves, unsubscribe concurrently, panic; Close waits for them |
| hashes (`hash.go`) | JSON objects as values | field reads and writes, natively in SQL or read-modify-write | two implementations of one contract |
| lifecycle (`cache.go`, `paths.go`, `schema.go`) | connections, goroutines | New, Close, options | order of shutdown |
| iteration, namespaces, memoize (`keys.go`, `namespaces.go`, `memoize.go`) | none of their own | paging, listing, read-through | pages of a changing table; concurrent loads |
| web UI: server (`ui/dbmanager.go`, `viewmodel.go`, `events.go`, `metrics.go`, `mutations.go`, `cmd_ui.go`) | the databases it knows, one open handle for each, a cached scrape | pages, mutations, search, scrapes, rescans, shutdown | handles are opened lazily and shared; files come and go under it; what a page shows is read in several queries |
| web UI: authentication (`ui/auth*.go`, `session.go`, `ratelimit.go`, `config.go`) | the account in `ui.yaml`, revoked sessions, failed attempts | login, logout, change of password, `ui passwd`, `ui reset-password` | cookies are copies that outlive a restart; the file is written by several processes |
| service (`cmd_service.go`, `service/`) | the registration, the install record, the state file | install, uninstall, start, stop, restart, status | two mechanisms, each step may fail; processes end and start around one port and one file |
| other commands (`cmd_*.go`, `repl.go`) | none | one library call each | |
| ports (`lytecache-python`, `-java`, `-node`, `-php`) | the same file | the same contract | |

How the parts interact: every write of the store calls `changed` (records for
listeners, and events if `WithPublishChanges` is given), then `maybeEvict`; every
call may trigger a sweep; the lock is the store's `add`; the sweeper runs
the flush of the read buffer, expiry, eviction and event retention in turn; Close
closes the subscriptions, the dispatcher and the sweeper before the connections.

What makes each part correct:

* store: reads do not remove live values; expired values stay dead; swaps and
  batches are atomic between processes; counters return their own sums;
* capacity: the limits hold when nobody is writing, eviction takes what is least
  recently used and no more than needed, refused writes leave no trace;
* lock: exclusion while the TTL lasts, and no lock that outlives its owner for ever;
* event log: a subscriber gets every event once and in order, or is told that
  some are gone, and where to resume without missing what is still there;
* change notification: each listener gets the records of its operations once
  and in order, none after it unsubscribed or after Close;
* hashes: whichever implementation runs it, a call acts at one instant on the whole
  hash, and a call that fails changed nothing;
* UI server: one handle per database, none closed under a request, names that keep
  their meaning, and no cursor reported lost that is not;
* authentication: sessions end when they should, guessing is slowed down, and a
  restart accepts what the server accepted;
* service: `status` tells the truth, commands act on what was installed, and a
  service that cannot serve is seen to fail.

## 2. Modules

| Module | Models | State | Used by |
|---|---|---|---|
| `EventLog` | the event log and its subscriptions | `events`, sweeps, subscriptions, cursors | `EventLogProofs`, `MCEventLog` |
| `CacheStore` | the calls of the store, statement by statement | `rows`, per client its call (`pc`, `call`), `stale` snapshots, `sweep`; history: `taken` | `CacheStoreProofs`, `MCCacheStore` |
| `CacheLock` | Lock and Release on a row that may be evicted, swept, read, flushed | `row`, the number of other rows and the LRU position of the lock row, per client its call; history: `lost` | `CacheLockProofs`, `MCCacheLock` |
| `Capacity` | refusal, eviction, read buffering, maintenance | `rows` with size, expiry and access time, `buffer` per process, per client its call; history: `used`, `unenforced`, `removed` | `CapacityProofs`, `MCCapacity` |
| `Dispatcher` | change notification | `listeners`, `queue`, the goroutine (`pc`, `item`, `targets`), `closing`; history: `delivered`, `gone`, `overtaken` | `DispatcherProofs`, `MCDispatcher` |
| `HashSpec` | what the hash calls promise: each acts once, atomically | `table`, per client its call and its reply | `HashStore` |
| `HashStore` | the hash calls, natively and by read-modify-write | `rows`, the write lock (`writer`), per client its call, its transaction (`tx`) and its reply | `HashStoreProofs`, `MCHashStore` |
| `UIServer` | the server of `lytecache ui`, with lytecache.New underneath | files with their versions, events and cursor; `entry`, `cache`, mutexes, per goroutine its request, `phase` | `UIServerProofs`, `MCUIServer` |
| `UIAuth` | accounts, logins, sessions and their limits | `disk` (`ui.yaml`), `server`, `cookies`, `revoked`, `attempts`, per client its request, the command `cli` | `CommandProofs`, `MCUIAuth` |
| `ServiceControl` | `lytecache service` | `registered`, `record`, `wanted`, per registration its process, the state `file` | `CommandProofs`, `MCServiceControl` |

The `MC` modules only give names to constants for TLC. Each call is split into one
action per SQL statement or per critical section, in the order of the code;
where the code does several things under one lock or in one transaction, they
are one action. Clients are goroutines, caches are processes; within a
process the single write connection is modelled where a transaction spans several
statements (GetSet). Wall clocks are read when the code reads them. In `CacheStore`,
`CacheLock` and `Capacity` the wall clock does not go back; in `EventLog` the
timestamps of events and sweeps are arbitrary.

Values are abstracted: the store's values are the number of the call that wrote
them (each is written once, so that losing or duplicating one can be seen), the
lock's tokens are the numbers of the Lock calls, `Capacity` keeps only the size. A hash
is a function from fields to typed numbers. In `UIAuth` a password hash is the
password it was made from and a signature the secret it was made with: hashing and
signing are taken to be ideal. In `UIServer` a file is known by how often one was
created at its path.
Definitions whose names say what they get wrong (`SwapUnchecked`, `TakeNewest`,
`EvictUncounted`...) are the mutants.

`HashStore` implements `HashSpec` under the mapping that forgets access counts,
transactions and program counters (`Hash == INSTANCE HashSpec WITH table <- AbsTable,
clock <- now, call <- AbsCall`): a native call acts when its transaction commits, one
that only reads when its SELECT runs, and it answers as the abstract hash would at
that instant. TLC checks this on a small instance and `HashStoreProofs` proves it.

The last section of a module, where it has one, is the inductive invariant that
the proofs about it use; it models no code.

## 3. Runs

Runs that pass:

| Run | Configuration | Checks |
|---|---|---|
| `eventlog` | `MCEventLog.cfg` | `TypeOK`, `RetentionLeavesNoHole`, `NoSilentLoss`, `InSeqOrder`, `SavedCursorIsSafe`, `ResumeSeqSkipsNothing` and, under fairness, `EventuallyReceived`: a process publishes, subscribes, crashes, resumes and accepts gaps, two sweep under arbitrary clocks, and an administrator deletes |
| `cachestore_calls` | `MCCacheStore.cfg` | `SwapsTakeEachValueOnce`, `SweepRemovesOnlyExpired`, `RevivedOnlyByEarlierCall`, `LiveRowsLeaveOnRequest`: ten kinds of calls on one key from two processes, expiry, failures, crashes |
| `cachestore_expiry_live` | `MCCacheStoreLive.cfg` | under fairness, `ExpiredRowsAreRemoved`: the remaining calls on two keys, two sweepers with batches of one row, crashes |
| `lock_exclusion` | `MCCacheLock.cfg` | `ExclusiveUnlessRemoved` and, under fairness, `NeverWedged`: a full namespace under LRU, other writers, reads, flushes, failing evictions, crashes, late releases |
| `capacity_enforced` | `MCCapacity.cfg` | `TypeOK`, `WithinLimitsAtRest`, `OverEvictionIsBounded` and, under fairness, `LimitsAreRestored`: every call, maintenance, expiry and a failing statement, with a key limit under LRU |
| `dispatch_delivery` | `MCDispatcher.cfg` | `DeliveredInOrder`, `NoRecordMissed`, `QuietAfterClose`, `StormIsBounded`, `SilentOnceUnsubscribed` and, under fairness, `QueueDrains`: two writers, two listeners that write themselves, unsubscribe, panic, Close |
| `hash_atomic` | `MCHashStore.cfg` | the refinement `ActsAtomically`, `OneAccessUnlessSplit`, `OnlyEarlyChecksOvershoot`, `RecordsMatchChanges`: a native and a fallback process on one hash, a full namespace, expiry, foreign writes that may overfill it, failures, also of publishing the change, crashes |
| `uiserver_handles` | `MCUIServer.cfg` | `HandlesAreShared`, `ClosesAfterDraining`, `NothingIsReplaced`, `LostCursorsAreReal` and, under fairness, `ShutdownCompletes`: two requests and the warm-up on two files that bear one name, while applications remove, create and upgrade files, publish, delete and advance cursors |
| `uiauth_sessions` | `MCUIAuth.cfg` | `FailuresAreSlowed`, `ConfigIsSaved`, `SessionsEnd`: two requests at a time, three mixes of logins, visits, logouts, password changes and commands, restarts and crashes |
| `service_control` | `MCServiceControl.cfg` | `StatusIsTrue`, `CommandsReachTheInstall` and, under fairness, `WantedIsServed`: five commands on Unix and on Windows, failing calls, a crash, a foreground server, a restart of the machine |

Runs that show where the code and what is said of it differ; TLC prints the
behaviour, `PROJECT.json` quotes the sentence:

| Run | Configuration | Property that fails | What happens |
|---|---|---|---|
| `capacity_stale_access` | `MCCapacityStale.cfg` | `EvictsLeastRecentlyUsed` | a flush sets `last_accessed` back and the key just written is evicted |
| `hash_access_count` | `MCHashAccess.cfg` | `OneAccessPerCall` | a native HSetMany that takes two statements counts two accesses of the hash |

### Divergences without a run

Reading the code for the models brought up more places where it does less than
its documentation says. The modules contain the steps that lead there unless
it is said otherwise, and the properties above are stated so that they leave out
exactly these cases, but no run is kept for them.

The library:

* A subscription on a quiet channel ends with a gap although nothing it matches was
  deleted: `gapCheck` compares its cursor, which moves only with events of its own,
  with the oldest event of the file (`events.go:618`); `events.go:84` says a gap
  means "events a subscription should have seen are gone". What is proved is the
  converse (`NoSilentLoss`).
* A read that found an expired row deletes the row of the key by a second statement
  (`kv.go:152`), so that a fresh value set in between is lost; `SPEC.md:86` says reads
  treat it as absent "without deleting it inline". `LiveRowsLeaveOnRequest` says
  that nothing else removes a live row.
* A listener may be called once after its unsubscribe has returned: `call` re-checks
  the registration and releases the mutex before it calls (`changes.go:239`);
  `changes.go:91` says it "is never called again". `SilentOnceUnsubscribed` says
  that it is that one call only.
* Under TTLPolicy, in a full namespace, Lock's own eviction may remove the row it has
  just written (`kv.go:252`), and a second client gets the lock within the TTL of
  the first; `ExclusiveUnlessRemoved` leaves out the clients whose row was removed.
* After Close has cleared the dispatcher, a later OnChange starts a new goroutine that
  nothing stops (`changes.go:111`; not modelled).
* The fallback hash calls refuse a write to an expired key that is still present in a
  full namespace, where the native ones accept it (`hash.go:890`); `HashSpec` allows
  both.
* `LastSeq` is the seq of the last event put into the channel, which the consumer may
  not have received yet, let alone handled; `events.go:415` calls it "the value to
  persist as a cursor once you have handled it". Saving it is the mutant
  `SaveLastSeq`, which violates `SavedCursorIsSafe`: what is still in the channel
  at a crash is lost. The model saves the seq of an event it has received.
* The change event of a committed write is lost if the process dies before it is
  published or if publishing fails, which is only logged (`changes.go:83`; `SPEC.md:378`
  admits it). `RecordsMatchChanges` says which calls owe an event, not that it arrives.
* With `TTL(0)` ("Zero or negative expires the key immediately", `kv.go:20`) a native
  HSetMany of more fields than fit in a statement leaves only the last group in the
  row it creates, because each statement finds the row of the one before it dead
  (`hash.go:299`). No reader sees the row; `ActsAtomically` and `RecordsMatchChanges`
  are stated for TTLs that are not 0.
* `Watch(FromSeq(0))` finds its start in one transaction and polls in a later
  one (`events.go:331`), so a sweep in between makes it report a gap;
  `SPEC.md:286` says this "never reports a gap".
* `Incr` reads its result with a second statement (`counters.go:60`), so two
  processes may both return the later sum; `counters.go:69` says it "returns the
  new value". A sum beyond int64 becomes a float typed integer (`counters.go:21`).
* `GetMany` removes expired rows through `Delete`, which emits a change record
  (`kv.go:444`); `SPEC.md:389` says expiry is never reported.
* `GetSet` opens a deferred transaction (`kv.go:296`), not the `BEGIN IMMEDIATE` of
  `SPEC.md:561`: another process may write inside it, and the GetSet then fails at
  once. That it never takes a stale value is `SwapsTakeEachValueOnce`.
* `Persist`, `Expire` and `Touch` judge a row by the clock value read before their
  statement waited for the write lock (`ttl.go:33`): an expired value may become
  readable again. `RevivedOnlyByEarlierCall` says that nothing else revives one.
* A holder that outlives its TTL is not told (`lock.go:42`), and the next Lock succeeds.
* `NoEviction`: Set and Add check and write with separate statements (`kv.go:63`),
  SetMany, GetSet and the counters do not check at all (`kv.go:290`, `kv.go:350`,
  `counters.go:34`), and an update may grow
  the byte total (`kv.go:460`); `cache.go:47` says a write that would exceed the
  limit is rejected. `OnlyEarlyChecksOvershoot` is about the hash calls alone.
* Evictors act on separate counts (`sweep.go:211`), so two writers over the limit by
  one row evict two; `OverEvictionIsBounded` says how far this goes.
* Reads buffered before a write are added to `access_count` after it
  (`sweep.go:114`); `inspect.go:30` says it counts reads since the last write. (The
  access count is not modelled in `Capacity`.)

The web UI:

* `dbEntry.Cache` stats the file and then opens it (`dbmanager.go:163`): a file removed
  in between is created, empty; the comment says it "never silently creates a
  missing file".
* A handle stays with a file that was removed, and new connections of its read pool
  open whatever is at the path by then; pages may show one file and mutations change
  another, and statistics and cursors may come from two files. `LostCursorsAreReal`
  asks that they do not.
* `EventStats` counts the events in one statement and reads the last assigned seq in
  another (`lytecache-go/events.go:723`). If the log was empty and an event is published
  in between, `BuildCursorRows` takes newest + 1 for the oldest (`ui/events.go:265`) and
  shows a cursor as lost that lost nothing; `ui/events.go:236` says that the subscriber
  "permanently missed events". `LostCursorsAreReal` leaves this case out.
* `initSchema` returns version 1 after its `INSERT OR IGNORE` (`cache.go:388`) even if
  a newer build recorded 2 in between.
* A cursor saved between the statistics and its reading is shown as "ahead".
* When serving fails, or the timeout of Shutdown passes, handles are closed under
  requests that still run (`rushed` in the model). `Manager.Close` and `WarmUp` go
  through the entries without the manager's mutex, while Rescan appends.
* The configuration is read once: the comment of `forcedPasswordChangeRequired`
  (`auth.go:77`) says that `ui reset-password` "takes effect immediately", but the
  running server does not see it, and its next password change overwrites it.
* A save truncates `ui.yaml` before it writes it: a crash, or another process that
  reads in between, leaves or sees an account without a password and with an empty
  secret. Two processes that both find no file make two accounts. (`crossed`.)
  A write that fails half-way has the same effect.
* A password change that cannot be saved is in force until the restart (`unsaved`).
* `verify` compares the times of a cookie with the clock before it takes the mutex for
  the revoked sessions (`session.go:126`). If the lifetime of the session ends in between
  and `revoke` drops its entry, the cookie of a session that was logged out is
  admitted once more; `session.go:142` says that it "can no longer be used".
  `SessionsEnd` allows this and nothing else. Lifetime and idle timeout hold when
  the clock is read, not when the handler runs.
* Revocations are in memory: a session that was logged out is valid again after a
  restart, until its cookie expires.

The service:

* A server whose serving fails only logs it (`cmd_service.go:449`): the service is
  "running" and deaf. `WantedIsServed` leaves it out.
* A process goes on after its registration was removed. `service status` then asks for
  the service of the system, says that it is not installed, and shows nothing of the
  process (`cmd_service.go:339`), although it serves. `StatusIsTrue` leaves this out
  (`Asked`).
* A failing write of the install record may leave it empty (`install_record.go:54`),
  which is read as the service of the system; a scheduled task that was installed is then
  out of reach (`partial`).
* Stopping removes the state file whoever wrote it (`cmd_service.go:460`). With two
  registrations, the one that ends hides the one that took over (`hidden`).
* An install by the other method leaves the first registration where it is, out of
  reach of the commands; `CommandsReachTheInstall` speaks of the last one. After
  `install --system` the commands act on the user unit (not modelled).
* `install_record.go:58` says that macOS and Linux "never write" a record; `install`
  always does. `cmd_ui.go:306` says that the restart policy should not retry a port in
  use endlessly, and `lytecache-cli/docs/ui.md:557` that a port in use "exits non-zero
  [...] instead of silently flapping under the service manager's restart policy";
  `Restart=on-failure` and `KeepAlive` do restart it. `WantedIsServed` holds either way.
* A process id that is used again makes a stale state file look live (not modelled).
* A log rotation that cannot open the new file leaves the writer with a closed one
  (`logs.go:124`; not modelled).

### Bounds, and why they suffice

Every bound is a constant with a name (`MaxCalls`, `MaxTime`, `MaxLocks`,
`MaxOthers`, `MaxWrites`, `MaxOwn`, `MaxFails`, and those of `EventLog`) and
appears in the guard of the action it bounds. Two clients are enough for a pair of
calls to interleave at every statement. Batches are one or two rows, so that a sweep or a poll
needs several. The event log is small (two events, a retained count of one) because its run
checks liveness as well; its safety properties are proved for all bounds. Two or three calls per run (six where the order of eviction is checked) allow a value to be written, expire, be
rewritten and read. The lock has three Lock calls over a clock long
enough for two TTLs in sequence, so that a late release meets its successor. In the
dispatcher a depth limit of 2 stands for 8. Key limits are one row, so that two
rows are too many and two evictors can empty the namespace. Hash calls are two at a
time, of every pair of operations, on a hash of two fields in a namespace of one key;
integers end at 1, so that the second increment overflows. `Capacity` runs under LRU with a
limit of keys; byte limits, which updates may exceed too, are left to the proof of
`LimitAtRest`, so `LimitsAreRestored` is not checked for them. The UI has two requests
of at most `MaxKinds` kinds at a time, two files at a path in succession and two
steps of the applications between any two of its own, enough for statistics, a
retention and a cursor to come in any order. In `UIAuth` a session lasts two
seconds and may rest for one, one login may fail free of charge and the delay
overflows at the third, so that four seconds see every boundary; the requests come
in three mixes (`Mixes`) because logins and saves do not share state other than the
hash. `ServiceControl` has five commands and two failing calls: an install, a
second one by the other method, a failing uninstall, and two more. Deadlock checking is off: a
run ends when its bounds are used up, and the program may rest at any time.

### Fairness

* `EventLog`: the poller of a live subscription keeps running and its consumer
  keeps receiving; nobody has to publish, sweep or close.
* `CacheStore`: the ticker of `sweepLoop` fires again and again (weak
  fairness); the DELETE of a sweep gets the process's connection eventually although
  GetSet transactions come and go (strong fairness: database/sql serves
  waiting requests in order); a goroutine in a call runs.
* `CacheLock`: time passes, and the goroutine inside Lock runs. Release is not fair.
* `Capacity`: maintenance starts again and again, and goroutines in a call run.
* `Dispatcher`: the dispatch goroutine runs and listeners return.
* `UIServer`: requests that began run to their end, and so does shutdown; the mutex of
  an entry is not held back for ever from one that waits for it (Go's mutexes hand
  over to a waiter after a millisecond). Nobody has to make a request or to stop the
  server.
* `ServiceControl`: the service managers start what is wanted, and processes that
  start or stop do not stand still. Operators and crashes owe nothing.

## 4. Proofs

All proofs are for arbitrary constants, subject to the named ASSUME of the module
(non-negative bounds, well-typed parameters, values such as "nobody" that are
distinct from the others) and to what a theorem assumes itself.

`EventLogProofs`:

* `EventLogTypeCorrect`: `Spec => []TypeOK`.
* `EventLogInvariant`: the inductive invariant, `RetentionLeavesNoHole` and, for
  each subscription, `SubInv`. None of the properties is inductive by itself: that
  a batch skips nothing depends on the gap check of the same transaction, which
  is sound only because retention deletes prefixes.
* `RetentionTheorem`, `NoSilentLossTheorem`, `InSeqOrderTheorem`,
  `SavedCursorTheorem`, `ResumeSeqTheorem` follow. The argument: the sweeper's bound
  is a sequence number, so what it deletes is a prefix, whatever the clocks say;
  hence a cursor that passes `gapCheck` has every later event retained or deleted by
  hand (`NoGapMeansRetained`); a batch is the first events after the cursor
  (`FirstNIsPrefix`), so nothing due lies between the cursor and its end;
  the cursor moves with each event sent, and events are received as sent.

`CacheLockProofs`:

* `CacheLockTypeCorrect`: `Spec => []TypeOK`.
* `LockExclusion`: `Spec => []ExclusiveUnlessRemoved`, for every policy and limit.
  The history variable `lost` names the clients whose row an eviction, a Flush or a
  lazy delete removed. The invariant `LockInv` adds that tokens are distinct, that
  a statement's clock is not ahead of the wall clock, and that a client inside its
  TTL that has lost nothing finds its own token and expiry in the row
  (`HolderOwnsRow`), already while its Lock still enforces the capacity; so the row
  is live, and an add, a sweep or another's release leaves it alone.
  Without the exception exclusion fails (section 3).

`CapacityProofs`:

* `CapacityTypeCorrect`: `Spec => []TypeOK`.
* `LimitAtRest`: `Spec => []WithinLimitsAtRest`, for limits of keys and of bytes. The
  invariant `SomeoneWillCount`: whenever the namespace is over a limit and every write
  was enforced so far, some call is at a point from which it will count again. A call
  leaves such a point only by a count that finds the namespace within its limits, or
  by a failure, which is recorded in `unenforced`. For the bytes it takes that the
  sum of the sizes does not grow when no row does. `Bytes` is a fold, that is, a
  function chosen by a recursive equation: `SumsExist` shows that the equation has a
  solution, `BytesSums` that `Bytes` is its value, `SumsCompare` that smaller terms have
  smaller sums. Each is an induction over the finite sets of keys, done by taking a
  smallest set that is a counterexample (`LeastSet`, from the library's theorem that a
  well-founded relation has minimal elements).
* `OverEvictionBound`: `Spec => []OverEvictionIsBounded`, inductive together with
  `Sized` (a row that is there has a size, so bookkeeping never removes one): who
  starts to evict has counted more than the limit, who evicts gives up its count,
  and rows that leave otherwise are counted in `removed`.

`CacheStoreProofs`, for any number of processes, clients, keys and calls:

* `StoreTypeCorrect`: `Spec => []TypeOK`.
* `StoreInvariant`: the inductive invariant `StoreInv`. `SwapsTakeEachValueOnce` needs
  two facts about calls that have not written yet: a GetSet whose snapshot is not
  `stale` has seen the row as it still is (`SnapshotIsCurrent`: any write of the key by
  another process makes the snapshot stale), and the number under which it is
  going to write is not in the table nor among the values taken (`FreshIds`). The
  other properties need that no clock value is ahead of the clock (`ClocksBehind`)
  and that a read removes only what it found expired (`RemovesExpired`).
* `SwapTheorem` (`SwapsTakeEachValueOnce`) and the action properties `SweepTheorem`
  (`SweepRemovesOnlyExpired`), `RevivalTheorem` (`RevivedOnlyByEarlierCall`) and
  `LeavingTheorem` (`LiveRowsLeaveOnRequest`). The argument for the sweeper: its clock
  value is old, so what it takes for expired is expired; the same lag is why Expire,
  Touch and Persist can revive a row, and bounds it to rows that were live when the
  call began.

`DispatcherProofs`, for any finite number of listeners, any writers and depth limit:

* `DispatcherTypeCorrect`: `Spec => []TypeOK`.
* `DispatcherInvariant`: the inductive invariant `DispatchInv`: the three properties
  together with `QueueInOrder` (the item being dispatched comes before the queue, which
  ascends), `DeliveredBefore` (what a listener was called with comes before what it
  is still to be called with), `ItemWhileDispatching` and `GoneIsGone` (a listener
  that is entered although it is gone has been overtaken).
* `StormTheorem`: `Spec => []StormIsBounded`. The invariant `StormInv` is a potential: the
  records so far, plus what each queued record may still lead to (`QueueOwes`, sums over
  the suffixes of the queue), plus what the listeners that remain to be called with the
  dispatched record may (`ItemOwes`), plus what the writers may (`WritersOwe`), are at
  most `MaxWrites * Chain[MaxDepth]`. A record of depth d owes the chain of the depths
  that are left; queueing it pays one of them and passes the rest on to the listeners
  it is dispatched to. `Chain` is a recursive function; that it satisfies its equation
  (`ChainEquation`) is proved by induction over the depth, as a least counterexample.
* `DeliveredInOrderTheorem`, `NoRecordMissedTheorem`, `QuietAfterCloseTheorem` and the
  action property `SilentTheorem` (`SilentOnceUnsubscribed`). The argument: a
  record leaves the queue only to become the item, its targets are the
  listeners registered then, and a target leaves only by being called or by a
  re-check that finds it unregistered.

`HashStoreProofs`, for any finite sets of clients, keys and fields, any division into
native and fallback clients and any number of fields per statement:

* `HashTypeCorrect`: `Spec => []TypeOK`.
* `HashInvariant`: the inductive invariant `HashInv`. The refinement is not inductive
  by itself: what a native call commits is the work of several statements.
  `PartlySet` and `PartlyDeleted` say what the transaction has done between two of
  them, as a function of the row as it was when the transaction began (`Base`), which
  nobody else can have written since (`LockIsHeld`); `Decided` says that what is about
  to be committed, and the reply, are what `HashSpec` promises for that row; `CallOK`
  ties the kind of the call to the place where its client is; `RoomOK` says that a
  fallback call past its check still has room, because it checks inside its
  transaction.
* `ActsAtomicallyTheorem`: the refinement, `Spec => Hash!Spec`, step by step: the
  commit of a writing call and the SELECT of a reading one are the abstract `Act`,
  errors the abstract failure, calls and returns themselves, foreign writes and the
  clock themselves, everything else a stutter.
* `RecordsTheorem` (`RecordsMatchChanges`), `OneAccessTheorem` (`OneAccessUnlessSplit`) and
  `OvershootTheorem` (`OnlyEarlyChecksOvershoot`).
* `ActsAtomicallyTheorem` and `RecordsTheorem` assume `0 \notin TTLs`; section 3 says
  what happens otherwise. The proof brought this up: the run's TTLs are positive too.

`UIServerProofs`, for any number of requests, names, paths and failures to open:

* `ServerTypeCorrect`: `Spec => []TypeOK`.
* `ServerInvariant`: the inductive invariant `ServerInv`. That handles are shared rests
  on the mutex of the entry: who is opening a database holds it and has found the map
  empty (`ActorsOK`, `LocksAreHeld`), so one actor at most is opening it and the
  handles can be counted (`HandleCounted`). That Close breaks nothing rests on
  `PhaseOK`: without a rush, closing begins when no request runs and none begins.
* `HandlesTheorem` (`HandlesAreShared`), `ClosesTheorem` (`ClosesAfterDraining`) and the
  action properties `ReplacesTheorem` (`NothingIsReplaced`) and `LostTheorem`
  (`LostCursorsAreReal`). For the last one, the oldest seq a request remembers is
  not ahead of retention (`ActorOK`), also between the two statements and when the log was
  empty: a cursor that is too old for it is too old for the log as well.

`CommandProofs`, the UI server's accounts and the service commands, for any number of
clients, requests, commands, failures, crashes, restarts and reboots:

* `AuthInvariant`: `Spec => [](TypeOK /\ AuthInv)` of `UIAuth`.
  * `SessionsTheorem` (`SessionsEnd`, an action property) needs `SessionsOK`: every copy of a
    cookie, renewed or not, carries the end of its session, and a logout is recorded
    until that end, so a lookup that does not find one that happened comes after the
    end of the session.
  * `FailuresTheorem` (`FailuresAreSlowed`) needs `LimiterOK`: after a failure beyond the
    free ones the limiter refuses for the rest of the second, and the failures so
    far and the logins still under way are together no more than the clients. The
    property alone is not inductive: the check and the recording of a failure are
    separate steps, and logins that were checked before the first failure can all fail.
  * `ConfigTheorem` (`ConfigIsSaved`) needs `MutexOK` (one request at a time writes, what it
    writes is what the server runs with, and nothing is written while the server is
    down) and `FileOK` (who is in the middle of creating or writing `ui.yaml`, as long as
    no two processes have been), because a file is truncated before it is written.
* `ServiceTypeCorrect`: `ServiceSpec => []ServiceTypeOK` of `ServiceControl`, whose names
  (`ServiceInit`, `ServiceNext`, ...) let one module of proofs extend it and `UIAuth`.
* `ServiceInvariant`: the inductive invariant `ServiceInv`: one process has the port
  (`OnePort`), the state file is that of a process that wrote it (`FileIsCurrent`), and
  the record leads to the last install (`RecordLeads`).
* `StatusTheorem` (`StatusIsTrue`), for a status that does not stop at a service that is
  not installed: only the process that has the port writes the file,
  so what it wrote stays until it ends, is replaced by a process that got the port
  after it, or is removed by another one that ends, which makes it `hidden`.
* `CommandsTheorem` (`CommandsReachTheInstall`): an uninstall removes the registration
  before the record, so a failure in between leaves a record that still leads there.

Only model-checked, and why:

* liveness (`EventuallyReceived`, `ExpiredRowsAreRemoved`, `NeverWedged`,
  `LimitsAreRestored`, `QueueDrains`, `ShutdownCompletes`, `WantedIsServed`): it needs
  fairness and ENABLED, which are out of the prover's reach;
* `EvictsLeastRecentlyUsed` and `OneAccessPerCall`, which fail.

Every other property that a run checks is stated by a theorem. Two of them hold a
condition on the constants: `OverEvictionIsBounded` speaks of namespaces without a byte
limit, and `RecordsTheorem` and `ActsAtomicallyTheorem` assume positive TTLs.

## 5. Not modelled, and the plan

Next, in this order:

1. Composition of the store with the event log (`WithPublishChanges`): the event of
   a mutation is written after the mutation commits; what a crash or a failure in
   between loses.
2. The order of Close over subscriptions, dispatcher, sweeper and connections.
3. Key iteration over a changing table.

Left out for good: value encoding (the models need only that a value is stored
whole and typed), Memoize (one Get, the caller's function, one Set, without
coordination), formatting and parsing in the command line, HTTP rendering and
masking, the arguments that `service install` persists, log rotation, and the
ports to other languages, which repeat the design of the Go library on the same
file. The abstractions in the modelled parts: SQLite is assumed to be
serializable per statement and per transaction, with snapshot reads; a
failing statement has no effect; the cap of a million eviction passes is never
reached; payloads and keys are model values.
