------------------------ MODULE PreviewsSynchronizer ------------------------
(***************************************************************************)
(* lib::PreviewsSynchronizer (src/src/synchronizers/previewssynchronizer.cpp)*)
(* with its Watcher.  Three threads share one object:                       *)
(*   main     begins and stops synchronizing, and scans once when it begins;*)
(*   watcher  polls previews.db (Watcher.tla); its delegate fileHasChanged()*)
(*            scans again when the file has changed;                        *)
(*   worker   started by a scan that found changes, takes the previews of   *)
(*            the scan one by one to the bucket and records them as cached. *)
(* The shared members are unprotected but for a mutex around the lookup of  *)
(* one entry and the recording of one preview.  A C++ exception that leaves *)
(* a thread ends the process (std::terminate): "crash" names the reason.    *)
(***************************************************************************)
EXTENDS Naturals

CONSTANTS Uuid,       \* preview uuids, numbered in the order std::map visits them
          MaxTime,    \* bound: the last second at which previews.db is written
          Faults,     \* the operations that may fail, see below
          Reuse       \* may the client begin again on an object it has stopped?

\*  "open"    previews.db cannot be opened, or is not there to be watched
\*  "lock"    previews.db is locked by Lightroom: a query fails to prepare, or
\*            its first step returns SQLITE_BUSY
\*  "cache"   the list of cached previews cannot be read, or not to its end
\*  "local"   a preview cannot be loaded, extracted or reencoded
\*  "request" there is no request, or the request fails
\*  "mark"    a preview cannot be written to the cache
FaultKinds == {"open", "lock", "cache", "local", "request", "mark"}

ASSUME SyncAssumption == /\ Uuid \subseteq Nat
                         /\ MaxTime \in Nat \ {0}
                         /\ Faults \subseteq FaultKinds
                         /\ Reuse \in BOOLEAN

VARIABLES
  pyramid,     \* the uuids of previews.db (tables Pyramid, ImageCacheEntry)
  cached,      \* the uuids of previewscache.db
  remote,      \* the uuids whose object is in the bucket
  mtime, shouldPoll, watching, caller, wpc, lastMod, timeCheck, \* the watcher
  known,       \* keys of PreviewsDatabase::_cachedEntries
  plan,        \* per scanning thread: the uuidActions it has drawn up, and "missed":
               \* which of them the cache held although they were not read there
  job,         \* the worker's entries it has not gone past
  cur,         \* the entry the worker is at
  cancel,      \* _cancelWorking
  promise,     \* _workerPromise: was get_future called, was set_value called
  joinable,    \* _workerThread.joinable()
  ready,       \* the watcher's local status == future_status::ready
  fileOpen,    \* _previewsDatabaseFile # nullptr
  target,      \* what main does after the stop in progress
  pc,          \* where each thread is
  crash        \* why the process was terminated, or "none"

W == INSTANCE Watcher WITH MayVanish <- FALSE

watcherVars == <<shouldPoll, watching, caller, wpc, lastMod, timeCheck>>
W_vars      == <<mtime, watcherVars>>
storeVars   == <<cached, remote>>
batchVars   == <<known, plan, job, cur>>
threadVars  == <<cancel, promise, joinable, ready>>
ownerVars   == <<fileOpen, target>>
vars == <<pyramid, storeVars, W_vars, batchVars, threadVars, ownerVars, pc, crash>>

-----------------------------------------------------------------------------
Batch   == [add : SUBSET Uuid, remove : SUBSET Uuid, missed : SUBSET Uuid]
NoBatch == [add |-> {}, remove |-> {}, missed |-> {}]
Items(b)      == b.add \cup b.remove
Without(b, u) == [add |-> b.add \ {u}, remove |-> b.remove \ {u}, missed |-> b.missed \ {u}]

Scanner == {"main", "watcher"}

ProcessPoint == {"reopen", "scan", "promise", "start"}
MainPoint    == {"idle", "watch", "running", "cancel", "join", "joining",
                 "unwatch", "unwatching", "close", "destroy", "gone"}
                \cup ProcessPoint
WatcherPoint == {"none", "status", "decide", "join", "joining"} \cup ProcessPoint
WorkerPoint  == {"none", "take", "load", "crunch", "request", "mark", "done",
                 "exited"}
Reason == {"none", "future_already_retrieved", "join_failed",
           "thread_still_joinable", "file_deleted"}

TypeOK ==
  /\ pyramid \subseteq Uuid /\ cached \subseteq Uuid /\ remote \subseteq Uuid
  /\ W!TypeOK
  /\ known \subseteq Uuid
  /\ plan \in [Scanner -> Batch]
  /\ job \in Batch
  /\ cur \in Uuid \cup {0}
  /\ cancel \in BOOLEAN
  /\ promise \in [retrieved : BOOLEAN, ready : BOOLEAN]
  /\ joinable \in BOOLEAN /\ ready \in BOOLEAN /\ fileOpen \in BOOLEAN
  /\ target \in {"idle", "gone"}
  /\ pc \in [main : MainPoint, watcher : WatcherPoint, worker : WorkerPoint]
  /\ crash \in Reason

FreshPromise == [retrieved |-> FALSE, ready |-> FALSE]

FreshPc      == [main |-> "idle", watcher |-> "none", worker |-> "none"]

\* The object as its constructor leaves it.
Fresh ==
  /\ known = {} /\ plan = [t \in Scanner |-> NoBatch]
  /\ job = NoBatch /\ cur = 0
  /\ cancel = FALSE /\ promise = FreshPromise /\ joinable = FALSE /\ ready = FALSE
  /\ fileOpen = FALSE /\ target = "idle"
  /\ pc = FreshPc
  /\ crash = "none"

\* First use: nothing was synchronized before.  A later run of the program
\* starts from Restart, with whatever the earlier ones left in the stores.
Init ==
  /\ pyramid \in SUBSET Uuid
  /\ cached = {} /\ remote = {}
  /\ W!Init
  /\ Fresh

Terminate(reason) ==
  /\ crash' = reason
  /\ UNCHANGED <<pyramid, storeVars, W_vars, batchVars, threadVars, ownerVars, pc>>

May(fault) == fault \in Faults

-----------------------------------------------------------------------------
(* beginSynchronizingFile.  A failure to open the two databases returns     *)
(* false with the object still idle.  The result of beginWatchingForChanges *)
(* is ignored.  The watcher thread runs before main has scanned.            *)

Begin ==
  /\ pc.main = "idle"
  /\ pc' = [pc EXCEPT !.main = "watch"]
  /\ UNCHANGED <<pyramid, storeVars, W_vars, batchVars, threadVars, ownerVars, crash>>

StartWatching ==
  /\ pc.main = "watch"
  /\ fileOpen' = TRUE
  /\ \/ W!Begin
     \/ May("open") /\ UNCHANGED W_vars
  /\ pc' = [pc EXCEPT !.main = "reopen"]
  /\ UNCHANGED <<pyramid, storeVars, batchVars, threadVars, target, crash>>

-----------------------------------------------------------------------------
(* processChanges, run by main and by the watcher.  When it returns, main   *)
(* is synchronizing; the watcher's delegate returns true whatever happened. *)

ProcessEnds(t, newPc) ==
  \/ /\ t = "main"
     /\ pc' = [newPc EXCEPT !.main = "running"]
     /\ UNCHANGED W_vars
  \/ /\ t = "watcher"
     /\ pc' = [newPc EXCEPT !.watcher = "none"]
     /\ W!Return(TRUE)

Reopen(t) ==
  /\ pc[t] = "reopen"
  /\ \/ pc' = [pc EXCEPT ![t] = "scan"] /\ UNCHANGED W_vars
     \/ May("open") /\ ProcessEnds(t, pc)
  /\ UNCHANGED <<pyramid, storeVars, batchVars, threadVars, ownerVars, crash>>

\* checkEntriesAgainstCachedPreviews: the uuids missing from the cache are to
\* be added, the cached uuids that no row matched are to be removed.  A busy
\* database reads as an empty one, an unreadable cache as any part of it.
RowsRead  == {pyramid} \cup (IF May("lock") THEN {{}} ELSE {})
ProxyRead == IF May("cache") THEN SUBSET cached ELSE {cached}

Missed(rows, proxy) == (cached \ proxy) \cap rows

\* (mutant) a row that is cached is not told apart
DifferenceIgnoringCache(rows, proxy) ==
  [add |-> rows, remove |-> proxy \ rows, missed |-> Missed(rows, proxy)]

Difference(rows, proxy) ==
  [add |-> rows \ proxy, remove |-> proxy \ rows, missed |-> Missed(rows, proxy)]

ScanFails(t) ==
  /\ pc[t] = "scan"
  /\ May("lock")
  /\ ProcessEnds(t, pc)
  /\ UNCHANGED <<pyramid, storeVars, batchVars, threadVars, ownerVars, crash>>

Scan(t) ==
  /\ pc[t] = "scan"
  /\ \E rows \in RowsRead, proxy \in ProxyRead :
       LET found == Difference(rows, proxy) IN
         /\ plan' = [plan EXCEPT ![t] = found]
         /\ IF Items(found) = {}
              THEN ProcessEnds(t, pc)
              ELSE pc' = [pc EXCEPT ![t] = "promise"] /\ UNCHANGED W_vars
  /\ UNCHANGED <<pyramid, storeVars, known, job, cur, threadVars, ownerVars, crash>>

NewPromise(t) ==
  /\ pc[t] = "promise"
  /\ promise' = FreshPromise
  /\ cancel' = FALSE
  /\ pc' = [pc EXCEPT ![t] = "start"]
  /\ UNCHANGED <<pyramid, storeVars, W_vars, batchVars, joinable, ready, ownerVars,
                 crash>>

\* Assigning to a std::thread that is joinable terminates.
StartWorker(t) ==
  /\ pc[t] = "start"
  /\ ~joinable
  /\ joinable' = TRUE
  /\ job' = plan[t]
  /\ plan' = [plan EXCEPT ![t] = NoBatch]
  /\ ProcessEnds(t, [pc EXCEPT !.worker = "take"])
  /\ UNCHANGED <<pyramid, storeVars, known, cur, cancel, promise, ready, ownerVars,
                 crash>>

StartOverRunning(t) ==
  /\ pc[t] = "start"
  /\ joinable
  /\ Terminate("thread_still_joinable")

ProcessChanges(t) == \/ Reopen(t) \/ ScanFails(t) \/ Scan(t)
                     \/ NewPromise(t) \/ StartWorker(t) \/ StartOverRunning(t)

-----------------------------------------------------------------------------
(* _workerThread.join(), called by main when it stops and by the watcher    *)
(* before it scans.  Joining a thread that is not joinable, or that another *)
(* thread is joining, throws std::system_error.                             *)

JoinFails(t) ==
  /\ pc[t] = "join"
  /\ ~joinable \/ \E s \in Scanner : pc[s] = "joining"
  /\ Terminate("join_failed")

JoinWaits(t) ==
  /\ pc[t] = "join"
  /\ joinable /\ \A s \in Scanner : pc[s] # "joining"
  /\ pc' = [pc EXCEPT ![t] = "joining"]
  /\ UNCHANGED <<pyramid, storeVars, W_vars, batchVars, threadVars, ownerVars, crash>>

AfterJoin(t) == IF t = "main" THEN "unwatch" ELSE "reopen"

Joined(t) ==
  /\ pc[t] = "joining" /\ pc.worker = "exited"
  /\ joinable' = FALSE
  /\ pc' = [pc EXCEPT !.worker = "none", ![t] = AfterJoin(t)]
  /\ UNCHANGED <<pyramid, storeVars, W_vars, batchVars, cancel, promise, ready,
                 ownerVars, crash>>

Join(t) == JoinFails(t) \/ JoinWaits(t) \/ Joined(t)

-----------------------------------------------------------------------------
(* fileHasChanged, called by the watcher.  A promise gives its future once: *)
(* a second get_future() throws std::future_error.  If main has replaced the *)
(* promise before the watcher asks for the status (the scan of begin), the  *)
(* future belongs to one that was abandoned, and that is ready as well.     *)

FutureGone ==
  /\ wpc = "callback" /\ pc.watcher = "none"
  /\ promise.retrieved
  /\ Terminate("future_already_retrieved")

GetFuture ==
  /\ wpc = "callback" /\ pc.watcher = "none"
  /\ ~promise.retrieved
  /\ promise' = [promise EXCEPT !.retrieved = TRUE]
  /\ pc' = [pc EXCEPT !.watcher = "status"]
  /\ UNCHANGED <<pyramid, storeVars, W_vars, batchVars, cancel, joinable, ready, ownerVars,
                 crash>>

GetStatus ==
  /\ pc.watcher = "status"
  /\ ready' = (promise.ready \/ ~promise.retrieved)
  /\ pc' = [pc EXCEPT !.watcher = "decide"]
  /\ UNCHANGED <<pyramid, storeVars, W_vars, batchVars, cancel, promise, joinable, ownerVars,
                 crash>>

WorkerDone ==
  /\ pc.watcher = "decide"
  /\ joinable /\ ready
  /\ pc' = [pc EXCEPT !.watcher = "join"]
  /\ UNCHANGED <<pyramid, storeVars, W_vars, batchVars, threadVars, ownerVars, crash>>

\* (mutant) the delegate does not return while the worker runs
WorkerBusyIgnored ==
  /\ pc.watcher = "decide"
  /\ ~(joinable /\ ready)
  /\ pc' = [pc EXCEPT !.watcher = "reopen"]
  /\ UNCHANGED <<pyramid, storeVars, W_vars, batchVars, threadVars, ownerVars, crash>>

WorkerBusy ==
  /\ pc.watcher = "decide"
  /\ ~(joinable /\ ready)
  /\ pc' = [pc EXCEPT !.watcher = "none"]
  /\ W!Return(FALSE)
  /\ UNCHANGED <<pyramid, storeVars, batchVars, threadVars, ownerVars, crash>>

FileHasChanged == FutureGone \/ GetFuture \/ GetStatus \/ WorkerDone \/ WorkerBusy

-----------------------------------------------------------------------------
(* stopSynchronizingFile (then = "idle"), and the destructor of an object   *)
(* that is synchronizing (then = "gone"): both run stopAndCleanup.          *)

Stop(then) ==
  /\ pc.main = "running"
  /\ target' = then
  /\ pc' = [pc EXCEPT !.main = IF joinable THEN "cancel" ELSE "unwatch"]
  /\ UNCHANGED <<pyramid, storeVars, W_vars, batchVars, threadVars, fileOpen, crash>>

Cancel ==
  /\ pc.main = "cancel"
  /\ cancel' = TRUE
  /\ pc' = [pc EXCEPT !.main = "join"]
  /\ UNCHANGED <<pyramid, storeVars, W_vars, batchVars, promise, joinable, ready,
                 ownerVars, crash>>

StopWatcher ==
  /\ pc.main = "unwatch"
  /\ \/ W!StopRequest /\ pc' = [pc EXCEPT !.main = "unwatching"]
     \/ ~watching /\ UNCHANGED W_vars /\ pc' = [pc EXCEPT !.main = "close"]
  /\ UNCHANGED <<pyramid, storeVars, batchVars, threadVars, ownerVars, crash>>

WatcherStopped ==
  /\ pc.main = "unwatching"
  /\ W!StopJoined
  /\ pc' = [pc EXCEPT !.main = "close"]
  /\ UNCHANGED <<pyramid, storeVars, batchVars, threadVars, ownerVars, crash>>

CloseFile ==
  /\ pc.main = "close"
  /\ fileOpen' = FALSE
  /\ pc' = [pc EXCEPT !.main = IF target = "gone" THEN "destroy"
                               ELSE IF Reuse THEN "idle" ELSE "destroy"]
  /\ UNCHANGED <<pyramid, storeVars, W_vars, batchVars, threadVars, target, crash>>

\* The destructor of an object that is not synchronizing.
Delete ==
  /\ pc.main = "idle"
  /\ pc' = [pc EXCEPT !.main = "destroy"]
  /\ UNCHANGED <<pyramid, storeVars, W_vars, batchVars, threadVars, ownerVars, crash>>

\* The end of the destructor: a std::thread member that is still joinable
\* terminates the process.
Destroy ==
  /\ pc.main = "destroy"
  /\ ~joinable
  /\ pc' = [pc EXCEPT !.main = "gone"]
  /\ UNCHANGED <<pyramid, storeVars, W_vars, batchVars, threadVars, ownerVars, crash>>

DestroyRunning ==
  /\ pc.main = "destroy"
  /\ joinable
  /\ Terminate("thread_still_joinable")

-----------------------------------------------------------------------------
(* crunchAndUpload.                                                         *)

WorkerUnchanged == <<pyramid, W_vars, plan, joinable, ready, ownerVars>>

GoesPast(u) == job' = Without(job, u)

\* The loop test and, under the mutex, entryForUuid: an entry once found is
\* kept in memory for the life of the object.
Found(u) == u \in known \/ u \in pyramid

Take(u) ==
  /\ pc.worker = "take" /\ ~cancel
  /\ u \in Items(job) /\ \A v \in Items(job) : u <= v
  /\ \/ /\ Found(u)
        /\ known' = known \cup {u} /\ cur' = u
        /\ pc' = [pc EXCEPT !.worker = "load"]
        /\ UNCHANGED job
     \/ /\ u \notin known /\ (u \notin pyramid \/ May("lock"))
        /\ GoesPast(u)
        /\ UNCHANGED <<known, cur, pc>>
  /\ UNCHANGED <<WorkerUnchanged, storeVars, cancel, promise, crash>>

LoopEnds ==
  /\ pc.worker = "take"
  /\ cancel \/ Items(job) = {}
  /\ pc' = [pc EXCEPT !.worker = "done"]
  /\ UNCHANGED <<WorkerUnchanged, storeVars, known, job, cur, cancel, promise, crash>>

\* A step of one entry that can fail, followed by a test of the cancel flag.
LocalStep(from, to) ==
  /\ pc.worker = from
  /\ \/ /\ May("local")
        /\ GoesPast(cur)
        /\ pc' = [pc EXCEPT !.worker = "take"]
     \/ /\ pc' = [pc EXCEPT !.worker = IF cancel THEN "done" ELSE to]
        /\ UNCHANGED job
  /\ UNCHANGED <<WorkerUnchanged, storeVars, known, cur, cancel, promise, crash>>

Load   == fileOpen /\ LocalStep("load", "crunch")
Crunch == LocalStep("crunch", "request")

\* pathOfPreviewsDatabaseFile() after main has deleted the file object.
LoadAfterClose ==
  /\ pc.worker = "load" /\ ~fileOpen
  /\ Terminate("file_deleted")

\* (mutant) the two cases of the switch are swapped
RequestSwapped ==
  /\ pc.worker = "request"
  /\ \/ cur \in job.remove /\ remote' = remote \cup {cur}
     \/ cur \in job.add /\ remote' = remote \ {cur}
  /\ pc' = [pc EXCEPT !.worker = "mark"]
  /\ UNCHANGED <<WorkerUnchanged, cached, known, job, cur, cancel, promise, crash>>

\* The result of the request is only logged.
Request ==
  /\ pc.worker = "request"
  /\ \/ cur \in job.add /\ remote' = remote \cup {cur}
     \/ cur \in job.remove /\ remote' = remote \ {cur}
     \/ May("request") /\ UNCHANGED remote
  /\ pc' = [pc EXCEPT !.worker = "mark"]
  /\ UNCHANGED <<WorkerUnchanged, cached, known, job, cur, cancel, promise, crash>>

\* (mutant) the iterator is moved on, perhaps to the end, before its entry is recorded
MarkMovedOn ==
  /\ pc.worker = "mark"
  /\ GoesPast(cur)
  /\ cur' \in IF Items(job') = {} THEN {0} ELSE {u \in Items(job') : \A v \in Items(job') : u <= v}
  /\ cached' = cached \cup {cur'}
  /\ pc' = [pc EXCEPT !.worker = "take"]
  /\ UNCHANGED <<WorkerUnchanged, remote, known, cancel, promise, crash>>

\* processedUuid, whatever the action was and however the request ended.
Mark ==
  /\ pc.worker = "mark"
  /\ \/ cached' = cached \cup {cur}
     \/ May("mark") /\ UNCHANGED cached
  /\ GoesPast(cur)
  /\ pc' = [pc EXCEPT !.worker = "take"]
  /\ UNCHANGED <<WorkerUnchanged, remote, known, cur, cancel, promise, crash>>

\* (mutant) set_value is forgotten
FinishSilently ==
  /\ pc.worker = "done"
  /\ job' = NoBatch
  /\ pc' = [pc EXCEPT !.worker = "exited"]
  /\ UNCHANGED <<WorkerUnchanged, storeVars, known, cur, cancel, promise, crash>>

Finish ==
  /\ pc.worker = "done"
  /\ job' = NoBatch
  /\ promise' = [promise EXCEPT !.ready = TRUE]
  /\ pc' = [pc EXCEPT !.worker = "exited"]
  /\ UNCHANGED <<WorkerUnchanged, storeVars, known, cur, cancel, crash>>

-----------------------------------------------------------------------------
(* Lightroom edits previews.db.  The write may fall into the same second as *)
(* the one before.                                                          *)
Edit ==
  /\ \E t \in 1 .. MaxTime : W!Write(t)
  /\ pyramid' \in SUBSET Uuid
  /\ UNCHANGED <<storeVars, watcherVars, batchVars, threadVars, ownerVars, pc, crash>>

\* A new process, after the old one ended or was terminated: the two databases
\* and the bucket are as they were.
Restart ==
  /\ crash # "none" \/ pc.main = "gone"
  /\ shouldPoll' = FALSE /\ watching' = FALSE /\ caller' = "none" /\ wpc' = "none"
  /\ lastMod' = 0 /\ timeCheck' = 0
  /\ known' = {} /\ plan' = [t \in Scanner |-> NoBatch] /\ job' = NoBatch /\ cur' = 0
  /\ cancel' = FALSE /\ promise' = FreshPromise /\ joinable' = FALSE /\ ready' = FALSE
  /\ fileOpen' = FALSE /\ target' = "idle"
  /\ pc' = FreshPc /\ crash' = "none"
  /\ UNCHANGED <<pyramid, storeVars, mtime>>

-----------------------------------------------------------------------------
MainThread == \/ StartWatching \/ ProcessChanges("main") \/ Join("main")
              \/ Cancel \/ StopWatcher \/ WatcherStopped \/ CloseFile
              \/ Destroy \/ DestroyRunning

\* What main does only if its caller wants it.
Client == \/ Begin
          \/ \E then \in {"idle", "gone"} : Stop(then)
          \/ Delete

PollStep == /\ W!Poll
            /\ UNCHANGED <<pyramid, storeVars, batchVars, threadVars, ownerVars, pc, crash>>

WatcherThread == \/ PollStep \/ FileHasChanged
                 \/ Join("watcher") \/ ProcessChanges("watcher")

WorkerThread == \/ \E u \in Uuid : Take(u)
                \/ LoopEnds \/ Load \/ LoadAfterClose \/ Crunch \/ Request
                \/ Mark \/ Finish

Running == \/ Client \/ MainThread \/ WatcherThread \/ WorkerThread

Next == \/ crash = "none" /\ (Running \/ Edit)
        \/ Restart

\* The scheduler runs the three threads, and each call into SQLite, libcurl and
\* the JPEG library returns.  The client and Lightroom are not obliged to act.
Fairness == /\ WF_vars(crash = "none" /\ MainThread)
            /\ WF_vars(crash = "none" /\ WatcherThread)
            /\ WF_vars(crash = "none" /\ WorkerThread)

Spec == Init /\ [][Next]_vars /\ Fairness

-----------------------------------------------------------------------------
WorkerActive == pc.worker \notin {"none", "exited"}

\* What the worker still has to do, as BatchSync sees it: nothing once the
\* process is terminated.
work == IF crash = "none" /\ WorkerActive THEN job ELSE NoBatch

B == INSTANCE BatchSync WITH MayMiss <- May("cache")

\* The threads implement BatchSync: however they interleave, a batch is drawn up
\* only when the one before has ended, against what can be read of an up-to-date cache.
ImplementsBatchSync == B!Spec

\* reopen() and checkEntriesAgainstCachedPreviews() replace and read the two
\* database handles without the mutex: the thread that runs them must be the
\* only one that uses the databases.
ScansAlone ==
  crash = "none" =>
    \A t \in Scanner : pc[t] \in {"reopen", "scan"} =>
      /\ ~WorkerActive
      /\ \A s \in Scanner \ {t} : pc[s] \notin {"reopen", "scan"}

\* The watcher's thread ends the process: its delegate takes a future for the second
\* time (cpp:96), joins the worker that main is joining (cpp:101), or starts a worker
\* over one that an earlier use has left behind (cpp:135).
WatcherThrows ==
  \/ crash = "future_already_retrieved"
  \/ crash = "join_failed" /\ pc.main # "join"
  \/ crash = "thread_still_joinable" /\ pc.watcher = "start"

\* stopAndCleanup() returns from its joins: once main is joining the worker, or goes
\* straight to the watcher, it and the watcher never wait for each other, and nothing
\* but an exception on the watcher's thread keeps it from its end.  That its own join
\* (cpp:76) may throw is StopDoesNotThrow below.
StopReturns ==
  (pc.main \in {"joining", "unwatch"}) ~> (pc.main \in {"idle", "destroy"} \/ WatcherThrows)

Stopping == pc.main # "running" \/ crash # "none"

\* Every preview that a worker is to add ends up in the bucket and in the cache, unless
\* the client stops or Lightroom takes it away again.  The worker that a stop has left
\* behind (StopLeavesNoWorker below) may still be cancelled when the object is begun again.
BatchIsUploaded ==
  \A u \in Uuid :
    (WorkerActive /\ ~cancel /\ u \in job.add)
      ~> ((u \in cached /\ u \in remote) \/ u \notin pyramid \/ Stopping)

\* A preview added after a batch has ended, by a write in a later second, is
\* noticed and taken up by a new batch: the process does not end before.
LateAdditionIsTakenUp ==
  \A u \in Uuid :
    ( /\ pc.main = "running" /\ pc.worker = "exited" /\ ~promise.retrieved
      /\ wpc \in {"while", "sleep"} /\ mtime > lastMod
      /\ u \in pyramid \ cached )
      ~> (u \in plan.watcher.add \/ u \notin pyramid \/ pc.main # "running")

-----------------------------------------------------------------------------
(* What the repository's tests and notes say, and the code does not do.      *)

\* "WillNotJoinWhenFileChangedDelegateCalledIfNotJoinable" and "ShouldNotProcess-
\* PreviewsIfAlreadyProcessing" (test/unit/lib/previewssynchronizer_test.cpp): a
\* change that comes while a batch is being worked on, or when no batch is, is
\* refused; it does not end the process.
BusyChangeIsRefused == crash # "future_already_retrieved"

\* "EXPECT_TRUE(sync.stopSynchronizingFile())" (previewssynchronizer_test.cpp:186, a
\* second after a change): a stop succeeds.  Its join of the worker does not throw.
StopDoesNotThrow == ~(crash = "join_failed" /\ pc.main = "join")

\* A stop ends the synchronization: once it has joined the worker and the watcher
\* no worker thread is left behind (previewssynchronizer_test.cpp:186).
StopLeavesNoWorker ==
  crash = "none" /\ pc.main \in {"close", "idle", "destroy", "gone"} => ~joinable

\* "KeepPreviewsSynchronized" (test/integration/lib/syncpreviews_test.cpp): when
\* no worker runs and a scan would find no difference between previews.db and the
\* cache, every preview of previews.db is in the bucket.
SettledMeansStored ==
  (pc.worker \in {"none", "exited"} /\ Items(Difference(pyramid, cached)) = {})
     => pyramid \subseteq remote
=============================================================================
