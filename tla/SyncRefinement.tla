--------------------------- MODULE SyncRefinement ---------------------------
(***************************************************************************)
(* The theorems about PreviewsSynchronizer that follow from the inductive   *)
(* invariants of SyncProofs: type correctness, the end of the watcher in a  *)
(* stop, exclusive scans, and that the three threads implement BatchSync    *)
(* and with it SharedSync.                                                  *)
(***************************************************************************)
EXTENDS SyncProofs

\* Every variable keeps its type in every reachable state; in particular the entry
\* the worker records is an entry of its batch (crunchAndUpload).
THEOREM SyncTypeCorrect == Spec => []TypeOK
  BY ThreadsHold, PTL

\* However often the object is used: no watcher thread is left when stop goes on to
\* delete the file, nor when the object is destroyed (stopAndCleanup).
THEOREM StopJoinsWatcher == Spec => []StopLeavesNoWatcher
<1>1. ThreadInv => StopLeavesNoWatcher
  BY DEF ThreadInv
<1> QED
  BY ThreadsHold, <1>1, PTL

\* Two scans never run at once, nor a scan beside a worker, although reopen() and
\* checkEntriesAgainstCachedPreviews() take no lock; whatever fails, if the client does
\* not begin again on an object it has stopped.
THEOREM ScansExclude ==
  ASSUME ~Reuse
  PROVE  Spec => []ScansAlone
<1>1. ThreadInv /\ ControlInv => ScansAlone
  BY DEF ThreadInv, ControlInv, WorkerHasThread, MainScansFirst, WatcherScansAfterJoin,
         ScansAlone, WorkerActive, Scanner, ProcessPoint
<1> QED
  BY ThreadsHold, ControlHolds, <1>1, PTL

\* The client keeps to what README.md and the tests do: one synchronization per
\* object.
UsedOnce == ~Reuse

-----------------------------------------------------------------------------
(* The abstract step each action takes.                                     *)

BatchVars == <<cached, remote, work>>

LEMMA SameWork ==
  ASSUME UNCHANGED <<storeVars, job, crash>>, pc'.worker = pc.worker
  PROVE  UNCHANGED BatchVars
  BY DEF BatchVars, storeVars, work, WorkerActive

LEMMA NoWorkLeft ==
  ASSUME UNCHANGED storeVars,
         crash' # "none" \/ pc'.worker \in {"none", "exited"}
  PROVE  B!Abandon
  BY DEF storeVars, work, WorkerActive, B!Abandon, NoBatch, B!NoWork

LEMMA TerminateAbandons ==
  ASSUME NEW r, r # "none", Terminate(r)
  PROVE  B!Abandon
  BY NoWorkLeft DEF Terminate

LEMMA AbandonIsStep == B!Abandon => B!Next
  BY DEF B!Next

\* The current entry is dropped from the batch.
LEMMA EntryDone ==
  ASSUME IInv, crash = "none", UNCHANGED <<remote, crash>>, NEW u \in Items(job),
         WorkerActive, WorkerActive', job' = Without(job, u)
  PROVE  /\ cached' = cached => B!Next
         /\ cached' = cached \cup {u} => B!Next
<1>1. u \in Uuid
  BY DEF IInv, TypeOK, Batch, Items
<1>2. work = job /\ work' = Without(job, u)
  BY DEF work
<1>3. u \in B!Items(work) /\ work' = B!Without(work, u)
  BY <1>2 DEF Items, Without, B!Items, B!Without
<1>4. ASSUME cached' = cached PROVE B!Next
  <2>1. B!Skip(u)
    BY <1>3, <1>4 DEF B!Skip
  <2> QED
    BY <1>1, <2>1 DEF B!Next
<1>5. ASSUME cached' = cached \cup {u} PROVE B!Next
  <2>1. B!Settle(u)
    BY <1>3, <1>5 DEF B!Settle
  <2> QED
    BY <1>1, <2>1 DEF B!Next
<1> QED
  BY <1>4, <1>5

LEMMA OwnerStep ==
  ASSUME IInv,
         \/ Begin \/ StartWatching \/ Cancel \/ StopWatcher \/ WatcherStopped
         \/ CloseFile \/ Delete \/ Destroy \/ DestroyRunning
         \/ \E then \in {"idle", "gone"} : Stop(then)
  PROVE  B!Next \/ UNCHANGED BatchVars
<1> USE DEF batchVars, PcType
<1>1. pc \in PcType
  BY DEF IInv, TypeOK
<1>2. CASE Begin \/ Cancel \/ CloseFile \/ Delete \/ Destroy
  BY <1>1, <1>2, SameWork DEF Begin, Cancel, CloseFile, Delete, Destroy
<1>3. CASE StartWatching \/ StopWatcher \/ WatcherStopped
  BY <1>1, <1>3, SameWork DEF StartWatching, StopWatcher, WatcherStopped
<1>4. ASSUME NEW then \in {"idle", "gone"}, Stop(then) PROVE UNCHANGED BatchVars
  BY <1>1, <1>4, SameWork DEF Stop
<1>5. CASE DestroyRunning
  BY <1>5, TerminateAbandons, AbandonIsStep DEF DestroyRunning
<1> QED
  BY <1>2, <1>3, <1>4, <1>5

LEMMA CallbackStep ==
  ASSUME IInv, \/ PollStep \/ FileHasChanged \/ Edit \/ Restart
               \/ \E t \in Scanner : Join(t)
  PROVE  B!Next \/ UNCHANGED BatchVars
<1> USE DEF batchVars, PcType, Scanner
<1>1. pc \in PcType
  BY DEF IInv, TypeOK
<1>2. CASE PollStep \/ Edit
  BY <1>2, SameWork DEF PollStep, Edit
<1>3. CASE FutureGone
  BY <1>3, TerminateAbandons, AbandonIsStep DEF FutureGone
<1>4. CASE GetFuture \/ GetStatus \/ WorkerDone \/ WorkerBusy
  BY <1>1, <1>4, SameWork DEF GetFuture, GetStatus, WorkerDone, WorkerBusy
<1>5. CASE Restart
  BY <1>5, NoWorkLeft, AbandonIsStep DEF Restart, FreshPc
<1>6. ASSUME NEW t \in Scanner, JoinFails(t) PROVE B!Next
  BY <1>6, TerminateAbandons, AbandonIsStep DEF JoinFails
<1>7. ASSUME NEW t \in Scanner, JoinWaits(t) PROVE UNCHANGED BatchVars
  BY <1>1, <1>7, SameWork DEF JoinWaits
<1>8. ASSUME NEW t \in Scanner, Joined(t) PROVE B!Next
  BY <1>1, <1>8, NoWorkLeft, AbandonIsStep DEF Joined
<1> QED
  BY <1>2, <1>3, <1>4, <1>5, <1>6, <1>7, <1>8 DEF FileHasChanged, Join

LEMMA ProcessChangesStep ==
  ASSUME IInv, crash = "none", NEW t \in Scanner, ProcessChanges(t)
  PROVE  B!Next \/ UNCHANGED BatchVars
<1>1. pc \in PcType
  BY DEF IInv, TypeOK, PcType
<1>2. CASE Reopen(t)
  <2>1. CASE ProcessEnds(t, pc)
    BY <1>1, <1>2, <2>1, ProcessEndsControl, SameWork DEF Reopen, batchVars
  <2>2. CASE pc' = [pc EXCEPT ![t] = "scan"]
    BY <1>1, <1>2, <2>2, SameWork DEF Reopen, batchVars, PcType, Scanner
  <2> QED
    BY <1>2, <2>1, <2>2 DEF Reopen
<1>3. CASE ScanFails(t)
  BY <1>1, <1>3, ProcessEndsControl, SameWork DEF ScanFails, batchVars
<1>4. CASE Scan(t)
  <2>1. ProcessEnds(t, pc) \/ pc' = [pc EXCEPT ![t] = "promise"]
    BY <1>4 DEF Scan
  <2>2. pc'.worker = pc.worker
    BY <1>1, <2>1, ProcessEndsControl DEF PcType, Scanner
  <2> QED
    BY <1>4, <2>2, SameWork DEF Scan
<1>5. CASE NewPromise(t)
  BY <1>1, <1>5, SameWork DEF NewPromise, batchVars, PcType, Scanner
<1>6. CASE StartWorker(t)
  <2> DEFINE np == [pc EXCEPT !.worker = "take"]
  <2>1. np \in PcType /\ np.worker = "take"
    BY <1>1 DEF PcType, WorkerPoint
  <2>2. ProcessEnds(t, np)
    BY <1>6 DEF StartWorker
  <2>3. pc'.worker = "take"
    BY <2>1, <2>2, ProcessEndsControl
  <2>4. work = B!NoWork
    BY <1>6 DEF StartWorker, IInv, ThreadInv, WorkerHasThread, work, WorkerActive,
                NoBatch, B!NoWork
  <2>5. work' = plan[t] /\ UNCHANGED <<cached, remote>>
    BY <1>6, <2>3 DEF StartWorker, work, WorkerActive, storeVars
  <2>6. Agrees(plan[t]) /\ plan[t] \in B!Work
    BY <1>6 DEF StartWorker, IInv, BatchInv, PlansAgree, TypeOK, Batch, B!Work
  <2>7. B!DrawUp
    BY <2>4, <2>5, <2>6 DEF B!DrawUp, Agrees
  <2> QED
    BY <2>6, <2>7 DEF B!Next
<1>7. CASE StartOverRunning(t)
  BY <1>7, TerminateAbandons, AbandonIsStep DEF StartOverRunning
<1> QED
  BY <1>2, <1>3, <1>4, <1>5, <1>6, <1>7 DEF ProcessChanges

LEMMA WorkerStep ==
  ASSUME IInv, crash = "none", WorkerThread
  PROVE  B!Next \/ UNCHANGED BatchVars
<1> USE DEF storeVars, PcType
<1>1. pc \in PcType /\ WorkerActive
  BY DEF IInv, TypeOK, WorkerThread, Take, LoopEnds, Load, LoadAfterClose, Crunch,
         LocalStep, Request, Mark, Finish, WorkerActive
<1>2. CurInBatch
  BY DEF IInv, ThreadInv
<1>3. (UNCHANGED <<storeVars, job, crash>> /\ WorkerActive') => UNCHANGED BatchVars
  BY <1>1 DEF BatchVars, work
<1>4. ASSUME NEW u \in Uuid, Take(u) PROVE B!Next \/ UNCHANGED BatchVars
  <2>1. WorkerActive' /\ UNCHANGED <<storeVars, crash>> /\ u \in Items(job)
    BY <1>1, <1>4 DEF Take, WorkerActive
  <2>2. job' = job \/ job' = Without(job, u)
    BY <1>4 DEF Take, GoesPast
  <2> QED
    BY <1>1, <1>3, <2>1, <2>2, EntryDone
<1>5. CASE LoopEnds
  BY <1>1, <1>3, <1>5 DEF LoopEnds, WorkerActive
<1>6. CASE Load \/ Crunch
  <2>1. PICK from \in {"load", "crunch"}, to \in {"crunch", "request"} : LocalStep(from, to)
    BY <1>6 DEF Load, Crunch
  <2>2. WorkerActive' /\ UNCHANGED <<storeVars, crash>> /\ cur \in Items(job)
    BY <1>1, <1>2, <2>1 DEF LocalStep, WorkerActive, CurInBatch
  <2>3. job' = job \/ job' = Without(job, cur)
    BY <2>1 DEF LocalStep, GoesPast
  <2> QED
    BY <1>1, <1>3, <2>2, <2>3, EntryDone
<1>7. CASE LoadAfterClose
  BY <1>7, TerminateAbandons, AbandonIsStep DEF LoadAfterClose
<1>8. CASE Request
  <2>1. WorkerActive' /\ UNCHANGED <<cached, job, crash>>
    BY <1>1, <1>8 DEF Request, WorkerActive
  <2>2. work = job /\ work' = job /\ cur \in Uuid \cup {0}
    BY <1>1, <2>1 DEF work, IInv, TypeOK
  <2>3. CASE cur \in job.add /\ remote' = remote \cup {cur}
    <3>1. cur \in Uuid
      BY <2>3 DEF IInv, TypeOK, Batch
    <3>2. B!Put(cur)
      BY <2>1, <2>2, <2>3 DEF B!Put
    <3> QED
      BY <3>1, <3>2 DEF B!Next
  <2>4. CASE cur \in job.remove /\ remote' = remote \ {cur}
    <3>1. cur \in Uuid
      BY <2>4 DEF IInv, TypeOK, Batch
    <3>2. B!Delete(cur)
      BY <2>1, <2>2, <2>4 DEF B!Delete
    <3> QED
      BY <3>1, <3>2 DEF B!Next
  <2>5. CASE UNCHANGED remote
    BY <1>3, <2>1, <2>5
  <2> QED
    BY <1>8, <2>3, <2>4, <2>5 DEF Request
<1>9. CASE Mark
  <2>1. WorkerActive' /\ UNCHANGED <<remote, crash>> /\ cur \in Items(job)
    BY <1>1, <1>2, <1>9 DEF Mark, WorkerActive, CurInBatch, WorkerUnchanged
  <2>2. job' = Without(job, cur) /\ (cached' = cached \/ cached' = cached \cup {cur})
    BY <1>9 DEF Mark, GoesPast
  <2> QED
    BY <1>1, <2>1, <2>2, EntryDone
<1>10. CASE Finish
  BY <1>1, <1>10, NoWorkLeft, AbandonIsStep DEF Finish
<1> QED
  BY <1>4, <1>5, <1>6, <1>7, <1>8, <1>9, <1>10 DEF WorkerThread

-----------------------------------------------------------------------------
\* The threads implement BatchSync: previews are handled in one batch at a time,
\* drawn up against what can be read of the cache, and nothing is uploaded that was read
\* there (begin, processChanges, crunchAndUpload and stopAndCleanup); whatever fails.
THEOREM ThreadsImplementBatchSync ==
  ASSUME UsedOnce
  PROVE  Spec => ImplementsBatchSync
<1>1. Init => B!Init
  BY DEF Init, Fresh, FreshPc, B!Init, work, WorkerActive, NoBatch, B!NoWork
<1>2. IInv /\ Next => B!Next \/ UNCHANGED BatchVars
  <2>1. SUFFICES ASSUME IInv, Next PROVE B!Next \/ UNCHANGED BatchVars
    OBVIOUS
  <2>2. Restart \/ crash = "none"
    BY <2>1 DEF Next
  <2> QED
    BY <2>1, <2>2, NextCases, OwnerStep, CallbackStep, ProcessChangesStep, WorkerStep
<1>3. UNCHANGED vars => UNCHANGED BatchVars
  BY DEF vars, BatchVars, storeVars, batchVars, work, WorkerActive
<1>4. IInv /\ [Next]_vars => [B!Next]_B!vars
  BY <1>2, <1>3 DEF BatchVars, B!vars
<1>5. Spec => []IInv
  BY IInvHolds DEF UsedOnce
<1> QED
  BY <1>1, <1>4, <1>5, PTL DEF Spec, ImplementsBatchSync, B!Spec

\* What BatchSync promises of every step holds of the threads too: an object appears
\* in the bucket only for a preview that the cache does not hold, or that the batch has
\* missed when it read the cache, and disappears only for one it holds, although the
\* decision was taken when the batch was drawn up and other threads ran since.
THEOREM TransfersStayValid ==
  ASSUME UsedOnce
  PROVE  Spec => B!TransfersFollowCache
<1>1. IInv => B!WorkAgreesWithCache
  BY DEF IInv, BatchInv, JobAgrees, Agrees, work, NoBatch, B!WorkAgreesWithCache
<1>2. B!WorkAgreesWithCache /\ [B!Next]_B!vars =>
        [ /\ \A u \in remote' \ remote : u \in cached => May("cache") /\ u \in work.missed
          /\ \A u \in remote \ remote' : u \in cached ]_B!vars
  <2>1. SUFFICES ASSUME B!WorkAgreesWithCache, B!Next
                 PROVE  /\ \A u \in remote' \ remote :
                             u \in cached => May("cache") /\ u \in work.missed
                        /\ \A u \in remote \ remote' : u \in cached
    OBVIOUS
  <2>2. B!DrawUp => remote' = remote
    BY DEF B!DrawUp
  <2>3. ASSUME NEW u \in Uuid, B!Settle(u) \/ B!Skip(u) PROVE remote' = remote
    BY <2>3 DEF B!Settle, B!Skip
  <2>4. ASSUME NEW u \in Uuid, B!Put(u)
        PROVE  remote' = remote \cup {u} /\ (u \in cached => May("cache") /\ u \in work.missed)
    BY <2>1, <2>4 DEF B!Put, B!WorkAgreesWithCache
  <2>5. ASSUME NEW u \in Uuid, B!Delete(u)
        PROVE  remote' = remote \ {u} /\ u \in cached
    BY <2>1, <2>5 DEF B!Delete, B!WorkAgreesWithCache
  <2>6. B!Abandon => remote' = remote
    BY DEF B!Abandon
  <2> QED
    BY <2>1, <2>2, <2>3, <2>4, <2>5, <2>6 DEF B!Next
<1>3. Spec => B!Spec
  BY ThreadsImplementBatchSync DEF ImplementsBatchSync
<1>4. Spec => []IInv
  BY IInvHolds DEF UsedOnce
<1> QED
  BY <1>1, <1>2, <1>3, <1>4, PTL DEF B!Spec, B!TransfersFollowCache

-----------------------------------------------------------------------------
(* A synchronizer that has the cache to itself, as SharedSync sees it.      *)

OneCatalog == {"catalog"}

Shared == INSTANCE SharedSync WITH Catalog <- OneCatalog,
                                   Own  <- [c \in OneCatalog |-> Uuid],
                                   work <- [c \in OneCatalog |-> work]

\* What BatchSync promises is what SharedSync promises of a single catalog: transfers are
\* not seen there.
LEMMA BatchStepIsShared ==
  ASSUME [B!Next]_B!vars
  PROVE  [Shared!Next]_Shared!vars
<1> DEFINE c == "catalog"
           Rest == UNCHANGED Shared!vars
<1> USE DEF OneCatalog
<1>1. ASSUME UNCHANGED <<cached, work>> PROVE Rest
  BY <1>1 DEF Shared!vars
<1>2. CASE B!DrawUp
  <2>1. /\ work = B!NoWork /\ work' \in Shared!Work /\ cached' = cached
        /\ work'.add \subseteq Uuid /\ work'.add \cap cached \subseteq work'.missed
        /\ work'.missed \subseteq cached /\ work'.remove \subseteq cached
    BY <1>2 DEF B!DrawUp, B!Work, Shared!Work
  <2>2. Shared!DrawUp(c)
    BY <2>1 DEF Shared!DrawUp, B!NoWork, Shared!NoWork
  <2> QED
    BY <2>2 DEF Shared!Next
<1>3. ASSUME NEW u \in Uuid, B!Put(u) \/ B!Delete(u) PROVE Rest
  BY <1>1, <1>3 DEF B!Put, B!Delete
<1>4. ASSUME NEW u \in Uuid, B!Settle(u) PROVE Shared!Settle(c, u)
  BY <1>4 DEF B!Settle, Shared!Settle, B!Items, Shared!Items, B!Without, Shared!Without
<1>5. ASSUME NEW u \in Uuid, B!Skip(u) PROVE Shared!Skip(c, u)
  BY <1>5 DEF B!Skip, Shared!Skip, B!Items, Shared!Items, B!Without, Shared!Without
<1>6. B!Abandon => Shared!Abandon(c)
  BY DEF B!Abandon, Shared!Abandon, B!NoWork, Shared!NoWork
<1>7. UNCHANGED B!vars => Rest
  BY <1>1 DEF B!vars
<1> QED
  BY <1>2, <1>3, <1>4, <1>5, <1>6, <1>7 DEF B!Next, Shared!Next

\* The threads of one synchronizer keep the promise that Program.tla keeps for any number
\* of them: the outline there and the detail here agree on what a synchronizer does.
THEOREM ThreadsImplementSharedSync ==
  ASSUME UsedOnce
  PROVE  Spec => Shared!Spec
<1>1. B!Init => Shared!Init
  BY DEF B!Init, Shared!Init, Shared!Idle, B!NoWork, Shared!NoWork
<1>2. [B!Next]_B!vars => [Shared!Next]_Shared!vars
  BY BatchStepIsShared
<1>3. Spec => B!Spec
  BY ThreadsImplementBatchSync DEF ImplementsBatchSync
<1> QED
  BY <1>1, <1>2, <1>3, PTL DEF B!Spec, Shared!Spec
=============================================================================
