----------------------------- MODULE SyncProofs -----------------------------
(***************************************************************************)
(* Proofs about PreviewsSynchronizer, for any set of previews and any bound *)
(* on the clock.  Three layers, each with what it needs:                    *)
(*   ThreadInv   which threads there are and who waits for whom: always;    *)
(*   ControlInv  who may scan: if no object is used again (~Reuse);         *)
(*   BatchInv    what the batches have to do with the cache: then too, even *)
(*               where the cache cannot be read.                            *)
(***************************************************************************)
EXTENDS PreviewsSynchronizer, TLAPS

PcType == [main : MainPoint, watcher : WatcherPoint, worker : WorkerPoint]

\* A thread object is joinable exactly while its thread exists.
WorkerHasThread  == (pc.worker = "none") <=> ~joinable
WatcherHasThread == (wpc = "none") <=> ~watching

\* While the worker is at an entry, that entry is still in its batch.
CurInBatch ==
  pc.worker \in {"load", "crunch", "request", "mark"} => cur \in Items(job)

\* Which joins are under way, and when the watcher is in its delegate.  A join that throws
\* (JoinFails) is none of these: it ends the process.
JoinsInOrder ==
  /\ \A t \in Scanner : pc[t] = "joining" =>
       pc.worker # "none" /\ \A s \in Scanner \ {t} : pc[s] # "joining"
  /\ pc.main = "unwatching" => wpc # "none" /\ caller = "join" /\ ~shouldPoll
  /\ pc.watcher # "none" => wpc = "callback"

\* Unlike the worker, the watcher never outlives a stop: when stopAndCleanup() goes on to
\* delete the file object, and after that, no thread is left that calls the delegate.
StopLeavesNoWatcher ==
  pc.main \in {"idle", "watch", "close", "destroy", "gone"} =>
    ~watching /\ wpc = "none" /\ pc.watcher = "none"

ThreadInv == /\ WorkerHasThread /\ WatcherHasThread /\ CurInBatch
             /\ JoinsInOrder /\ StopLeavesNoWatcher

-----------------------------------------------------------------------------
(* The watcher's variables keep their types under each watcher action.      *)

LEMMA WatcherStep ==
  ASSUME W!TypeOK,
         \/ W!Begin \/ W!StopRequest \/ W!StopJoined \/ W!Poll
         \/ \E track \in BOOLEAN : W!Return(track)
         \/ UNCHANGED W_vars
  PROVE  W!TypeOK'
<1> USE SyncAssumption DEF W!TypeOK, W!Times, W!PollPoint, W!fileVars, W!Goto
<1>1. CASE W!Begin \/ W!StopRequest \/ W!StopJoined
  BY <1>1 DEF W!Begin, W!StopRequest, W!StopJoined
<1>2. CASE W!Poll
  <2>1. W!SecondStat \subseteq W!Times
    BY DEF W!SecondStat
  <2>2. CASE W!ThreadEntry \/ W!BaselineMissing \/ W!BaselineValid \/ W!WhileTest
    BY <2>2 DEF W!ThreadEntry, W!BaselineMissing, W!BaselineValid, W!WhileTest
  <2>3. CASE W!BaselineStat
    BY <2>1, <2>3 DEF W!BaselineStat
  <2>4. CASE W!CheckStat
    BY <2>1, <2>4 DEF W!CheckStat
  <2>5. CASE W!CheckMissing \/ W!CheckValid \/ W!Sleep
    BY <2>5 DEF W!CheckMissing, W!CheckValid, W!Sleep
  <2> QED
    BY <1>2, <2>2, <2>3, <2>4, <2>5 DEF W!Poll
<1>3. ASSUME NEW track \in BOOLEAN, W!Return(track) PROVE W!TypeOK'
  BY <1>3 DEF W!Return
<1>4. CASE UNCHANGED W_vars
  BY <1>4 DEF W_vars, watcherVars
<1> QED
  BY <1>1, <1>2, <1>3, <1>4

LEMMA WriteStep ==
  ASSUME W!TypeOK, NEW t \in 1 .. MaxTime, W!Write(t), UNCHANGED watcherVars
  PROVE  W!TypeOK'
  BY SyncAssumption DEF W!TypeOK, W!Times, W!PollPoint, W!Write, watcherVars

-----------------------------------------------------------------------------
(* The other variables.                                                     *)

OwnTypeOK ==
  /\ pyramid \subseteq Uuid /\ cached \subseteq Uuid /\ remote \subseteq Uuid
  /\ known \subseteq Uuid
  /\ plan \in [Scanner -> Batch]
  /\ job \in Batch
  /\ cur \in Uuid \cup {0}
  /\ cancel \in BOOLEAN
  /\ promise \in [retrieved : BOOLEAN, ready : BOOLEAN]
  /\ joinable \in BOOLEAN /\ ready \in BOOLEAN /\ fileOpen \in BOOLEAN
  /\ target \in {"idle", "gone"}
  /\ pc \in [main : MainPoint, watcher : WatcherPoint, worker : WorkerPoint]
  /\ crash \in Reason

LEMMA TypeSplit == TypeOK <=> OwnTypeOK /\ W!TypeOK
  BY DEF TypeOK, OwnTypeOK

LEMMA NoBatchType == NoBatch \in Batch
  BY DEF NoBatch, Batch

LEMMA WithoutType ==
  ASSUME NEW b \in Batch, NEW u
  PROVE  Without(b, u) \in Batch
  BY DEF Batch, Without

\* processChanges returns: the scanning thread goes back to where it came from.
LEMMA ProcessEndsType ==
  ASSUME NEW t \in Scanner,
         NEW np \in [main : MainPoint, watcher : WatcherPoint, worker : WorkerPoint],
         W!TypeOK, ProcessEnds(t, np)
  PROVE  /\ pc' \in [main : MainPoint, watcher : WatcherPoint, worker : WorkerPoint]
         /\ pc'.worker = np.worker
         /\ W!TypeOK'
<1>1. W!TypeOK'
  BY WatcherStep DEF ProcessEnds
<1>2. CASE t = "main" /\ pc' = [np EXCEPT !.main = "running"]
  BY <1>1, <1>2 DEF MainPoint
<1>3. CASE t = "watcher" /\ pc' = [np EXCEPT !.watcher = "none"]
  BY <1>1, <1>3 DEF WatcherPoint
<1> QED
  BY <1>2, <1>3 DEF ProcessEnds

\* Termination changes nothing but the reason.
LEMMA TerminateType ==
  ASSUME TypeOK, NEW r \in Reason, Terminate(r)
  PROVE  TypeOK'
<1>1. W!TypeOK'
  BY TypeSplit, WatcherStep DEF Terminate
<1>2. OwnTypeOK'
  BY TypeSplit DEF OwnTypeOK, Terminate, storeVars, batchVars, threadVars, ownerVars
<1> QED
  BY <1>1, <1>2 DEF TypeOK, OwnTypeOK

LEMMA ProcessChangesType ==
  ASSUME TypeOK, NEW t \in Scanner, ProcessChanges(t)
  PROVE  TypeOK'
<1> USE DEF OwnTypeOK, storeVars, threadVars, ownerVars
<1>1. OwnTypeOK /\ W!TypeOK /\ pc \in PcType
  BY TypeSplit DEF PcType
<1> SUFFICES OwnTypeOK' /\ W!TypeOK'
  BY DEF TypeOK
<1>2. CASE Reopen(t)
  <2>1. CASE ProcessEnds(t, pc)
    BY <1>1, <1>2, <2>1, ProcessEndsType DEF Reopen, batchVars, PcType
  <2>2. CASE pc' = [pc EXCEPT ![t] = "scan"] /\ UNCHANGED W_vars
    <3>1. pc' \in PcType
      BY <1>1, <2>2 DEF PcType, Scanner, MainPoint, WatcherPoint, ProcessPoint
    <3> QED
      BY <1>1, <1>2, <2>2, <3>1, WatcherStep DEF Reopen, batchVars, PcType
  <2> QED
    BY <1>2, <2>1, <2>2 DEF Reopen
<1>3. CASE ScanFails(t)
  BY <1>1, <1>3, ProcessEndsType DEF ScanFails, batchVars, PcType
<1>4. CASE Scan(t)
  <2>1. PICK rows \in RowsRead, proxy \in ProxyRead :
          /\ plan' = [plan EXCEPT ![t] = Difference(rows, proxy)]
          /\ \/ ProcessEnds(t, pc)
             \/ pc' = [pc EXCEPT ![t] = "promise"] /\ UNCHANGED W_vars
    BY <1>4 DEF Scan
  <2>2. Difference(rows, proxy) \in Batch
    BY <1>1 DEF Difference, Missed, RowsRead, ProxyRead, Batch
  <2>3. plan' \in [Scanner -> Batch]
    BY <1>1, <2>1, <2>2
  <2>4. CASE ProcessEnds(t, pc)
    BY <1>1, <1>4, <2>3, <2>4, ProcessEndsType DEF Scan, PcType
  <2>5. CASE pc' = [pc EXCEPT ![t] = "promise"] /\ UNCHANGED W_vars
    <3>1. pc' \in PcType
      BY <1>1, <2>5 DEF PcType, Scanner, MainPoint, WatcherPoint, ProcessPoint
    <3> QED
      BY <1>1, <1>4, <2>3, <2>5, <3>1, WatcherStep DEF Scan, PcType
  <2> QED
    BY <2>1, <2>4, <2>5
<1>5. CASE NewPromise(t)
  <2>1. pc' \in PcType
    BY <1>1, <1>5 DEF NewPromise, PcType, Scanner, MainPoint, WatcherPoint, ProcessPoint
  <2> QED
    BY <1>1, <1>5, <2>1, WatcherStep DEF NewPromise, FreshPromise, batchVars, PcType
<1>6. CASE StartWorker(t)
  <2>1. [pc EXCEPT !.worker = "take"] \in PcType
    BY <1>1 DEF PcType, WorkerPoint
  <2>2. job' \in Batch /\ plan' \in [Scanner -> Batch]
    BY <1>1, <1>6, NoBatchType DEF StartWorker
  <2> QED
    BY <1>1, <1>6, <2>1, <2>2, ProcessEndsType DEF StartWorker, PcType
<1>7. CASE StartOverRunning(t)
  BY <1>7, TerminateType DEF StartOverRunning, Reason, TypeOK
<1> QED
  BY <1>2, <1>3, <1>4, <1>5, <1>6, <1>7 DEF ProcessChanges

LEMMA JoinType ==
  ASSUME TypeOK, NEW t \in Scanner, Join(t)
  PROVE  TypeOK'
<1> USE DEF OwnTypeOK, storeVars, batchVars, threadVars, ownerVars
<1>1. OwnTypeOK /\ W!TypeOK /\ pc \in PcType
  BY TypeSplit DEF PcType
<1>2. CASE JoinFails(t)
  BY <1>2, TerminateType DEF JoinFails, Reason
<1>3. CASE JoinWaits(t)
  <2>1. pc' \in PcType
    BY <1>1, <1>3 DEF JoinWaits, PcType, Scanner, MainPoint, WatcherPoint
  <2> QED
    BY <1>1, <1>3, <2>1, WatcherStep DEF JoinWaits, PcType, TypeOK
<1>4. CASE Joined(t)
  <2>1. pc' \in PcType
    BY <1>1, <1>4 DEF Joined, AfterJoin, PcType, Scanner, MainPoint, WatcherPoint,
                      WorkerPoint, ProcessPoint
  <2> QED
    BY <1>1, <1>4, <2>1, WatcherStep DEF Joined, PcType, TypeOK
<1> QED
  BY <1>2, <1>3, <1>4 DEF Join

LEMMA OwnerType ==
  ASSUME TypeOK,
         \/ Begin \/ StartWatching \/ Cancel \/ StopWatcher \/ WatcherStopped
         \/ CloseFile \/ Delete \/ Destroy \/ DestroyRunning
         \/ \E then \in {"idle", "gone"} : Stop(then)
  PROVE  TypeOK'
<1> USE DEF OwnTypeOK, storeVars, batchVars, threadVars, ownerVars, PcType
<1>1. OwnTypeOK /\ W!TypeOK /\ pc \in PcType
  BY TypeSplit
<1>2. ASSUME NEW p \in MainPoint, pc' = [pc EXCEPT !.main = p] PROVE pc' \in PcType
  BY <1>1, <1>2
<1>3. CASE Begin \/ Cancel \/ CloseFile \/ Delete \/ Destroy
  <2>1. pc' \in PcType
    BY <1>2, <1>3 DEF Begin, Cancel, CloseFile, Delete, Destroy, MainPoint
  <2> QED
    BY <1>1, <1>3, <2>1, WatcherStep
       DEF Begin, Cancel, CloseFile, Delete, Destroy, TypeOK
<1>4. CASE StartWatching \/ StopWatcher \/ WatcherStopped
  <2>1. pc' \in PcType
    BY <1>2, <1>4 DEF StartWatching, StopWatcher, WatcherStopped, MainPoint, ProcessPoint
  <2> QED
    BY <1>1, <1>4, <2>1, WatcherStep DEF StartWatching, StopWatcher, WatcherStopped, TypeOK
<1>5. ASSUME NEW then \in {"idle", "gone"}, Stop(then) PROVE TypeOK'
  <2>1. pc' \in PcType
    BY <1>2, <1>5 DEF Stop, MainPoint
  <2> QED
    BY <1>1, <1>5, <2>1, WatcherStep DEF Stop, TypeOK
<1>6. CASE DestroyRunning
  BY <1>6, TerminateType DEF DestroyRunning, Reason
<1> QED
  BY <1>3, <1>4, <1>5, <1>6

LEMMA CallbackType ==
  ASSUME TypeOK, PollStep \/ FileHasChanged
  PROVE  TypeOK'
<1> USE DEF OwnTypeOK, storeVars, batchVars, threadVars, ownerVars, PcType
<1>1. OwnTypeOK /\ W!TypeOK /\ pc \in PcType
  BY TypeSplit
<1>2. ASSUME NEW p \in WatcherPoint, pc' = [pc EXCEPT !.watcher = p] PROVE pc' \in PcType
  BY <1>1, <1>2
<1>3. CASE PollStep
  BY <1>1, <1>3, WatcherStep DEF PollStep, TypeOK
<1>4. CASE FutureGone
  BY <1>4, TerminateType DEF FutureGone, Reason
<1>5. CASE GetFuture \/ GetStatus
  <2>1. pc' \in PcType
    BY <1>2, <1>5 DEF GetFuture, GetStatus, WatcherPoint
  <2>2. promise' \in [retrieved : BOOLEAN, ready : BOOLEAN] /\ ready' \in BOOLEAN
    BY <1>1, <1>5 DEF GetFuture, GetStatus
  <2> QED
    BY <1>1, <1>5, <2>1, <2>2, WatcherStep DEF GetFuture, GetStatus, TypeOK
<1>6. CASE WorkerDone \/ WorkerBusy
  <2>1. pc' \in PcType
    BY <1>2, <1>6 DEF WorkerDone, WorkerBusy, WatcherPoint
  <2> QED
    BY <1>1, <1>6, <2>1, WatcherStep DEF WorkerDone, WorkerBusy, TypeOK
<1> QED
  BY <1>3, <1>4, <1>5, <1>6 DEF FileHasChanged

LEMMA WorkerType ==
  ASSUME TypeOK, CurInBatch, WorkerThread
  PROVE  TypeOK'
<1> USE DEF OwnTypeOK, storeVars, ownerVars, PcType, WorkerUnchanged
<1>1. OwnTypeOK /\ W!TypeOK /\ pc \in PcType
  BY TypeSplit
<1>2. ASSUME NEW p \in WorkerPoint, pc' = [pc EXCEPT !.worker = p] PROVE pc' \in PcType
  BY <1>1, <1>2
<1>3. UNCHANGED WorkerUnchanged => W!TypeOK'
  BY <1>1, WatcherStep
<1>4. ASSUME NEW u \in Uuid, Take(u) PROVE TypeOK'
  <2>1. pc' \in PcType /\ job' \in Batch
    BY <1>1, <1>2, <1>4, WithoutType DEF Take, GoesPast, WorkerPoint
  <2> QED
    BY <1>1, <1>3, <1>4, <2>1 DEF Take, TypeOK
<1>5. CASE LoopEnds
  BY <1>1, <1>2, <1>3, <1>5 DEF LoopEnds, WorkerPoint, TypeOK
<1>6. CASE Load \/ Crunch
  <2>1. pc' \in PcType /\ job' \in Batch
    BY <1>1, <1>2, <1>6, WithoutType DEF Load, Crunch, LocalStep, GoesPast, WorkerPoint
  <2> QED
    BY <1>1, <1>3, <1>6, <2>1 DEF Load, Crunch, LocalStep, TypeOK
<1>7. CASE LoadAfterClose
  BY <1>7, TerminateType DEF LoadAfterClose, Reason
<1>8. CASE Request
  <2>1. pc' \in PcType /\ remote' \subseteq Uuid
    BY <1>1, <1>2, <1>8 DEF Request, WorkerPoint, Batch
  <2> QED
    BY <1>1, <1>3, <1>8, <2>1 DEF Request, TypeOK
<1>9. CASE Finish
  <2>1. pc' \in PcType /\ promise' \in [retrieved : BOOLEAN, ready : BOOLEAN]
    BY <1>1, <1>2, <1>9 DEF Finish, WorkerPoint
  <2> QED
    BY <1>1, <1>3, <1>9, <2>1, NoBatchType DEF Finish, TypeOK
<1>10. CASE Mark
  <2>1. pc' \in PcType /\ job' \in Batch
    BY <1>1, <1>2, <1>10, WithoutType DEF Mark, GoesPast, WorkerPoint
  <2>2. cached' \subseteq Uuid
    BY <1>1, <1>10 DEF Mark, CurInBatch, Items, Batch
  <2> QED
    BY <1>1, <1>3, <1>10, <2>1, <2>2 DEF Mark, TypeOK
<1> QED
  BY <1>4, <1>5, <1>6, <1>7, <1>8, <1>9, <1>10 DEF WorkerThread


LEMMA EditType ==
  ASSUME TypeOK, Edit
  PROVE  TypeOK'
<1>1. OwnTypeOK /\ W!TypeOK
  BY TypeSplit
<1>2. W!TypeOK'
  BY <1>1, WriteStep DEF Edit
<1>3. OwnTypeOK'
  BY <1>1 DEF Edit, OwnTypeOK, storeVars, batchVars, threadVars, ownerVars
<1> QED
  BY <1>2, <1>3 DEF TypeOK, OwnTypeOK

\* A fresh object, in a new process.
LEMMA FreshPcType == FreshPc \in PcType
  BY DEF FreshPc, PcType, MainPoint, WatcherPoint, WorkerPoint

LEMMA RestartType ==
  ASSUME TypeOK, Restart
  PROVE  TypeOK'
<1>1. OwnTypeOK /\ W!TypeOK
  BY TypeSplit
<1>2. W!TypeOK'
  <2>1. 0 \in W!Times
    BY SyncAssumption DEF W!Times
  <2> QED
    BY <1>1, <2>1 DEF Restart, W!TypeOK, W!PollPoint
<1>3. plan' \in [Scanner -> Batch] /\ job' \in Batch
  BY NoBatchType DEF Restart
<1>4. promise' \in [retrieved : BOOLEAN, ready : BOOLEAN]
  BY DEF Restart, FreshPromise
<1>5. pc' \in PcType /\ crash' \in Reason
  BY FreshPcType DEF Restart, Reason
<1> QED
  BY <1>1, <1>2, <1>3, <1>4, <1>5 DEF Restart, TypeOK, OwnTypeOK, PcType, storeVars

LEMMA InitType == Init => TypeOK
<1> SUFFICES ASSUME Init PROVE TypeOK
  OBVIOUS
<1>1. W!TypeOK
  <2>1. mtime \in 0 .. MaxTime /\ 0 \in W!Times
    BY SyncAssumption DEF Init, W!Init, W!Times
  <2> QED
    BY <2>1 DEF Init, W!Init, W!InitWatcher, W!TypeOK, W!PollPoint
<1>2. plan \in [Scanner -> Batch] /\ job \in Batch
  BY NoBatchType DEF Init, Fresh
<1>3. promise \in [retrieved : BOOLEAN, ready : BOOLEAN]
  BY DEF Init, Fresh, FreshPromise
<1>4. pc \in PcType /\ crash \in Reason
  BY FreshPcType DEF Init, Fresh, Reason
<1> QED
  BY <1>1, <1>2, <1>3, <1>4 DEF Init, Fresh, TypeOK, PcType


-----------------------------------------------------------------------------
(* Which threads there are, and who waits for whom.                         *)

\* A step that leaves the threads, their thread objects and the batch alone.
LEMMA ThreadStutter ==
  ASSUME ThreadInv,
         UNCHANGED <<pc, joinable, job, cur, shouldPoll, watching, caller, wpc>>
  PROVE  ThreadInv'
  BY DEF ThreadInv, WorkerHasThread, WatcherHasThread, CurInBatch, JoinsInOrder,
         StopLeavesNoWatcher, Items

\* Neither thread of a scanner is moved but t, which is about to scan or has scanned.
LEMMA ProcessPointThread ==
  ASSUME TypeOK, ThreadInv, NEW t \in Scanner, pc[t] \in {"reopen", "scan", "promise"},
         NEW p \in ProcessPoint, pc' = [pc EXCEPT ![t] = p],
         UNCHANGED <<joinable, job, cur, W_vars>>
  PROVE  ThreadInv'
  BY DEF TypeOK, ThreadInv, WorkerHasThread, WatcherHasThread, CurInBatch, JoinsInOrder,
         StopLeavesNoWatcher, Items, Scanner, ProcessPoint, W_vars, watcherVars

\* processChanges returns, with the worker started or not.
LEMMA ProcessEndsThread ==
  ASSUME TypeOK, ThreadInv, NEW t \in Scanner, pc[t] \in ProcessPoint,
         NEW np \in PcType, \A s \in Scanner : np[s] = pc[s], ProcessEnds(t, np),
         \/ np.worker = pc.worker /\ UNCHANGED <<joinable, job, cur>>
         \/ np.worker = "take" /\ joinable' = TRUE
  PROVE  ThreadInv'
<1> USE DEF Scanner, ProcessPoint, PcType
<1>1. /\ pc'.worker = np.worker
      /\ pc'.main = pc.main \/ pc'.main = "running"
      /\ pc'.watcher = pc.watcher \/ pc'.watcher = "none"
      /\ pc'[t] \notin ProcessPoint \cup {"joining"}
      /\ \A s \in Scanner \ {t} : pc'[s] = pc[s]
  BY DEF ProcessEnds
<1>2. /\ t = "main" => UNCHANGED W_vars
      /\ t = "watcher" => W!Return(TRUE) /\ pc'.watcher = "none"
  BY DEF ProcessEnds
<1>3. WorkerHasThread' /\ CurInBatch'
  BY <1>1 DEF ThreadInv, WorkerHasThread, CurInBatch, Items, TypeOK
<1>4. t = "watcher" => wpc = "callback" /\ pc.watcher # "none"
  BY DEF ThreadInv, JoinsInOrder
<1>5. /\ UNCHANGED <<shouldPoll, watching, caller>>
      /\ wpc' = wpc \/ (wpc = "callback" /\ wpc' = "sleep" /\ t = "watcher")
  BY <1>2 DEF W_vars, watcherVars, W!Return, W!Goto, W!fileVars
<1>6. WatcherHasThread'
  BY <1>5 DEF ThreadInv, WatcherHasThread
<1>7. JoinsInOrder'
  <2>1. \A s \in Scanner : pc'[s] = "joining" => pc[s] = "joining"
    BY <1>1
  <2>2. \A s \in Scanner : pc'[s] = "joining" =>
          pc'.worker # "none" /\ \A r \in Scanner \ {s} : pc'[r] # "joining"
    BY <1>1, <2>1 DEF ThreadInv, JoinsInOrder
  <2>3. pc'.main = "unwatching" => (wpc # "none" /\ caller = "join" /\ ~shouldPoll)'
    BY <1>1, <1>5 DEF ThreadInv, JoinsInOrder
  <2>4. pc'.watcher # "none" => wpc' = "callback"
    BY <1>1, <1>2, <1>5 DEF ThreadInv, JoinsInOrder
  <2> QED
    BY <2>2, <2>3, <2>4 DEF JoinsInOrder
<1>8. StopLeavesNoWatcher'
  BY <1>1, <1>4, <1>5 DEF ThreadInv, StopLeavesNoWatcher
<1> QED
  BY <1>3, <1>6, <1>7, <1>8 DEF ThreadInv

LEMMA ProcessChangesThread ==
  ASSUME TypeOK, ThreadInv, NEW t \in Scanner, ProcessChanges(t)
  PROVE  ThreadInv'
<1> USE DEF batchVars, threadVars, ProcessPoint
<1>1. pc \in PcType
  BY DEF TypeOK, PcType
<1>2. CASE Reopen(t)
  BY <1>1, <1>2, ProcessPointThread, ProcessEndsThread DEF Reopen
<1>3. CASE ScanFails(t)
  BY <1>1, <1>3, ProcessEndsThread DEF ScanFails
<1>4. CASE Scan(t)
  <2>1. \/ ProcessEnds(t, pc)
        \/ pc' = [pc EXCEPT ![t] = "promise"] /\ UNCHANGED W_vars
    BY <1>4 DEF Scan
  <2> QED
    BY <1>1, <1>4, <2>1, ProcessPointThread, ProcessEndsThread DEF Scan
<1>5. CASE NewPromise(t)
  BY <1>5, ProcessPointThread DEF NewPromise
<1>6. CASE StartWorker(t)
  <2> DEFINE np == [pc EXCEPT !.worker = "take"]
  <2>1. np \in PcType /\ np.worker = "take" /\ \A s \in Scanner : np[s] = pc[s]
    BY <1>1 DEF PcType, WorkerPoint, Scanner
  <2>2. ProcessEnds(t, np) /\ joinable' = TRUE /\ pc[t] = "start"
    BY <1>6 DEF StartWorker
  <2> HIDE DEF np
  <2> QED
    BY <2>1, <2>2, ProcessEndsThread
<1>7. CASE StartOverRunning(t)
  BY <1>7, ThreadStutter DEF StartOverRunning, Terminate, W_vars, watcherVars
<1> QED
  BY <1>2, <1>3, <1>4, <1>5, <1>6, <1>7 DEF ProcessChanges

LEMMA JoinThread ==
  ASSUME TypeOK, ThreadInv, NEW t \in Scanner, Join(t)
  PROVE  ThreadInv'
<1> USE DEF ThreadInv, WorkerHasThread, WatcherHasThread, CurInBatch, JoinsInOrder,
            StopLeavesNoWatcher, Items, Scanner, PcType, batchVars, W_vars, watcherVars
<1>1. pc \in PcType
  BY DEF TypeOK
<1>2. CASE JoinFails(t)
  BY <1>2, ThreadStutter DEF JoinFails, Terminate, threadVars
<1>3. CASE JoinWaits(t)
  BY <1>1, <1>3 DEF JoinWaits, threadVars
<1>4. CASE Joined(t)
  BY <1>1, <1>4 DEF Joined, AfterJoin
<1> QED
  BY <1>2, <1>3, <1>4 DEF Join

LEMMA OwnerThread ==
  ASSUME TypeOK, ThreadInv,
         \/ Begin \/ StartWatching \/ Cancel \/ StopWatcher \/ WatcherStopped
         \/ CloseFile \/ Delete \/ Destroy \/ DestroyRunning
         \/ \E then \in {"idle", "gone"} : Stop(then)
  PROVE  ThreadInv'
<1> USE DEF ThreadInv, WorkerHasThread, WatcherHasThread, CurInBatch, JoinsInOrder,
            StopLeavesNoWatcher, Items, Scanner, PcType, batchVars, threadVars, W_vars,
            watcherVars
<1>1. pc \in PcType
  BY DEF TypeOK
<1>2. CASE Begin \/ Cancel \/ CloseFile \/ Delete \/ Destroy
  BY <1>1, <1>2 DEF Begin, Cancel, CloseFile, Delete, Destroy
<1>3. CASE StartWatching
  <2>1. /\ pc.main = "watch" /\ pc' = [pc EXCEPT !.main = "reopen"]
        /\ UNCHANGED <<batchVars, threadVars>>
    BY <1>3 DEF StartWatching
  <2>2. CASE W!Begin
    BY <1>1, <2>1, <2>2 DEF W!Begin, W!fileVars
  <2>3. CASE UNCHANGED W_vars
    BY <1>1, <2>1, <2>3
  <2> QED
    BY <1>3, <2>2, <2>3 DEF StartWatching
<1>4. CASE StopWatcher
  <2>1. pc.main = "unwatch" /\ UNCHANGED <<batchVars, threadVars>>
    BY <1>4 DEF StopWatcher
  <2>2. CASE W!StopRequest /\ pc' = [pc EXCEPT !.main = "unwatching"]
    BY <1>1, <2>1, <2>2 DEF W!StopRequest, W!fileVars
  <2>3. CASE ~watching /\ UNCHANGED W_vars /\ pc' = [pc EXCEPT !.main = "close"]
    BY <1>1, <2>1, <2>3
  <2> QED
    BY <1>4, <2>2, <2>3 DEF StopWatcher
<1>5. CASE WatcherStopped
  BY <1>1, <1>5 DEF WatcherStopped, W!StopJoined, W!fileVars
<1>6. ASSUME NEW then \in {"idle", "gone"}, Stop(then) PROVE ThreadInv'
  BY <1>1, <1>6 DEF Stop
<1>7. CASE DestroyRunning
  BY <1>7, ThreadStutter DEF DestroyRunning, Terminate
<1> QED
  BY <1>2, <1>3, <1>4, <1>5, <1>6, <1>7

\* The polling thread neither ends nor starts by itself, and is not inside its delegate
\* when it polls.
LEMMA PollThread ==
  ASSUME W!Poll, wpc # "callback"
  PROVE  /\ UNCHANGED <<shouldPoll, watching, caller>>
         /\ wpc # "none" /\ wpc' # "none"
  BY DEF W!Poll, W!ThreadEntry, W!BaselineMissing, W!BaselineValid, W!BaselineStat,
         W!WhileTest, W!CheckMissing, W!CheckValid, W!CheckStat, W!Sleep, W!Goto, W!fileVars

LEMMA CallbackThread ==
  ASSUME TypeOK, ThreadInv, PollStep \/ FileHasChanged
  PROVE  ThreadInv'
<1> USE DEF ThreadInv, WorkerHasThread, WatcherHasThread, CurInBatch, JoinsInOrder,
            StopLeavesNoWatcher, Items, Scanner, PcType, batchVars, threadVars, W_vars,
            watcherVars
<1>1. pc \in PcType
  BY DEF TypeOK
<1>2. CASE PollStep
  <2>1. wpc # "callback" /\ W!Poll /\ UNCHANGED <<pc, joinable, job, cur>>
    BY <1>2 DEF PollStep, W!Poll, W!ThreadEntry, W!BaselineMissing, W!BaselineValid,
           W!BaselineStat, W!WhileTest, W!CheckMissing, W!CheckValid, W!CheckStat, W!Sleep,
           W!Goto
  <2> QED
    BY <2>1, PollThread
<1>3. CASE FutureGone
  BY <1>3, ThreadStutter DEF FutureGone, Terminate
<1>4. CASE GetFuture \/ GetStatus
  BY <1>1, <1>4 DEF GetFuture, GetStatus
<1>5. CASE WorkerDone
  BY <1>1, <1>5 DEF WorkerDone
<1>6. CASE WorkerBusy
  BY <1>1, <1>6 DEF WorkerBusy, W!Return, W!Goto, W!fileVars
<1> QED
  BY <1>2, <1>3, <1>4, <1>5, <1>6 DEF FileHasChanged

\* The worker moves nobody but itself, and ends only with its thread still to be joined.
LEMMA WorkerThreadInv ==
  ASSUME TypeOK, ThreadInv, WorkerThread
  PROVE  ThreadInv'
<1> USE DEF ThreadInv, WorkerHasThread, WatcherHasThread, CurInBatch, JoinsInOrder,
            StopLeavesNoWatcher, Scanner, PcType, WorkerUnchanged, W_vars, watcherVars
<1>1. pc \in PcType
  BY DEF TypeOK
<1>2. ASSUME NEW u \in Uuid, Take(u) PROVE ThreadInv'
  BY <1>1, <1>2 DEF Take
<1>3. CASE LoopEnds
  BY <1>1, <1>3 DEF LoopEnds
<1>4. CASE Load \/ Crunch
  BY <1>1, <1>4 DEF Load, Crunch, LocalStep
<1>5. CASE LoadAfterClose
  BY <1>5, ThreadStutter DEF LoadAfterClose, Terminate, batchVars, threadVars
<1>6. CASE Request \/ Mark \/ Finish
  BY <1>1, <1>6 DEF Request, Mark, Finish
<1> QED
  BY <1>2, <1>3, <1>4, <1>5, <1>6 DEF WorkerThread

LEMMA RestartThread == Restart => ThreadInv'
  BY DEF Restart, FreshPc, ThreadInv, WorkerHasThread, WatcherHasThread, CurInBatch,
         JoinsInOrder, StopLeavesNoWatcher, Scanner

LEMMA NextCases ==
  ASSUME Next
  PROVE  \/ Begin \/ StartWatching \/ Cancel \/ StopWatcher \/ WatcherStopped
         \/ CloseFile \/ Delete \/ Destroy \/ DestroyRunning
         \/ \E then \in {"idle", "gone"} : Stop(then)
         \/ \E t \in Scanner : ProcessChanges(t) \/ Join(t)
         \/ PollStep \/ FileHasChanged \/ WorkerThread \/ Edit \/ Restart
  BY DEF Next, Running, Client, MainThread, WatcherThread, Scanner

LEMMA NextThread ==
  ASSUME TypeOK, ThreadInv, Next
  PROVE  TypeOK' /\ ThreadInv'
<1>1. TypeOK'
  BY NextCases, ProcessChangesType, JoinType, OwnerType, CallbackType, WorkerType,
     EditType, RestartType DEF ThreadInv
<1>2. Edit => ThreadInv'
  BY ThreadStutter DEF Edit, watcherVars, batchVars, threadVars
<1>3. ThreadInv'
  BY <1>2, NextCases, ProcessChangesThread, JoinThread, OwnerThread, CallbackThread,
     WorkerThreadInv, RestartThread
<1> QED
  BY <1>1, <1>3

-----------------------------------------------------------------------------
(* Who may scan: a thread that scans has made sure that there is no worker,  *)
(* and main scans before the watcher can have joined anything.              *)

MainScansFirst ==
  pc.main \in {"idle", "watch"} \cup ProcessPoint =>
    ~joinable /\ pc.watcher \in {"none", "status", "decide"}

WatcherScansAfterJoin == pc.watcher \in ProcessPoint => ~joinable

ControlInv == MainScansFirst /\ WatcherScansAfterJoin

LEMMA ProcessEndsControl ==
  ASSUME NEW t \in Scanner,
         NEW np \in PcType, ProcessEnds(t, np)
  PROVE  /\ t = "main" => pc'.main = "running" /\ pc'.watcher = np.watcher
         /\ t = "watcher" => pc'.watcher = "none" /\ pc'.main = np.main
         /\ pc'.worker = np.worker
  BY DEF ProcessEnds, PcType

LEMMA ProcessChangesControl ==
  ASSUME TypeOK, ControlInv, NEW t \in Scanner, ProcessChanges(t)
  PROVE  ControlInv'
<1> USE DEF ControlInv, MainScansFirst, WatcherScansAfterJoin,
            ProcessPoint, Scanner
<1>1. pc \in PcType
  BY DEF TypeOK, PcType
<1>2. CASE Reopen(t)
  <2>1. CASE ProcessEnds(t, pc)
    BY <1>1, <1>2, <2>1, ProcessEndsControl DEF Reopen, threadVars
  <2>2. CASE pc' = [pc EXCEPT ![t] = "scan"]
    BY <1>1, <1>2, <2>2 DEF Reopen, threadVars, PcType
  <2> QED
    BY <1>2, <2>1, <2>2 DEF Reopen
<1>3. CASE ScanFails(t)
  BY <1>1, <1>3, ProcessEndsControl DEF ScanFails, threadVars
<1>4. CASE Scan(t)
  <2>1. ProcessEnds(t, pc) \/ pc' = [pc EXCEPT ![t] = "promise"]
    BY <1>4 DEF Scan
  <2>2. CASE ProcessEnds(t, pc)
    BY <1>1, <1>4, <2>2, ProcessEndsControl DEF Scan, threadVars
  <2>3. CASE pc' = [pc EXCEPT ![t] = "promise"]
    BY <1>1, <1>4, <2>3 DEF Scan, threadVars, PcType
  <2> QED
    BY <2>1, <2>2, <2>3
<1>5. CASE NewPromise(t)
  BY <1>1, <1>5 DEF NewPromise, PcType
<1>6. CASE StartWorker(t)
  <2> DEFINE np == [pc EXCEPT !.worker = "take"]
  <2>1. np \in PcType /\ np.worker = "take" /\ np.main = pc.main /\ np.watcher = pc.watcher
    BY <1>1 DEF PcType, WorkerPoint
  <2>2. ProcessEnds(t, np) /\ joinable' /\ pc[t] = "start"
    BY <1>6 DEF StartWorker
  <2> HIDE DEF np
  <2> QED
    BY <1>1, <2>1, <2>2, ProcessEndsControl DEF PcType
<1>7. CASE StartOverRunning(t)
  BY <1>7 DEF StartOverRunning, Terminate, threadVars
<1> QED
  BY <1>2, <1>3, <1>4, <1>5, <1>6, <1>7 DEF ProcessChanges

LEMMA NextControl ==
  ASSUME ~Reuse, TypeOK, ControlInv, Next
  PROVE  ControlInv'
<1> USE DEF ControlInv, MainScansFirst, WatcherScansAfterJoin,
            ProcessPoint, Scanner, threadVars
<1>1. pc \in PcType
  BY DEF TypeOK, PcType
<1>2. CASE \/ Begin \/ StartWatching \/ Cancel \/ StopWatcher \/ WatcherStopped
           \/ CloseFile \/ Delete \/ Destroy \/ \E then \in {"idle", "gone"} : Stop(then)
  <2>1. CASE Begin \/ Cancel \/ CloseFile \/ Delete \/ Destroy
    BY <1>1, <2>1 DEF Begin, Cancel, CloseFile, Delete, Destroy, PcType
  <2>2. CASE StartWatching \/ StopWatcher \/ WatcherStopped
    BY <1>1, <2>2 DEF StartWatching, StopWatcher, WatcherStopped, PcType
  <2>3. ASSUME NEW then \in {"idle", "gone"}, Stop(then) PROVE ControlInv'
    BY <1>1, <2>3 DEF Stop, PcType
  <2> QED
    BY <1>2, <2>1, <2>2, <2>3
<1>3. ASSUME NEW t \in Scanner, ProcessChanges(t) PROVE ControlInv'
  BY <1>3, ProcessChangesControl
<1>4. ASSUME NEW t \in Scanner, Join(t) PROVE ControlInv'
  <2>1. CASE JoinFails(t)
    BY <2>1 DEF JoinFails, Terminate
  <2>2. CASE JoinWaits(t)
    BY <1>1, <2>2 DEF JoinWaits, PcType
  <2>3. CASE Joined(t)
    BY <1>1, <2>3 DEF Joined, AfterJoin, PcType
  <2> QED
    BY <1>4, <2>1, <2>2, <2>3 DEF Join
<1>5. CASE PollStep \/ FileHasChanged
  <2>1. CASE PollStep
    BY <2>1 DEF PollStep
  <2>2. CASE FutureGone
    BY <2>2 DEF FutureGone, Terminate
  <2>3. CASE GetFuture \/ GetStatus
    BY <1>1, <2>3 DEF GetFuture, GetStatus, PcType
  <2>4. CASE WorkerDone
    BY <1>1, <2>4 DEF WorkerDone, PcType
  <2>5. CASE WorkerBusy
    BY <1>1, <2>5 DEF WorkerBusy, PcType
  <2> QED
    BY <1>5, <2>1, <2>2, <2>3, <2>4, <2>5 DEF FileHasChanged
<1>6. CASE WorkerThread
  <2>1. ASSUME NEW u \in Uuid, Take(u) PROVE ControlInv'
    BY <1>1, <2>1 DEF Take, WorkerUnchanged, PcType
  <2>2. CASE LoopEnds \/ Load \/ Crunch \/ Request \/ Mark \/ Finish
    BY <1>1, <2>2 DEF LoopEnds, Load, Crunch, LocalStep, Request, Mark, Finish,
                      WorkerUnchanged, PcType
  <2>3. CASE LoadAfterClose
    BY <2>3 DEF LoadAfterClose, Terminate
  <2> QED
    BY <1>6, <2>1, <2>2, <2>3 DEF WorkerThread
<1>7. CASE DestroyRunning
  BY <1>7 DEF DestroyRunning, Terminate
<1>8. CASE Edit
  BY <1>8 DEF Edit
<1>9. CASE Restart
  BY <1>9 DEF Restart, FreshPc
<1> QED
  BY <1>2, <1>3, <1>4, <1>5, <1>6, <1>7, <1>8, <1>9
     DEF Next, Running, Client, MainThread, WatcherThread


-----------------------------------------------------------------------------
(* The batches agree with the cache.                                        *)

\* What a batch would put and the cache holds is what the reading missed.
Agrees(b) ==
  /\ b.add \cap cached \subseteq b.missed
  /\ b.missed \subseteq cached /\ (b.missed # {} => May("cache"))
  /\ b.remove \subseteq cached

JobAgrees  == WorkerActive => Agrees(job)
PlansAgree == \A t \in Scanner : pc[t] \in {"promise", "start"} => Agrees(plan[t])

BatchInv == JobAgrees /\ PlansAgree

IInv == TypeOK /\ ThreadInv /\ ControlInv /\ BatchInv

\* A step that touches neither the cache, the batches nor the worker, and takes no
\* scanner to the point where its plan counts, keeps BatchInv.
LEMMA BatchStutter ==
  ASSUME BatchInv, UNCHANGED <<cached, job, plan>>, pc'.worker = pc.worker,
         \A t \in Scanner : pc'[t] \in {"promise", "start"} => pc[t] \in {"promise", "start"}
  PROVE  BatchInv'
  BY DEF BatchInv, JobAgrees, PlansAgree, Agrees, WorkerActive, Items

\* Neither does the end of processChanges.
LEMMA ProcessEndsPlans ==
  ASSUME NEW t \in Scanner, NEW np \in PcType, ProcessEnds(t, np)
  PROVE  \A s \in Scanner : pc'[s] \in {"promise", "start"} => np[s] = pc'[s]
  BY DEF ProcessEnds, PcType, Scanner

LEMMA ProcessChangesBatch ==
  ASSUME IInv, NEW t \in Scanner, ProcessChanges(t)
  PROVE  BatchInv'
<1>1. pc \in PcType /\ plan \in [Scanner -> Batch] /\ cached \subseteq Uuid
  BY DEF IInv, TypeOK, PcType
<1>2. CASE Reopen(t)
  <2>1. CASE ProcessEnds(t, pc)
    BY <1>1, <1>2, <2>1, ProcessEndsControl, ProcessEndsPlans, BatchStutter
       DEF Reopen, IInv, storeVars, batchVars
  <2>2. CASE pc' = [pc EXCEPT ![t] = "scan"]
    BY <1>1, <1>2, <2>2, BatchStutter DEF Reopen, IInv, PcType, Scanner, storeVars, batchVars
  <2> QED
    BY <1>2, <2>1, <2>2 DEF Reopen
<1>3. CASE ScanFails(t)
  BY <1>1, <1>3, ProcessEndsControl, ProcessEndsPlans, BatchStutter
     DEF ScanFails, IInv, storeVars, batchVars
<1>4. CASE Scan(t)
  <2>1. PICK rows \in RowsRead, proxy \in ProxyRead :
          /\ plan' = [plan EXCEPT ![t] = Difference(rows, proxy)]
          /\ \/ ProcessEnds(t, pc)
             \/ pc' = [pc EXCEPT ![t] = "promise"]
    BY <1>4 DEF Scan
  <2>2. proxy \subseteq cached /\ (proxy = cached \/ May("cache"))
    BY DEF ProxyRead
  <2>3. Agrees(plan'[t]) /\ \A s \in Scanner \ {t} : plan'[s] = plan[s]
    <3>1. plan'[t] = Difference(rows, proxy)
      BY <1>1, <2>1
    <3>2. Agrees(Difference(rows, proxy))
      BY <2>2 DEF Agrees, Difference, Missed
    <3> QED
      BY <1>1, <2>1, <3>1, <3>2
  <2>4. /\ pc'.worker = pc.worker
        /\ \A s \in Scanner \ {t} : pc'[s] \in {"promise", "start"} => pc[s] = pc'[s]
    <3>1. CASE ProcessEnds(t, pc)
      BY <1>1, <3>1, ProcessEndsControl, ProcessEndsPlans
    <3>2. CASE pc' = [pc EXCEPT ![t] = "promise"]
      BY <1>1, <3>2 DEF PcType, Scanner
    <3> QED
      BY <2>1, <3>1, <3>2
  <2>5. UNCHANGED <<cached, job>>
    BY <1>4 DEF Scan, storeVars
  <2> QED
    BY <2>3, <2>4, <2>5
       DEF IInv, BatchInv, JobAgrees, PlansAgree, Agrees, WorkerActive, Items
<1>5. CASE NewPromise(t)
  BY <1>1, <1>5, BatchStutter DEF NewPromise, IInv, PcType, Scanner, storeVars, batchVars
<1>6. CASE StartWorker(t)
  <2> DEFINE np == [pc EXCEPT !.worker = "take"]
  <2>1. np \in PcType /\ np.worker = "take" /\ \A s \in Scanner : np[s] = pc[s]
    BY <1>1 DEF PcType, WorkerPoint, Scanner
  <2>2. ProcessEnds(t, np)
    BY <1>6 DEF StartWorker
  <2> HIDE DEF np
  <2>3. pc'.worker = "take"
    BY <2>1, <2>2, ProcessEndsControl
  <2>4. \A s \in Scanner : pc'[s] \in {"promise", "start"} => pc[s] = pc'[s] /\ s # t
    BY <2>1, <2>2, ProcessEndsPlans, ProcessEndsControl DEF Scanner
  <2>5. Agrees(job') /\ UNCHANGED cached
    BY <1>6 DEF StartWorker, IInv, BatchInv, PlansAgree, storeVars
  <2>6. \A s \in Scanner \ {t} : plan'[s] = plan[s]
    BY <1>1, <1>6 DEF StartWorker
  <2> QED
    BY <2>3, <2>4, <2>5, <2>6
       DEF IInv, BatchInv, JobAgrees, PlansAgree, Agrees
<1>7. CASE StartOverRunning(t)
  BY <1>7, BatchStutter DEF StartOverRunning, Terminate, IInv, storeVars, batchVars
<1> QED
  BY <1>2, <1>3, <1>4, <1>5, <1>6, <1>7 DEF ProcessChanges

LEMMA OwnerBatch ==
  ASSUME IInv,
         \/ Begin \/ StartWatching \/ Cancel \/ StopWatcher \/ WatcherStopped
         \/ CloseFile \/ Delete \/ Destroy \/ DestroyRunning
         \/ \E then \in {"idle", "gone"} : Stop(then)
  PROVE  BatchInv'
<1> USE DEF IInv, Scanner, storeVars, batchVars, PcType
<1>1. pc \in PcType
  BY DEF TypeOK
<1>2. CASE Begin \/ Cancel \/ CloseFile \/ Delete \/ Destroy
  BY <1>1, <1>2, BatchStutter DEF Begin, Cancel, CloseFile, Delete, Destroy
<1>3. CASE StartWatching \/ StopWatcher \/ WatcherStopped
  BY <1>1, <1>3, BatchStutter DEF StartWatching, StopWatcher, WatcherStopped
<1>4. ASSUME NEW then \in {"idle", "gone"}, Stop(then) PROVE BatchInv'
  BY <1>1, <1>4, BatchStutter DEF Stop
<1>5. CASE DestroyRunning
  BY <1>5, BatchStutter DEF DestroyRunning, Terminate
<1> QED
  BY <1>2, <1>3, <1>4, <1>5

LEMMA CallbackBatch ==
  ASSUME IInv, \/ PollStep \/ FileHasChanged \/ Edit
               \/ \E t \in Scanner : Join(t)
  PROVE  BatchInv'
<1> USE DEF IInv, Scanner, storeVars, batchVars, PcType
<1>1. pc \in PcType
  BY DEF TypeOK
<1>2. CASE PollStep \/ Edit
  BY <1>2, BatchStutter DEF PollStep, Edit
<1>3. CASE FutureGone
  BY <1>3, BatchStutter DEF FutureGone, Terminate
<1>4. CASE GetFuture \/ GetStatus \/ WorkerDone \/ WorkerBusy
  BY <1>1, <1>4, BatchStutter DEF GetFuture, GetStatus, WorkerDone, WorkerBusy
<1>5. ASSUME NEW t \in Scanner, JoinFails(t) PROVE BatchInv'
  BY <1>5, BatchStutter DEF JoinFails, Terminate
<1>6. ASSUME NEW t \in Scanner, JoinWaits(t) PROVE BatchInv'
  BY <1>1, <1>6, BatchStutter DEF JoinWaits
<1>7. ASSUME NEW t \in Scanner, Joined(t) PROVE BatchInv'
  <2>1. pc'.worker = "none" /\ UNCHANGED <<cached, job, plan>>
    BY <1>1, <1>7 DEF Joined
  <2>2. \A s \in Scanner : pc'[s] \in {"promise", "start"} => pc[s] = pc'[s]
    BY <1>1, <1>7 DEF Joined, AfterJoin
  <2> QED
    BY <2>1, <2>2 DEF BatchInv, JobAgrees, PlansAgree, Agrees, WorkerActive
<1> QED
  BY <1>2, <1>3, <1>4, <1>5, <1>6, <1>7 DEF FileHasChanged, Join

\* A scanner that holds a plan has no worker beside it.
LEMMA NoPlanBesideWorker ==
  ASSUME ThreadInv, ControlInv, pc.worker # "none", NEW t \in Scanner
  PROVE  pc[t] \notin {"promise", "start"}
  BY DEF ThreadInv, WorkerHasThread, ControlInv, MainScansFirst, WatcherScansAfterJoin,
         Scanner, ProcessPoint

LEMMA WorkerBatch ==
  ASSUME IInv, WorkerThread
  PROVE  BatchInv'
<1> USE DEF IInv, WorkerUnchanged, storeVars, PcType
<1>1. pc \in PcType /\ pc.worker # "none"
  BY DEF TypeOK, WorkerThread, Take, LoopEnds, Load, LoadAfterClose, Crunch, LocalStep,
         Request, Mark, Finish
<1>2. (\A t \in Scanner : pc'[t] = pc[t]) => PlansAgree'
  BY <1>1, NoPlanBesideWorker DEF PlansAgree
<1>3. ASSUME NEW u \in Uuid, Take(u) PROVE BatchInv'
  <2>1. PlansAgree'
    BY <1>1, <1>2, <1>3 DEF Take, Scanner
  <2>2. JobAgrees'
    BY <1>1, <1>3 DEF Take, JobAgrees, Agrees, GoesPast, Without, WorkerActive, BatchInv
  <2> QED
    BY <2>1, <2>2 DEF BatchInv
<1>4. CASE LoopEnds
  BY <1>1, <1>2, <1>4
     DEF LoopEnds, Scanner, BatchInv, JobAgrees, Agrees, WorkerActive
<1>5. CASE Load \/ Crunch
  <2>1. PICK from \in {"load", "crunch"}, to \in {"crunch", "request"} : LocalStep(from, to)
    BY <1>5 DEF Load, Crunch
  <2>2. PlansAgree'
    BY <1>1, <1>2, <2>1 DEF LocalStep, Scanner
  <2>3. JobAgrees'
    BY <1>1, <2>1 DEF LocalStep, JobAgrees, Agrees, GoesPast, Without, WorkerActive, BatchInv
  <2> QED
    BY <2>2, <2>3 DEF BatchInv
<1>6. CASE LoadAfterClose
  BY <1>6, BatchStutter DEF LoadAfterClose, Terminate, batchVars
<1>7. CASE Request
  BY <1>1, <1>2, <1>7
     DEF Request, Scanner, BatchInv, JobAgrees, Agrees, WorkerActive
<1>8. CASE Mark
  <2>1. PlansAgree'
    BY <1>1, <1>2, <1>8 DEF Mark, Scanner
  <2>2. Agrees(job)
    BY <1>8 DEF Mark, BatchInv, JobAgrees, WorkerActive
  <2>3. Agrees(job)'
    BY <1>8, <2>2 DEF Mark, Agrees, GoesPast, Without
  <2> QED
    BY <2>1, <2>3 DEF BatchInv, JobAgrees
<1>9. CASE Finish
  BY <1>1, <1>2, <1>9
     DEF Finish, Scanner, BatchInv, JobAgrees, WorkerActive
<1> QED
  BY <1>3, <1>4, <1>5, <1>6, <1>7, <1>8, <1>9 DEF WorkerThread

LEMMA RestartBatch == Restart => BatchInv'
  BY DEF Restart, FreshPc, Scanner, BatchInv, JobAgrees, PlansAgree, WorkerActive

-----------------------------------------------------------------------------
(* The three layers hold.                                                   *)

LEMMA InitThread == Init => TypeOK /\ ThreadInv
  BY InitType DEF Init, W!Init, W!InitWatcher, Fresh, FreshPc, ThreadInv, WorkerHasThread,
     WatcherHasThread, CurInBatch, JoinsInOrder, StopLeavesNoWatcher, Scanner

LEMMA InitScans == Init => ControlInv /\ BatchInv
  BY DEF Init, Fresh, FreshPc, ControlInv, MainScansFirst, WatcherScansAfterJoin,
         ProcessPoint, Scanner, BatchInv, JobAgrees, PlansAgree, WorkerActive

LEMMA NextBatch ==
  ASSUME IInv, Next
  PROVE  BatchInv'
  BY NextCases, ProcessChangesBatch, OwnerBatch, CallbackBatch, WorkerBatch, RestartBatch

LEMMA StutterType ==
  ASSUME TypeOK, UNCHANGED vars
  PROVE  TypeOK'
<1>1. W!TypeOK'
  BY WatcherStep, TypeSplit DEF vars, W_vars, watcherVars
<1> QED
  BY <1>1, TypeSplit
     DEF OwnTypeOK, TypeOK, vars, storeVars, batchVars, threadVars, ownerVars

LEMMA StutterScans ==
  ASSUME UNCHANGED vars
  PROVE  /\ ControlInv => ControlInv'
         /\ BatchInv => BatchInv'
  BY BatchStutter DEF vars, storeVars, batchVars, threadVars, ControlInv, MainScansFirst,
                      WatcherScansAfterJoin

LEMMA ThreadsHold == Spec => [](TypeOK /\ ThreadInv)
<1>1. TypeOK /\ ThreadInv /\ UNCHANGED vars => ThreadInv'
  BY ThreadStutter DEF vars, W_vars, watcherVars, batchVars, threadVars
<1>2. TypeOK /\ ThreadInv /\ [Next]_vars => (TypeOK /\ ThreadInv)'
  BY <1>1, NextThread, StutterType
<1> QED
  BY InitThread, <1>2, PTL DEF Spec

LEMMA ControlHolds ==
  ASSUME ~Reuse
  PROVE  Spec => []ControlInv
<1>1. TypeOK /\ ControlInv /\ [Next]_vars => ControlInv'
  BY NextControl, StutterScans
<1> QED
  BY InitScans, ThreadsHold, <1>1, PTL DEF Spec

LEMMA IInvHolds ==
  ASSUME ~Reuse
  PROVE  Spec => []IInv
<1>1. IInv /\ [Next]_vars => BatchInv'
  BY NextBatch, StutterScans DEF IInv
<1>2. IInv <=> TypeOK /\ ThreadInv /\ ControlInv /\ BatchInv
  BY DEF IInv
<1> QED
  BY InitScans, ThreadsHold, ControlHolds, <1>1, <1>2, PTL DEF Spec

=============================================================================
