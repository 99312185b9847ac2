---------------------------- MODULE WatcherProofs ----------------------------
(***************************************************************************)
(* Proofs about Watcher: its type invariant, the life of the polling thread *)
(* against stop(), the growth of the accepted time, and the single late     *)
(* call of the delegate, for every bound on the clock.                      *)
(***************************************************************************)
EXTENDS MCWatcher, TLAPS

\* While the thread runs, a cleared flag means that stop() is under way, and
\* the other way round; stop() runs only on a watcher that watches.
FlagMeansStop ==
  /\ watching => (shouldPoll <=> caller = "none")
  /\ caller = "join" => watching

\* The delegate is called for times later than the accepted one only.
ReportsAreLater == wpc = "callback" => timeCheck > lastMod

IInv == /\ TypeOK
        /\ FlagMeansStop
        /\ ThreadLivesUntilStopped
        /\ ReportsAreLater

LEMMA InitIInv == Init => IInv
<1> SUFFICES ASSUME Init PROVE IInv
  OBVIOUS
<1> USE DEF Init, InitWatcher
<1>1. mtime \in 0 .. MaxTime /\ 0 \in Times
  BY WatcherAssumption DEF Times
<1>2. TypeOK
  BY <1>1 DEF TypeOK, PollPoint
<1>3. FlagMeansStop /\ ThreadLivesUntilStopped /\ ReportsAreLater
  BY DEF FlagMeansStop, ThreadLivesUntilStopped, ReportsAreLater
<1> QED
  BY <1>2, <1>3 DEF IInv

LEMMA SecondStatIsTime ==
  ASSUME TypeOK
  PROVE  SecondStat \subseteq Times
  BY WatcherAssumption DEF TypeOK, SecondStat, Times

\* Each action keeps the invariant.
LEMMA NextIInv == IInv /\ [Next]_vars => IInv'
<1> SUFFICES ASSUME IInv, [Next]_vars PROVE IInv'
  OBVIOUS
<1> USE WatcherAssumption
    DEF IInv, TypeOK, FlagMeansStop, ThreadLivesUntilStopped, ReportsAreLater,
        Times, PollPoint, fileVars
<1>1. CASE Begin
  BY <1>1 DEF Begin
<1>2. CASE StopRequest
  BY <1>2 DEF StopRequest
<1>3. CASE StopJoined
  BY <1>3 DEF StopJoined
<1>4. CASE Poll
  <2>1. CASE ThreadEntry
    BY <2>1 DEF ThreadEntry, Goto
  <2>2. CASE BaselineMissing
    BY <2>2 DEF BaselineMissing, Goto
  <2>3. CASE BaselineValid
    BY <2>3 DEF BaselineValid, Goto
  <2>4. CASE BaselineStat
    BY <2>4, SecondStatIsTime DEF BaselineStat, Goto
  <2>5. CASE WhileTest
    BY <2>5 DEF WhileTest, Goto
  <2>6. CASE CheckMissing
    BY <2>6 DEF CheckMissing, Goto
  <2>7. CASE CheckValid
    BY <2>7 DEF CheckValid, Goto
  <2>8. CASE CheckStat
    BY <2>8, SecondStatIsTime DEF CheckStat, Goto
  <2>9. CASE Sleep
    BY <2>9 DEF Sleep, Goto
  <2> QED
    BY <1>4, <2>1, <2>2, <2>3, <2>4, <2>5, <2>6, <2>7, <2>8, <2>9 DEF Poll
<1>5. ASSUME NEW track \in BOOLEAN, Return(track) PROVE IInv'
  BY <1>5 DEF Return, Goto
<1>6. CASE Environment
  BY <1>6 DEF Environment, Write, Vanish, Recreate, watcherVars
<1>7. CASE UNCHANGED vars
  BY <1>7 DEF vars, watcherVars
<1> QED
  BY <1>1, <1>2, <1>3, <1>4, <1>5, <1>6, <1>7 DEF Next

LEMMA IInvHolds == Spec => []IInv
<1>1. Init => IInv
  BY InitIInv
<1>2. IInv /\ [Next]_vars => IInv'
  BY NextIInv
<1> QED
  BY <1>1, <1>2, PTL DEF Spec

\* Watcher.cpp: the members and locals of the watcher always have their types.
THEOREM WatcherTypeCorrect == Spec => []TypeOK
<1>1. IInv => TypeOK
  BY DEF IInv
<1> QED
  BY <1>1, IInvHolds, PTL

\* pollForChanges ends only inside stop(), and a stopped watcher has no thread.
THEOREM ThreadLife == Spec => []ThreadLivesUntilStopped
<1>1. IInv => ThreadLivesUntilStopped
  BY DEF IInv
<1> QED
  BY <1>1, IInvHolds, PTL

\* The accepted modification time never goes back between two baselines.
THEOREM AcceptedTimeNeverFalls == Spec => AcceptedTimeGrows
<1>1. IInv /\ [Next]_vars =>
        [wpc \notin {"base", "baseStat"} => lastMod' >= lastMod]_vars
  <2> SUFFICES ASSUME IInv, Next, wpc \notin {"base", "baseStat"}
               PROVE  lastMod' >= lastMod
    BY DEF vars
  <2>1. lastMod \in Nat /\ timeCheck \in Nat
    BY WatcherAssumption DEF IInv, TypeOK, Times
  <2>2. CASE \E track \in BOOLEAN : Return(track)
    BY <2>1, <2>2 DEF Return, Goto, IInv, ReportsAreLater
  <2>3. CASE Poll
    BY <2>1, <2>3 DEF Poll, ThreadEntry, BaselineMissing, BaselineValid, BaselineStat,
                      WhileTest, CheckMissing, CheckValid, CheckStat, Sleep, Goto
  <2>4. CASE Begin \/ StopRequest \/ StopJoined \/ Environment
    BY <2>1, <2>4 DEF Begin, StopRequest, StopJoined, Environment, watcherVars
  <2> QED
    BY <2>2, <2>3, <2>4 DEF Next
<1> QED
  BY <1>1, IInvHolds, PTL DEF Spec, AcceptedTimeGrows

-----------------------------------------------------------------------------
\* With the history variable: after the one late call the thread is on its way
\* out, for it meets the cleared flag before it looks at the file again.
LateInv ==
  /\ late \in {0, 1}
  /\ (caller = "join" /\ late = 1) => wpc \in {"callback", "sleep", "while", "exited"}

\* stop() waits for one more call of fileHasChanged at most.
THEOREM OneLateCall == HSpec => []AtMostOneLateCall
<1>1. HInit => IInv /\ LateInv
  BY InitIInv DEF HInit, LateInv
<1>2. IInv /\ [HNext]_<<vars, late>> => IInv'
  BY NextIInv DEF HNext, vars
<1>3. IInv /\ LateInv /\ [HNext]_<<vars, late>> => LateInv'
  <2> SUFFICES ASSUME IInv, LateInv, HNext PROVE LateInv'
    BY DEF vars, watcherVars, LateInv
  <2> USE DEF IInv, LateInv, HNext, EntersDelegate, TypeOK, FlagMeansStop, PollPoint
  <2>1. CASE Begin \/ StopRequest \/ StopJoined
    BY <2>1 DEF Begin, StopRequest, StopJoined
  <2>2. CASE Poll
    BY <2>2 DEF Poll, ThreadEntry, BaselineMissing, BaselineValid, BaselineStat,
                WhileTest, CheckMissing, CheckValid, CheckStat, Sleep, Goto
  <2>3. CASE \E track \in BOOLEAN : Return(track)
    BY <2>3 DEF Return, Goto
  <2>4. CASE Environment
    BY <2>4 DEF Environment, watcherVars
  <2> QED
    BY <2>1, <2>2, <2>3, <2>4 DEF Next
<1>4. LateInv => AtMostOneLateCall
  BY DEF LateInv, AtMostOneLateCall
<1> QED
  BY <1>1, <1>2, <1>3, <1>4, PTL DEF HSpec
=============================================================================
