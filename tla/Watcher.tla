------------------------------- MODULE Watcher -------------------------------
(***************************************************************************)
(* lib::Watcher (src/src/watcher.cpp): a thread that polls the modification *)
(* time of one file and calls its delegate when the time has grown.  The    *)
(* owner starts the thread with beginWatchingForChanges() and ends it with  *)
(* stop(), which clears a flag and joins.  The file is written, deleted and *)
(* re-created by somebody else (Lightroom); the delegate is left open: its  *)
(* call ends with Return(track), track being what fileHasChanged returned.  *)
(*                                                                          *)
(* The actions are also the watcher's part of PreviewsSynchronizer.tla,     *)
(* which supplies the owner and the delegate.                               *)
(***************************************************************************)
EXTENDS Naturals

CONSTANTS MaxTime,    \* bound: the last second at which the file is written
          MayVanish   \* may the file be deleted, and re-created, while watched?

ASSUME WatcherAssumption == MaxTime \in Nat \ {0} /\ MayVanish \in BOOLEAN

VARIABLES mtime,       \* st_mtime of the watched file, 0 when there is no file
          shouldPoll,  \* _shouldPoll
          watching,    \* isWatching(): the std::thread _workerThread is joinable
          caller,      \* "join": the owner is inside stop(), the flag is cleared
          wpc,         \* where the polling thread is
          lastMod,     \* the thread's local lastModificationTime
          timeCheck    \* the thread's local timeCheck

fileVars    == mtime
watcherVars == <<shouldPoll, watching, caller, wpc, lastMod, timeCheck>>
vars        == <<fileVars, watcherVars>>

\* What lastModificationTime() can return.  MaxTime + 1 stands for every value
\* later than any real write: it comes out of an uninitialized struct stat.
Times == 0 .. (MaxTime + 1)

PollPoint == {"none", "entry", "base", "baseStat", "while", "check",
              "checkStat", "callback", "sleep", "exited"}

TypeOK ==
  /\ mtime \in 0 .. MaxTime
  /\ shouldPoll \in BOOLEAN
  /\ watching \in BOOLEAN
  /\ caller \in {"none", "join"}
  /\ wpc \in PollPoint
  /\ lastMod \in Times
  /\ timeCheck \in Times

InitWatcher ==
  /\ shouldPoll = FALSE
  /\ watching = FALSE
  /\ caller = "none"
  /\ wpc = "none"
  /\ lastMod = 0
  /\ timeCheck = 0

Init == mtime \in 1 .. MaxTime /\ InitWatcher

-----------------------------------------------------------------------------
(* The file: a write may fall into the same second as the one before.       *)

Write(t) == mtime # 0 /\ t >= mtime /\ mtime' = t
Vanish   == MayVanish /\ mtime # 0 /\ mtime' = 0
Recreate(t) == mtime = 0 /\ t # 0 /\ mtime' = t

-----------------------------------------------------------------------------
(* The owner.  A begin on a missing file returns false and changes nothing. *)

\* (mutant) the flag is not raised before the thread starts
BeginFlagForgotten ==
  /\ caller = "none" /\ ~watching /\ mtime # 0
  /\ watching' = TRUE
  /\ wpc' = "entry"
  /\ UNCHANGED <<fileVars, shouldPoll, caller, lastMod, timeCheck>>

Begin ==
  /\ caller = "none" /\ ~watching
  /\ mtime # 0
  /\ shouldPoll' = TRUE
  /\ watching' = TRUE
  /\ wpc' = "entry"
  /\ UNCHANGED <<fileVars, caller, lastMod, timeCheck>>

\* (mutant) stop() joins without clearing the flag
StopRequestJoinOnly ==
  /\ caller = "none" /\ watching
  /\ caller' = "join"
  /\ UNCHANGED <<fileVars, shouldPoll, watching, wpc, lastMod, timeCheck>>

StopRequest ==
  /\ caller = "none" /\ watching
  /\ shouldPoll' = FALSE
  /\ caller' = "join"
  /\ UNCHANGED <<fileVars, watching, wpc, lastMod, timeCheck>>

StopJoined ==
  /\ caller = "join" /\ wpc = "exited"
  /\ watching' = FALSE
  /\ caller' = "none"
  /\ wpc' = "none"
  /\ UNCHANGED <<fileVars, shouldPoll, lastMod, timeCheck>>

-----------------------------------------------------------------------------
(* The polling thread.  lastModificationTime() is two stat() calls: the     *)
(* first decides whether the file is there, the result of the second is not *)
(* checked, so a file deleted in between yields an arbitrary time.          *)

SecondStat == IF mtime = 0 THEN Times ELSE {mtime}

Goto(from, to) == wpc = from /\ wpc' = to

ThreadEntry ==
  /\ Goto("entry", IF shouldPoll THEN "base" ELSE "exited")
  /\ UNCHANGED <<fileVars, shouldPoll, watching, caller, lastMod, timeCheck>>

BaselineMissing ==
  /\ mtime = 0 /\ Goto("base", "while")
  /\ lastMod' = 0
  /\ UNCHANGED <<fileVars, shouldPoll, watching, caller, timeCheck>>

BaselineValid ==
  /\ mtime # 0 /\ Goto("base", "baseStat")
  /\ UNCHANGED <<fileVars, shouldPoll, watching, caller, lastMod, timeCheck>>

BaselineStat ==
  /\ Goto("baseStat", "while")
  /\ lastMod' \in SecondStat
  /\ UNCHANGED <<fileVars, shouldPoll, watching, caller, timeCheck>>

\* (mutant) one more round after the flag was cleared
WhileTestLate ==
  /\ Goto("while", IF shouldPoll \/ mtime > lastMod THEN "check" ELSE "exited")
  /\ UNCHANGED <<fileVars, shouldPoll, watching, caller, lastMod, timeCheck>>

WhileTest ==
  /\ Goto("while", IF shouldPoll THEN "check" ELSE "exited")
  /\ UNCHANGED <<fileVars, shouldPoll, watching, caller, lastMod, timeCheck>>

CheckMissing ==
  /\ mtime = 0 /\ Goto("check", "sleep")
  /\ timeCheck' = 0
  /\ UNCHANGED <<fileVars, shouldPoll, watching, caller, lastMod>>

CheckValid ==
  /\ mtime # 0 /\ Goto("check", "checkStat")
  /\ UNCHANGED <<fileVars, shouldPoll, watching, caller, lastMod, timeCheck>>

\* (mutant) the times are compared for inequality
CheckStatAnyDifference ==
  /\ timeCheck' \in SecondStat
  /\ Goto("checkStat", IF timeCheck' # lastMod THEN "callback" ELSE "sleep")
  /\ UNCHANGED <<fileVars, shouldPoll, watching, caller, lastMod>>

CheckStat ==
  /\ timeCheck' \in SecondStat
  /\ Goto("checkStat", IF timeCheck' > lastMod THEN "callback" ELSE "sleep")
  /\ UNCHANGED <<fileVars, shouldPoll, watching, caller, lastMod>>

\* (mutant) the baseline is moved past the reported change
ReturnPastChange(track) ==
  /\ Goto("callback", "sleep")
  /\ lastMod' = IF track THEN timeCheck + 1 ELSE lastMod
  /\ UNCHANGED <<fileVars, shouldPoll, watching, caller, timeCheck>>

\* The delegate returns: only a tracked change moves the baseline.
Return(track) ==
  /\ Goto("callback", "sleep")
  /\ lastMod' = IF track THEN timeCheck ELSE lastMod
  /\ UNCHANGED <<fileVars, shouldPoll, watching, caller, timeCheck>>

\* (mutant) the baseline is read again after every sleep
SleepRebase ==
  /\ Goto("sleep", "while")
  /\ lastMod' = mtime
  /\ UNCHANGED <<fileVars, shouldPoll, watching, caller, timeCheck>>

\* Both ways out of the inner do-while lead back to the outer test.
Sleep ==
  /\ Goto("sleep", "while")
  /\ UNCHANGED <<fileVars, shouldPoll, watching, caller, lastMod, timeCheck>>

\* Everything the thread does by itself, that is, outside its delegate.
Poll == \/ ThreadEntry \/ BaselineMissing \/ BaselineValid \/ BaselineStat
        \/ WhileTest \/ CheckMissing \/ CheckValid \/ CheckStat \/ Sleep

-----------------------------------------------------------------------------
Environment ==
  /\ \/ \E t \in 1 .. MaxTime : Write(t) \/ Recreate(t)
     \/ Vanish
  /\ UNCHANGED watcherVars

Next == \/ Begin \/ StopRequest \/ StopJoined
        \/ Poll
        \/ \E track \in BOOLEAN : Return(track)
        \/ Environment

\* The scheduler runs the thread, the delegate returns and join() is not
\* starved; nobody is obliged to begin, to stop or to write the file.
Fairness == /\ WF_vars(Poll)
            /\ WF_vars(\E track \in BOOLEAN : Return(track))
            /\ WF_vars(StopJoined)

Spec == Init /\ [][Next]_vars /\ Fairness

-----------------------------------------------------------------------------
\* The polling thread ends only because its owner is inside stop(), and once
\* stop() has returned nothing of it is left that could call the delegate
\* (the destructor of the delegate's owner relies on both).
ThreadLivesUntilStopped ==
  /\ wpc = "exited" => caller = "join"
  /\ ~watching => wpc = "none"
  /\ watching => wpc # "none"

\* A change the delegate has accepted is never reported again: after the
\* baseline is read, the accepted time only grows.
AcceptedTimeGrows ==
  [][wpc \notin {"base", "baseStat"} => lastMod' >= lastMod]_vars

\* stop() returns, whatever the thread was doing when it was called: polling,
\* sleeping or inside a delegate that does return.
StopReturns == (caller = "join") ~> (caller = "none")

\* A modification later than the accepted one reaches the delegate, unless the
\* owner stops the watcher or the file is deleted first.
ChangeIsReported ==
  (wpc \in {"while", "check", "checkStat", "sleep"} /\ mtime > lastMod)
     ~> (wpc = "callback" \/ caller = "join" \/ mtime = 0)
=============================================================================
