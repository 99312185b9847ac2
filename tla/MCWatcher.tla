------------------------------ MODULE MCWatcher ------------------------------
(***************************************************************************)
(* Watcher on its own, with a history variable: how many times the delegate *)
(* has been entered since the stop() in progress cleared the flag.          *)
(***************************************************************************)
EXTENDS Watcher

VARIABLE late

EntersDelegate == wpc # "callback" /\ wpc' = "callback"

HInit == Init /\ late = 0

HNext ==
  /\ Next
  /\ late' = IF caller = "none" THEN 0
             ELSE IF EntersDelegate THEN late + 1 ELSE late

HSpec == HInit /\ [][HNext]_<<vars, late>> /\ Fairness

\* A stop() waits for the poll in progress only: the delegate is entered at most
\* once more after the flag is cleared, however often the file changes.
AtMostOneLateCall == late <= 1
=============================================================================
