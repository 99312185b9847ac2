SPECIFICATION HSpec
CONSTANTS MaxTime = 3
          MayVanish = TRUE
INVARIANTS TypeOK ThreadLivesUntilStopped AtMostOneLateCall
PROPERTIES AcceptedTimeGrows StopReturns ChangeIsReported
