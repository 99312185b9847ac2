SPECIFICATION Spec
CONSTANTS Uuid = {1}
          MaxTime = 3
          Faults = {}
          Reuse = FALSE
INVARIANT StopLeavesNoWorker
