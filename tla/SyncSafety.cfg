SPECIFICATION Spec
CONSTANTS Uuid = {1, 2}
          MaxTime = 2
          Faults = {"open", "lock", "cache", "local", "request", "mark"}
          Reuse = FALSE
INVARIANTS TypeOK ScansAlone
PROPERTY ImplementsBatchSync
