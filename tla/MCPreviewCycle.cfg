SPECIFICATION Spec
CONSTANTS Uuid = {1, 2}
          Version = {1, 2}
          Rendered <- MCRendered
          MaxFiles = 2
          Faults = {"open", "lock", "cache", "local", "request", "mark"}
INVARIANTS TypeOK ScanIsDifference
PROPERTIES PutAgainOnlyIfMissed ImplementsBatchSync
