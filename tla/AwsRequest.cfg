SPECIFICATION Spec
CONSTANTS
  MaxCalls = 2
  DataSize = 3
  ChunkSize = 2
  MaxBlocks = 2
INVARIANTS TypeOK NothingOfAnEarlierCall SuccessIsReal
PROPERTIES OutcomeIsFinal CancelEndsCall
