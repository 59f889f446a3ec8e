SPECIFICATION Spec
CONSTANTS
  StartBlock = 1
  MaxReorgDepth = 3
  Confirmations = 1
  FetchBatchSize = 2
  ProcessBatchSize = 1
  AutoHandleReorgs = TRUE
  MaxConsecutiveErrors = 2
  EventBlocks <- MCEventBlocks
  NullRounds <- MCNullRounds
  EnvAssumptions <- AllAssumptions
  MaxBlock = 6
  MaxReorgs = 2
  MaxFaults = 1
INVARIANTS TypeOK NothingBeyondCursor DetectionComplete
PROPERTIES PruningSparesWindow ValidatedAfterReplay ImplementsIndex
