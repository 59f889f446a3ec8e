SPECIFICATION FairSpec
CONSTANTS
  StartBlock = 1
  MaxReorgDepth = 3
  Confirmations = 1
  FetchBatchSize = 2
  ProcessBatchSize = 1
  AutoHandleReorgs = TRUE
  MaxConsecutiveErrors = 2
  EventBlocks <- MCEventBlocks
  NullRounds <- NoNullRounds
  EnvAssumptions <- AllAssumptions
  MaxBlock = 5
  MaxReorgs = 1
  MaxFaults = 2
PROPERTIES CatchesUp
