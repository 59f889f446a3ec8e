SPECIFICATION Spec
CONSTANTS
  StartBlock = 1
  MaxReorgDepth = 3
  Confirmations = 1
  FetchBatchSize = 2
  ProcessBatchSize = 1
  AutoHandleReorgs = TRUE
  MaxConsecutiveErrors = 2
  EventBlocks <- MCEventBlocks
  NullRounds <- NoNullRounds
  EnvAssumptions <- NoQuietScan
  MaxBlock = 5
  MaxReorgs = 1
  MaxFaults = 0
INVARIANT SelfCorrecting
