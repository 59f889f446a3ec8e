SPECIFICATION FairSpec
CONSTANTS
  StartBlock = 2
  MaxReorgDepth = 3
  Confirmations = 0
  FetchBatchSize = 2
  ProcessBatchSize = 1
  AutoHandleReorgs = FALSE
  MaxConsecutiveErrors = 2
  EventBlocks <- MCEventBlocks
  NullRounds <- NoNullRounds
  EnvAssumptions <- AllAssumptions
  MaxBlock = 5
  MaxReorgs = 2
  MaxFaults = 0
PROPERTIES FrozenUntilRollback CatchesUp RecoveryValidated
