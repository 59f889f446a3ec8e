SPECIFICATION Spec
CONSTANTS
  Workers = {p1, p2}
  Events <- MCEvents
  BatchSize = 2
  MaxRetries = 2
  Nobody = Nobody
  MaxFaults = 5
  MaxAttempts = 2
  EnvAssumptions <- AllAssumptions
INVARIANTS SingleIndexer AppliedOnce InOrder
PROPERTY FailedIsFinal
