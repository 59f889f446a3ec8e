SPECIFICATION FairSpec
CONSTANTS
  Workers = {p1, p2}
  Events <- TwoEvents
  BatchSize = 2
  MaxRetries = 2
  Nobody = Nobody
  MaxFaults = 2
  MaxAttempts = 2
  EnvAssumptions <- NoAssumptions
INVARIANT TypeOK
PROPERTIES EventsDrain ShutdownCompletes
