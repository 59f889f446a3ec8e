SPECIFICATION Spec
CONSTANTS
  r1 = r1
  r2 = r2
  MaxBlock = 2
  Requests <- TwoRequests
  Timeout = 1
  MaxRetries = 2
  Jitter <- MCJitter
  LongestDelay = 1
  Concurrency = 1
  Confirmations = 0
  BatchSize = 2
  StaleTimeout = 1
  Period = 1
  MaxFaults = 1
SYMMETRY RequestsAlike
INVARIANTS TypeOK NoBlockUnanswered AnswersInTime StallReported NoFalseAlarm
