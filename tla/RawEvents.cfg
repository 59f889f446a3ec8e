SPECIFICATION Spec
CONSTANTS
  IndexedNetworks <- MCNetworks
  Txs <- MCTxs
  LogsOf <- MCLogsOf
  FetchBatchSize = 2
  ProcessBatchSize = 2
  MaxBlock = 3
  BlockTxs = 2
  MaxForks = 1
  MaxFailures = 1
INVARIANTS TypeOK EventsMatchChain RowsMatchEvents
