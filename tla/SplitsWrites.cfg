SPECIFICATION Spec
CONSTANTS
  Ids <- MCIds
  TypeOf <- MCTypeOf
  Weights <- MCWeights
  TotalWeight = 3
  MaxReceivers = 2
  MaxSteps = 1
  EnvAssumptions <- AllAssumptions
INVARIANTS TypeOK RowsObeyRules NothingMerged ValidExactlyWhenPaid
