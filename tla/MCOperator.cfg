SPECIFICATION MCSpec
CONSTANTS
  Legacy <- OneLegacy
  Added <- OneAdded
  Steps <- ToolSteps
  Repeatable <- Observations
  Cost <- ToolCost
  Fee <- ToolFee
  Life = 1
  MaxFaults = 2
  ForkedErrors = FALSE
  BootstrapCeiling = 10
  ExpansionCeiling = 7
  StateCanBeLost = FALSE
  WorstFaults = 1
  Catalog <- OneCatalog
  HolderCost = 3
  HolderFee = 1
  AdminCeiling = 4
  MaxSmoke = 1
  ProofFaults = 1
  Runs = {r1, r2}
  Target = 2
  TransferFee = 1
  Validity = 1
  Faucet0 = 1
  Admin0 = 4
  MaxHeight = 3
  MaxMoves = 1
  None = None
  CapacitySessions = 3
  CapacityBatch = 2
  ProviderSessions = 2
  ProviderBatch = 1
INVARIANTS NothingPaidTwice 
PROPERTIES CommandsEnd
CHECK_DEADLOCK FALSE
