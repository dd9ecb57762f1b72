SPECIFICATION MCSpec
CONSTANTS
  o1 = o1
  TradeFeeRate = 100
  ProtocolFeeRate = 300
  FundFeeRate = 250
  FeeRateDenominator = 1000
  LockedLp = 10
  SlippageBps = 500
  SeedQuote = 160
  AddQuote = 240
  BuyerQuote = 40
  SeedDr = 400
  AddDr = 600
  Circle = TRUE
  StrangerQuote = 28
  StrangerAmounts <- MCStrangerAmounts
  MaxRuns = 1
PROPERTIES
  SequencesAreExact
  OperationsEnd
CHECK_DEADLOCK FALSE
