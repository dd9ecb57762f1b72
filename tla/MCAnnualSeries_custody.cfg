SPECIFICATION Spec
CONSTANTS
  FractionBits = 1
  Bias = 2
  Span = 1
  BigLimit = 400
  h1 = h1
  h2 = h2
  e1 = e1
  e2 = e2
  c1 = c1
  c2 = c2
  Holders = {h1, h2}
  Vault = Vault
  Admin = Admin
  Principals = {Admin, Attestor}
  Events = {e1}
  Payloads <- ClassPayloads
  MaxRevision = 1
  MaxEvents = 1
  Scales <- FlatScale
  ControlSets = {c1}
  NoControls = NoControls
  IssuerActs = {}
  WalletActs = {"transfer"}
  Start = 1
  Maturity = 2
  MaxTime = 2
  Lifetime = 2
  Endowment = 2
  MaxRaw = 4
  MaxVersion = 9
  Amounts = {1, 2}
INVARIANTS TypeOK CustodyExact SupplyExact PoolsConsistent
PROPERTIES VersionCoversState FinalityIsPermanent RefinesClaims
CHECK_DEADLOCK FALSE
