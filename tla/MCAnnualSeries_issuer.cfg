SPECIFICATION FairSpec
CONSTANTS
  FractionBits = 1
  Bias = 2
  Span = 1
  BigLimit = 400
  h1 = h1
  h2 = h2
  e1 = e1
  e2 = e2
  c1 = c1
  c2 = c2
  Holders = {h1}
  Vault = Vault
  Admin = Admin
  Principals = {Admin, Attestor}
  Events = {e1}
  Payloads <- LatePayloads
  MaxRevision = 1
  MaxEvents = 1
  Scales <- MovingScales
  ControlSets = {c1, c2}
  NoControls = NoControls
  IssuerActs = {"scale", "controls", "pause", "freeze", "seize"}
  WalletActs = {"donate", "burn"}
  Start = 1
  Maturity = 2
  MaxTime = 3
  Lifetime = 1
  Endowment = 1
  MaxRaw = 1
  MaxVersion = 5
  Amounts = {1}

INVARIANTS ExitsStayOpen
PROPERTIES SealingEnds
CHECK_DEADLOCK FALSE
