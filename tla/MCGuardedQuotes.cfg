SPECIFICATION MCSpec
CONSTANTS
  FractionBits = 1
  Bias = 2
  Span = 1
  BigLimit = 400
  h1 = h1
  h2 = h2
  e1 = e1
  c1 = c1
  c2 = c2
  Holders = {h1, h2}
  Vault = Vault
  Admin = Admin
  Principals = {Admin, Attestor}
  Events = {e1}
  Payloads <- OneDividend
  MaxRevision = 1
  MaxEvents = 1
  Scales <- FlatScale
  ControlSets = {c1}
  NoControls = NoControls
  IssuerActs = {}
  WalletActs = {}
  Start = 1
  Maturity = 2
  MaxTime = 2
  Lifetime = 1
  Endowment = 2
  MaxRaw = 3
  MaxVersion = 7
  Amounts = {1, 2}
  Quoters = {h1}
  Patience = 1
INVARIANTS QuoteCurrent ExitQuoteHonoured ClientAgrees
PROPERTIES QuoteExact
CHECK_DEADLOCK FALSE
