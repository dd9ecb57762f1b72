SPECIFICATION Spec
CONSTANTS
  FractionBits = 1
  Bias = 2
  Span = 1
  BigLimit = 400
  h1 = h1
  h2 = h2
  e1 = e1
  e2 = e2
  c1 = c1
  c2 = c2
  Holders = {h1}
  Vault = Vault
  Admin = Admin
  Principals = {Admin, Attestor}
  Events = {e1, e2}
  Payloads <- JournalPayloads
  MaxRevision = 2
  MaxEvents = 2
  Scales <- FlatScale
  ControlSets = {c1}
  NoControls = NoControls
  IssuerActs = {}
  WalletActs = {}
  Start = 1
  Maturity = 2
  MaxTime = 2
  Lifetime = 1
  Endowment = 3
  MaxRaw = 3
  MaxVersion = 10
  Amounts = {3}
INVARIANTS JournalExact SealPinsJournal SplitFollowsJournal

CHECK_DEADLOCK FALSE
