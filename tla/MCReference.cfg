SPECIFICATION MCSpec
CONSTANTS
  alice = alice
  bob = bob
  Accounts = {alice, bob}
  EventIds = {"e1"}
  Payloads <- Raise
  Amounts = {1, 2}
  Times = {0, 2}
  Year = 2026
  Start = 1
  Maturity = 2
  MaxRaw = 2
  MaxEventIds = 1
  MaxRevision = 0
PROPERTIES
  ReferencesAgree
  ReviewsAreHonest
SYMMETRY AccountSymmetry
CHECK_DEADLOCK FALSE
