SPECIFICATION MCSpec
CONSTANTS
  w1 = w1
  w2 = w2
  o1 = o1
  o2 = o2
  a1 = a1
  v1 = v1
  v2 = v2
  i1 = i1
  Workers = {w1, w2}
  Owners = {o1}
  Assets = {}
  Visitors = {v1}
  Addresses = {i1}
  DayLength = 9
  BucketLength = 9
  DailyGrants = 9
  VisitorGrants = 9
  AddressGrants = 9
  Budget <- BudgetOne
  LeaseLength = 1
  Validity = 1
  Lag = 1
  Outcomes = {"saved", "lost", "unsaved"}
  CanFail = TRUE
  CanCrash = TRUE
  MaxTime = 2
  MaxHeight = 2
  MaxAttempts = 2
  MaxFence = 2
SYMMETRY Symmetry
INVARIANTS PaidAtMostOnce JournalTrue LimitsHold
PROPERTIES TerminalIsFinal
CHECK_DEADLOCK FALSE
