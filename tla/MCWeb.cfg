SPECIFICATION MCSpec
CONSTANTS
  a1 = a1
  a2 = a2
  s1 = s1
  s2 = s2
  c1 = c1
  c2 = c2
  c3 = c3
  Accounts = {a1}
  Series = {s1, s2}
  Panels = {}
  Http = FALSE
  MaxRevision = 1
  MaxEpoch = 2
  MaxOps = 1
  MaxEvents = 3
  None = None
PROPERTIES
  PagesStayTrue
  WaitsEnd
CHECK_DEADLOCK FALSE
