SPECIFICATION ServiceSpec
CONSTANTS
  p1 = p1
  p2 = p2
  v1 = v1
  v2 = v2
  s1 = s1
  s2 = s2
  t1 = t1
  t2 = t2
  Handlers = {p1, p2}
  Visitors = {v1, v2}
  Kinds = {"wallet"}
  Ids = {s1, s2}
  Active = 1
  DailyLimit <- TwoADay
  Lifetime = 3
  Requests = {"current", "start", "reset"}
  Provisioning = 2
  Cooldown = 1
  Tombstone = 2
  MaxDuration = 0
  CreateLatency = 1
  RequestsTotal = 1
  MutationsTotal = 1
  MaxTime = 5
  MaxAsks = 2
  Snapshots = TRUE
  None = None
SYMMETRY MCSymmetry
INVARIANTS SandboxesCounted ForwardsAreCharged
PROPERTIES NothingReopens AnswersAreMeant VisitorIsKept
CHECK_DEADLOCK FALSE
