SPECIFICATION MCSpec
CONSTANTS
  q1 = q1
  q2 = q2
  chain1 = chain1
  chain2 = chain2
  r1 = r1
  r2 = r2
  p1 = p1
  p2 = p2
  c1 = c1
  c2 = c2
  c3 = c3
  Kind = "wallet"
  Requests = {q1, q2}
  Chains = {chain1, chain2}
  RuntimeIds = {r1, r2}
  MaxInflight = 2
  MaxMutations = 1
  StartupTimeout = 1
  Expiry = 2
  MaxTime = 2
  MaxChanges = 1
  None = None
  Pages = {p1, p2}
  PageRequests <- Everything
  Assets = 3
  RequestLimit = 2
  MutationLimit = 2
  Callers = {"f1", "f2"}
  Attempts = 3
  Existing = FALSE
INVARIANTS GatewayExact CallsMetered
PROPERTIES EndedStaysEnded StartsInTurn StoreLosesNothing RequestsEnd
CHECK_DEADLOCK FALSE
