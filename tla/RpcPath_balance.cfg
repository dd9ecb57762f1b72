SPECIFICATION PathSpec
CONSTANTS
  Pages = {p1, p2}
  PageRequests <- OwnRequests
  Assets = 3
  RequestLimit = 4
  MutationLimit = 3
CHECK_DEADLOCK FALSE
INVARIANTS BalanceServed
