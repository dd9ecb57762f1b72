-------------------------- MODULE MCFaucetJournal --------------------------
(***************************************************************************)
(* Three instances of FaucetJournal on one set of variables: two workers   *)
(* who deliver one grant through failures, and two where one worker serves *)
(* several visitors, under quotas and under a lifetime budget of one       *)
(* payment of each kind.  A behaviour is of one of them; the properties    *)
(* are FaucetJournal's own, and say the same of each.                      *)
(***************************************************************************)
EXTENDS FaucetJournal, TLC

CONSTANTS w1, w2, o1, o2, a1, v1, v2, i1

VARIABLE part

BudgetOne == [k \in Kinds |-> 1]
BudgetTwo == [k \in Kinds |-> 2]

Quota == INSTANCE FaucetJournal WITH
  Workers <- {w1}, Owners <- {o1, o2}, Assets <- {a1}, Visitors <- {v1, v2},
  DayLength <- 1, BucketLength <- 2, DailyGrants <- 2, VisitorGrants <- 1, AddressGrants <- 2,
  Budget <- BudgetTwo, Lag <- 0, Outcomes <- {"saved", "lost"}, CanFail <- FALSE,
  MaxTime <- 1, MaxHeight <- 1, MaxAttempts <- 1

Lifetime == INSTANCE FaucetJournal WITH
  Workers <- {w1}, Owners <- {o1, o2}, Assets <- {a1}, Visitors <- {v1, v2},
  DayLength <- 1, BucketLength <- 2, DailyGrants <- 2, VisitorGrants <- 1, AddressGrants <- 2,
  Lag <- 0, Outcomes <- {"saved", "lost"}, CanFail <- FALSE,
  MaxTime <- 1, MaxHeight <- 1

MCInit ==
  \/ part = "delivery" /\ Init
  \/ part = "quota" /\ Quota!Init
  \/ part = "lifetime" /\ Lifetime!Init

MCNext ==
  /\ \/ part = "delivery" /\ Next
     \/ part = "quota" /\ Quota!Next
     \/ part = "lifetime" /\ Lifetime!Next
  /\ UNCHANGED part

MCSpec == MCInit /\ [][MCNext]_<<vars, part>>

\* Workers are interchangeable.
Symmetry == Permutations({w1, w2})

=============================================================================
