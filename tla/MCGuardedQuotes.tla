--------------------------- MODULE MCGuardedQuotes ---------------------------
(***************************************************************************)
(* Two instances of GuardedQuotes on one set of variables: two holders who *)
(* trade around a quote that waits, and one holder of a mint whose issuer  *)
(* uses its powers.  A behaviour is of one of them.                        *)
(***************************************************************************)
EXTENDS GuardedQuotes

CONSTANTS h1, h2, e1, c1, c2

VARIABLE part

Dividend == [status |-> "qualified", ex_date |-> "in_year", m0_bits |-> 2, m1_bits |-> 4,
             source_final |-> TRUE, observed |-> 0]
OneDividend == {Dividend}

FlatScale == {[current |-> 4, new |-> 4, effective |-> 0]}

\* A change planned for the start of the year, and one the program cannot decode.
PlannedScales ==
  FlatScale \cup {[current |-> 4, new |-> 5, effective |-> 1],
                  [current |-> 4, new |-> 6, effective |-> 0]}

Issued == INSTANCE GuardedQuotes WITH
  Holders <- {h1}, Scales <- PlannedScales, ControlSets <- {c1, c2},
  IssuerActs <- {"scale", "controls", "pause", "seize"},
  Endowment <- 1, MaxRaw <- 1, MaxVersion <- 5, Amounts <- {1}, Patience <- 0

MCInit ==
  \/ part = "holders" /\ QuoteInit
  \/ part = "issuer" /\ Issued!QuoteInit

MCNext ==
  /\ \/ part = "holders" /\ QuoteNext
     \/ part = "issuer" /\ Issued!QuoteNext
  /\ UNCHANGED part

MCSpec == MCInit /\ [][MCNext]_<<quoteVars, part>>

=============================================================================
