--------------------------- MODULE MCAnnualSeries ---------------------------
(***************************************************************************)
(* Model-checking instances of AnnualSeries, and the property that needs   *)
(* fairness.                                                               *)
(***************************************************************************)
EXTENDS AnnualSeries

CONSTANTS h1, h2, e1, e2, c1, c2

-----------------------------------------------------------------------------
(* Constants of the configurations.  Multipliers have one fraction bit and *)
(* an exponent range of two: the patterns 2, 3, 4, 5 stand for the numbers *)
(* 1/2, 3/4, 1 and 3/2; 6 does not decode.                                 *)

Qualified(date, m0, m1, final) ==
  [status |-> "qualified", ex_date |-> date, m0_bits |-> m0, m1_bits |-> m1,
   source_final |-> final, observed |-> 0]

Unfactored(status, date, final) ==
  [status |-> status, ex_date |-> date, m0_bits |-> 0, m1_bits |-> 0,
   source_final |-> final, observed |-> 0]

\* Two dividends of different exponents, one whose date is unknown, a cancellation.
JournalPayloads ==
  {Qualified("in_year", 3, 4, TRUE), Qualified("in_year", 2, 5, TRUE),
   Qualified("unknown", 3, 4, TRUE), Unfactored("cancelled", "in_year", TRUE)}

\* The other classes of input: another year, not final, unsupported, not decodable.
ClassPayloads ==
  {Qualified("off_year", 3, 4, TRUE), Qualified("in_year", 3, 4, FALSE),
   Qualified("in_year", 3, 6, TRUE), Unfactored("confirmed_zero", "in_year", TRUE),
   Unfactored("pending", "unknown", FALSE), Unfactored("unsupported", "in_year", TRUE),
   Qualified("in_year", 3, 4, TRUE)}

LatePayloads ==
  {[Qualified("in_year", 3, 4, TRUE) EXCEPT !.observed = Start]}

FlatScale == {[current |-> 4, new |-> 4, effective |-> 0]}

\* A schedule that activates after maturity.
MovingScales ==
  FlatScale \cup {[current |-> 4, new |-> 5, effective |-> Maturity + 1]}

-----------------------------------------------------------------------------

\* accumulate_event and complete_finalization are permissionless: any keeper may
\* submit them, so an enabled one is eventually submitted.
FairSpec == Spec /\ WF_vars(Keeping)

\* The conditions a seal cannot survive without.
SealHolds ==
  /\ InspectsMint
  /\ mint.controls = seal.controls
  /\ ScaleTuple(mint, now) = seal.scale
  /\ VaultUsable
  /\ vault >= nominal_backing
  /\ state_version < MaxVersion

\* A seal whose conditions keep holding is eventually completed or aborted: no
\* interleaving of exits, donations and clock steps leaves the series sealing
\* forever.
SealingEnds == phase = "sealing" ~> (phase # "sealing" \/ ~SealHolds)

=============================================================================
