-------------------------- MODULE MCHostedSessions --------------------------
(***************************************************************************)
(* The hosted session service for TLC: two handlers, visitors and session  *)
(* ids, and a browser of at most two tabs.                                 *)
(***************************************************************************)
EXTENDS HostedSessionsProofs, TLC

CONSTANTS p1, p2, s1, s2

\* Two sessions a day for each visitor and for all.
TwoADay == [c \in {"global", v1, v2} |-> 2]

\* Handlers, session ids and visitors are interchangeable; in the parts with one
\* visitor nothing of the other ever exists.
MCSymmetry == Permutations({p1, p2}) \cup Permutations({s1, s2}) \cup Permutations({v1, v2})

=============================================================================
