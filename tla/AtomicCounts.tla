---------------------------- MODULE AtomicCounts ----------------------------
(***************************************************************************)
(* What a caller of mutateJson counts on: the document only ever changes   *)
(* by one call's mutation applied, whole, to the latest document.  Here a  *)
(* document is how often each caller's mutation has been applied to it.    *)
(***************************************************************************)
EXTENDS Integers

CONSTANT Callers

VARIABLE count

Init == count \in [Callers -> {0}]

Apply(c) == count' = [count EXCEPT ![c] = @ + 1]

Next == \E c \in Callers : Apply(c)

Spec == Init /\ [][Next]_count

=============================================================================
