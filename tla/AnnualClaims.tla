---------------------------- MODULE AnnualClaims ----------------------------
(***************************************************************************)
(* What an annual series promises to its holders, without journal, mint,   *)
(* clock or claim tokens.  Until settlement the backing grows and shrinks  *)
(* in pairs; settlement divides it, once, into a PT and a DR pool; after   *)
(* that a side that has handed in r of the S claims has received exactly   *)
(* floor(r * pool / S), whatever the other side or anybody else did.       *)
(***************************************************************************)
EXTENDS Integers

CONSTANT Sides

VARIABLES settled, backing, pool, redeemed, paid

vars == <<settled, backing, pool, redeemed, paid>>

Nothing == [s \in Sides |-> 0]

Init ==
  /\ settled = FALSE
  /\ backing = 0
  /\ pool = Nothing
  /\ redeemed = Nothing
  /\ paid = Nothing

Fund ==
  /\ ~settled
  /\ backing' > backing
  /\ UNCHANGED <<settled, pool, redeemed, paid>>

Unwind ==
  /\ ~settled
  /\ 0 <= backing' /\ backing' < backing
  /\ UNCHANGED <<settled, pool, redeemed, paid>>

Settle ==
  /\ ~settled
  /\ settled'
  /\ \E dividend \in 0..backing :
       pool' = [s \in Sides |-> IF s = "dr" THEN dividend ELSE backing - dividend]
  /\ UNCHANGED <<backing, redeemed, paid>>

Redeem(s) ==
  /\ settled
  /\ redeemed[s] < redeemed'[s] /\ redeemed'[s] <= backing
  /\ redeemed' = [redeemed EXCEPT ![s] = redeemed'[s]]
  /\ paid' = [paid EXCEPT ![s] = (redeemed'[s] * pool[s]) \div backing]
  /\ UNCHANGED <<settled, backing, pool>>

Next == Fund \/ Unwind \/ Settle \/ \E s \in Sides : Redeem(s)

Spec == Init /\ [][Next]_vars

=============================================================================
