---------------------------- MODULE CatalogProof ----------------------------
(***************************************************************************)
(* The holder proof of the devnet catalogue (scripts/devnet/               *)
(* verify-catalog.mjs): a dedicated holder is funded once and then, asset  *)
(* by asset, mints one unit, deposits it and recombines it, each phase     *)
(* checked against a recorded baseline; receipts are published per asset.  *)
(* Every transaction goes through the journaled step engine.               *)
(*                                                                         *)
(* A second tool works on the same vaults without a journal: the holder    *)
(* smoke of packages/devnet-runtime (operations.ts), whose transactions    *)
(* may also land after it was stopped.                                     *)
(***************************************************************************)
EXTENDS ResumableSteps

CONSTANTS
    Catalog,       \* the assets, in the manifest's order
    AdminCeiling,  \* MAX_ADMIN_SPEND
    MaxSmoke       \* bound: units the smoke may mint

VARIABLES
    completed,   \* journal.completed: [Steps -> 0 or index into tx]
    baseline,    \* journal.baselines: [asset -> vault and supply at the start]
    receipts,    \* journal.receipts and the published files
    at,          \* the position in the plan
    smoke,       \* where the smoke stands and the snapshot it compares with
    late,        \* a smoke transaction on its way although its run has ended
    held         \* the smoke holder's collateral and claims

vars == <<engineVars, completed, baseline, receipts, at, smoke, late, held>>
proofVars == <<completed, baseline, receipts, at>>
smokeVars == <<smoke, late, held>>

NoBaseline == [vault |-> -1, supply |-> -1]
NoSnapshot == [collateral |-> -1, claims |-> -1, vault |-> -1]

Assets == {Catalog[i] : i \in DOMAIN Catalog}
FundHolder == <<"fund", "holder">>

\* What main() does for one asset: four journaled transactions, the baseline
\* between the first two and the receipt at the end.
Phases == <<"atas", "baseline", "mint", "deposit", "recombine", "receipt">>

\* The holder is funded first; then each asset's phases in turn.
Plan ==
    <<FundHolder>> \o [i \in 1..(6 * Len(Catalog)) |-> <<Phases[1 + ((i - 1) % 6)], Catalog[1 + ((i - 1) \div 6)]>>]

\* What the instances of this module satisfy: every asset is listed once, and
\* the holder pays for everything after its funding.
CatalogAssumption ==
    /\ AdminCeiling \in Nat /\ MaxSmoke \in Nat
    /\ Catalog \in Seq(Assets) /\ \A i, j \in DOMAIN Catalog : Catalog[i] = Catalog[j] => i = j
    /\ "holder" \notin Assets
    /\ Steps = {FundHolder} \cup ({"atas", "mint", "deposit", "recombine"} \X Assets) /\ Repeatable = {}
    /\ \A s \in Steps \ {FundHolder} : Cost[s] = 0 /\ Fee[s] = 0
    /\ Fee[FundHolder] <= Cost[FundHolder]

InitProof ==
    /\ completed = [s \in Steps |-> 0] /\ baseline = [a \in Assets |-> NoBaseline]
    /\ receipts = {} /\ at = 1
    /\ smoke = [pc |-> "idle", before |-> NoSnapshot] /\ late = "none"
    /\ held = [collateral |-> 0, claims |-> 0]

Init == InitEngine /\ InitProof

-----------------------------------------------------------------------------
(* The chain: what the confirmed transactions add up to.  The smoke works  *)
(* on the first asset.                                                     *)

Times(k, a) == Cardinality({t \in DOMAIN tx : tx[t].step = <<k, a>> /\ Confirmed(tx[t])})

Claims(a) == Times("deposit", a) - Times("recombine", a)
Collateral(a) == Times("mint", a) - Claims(a)
Vault(a) == Claims(a) + (IF a = Catalog[1] THEN held.claims ELSE 0)
Supply(a) == Times("mint", a) + (IF a = Catalog[1] THEN held.collateral + held.claims ELSE 0)

\* "minted" and "recombined" describe the same balances.
VerifyPhase(phase, a) ==
    /\ Collateral(a) = (IF phase = "deposited" THEN 0 ELSE 1)
    /\ Claims(a) = (IF phase = "deposited" THEN 1 ELSE 0)
    /\ Vault(a) = baseline[a].vault + (IF phase = "deposited" THEN 1 ELSE 0)

\* The check of each step.
\* (The holder's balance is its target until the first fee it pays, which comes
\* after fund-holder is completed.)
Holds(s) ==
    CASE s[1] \in {"fund", "atas"} -> Times(s[1], s[2]) > 0
      [] s[1] = "mint" -> VerifyPhase("minted", s[2])
      [] s[1] = "deposit" -> VerifyPhase("deposited", s[2])
      [] OTHER -> VerifyPhase("recombined", s[2])

Possible(s) ==
    /\ s[1] = "deposit" => Collateral(s[2]) > 0
    /\ s[1] = "recombine" => Claims(s[2]) > 0

-----------------------------------------------------------------------------
(* The proof.                                                              *)

Step == Plan[at]

RunProof ==
    /\ pc = "idle" /\ pc' = "state" /\ at' = 1
    /\ UNCHANGED <<journal, tx, balance, faults, completed, baseline, receipts, smokeVars>>

\* What main() asserts before it enters a step that is not completed.
ReadyFor(s) ==
    CASE s[1] = "fund" -> TRUE
      [] s[1] = "atas" -> journal[s] = <<>> => Times("atas", s[2]) = 0
      [] s[1] = "mint" -> \/ VerifyPhase("minted", s[2])
                          \/ /\ Collateral(s[2]) = 0 /\ Claims(s[2]) = 0
                             /\ Vault(s[2]) = baseline[s[2]].vault
      [] s[1] = "deposit" -> VerifyPhase("deposited", s[2]) \/ VerifyPhase("minted", s[2])
      [] OTHER -> VerifyPhase("recombined", s[2]) \/ VerifyPhase("deposited", s[2])

\* What it asserts whether or not the step is completed.
SuppliesMatch(s) ==
    /\ s[1] = "deposit" => Supply(s[2]) = baseline[s[2]].supply + 1
    /\ (s[1] = "recombine" /\ journal[s] = <<>>) => Vault(s[2]) = baseline[s[2]].vault + 1

EnterStep ==
    /\ pc = "state" /\ at <= Len(Plan) /\ Step[1] \notin {"baseline", "receipt"}
    /\ IF Step[2] \in receipts
       THEN IF VerifyPhase("recombined", Step[2])
            THEN pc' = "state" /\ at' = at + Len(Phases)
            ELSE ToIdle /\ UNCHANGED at
       ELSE IF ~SuppliesMatch(Step) THEN ToIdle /\ UNCHANGED at
       ELSE IF completed[Step] # 0 THEN pc' = "state" /\ at' = at + 1
       ELSE pc' = (IF ReadyFor(Step) THEN "check" ELSE "idle") /\ UNCHANGED at
    /\ UNCHANGED <<journal, tx, balance, faults, completed, baseline, receipts, smokeVars>>

TakeBaseline ==
    /\ pc = "state" /\ at <= Len(Plan) /\ Step[1] = "baseline"
    /\ LET a == Step[2] IN
       IF baseline[a] # NoBaseline THEN at' = at + 1 /\ UNCHANGED <<baseline, pc>>
       ELSE IF Collateral(a) = 0 /\ Claims(a) = 0
            THEN /\ baseline' = [baseline EXCEPT ![a] = [vault |-> Vault(a), supply |-> Supply(a)]]
                 /\ at' = at + 1 /\ UNCHANGED pc
       ELSE ToIdle /\ UNCHANGED <<baseline, at>>
    /\ UNCHANGED <<journal, tx, balance, faults, completed, receipts, smokeVars>>

InEngine ==
    /\ at <= Len(Plan)
    /\ \/ CheckStep(Step, Holds(Step))
       \/ ReadStatus(Step, Holds(Step))
       \/ ReadHeight(Step)
       \/ ReadFinalStatus(Step, Holds(Step))
       \/ Resend(Step)
       \/ Recheck(Step, Holds(Step))
       \/ Sign(Step, Possible(Step), 0, AdminCeiling)
       \/ Send(Step)
       \/ Confirm(Step, Holds(Step))
    /\ UNCHANGED <<proofVars, smokeVars>>

\* runStep: the recorded attempt must be the confirmed one, and the phase must
\* still hold, before the step is marked completed.
CompleteStep ==
    /\ pc = "next"
    /\ IF PersistedStepConfirmed(Step) /\ Holds(Step)
       THEN /\ completed' = [completed EXCEPT ![Step] = Last(journal[Step])]
            /\ pc' = "state" /\ at' = at + 1
       ELSE ToIdle /\ UNCHANGED <<completed, at>>
    /\ UNCHANGED <<journal, tx, balance, faults, baseline, receipts, smokeVars>>

PublishReceipt ==
    /\ pc = "state" /\ at <= Len(Plan) /\ Step[1] = "receipt"
    /\ LET a == Step[2] IN
       IF Vault(a) = baseline[a].vault /\ Supply(a) = baseline[a].supply + 1
       THEN receipts' = receipts \cup {a} /\ at' = at + 1 /\ UNCHANGED pc
       ELSE ToIdle /\ UNCHANGED <<receipts, at>>
    /\ UNCHANGED <<journal, tx, balance, faults, completed, baseline, smokeVars>>

FinishProof ==
    /\ pc = "state" /\ at > Len(Plan) /\ ToIdle
    /\ UNCHANGED <<journal, tx, balance, faults, proofVars, smokeVars>>

-----------------------------------------------------------------------------
(* The smoke: fund one unit, split it, recombine it, comparing snapshots.  *)

Snapshot == [collateral |-> held.collateral, claims |-> held.claims, vault |-> Vault(Catalog[1])]

Applied(k) ==
    CASE k = "mint" -> [held EXCEPT !.collateral = @ + 1]
      [] k = "split" -> [held EXCEPT !.collateral = @ - 1, !.claims = @ + 1]
      [] OTHER -> [held EXCEPT !.collateral = @ + 1, !.claims = @ - 1]

Applicable(k) ==
    /\ k = "mint" => held.collateral + held.claims < MaxSmoke
    /\ k = "split" => held.collateral > 0
    /\ k = "recombine" => held.claims > 0

After(k) == CASE k = "mint" -> "before" [] k = "split" -> "between" [] OTHER -> "final"

SmokeStarts ==
    /\ smoke.pc = "idle" /\ smoke' = [smoke EXCEPT !.pc = "mint"]
    /\ UNCHANGED <<engineVars, proofVars, late, held>>

\* simulateSendAndConfirm: the transaction lands and is confirmed to the tool,
\* or the tool ends first and the transaction may still land.
SmokeSends(k) ==
    /\ smoke.pc = k
    /\ \/ Applicable(k) /\ held' = Applied(k) /\ smoke' = [smoke EXCEPT !.pc = After(k)] /\ UNCHANGED late
       \/ /\ late = "none" /\ late' = k /\ UNCHANGED held
          /\ smoke' = [pc |-> "idle", before |-> NoSnapshot]
    /\ UNCHANGED <<engineVars, proofVars>>

SmokeCompares ==
    /\ smoke.pc \in {"before", "between", "final"}
    /\ LET b == smoke.before
           split == [b EXCEPT !.collateral = @ - 1, !.claims = @ + 1, !.vault = @ + 1]
           ended == [pc |-> "idle", before |-> NoSnapshot] IN
       smoke' = CASE smoke.pc = "before" -> [pc |-> "split", before |-> Snapshot]
                  [] smoke.pc = "between" /\ Snapshot = split -> [smoke EXCEPT !.pc = "recombine"]
                  [] OTHER -> ended
    /\ UNCHANGED <<engineVars, proofVars, late, held>>

LateLands ==
    /\ late # "none" /\ late' = "none"
    /\ held' \in {held} \cup (IF Applicable(late) THEN {Applied(late)} ELSE {})
    /\ UNCHANGED <<engineVars, proofVars, smoke>>

-----------------------------------------------------------------------------
ClusterActs ==
    /\ \/ \E t \in DOMAIN tx : Land(t, Possible(tx[t].step)) \/ Fork(t) \/ Settle(t)
       \/ Tick \/ Stop
    /\ UNCHANGED <<proofVars, smokeVars>>

Proof == EnterStep \/ TakeBaseline \/ InEngine \/ CompleteStep \/ PublishReceipt \/ FinishProof

Smoke == SmokeStarts \/ SmokeCompares \/ LateLands
         \/ \E k \in {"mint", "split", "recombine"} : SmokeSends(k)

Next == RunProof \/ Proof \/ Smoke \/ ClusterActs

Spec == Init /\ [][Next]_vars

-----------------------------------------------------------------------------
(* Types.                                                                  *)
TypeOK ==
    /\ EngineTypeOK
    /\ completed \in [Steps -> 0..Len(tx)] /\ receipts \subseteq Assets
    /\ baseline \in [Assets -> [vault : Int, supply : Int]] /\ at \in 1..(Len(Plan) + 1)
    /\ smoke.pc \in {"idle", "mint", "before", "split", "between", "recombine", "final"}
    /\ late \in {"none", "mint", "split", "recombine"}
    /\ held \in [collateral : Nat, claims : Nat]

(* A published receipt was earned: its asset was minted, deposited and     *)
(* recombined exactly once, by the very transactions the journal names as  *)
(* completed, and the holder is left with the unit and no claim.           *)
ReceiptIsEarned ==
    \A a \in receipts :
        /\ \A k \in {"mint", "deposit", "recombine"} :
              /\ Times(k, a) = 1
              /\ completed[<<k, a>>] # 0
              /\ Confirmed(tx[completed[<<k, a>>]])
        /\ Collateral(a) = 1 /\ Claims(a) = 0

(* The journal prevents duplicate funding: over all runs the admin pays at *)
(* most the holder's target and one allowance for fees.                    *)
AdminPaysOnce == -balance <= AdminCeiling

Blocked == \E s \in Steps : /\ journal[s] # <<>> /\ Expired(Previous(s))
                            /\ Previous(s).status \in {"signed", "sent"}

\* Someone else changed the vault or the supply an unfinished asset is compared with.
Disturbed ==
    \E a \in Assets \ receipts :
        /\ baseline[a] # NoBaseline
        /\ \/ Vault(a) - Claims(a) # baseline[a].vault
           \/ Supply(a) - Times("mint", a) # baseline[a].supply

(* What repeating the proof comes to: every receipt is published, unless   *)
(* an attempt expired unseen or another holder moved an asset between its  *)
(* baseline and its receipt: the recorded baseline is never taken again.   *)
ProofDone == receipts = Assets \/ Blocked \/ Disturbed
=============================================================================
