-------------------------- MODULE DevnetBootstrap --------------------------
(***************************************************************************)
(* The devnet registry tool (packages/devnet-runtime): `bootstrap' creates *)
(* the first assets, `expand-catalog' adds the rest, each under a spending *)
(* ceiling of its own.  Both keep what they need to be repeated in a       *)
(* private directory: one secret and one public file per generated signer, *)
(* state.json with the balance baseline and the journal of steps, and      *)
(* manifest.json, written last.                                            *)
(*                                                                         *)
(* An asset is provisioned by four steps (mint, policy, observation,       *)
(* series) after one step that funds the two test authorities.  The        *)
(* observation expires; the funded authorities spend.                      *)
(***************************************************************************)
EXTENDS ResumableSteps

CONSTANTS
    Legacy,              \* the assets of bootstrap, in order
    Added,               \* the assets of expand-catalog, in order
    BootstrapCeiling,    \* MAX_BOOTSTRAP_SPEND_LAMPORTS
    ExpansionCeiling,    \* MAX_CATALOG_EXPANSION_SPEND_LAMPORTS
    StateCanBeLost       \* state.json may disappear between two runs

VARIABLES
    signer,      \* [name -> "none" | "secret" | "both"]: the files of each signer
    making,      \* signers this run generated and has not finished writing
    saved,       \* state.json without its journal
    manifest,    \* assets in manifest.json: "none", "legacy" or "all"
    mode,        \* the command that runs
    at,          \* the position of the current step in its plan
    fresh,       \* [asset -> BOOLEAN]: its observation is unexpired
    low          \* an authority holds less than its bootstrap funding

vars == <<engineVars, signer, making, saved, manifest, mode, at, fresh, low>>
diskVars == <<signer, making, saved, manifest>>
worldVars == <<fresh, low>>

LegacyAssets == {Legacy[i] : i \in DOMAIN Legacy}
AddedAssets == {Added[i] : i \in DOMAIN Added}
Assets == LegacyAssets \cup AddedAssets

Fund == <<"fund", "authorities">>
Kinds == <<"mint", "policy", "observe", "series">>

\* bootstrap funds the authorities first; then each asset's steps in turn.
Plan(m) ==
    LET assets == IF m = "bootstrap" THEN Legacy ELSE Added
    IN (IF m = "bootstrap" THEN <<Fund>> ELSE <<>>)
         \o [i \in 1..(4 * Len(assets)) |-> <<Kinds[1 + ((i - 1) % 4)], assets[1 + ((i - 1) \div 4)]>>]

PlanSteps(m) == {Plan(m)[i] : i \in DOMAIN Plan(m)}

\* What the instances of this module satisfy: every asset is named once; an
\* observation is the one step that is repeated, and the attestor pays for it;
\* what fails costs no more than what succeeds.
BootstrapAssumption ==
    /\ BootstrapCeiling \in Nat /\ ExpansionCeiling \in Nat /\ StateCanBeLost \in BOOLEAN
    /\ Legacy \in Seq(LegacyAssets) /\ Added \in Seq(AddedAssets)
    /\ \A i, j \in DOMAIN Legacy : Legacy[i] = Legacy[j] => i = j
    /\ \A i, j \in DOMAIN Added : Added[i] = Added[j] => i = j
    /\ LegacyAssets \cap AddedAssets = {}
    /\ Steps = {Fund} \cup ({"mint", "policy", "observe", "series"} \X Assets)
    /\ Repeatable = {"observe"} \X Assets
    /\ \A s \in Repeatable : Cost[s] = 0
    /\ \A s \in Steps : Fee[s] <= Cost[s]

\* state.json: NoBaseline until the balance is recorded
NoBaseline == 1
NoState == [exists |-> FALSE, initial |-> NoBaseline, expansion |-> NoBaseline]

InitTool ==
    /\ signer = [n \in {"faucet", "attestor"} \cup Assets |-> "none"] /\ making = {}
    /\ saved = NoState /\ manifest = "none" /\ mode = "bootstrap" /\ at = 1
    /\ fresh = [a \in Assets |-> FALSE] /\ low = TRUE

Init == InitEngine /\ InitTool

-----------------------------------------------------------------------------
(* What the checks read.                                                   *)

OnChain(s) == \E t \in DOMAIN tx : tx[t].step = s /\ Confirmed(tx[t])

\* Mutant: funding counts as done only while the authorities hold it
HoldsByBalance(s) ==
    IF s = Fund THEN ~low ELSE IF s[1] = "observe" THEN fresh[s[2]] ELSE OnChain(s)

\* mintMatches, policyMatches, observationFreshAndMatching, seriesMatches, and
\* the funding check, which stays true once the authorities have been funded.
Holds(s) ==
    /\ s = Fund => PersistedStepConfirmed(Fund) \/ ~low
    /\ s[1] = "observe" => fresh[s[2]]
    /\ s[1] \in {"mint", "policy", "series"} => OnChain(s)

\* What the chain itself requires: an account is created once, a series only
\* under an unexpired observation.
Possible(s) ==
    /\ s[1] \in {"mint", "policy", "series"} => ~\E t \in DOMAIN tx : tx[t].step = s /\ Landed(tx[t])
    /\ s[1] = "series" => fresh[s[2]]

Known(assets) == \E a \in assets : \E k \in {"mint", "policy", "series"} : OnChain(<<k, a>>)

-----------------------------------------------------------------------------
(* The commands up to their first step.                                    *)

\* expand-catalog reads state.json and manifest.json before anything else.
Run(m) ==
    /\ pc = "idle" /\ pc' = "signers" /\ mode' = m /\ at' = 1 /\ making' = {}
    /\ m = "expand" => saved.exists /\ saved.initial # NoBaseline /\ manifest # "none"
    /\ UNCHANGED <<journal, tx, balance, faults, signer, saved, manifest, worldVars>>

Needed == IF mode = "bootstrap" THEN {"faucet", "attestor"} \cup LegacyAssets ELSE AddedAssets

\* The secret file is created exclusively; a signer with only that file makes
\* every later run fail.
WriteSecret(n) ==
    /\ pc = "signers" /\ n \in Needed /\ signer[n] = "none"
    /\ n = "attestor" => signer["faucet"] = "both"
    /\ (mode = "bootstrap" /\ n \in Assets) => signer["attestor"] = "both"
    /\ signer' = [signer EXCEPT ![n] = "secret"] /\ making' = making \cup {n}
    /\ UNCHANGED <<engineVars, saved, manifest, mode, at, worldVars>>

WritePublic(n) ==
    /\ pc = "signers" /\ n \in making
    /\ signer' = [signer EXCEPT ![n] = "both"] /\ making' = making \ {n}
    /\ UNCHANGED <<engineVars, saved, manifest, mode, at, worldVars>>

Wedged(n) == signer[n] = "secret" /\ n \notin making

SignerMissing ==
    /\ pc = "signers" /\ ToIdle /\ \E n \in Needed : Wedged(n)
    /\ UNCHANGED <<journal, tx, balance, faults, diskVars, mode, at, worldVars>>

SignersLoaded ==
    /\ pc = "signers" /\ pc' = "state" /\ \A n \in Needed : signer[n] = "both"
    /\ UNCHANGED <<journal, tx, balance, faults, diskVars, mode, at, worldVars>>

\* loadOrInitializeState: a state whose keys were expanded is refused; a new
\* one is written first and only then are the accounts looked for.
LoadState ==
    /\ pc = "state" /\ mode = "bootstrap"
    /\ IF saved.exists
       THEN /\ pc' = IF saved.expansion = NoBaseline THEN "baseline" ELSE "idle"
            /\ UNCHANGED saved
       ELSE /\ saved' = [NoState EXCEPT !.exists = TRUE]
            /\ pc' = IF Known(LegacyAssets) THEN "idle" ELSE "baseline"
    /\ UNCHANGED <<journal, tx, balance, faults, signer, making, manifest, mode, at, worldVars>>

TakeBaseline ==
    /\ pc = "baseline" /\ pc' = "check"
    /\ saved' = [saved EXCEPT !.initial = IF @ = NoBaseline THEN balance ELSE @]
    /\ UNCHANGED <<journal, tx, balance, faults, signer, making, manifest, mode, at, worldVars>>

\* assertCatalogExpansionState and what follows it: a finished catalogue is
\* returned, a begun one resumed, otherwise the baseline and the new keys are
\* written in one go, provided nothing of the new assets exists.
BeginExpansion ==
    /\ pc = "state" /\ mode = "expand"
    /\ IF manifest = "all" THEN ToIdle /\ UNCHANGED saved
       ELSE IF saved.expansion # NoBaseline THEN pc' = "check" /\ UNCHANGED saved
       ELSE IF Known(AddedAssets) \/ \E s \in PlanSteps("expand") : journal[s] # <<>>
            THEN ToIdle /\ UNCHANGED saved
       ELSE pc' = "check" /\ saved' = [saved EXCEPT !.expansion = balance]
    /\ UNCHANGED <<journal, tx, balance, faults, signer, making, manifest, mode, at, worldVars>>

-----------------------------------------------------------------------------
(* The steps of the plan, and the end of the run.                          *)

Step == Plan(mode)[at]
Initial == IF mode = "bootstrap" THEN saved.initial ELSE saved.expansion
Ceiling == IF mode = "bootstrap" THEN BootstrapCeiling ELSE ExpansionCeiling

RunStep ==
    /\ at <= Len(Plan(mode))
    /\ \/ CheckStep(Step, Holds(Step))
       \/ ReadStatus(Step, Holds(Step))
       \/ ReadHeight(Step)
       \/ ReadFinalStatus(Step, Holds(Step))
       \/ Resend(Step)
       \/ Recheck(Step, Holds(Step))
       \/ Sign(Step, Possible(Step), Initial, Ceiling)
       \/ Send(Step)
       \/ Confirm(Step, Holds(Step))
    /\ UNCHANGED <<diskVars, mode, at, worldVars>>

NextStep ==
    /\ pc = "next" /\ pc' = "check" /\ at' = at + 1
    /\ UNCHANGED <<journal, tx, balance, faults, diskVars, mode, worldVars>>

\* The last thing a run does: the ceiling once more, then the manifest.
WriteManifest ==
    /\ pc = "check" /\ at > Len(Plan(mode)) /\ ToIdle
    /\ manifest' = IF Initial - balance > Ceiling THEN manifest
                   ELSE IF mode = "bootstrap" THEN "legacy" ELSE "all"
    /\ UNCHANGED <<journal, tx, balance, faults, signer, making, saved, mode, at, worldVars>>

-----------------------------------------------------------------------------
(* The world outside the tool.                                             *)

TxLands(t) == Land(t, Possible(tx[t].step)) /\ UNCHANGED <<diskVars, mode, at, worldVars>>

TxForks(t) == Fork(t) /\ UNCHANGED <<diskVars, mode, at, worldVars>>

TxSettles(t) ==
    /\ Settle(t)
    /\ fresh' = IF tx[t].status = "processed" /\ tx[t].step[1] = "observe"
                THEN [fresh EXCEPT ![tx[t].step[2]] = TRUE] ELSE fresh
    /\ low' = IF tx[t].status = "processed" /\ tx[t].step = Fund THEN FALSE ELSE low
    /\ UNCHANGED <<diskVars, mode, at>>

BlocksPass == Tick /\ UNCHANGED <<diskVars, mode, at, worldVars>>

ObservationExpires(a) ==
    /\ fresh[a] /\ Fault /\ fresh' = [fresh EXCEPT ![a] = FALSE]
    /\ UNCHANGED <<journal, tx, balance, pc, diskVars, mode, at, low>>

AuthoritySpends ==
    /\ ~low /\ low' = TRUE
    /\ UNCHANGED <<engineVars, diskVars, mode, at, fresh>>

ToolStops == Stop /\ UNCHANGED <<diskVars, mode, at, worldVars>>

\* Only while nothing is on its way to the cluster.
StateLost ==
    /\ StateCanBeLost /\ pc = "idle" /\ saved.exists /\ Fault
    /\ \A t \in DOMAIN tx : tx[t].status \in {"confirmed", "failed"}
    /\ saved' = NoState /\ journal' = [s \in Steps |-> <<>>]
    /\ UNCHANGED <<tx, balance, pc, signer, making, manifest, mode, at, worldVars>>

Tool ==
    \/ \E n \in Needed : WriteSecret(n) \/ WritePublic(n)
    \/ SignerMissing \/ SignersLoaded \/ LoadState \/ TakeBaseline \/ BeginExpansion
    \/ RunStep \/ NextStep \/ WriteManifest

World ==
    \/ \E t \in DOMAIN tx : TxLands(t) \/ TxForks(t) \/ TxSettles(t)
    \/ BlocksPass \/ AuthoritySpends \/ ToolStops \/ StateLost
    \/ \E a \in Assets : ObservationExpires(a)

Next == Tool \/ World \/ \E m \in {"bootstrap", "expand"} : Run(m)

Spec == Init /\ [][Next]_vars

-----------------------------------------------------------------------------
(* Types.                                                                  *)
TypeOK ==
    /\ EngineTypeOK
    /\ signer \in [{"faucet", "attestor"} \cup Assets -> {"none", "secret", "both"}]
    /\ making \subseteq {n \in DOMAIN signer : signer[n] = "secret"}
    /\ saved \in [exists : BOOLEAN, initial : Int, expansion : Int]
    /\ manifest \in {"none", "legacy", "all"} /\ mode \in {"bootstrap", "expand"}
    /\ at \in 1..(Len(Plan(mode)) + 1)
    /\ fresh \in [Assets -> BOOLEAN] /\ low \in BOOLEAN

(* A published manifest names only assets whose accounts are confirmed on  *)
(* chain, whatever happened in the runs before the one that published it.  *)
ManifestIsReal ==
    /\ manifest # "none" => \A a \in LegacyAssets, k \in {"mint", "policy", "series"} : OnChain(<<k, a>>)
    /\ manifest = "all" => \A a \in AddedAssets, k \in {"mint", "policy", "series"} : OnChain(<<k, a>>)

(* Over any number of runs, with every refused, failed or forked           *)
(* transaction in between, the admin spends at most the bootstrap ceiling, *)
(* and the expansion at most its own on top: no run starts counting anew.  *)
SpendWithinCeiling ==
    -balance <= IF saved.expansion = NoBaseline THEN BootstrapCeiling
                ELSE BootstrapCeiling + ExpansionCeiling

(* An attempt that expired unseen, or a signer of which only the secret    *)
(* file was written: the two states every repeated run refuses.            *)
Blocked ==
    \/ \E n \in DOMAIN signer : Wedged(n)
    \/ \E s \in Steps : /\ journal[s] # <<>> /\ Expired(Previous(s))
                        /\ Previous(s).status \in {"signed", "sent"}

(* What repeating the commands comes to: the catalogue is complete, unless *)
(* a run was stopped between the two files of a signer or an attempt       *)
(* expired without the chain having shown it.                              *)
CatalogueDone == manifest = "all" \/ Blocked
=============================================================================
