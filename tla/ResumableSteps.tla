--------------------------- MODULE ResumableSteps ---------------------------
(***************************************************************************)
(* The step engine of the devnet tools (packages/devnet-runtime,           *)
(* transactions.ts): a named step is one transaction whose signed bytes    *)
(* are written to a private journal before they are sent, so that a run    *)
(* that stops anywhere can be repeated without paying twice.               *)
(*                                                                         *)
(* The module holds the engine, the journal and the chain the transactions *)
(* go to; DevnetBootstrap and CatalogProof extend it with the steps they   *)
(* run and what each step's check reads.  A run of a tool is one process;  *)
(* pc is where it stands inside a step and "idle" is no process at all.    *)
(***************************************************************************)
EXTENDS Integers, Sequences, SequencesExt

CONSTANTS
    Steps,         \* the names of the steps
    Repeatable,    \* the steps called with repeatableAfterConfirmed
    Cost,          \* [Steps -> Nat]: what a success takes from the admin
    Fee,           \* [Steps -> Nat]: what a failure takes from the admin
    Life,          \* how many block ticks a blockhash stays valid
    MaxFaults,     \* bound: crashes, failures, forks and expiries together
    ForkedErrors   \* a block that reported a failure can itself be dropped

ASSUME ResumableAssumption ==
    /\ Repeatable \subseteq Steps
    /\ Cost \in [Steps -> Nat] /\ Fee \in [Steps -> Nat]
    /\ Life \in Nat \ {0} /\ MaxFaults \in Nat /\ ForkedErrors \in BOOLEAN

VARIABLES
    journal,   \* state.steps on disk: [Steps -> Seq(index into tx)]
    tx,        \* every transaction ever signed
    balance,   \* the admin's lamports, relative to the first run
    pc,        \* where the running tool stands inside its step
    faults     \* faults that happened, at most MaxFaults

engineVars == <<journal, tx, balance, pc, faults>>

Statuses == {"signed", "sent", "processed", "confirmed", "failing", "failed"}

InitEngine ==
    /\ journal = [s \in Steps |-> <<>>] /\ tx = <<>>
    /\ balance = 0 /\ pc = "idle" /\ faults = 0

Fault == faults < MaxFaults /\ faults' = faults + 1

-----------------------------------------------------------------------------
(* What the engine reads.  getSignatureStatuses reports an error as soon   *)
(* as a block holds it and a success once it is confirmed.                 *)

Previous(s) == tx[Last(journal[s])]

\* Mutant: a transaction the cluster has not shown counts as failed
HasErrOrUnseen(t) == t.status \in {"failing", "failed", "signed", "sent"}

HasErr(t) == t.status \in {"failing", "failed"}

Confirmed(t) == t.status = "confirmed"

Expired(t) == t.life = 0

PersistedStepConfirmed(s) == journal[s] # <<>> /\ Confirmed(Previous(s))

WithinBudget(s, initial, maxSpend) == initial - (balance - Cost[s]) <= maxSpend

-----------------------------------------------------------------------------
(* The engine, one action per await.  `done' is the step's check at that   *)
(* moment.  Every invariant() that fails ends the process.                 *)

ToIdle == pc' = "idle"

CheckStep(s, done) ==
    /\ pc = "check"
    /\ pc' = IF done THEN "next" ELSE IF journal[s] = <<>> THEN "sign" ELSE "status"
    /\ UNCHANGED <<journal, tx, balance, faults>>

\* A confirmed attempt whose effect is missing may only be repeated when the
\* step says so.
AfterConfirmed(s, done) ==
    pc' = IF done THEN "next" ELSE IF s \in Repeatable THEN "recheck" ELSE "idle"

ReadStatus(s, done) ==
    /\ pc = "status"
    /\ IF HasErr(Previous(s)) THEN pc' = "recheck"
       ELSE IF Confirmed(Previous(s)) THEN AfterConfirmed(s, done)
       ELSE pc' = "height"
    /\ UNCHANGED <<journal, tx, balance, faults>>

ReadHeight(s) ==
    /\ pc = "height"
    /\ pc' = IF Expired(Previous(s)) THEN "final" ELSE "resend"
    /\ UNCHANGED <<journal, tx, balance, faults>>

ReadFinalStatus(s, done) ==
    /\ pc = "final"
    /\ IF HasErr(Previous(s)) THEN pc' = "recheck"
       ELSE IF Confirmed(Previous(s)) THEN AfterConfirmed(s, done)
       ELSE ToIdle
    /\ UNCHANGED <<journal, tx, balance, faults>>

\* The same bytes again; the cluster knows them or takes them now.
Resend(s) ==
    /\ pc = "resend" /\ pc' = "confirm"
    /\ tx' = [tx EXCEPT ![Last(journal[s])].status = IF @ = "signed" THEN "sent" ELSE @]
    /\ UNCHANGED <<journal, balance, faults>>

Recheck(s, done) ==
    /\ pc = "recheck" /\ pc' = IF done THEN "next" ELSE "sign"
    /\ UNCHANGED <<journal, tx, balance, faults>>

\* Sign, simulate, check the ceiling, then write the attempt to the journal.
Sign(s, simulates, initial, maxSpend) ==
    /\ pc = "sign"
    /\ IF simulates /\ WithinBudget(s, initial, maxSpend)
       THEN /\ tx' = Append(tx, [step |-> s, status |-> "signed", life |-> Life])
            /\ journal' = [journal EXCEPT ![s] = Append(@, Len(tx) + 1)]
            /\ pc' = "send"
       ELSE ToIdle /\ UNCHANGED <<journal, tx>>
    /\ UNCHANGED <<balance, faults>>

Send(s) ==
    /\ pc = "send" /\ pc' = "confirm"
    /\ tx' = [tx EXCEPT ![Last(journal[s])].status = "sent"]
    /\ UNCHANGED <<journal, balance, faults>>

\* confirmTransaction answers at the confirmed level or when the blockhash
\* expires; only a confirmed success whose effect is visible is a finished step.
Confirm(s, done) ==
    /\ pc = "confirm"
    /\ \/ Confirmed(Previous(s)) /\ pc' = (IF done THEN "next" ELSE "idle")
       \/ Previous(s).status = "failed" /\ ToIdle
       \/ Expired(Previous(s)) /\ ~Confirmed(Previous(s)) /\ ToIdle
    /\ UNCHANGED <<journal, tx, balance, faults>>

\* The process is killed, or a call throws, at any await.
Stop ==
    /\ pc # "idle" /\ ToIdle /\ Fault
    /\ UNCHANGED <<journal, tx, balance>>

-----------------------------------------------------------------------------
(* The cluster.  `possible' says whether step s can succeed in the state   *)
(* the transaction meets.                                                  *)

Land(t, possible) ==
    /\ tx[t].status = "sent" /\ ~Expired(tx[t])
    /\ \/ /\ possible
          /\ tx' = [tx EXCEPT ![t].status = "processed"]
          /\ balance' = balance - Cost[tx[t].step] /\ UNCHANGED faults
       \/ /\ (possible => Fault) /\ (~possible => UNCHANGED faults)
          /\ tx' = [tx EXCEPT ![t].status = "failing"]
          /\ balance' = balance - Fee[tx[t].step]
    /\ UNCHANGED <<journal, pc>>

\* A settled transaction's lifetime is never read again: it is set to 0.
Settle(t) ==
    /\ tx[t].status \in {"processed", "failing"}
    /\ tx' = [tx EXCEPT ![t].life = 0,
                        ![t].status = IF @ = "processed" THEN "confirmed" ELSE "failed"]
    /\ UNCHANGED <<journal, balance, pc, faults>>

\* The block is dropped and the transaction waits to be included again.
Fork(t) ==
    /\ Fault
    /\ \/ /\ tx[t].status = "processed" /\ balance' = balance + Cost[tx[t].step]
       \/ /\ tx[t].status = "failing" /\ ForkedErrors
          /\ balance' = balance + Fee[tx[t].step]
    /\ tx' = [tx EXCEPT ![t].status = "sent"]
    /\ UNCHANGED <<journal, pc>>

Tick ==
    /\ \E t \in DOMAIN tx : tx[t].life > 0
    /\ tx' = [t \in DOMAIN tx |-> [tx[t] EXCEPT !.life = IF @ = 0 THEN 0 ELSE @ - 1]]
    /\ UNCHANGED <<journal, balance, pc, faults>>

-----------------------------------------------------------------------------
EngineTypeOK ==
    /\ tx \in Seq([step : Steps, status : Statuses, life : 0..Life])
    /\ journal \in [Steps -> Seq(DOMAIN tx)]
    /\ balance \in Int /\ faults \in 0..MaxFaults
    /\ pc \in {"idle", "signers", "state", "baseline", "check", "status", "height", "final",
               "resend", "recheck", "sign", "send", "confirm", "next"}

Landed(t) == t.status \in {"processed", "confirmed"}

(* A step takes effect at most once however often its tool is killed and   *)
(* repeated: whatever reaches the chain, at most one of a step's           *)
(* transactions succeeds (reconcilePersistedAttempt).                      *)
StepTakesEffectOnce ==
    \A t, u \in DOMAIN tx :
        (t # u /\ tx[t].step = tx[u].step /\ tx[t].step \notin Repeatable)
            => ~(Landed(tx[t]) /\ Landed(tx[u]))

(* While one attempt of a step can still be included, no other attempt of  *)
(* it exists that could be: a new one is signed only over a finished one   *)
(* (spec/devnet-runtime-v1.md, Mutation controls).                         *)
OneLiveAttempt ==
    \A t, u \in DOMAIN tx :
        (t < u /\ tx[t].step = tx[u].step)
            => tx[t].status \in {"confirmed", "failing", "failed"}

(* A transaction that left the process is in the journal of its step, so   *)
(* the next run finds it (the write precedes sendRawTransaction).          *)
SentIsJournaled ==
    \A t \in DOMAIN tx : tx[t].status # "signed" => \E i \in DOMAIN journal[tx[t].step] :
                                                       journal[tx[t].step][i] = t
=============================================================================
