--------------------------- MODULE FaucetEndowment ---------------------------
(***************************************************************************)
(* The one transfer that endows the public devnet faucet                   *)
(* (scripts/hosting/fund-devnet-services.mjs).  An operator runs the       *)
(* script, perhaps twice at once, perhaps again after it was killed.  The  *)
(* signed transaction is written to a private file that is created         *)
(* exclusively before anything is sent, and only what that file holds is   *)
(* ever sent; a run then polls and writes a public receipt.                *)
(*                                                                         *)
(* A run's awaits are its steps.  The file is created empty and filled by  *)
(* a second step, so a run that is killed between them leaves it torn.     *)
(* A run signs at most one transaction, which bears the run's name.        *)
(* External: the cluster (blocks, forks, a confirmed height that never     *)
(* goes back) and whoever else moves the two balances.                     *)
(***************************************************************************)
EXTENDS Integers

CONSTANTS
  Runs,            \* executions of the script
  Target,          \* TARGET_LAMPORTS = MAX_TRANSFER_LAMPORTS
  Fee,             \* what the cluster charges, within MAX_FEE_LAMPORTS
  Validity,        \* blocks a blockhash stays valid
  Faucet0, Admin0, \* the balances before
  MaxHeight, MaxMoves,
                   \* bounds of the instance
  None

Balances == [faucet : Nat, admin : Nat]

\* What the instances of this module satisfy.
EndowmentAssumption ==
  /\ {Target, Validity} \subseteq Nat \ {0}
  /\ {Fee, Faucet0, Admin0, MaxHeight, MaxMoves} \subseteq Nat
  /\ None \notin Runs \cup [height : Nat, ok : BOOLEAN, before : Balances, after : Balances]

VARIABLES
  height, bank, moves,   \* the confirmed chain and strangers' moves on it
  sent, landed,          \* transactions some node was given; where they landed
  file,                  \* absent, torn or whole, and the attempt it holds
  run                    \* the local state of each run

chain == <<height, bank, moves, sent, landed>>
vars == <<chain, file, run>>

NoAttempt == [id |-> None, amount |-> 0, before |-> None, lastValid |-> 0]
Receipt(status, r) == [status |-> status, after |-> bank, id |-> run[r].attempt.id]
NoFile == [state |-> "absent", attempt |-> NoAttempt]
NoReceipt == [status |-> "none"]
Rest == [pc |-> "start", attempt |-> NoAttempt, best |-> "pending", receipt |-> NoReceipt]

Init ==
  /\ height = 0 /\ moves = 0
  /\ bank = [faucet |-> Faucet0, admin |-> Admin0]
  /\ sent = {} /\ landed = [r \in Runs |-> None]
  /\ file = NoFile
  /\ run = [r \in Runs |-> Rest]

-----------------------------------------------------------------------------
(* The cluster.                                                            *)

\* signed by run r: what the transaction bearing r's name says.
Signed(r) == run[r].attempt

\* A block is confirmed, with one transaction or without.
Block(r) ==
  /\ height < MaxHeight
  /\ height' = height + 1
  /\ \/ UNCHANGED <<bank, landed>>
     \/ /\ r \in sent /\ landed[r] = None
        /\ height' <= Signed(r).lastValid
        /\ bank.admin >= Fee
        /\ LET ok == bank.admin >= Signed(r).amount + Fee
               paid == IF ok THEN Signed(r).amount ELSE 0
           IN  /\ bank' = [faucet |-> bank.faucet + paid, admin |-> bank.admin - paid - Fee]
               /\ landed' = [landed EXCEPT ![r] =
                    [height |-> height', ok |-> ok, before |-> bank, after |-> bank']]
  /\ UNCHANGED <<moves, sent, file, run>>

\* Somebody else endows the faucet, the faucet pays a fee, or the admin pays.
Move ==
  /\ moves < MaxMoves /\ moves' = moves + 1
  /\ \/ bank' = [bank EXCEPT !.faucet = @ + 1]
     \/ bank.faucet > 0 /\ bank' = [bank EXCEPT !.faucet = @ - 1]
     \/ bank.admin > 0 /\ bank' = [bank EXCEPT !.admin = @ - 1]
  /\ UNCHANGED <<height, sent, landed, file, run>>

\* What a node may answer about a signature: a block that is not confirmed may
\* hold the transaction, with any result, and be abandoned.
Statuses(a) ==
  CASE landed[a.id] # None ->
         IF ~ landed[a.id].ok THEN {"error"}
         ELSE {"confirmed"} \union (IF height > landed[a.id].height THEN {"finalized"} ELSE {})
    [] landed[a.id] = None /\ a.id \in sent /\ height < a.lastValid ->
         {"null", "processed", "error"}
    [] OTHER -> {"null"}

-----------------------------------------------------------------------------
(* A run of the script.                                                    *)

At(r, pc) == run[r].pc = pc
Goto(r, pc) == run' = [run EXCEPT ![r].pc = pc]
Ends(r, receipt) == run' = [run EXCEPT ![r].pc = "done", ![r].receipt = receipt]
Fails(r) == Ends(r, [status |-> "failed", id |-> None])

\* readAttempt and validateAttempt: an empty file is no JSON and ends the run.
ReadAttempt(r) ==
  /\ At(r, "start")
  /\ CASE file.state = "absent" -> Goto(r, "balances")
       [] file.state = "torn" -> Fails(r)
       [] OTHER -> run' = [run EXCEPT ![r].pc = "status", ![r].attempt = file.attempt]
  /\ UNCHANGED <<chain, file>>

\* currentBalances, and the amount of prepareAttempt.
ReadBalances(r) ==
  /\ At(r, "balances")
  /\ IF bank.faucet >= Target
       THEN Ends(r, Receipt("not-needed", r))
       ELSE run' = [run EXCEPT ![r].pc = "sign", ![r].attempt.before = bank,
                               ![r].attempt.amount = Target - bank.faucet]
  /\ UNCHANGED <<chain, file>>

Sign(r) ==
  /\ At(r, "sign")
  /\ run' = [run EXCEPT ![r].pc = "simulate", ![r].attempt.id = r,
                        ![r].attempt.lastValid = height + Validity]
  /\ UNCHANGED <<chain, file>>

\* The simulation's balances are those that were read, after the transfer.
SimulationExact(a) == bank.admin >= a.amount + Fee /\ bank = a.before

Simulate(r) ==
  /\ At(r, "simulate")
  /\ IF SimulationExact(run[r].attempt) THEN Goto(r, "open") ELSE Fails(r)
  /\ UNCHANGED <<chain, file>>

\* writeExclusive, first half.
OpenExclusive(r) ==
  /\ At(r, "open")
  /\ IF file.state = "absent" THEN file' = [file EXCEPT !.state = "torn"] /\ Goto(r, "write")
     ELSE Fails(r) /\ UNCHANGED file
  /\ UNCHANGED chain

\* writeExclusive, second half: the content reaches the disk.
WriteAttempt(r) ==
  /\ At(r, "write")
  /\ file' = [state |-> "whole", attempt |-> run[r].attempt]
  /\ Goto(r, "status")
  /\ UNCHANGED chain

InitialStatus(r) ==
  /\ At(r, "status")
  /\ \E s \in Statuses(run[r].attempt) : Goto(r, IF s = "null" THEN "height" ELSE "poll")
  /\ UNCHANGED <<chain, file>>

StillValid(r) ==
  /\ At(r, "height")
  /\ Goto(r, IF height <= run[r].attempt.lastValid THEN "send" ELSE "poll")
  /\ UNCHANGED <<chain, file>>

\* sendRawTransaction: the answer, or the call, may be lost; polling decides.
Send(r) ==
  /\ At(r, "send")
  /\ \/ sent' = sent \union {run[r].attempt.id}
     \/ UNCHANGED sent
  /\ Goto(r, "poll")
  /\ UNCHANGED <<height, bank, moves, landed, file>>

\* One turn of pollStatus.
Poll(r) ==
  /\ At(r, "poll")
  /\ \E s \in Statuses(run[r].attempt) :
       run' = CASE s = "error" -> [run EXCEPT ![r].pc = "receipt", ![r].best = "failed"]
                [] s = "finalized" -> [run EXCEPT ![r].pc = "details", ![r].best = s]
                [] s = "confirmed" -> [run EXCEPT ![r].best = s]
                [] s = "processed" -> run
                [] s = "null" -> [run EXCEPT ![r].pc = "expiry"]
  /\ UNCHANGED <<chain, file>>

PollHeight(r) ==
  /\ At(r, "expiry")
  /\ Goto(r, IF height > run[r].attempt.lastValid THEN "final" ELSE "poll")
  /\ UNCHANGED <<chain, file>>


\* What the second look after the expiry makes of the status.
FinalVerdict(r, s) ==
  CASE s \in {"confirmed", "finalized"} -> s
    [] s = "error" -> "failed"
    [] OTHER -> "expired"

FinalStatus(r) ==
  /\ At(r, "final")
  /\ \E s \in Statuses(run[r].attempt) :
       LET v == FinalVerdict(r, s)
       IN  run' = [run EXCEPT ![r].best = v,
                     ![r].pc = IF v \in {"confirmed", "finalized"} THEN "details" ELSE "receipt"]
  /\ UNCHANGED <<chain, file>>

\* Mutant: polling goes on until an answer.
DeadlinePassesNever(r) == At(r, "poll") /\ run[r].best = "confirmed" /\ Goto(r, "details") /\ UNCHANGED <<chain, file>>

\* The minute is over between two turns.
DeadlinePasses(r) ==
  /\ At(r, "poll")
  /\ Goto(r, IF run[r].best = "confirmed" THEN "details" ELSE "receipt")
  /\ UNCHANGED <<chain, file>>

\* transactionBalances: what the transaction moved, and the target it reached.
DetailsExact(a, tx) ==
  /\ tx.after.faucet - tx.before.faucet = a.amount
  /\ tx.before.admin - tx.after.admin = a.amount + Fee
  /\ tx.after.faucet = Target

Details(r) ==
  /\ At(r, "details")
  /\ LET a == run[r].attempt
         tx == landed[a.id]
     IN  IF DetailsExact(a, tx)
           THEN Ends(r, [status |-> run[r].best, id |-> a.id, after |-> tx.after])
           ELSE Fails(r)
  /\ UNCHANGED <<chain, file>>

\* The receipt of a transfer that was not seen to succeed.
WriteReceipt(r) ==
  /\ At(r, "receipt")
  /\ Ends(r, Receipt(run[r].best, r))
  /\ UNCHANGED <<chain, file>>

\* A call fails, the fee is over budget, the genesis differs: a failed receipt.
CallFails(r) ==
  /\ run[r].pc \notin {"send", "done", "killed"}
  /\ Fails(r)
  /\ UNCHANGED <<chain, file>>

\* The run is killed at an await.
Killed(r) ==
  /\ run[r].pc \notin {"done", "killed"}
  /\ Goto(r, "killed")
  /\ UNCHANGED <<chain, file>>

RunSteps(r) ==
  \/ ReadAttempt(r) \/ ReadBalances(r) \/ Sign(r) \/ Simulate(r)
  \/ OpenExclusive(r) \/ WriteAttempt(r)
  \/ InitialStatus(r) \/ StillValid(r) \/ Send(r)
  \/ Poll(r) \/ PollHeight(r) \/ FinalStatus(r) \/ Details(r) \/ WriteReceipt(r)

Next ==
  \/ \E r \in Runs : RunSteps(r) \/ DeadlinePasses(r) \/ CallFails(r) \/ Killed(r) \/ Block(r)
  \/ Move

Spec == Init /\ [][Next]_vars

-----------------------------------------------------------------------------
(* Properties.                                                             *)

Recorded == IF file.state = "whole" THEN {file.attempt.id} ELSE {}

TypeOK ==
  /\ height \in 0..MaxHeight
  /\ bank.faucet \in Nat /\ bank.admin \in Nat
  /\ sent \subseteq Runs
  /\ \A r \in Runs : run[r].attempt.amount \in 0..Target

\* However often the script runs, at once or again after it was killed, one
\* transaction at most ever lands.
PaidAtMostOnce ==
  \A r, q \in Runs : (landed[r] # None /\ landed[q] # None) => r = q

\* Nothing is sent that the private file does not hold: a torn or missing
\* file means that no transaction is on its way.
SentIsRecorded == sent \subseteq Recorded

\* A receipt that says the transfer is confirmed is about a transaction that
\* landed, and the balance it publishes is the target.
ReceiptIsTrue ==
  \A r \in Runs : run[r].receipt.status \in {"confirmed", "finalized"} =>
    LET tx == landed[run[r].receipt.id]
    IN  tx # None /\ tx.ok /\ run[r].receipt.after = tx.after /\ tx.after.faucet = Target

\* A receipt that says the transfer expired is never contradicted: nothing of
\* it landed, also not in the last valid block while the run was looking.
ExpiredNeverPays ==
  \A r \in Runs : run[r].receipt.status = "expired" =>
    landed[run[r].receipt.id] = None /\ height > Signed(run[r].receipt.id).lastValid

\* A run has ended, with a receipt unless it was killed.
RunOver(r) == run[r].pc \in {"done", "killed"}

=============================================================================
