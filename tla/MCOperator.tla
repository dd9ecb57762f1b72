----------------------------- MODULE MCOperator -----------------------------
(***************************************************************************)
(* The operator's commands: the devnet registry tool (DevnetBootstrap),    *)
(* the holder proof (CatalogProof), the transfer that endows the faucet    *)
(* (FaucetEndowment) and the provider probes (ProviderProbes).  A          *)
(* behaviour is of one part; the two commands that use the step engine     *)
(* share its variables.  The commands come first, each with the proofs of  *)
(* its invariant; the parts, their properties and theorems come last.      *)
(***************************************************************************)
EXTENDS OperatorProofs

CONSTANTS
  WorstFaults,                                     \* faults where state.json may be lost
  Catalog, HolderCost, HolderFee, AdminCeiling, MaxSmoke, ProofFaults,
                                                   \* the holder proof
  Runs, Target, TransferFee, Validity, Faucet0, Admin0, MaxHeight, MaxMoves, None,
                                                   \* the endowment
  CapacitySessions, CapacityBatch, ProviderSessions, ProviderBatch
                                                   \* the probes

VARIABLES
  part,
  completed, baseline, receipts, smoke, late, held,
  height, bank, moves, sent, landed, file, run,
  phase, batch, stage, boxes, sessions, ledger, meters, known, created, todo, looked, receipt

toolVars == <<signer, making, saved, manifest, mode, fresh, low>>
proofVars == <<completed, baseline, receipts, smoke, late, held>>
endowVars == <<height, bank, moves, sent, landed, file, run>>
probeVars == <<phase, batch, stage, boxes, sessions, ledger, meters, known, created, todo, looked, receipt>>
all == <<vars, proofVars, endowVars, probeVars, part>>

\* One asset of each command; the observation is paid by the attestor.
OneLegacy == <<"kox">>
OneAdded == <<"aapl">>
OneCatalog == <<"kox">>
ToolSteps == {<<"fund", "authorities">>}
             \cup {"mint", "policy", "observe", "series"} \X {"kox", "aapl"}
Observations == {"observe"} \X {"kox", "aapl"}
ToolCost == [s \in ToolSteps |-> CASE s[1] = "fund" -> 3 [] s[1] = "observe" -> 0 [] OTHER -> 2]
ToolFee == [s \in ToolSteps |-> IF s[1] = "observe" THEN 0 ELSE 1]

\* The holder pays for everything after its funding.
ProofAssets == {Catalog[i] : i \in DOMAIN Catalog}
ProofSteps == {<<"fund", "holder">>} \cup {"atas", "mint", "deposit", "recombine"} \X ProofAssets
ProofCost == [s \in ProofSteps |-> IF s[1] = "fund" THEN HolderCost ELSE 0]
ProofFee == [s \in ProofSteps |-> IF s[1] = "fund" THEN HolderFee ELSE 0]

Proof == INSTANCE CatalogProof WITH
  Steps <- ProofSteps, Repeatable <- {}, Cost <- ProofCost, Fee <- ProofFee, MaxFaults <- ProofFaults

Endow == INSTANCE FaucetEndowment WITH Fee <- TransferFee

Capacity == INSTANCE ProviderProbes WITH
  Probe <- "capacity", Sessions <- CapacitySessions, BatchSize <- CapacityBatch, pc <- stage

Provider == INSTANCE ProviderProbes WITH
  Probe <- "provider", Sessions <- ProviderSessions, BatchSize <- ProviderBatch, pc <- stage

-----------------------------------------------------------------------------
(* The probes.  What a probe may still leave is known to the part of it    *)
(* that comes next: the loop, the names to clean up, or the evidence.      *)

ReceiptTyped(Visitors) ==
  receipt \in [status : {"started", "passed", "failed", "cleanup_failed"}, ready : SUBSET Visitors,
               uncertain : SUBSET Visitors, unread : BOOLEAN, retained : BOOLEAN]

\* A visitor whose sandbox was asked for has a session, and the ledger is there.
Asked(v) == stage[v] \in {"create", "fence", "poll", "confirm", "ready"}

\* The capacity probe notes each name before it asks for the sandbox; an
\* answered create is not carried out later, and what was seen is there.
CapacityKnows ==
  \A v \in Capacity!Visitors :
    /\ boxes[v] # "none" \/ (Asked(v) /\ stage[v] # "create") => v \in known
    /\ v \in created => boxes[v] # "coming" /\ stage[v] \notin {"wait", "create"}
    /\ v \in looked => boxes[v] \notin {"coming", "none"} /\ phase \notin {"run", "states", "ledger"}
    /\ phase \notin {"blobs", "done", "killed"} => (Asked(v) \/ sessions[v] # "none" => ledger)

\* While the loop runs a sandbox is still to be visited or named as uncertain;
\* after it, it is named, and the ledger kept.
CapacityLeaves ==
  \A v \in Capacity!Visitors : Capacity!Left(v) =>
    /\ phase = "boxes" => v \in todo \/ v \in receipt.uncertain
    /\ phase \in {"blobs", "done"} => v \in receipt.uncertain /\ (sessions[v] # "none" => ledger)

CapacityPasses ==
  phase \in {"blobs", "done"} /\ receipt.status = "passed" =>
    ~ ledger /\ \A v \in Capacity!Visitors : ~ Capacity!Left(v)

CapacityInv ==
  /\ Capacity!TypeOK /\ ReceiptTyped(Capacity!Visitors)
  /\ CapacityKnows /\ CapacityLeaves /\ CapacityPasses

\* The other probe passes where every sandbox was seen to run; its ledger names
\* them all, and each is then deleted or the probe fails.
ProviderKnows ==
  /\ \A v \in Provider!Visitors : Asked(v) \/ boxes[v] # "none" \/ v \in known => sessions[v] # "none"
  /\ phase = "boxes" => todo \subseteq known

ProviderPasses ==
  /\ phase \in {"run", "states"} => receipt.status = "started"
  /\ receipt.status = "passed" =>
       /\ \A v \in Provider!Visitors :
            /\ boxes[v] \notin {"none", "coming"}
            /\ phase = "ledger" => v \in todo \/ v \in known
            /\ phase = "boxes" /\ Provider!Left(v) => v \in todo
            /\ phase \in {"blobs", "done"} => ~ Provider!Left(v)
       /\ phase \in {"blobs", "done"} => ~ ledger

ProviderInv ==
  /\ Provider!TypeOK /\ ReceiptTyped(Provider!Visitors)
  /\ ProviderKnows /\ ProviderPasses

LEMMA ReceiptMoves ==
  ASSUME NEW V, ReceiptTyped(V),
         \/ UNCHANGED receipt
         \/ receipt' = [receipt EXCEPT !.unread = TRUE]
         \/ \E st \in {"passed", "failed", "cleanup_failed"} : receipt' = [receipt EXCEPT !.status = st]
         \/ receipt' = [receipt EXCEPT !.retained = TRUE, !.status = "cleanup_failed"]
  PROVE  ReceiptTyped(V)'
<1>1. CASE UNCHANGED receipt
  BY <1>1 DEF ReceiptTyped
<1>2. CASE receipt' = [receipt EXCEPT !.unread = TRUE]
  BY <1>2 DEF ReceiptTyped
<1>3. CASE \E st \in {"passed", "failed", "cleanup_failed"} : receipt' = [receipt EXCEPT !.status = st]
  BY <1>3 DEF ReceiptTyped
<1>4. CASE receipt' = [receipt EXCEPT !.retained = TRUE, !.status = "cleanup_failed"]
  BY <1>4 DEF ReceiptTyped
<1>. QED
  BY <1>1, <1>2, <1>3, <1>4

LEMMA CapacityStarts ==
  ASSUME Capacity!ProbeAssumption, Capacity!Init
  PROVE  CapacityInv
<1>1. 1 \in Capacity!Visitors
  BY DEF Capacity!ProbeAssumption, Capacity!Visitors
<1>2. Capacity!TypeOK /\ ReceiptTyped(Capacity!Visitors)
  BY <1>1 DEF Capacity!Init, Capacity!TypeOK, ReceiptTyped
<1>3. CapacityKnows
  BY DEF Capacity!Init, CapacityKnows, Asked
<1>4. CapacityLeaves /\ CapacityPasses
  BY DEF Capacity!Init, CapacityLeaves, CapacityPasses, Capacity!Left, Capacity!Live, Capacity!Ended
<1>. QED
  BY <1>2, <1>3, <1>4 DEF CapacityInv

LEMMA CapacityRuns ==
  ASSUME Capacity!ProbeAssumption, CapacityInv, NEW v \in Capacity!Visitors,
         Capacity!Reserve(v) \/ Capacity!Create(v) \/ Capacity!Launch(v) \/ Capacity!NotReady(v)
         \/ Capacity!Confirm(v) \/ Capacity!Poll(v) \/ Capacity!ProviderMoves(v)
  PROVE  CapacityInv'
<1>. USE DEF CapacityInv, Capacity!TypeOK, ReceiptTyped, CapacityKnows,
       CapacityLeaves, CapacityPasses, Capacity!Left, Capacity!Live, Capacity!Ended, Asked,
       Capacity!At, Capacity!Goes, Capacity!Becomes, Capacity!run
<1>1. CASE Capacity!Reserve(v)
  <2>1. Capacity!TypeOK'
    <3>1. /\ UNCHANGED <<phase, batch, boxes, meters, known, created, todo, looked, receipt>>
          /\ \E place \in {"create", "rejected"} : stage' = [stage EXCEPT ![v] = place]
          /\ sessions' \in {sessions, [sessions EXCEPT ![v] = "starting"]} /\ ledger' \in {TRUE, ledger}
      BY <1>1 DEF Capacity!Reserve
    <3>2. stage' \in [Capacity!Visitors -> {"wait", "create", "fence", "poll", "confirm", "ready", "rejected"}]
      BY <3>1
    <3>3. sessions' \in [Capacity!Visitors -> {"none", "starting", "ready", "failed"}]
      BY <3>1
    <3>. QED
      BY <3>1, <3>2, <3>3
  <2>2. ReceiptTyped(Capacity!Visitors)'
    BY <1>1 DEF Capacity!Reserve
  <2>3. CapacityKnows'
    BY <1>1 DEF Capacity!Reserve
  <2>4. CapacityLeaves'
    BY <1>1 DEF Capacity!Reserve
  <2>5. CapacityPasses'
    BY <1>1 DEF Capacity!Reserve
  <2>. QED
    BY <2>1, <2>2, <2>3, <2>4, <2>5
<1>2. CASE Capacity!Create(v)
  BY <1>2 DEF Capacity!Create
<1>3. CASE Capacity!Launch(v)
  <2>1. Capacity!TypeOK'
    BY <1>3 DEF Capacity!Launch
  <2>2. ReceiptTyped(Capacity!Visitors)'
    BY <1>3 DEF Capacity!Launch
  <2>3. CapacityKnows'
    <3>1. /\ UNCHANGED <<phase, batch, ledger, meters, known, created, todo, looked, receipt>> /\ phase = "run"
          /\ stage[v] = "fence" /\ \E place \in {"poll", "rejected"} : stage' = [stage EXCEPT ![v] = place]
          /\ sessions' \in {sessions, [sessions EXCEPT ![v] = "failed"]}
          /\ boxes' \in {boxes, [boxes EXCEPT ![v] = "deleted"]}
      BY <1>3 DEF Capacity!Launch
    <3>2. stage' \in [Capacity!Visitors -> {"wait", "create", "fence", "poll", "confirm", "ready", "rejected"}]
      BY <3>1
    <3>. QED
      BY <3>1
  <2>4. CapacityLeaves'
    BY <1>3 DEF Capacity!Launch
  <2>5. CapacityPasses'
    BY <1>3 DEF Capacity!Launch
  <2>. QED
    BY <2>1, <2>2, <2>3, <2>4, <2>5
<1>4. CASE Capacity!NotReady(v)
  BY <1>4 DEF Capacity!NotReady
<1>5. CASE Capacity!Confirm(v)
  BY <1>5 DEF Capacity!Confirm
<1>6. CASE Capacity!Poll(v)
  BY <1>6 DEF Capacity!Poll
<1>7. CASE Capacity!ProviderMoves(v)
  BY <1>7 DEF Capacity!ProviderMoves
<1>. QED
  BY <1>1, <1>2, <1>3, <1>4, <1>5, <1>6, <1>7

LEMMA CapacityCleans ==
  ASSUME Capacity!ProbeAssumption, CapacityInv, NEW v \in Capacity!Visitors,
         Capacity!LookUp(v) \/ Capacity!Look(v) \/ Capacity!StopAndDelete(v)
  PROVE  CapacityInv'
<1>. USE DEF CapacityInv, Capacity!TypeOK, ReceiptTyped, CapacityKnows,
       CapacityLeaves, CapacityPasses, Capacity!Left, Capacity!Live, Capacity!Ended, Asked,
       Capacity!run
<1>1. CASE Capacity!LookUp(v)
  <2>1. Capacity!TypeOK'
    BY <1>1 DEF Capacity!LookUp
  <2>2. ReceiptTyped(Capacity!Visitors)'
    BY <1>1, ReceiptMoves DEF Capacity!LookUp
  <2>3. CapacityKnows'
    BY <1>1 DEF Capacity!LookUp
  <2>4. CapacityLeaves'
    BY <1>1 DEF Capacity!LookUp
  <2>5. CapacityPasses'
    BY <1>1 DEF Capacity!LookUp
  <2>. QED
    BY <2>1, <2>2, <2>3, <2>4, <2>5
<1>2. CASE Capacity!Look(v)
  BY <1>2 DEF Capacity!Look, Capacity!MissingIsCertain, Capacity!Uncertain
<1>3. CASE Capacity!StopAndDelete(v)
  BY <1>3 DEF Capacity!StopAndDelete, Capacity!AfterFailure, Capacity!Uncertain
<1>. QED
  BY <1>1, <1>2, <1>3

LEMMA CapacityProceeds ==
  ASSUME Capacity!ProbeAssumption, CapacityInv,
         Capacity!EndBatch \/ Capacity!ReadStates \/ Capacity!ToBoxes \/ Capacity!ToBlobs
         \/ Capacity!Write \/ Capacity!Kill
  PROVE  CapacityInv'
<1>. USE DEF CapacityInv, Capacity!TypeOK, ReceiptTyped, CapacityKnows,
       CapacityLeaves, CapacityPasses, Capacity!Left, Capacity!Live, Capacity!Ended, Asked,
       Capacity!run
<1>1. CASE Capacity!EndBatch
  <2>1. Capacity!TypeOK'
    BY <1>1 DEF Capacity!EndBatch, Capacity!Finishes, Capacity!LastBatch, Capacity!ProbeAssumption, Capacity!Visitors
  <2>2. ReceiptTyped(Capacity!Visitors)'
    BY <1>1, ReceiptMoves DEF Capacity!EndBatch, Capacity!Finishes, Capacity!LastBatch, Capacity!ProbeAssumption, Capacity!Visitors
  <2>3. CapacityKnows'
    BY <1>1 DEF Capacity!EndBatch, Capacity!Finishes, Capacity!LastBatch, Capacity!ProbeAssumption, Capacity!Visitors
  <2>4. CapacityLeaves'
    BY <1>1 DEF Capacity!EndBatch, Capacity!Finishes, Capacity!LastBatch, Capacity!ProbeAssumption, Capacity!Visitors
  <2>5. CapacityPasses'
    BY <1>1 DEF Capacity!EndBatch, Capacity!Finishes, Capacity!LastBatch, Capacity!ProbeAssumption, Capacity!Visitors
  <2>. QED
    BY <2>1, <2>2, <2>3, <2>4, <2>5
<1>2. CASE Capacity!ReadStates
  BY <1>2 DEF Capacity!ReadStates, Capacity!Finishes
<1>3. CASE Capacity!ToBoxes
  BY <1>3 DEF Capacity!ToBoxes
<1>4. CASE Capacity!ToBlobs
  <2>1. Capacity!TypeOK'
    BY <1>4 DEF Capacity!ToBlobs, Capacity!Reconciled
  <2>2. ReceiptTyped(Capacity!Visitors)'
    <3>1. \/ UNCHANGED receipt
          \/ receipt' = [receipt EXCEPT !.retained = TRUE, !.status = "cleanup_failed"]
          \/ receipt' = [receipt EXCEPT !.status = "cleanup_failed"]
      BY <1>4 DEF Capacity!ToBlobs
    <3>. HIDE DEF ReceiptTyped
    <3>. QED
      BY <3>1, ReceiptMoves
  <2>3. CapacityKnows'
    BY <1>4 DEF Capacity!ToBlobs, Capacity!Reconciled
  <2>4. CapacityLeaves'
    BY <1>4 DEF Capacity!ToBlobs, Capacity!Reconciled
  <2>5. CapacityPasses'
    BY <1>4 DEF Capacity!ToBlobs, Capacity!Reconciled
  <2>. QED
    BY <2>1, <2>2, <2>3, <2>4, <2>5
<1>5. CASE Capacity!Write
  BY <1>5 DEF Capacity!Write
<1>6. CASE Capacity!Kill
  BY <1>6 DEF Capacity!Kill
<1>. QED
  BY <1>1, <1>2, <1>3, <1>4, <1>5, <1>6

LEMMA CapacityStep ==
  ASSUME Capacity!ProbeAssumption, CapacityInv, Capacity!Next
  PROVE  CapacityInv'
BY CapacityRuns, CapacityCleans, CapacityProceeds DEF Capacity!Next, Capacity!Step

LEMMA ProviderStarts ==
  ASSUME Provider!ProbeAssumption, Provider!Init
  PROVE  ProviderInv
<1>1. 1 \in Provider!Visitors
  BY DEF Provider!ProbeAssumption, Provider!Visitors
<1>2. Provider!TypeOK /\ ReceiptTyped(Provider!Visitors)
  BY <1>1 DEF Provider!Init, Provider!TypeOK, ReceiptTyped
<1>3. ProviderKnows
  BY DEF Provider!Init, ProviderKnows, Asked
<1>4. ProviderPasses
  BY DEF Provider!Init, ProviderPasses, Provider!Left, Provider!Live, Provider!Ended
<1>. QED
  BY <1>2, <1>3, <1>4 DEF ProviderInv

LEMMA ProviderRuns ==
  ASSUME Provider!ProbeAssumption, ProviderInv, NEW v \in Provider!Visitors,
         Provider!Reserve(v) \/ Provider!Create(v) \/ Provider!Launch(v) \/ Provider!NotReady(v)
         \/ Provider!Confirm(v) \/ Provider!Poll(v) \/ Provider!ProviderMoves(v)
  PROVE  ProviderInv'
<1>. USE DEF ProviderInv, Provider!TypeOK, ReceiptTyped, ProviderKnows,
       ProviderPasses, Provider!Left, Provider!Live, Provider!Ended, Asked,
       Provider!At, Provider!Goes, Provider!Becomes, Provider!run
<1>1. CASE Provider!Reserve(v)
  <2>1. Provider!TypeOK'
    <3>1. /\ UNCHANGED <<phase, batch, boxes, meters, known, created, todo, looked, receipt>>
          /\ \E place \in {"create", "rejected"} : stage' = [stage EXCEPT ![v] = place]
          /\ sessions' \in {sessions, [sessions EXCEPT ![v] = "starting"]} /\ ledger' \in {TRUE, ledger}
      BY <1>1 DEF Provider!Reserve
    <3>2. stage' \in [Provider!Visitors -> {"wait", "create", "fence", "poll", "confirm", "ready", "rejected"}]
      BY <3>1
    <3>3. sessions' \in [Provider!Visitors -> {"none", "starting", "ready", "failed"}]
      BY <3>1
    <3>. QED
      BY <3>1, <3>2, <3>3
  <2>2. ReceiptTyped(Provider!Visitors)'
    BY <1>1 DEF Provider!Reserve
  <2>3. ProviderKnows'
    BY <1>1 DEF Provider!Reserve
  <2>4. ProviderPasses'
    BY <1>1 DEF Provider!Reserve
  <2>. QED
    BY <2>1, <2>2, <2>3, <2>4
<1>2. CASE Provider!Create(v)
  BY <1>2 DEF Provider!Create
<1>3. CASE Provider!Launch(v)
  <2>1. Provider!TypeOK'
    BY <1>3 DEF Provider!Launch
  <2>2. ReceiptTyped(Provider!Visitors)'
    BY <1>3 DEF Provider!Launch
  <2>3. ProviderKnows'
    <3>1. /\ UNCHANGED <<phase, batch, ledger, meters, known, created, todo, looked, receipt>> /\ phase = "run"
          /\ stage[v] = "fence" /\ \E place \in {"poll", "rejected"} : stage' = [stage EXCEPT ![v] = place]
          /\ sessions' \in {sessions, [sessions EXCEPT ![v] = "failed"]}
          /\ boxes' \in {boxes, [boxes EXCEPT ![v] = "deleted"]}
      BY <1>3 DEF Provider!Launch
    <3>2. stage' \in [Provider!Visitors -> {"wait", "create", "fence", "poll", "confirm", "ready", "rejected"}]
      BY <3>1
    <3>. QED
      BY <3>1
  <2>4. ProviderPasses'
    BY <1>3 DEF Provider!Launch
  <2>. QED
    BY <2>1, <2>2, <2>3, <2>4
<1>4. CASE Provider!NotReady(v)
  BY <1>4 DEF Provider!NotReady
<1>5. CASE Provider!Confirm(v)
  BY <1>5 DEF Provider!Confirm
<1>6. CASE Provider!Poll(v)
  BY <1>6 DEF Provider!Poll
<1>7. CASE Provider!ProviderMoves(v)
  BY <1>7 DEF Provider!ProviderMoves
<1>. QED
  BY <1>1, <1>2, <1>3, <1>4, <1>5, <1>6, <1>7

LEMMA ProviderCleans ==
  ASSUME Provider!ProbeAssumption, ProviderInv, NEW v \in Provider!Visitors,
         Provider!LookUp(v) \/ Provider!Look(v) \/ Provider!StopAndDelete(v)
  PROVE  ProviderInv'
<1>. USE DEF ProviderInv, Provider!TypeOK, ReceiptTyped, ProviderKnows,
       ProviderPasses, Provider!Left, Provider!Live, Provider!Ended, Asked,
       Provider!run
<1>1. CASE Provider!LookUp(v)
  <2>1. Provider!TypeOK'
    BY <1>1 DEF Provider!LookUp
  <2>2. ReceiptTyped(Provider!Visitors)'
    BY <1>1, ReceiptMoves DEF Provider!LookUp
  <2>3. ProviderKnows'
    BY <1>1 DEF Provider!LookUp
  <2>4. ProviderPasses'
    BY <1>1 DEF Provider!LookUp
  <2>. QED
    BY <2>1, <2>2, <2>3, <2>4
<1>2. CASE Provider!Look(v)
  BY <1>2 DEF Provider!Look, Provider!MissingIsCertain, Provider!Uncertain
<1>3. CASE Provider!StopAndDelete(v)
  <2>0. /\ \E left \in Provider!Live \union Provider!Ended \union {"none", "coming", "deleted"} :
             boxes' = [boxes EXCEPT ![v] = left]
        /\ UNCHANGED <<phase, batch, stage, sessions, created, ledger, meters, known, looked>>
        /\ todo' = todo \ {v} /\ v \in todo
    BY <1>3 DEF Provider!StopAndDelete
  <2>1. Provider!TypeOK'
    <3>1. boxes' \in [Provider!Visitors -> Provider!Live \union Provider!Ended \union {"none", "coming", "deleted"}]
      BY <2>0
    <3>2. ReceiptTyped(Provider!Visitors)'
      BY <1>3, ReceiptMoves DEF Provider!StopAndDelete, Provider!AfterFailure
    <3>3. receipt'.status \in {"started", "passed", "failed", "cleanup_failed"}
      BY <3>2
    <3>. QED
      BY <2>0, <3>1, <3>3
  <2>2. ReceiptTyped(Provider!Visitors)'
    BY <1>3, ReceiptMoves DEF Provider!StopAndDelete, Provider!AfterFailure
  <2>3. ProviderKnows'
    BY <1>3, <2>0 DEF Provider!StopAndDelete
  <2>4. ProviderPasses'
    BY <1>3 DEF Provider!StopAndDelete, Provider!AfterFailure
  <2>. QED
    BY <2>1, <2>2, <2>3, <2>4
<1>. QED
  BY <1>1, <1>2, <1>3

LEMMA ProviderProceeds ==
  ASSUME Provider!ProbeAssumption, ProviderInv,
         Provider!EndBatch \/ Provider!ReadStates \/ Provider!ToBoxes \/ Provider!ToBlobs
         \/ Provider!Write \/ Provider!Kill
  PROVE  ProviderInv'
<1>. USE DEF ProviderInv, Provider!TypeOK, ReceiptTyped, ProviderKnows,
       ProviderPasses, Provider!Left, Provider!Live, Provider!Ended, Asked,
       Provider!run
<1>1. CASE Provider!EndBatch
  <2>1. Provider!TypeOK'
    BY <1>1 DEF Provider!EndBatch, Provider!Finishes, Provider!LastBatch, Provider!ProbeAssumption, Provider!Visitors
  <2>2. ReceiptTyped(Provider!Visitors)'
    BY <1>1, ReceiptMoves DEF Provider!EndBatch, Provider!Finishes, Provider!LastBatch, Provider!ProbeAssumption, Provider!Visitors
  <2>3. ProviderKnows'
    BY <1>1 DEF Provider!EndBatch, Provider!Finishes, Provider!LastBatch, Provider!ProbeAssumption, Provider!Visitors
  <2>4. ProviderPasses'
    BY <1>1 DEF Provider!EndBatch, Provider!Finishes, Provider!LastBatch, Provider!ProbeAssumption, Provider!Visitors
  <2>. QED
    BY <2>1, <2>2, <2>3, <2>4
<1>2. CASE Provider!ReadStates
  BY <1>2 DEF Provider!ReadStates, Provider!Finishes
<1>3. CASE Provider!ToBoxes
  BY <1>3 DEF Provider!ToBoxes
<1>4. CASE Provider!ToBlobs
  <2>1. Provider!TypeOK'
    BY <1>4 DEF Provider!ToBlobs, Provider!Reconciled
  <2>2. ReceiptTyped(Provider!Visitors)'
    BY <1>4 DEF Provider!ToBlobs, Provider!Reconciled
  <2>3. ProviderKnows'
    BY <1>4 DEF Provider!ToBlobs, Provider!Reconciled
  <2>4. ProviderPasses'
    BY <1>4 DEF Provider!ToBlobs, Provider!Reconciled
  <2>. QED
    BY <2>1, <2>2, <2>3, <2>4
<1>5. CASE Provider!Write
  BY <1>5 DEF Provider!Write
<1>6. CASE Provider!Kill
  BY <1>6 DEF Provider!Kill
<1>. QED
  BY <1>1, <1>2, <1>3, <1>4, <1>5, <1>6

LEMMA ProviderStep ==
  ASSUME Provider!ProbeAssumption, ProviderInv, Provider!Next
  PROVE  ProviderInv'
BY ProviderRuns, ProviderCleans, ProviderProceeds DEF Provider!Next, Provider!Step

LEMMA ProbesSay ==
  /\ CapacityInv => Capacity!TypeOK /\ Capacity!PassedIsClean /\ Capacity!LeftIsNamed
  /\ ProviderInv => Provider!PassedIsClean
BY DEF CapacityInv, CapacityLeaves, CapacityPasses, ProviderInv, ProviderPasses,
       Capacity!PassedIsClean, Capacity!LeftIsNamed, Provider!PassedIsClean

-----------------------------------------------------------------------------
(* The endowment.  The private file is the one place a transaction is sent *)
(* from: whoever holds an attempt after the file was written holds the     *)
(* file's, and whoever prepared another can only fail to write it.         *)

Preparing == {"start", "balances", "sign", "simulate", "open"}
Working == {"status", "height", "send", "poll", "expiry", "final", "details", "receipt"}

Attempts ==
  [id : Runs \cup {None}, amount : 0..Target, before : Endow!Balances \cup {None}, lastValid : Nat]
Landings == [height : Nat, ok : BOOLEAN, before : Endow!Balances, after : Endow!Balances]

RunTyped(x) ==
  /\ x = [pc |-> x.pc, attempt |-> x.attempt, best |-> x.best, receipt |-> x.receipt]
  /\ x.pc \in Preparing \cup {"write", "done", "killed"} \cup Working
  /\ x.attempt \in Attempts

EndowTyped ==
  /\ height \in 0..MaxHeight /\ moves \in Nat /\ bank \in Endow!Balances
  /\ sent \subseteq Runs /\ landed \in [Runs -> {None} \cup Landings]
  /\ file.state \in {"absent", "torn", "whole"} /\ file = [state |-> file.state, attempt |-> file.attempt]
  /\ file.attempt \in Attempts
  /\ run = [r \in Runs |-> run[r]] /\ \A r \in Runs : RunTyped(run[r])

\* What a run holds at its place.
Carries(r, p, a) ==
  /\ p \in {"simulate", "open", "write"} => a.id = r
  /\ p = "write" => file.state = "torn"
  /\ p \in Working => file.state = "whole" /\ a = file.attempt

\* The file is created by one run and filled by it; its attempt is that run's,
\* and everybody's who goes on from it.
OneFile ==
  /\ \A r \in Runs : Carries(r, run[r].pc, run[r].attempt)
  /\ \A r, q \in Runs : run[r].pc = "write" /\ run[q].pc = "write" => r = q
  /\ file.state = "whole" =>
       LET o == file.attempt.id
       IN  o \in Runs /\ run[o].attempt = file.attempt /\ run[o].pc \notin Preparing \cup {"write"}

\* What landed was sent, and what was sent is the file's.
LandedIsFiled ==
  /\ \A r \in sent : file.state = "whole" /\ r = file.attempt.id
  /\ \A r \in Runs : landed[r] # None => r \in sent

\* What a run may conclude from what it saw.
Lapsed == landed[file.attempt.id] = None /\ height > file.attempt.lastValid
Succeeded == landed[file.attempt.id] # None /\ landed[file.attempt.id].ok

Concludes(p, best) ==
  /\ p \in {"poll", "expiry", "final"} => best \in {"pending", "confirmed"}
  /\ p \in Preparing \cup {"write", "status", "height", "send"} => best = "pending"
  /\ p = "final" => height > file.attempt.lastValid
  /\ p = "details" => best \in {"confirmed", "finalized"}
  /\ p = "receipt" => best \in {"pending", "failed", "expired"}
  /\ p \in Working /\ best \in {"confirmed", "finalized"} => Succeeded
  /\ p \in Working /\ best = "expired" => Lapsed

\* A receipt is about the file's transaction and says what the chain keeps.
SaysTrue(rc) ==
  /\ rc.status \in {"confirmed", "finalized"} =>
       /\ file.state = "whole" /\ rc.id = file.attempt.id /\ Succeeded
       /\ rc.after = landed[file.attempt.id].after /\ rc.after.faucet = Target
  /\ rc.status = "expired" => file.state = "whole" /\ rc.id = file.attempt.id /\ Lapsed

Sound == \A r \in Runs : Concludes(run[r].pc, run[r].best) /\ SaysTrue(run[r].receipt)

EndowInv == EndowTyped /\ OneFile /\ LandedIsFiled /\ Sound

\* Run r stands at p with attempt a, best status b and receipt rc.
Stands(r, p, a, b, rc) ==
  /\ run'[r] = [pc |-> p, attempt |-> a, best |-> b, receipt |-> rc]
  /\ run' = [q \in Runs |-> run'[q]] /\ \A q \in Runs : q # r => run'[q] = run[q]

LEMMA EndowStarts ==
  ASSUME Endow!EndowmentAssumption, Endow!Init
  PROVE  EndowInv
<1>1. Endow!NoAttempt \in Attempts
  BY DEF Endow!NoAttempt, Attempts, Endow!EndowmentAssumption
<1>2. \A r \in Runs : run[r] = Endow!Rest
  BY DEF Endow!Init
<1>3. RunTyped(Endow!Rest)
  BY <1>1 DEF RunTyped, Endow!Rest, Preparing
<1>4. EndowTyped
  <2>1. bank \in Endow!Balances /\ height \in 0..MaxHeight /\ moves \in Nat
    BY DEF Endow!Init, Endow!Balances, Endow!EndowmentAssumption
  <2>2. file = Endow!NoFile /\ file.state = "absent" /\ file.attempt \in Attempts
    BY <1>1 DEF Endow!Init, Endow!NoFile
  <2>. QED
    BY <1>2, <1>3, <2>1, <2>2 DEF Endow!Init, EndowTyped, Endow!NoFile
<1>5. OneFile
  BY <1>2 DEF OneFile, Carries, Endow!Rest, Endow!Init, Endow!NoFile, Working
<1>6. LandedIsFiled
  BY DEF LandedIsFiled, Endow!Init
<1>7. Sound
  BY <1>2 DEF Sound, Concludes, SaysTrue, Endow!Rest, Endow!NoReceipt, Working
<1>. QED
  BY <1>4, <1>5, <1>6, <1>7 DEF EndowInv

\* A run moves on: the chain and the file stay.
LEMMA RunMoves ==
  ASSUME EndowInv, NEW r \in Runs, NEW p, NEW a, NEW b, NEW rc, Stands(r, p, a, b, rc),
         UNCHANGED <<Endow!chain, file>>,
         p \in Preparing \cup {"done", "killed"} \cup Working, a \in Attempts,
         run[r].pc \in Preparing \/ (a = run[r].attempt /\ p \notin Preparing),
         Carries(r, p, a), Concludes(p, b), SaysTrue(rc)
  PROVE  EndowInv'
<1>. DEFINE x == [pc |-> p, attempt |-> a, best |-> b, receipt |-> rc]
<1>1. /\ run'[r] = x /\ (\A q \in Runs : q # r => run'[q] = run[q]) /\ run' = [q \in Runs |-> run'[q]]
      /\ UNCHANGED <<height, bank, moves, sent, landed, file>>
  BY DEF EndowInv, EndowTyped, Stands, Endow!chain
<1>2. RunTyped(x)
  BY DEF RunTyped
<1>3. EndowTyped'
  BY <1>1, <1>2 DEF EndowInv, EndowTyped, RunTyped
<1>4. OneFile'
  <2>1. \A q \in Runs : Carries(q, run[q].pc, run[q].attempt)'
    BY <1>1 DEF EndowInv, OneFile, Carries
  <2>2. p # "write"
    BY DEF Preparing, Working
  <2>3. ASSUME file.state = "whole"
        PROVE  LET o == file.attempt.id
               IN  o \in Runs /\ run'[o].attempt = file.attempt /\ run'[o].pc \notin Preparing \cup {"write"}
    BY <1>1, <2>2, <2>3 DEF EndowInv, OneFile
  <2>. QED
    BY <1>1, <2>1, <2>2, <2>3 DEF EndowInv, OneFile
<1>5. LandedIsFiled'
  BY <1>1 DEF EndowInv, LandedIsFiled
<1>6. Sound'
  BY <1>1 DEF EndowInv, Sound, Concludes, SaysTrue, Lapsed, Succeeded
<1>. QED
  BY <1>3, <1>4, <1>5, <1>6 DEF EndowInv

LEMMA AttemptOfBalances ==
  ASSUME NEW x \in Attempts, NEW i, NEW j, NEW y, y = [x EXCEPT !.before = i, !.amount = j]
  PROVE  y = [id |-> x.id, amount |-> j, before |-> i, lastValid |-> x.lastValid]
BY DEF Attempts

LEMMA AttemptSigned ==
  ASSUME NEW x \in Attempts, NEW i, NEW j, NEW y, y = [x EXCEPT !.id = i, !.lastValid = j]
  PROVE  y = [id |-> i, amount |-> x.amount, before |-> x.before, lastValid |-> j]
BY DEF Attempts

\* The steps of a run that leave the chain and the file alone.
LEMMA RunLocal ==
  ASSUME Endow!EndowmentAssumption, EndowInv, NEW r \in Runs,
         \/ Endow!ReadAttempt(r) \/ Endow!ReadBalances(r) \/ Endow!Sign(r) \/ Endow!Simulate(r)
         \/ Endow!InitialStatus(r) \/ Endow!StillValid(r) \/ Endow!Poll(r) \/ Endow!PollHeight(r)
         \/ Endow!FinalStatus(r) \/ Endow!DeadlinePasses(r) \/ Endow!Details(r) \/ Endow!WriteReceipt(r)
         \/ Endow!CallFails(r) \/ Endow!Killed(r)
  PROVE  EndowInv'
<1>. DEFINE a == run[r].attempt  b == run[r].best  rc == run[r].receipt
            P == Preparing \cup {"done", "killed"} \cup Working
<1>0. /\ RunTyped(run[r]) /\ a \in Attempts /\ Carries(r, run[r].pc, a) /\ Concludes(run[r].pc, b) /\ SaysTrue(rc)
      /\ EndowTyped
  BY DEF EndowInv, EndowTyped, RunTyped, OneFile, Sound
<1>. HIDE DEF a, b, rc
<1>1. \A p : Endow!Goto(r, p) => Stands(r, p, a, b, rc)
  BY <1>0 DEF Endow!Goto, Stands, EndowTyped, RunTyped, a, b, rc
<1>2. \A c : Endow!Ends(r, c) => Stands(r, "done", a, b, c)
  BY <1>0 DEF Endow!Ends, Stands, EndowTyped, RunTyped, a, b, rc
<1>3. \A c : c.status \notin {"confirmed", "finalized", "expired"} => SaysTrue(c)
  BY DEF SaysTrue
<1>4. Endow!Fails(r) => \E c : SaysTrue(c) /\ Stands(r, "done", a, b, c)
  <2>. DEFINE c == [status |-> "failed", id |-> None]
  <2>1. SaysTrue(c)
    BY <1>3
  <2>. QED
    BY <1>2, <2>1 DEF Endow!Fails
\* A step to a place p, over which the run keeps what it holds.
<1>5. ASSUME NEW p \in P, NEW q, NEW c, Stands(r, p, a, q, c), UNCHANGED <<Endow!chain, file>>,
             run[r].pc \in Preparing \/ p \notin Preparing,
             Carries(r, p, a), Concludes(p, q), SaysTrue(c)
      PROVE  EndowInv'
  BY <1>0, <1>5, RunMoves DEF a
<1>6. \A p \in {"done", "killed"} : \A q : Carries(r, p, a) /\ Concludes(p, q)
  BY DEF Carries, Concludes, Preparing, Working
<1>7. UNCHANGED <<Endow!chain, file>>
  BY DEF Endow!ReadAttempt, Endow!ReadBalances, Endow!Sign, Endow!Simulate, Endow!InitialStatus,
         Endow!StillValid, Endow!Poll, Endow!PollHeight, Endow!FinalStatus, Endow!DeadlinePasses,
         Endow!Details, Endow!WriteReceipt, Endow!CallFails, Endow!Killed
<1>8. ASSUME Endow!Fails(r) PROVE EndowInv'
  BY <1>4, <1>5, <1>6, <1>7, <1>8 DEF Preparing
<1>9. CASE Endow!ReadAttempt(r)
  <2>1. run[r].pc = "start" /\ b = "pending"
    BY <1>0, <1>9 DEF Endow!ReadAttempt, Endow!At, Concludes, Preparing, b
  <2>2. CASE file.state = "absent"
    <3>1. Stands(r, "balances", a, b, rc)
      BY <1>1, <1>9, <2>2 DEF Endow!ReadAttempt
    <3>2. Carries(r, "balances", a) /\ Concludes("balances", b)
      BY <2>1 DEF Carries, Concludes, Preparing, Working
    <3>. QED
      BY <1>0, <1>5, <1>7, <2>1, <3>1, <3>2 DEF Preparing
  <2>3. CASE file.state = "torn"
    BY <1>8, <1>9, <2>3 DEF Endow!ReadAttempt
  <2>4. CASE file.state = "whole"
    <3>1. Stands(r, "status", file.attempt, b, rc)
      BY <1>0, <1>9, <2>4 DEF Endow!ReadAttempt, Stands, EndowTyped, RunTyped, b, rc
    <3>2. Carries(r, "status", file.attempt) /\ Concludes("status", b)
      BY <2>1, <2>4 DEF Carries, Concludes, Preparing, Working
    <3>3. file.attempt \in Attempts /\ run[r].pc \in Preparing /\ "status" \in Working
      BY <1>0, <2>1 DEF EndowTyped, Preparing, Working
    <3>. QED
      BY <1>0, <1>7, <3>1, <3>2, <3>3, RunMoves
  <2>. QED
    BY <1>0, <2>2, <2>3, <2>4 DEF EndowTyped
<1>10. CASE Endow!ReadBalances(r)
  <2>1. run[r].pc = "balances" /\ b = "pending" /\ bank \in Endow!Balances
    BY <1>0, <1>10 DEF Endow!ReadBalances, Endow!At, Concludes, Preparing, EndowTyped, b
  <2>2. CASE bank.faucet >= Target
    <3>. DEFINE c == Endow!Receipt("not-needed", r)
    <3>1. Stands(r, "done", a, b, c)
      BY <1>2, <1>10, <2>2 DEF Endow!ReadBalances
    <3>2. SaysTrue(c)
      BY <1>3 DEF Endow!Receipt
    <3>. QED
      BY <1>5, <1>6, <1>7, <3>1, <3>2 DEF Preparing
  <2>3. CASE ~ (bank.faucet >= Target)
    <3>. DEFINE n == [run[r].attempt EXCEPT !.before = bank, !.amount = Target - bank.faucet]
    <3>1. Stands(r, "sign", n, b, rc)
      <4>1. run' = [run EXCEPT ![r].pc = "sign", ![r].attempt.before = bank, ![r].attempt.amount = Target - bank.faucet]
        BY <1>10, <2>3 DEF Endow!ReadBalances
      <4>2. run'[r].pc = "sign" /\ run'[r].best = b /\ run'[r].receipt = rc /\ RunTyped(run[r])
        BY <1>0, <4>1 DEF EndowTyped, RunTyped, b, rc
      <4>3. run'[r] = [pc |-> run'[r].pc, attempt |-> run'[r].attempt, best |-> run'[r].best, receipt |-> run'[r].receipt]
        BY <1>0, <4>1 DEF EndowTyped, RunTyped
      <4>4. run'[r].attempt = n
        BY <1>0, <4>1 DEF EndowTyped, RunTyped
      <4>. QED
        BY <1>0, <4>1, <4>2, <4>3, <4>4 DEF Stands, EndowTyped
    <3>2. n \in Attempts
      <4>1. Target - bank.faucet \in 0..Target /\ bank \in Endow!Balances \cup {None}
        BY <2>1, <2>3 DEF Endow!Balances, Endow!EndowmentAssumption
      <4>2. n = [id |-> a.id, amount |-> Target - bank.faucet, before |-> bank, lastValid |-> a.lastValid]
        <5>1. PICK m : m = Target - bank.faucet
          OBVIOUS
        <5>2. PICK y : y = [a EXCEPT !.before = bank, !.amount = m]
          OBVIOUS
        <5>3. y = [id |-> a.id, amount |-> m, before |-> bank, lastValid |-> a.lastValid]
          BY <1>0, <5>2, AttemptOfBalances
        <5>. QED
          BY <5>1, <5>2, <5>3 DEF a
      <4>3. a.id \in Runs \cup {None} /\ a.lastValid \in Nat
        BY <1>0 DEF Attempts
      <4>. HIDE DEF n
      <4>. QED
        BY <4>1, <4>2, <4>3 DEF Attempts
    <3>3. Carries(r, "sign", n) /\ Concludes("sign", b)
      BY <2>1 DEF Carries, Concludes, Preparing, Working
    <3>4. run[r].pc \in Preparing /\ "sign" \in Preparing
      BY <2>1 DEF Preparing
    <3>. QED
      BY <1>0, <1>7, <3>1, <3>2, <3>3, <3>4, RunMoves
  <2>. QED
    BY <2>2, <2>3
<1>11. CASE Endow!Sign(r)
  <2>. DEFINE n == [run[r].attempt EXCEPT !.id = r, !.lastValid = height + Validity]
  <2>1. run[r].pc = "sign" /\ b = "pending" /\ height \in Nat
    BY <1>0, <1>11 DEF Endow!Sign, Endow!At, Concludes, Preparing, EndowTyped, b
  <2>2. Stands(r, "simulate", n, b, rc)
    BY <1>0, <1>11 DEF Endow!Sign, Stands, EndowTyped, RunTyped, b, rc
  <2>3. n \in Attempts
    <3>1. n = [id |-> r, amount |-> a.amount, before |-> a.before, lastValid |-> height + Validity]
      BY <1>0, AttemptSigned DEF a
    <3>2. a.amount \in 0..Target /\ a.before \in Endow!Balances \cup {None}
      BY <1>0 DEF Attempts
    <3>3. height + Validity \in Nat
      BY <2>1 DEF Endow!EndowmentAssumption
    <3>. HIDE DEF n
    <3>. QED
      BY <3>1, <3>2, <3>3 DEF Attempts
  <2>4. n.id = r
    BY <1>0 DEF Attempts, a
  <2>5. Carries(r, "simulate", n) /\ Concludes("simulate", b)
    BY <2>1, <2>4 DEF Carries, Concludes, Preparing, Working
  <2>6. run[r].pc \in Preparing /\ "simulate" \in Preparing
    BY <2>1 DEF Preparing
  <2>. QED
    BY <1>0, <1>7, <2>2, <2>3, <2>5, <2>6, RunMoves
<1>12. CASE Endow!Simulate(r)
  <2>1. run[r].pc = "simulate" /\ b = "pending" /\ run[r].pc \in Preparing
    BY <1>0, <1>12 DEF Endow!Simulate, Endow!At, Concludes, Preparing, b
  <2>2. ASSUME Endow!Goto(r, "open") PROVE EndowInv'
    <3>1. Carries(r, "open", a) /\ Concludes("open", b) /\ "open" \in Preparing
      BY <1>0, <2>1 DEF Carries, Concludes, Preparing, Working
    <3>. QED
      BY <1>0, <1>1, <1>5, <1>7, <2>1, <2>2, <3>1
  <2>. QED
    BY <1>8, <1>12, <2>2 DEF Endow!Simulate
\* The places after the file was read or written.
<1>13. ASSUME run[r].pc \in Working
       PROVE  /\ file.state = "whole" /\ a = file.attempt /\ a.id \in Runs
              /\ \A p \in Working : Carries(r, p, a)
              /\ run[r].pc \notin Preparing
  BY <1>0, <1>13 DEF Carries, Working, Preparing, EndowInv, OneFile
<1>14. ASSUME NEW p \in Working, NEW q, NEW c, Stands(r, p, a, q, c), run[r].pc \in Working,
              Concludes(p, q), SaysTrue(c)
       PROVE  EndowInv'
  <2>1. p \in P /\ p \notin Preparing
    BY <1>14 DEF Working, Preparing
  <2>. HIDE DEF P
  <2>. QED
    BY <1>5, <1>7, <1>13, <1>14, <2>1
<1>15. CASE Endow!InitialStatus(r) \/ Endow!StillValid(r)
  <2>1. run[r].pc \in {"status", "height"} /\ \E p \in {"height", "poll", "send"} : Endow!Goto(r, p)
    BY <1>15 DEF Endow!InitialStatus, Endow!StillValid, Endow!At
  <2>2. b = "pending" /\ run[r].pc \in Working
    BY <1>0, <2>1 DEF Concludes, Working, b
  <2>3. \A p \in {"height", "poll", "send"} : p \in Working /\ Concludes(p, b)
    BY <2>2 DEF Concludes, Working, Preparing
  <2>. QED
    BY <1>0, <1>1, <1>14, <2>1, <2>2, <2>3
<1>16. ASSUME run[r].pc \in Working
       PROVE  /\ Endow!Statuses(a) \subseteq {"null", "processed", "error", "confirmed", "finalized"}
              /\ Endow!Statuses(a) \cap {"confirmed", "finalized"} # {} => Succeeded
              /\ Endow!Statuses(a) \cap {"null", "processed"} # {} => landed[file.attempt.id] = None
              /\ height > file.attempt.lastValid => "processed" \notin Endow!Statuses(a)
  <2>1. a = file.attempt
    BY <1>13, <1>16
  <2>2. height \in Nat /\ file.attempt.lastValid \in Nat
    BY <1>0 DEF EndowTyped, Attempts
  <2>. QED
    BY <2>1, <2>2 DEF Endow!Statuses, Succeeded
<1>17. CASE Endow!Poll(r)
  <2>1. run[r].pc = "poll" /\ run[r].pc \in Working /\ b \in {"pending", "confirmed"}
    BY <1>0, <1>17 DEF Endow!Poll, Endow!At, Working, Concludes, b
  <2>2. PICK s \in Endow!Statuses(a) :
          run' = CASE s = "error" -> [run EXCEPT ![r].pc = "receipt", ![r].best = "failed"]
                   [] s = "finalized" -> [run EXCEPT ![r].pc = "details", ![r].best = s]
                   [] s = "confirmed" -> [run EXCEPT ![r].best = s]
                   [] s = "processed" -> run
                   [] s = "null" -> [run EXCEPT ![r].pc = "expiry"]
    BY <1>17 DEF Endow!Poll, a
  <2>3. s \in {"null", "processed", "error", "confirmed", "finalized"} /\ (s \in {"confirmed", "finalized"} => Succeeded)
    BY <1>16, <2>1
  <2>4. CASE s = "error"
    <3>1. Stands(r, "receipt", a, "failed", rc)
      BY <1>0, <2>2, <2>4 DEF Stands, EndowTyped, RunTyped, a, rc
    <3>2. Concludes("receipt", "failed") /\ "receipt" \in Working
      BY DEF Concludes, Working, Preparing
    <3>. QED
      BY <1>0, <1>14, <2>1, <3>1, <3>2
  <2>5. CASE s = "finalized"
    <3>1. Stands(r, "details", a, s, rc)
      BY <1>0, <2>2, <2>5 DEF Stands, EndowTyped, RunTyped, a, rc
    <3>2. Concludes("details", s) /\ "details" \in Working
      BY <2>3, <2>5 DEF Concludes, Working, Preparing
    <3>. QED
      BY <1>0, <1>14, <2>1, <3>1, <3>2
  <2>6. CASE s = "confirmed"
    <3>1. Stands(r, "poll", a, s, rc)
      BY <1>0, <2>1, <2>2, <2>6 DEF Stands, EndowTyped, RunTyped, a, rc
    <3>2. Concludes("poll", s) /\ "poll" \in Working
      BY <2>3, <2>6 DEF Concludes, Working, Preparing
    <3>. QED
      BY <1>0, <1>14, <2>1, <3>1, <3>2
  <2>7. CASE s = "processed"
    <3>1. Stands(r, "poll", a, b, rc)
      BY <1>0, <2>1, <2>2, <2>7 DEF Stands, EndowTyped, RunTyped, a, b, rc
    <3>. QED
      BY <1>0, <1>14, <2>1, <3>1
  <2>8. CASE s = "null"
    <3>1. Stands(r, "expiry", a, b, rc)
      BY <1>0, <2>2, <2>8 DEF Stands, EndowTyped, RunTyped, a, b, rc
    <3>2. Concludes("expiry", b) /\ "expiry" \in Working
      BY <1>0, <2>1 DEF Concludes, Working, Preparing, b
    <3>. QED
      BY <1>0, <1>14, <2>1, <3>1, <3>2
  <2>. QED
    BY <2>3, <2>4, <2>5, <2>6, <2>7, <2>8
<1>18. CASE Endow!PollHeight(r)
  <2>1. run[r].pc = "expiry" /\ run[r].pc \in Working /\ b \in {"pending", "confirmed"}
    BY <1>0, <1>18 DEF Endow!PollHeight, Endow!At, Working, Concludes, b
  <2>2. PICK p \in {"final", "poll"} : Endow!Goto(r, p) /\ (p = "final" => height > a.lastValid)
    BY <1>18 DEF Endow!PollHeight, a
  <2>3. Concludes(p, b) /\ p \in Working
    BY <1>0, <1>13, <2>1, <2>2 DEF Concludes, Working, Preparing, b
  <2>. QED
    BY <1>0, <1>1, <1>14, <2>1, <2>2, <2>3
<1>19. CASE Endow!FinalStatus(r)
  <2>1. run[r].pc = "final" /\ run[r].pc \in Working /\ height > file.attempt.lastValid
    BY <1>0, <1>19 DEF Endow!FinalStatus, Endow!At, Working, Concludes
  <2>2. PICK s \in Endow!Statuses(a) :
          LET v == Endow!FinalVerdict(r, s)
          IN  run' = [run EXCEPT ![r].best = v,
                        ![r].pc = IF v \in {"confirmed", "finalized"} THEN "details" ELSE "receipt"]
    BY <1>19 DEF Endow!FinalStatus, a
  <2>3. /\ s \in {"null", "error", "confirmed", "finalized"} /\ (s \in {"confirmed", "finalized"} => Succeeded)
        /\ s = "null" => Lapsed
    BY <1>16, <2>1 DEF Lapsed
  <2>4. PICK v \in {"confirmed", "finalized", "failed", "expired"} :
          /\ v = Endow!FinalVerdict(r, s) /\ (v \in {"confirmed", "finalized"} => Succeeded)
          /\ v = "expired" => Lapsed
    BY <2>3 DEF Endow!FinalVerdict
  <2>5. PICK p \in {"details", "receipt"} : /\ p = IF v \in {"confirmed", "finalized"} THEN "details" ELSE "receipt"
                                            /\ Stands(r, p, a, v, rc)
    <3>. DEFINE p == IF v \in {"confirmed", "finalized"} THEN "details" ELSE "receipt"
    <3>1. run' = [run EXCEPT ![r].best = v, ![r].pc = p]
      BY <2>2, <2>4
    <3>2. p \in {"details", "receipt"}
      OBVIOUS
    <3>. HIDE DEF p
    <3>3. Stands(r, p, a, v, rc)
      BY <1>0, <3>1 DEF Stands, EndowTyped, RunTyped, a, rc
    <3>. QED
      BY <3>2, <3>3 DEF p
  <2>6. Concludes(p, v) /\ p \in Working
    BY <2>4, <2>5 DEF Concludes, Working, Preparing
  <2>. QED
    BY <1>0, <1>14, <2>1, <2>5, <2>6
<1>20. CASE Endow!DeadlinePasses(r)
  <2>1. run[r].pc = "poll" /\ run[r].pc \in Working /\ b \in {"pending", "confirmed"}
    BY <1>0, <1>20 DEF Endow!DeadlinePasses, Endow!At, Working, Concludes, b
  <2>2. PICK p \in {"details", "receipt"} : Endow!Goto(r, p) /\ (p = "details" <=> b = "confirmed")
    BY <1>20 DEF Endow!DeadlinePasses, b
  <2>3. Concludes(p, b) /\ p \in Working
    BY <1>0, <2>1, <2>2 DEF Concludes, Working, Preparing, b
  <2>. QED
    BY <1>0, <1>1, <1>14, <2>1, <2>2, <2>3
<1>21. CASE Endow!Details(r)
  <2>1. run[r].pc = "details" /\ run[r].pc \in Working /\ b \in {"confirmed", "finalized"} /\ Succeeded
    BY <1>0, <1>21 DEF Endow!Details, Endow!At, Working, Concludes, b
  <2>. DEFINE x == landed[a.id]  c == [status |-> b, id |-> a.id, after |-> x.after]
  <2>2. CASE Endow!DetailsExact(a, x)
    <3>1. Stands(r, "done", a, b, c)
      BY <1>2, <1>21, <2>2 DEF Endow!Details, a, b
    <3>2. SaysTrue(c)
      BY <1>13, <2>1, <2>2 DEF SaysTrue, Endow!DetailsExact
    <3>. QED
      BY <1>5, <1>6, <1>7, <3>1, <3>2 DEF Preparing
  <2>3. CASE ~ Endow!DetailsExact(a, x)
    BY <1>8, <1>21, <2>3 DEF Endow!Details, a
  <2>. QED
    BY <2>2, <2>3
<1>22. CASE Endow!WriteReceipt(r)
  <2>1. run[r].pc = "receipt" /\ run[r].pc \in Working /\ b \in {"pending", "failed", "expired"} /\ (b = "expired" => Lapsed)
    BY <1>0, <1>22 DEF Endow!WriteReceipt, Endow!At, Working, Concludes, b
  <2>. DEFINE c == Endow!Receipt(b, r)
  <2>2. Stands(r, "done", a, b, c)
    BY <1>2, <1>22 DEF Endow!WriteReceipt, b
  <2>3. SaysTrue(c)
    BY <1>13, <2>1 DEF SaysTrue, Endow!Receipt, a
  <2>. QED
    BY <1>5, <1>6, <1>7, <2>2, <2>3 DEF Preparing
<1>23. CASE Endow!CallFails(r)
  BY <1>8, <1>23 DEF Endow!CallFails
<1>24. CASE Endow!Killed(r)
  <2>1. Stands(r, "killed", a, b, rc)
    BY <1>1, <1>24 DEF Endow!Killed
  <2>. QED
    BY <1>0, <1>5, <1>6, <1>7, <2>1 DEF Preparing
<1>. QED
  BY <1>9, <1>10, <1>11, <1>12, <1>15, <1>17, <1>18, <1>19, <1>20, <1>21, <1>22, <1>23, <1>24

\* The file is created, and filled.
LEMMA FileMoves ==
  ASSUME Endow!EndowmentAssumption, EndowInv, NEW r \in Runs, Endow!OpenExclusive(r) \/ Endow!WriteAttempt(r)
  PROVE  EndowInv'
<1>0. /\ RunTyped(run[r]) /\ EndowTyped /\ OneFile /\ LandedIsFiled /\ Sound
      /\ Carries(r, run[r].pc, run[r].attempt) /\ Concludes(run[r].pc, run[r].best)
  BY DEF EndowInv, EndowTyped, OneFile, Sound
<1>1. \A p : Endow!Goto(r, p) => Stands(r, p, run[r].attempt, run[r].best, run[r].receipt)
  BY <1>0 DEF Endow!Goto, Stands, EndowTyped, RunTyped
<1>2. CASE Endow!OpenExclusive(r) /\ file.state # "absent"
  <2>. DEFINE c == [status |-> "failed", id |-> None]
  <2>1. run[r].pc = "open" /\ UNCHANGED <<Endow!chain, file>> /\ Endow!Fails(r)
    BY <1>2 DEF Endow!OpenExclusive, Endow!At
  <2>2. Stands(r, "done", run[r].attempt, run[r].best, c)
    BY <1>0, <2>1 DEF Endow!Fails, Endow!Ends, Stands, EndowTyped, RunTyped
  <2>3. Carries(r, "done", run[r].attempt) /\ Concludes("done", run[r].best) /\ SaysTrue(c)
    BY DEF Carries, Concludes, SaysTrue, Preparing, Working
  <2>4. run[r].attempt \in Attempts /\ run[r].pc \in Preparing
    BY <1>0, <2>1 DEF RunTyped, Preparing
  <2>. QED
    BY <2>1, <2>2, <2>3, <2>4, RunMoves
<1>3. CASE Endow!OpenExclusive(r) /\ file.state = "absent"
  <2>1. /\ run[r].pc = "open" /\ UNCHANGED <<height, bank, moves, sent, landed>> /\ Endow!Goto(r, "write")
        /\ file' = [file EXCEPT !.state = "torn"]
    BY <1>3 DEF Endow!OpenExclusive, Endow!At, Endow!chain
  <2>2. /\ Stands(r, "write", run[r].attempt, run[r].best, run[r].receipt) /\ r = run[r].attempt.id
        /\ run[r].best = "pending"
    BY <1>0, <1>1, <2>1 DEF Carries, Concludes, Preparing
  <2>3. file'.state = "torn" /\ file'.attempt = file.attempt /\ file' = [state |-> "torn", attempt |-> file.attempt]
    BY <1>0, <2>1 DEF EndowTyped
  <2>4. EndowTyped'
    <3>1. RunTyped(run'[r])
      BY <1>0, <2>2 DEF Stands, RunTyped
    <3>. QED
      BY <1>0, <2>1, <2>2, <2>3, <3>1 DEF Stands, EndowTyped, RunTyped
  <2>5. \A q \in Runs : run[q].pc \notin Working \cup {"write"}
    BY <1>0, <1>3 DEF OneFile, Carries
  <2>6. OneFile'
    <3>1. \A q \in Runs : Carries(q, run[q].pc, run[q].attempt)'
      BY <1>0, <2>2, <2>3, <2>5 DEF OneFile, Carries, Stands, Working
    <3>. QED
      BY <2>2, <2>3, <2>5, <3>1 DEF OneFile, Stands
  <2>7. sent = {} /\ LandedIsFiled'
    BY <1>0, <1>3, <2>1 DEF LandedIsFiled
  <2>8. Sound'
    <3>1. \A q \in Runs : SaysTrue(run[q].receipt)'
      BY <1>0, <1>3, <2>2, <2>1 DEF Sound, SaysTrue, Stands
    <3>2. \A q \in Runs : Concludes(run[q].pc, run[q].best)'
      BY <1>0, <2>2, <2>5, <2>1 DEF Sound, Concludes, Stands, Working, Preparing
    <3>. QED
      BY <3>1, <3>2 DEF Sound
  <2>. QED
    BY <2>4, <2>6, <2>7, <2>8 DEF EndowInv
<1>4. CASE Endow!WriteAttempt(r)
  <2>1. /\ run[r].pc = "write" /\ UNCHANGED <<height, bank, moves, sent, landed>> /\ Endow!Goto(r, "status")
        /\ file' = [state |-> "whole", attempt |-> run[r].attempt]
    BY <1>4 DEF Endow!WriteAttempt, Endow!At, Endow!chain
  <2>2. /\ Stands(r, "status", run[r].attempt, run[r].best, run[r].receipt) /\ r = run[r].attempt.id
        /\ run[r].best = "pending" /\ file.state = "torn"
    BY <1>0, <1>1, <2>1 DEF Carries, Concludes, Preparing
  <2>3. file'.state = "whole" /\ file'.attempt = run[r].attempt
    BY <2>1
  <2>4. EndowTyped'
    <3>1. RunTyped(run'[r])
      BY <1>0, <2>2 DEF Stands, RunTyped, Working
    <3>. QED
      BY <1>0, <2>1, <2>2, <2>3, <3>1 DEF Stands, EndowTyped, RunTyped
  <2>5. \A q \in Runs : run[q].pc \notin Working /\ (q # r => run[q].pc # "write")
    BY <1>0, <2>1, <2>2 DEF OneFile, Carries
  <2>6. OneFile'
    <3>1. \A q \in Runs : Carries(q, run[q].pc, run[q].attempt)'
      BY <1>0, <2>2, <2>3, <2>5 DEF OneFile, Carries, Stands, Working
    <3>2. \A q \in Runs : run'[q].pc # "write"
      BY <2>2, <2>5 DEF Stands
    <3>3. run'[r].attempt = file'.attempt /\ run'[r].pc \notin Preparing \cup {"write"}
      BY <2>2, <2>3 DEF Stands, Preparing
    <3>. QED
      BY <2>2, <2>3, <3>1, <3>2, <3>3 DEF OneFile
  <2>7. LandedIsFiled'
    BY <1>0, <2>1, <2>2 DEF LandedIsFiled
  <2>8. Sound'
    <3>1. \A q \in Runs : run'[q].receipt.status \notin {"confirmed", "finalized", "expired"}
      BY <1>0, <2>2 DEF Sound, SaysTrue, Stands
    <3>2. \A q \in Runs : Concludes(run[q].pc, run[q].best)'
      BY <1>0, <2>2, <2>5, <2>1 DEF Sound, Concludes, Stands, Working, Preparing
    <3>. QED
      <4>1. \A q \in Runs : SaysTrue(run[q].receipt)'
        BY <3>1 DEF SaysTrue
      <4>. QED
        BY <3>2, <4>1 DEF Sound
  <2>. QED
    BY <2>4, <2>6, <2>7, <2>8 DEF EndowInv
<1>. QED
  BY <1>2, <1>3, <1>4

\* The transaction is given to a node.
LEMMA SendMoves ==
  ASSUME EndowInv, NEW r \in Runs, Endow!Send(r)
  PROVE  EndowInv'
<1>0. /\ RunTyped(run[r]) /\ EndowTyped /\ OneFile /\ LandedIsFiled /\ Sound /\ run[r].pc = "send"
      /\ Carries(r, run[r].pc, run[r].attempt) /\ Concludes(run[r].pc, run[r].best)
  BY DEF EndowInv, EndowTyped, OneFile, Sound, Endow!Send, Endow!At
<1>1. /\ UNCHANGED <<height, bank, moves, landed, file>> /\ Endow!Goto(r, "poll")
      /\ sent' = sent \cup {run[r].attempt.id} \/ UNCHANGED sent
  BY DEF Endow!Send
<1>2. Stands(r, "poll", run[r].attempt, run[r].best, run[r].receipt) /\ run[r].best = "pending"
  BY <1>0, <1>1 DEF Endow!Goto, Stands, EndowTyped, RunTyped, Concludes
<1>3. /\ file.state = "whole" /\ run[r].attempt = file.attempt /\ file.attempt.id \in Runs
  BY <1>0 DEF Carries, Working, OneFile
<1>4. EndowTyped'
  <2>1. RunTyped(run'[r])
    BY <1>0, <1>2 DEF Stands, RunTyped, Working
  <2>. QED
    BY <1>0, <1>1, <1>2, <1>3, <2>1 DEF Stands, EndowTyped, RunTyped
<1>5. OneFile'
  <2>1. \A q \in Runs : Carries(q, run[q].pc, run[q].attempt)'
    BY <1>0, <1>1, <1>2, <1>3 DEF OneFile, Carries, Stands, Working
  <2>2. /\ run'[file.attempt.id].attempt = file.attempt
        /\ run'[file.attempt.id].pc \notin Preparing \cup {"write"}
    BY <1>0, <1>2, <1>3 DEF OneFile, Stands, Preparing
  <2>. QED
    BY <1>0, <1>1, <1>2, <1>3, <2>1, <2>2 DEF OneFile, Stands
<1>6. LandedIsFiled'
  BY <1>0, <1>1, <1>3 DEF LandedIsFiled
<1>7. Sound'
  BY <1>0, <1>1, <1>2 DEF Sound, SaysTrue, Concludes, Lapsed, Succeeded, Stands, Working, Preparing
<1>. QED
  BY <1>4, <1>5, <1>6, <1>7 DEF EndowInv

\* A block, or a stranger's move.
LEMMA ChainMoves ==
  ASSUME Endow!EndowmentAssumption, EndowInv, (\E r \in Runs : Endow!Block(r)) \/ Endow!Move
  PROVE  EndowInv'
<1>0. EndowTyped /\ OneFile /\ LandedIsFiled /\ Sound /\ UNCHANGED <<sent, file, run>>
  BY DEF EndowInv, Endow!Block, Endow!Move
<1>1. OneFile'
  BY <1>0 DEF OneFile, Carries
\* What happens to the chain.
<1>2. /\ height' \in 0..MaxHeight /\ height' >= height /\ moves' \in Nat /\ bank' \in Endow!Balances
      /\ \/ UNCHANGED landed
         \/ \E r \in sent, x \in Landings : /\ landed[r] = None /\ landed' = [landed EXCEPT ![r] = x]
                                            /\ height < run[r].attempt.lastValid
  <2>1. CASE Endow!Move
    <3>1. height' = height /\ landed' = landed /\ moves' \in Nat /\ height \in 0..MaxHeight /\ height <= height
      BY <1>0, <2>1 DEF Endow!Move, EndowTyped
    <3>2. bank \in Endow!Balances
      BY <1>0 DEF EndowTyped
    <3>3. bank' \in Endow!Balances
      BY <2>1, <3>2 DEF Endow!Move, Endow!Balances
    <3>. QED
      BY <3>1, <3>3
  <2>2. ASSUME NEW r \in Runs, Endow!Block(r)
        PROVE  /\ height' \in 0..MaxHeight /\ height' >= height /\ moves' \in Nat /\ bank' \in Endow!Balances
               /\ \/ UNCHANGED landed
                  \/ \E q \in sent, y \in Landings : /\ landed[q] = None /\ landed' = [landed EXCEPT ![q] = y]
                                                     /\ height < run[q].attempt.lastValid
    <3>1. height < MaxHeight /\ height' = height + 1 /\ UNCHANGED moves /\ height \in 0..MaxHeight /\ MaxHeight \in Nat
      BY <1>0, <2>2 DEF Endow!Block, EndowTyped, Endow!EndowmentAssumption
    <3>2. CASE UNCHANGED <<bank, landed>>
      BY <1>0, <3>1, <3>2 DEF EndowTyped
    <3>3. CASE ~ UNCHANGED <<bank, landed>>
      <4>. DEFINE ok == bank.admin >= run[r].attempt.amount + TransferFee
                  paid == IF ok THEN run[r].attempt.amount ELSE 0
                  x == [height |-> height', ok |-> ok, before |-> bank, after |-> bank']
      <4>1. /\ r \in sent /\ landed[r] = None /\ height' <= run[r].attempt.lastValid /\ bank.admin >= TransferFee
            /\ bank' = [faucet |-> bank.faucet + paid, admin |-> bank.admin - paid - TransferFee]
            /\ landed' = [landed EXCEPT ![r] = x]
        BY <2>2, <3>3 DEF Endow!Block, Endow!Signed
      <4>2. /\ run[r].attempt.amount \in Nat /\ run[r].attempt.lastValid \in Nat /\ bank \in Endow!Balances
            /\ TransferFee \in Nat
        BY <1>0 DEF EndowTyped, RunTyped, Attempts, Endow!EndowmentAssumption
      <4>3. bank' \in Endow!Balances
        BY <4>1, <4>2 DEF Endow!Balances
      <4>4. x \in Landings
        BY <3>1, <4>2, <4>3 DEF Landings
      <4>5. height < run[r].attempt.lastValid
        BY <3>1, <4>1, <4>2
      <4>6. height' \in 0..MaxHeight /\ height' >= height /\ moves' \in Nat
        BY <1>0, <3>1 DEF EndowTyped
      <4>. HIDE DEF x
      <4>. QED
        BY <4>1, <4>3, <4>4, <4>5, <4>6
    <3>. QED
      BY <3>2, <3>3
  <2>. QED
    BY <1>0, <2>1, <2>2
<1>3. EndowTyped'
  BY <1>0, <1>2 DEF EndowTyped, RunTyped
<1>4. LandedIsFiled'
  BY <1>0, <1>2 DEF LandedIsFiled, EndowTyped
\* Only the file's transaction lands, once, and not after its last block.
<1>5. /\ Lapsed => Lapsed'
      /\ Succeeded => Succeeded' /\ landed'[file.attempt.id] = landed[file.attempt.id]
      /\ height > file.attempt.lastValid => height' > file.attempt.lastValid
  <2>0. height \in Nat /\ height' \in Nat /\ file.attempt.lastValid \in Nat
    BY <1>0, <1>2 DEF EndowTyped, Attempts
  <2>1. CASE UNCHANGED landed
    BY <1>0, <1>2, <2>0, <2>1 DEF Lapsed, Succeeded
  <2>2. CASE ~ UNCHANGED landed
    <3>1. PICK r \in sent : landed[r] = None /\ height < run[r].attempt.lastValid
      BY <1>2, <2>2
    <3>2. r = file.attempt.id /\ run[r].attempt = file.attempt
      BY <1>0, <3>1 DEF LandedIsFiled, OneFile
    <3>. QED
      BY <1>2, <2>0, <3>1, <3>2 DEF Lapsed, Succeeded
  <2>. QED
    BY <2>1, <2>2
<1>6. ASSUME NEW r \in Runs PROVE (Concludes(run[r].pc, run[r].best) /\ SaysTrue(run[r].receipt))'
  <2>1. Concludes(run[r].pc, run[r].best) /\ SaysTrue(run[r].receipt)
    BY <1>0 DEF Sound
  <2>2. Concludes(run[r].pc, run[r].best)'
    BY <1>0, <1>5, <2>1 DEF Concludes
  <2>3. SaysTrue(run[r].receipt)'
    BY <1>0, <1>5, <2>1 DEF SaysTrue
  <2>. QED
    BY <2>2, <2>3
<1>. QED
  BY <1>1, <1>3, <1>4, <1>6 DEF EndowInv, Sound

LEMMA EndowStep ==
  ASSUME Endow!EndowmentAssumption, EndowInv, Endow!Next
  PROVE  EndowInv'
<1>1. ASSUME NEW r \in Runs, Endow!RunSteps(r) \/ Endow!DeadlinePasses(r) \/ Endow!CallFails(r) \/ Endow!Killed(r)
      PROVE  EndowInv'
  BY <1>1, RunLocal, FileMoves, SendMoves DEF Endow!RunSteps
<1>. QED
  BY <1>1, ChainMoves DEF Endow!Next

\* What the invariant says.
LEMMA EndowSays ==
  ASSUME Endow!EndowmentAssumption, EndowInv
  PROVE  /\ Endow!TypeOK /\ Endow!PaidAtMostOnce /\ Endow!SentIsRecorded
         /\ Endow!ReceiptIsTrue /\ Endow!ExpiredNeverPays
<1>1. Endow!TypeOK
  BY DEF EndowInv, EndowTyped, RunTyped, Attempts, Endow!Balances, Endow!TypeOK
<1>2. Endow!PaidAtMostOnce /\ Endow!SentIsRecorded
  BY DEF EndowInv, LandedIsFiled, Endow!PaidAtMostOnce, Endow!SentIsRecorded, Endow!Recorded
<1>3. Endow!ReceiptIsTrue
  BY DEF EndowInv, Sound, SaysTrue, Succeeded, Endow!ReceiptIsTrue
<1>4. Endow!ExpiredNeverPays
  BY DEF EndowInv, Sound, SaysTrue, Lapsed, OneFile, Endow!ExpiredNeverPays, Endow!Signed
<1>. QED
  BY <1>1, <1>2, <1>3, <1>4

-----------------------------------------------------------------------------
(* The holder proof.  The engine's lemmas hold of its steps as they do of  *)
(* the registry tool's.  A run comes to a position over steps that the     *)
(* journal names as completed, or of assets whose receipts are out.        *)

Eng == INSTANCE OperatorProofs WITH
  Steps <- ProofSteps, Repeatable <- {}, Cost <- ProofCost, Fee <- ProofFee, MaxFaults <- ProofFaults

InEngine == InStep \cup {"check"}
ProofFund == <<"fund", "holder">>

\* A step that is marked completed was confirmed.
Completions ==
  \A s \in ProofSteps : completed[s] # 0 =>
    completed[s] \in DOMAIN tx /\ tx[completed[s]].step = s /\ Confirmed(tx[completed[s]])

Earned(a) == \A k \in {"mint", "deposit", "recombine"} : completed[<<k, a>>] # 0

\* Where a run stands, and over what.
Standing ==
  /\ pc \in {"idle", "state"} \cup InEngine
  /\ pc \in InEngine => /\ at <= Len(Proof!Plan) /\ Proof!Step \in ProofSteps
                        /\ Eng!AtPlace(Proof!Step) /\ Eng!AtSign(Proof!Step)
  /\ pc # "idle" => \A j \in 1..(at - 1) :
       Proof!Plan[j] \in ProofSteps => completed[Proof!Plan[j]] # 0 \/ Proof!Plan[j][2] \in receipts

\* An asset that is being worked on has no receipt: only its first phase skips it.
InsideAsset ==
  /\ pc \in InEngine => Proof!Step[2] \notin receipts
  /\ pc = "state" /\ at <= Len(Proof!Plan) /\ Proof!Step[1] # "atas" => Proof!Step[2] \notin receipts

\* The admin pays for one funding: while one can still be paid for, the ceiling
\* has room for it.
FundingFits ==
  /\ -balance <= AdminCeiling
  /\ \A t \in DOMAIN tx : tx[t].step = ProofFund /\ tx[t].status \in {"signed", "sent"} =>
       HolderCost - balance <= AdminCeiling

CatalogEngine == Eng!JournalNames /\ Eng!Journaled /\ Eng!Superseded

CatalogInv ==
  /\ Proof!TypeOK /\ smoke = [pc |-> smoke.pc, before |-> smoke.before]
  /\ CatalogEngine /\ Completions /\ Standing /\ InsideAsset /\ FundingFits
  /\ \A a \in receipts : Earned(a)

PhaseSet == {"atas", "baseline", "mint", "deposit", "recombine", "receipt"}

\* What the plan is made of: the funding, then for each asset its six phases.
LEMMA CatalogPlan ==
  ASSUME Proof!CatalogAssumption
  PROVE  LET P == Proof!Plan  n == 6 * Len(Catalog) IN
         /\ Len(Catalog) \in Nat /\ DOMAIN P = 1..(n + 1) /\ Len(P) = n + 1 /\ n \in Nat
         /\ P[1] = ProofFund
         /\ \A i \in 1..n : /\ P[i + 1] = <<Proof!Phases[1 + ((i - 1) % 6)], Catalog[1 + ((i - 1) \div 6)]>>
                            /\ Catalog[1 + ((i - 1) \div 6)] \in ProofAssets
                            /\ (i - 1) % 6 \in 0..5
<1>. DEFINE n == 6 * Len(Catalog)
            B == [i \in 1..n |-> <<Proof!Phases[1 + ((i - 1) % 6)], Catalog[1 + ((i - 1) \div 6)]>>]
            S == {B[i] : i \in 1..n}
<1>1. Catalog \in Seq(ProofAssets) /\ Len(Catalog) \in Nat /\ DOMAIN Catalog = 1..Len(Catalog) /\ n \in Nat
  BY DEF Proof!CatalogAssumption, Proof!Assets, ProofAssets
<1>2. \A i \in 1..n : (i - 1) % 6 \in 0..5 /\ 1 + ((i - 1) \div 6) \in 1..Len(Catalog)
  BY <1>1
<1>3. \A i \in 1..n : Catalog[1 + ((i - 1) \div 6)] \in ProofAssets
  BY <1>1, <1>2 DEF ProofAssets
<1>4. Proof!Plan = <<ProofFund>> \o B
  BY DEF Proof!Plan, Proof!FundHolder, ProofFund
<1>5. B \in [1..n -> S]
  OBVIOUS
<1>6. B \in Seq(S) /\ Len(B) = n /\ DOMAIN B = 1..n /\ \A i \in 1..n : B[i] = <<Proof!Phases[1 + ((i - 1) % 6)], Catalog[1 + ((i - 1) \div 6)]>>
  <2>1. \A i \in 1..n : B[i] = <<Proof!Phases[1 + ((i - 1) % 6)], Catalog[1 + ((i - 1) \div 6)]>>
    OBVIOUS
  <2>. HIDE DEF B, S, n
  <2>2. B \in Seq(S) /\ Len(B) = n /\ DOMAIN B = 1..n
    BY <1>1, <1>5
  <2>. QED
    BY <2>1, <2>2
<1>. HIDE DEF B, S, n
<1>7. /\ DOMAIN (<<ProofFund>> \o B) = 1..(n + 1) /\ Len(<<ProofFund>> \o B) = n + 1
      /\ (<<ProofFund>> \o B)[1] = ProofFund /\ \A i \in 1..n : (<<ProofFund>> \o B)[i + 1] = B[i]
  BY <1>1, <1>6
<1>. QED
  BY <1>1, <1>2, <1>3, <1>4, <1>6, <1>7 DEF n

LEMMA PhasesFact ==
  ASSUME NEW r \in 0..5
  PROVE  /\ r = 0 <=> Proof!Phases[1 + r] = "atas"
         /\ r = 1 <=> Proof!Phases[1 + r] = "baseline"
         /\ r = 2 <=> Proof!Phases[1 + r] = "mint"
         /\ r = 3 <=> Proof!Phases[1 + r] = "deposit"
         /\ r = 4 <=> Proof!Phases[1 + r] = "recombine"
         /\ r = 5 <=> Proof!Phases[1 + r] = "receipt"
<1>1. /\ Proof!Phases[1] = "atas" /\ Proof!Phases[2] = "baseline" /\ Proof!Phases[3] = "mint"
      /\ Proof!Phases[4] = "deposit" /\ Proof!Phases[5] = "recombine" /\ Proof!Phases[6] = "receipt"
  BY DEF Proof!Phases
<1>2. \/ r = 0 /\ 1 + r = 1
      \/ r = 1 /\ 1 + r = 2
      \/ r = 2 /\ 1 + r = 3
      \/ r = 3 /\ 1 + r = 4
      \/ r = 4 /\ 1 + r = 5
      \/ r = 5 /\ 1 + r = 6
  OBVIOUS
<1>. QED
  BY <1>1, <1>2

\* The position of the phase of number r of the asset of number q.
LEMMA PlaceFact ==
  ASSUME Proof!CatalogAssumption, NEW q \in Nat, NEW r \in 0..5, NEW p, p = 6 * q + r + 2,
         p <= 6 * Len(Catalog) + 1
  PROVE  LET P == Proof!Plan IN
         /\ P[p] = <<Proof!Phases[1 + r], Catalog[1 + q]>>
         /\ Catalog[1 + q] \in ProofAssets /\ p \in 2..Len(P)
         /\ 6 * q + 7 <= Len(P)
<1>. DEFINE i == p - 1  n == 6 * Len(Catalog)
<1>0. Len(Catalog) \in Nat /\ n \in Nat /\ i \in 1..n /\ Len(Proof!Plan) = n + 1
  BY CatalogPlan
<1>1. (i - 1) % 6 = r /\ (i - 1) \div 6 = q /\ i + 1 = p /\ 6 * q + 7 <= n + 1
  BY <1>0
<1>. HIDE DEF i, n
<1>2. Proof!Plan[i + 1] = <<Proof!Phases[1 + ((i - 1) % 6)], Catalog[1 + ((i - 1) \div 6)]>>
      /\ Catalog[1 + ((i - 1) \div 6)] \in ProofAssets
  BY <1>0, CatalogPlan DEF n
<1>. QED
  BY <1>0, <1>1, <1>2

\* Every position is the funding's or one of those.
LEMMA PlaceOf ==
  ASSUME Proof!CatalogAssumption, NEW i \in 2..Len(Proof!Plan)
  PROVE  \E q \in Nat, r \in 0..5 : i = 6 * q + r + 2 /\ 6 * q + r + 1 <= 6 * Len(Catalog)
<1>1. Len(Proof!Plan) = 6 * Len(Catalog) + 1 /\ Len(Catalog) \in Nat
  BY CatalogPlan
<1>. DEFINE q == (i - 2) \div 6  r == (i - 2) % 6
<1>2. q \in Nat /\ r \in 0..5 /\ i = 6 * q + r + 2 /\ 6 * q + r + 1 <= 6 * Len(Catalog)
  BY <1>1
<1>. QED
  BY <1>2

\* What the proof needs to know of a position.
LEMMA PlanPlaces ==
  ASSUME Proof!CatalogAssumption, NEW i \in 1..Len(Proof!Plan)
  PROVE  LET P == Proof!Plan IN
         /\ \/ i = 1 /\ P[i] = ProofFund
            \/ i # 1 /\ P[i][1] \in PhaseSet /\ P[i][2] \in ProofAssets /\ P[i] = <<P[i][1], P[i][2]>>
         /\ P[i] \in ProofSteps <=> P[i][1] \notin {"baseline", "receipt"}
         /\ P[i][1] = "atas" => i + 6 <= Len(P) + 1 /\ \A j \in i..(i + 5) : P[j][2] = P[i][2]
         /\ (P[i][1] = "atas" /\ i + 6 <= Len(P)) => P[i + 6][1] = "atas"
         /\ i + 1 <= Len(P) /\ P[i + 1][1] # "atas" => P[i + 1][2] = P[i][2] /\ P[i][1] # "receipt"
         /\ P[i][1] = "receipt" => \A k \in {"mint", "deposit", "recombine"} :
                                     \E j \in 1..(i - 1) : P[j] = <<k, P[i][2]>>
<1>. DEFINE P == Proof!Plan
<1>0. Len(P) = 6 * Len(Catalog) + 1 /\ Len(Catalog) \in Nat /\ P[1] = ProofFund
  BY CatalogPlan
<1>1. CASE i = 1
  <2>1. ASSUME 2 <= Len(P) PROVE P[2][1] = "atas"
    <3>1. 1 <= Len(Catalog)
      BY <1>0, <2>1
    <3>2. PICK q \in Nat, r \in 0..5 : q = 0 /\ r = 0 /\ 2 = 6 * q + r + 2 /\ 2 <= 6 * Len(Catalog) + 1
      BY <1>0, <3>1
    <3>3. P[2] = <<Proof!Phases[1 + r], Catalog[1 + q]>>
      BY <3>2, PlaceFact
    <3>. QED
      BY <3>2, <3>3, PhasesFact
  <2>2. ProofFund \in ProofSteps /\ ProofFund[1] = "fund"
    BY DEF ProofFund, ProofSteps
  <2>. QED
    BY <1>0, <1>1, <2>1, <2>2
<1>2. CASE i # 1
  <2>1. PICK q \in Nat, r \in 0..5 : i = 6 * q + r + 2 /\ 6 * q + r + 1 <= 6 * Len(Catalog)
    BY <1>2, PlaceOf
  <2>2. ASSUME NEW d \in 0..5, NEW j, j = 6 * q + d + 2
        PROVE  P[j] = <<Proof!Phases[1 + d], Catalog[1 + q]>> /\ Catalog[1 + q] \in ProofAssets
    <3>1. j <= 6 * Len(Catalog) + 1
      BY <1>0, <2>1, <2>2
    <3>. QED
      BY <2>2, <3>1, PlaceFact
  <2>3. Proof!Phases[1 + r] \in PhaseSet /\ P[i] = <<Proof!Phases[1 + r], Catalog[1 + q]>> /\ Catalog[1 + q] \in ProofAssets
    <3>1. r = 0 \/ r = 1 \/ r = 2 \/ r = 3 \/ r = 4 \/ r = 5
      OBVIOUS
    <3>2. Proof!Phases[1 + r] \in PhaseSet
      BY <3>1, PhasesFact DEF PhaseSet
    <3>. QED
      BY <2>1, <2>2, <3>2
  <2>4. P[i] \in ProofSteps <=> P[i][1] \notin {"baseline", "receipt"}
    BY <2>3 DEF ProofSteps, PhaseSet
  <2>5. /\ P[i][1] = "atas" <=> r = 0
        /\ P[i][1] = "receipt" <=> r = 5
    <3>1. r = 0 \/ r = 1 \/ r = 2 \/ r = 3 \/ r = 4 \/ r = 5
      OBVIOUS
    <3>. QED
      BY <2>3, <3>1, PhasesFact
  <2>6. ASSUME P[i][1] = "atas" PROVE i + 6 <= Len(P) + 1 /\ \A j \in i..(i + 5) : P[j][2] = P[i][2]
    <3>1. r = 0 /\ i = 6 * q + 2 /\ i + 6 <= Len(P) + 1
      BY <1>0, <2>1, <2>5, <2>6
    <3>2. ASSUME NEW j \in i..(i + 5) PROVE P[j][2] = P[i][2]
      <4>1. j - i \in 0..5 /\ j = 6 * q + (j - i) + 2
        BY <3>1
      <4>2. P[j] = <<Proof!Phases[1 + (j - i)], Catalog[1 + q]>>
        BY <2>2, <4>1
      <4>. QED
        BY <2>3, <4>1, <4>2
    <3>. QED
      BY <3>1, <3>2
  <2>7. ASSUME P[i][1] = "atas", i + 6 <= Len(P) PROVE P[i + 6][1] = "atas"
    <3>1. PICK u \in Nat, v \in 0..5, j \in Nat :
            u = q + 1 /\ v = 0 /\ j = i + 6 /\ j = 6 * u + v + 2 /\ j <= 6 * Len(Catalog) + 1
      BY <1>0, <2>1, <2>5, <2>7
    <3>2. P[j] = <<Proof!Phases[1 + v], Catalog[1 + u]>>
      BY <3>1, PlaceFact
    <3>. QED
      BY <3>1, <3>2, PhasesFact
  <2>8. ASSUME i + 1 <= Len(P), P[i + 1][1] # "atas" PROVE P[i + 1][2] = P[i][2] /\ P[i][1] # "receipt"
    <3>1. CASE r = 5
      <4>1. PICK u \in Nat, v \in 0..5, j \in Nat :
              u = q + 1 /\ v = 0 /\ j = i + 1 /\ j = 6 * u + v + 2 /\ j <= 6 * Len(Catalog) + 1
        BY <1>0, <2>1, <2>8, <3>1
      <4>2. P[j] = <<Proof!Phases[1 + v], Catalog[1 + u]>>
        BY <4>1, PlaceFact
      <4>. QED
        BY <2>8, <4>1, <4>2, PhasesFact
    <3>2. CASE r # 5
      <4>1. r + 1 \in 0..5 /\ i + 1 = 6 * q + (r + 1) + 2
        BY <2>1, <3>2
      <4>2. P[i + 1] = <<Proof!Phases[1 + (r + 1)], Catalog[1 + q]>>
        BY <2>2, <4>1
      <4>. QED
        BY <2>3, <2>5, <3>2, <4>1, <4>2
    <3>. QED
      BY <3>1, <3>2
  <2>9. ASSUME P[i][1] = "receipt", NEW k \in {"mint", "deposit", "recombine"}
        PROVE  \E j \in 1..(i - 1) : P[j] = <<k, P[i][2]>>
    <3>1. r = 5
      BY <2>5, <2>9
    <3>2. PICK d \in 2..4 : Proof!Phases[1 + d] = k
      <4>1. \E d \in 2..4 : d \in 0..5 /\ ((k = "mint" /\ d = 2) \/ (k = "deposit" /\ d = 3) \/ (k = "recombine" /\ d = 4))
        OBVIOUS
      <4>. QED
        BY <4>1, PhasesFact
    <3>3. PICK j \in 1..(i - 1) : j = 6 * q + d + 2 /\ d \in 0..5
      BY <2>1, <3>1
    <3>4. P[j] = <<Proof!Phases[1 + d], Catalog[1 + q]>>
      BY <2>2, <3>3
    <3>5. P[i][2] = Catalog[1 + q]
      BY <2>3
    <3>. QED
      BY <3>2, <3>3, <3>4, <3>5
  <2>. QED
    BY <1>2, <2>3, <2>4, <2>6, <2>7, <2>8, <2>9
<1>. QED
  BY <1>1, <1>2

\* The engine under the proof's names is the engine.
LEMMA SameTypes ==
  /\ Proof!EngineTypeOK <=> Eng!EngineTypeOK
  /\ Proof!ResumableAssumption <=> Eng!ResumableAssumption
BY DEF Proof!EngineTypeOK, Eng!EngineTypeOK, Proof!Statuses, Eng!Statuses,
       Proof!ResumableAssumption, Eng!ResumableAssumption

LEMMA SameActions ==
  ASSUME NEW s, NEW done, NEW simulates, NEW initial, NEW maxSpend
  PROVE  /\ Proof!CheckStep(s, done) => Eng!CheckStep(s, done)
         /\ Proof!ReadStatus(s, done) => Eng!ReadStatus(s, done)
         /\ Proof!ReadHeight(s) => Eng!ReadHeight(s)
         /\ Proof!ReadFinalStatus(s, done) => Eng!ReadFinalStatus(s, done)
         /\ Proof!Resend(s) => Eng!Resend(s)
         /\ Proof!Recheck(s, done) => Eng!Recheck(s, done)
         /\ Proof!Sign(s, simulates, initial, maxSpend) => Eng!Sign(s, simulates, initial, maxSpend)
         /\ Proof!Send(s) => Eng!Send(s)
         /\ Proof!Confirm(s, done) => Eng!Confirm(s, done)
<1>1. Proof!CheckStep(s, done) => Eng!CheckStep(s, done)
  BY Zenon DEF Proof!CheckStep, Eng!CheckStep
<1>2. Proof!ReadStatus(s, done) => Eng!ReadStatus(s, done)
  BY Zenon DEF Proof!ReadStatus, Eng!ReadStatus, Proof!HasErr, Eng!HasErr, Proof!Previous, Eng!Previous,
     Proof!Confirmed, Eng!Confirmed, Proof!AfterConfirmed, Eng!AfterConfirmed, Proof!Last, Eng!Last
<1>3. Proof!ReadHeight(s) => Eng!ReadHeight(s)
  BY Zenon DEF Proof!ReadHeight, Eng!ReadHeight, Proof!Previous, Eng!Previous, Proof!Expired, Eng!Expired,
     Proof!Last, Eng!Last
<1>4. Proof!ReadFinalStatus(s, done) => Eng!ReadFinalStatus(s, done)
  BY Zenon DEF Proof!ReadFinalStatus, Eng!ReadFinalStatus, Proof!HasErr, Eng!HasErr, Proof!Previous, Eng!Previous,
     Proof!Confirmed, Eng!Confirmed, Proof!AfterConfirmed, Eng!AfterConfirmed, Proof!Last, Eng!Last,
     Proof!ToIdle, Eng!ToIdle
<1>5. Proof!Resend(s) => Eng!Resend(s)
  BY Zenon DEF Proof!Resend, Eng!Resend, Proof!Last, Eng!Last
<1>6. Proof!Recheck(s, done) => Eng!Recheck(s, done)
  BY Zenon DEF Proof!Recheck, Eng!Recheck
<1>7. Proof!Sign(s, simulates, initial, maxSpend) => Eng!Sign(s, simulates, initial, maxSpend)
  BY Zenon DEF Proof!Sign, Eng!Sign, Proof!WithinBudget, Eng!WithinBudget, Proof!ToIdle, Eng!ToIdle
<1>8. Proof!Send(s) => Eng!Send(s)
  BY Zenon DEF Proof!Send, Eng!Send, Proof!Last, Eng!Last
<1>9. Proof!Confirm(s, done) => Eng!Confirm(s, done)
  BY Zenon DEF Proof!Confirm, Eng!Confirm, Proof!Confirmed, Eng!Confirmed, Proof!Previous, Eng!Previous,
     Proof!Last, Eng!Last, Proof!ToIdle, Eng!ToIdle, Proof!Expired, Eng!Expired
<1>. QED
  BY <1>1, <1>2, <1>3, <1>4, <1>5, <1>6, <1>7, <1>8, <1>9

\* A step of the proof in the engine.
LEMMA InTheEngine ==
  ASSUME Proof!InEngine
  PROVE  LET s == Proof!Step IN
         /\ Eng!Engine(s, Proof!Holds(s), Proof!Possible(s), 0, AdminCeiling)
         /\ UNCHANGED <<completed, baseline, receipts, at, smoke, late, held>> /\ at <= Len(Proof!Plan)
<1>. DEFINE s == Proof!Step
<1>1. /\ UNCHANGED <<completed, baseline, receipts, at, smoke, late, held>> /\ at <= Len(Proof!Plan)
      /\ \/ Proof!CheckStep(s, Proof!Holds(s)) \/ Proof!ReadStatus(s, Proof!Holds(s))
         \/ Proof!ReadHeight(s) \/ Proof!ReadFinalStatus(s, Proof!Holds(s)) \/ Proof!Resend(s)
         \/ Proof!Recheck(s, Proof!Holds(s)) \/ Proof!Sign(s, Proof!Possible(s), 0, AdminCeiling)
         \/ Proof!Send(s) \/ Proof!Confirm(s, Proof!Holds(s))
  BY Zenon DEF Proof!InEngine, Proof!proofVars, Proof!smokeVars
<1>. QED
  BY <1>1, SameActions, Zenon DEF Eng!Engine

\* One of the chain.
LEMMA OnTheChain ==
  ASSUME Proof!ClusterActs
  PROVE  Eng!Cluster /\ UNCHANGED <<completed, baseline, receipts, at, smoke, late, held>>
<1>1. UNCHANGED <<completed, baseline, receipts, at, smoke, late, held>>
  BY DEF Proof!ClusterActs, Proof!proofVars, Proof!smokeVars
<1>2. ASSUME NEW t \in DOMAIN tx, Proof!Land(t, Proof!Possible(tx[t].step)) \/ Proof!Fork(t) \/ Proof!Settle(t)
      PROVE  (\E possible \in BOOLEAN : Eng!Land(t, possible)) \/ Eng!Fork(t) \/ Eng!Settle(t)
  <2>1. ASSUME NEW q, Proof!Land(t, q) PROVE \E possible \in BOOLEAN : Eng!Land(t, possible)
    <3>1. CASE q
      <4>1. Eng!Land(t, TRUE)
        BY <2>1, <3>1, Zenon DEF Proof!Land, Eng!Land, Proof!Expired, Eng!Expired, Proof!Fault, Eng!Fault
      <4>. QED
        BY <4>1
    <3>2. CASE ~q
      <4>1. Eng!Land(t, FALSE)
        BY <2>1, <3>2, Zenon DEF Proof!Land, Eng!Land, Proof!Expired, Eng!Expired, Proof!Fault, Eng!Fault
      <4>. QED
        BY <4>1
    <3>. QED
      BY <3>1, <3>2
  <2>2. Proof!Fork(t) => Eng!Fork(t)
    BY Zenon DEF Proof!Fork, Eng!Fork, Proof!Fault, Eng!Fault
  <2>3. Proof!Settle(t) => Eng!Settle(t)
    BY Zenon DEF Proof!Settle, Eng!Settle
  <2>. QED
    BY <1>2, <2>1, <2>2, <2>3, Zenon
<1>3. Proof!Tick => Eng!Tick
  BY Zenon DEF Proof!Tick, Eng!Tick
<1>4. Proof!Stop => Eng!Stop
  BY Zenon DEF Proof!Stop, Eng!Stop, Proof!ToIdle, Eng!ToIdle, Proof!Fault, Eng!Fault
<1>. QED
  BY <1>1, <1>2, <1>3, <1>4, Zenon DEF Proof!ClusterActs, Eng!Cluster

LEMMA PlanStays ==
  /\ Proof!Plan' = Proof!Plan /\ Proof!Step' = Proof!Plan[at']
  /\ at' = at => Proof!Step' = Proof!Step
BY DEF Proof!Plan, Proof!Step, Proof!Phases, Proof!FundHolder

LEMMA AssetFacts ==
  /\ Proof!Assets = ProofAssets /\ Proof!FundHolder = ProofFund /\ ProofFund \in ProofSteps
  /\ \A a \in ProofAssets, k \in {"atas", "mint", "deposit", "recombine"} : <<k, a>> \in ProofSteps
BY DEF Proof!Assets, ProofAssets, Proof!FundHolder, ProofFund, ProofSteps

\* The engine at rest: only the place changes.
LEMMA EngineRests ==
  ASSUME Proof!ResumableAssumption, CatalogInv,
         UNCHANGED <<journal, tx, balance, faults>>, pc' \in Eng!Places
  PROVE  Proof!EngineTypeOK' /\ CatalogEngine' /\ FundingFits'
<1>1. Eng!EngineTypeOK /\ Eng!JournalNames /\ Eng!Journaled /\ Eng!Superseded
  BY SameTypes DEF CatalogInv, CatalogEngine, Proof!TypeOK
<1>2. Eng!EngineTypeOK' /\ Eng!JournalNames'
  BY <1>1, SameTypes, Eng!QuietStep
<1>3. Eng!Journaled' /\ Eng!Superseded'
  BY <1>1, SameTypes, Eng!ExactSame
<1>4. Proof!EngineTypeOK'
  BY <1>2 DEF Proof!EngineTypeOK, Eng!EngineTypeOK, Proof!Statuses, Eng!Statuses
<1>5. FundingFits'
  BY DEF CatalogInv, FundingFits
<1>. QED
  BY <1>2, <1>3, <1>4, <1>5 DEF CatalogEngine

\* How often a phase was carried out is a number.
LEMMA TimesCount ==
  ASSUME Proof!EngineTypeOK, NEW k, NEW a
  PROVE  Proof!Times(k, a) \in Nat
<1>. DEFINE S == {t \in DOMAIN tx : tx[t].step = <<k, a>> /\ Proof!Confirmed(tx[t])}
<1>1. DOMAIN tx = 1..Len(tx) /\ Len(tx) \in Nat
  BY DEF Proof!EngineTypeOK
<1>2. IsFiniteSet(S)
  <2>1. IsFiniteSet(1..Len(tx)) /\ S \subseteq 1..Len(tx)
    BY <1>1, FS_Interval
  <2>. QED
    BY <2>1, FS_Subset
<1>3. Cardinality(S) \in Nat
  BY <1>2, FS_CardinalityType
<1>4. Proof!Times(k, a) = Cardinality(S)
  BY Zenon DEF Proof!Times, Proof!Cardinality, Cardinality
<1>. QED
  BY <1>3, <1>4

LEMMA BalancesCount ==
  ASSUME Proof!EngineTypeOK, held \in [collateral : Nat, claims : Nat], NEW a
  PROVE  /\ Proof!Claims(a) \in Int /\ Proof!Collateral(a) \in Int
         /\ Proof!Vault(a) \in Int /\ Proof!Supply(a) \in Int
<1>1. Proof!Times("mint", a) \in Nat /\ Proof!Times("deposit", a) \in Nat /\ Proof!Times("recombine", a) \in Nat
  BY TimesCount
<1>2. held.collateral \in Nat /\ held.claims \in Nat
  OBVIOUS
<1>. QED
  BY <1>1, <1>2 DEF Proof!Claims, Proof!Collateral, Proof!Vault, Proof!Supply

LEMMA CatalogStarts ==
  ASSUME Proof!ResumableAssumption, Proof!CatalogAssumption, Proof!InitEngine, Proof!InitProof
  PROVE  CatalogInv
<1>1. Len(Proof!Plan) \in Nat
  BY CatalogPlan
<1>2. AdminCeiling \in Nat /\ Life \in Nat
  BY DEF Proof!CatalogAssumption, Proof!ResumableAssumption
<1>3. tx = <<>> /\ DOMAIN tx = {} /\ Len(tx) = 0 /\ \A S : <<>> \in Seq(S)
  BY DEF Proof!InitEngine
<1>4. Proof!EngineTypeOK
  BY <1>2, <1>3 DEF Proof!InitEngine, Proof!EngineTypeOK, Proof!ResumableAssumption
<1>5. Proof!TypeOK /\ smoke = [pc |-> smoke.pc, before |-> smoke.before]
  BY <1>1, <1>3, <1>4 DEF Proof!InitProof, Proof!TypeOK, Proof!NoBaseline
<1>6. CatalogEngine
  BY <1>3 DEF Proof!InitEngine, CatalogEngine, Eng!JournalNames, Eng!Journaled, Eng!Superseded
<1>7. Completions /\ Standing /\ InsideAsset
  BY DEF Proof!InitProof, Proof!InitEngine, Completions, Standing, InsideAsset, InEngine, InStep
<1>8. FundingFits
  BY <1>2, <1>3 DEF Proof!InitEngine, FundingFits
<1>. QED
  BY <1>5, <1>6, <1>7, <1>8 DEF CatalogInv, Proof!InitProof

\* A step of the proof between the engine's.
LEMMA ProofArrives ==
  ASSUME Proof!ResumableAssumption, Proof!CatalogAssumption, CatalogInv,
         UNCHANGED <<journal, tx, balance, faults, smoke, late, held>>,
         pc' \in {"idle", "state", "check"}, at' \in 1..(Len(Proof!Plan) + 1),
         completed' \in [ProofSteps -> 0..Len(tx)], Completions',
         baseline' \in [ProofAssets -> [vault : Int, supply : Int]], receipts' \subseteq ProofAssets,
         \A s \in ProofSteps : completed[s] # 0 => completed'[s] # 0,
         \A a \in receipts' : a \in receipts \/ Earned(a),
         pc' # "idle" => \A j \in 1..(at' - 1) : Proof!Plan[j] \in ProofSteps =>
                           completed'[Proof!Plan[j]] # 0 \/ Proof!Plan[j][2] \in receipts',
         pc' = "check" => at' <= Len(Proof!Plan) /\ Proof!Plan[at'] \in ProofSteps,
         pc' # "idle" /\ at' <= Len(Proof!Plan) /\ (pc' = "state" => Proof!Plan[at'][1] # "atas")
            => Proof!Plan[at'][2] \notin receipts'
  PROVE  CatalogInv'
<1>1. /\ Proof!TypeOK /\ smoke = [pc |-> smoke.pc, before |-> smoke.before]
      /\ \A a \in receipts : Earned(a)
  BY DEF CatalogInv
<1>2. pc' \in Eng!Places
  BY DEF Eng!Places
<1>3. Proof!EngineTypeOK' /\ CatalogEngine' /\ FundingFits'
  BY <1>2, EngineRests
<1>4. Proof!Plan' = Proof!Plan /\ Proof!Step' = Proof!Plan[at']
  BY PlanStays
<1>5. Proof!TypeOK'
  BY <1>1, <1>3, <1>4, AssetFacts DEF Proof!TypeOK, Proof!Assets, ProofAssets
<1>6. smoke' = [pc |-> smoke'.pc, before |-> smoke'.before]
  BY <1>1
<1>7. Standing'
  <2>1. pc' \in InEngine => pc' = "check"
    BY DEF InEngine, InStep
  <2>2. pc' = "check" => Eng!AtPlace(Proof!Step)' /\ Eng!AtSign(Proof!Step)'
    BY DEF Eng!AtPlace, Eng!AtSign
  <2>. QED
    BY <1>4, <2>1, <2>2 DEF Standing, InEngine
<1>8. InsideAsset'
  <2>1. pc' \in InEngine => pc' = "check"
    BY DEF InEngine, InStep
  <2>. QED
    BY <1>4, <2>1 DEF InsideAsset
<1>9. ASSUME NEW a \in receipts' PROVE Earned(a)'
  <2>1. Earned(a)
    BY <1>1, <1>9
  <2>2. \A k \in {"mint", "deposit", "recombine"} : <<k, a>> \in ProofSteps
    BY <1>9, AssetFacts
  <2>. QED
    BY <2>1, <2>2 DEF Earned
<1>. QED
  BY <1>3, <1>5, <1>6, <1>7, <1>8, <1>9 DEF CatalogInv

\* Where the proof stands, for the steps below.
LEMMA ProofStands ==
  ASSUME Proof!ResumableAssumption, Proof!CatalogAssumption, CatalogInv
  PROVE  /\ Len(Proof!Plan) \in Nat /\ 1 <= Len(Proof!Plan) /\ at \in 1..(Len(Proof!Plan) + 1)
         /\ completed \in [ProofSteps -> 0..Len(tx)] /\ Completions /\ receipts \subseteq ProofAssets
         /\ baseline \in [ProofAssets -> [vault : Int, supply : Int]]
         /\ Proof!EngineTypeOK /\ held \in [collateral : Nat, claims : Nat]
         /\ Proof!Step = Proof!Plan[at] /\ "holder" \notin ProofAssets
         /\ Proof!Plan[1] = ProofFund
         /\ pc # "idle" => \A j \in 1..(at - 1) :
              Proof!Plan[j] \in ProofSteps => completed[Proof!Plan[j]] # 0 \/ Proof!Plan[j][2] \in receipts
BY CatalogPlan, AssetFacts DEF CatalogInv, Proof!TypeOK, Proof!Step, Proof!CatalogAssumption, Standing

\* Past a position that needs nothing more.
LEMMA ProofGoesOn ==
  ASSUME Proof!ResumableAssumption, Proof!CatalogAssumption, CatalogInv, pc = "state" \/ pc = "next",
         UNCHANGED <<journal, tx, balance, faults, smoke, late, held, receipts>>,
         at <= Len(Proof!Plan), at' = at + 1, pc' = "state", Proof!Step[2] \notin receipts,
         completed' \in [ProofSteps -> 0..Len(tx)], Completions',
         \A s \in ProofSteps : completed[s] # 0 => completed'[s] # 0,
         baseline' \in [ProofAssets -> [vault : Int, supply : Int]],
         Proof!Step \in ProofSteps => completed'[Proof!Step] # 0
  PROVE  CatalogInv'
<1>0. PICK P : P = Proof!Plan
  OBVIOUS
<1>1. /\ Len(P) \in Nat /\ at \in 1..Len(P) /\ receipts \subseteq ProofAssets /\ Proof!Step = P[at]
      /\ \A j \in 1..(at - 1) : P[j] \in ProofSteps => completed[P[j]] # 0 \/ P[j][2] \in receipts
  BY <1>0, ProofStands
<1>2. PICK i \in 1..Len(P) : i = at
  BY <1>1
<1>3. i + 1 <= Len(P) /\ P[i + 1][1] # "atas" => P[i + 1][2] = P[i][2]
  BY <1>0, PlanPlaces
<1>4. \A j \in 1..(at' - 1) : P[j] \in ProofSteps => completed'[P[j]] # 0 \/ P[j][2] \in receipts'
  <2>. TAKE j \in 1..(at' - 1)
  <2>1. CASE j = at
    BY <1>1, <2>1
  <2>2. CASE j # at
    <3>1. j \in 1..(at - 1)
      BY <1>1, <2>2
    <3>. QED
      BY <1>1, <3>1
  <2>. QED
    BY <2>1, <2>2
<1>5. at' <= Len(P) /\ P[at'][1] # "atas" => P[at'][2] \notin receipts'
  BY <1>1, <1>2, <1>3
<1>6. at' \in 1..(Len(P) + 1)
  BY <1>1
<1>. QED
  BY <1>0, <1>1, <1>4, <1>5, <1>6, ProofArrives

\* The process ends; its journal stays.
LEMMA ProofEnds ==
  ASSUME Proof!ResumableAssumption, Proof!CatalogAssumption, CatalogInv,
         UNCHANGED <<journal, tx, balance, faults, smoke, late, held, completed, baseline, receipts, at>>,
         pc' = "idle"
  PROVE  CatalogInv'
<1>1. Completions'
  BY ProofStands DEF Completions, Confirmed
<1>. QED
  BY <1>1, ProofStands, ProofArrives

LEMMA ProofRuns ==
  ASSUME Proof!ResumableAssumption, Proof!CatalogAssumption, CatalogInv, Proof!RunProof
  PROVE  CatalogInv'
<1>1. /\ UNCHANGED <<journal, tx, balance, faults, smoke, late, held, completed, baseline, receipts>>
      /\ pc' = "state" /\ at' = 1
  BY DEF Proof!RunProof, Proof!smokeVars
<1>2. Completions'
  BY <1>1, ProofStands DEF Completions, Confirmed
<1>3. Proof!Plan[at'][2] \notin receipts'
  BY <1>1, ProofStands DEF ProofFund
<1>. QED
  BY <1>1, <1>2, <1>3, ProofStands, ProofArrives

LEMMA ProofEnters ==
  ASSUME Proof!ResumableAssumption, Proof!CatalogAssumption, CatalogInv, Proof!EnterStep
  PROVE  CatalogInv'
<1>0. PICK P : P = Proof!Plan
  OBVIOUS
<1>1. /\ UNCHANGED <<journal, tx, balance, faults, smoke, late, held, completed, baseline, receipts>>
      /\ pc = "state" /\ at <= Len(P) /\ Proof!Step[1] \notin {"baseline", "receipt"}
      /\ \/ pc' = "idle" /\ at' = at
         \/ Proof!Step[2] \in receipts /\ pc' = "state" /\ at' = at + 6
         \/ Proof!Step[2] \notin receipts /\ pc' = "state" /\ at' = at + 1 /\ completed[Proof!Step] # 0
         \/ Proof!Step[2] \notin receipts /\ pc' = "check" /\ at' = at
  <2>1. Len(Proof!Phases) = 6
    BY DEF Proof!Phases
  <2>. QED
    BY <1>0, <2>1 DEF Proof!EnterStep, Proof!smokeVars, Proof!ToIdle
<1>2. /\ Len(P) \in Nat /\ at \in 1..Len(P) /\ receipts \subseteq ProofAssets /\ Proof!Step = P[at]
      /\ \A j \in 1..(at - 1) : P[j] \in ProofSteps => completed[P[j]] # 0 \/ P[j][2] \in receipts
  BY <1>0, <1>1, ProofStands
<1>3. PICK i \in 1..Len(P) : i = at
  BY <1>2
<1>4. Completions'
  BY <1>1, ProofStands DEF Completions, Confirmed
<1>5. P[i] \in ProofSteps
  BY <1>0, <1>1, <1>2, <1>3, PlanPlaces
<1>6. CASE pc' = "idle" /\ at' = at
  BY <1>1, <1>6, ProofEnds
<1>7. CASE Proof!Step[2] \in receipts /\ pc' = "state" /\ at' = at + 6
  <2>1. P[i][1] = "atas"
    BY <1>0, <1>1, <1>2, <1>3, <1>7 DEF CatalogInv, InsideAsset
  <2>2. /\ i + 6 <= Len(P) + 1 /\ \A j \in i..(i + 5) : P[j][2] = P[i][2]
        /\ i + 6 <= Len(P) => P[i + 6][1] = "atas"
    BY <1>0, <2>1, PlanPlaces
  <2>3. \A j \in 1..(at' - 1) : P[j] \in ProofSteps => completed'[P[j]] # 0 \/ P[j][2] \in receipts'
    <3>. TAKE j \in 1..(at' - 1)
    <3>1. CASE j < at
      <4>1. j \in 1..(at - 1)
        BY <1>2, <3>1
      <4>. QED
        BY <1>1, <1>2, <4>1
    <3>2. CASE ~ (j < at)
      <4>1. j \in i..(i + 5)
        BY <1>2, <1>3, <1>7, <3>2
      <4>. QED
        BY <1>1, <1>2, <1>3, <1>7, <2>2, <4>1
    <3>. QED
      BY <3>1, <3>2
  <2>4. at' \in 1..(Len(P) + 1) /\ (at' <= Len(P) => P[at'][1] = "atas")
    BY <1>2, <1>3, <1>7, <2>2
  <2>. QED
    BY <1>0, <1>1, <1>4, <1>7, <2>3, <2>4, ProofStands, ProofArrives
<1>8. CASE Proof!Step[2] \notin receipts /\ pc' = "state" /\ at' = at + 1 /\ completed[Proof!Step] # 0
  BY <1>0, <1>1, <1>4, <1>8, ProofStands, ProofGoesOn
<1>9. CASE Proof!Step[2] \notin receipts /\ pc' = "check" /\ at' = at
  BY <1>0, <1>1, <1>2, <1>3, <1>4, <1>5, <1>9, ProofStands, ProofArrives
<1>. QED
  BY <1>1, <1>6, <1>7, <1>8, <1>9

LEMMA ProofRecordsBaseline ==
  ASSUME Proof!ResumableAssumption, Proof!CatalogAssumption, CatalogInv, Proof!TakeBaseline
  PROVE  CatalogInv'
<1>1. /\ UNCHANGED <<journal, tx, balance, faults, smoke, late, held, completed, receipts>>
      /\ pc = "state" /\ at <= Len(Proof!Plan) /\ Proof!Step[1] = "baseline"
      /\ \/ at' = at + 1 /\ pc' = "state" /\ baseline' = baseline
         \/ /\ at' = at + 1 /\ pc' = "state"
            /\ baseline' = [baseline EXCEPT ![Proof!Step[2]] =
                  [vault |-> Proof!Vault(Proof!Step[2]), supply |-> Proof!Supply(Proof!Step[2])]]
         \/ pc' = "idle" /\ baseline' = baseline /\ at' = at
  BY DEF Proof!TakeBaseline, Proof!smokeVars, Proof!ToIdle
<1>2. Completions'
  BY <1>1, ProofStands DEF Completions, Confirmed
<1>3. Proof!Vault(Proof!Step[2]) \in Int /\ Proof!Supply(Proof!Step[2]) \in Int
  BY ProofStands, BalancesCount
<1>4. baseline' \in [ProofAssets -> [vault : Int, supply : Int]]
  <2>1. PICK v \in Int, u \in Int : v = Proof!Vault(Proof!Step[2]) /\ u = Proof!Supply(Proof!Step[2])
    BY <1>3
  <2>2. \/ baseline' = baseline
        \/ baseline' = [baseline EXCEPT ![Proof!Step[2]] = [vault |-> v, supply |-> u]]
    BY <1>1, <2>1
  <2>3. baseline \in [ProofAssets -> [vault : Int, supply : Int]]
    BY ProofStands
  <2>. QED
    BY <2>2, <2>3
<1>5. Proof!Step[2] \notin receipts
  BY <1>1 DEF CatalogInv, InsideAsset
<1>6. Proof!Step \notin ProofSteps
  <2>1. PICK i \in 1..Len(Proof!Plan) : i = at
    BY <1>1, ProofStands
  <2>. QED
    BY <1>1, <2>1, PlanPlaces, ProofStands
<1>. QED
  BY <1>1, <1>2, <1>4, <1>5, <1>6, ProofStands, ProofGoesOn, ProofEnds

LEMMA ProofPublishes ==
  ASSUME Proof!ResumableAssumption, Proof!CatalogAssumption, CatalogInv, Proof!PublishReceipt
  PROVE  CatalogInv'
<1>0. PICK P, a : P = Proof!Plan /\ a = Proof!Step[2]
  OBVIOUS
<1>1. /\ UNCHANGED <<journal, tx, balance, faults, smoke, late, held, completed, baseline>>
      /\ pc = "state" /\ at <= Len(P) /\ Proof!Step[1] = "receipt"
      /\ \/ at' = at + 1 /\ pc' = "state" /\ receipts' = receipts \cup {a}
         \/ pc' = "idle" /\ receipts' = receipts /\ at' = at
  BY <1>0 DEF Proof!PublishReceipt, Proof!smokeVars, Proof!ToIdle
<1>2. Completions'
  BY <1>1, ProofStands DEF Completions, Confirmed
<1>3. a \notin receipts
  BY <1>0, <1>1 DEF CatalogInv, InsideAsset
<1>4. /\ Len(P) \in Nat /\ at \in 1..Len(P) /\ receipts \subseteq ProofAssets /\ Proof!Step = P[at]
      /\ \A j \in 1..(at - 1) : P[j] \in ProofSteps => completed[P[j]] # 0 \/ P[j][2] \in receipts
  BY <1>0, <1>1, ProofStands
<1>5. PICK i \in 1..Len(P) : i = at
  BY <1>4
<1>6. /\ i # 1 => a \in ProofAssets
      /\ i + 1 <= Len(P) => P[i + 1][1] = "atas"
      /\ \A k \in {"mint", "deposit", "recombine"} : \E j \in 1..(i - 1) : P[j] = <<k, a>>
      /\ P[i] \notin ProofSteps
  BY <1>0, <1>1, <1>4, <1>5, PlanPlaces
<1>7. a \in ProofAssets
  <2>1. i # 1
    BY <1>6
  <2>. QED
    BY <1>6, <2>1
<1>8. Earned(a)
  <2>. SUFFICES ASSUME NEW k \in {"mint", "deposit", "recombine"} PROVE completed[<<k, a>>] # 0
    BY DEF Earned
  <2>1. PICK j \in 1..(i - 1) : P[j] = <<k, a>>
    BY <1>6
  <2>2. <<k, a>> \in ProofSteps /\ <<k, a>>[2] = a
    BY <1>7, AssetFacts
  <2>3. j \in 1..(at - 1)
    BY <1>5, <2>1
  <2>4. P[j] \in ProofSteps => completed[P[j]] # 0 \/ P[j][2] \in receipts
    BY <1>4, <2>3
  <2>. QED
    BY <1>3, <2>1, <2>2, <2>4
<1>9. CASE at' = at + 1 /\ pc' = "state" /\ receipts' = receipts \cup {a}
  <2>1. \A j \in 1..(at' - 1) : P[j] \in ProofSteps => completed'[P[j]] # 0 \/ P[j][2] \in receipts'
    <3>. TAKE j \in 1..(at' - 1)
    <3>1. CASE j = at
      BY <1>5, <1>6, <3>1
    <3>2. CASE j # at
      <4>1. j \in 1..(at - 1)
        BY <1>4, <1>9, <3>2
      <4>. QED
        BY <1>1, <1>4, <1>9, <4>1
    <3>. QED
      BY <3>1, <3>2
  <2>2. at' \in 1..(Len(P) + 1) /\ (at' <= Len(P) => P[at'][1] = "atas")
    BY <1>4, <1>5, <1>6, <1>9
  <2>3. receipts' \subseteq ProofAssets /\ \A b \in receipts' : b \in receipts \/ Earned(b)
    BY <1>4, <1>7, <1>8, <1>9
  <2>. QED
    BY <1>0, <1>1, <1>2, <1>9, <2>1, <2>2, <2>3, ProofStands, ProofArrives
<1>. QED
  BY <1>1, <1>9, ProofEnds

LEMMA ProofCompletes ==
  ASSUME Proof!ResumableAssumption, Proof!CatalogAssumption, CatalogInv, Proof!CompleteStep
  PROVE  CatalogInv'
<1>0. PICK s : s = Proof!Step
  OBVIOUS
<1>1. /\ UNCHANGED <<journal, tx, balance, faults, smoke, late, held, baseline, receipts>>
      /\ pc = "next"
      /\ \/ /\ Proof!PersistedStepConfirmed(s) /\ at' = at + 1 /\ pc' = "state"
            /\ completed' = [completed EXCEPT ![s] = Last(journal[s])]
         \/ pc' = "idle" /\ UNCHANGED <<completed, at>>
  BY <1>0 DEF Proof!CompleteStep, Proof!smokeVars, Proof!ToIdle, Proof!Last, Last
<1>2. at <= Len(Proof!Plan) /\ s \in ProofSteps /\ s[2] \notin receipts
  BY <1>0, <1>1 DEF CatalogInv, Standing, InsideAsset, InEngine, InStep
<1>3. CASE pc' = "idle"
  BY <1>1, <1>3, ProofEnds
<1>4. CASE pc' # "idle"
  <2>1. journal[s] # <<>> /\ Confirmed(tx[Last(journal[s])])
    BY <1>1, <1>4 DEF Proof!PersistedStepConfirmed, Proof!Confirmed, Confirmed, Proof!Previous, Proof!Last, Last
  <2>2. PICK n \in DOMAIN tx : n = Last(journal[s]) /\ n \in 1..Len(tx) /\ tx[n].step = s
    <3>1. Eng!EngineTypeOK /\ Eng!JournalNames
      BY SameTypes DEF CatalogInv, CatalogEngine, Proof!TypeOK
    <3>2. Eng!Last(journal[s]) \in DOMAIN tx /\ Eng!Last(journal[s]) \in 1..Len(tx) /\ Eng!Previous(s).step = s
      BY <1>2, <2>1, <3>1, SameTypes, Eng!LastAttempt
    <3>. QED
      BY <3>2 DEF Eng!Previous, Eng!Last, Last
  <2>3. completed' = [completed EXCEPT ![s] = n] /\ at' = at + 1 /\ pc' = "state" /\ n # 0
    <3>1. Len(tx) \in Nat
      BY ProofStands DEF Proof!EngineTypeOK
    <3>2. n # 0
      BY <2>2, <3>1
    <3>. QED
      BY <1>1, <1>4, <2>2, <3>2
  <2>4. completed' \in [ProofSteps -> 0..Len(tx)]
    <3>1. completed \in [ProofSteps -> 0..Len(tx)]
      BY ProofStands
    <3>2. n \in 0..Len(tx)
      <4>1. Len(tx) \in Nat
        BY ProofStands DEF Proof!EngineTypeOK
      <4>. QED
        BY <2>2, <4>1
    <3>. QED
      BY <2>3, <3>1, <3>2
  <2>5. Completions'
    <3>. SUFFICES ASSUME NEW u \in ProofSteps, completed'[u] # 0
                  PROVE  completed'[u] \in DOMAIN tx' /\ tx'[completed'[u]].step = u
                         /\ Confirmed(tx'[completed'[u]])
      BY DEF Completions, Confirmed
    <3>0. completed \in [ProofSteps -> 0..Len(tx)] /\ tx' = tx
      BY <1>1, ProofStands
    <3>1. CASE u = s
      BY <2>1, <2>2, <2>3, <3>0, <3>1
    <3>2. CASE u # s
      <4>1. completed'[u] = completed[u]
        BY <2>3, <3>0, <3>2
      <4>2. completed[u] \in DOMAIN tx /\ tx[completed[u]].step = u /\ Confirmed(tx[completed[u]])
        <5>1. Completions
          BY ProofStands
        <5>. QED
          BY <4>1, <5>1 DEF Completions
      <4>. QED
        BY <3>0, <4>1, <4>2
    <3>. QED
      BY <3>1, <3>2
  <2>6. completed'[s] # 0 /\ \A u \in ProofSteps : completed[u] # 0 => completed'[u] # 0
    BY <1>2, <2>3, ProofStands
  <2>. QED
    BY <1>0, <1>1, <1>2, <2>3, <2>4, <2>5, <2>6, ProofStands, ProofGoesOn
<1>. QED
  BY <1>3, <1>4

LEMMA ProofFinishes ==
  ASSUME Proof!ResumableAssumption, Proof!CatalogAssumption, CatalogInv, Proof!FinishProof
  PROVE  CatalogInv'
BY ProofEnds DEF Proof!FinishProof, Proof!proofVars, Proof!smokeVars, Proof!ToIdle

LEMMA FundingCosts ==
  /\ ProofCost[ProofFund] = HolderCost /\ ProofFee[ProofFund] = HolderFee
  /\ Proof!CatalogAssumption /\ Proof!ResumableAssumption =>
       /\ \A s \in ProofSteps : s # ProofFund => ProofCost[s] = 0 /\ ProofFee[s] = 0
       /\ HolderCost \in Nat /\ HolderFee \in Nat /\ HolderFee <= HolderCost /\ AdminCeiling \in Nat
<1>1. ProofCost[ProofFund] = HolderCost /\ ProofFee[ProofFund] = HolderFee
  <2>1. ProofFund \in ProofSteps /\ ProofFund[1] = "fund"
    BY DEF ProofFund, ProofSteps
  <2>. QED
    BY <2>1 DEF ProofCost, ProofFee
<1>2. ASSUME Proof!CatalogAssumption, Proof!ResumableAssumption
      PROVE  /\ \A s \in ProofSteps : s # ProofFund => ProofCost[s] = 0 /\ ProofFee[s] = 0
             /\ HolderCost \in Nat /\ HolderFee \in Nat /\ HolderFee <= HolderCost /\ AdminCeiling \in Nat
  <2>1. /\ \A s \in ProofSteps \ {ProofFund} : ProofCost[s] = 0 /\ ProofFee[s] = 0
        /\ ProofFee[ProofFund] <= ProofCost[ProofFund] /\ AdminCeiling \in Nat
    BY <1>2, AssetFacts DEF Proof!CatalogAssumption
  <2>2. ProofCost \in [ProofSteps -> Nat] /\ ProofFee \in [ProofSteps -> Nat] /\ ProofFund \in ProofSteps
    BY <1>2, AssetFacts DEF Proof!ResumableAssumption
  <2>. QED
    BY <1>1, <2>1, <2>2
<1>. QED
  BY <1>1, <1>2

\* The engine moves inside a step.
LEMMA ProofInEngine ==
  ASSUME Proof!ResumableAssumption, Proof!CatalogAssumption, CatalogInv, Proof!InEngine
  PROVE  CatalogInv'
<1>0. PICK s, done, simulates : s = Proof!Step /\ done = Proof!Holds(s) /\ simulates = Proof!Possible(s)
  OBVIOUS
<1>1. /\ Eng!Engine(s, done, simulates, 0, AdminCeiling)
      /\ UNCHANGED <<completed, baseline, receipts, at, smoke, late, held>> /\ at <= Len(Proof!Plan)
  BY <1>0, InTheEngine
<1>2. pc \in InEngine
  BY <1>1 DEF Eng!Engine, Eng!CheckStep, Eng!ReadStatus, Eng!ReadHeight, Eng!ReadFinalStatus, Eng!Resend,
              Eng!Recheck, Eng!Sign, Eng!Send, Eng!Confirm, InEngine, InStep
<1>3. /\ s \in ProofSteps /\ Eng!AtPlace(s) /\ Eng!AtSign(s)
      /\ Eng!EngineTypeOK /\ Eng!JournalNames /\ Eng!Journaled /\ Eng!Superseded /\ Eng!ResumableAssumption
      /\ s[2] \notin receipts
  BY <1>0, <1>2, SameTypes DEF CatalogInv, Standing, InsideAsset, CatalogEngine, Proof!TypeOK
<1>4. /\ Eng!EngineTypeOK' /\ Eng!JournalNames' /\ Eng!TxKept /\ Eng!AtPlace(s)'
      /\ UNCHANGED <<balance, faults>>
      /\ pc' \in {"idle", "status", "height", "final", "resend", "recheck", "sign", "send", "confirm", "next"}
  BY <1>1, <1>3, Eng!EngineBasic
<1>5. Eng!Exact(s)'
  BY <1>1, <1>3, Eng!EngineExact DEF Eng!Exact
<1>6. CatalogEngine' /\ Proof!EngineTypeOK' /\ Eng!AtSign(s)'
  BY <1>4, <1>5 DEF CatalogEngine, Eng!Exact, Proof!EngineTypeOK, Eng!EngineTypeOK, Proof!Statuses, Eng!Statuses
<1>7. Proof!Plan' = Proof!Plan /\ Proof!Step' = s
  BY <1>0, <1>1, PlanStays
<1>8. Completions'
  <2>1. \A t \in DOMAIN tx : /\ t \in DOMAIN tx' /\ tx'[t].step = tx[t].step
                             /\ Confirmed(tx[t]) => Confirmed(tx'[t])
    BY <1>4 DEF Eng!TxKept, Eng!Confirmed, Confirmed
  <2>2. Completions
    BY DEF CatalogInv
  <2>. QED
    BY <1>1, <2>1, <2>2 DEF Completions, Confirmed
<1>9. Standing'
  <2>1. /\ pc \in InEngine => pc # "idle"
        /\ pc' \in {"idle"} \cup InEngine
    BY <1>4 DEF InEngine, InStep
  <2>2. Eng!AtPlace(Proof!Step)' /\ Eng!AtSign(Proof!Step)'
    BY <1>4, <1>6, <1>7 DEF Eng!AtPlace, Eng!AtSign, Eng!Previous
  <2>3. pc' # "idle" => \A j \in 1..(at' - 1) :
          Proof!Plan[j] \in ProofSteps => completed'[Proof!Plan[j]] # 0 \/ Proof!Plan[j][2] \in receipts'
    BY <1>1, <1>2, <2>1 DEF CatalogInv, Standing
  <2>. QED
    BY <1>1, <1>3, <1>7, <2>1, <2>2, <2>3 DEF Standing
<1>10. InsideAsset'
  <2>1. pc' # "state"
    BY <1>4
  <2>. QED
    BY <1>1, <1>3, <1>7, <2>1 DEF InsideAsset
<1>11. FundingFits'
  <2>0. /\ -balance <= AdminCeiling /\ balance \in Int /\ HolderCost \in Nat
        /\ \A t \in DOMAIN tx : tx[t].step = ProofFund /\ tx[t].status \in {"signed", "sent"} =>
             HolderCost - balance <= AdminCeiling
    BY <1>3, FundingCosts DEF CatalogInv, FundingFits, Eng!EngineTypeOK
  <2>1. CASE UNCHANGED tx
    BY <1>4, <2>0, <2>1 DEF FundingFits
  <2>2. CASE Eng!Resend(s) \/ Eng!Send(s)
    <3>1. /\ DOMAIN tx' = DOMAIN tx
          /\ \A t \in DOMAIN tx : /\ tx'[t] # tx[t] => tx[t].status = "signed" /\ tx'[t].status = "sent"
                                  /\ tx'[t].step = tx[t].step
      BY <1>3, <2>2, Eng!GivenAway
    <3>. QED
      BY <1>4, <2>0, <3>1 DEF FundingFits
  <2>3. CASE Eng!Sign(s, simulates, 0, AdminCeiling) /\ ~ UNCHANGED tx
    <3>1. /\ tx' = Append(tx, [step |-> s, status |-> "signed", life |-> Life])
          /\ journal' = [journal EXCEPT ![s] = Append(@, Len(tx) + 1)]
          /\ UNCHANGED <<balance, faults>> /\ pc' = "send" /\ 0 - (balance - ProofCost[s]) <= AdminCeiling
      BY <2>3 DEF Eng!Sign, Eng!WithinBudget
    <3>2. pc' \in Eng!Places
      BY <3>1 DEF Eng!Places
    <3>3. /\ DOMAIN tx' = DOMAIN tx \cup {Len(tx) + 1}
          /\ \A t \in DOMAIN tx : tx'[t] = tx[t]
          /\ tx'[Len(tx) + 1].step = s
      BY <1>3, <3>1, <3>2, Eng!NewAttempt
    <3>4. s = ProofFund => HolderCost - balance <= AdminCeiling
      BY <2>0, <3>1, FundingCosts
    <3>. QED
      BY <2>0, <3>1, <3>3, <3>4 DEF FundingFits
  <2>. QED
    BY <1>1, <2>1, <2>2, <2>3 DEF Eng!Engine, Eng!CheckStep, Eng!ReadStatus, Eng!ReadHeight, Eng!ReadFinalStatus,
       Eng!Recheck, Eng!Confirm
<1>12. Proof!TypeOK'
  <2>1. Len(tx) \in Nat /\ Len(tx') \in Nat /\ DOMAIN tx = 1..Len(tx) /\ DOMAIN tx' = 1..Len(tx')
    BY <1>3, <1>4 DEF Eng!EngineTypeOK
  <2>2. Len(tx) <= Len(tx')
    <3>1. CASE Len(tx) = 0
      BY <2>1, <3>1
    <3>2. CASE Len(tx) # 0
      <4>1. Len(tx) \in DOMAIN tx
        BY <2>1, <3>2
      <4>2. Len(tx) \in DOMAIN tx'
        BY <1>4, <4>1 DEF Eng!TxKept
      <4>. QED
        BY <2>1, <4>2
    <3>. QED
      BY <3>1, <3>2
  <2>3. completed \in [ProofSteps -> 0..Len(tx')]
    <3>1. completed \in [ProofSteps -> 0..Len(tx)] /\ 0..Len(tx) \subseteq 0..Len(tx')
      BY <2>1, <2>2, ProofStands
    <3>. QED
      BY <3>1
  <2>. QED
    BY <1>1, <1>6, <1>7, <2>3 DEF CatalogInv, Proof!TypeOK, Proof!Assets
<1>13. \A a \in receipts' : Earned(a)'
  BY <1>1 DEF CatalogInv, Earned
<1>14. smoke' = [pc |-> smoke'.pc, before |-> smoke'.before]
  BY <1>1 DEF CatalogInv
<1>. QED
  BY <1>6, <1>8, <1>9, <1>10, <1>11, <1>12, <1>13, <1>14 DEF CatalogInv

\* One transaction moves on the chain, and with it the admin's balance.
LEMMA FundingMoves ==
  ASSUME Proof!ResumableAssumption, Proof!CatalogAssumption, CatalogInv,
         NEW t \in DOMAIN tx, DOMAIN tx' = DOMAIN tx,
         \A u \in DOMAIN tx : u # t => tx'[u] = tx[u], tx'[t].step = tx[t].step,
         \/ /\ tx[t].status = "sent" /\ tx'[t].status = "processed"
            /\ balance' = balance - ProofCost[tx[t].step]
         \/ /\ tx[t].status = "sent" /\ tx'[t].status = "failing"
            /\ balance' = balance - ProofFee[tx[t].step]
         \/ /\ tx[t].status = "processed" /\ tx'[t].status = "sent"
            /\ balance' = balance + ProofCost[tx[t].step]
         \/ /\ tx[t].status \in {"processed", "failing"} /\ tx'[t].status \in {"confirmed", "failed"}
            /\ balance' = balance
  PROVE  FundingFits'
<1>1. /\ Eng!EngineTypeOK /\ Eng!Superseded /\ Eng!ResumableAssumption
      /\ -balance <= AdminCeiling /\ balance \in Int
      /\ \A u \in DOMAIN tx : tx[u].step = ProofFund /\ tx[u].status \in {"signed", "sent"} =>
           HolderCost - balance <= AdminCeiling
  BY SameTypes DEF CatalogInv, CatalogEngine, Proof!TypeOK, FundingFits, Eng!EngineTypeOK
<1>2. /\ HolderCost \in Nat /\ HolderFee \in Nat /\ HolderFee <= HolderCost /\ AdminCeiling \in Nat
      /\ ProofCost[ProofFund] = HolderCost /\ ProofFee[ProofFund] = HolderFee
      /\ \A s \in ProofSteps : s # ProofFund => ProofCost[s] = 0 /\ ProofFee[s] = 0
  BY FundingCosts
<1>3. tx[t].step \in ProofSteps /\ \A u \in DOMAIN tx : u \in Nat
  BY <1>1, Eng!TxTyped, Eng!TxNumbers DEF Eng!Txs
<1>4. CASE tx[t].step # ProofFund
  <2>1. balance' = balance
    BY <1>1, <1>2, <1>3, <1>4
  <2>. QED
    BY <1>1, <1>4, <2>1 DEF FundingFits
<1>5. CASE tx[t].step = ProofFund
  <2>1. ASSUME NEW u \in DOMAIN tx, u # t, tx[u].step = ProofFund, tx[t].status \in {"sent", "processed"}
        PROVE  tx[u].status \notin {"signed", "sent"}
    <3>1. u < t \/ t < u
      BY <1>3, <2>1
    <3>2. u < t => tx[u].status \in {"failing", "failed"}
      BY <1>1, <1>5, <2>1 DEF Eng!Superseded, Eng!HasErr
    <3>3. t < u => tx[t].status \in {"failing", "failed"}
      BY <1>1, <1>5, <2>1 DEF Eng!Superseded, Eng!HasErr
    <3>. QED
      BY <2>1, <3>1, <3>2, <3>3
  <2>2. CASE tx[t].status = "sent"
    <3>1. HolderCost - balance <= AdminCeiling
      BY <1>1, <1>5, <2>2
    <3>2. -balance' <= AdminCeiling
      BY <1>1, <1>2, <1>5, <2>2, <3>1
    <3>3. tx'[t].status \notin {"signed", "sent"}
      BY <2>2
    <3>. QED
      BY <2>1, <2>2, <3>2, <3>3 DEF FundingFits
  <2>3. CASE tx[t].status = "processed" /\ tx'[t].status = "sent"
    <3>1. balance' = balance + HolderCost
      BY <1>2, <1>5, <2>3
    <3>. QED
      BY <1>1, <1>2, <3>1 DEF FundingFits
  <2>4. CASE tx'[t].status \in {"confirmed", "failed"}
    <3>1. balance' = balance
      BY <2>4
    <3>. QED
      BY <1>1, <2>4, <3>1 DEF FundingFits
  <2>. QED
    BY <2>2, <2>3, <2>4
<1>. QED
  BY <1>4, <1>5

LEMMA ChainFunding ==
  ASSUME Proof!ResumableAssumption, Proof!CatalogAssumption, ForkedErrors = FALSE, CatalogInv, Eng!Cluster,
         DOMAIN tx' = DOMAIN tx, \A t \in DOMAIN tx : tx'[t].step = tx[t].step
  PROVE  FundingFits'
<1>0. Eng!EngineTypeOK /\ Eng!ResumableAssumption
  BY SameTypes DEF CatalogInv, Proof!TypeOK
<1>1. ASSUME NEW t \in DOMAIN tx, (\E possible \in BOOLEAN : Eng!Land(t, possible)) \/ Eng!Fork(t) \/ Eng!Settle(t)
      PROVE  FundingFits'
  <2>1. tx[t] \in Eng!Txs
    BY <1>0, Eng!TxTyped
  <2>2. \A u \in DOMAIN tx : u # t => tx'[u] = tx[u]
    BY <1>1 DEF Eng!Land, Eng!Fork, Eng!Settle
  <2>3. \/ /\ tx[t].status = "sent" /\ tx'[t].status = "processed"
           /\ balance' = balance - ProofCost[tx[t].step]
        \/ /\ tx[t].status = "sent" /\ tx'[t].status = "failing"
           /\ balance' = balance - ProofFee[tx[t].step]
        \/ /\ tx[t].status = "processed" /\ tx'[t].status = "sent"
           /\ balance' = balance + ProofCost[tx[t].step]
        \/ /\ tx[t].status \in {"processed", "failing"} /\ tx'[t].status \in {"confirmed", "failed"}
           /\ balance' = balance
    <3>1. CASE \E possible \in BOOLEAN : Eng!Land(t, possible)
      BY <2>1, <3>1 DEF Eng!Land, Eng!Txs
    <3>2. CASE Eng!Fork(t)
      BY <2>1, <3>2 DEF Eng!Fork, Eng!Txs
    <3>3. CASE Eng!Settle(t)
      BY <2>1, <3>3 DEF Eng!Settle, Eng!Txs
    <3>. QED
      BY <1>1, <3>1, <3>2, <3>3
  <2>. QED
    BY <2>2, <2>3, FundingMoves
<1>2. CASE Eng!Tick \/ Eng!Stop
  <2>1. /\ balance' = balance
        /\ \A t \in DOMAIN tx : tx'[t].status = tx[t].status
    <3>1. CASE Eng!Tick
      <4>1. \A t \in DOMAIN tx : tx'[t] = [tx[t] EXCEPT !.life = IF @ = 0 THEN 0 ELSE @ - 1]
        BY <3>1 DEF Eng!Tick
      <4>2. \A t \in DOMAIN tx : tx'[t].status = tx[t].status
        BY <1>0, <4>1, Eng!TxTyped DEF Eng!Txs
      <4>. QED
        BY <3>1, <4>2 DEF Eng!Tick
    <3>2. CASE Eng!Stop
      BY <3>2 DEF Eng!Stop
    <3>. QED
      BY <1>2, <3>1, <3>2
  <2>. QED
    BY <2>1 DEF CatalogInv, FundingFits
<1>. QED
  BY <1>1, <1>2 DEF Eng!Cluster

\* What the chain does, and the end of the process.
LEMMA ProofOnChain ==
  ASSUME Proof!ResumableAssumption, Proof!CatalogAssumption, ForkedErrors = FALSE, CatalogInv,
         Proof!ClusterActs
  PROVE  CatalogInv'
<1>1. Eng!Cluster /\ UNCHANGED <<completed, baseline, receipts, at, smoke, late, held>>
  BY OnTheChain
<1>2. /\ Eng!EngineTypeOK /\ Eng!JournalNames /\ Eng!Journaled /\ Eng!Superseded /\ Eng!ResumableAssumption
  BY SameTypes DEF CatalogInv, CatalogEngine, Proof!TypeOK
<1>3. /\ Eng!EngineTypeOK' /\ Eng!JournalNames' /\ Eng!TxKept /\ DOMAIN tx' = DOMAIN tx
      /\ \A t \in DOMAIN tx : tx'[t].step = tx[t].step
      /\ \A s \in ProofSteps : Eng!AtPlace(s) => Eng!AtPlace(s)'
      /\ pc' \in {pc, "idle"}
  BY <1>1, <1>2, Eng!ClusterBasic
<1>4. /\ Eng!Journaled' /\ Eng!Superseded'
      /\ \A s \in ProofSteps : Eng!AtSign(s) => Eng!AtSign(s)'
  BY <1>1, <1>2, Eng!ClusterExact
<1>5. CatalogEngine' /\ Proof!EngineTypeOK'
  BY <1>3, <1>4 DEF CatalogEngine, Proof!EngineTypeOK, Eng!EngineTypeOK, Proof!Statuses, Eng!Statuses
<1>6. Proof!Plan' = Proof!Plan /\ Proof!Step' = Proof!Step
  BY <1>1, PlanStays
<1>7. Completions'
  <2>1. \A t \in DOMAIN tx : Confirmed(tx[t]) => Confirmed(tx'[t])
    BY <1>3 DEF Eng!TxKept, Eng!Confirmed, Confirmed
  <2>2. Completions
    BY DEF CatalogInv
  <2>. QED
    BY <1>1, <1>3, <2>1, <2>2 DEF Completions, Confirmed
<1>8. Standing'
  <2>1. ASSUME pc' \in InEngine
        PROVE  /\ at <= Len(Proof!Plan) /\ Proof!Step \in ProofSteps
               /\ Eng!AtPlace(Proof!Step)' /\ Eng!AtSign(Proof!Step)'
    <3>1. pc \in InEngine
      BY <1>3, <2>1 DEF InEngine, InStep
    <3>2. PICK s \in ProofSteps : s = Proof!Step /\ Eng!AtPlace(s) /\ Eng!AtSign(s)
      BY <3>1 DEF CatalogInv, Standing
    <3>3. Eng!AtPlace(s)' /\ Eng!AtSign(s)'
      BY <1>3, <1>4, <3>2
    <3>4. Proof!Step' = s
      BY <1>6, <3>2
    <3>. QED
      BY <3>1, <3>2, <3>3, <3>4 DEF CatalogInv, Standing, Eng!AtPlace, Eng!AtSign, Eng!Previous
  <2>2. pc' \in {"idle", "state"} \cup InEngine
    BY <1>3 DEF CatalogInv, Standing
  <2>3. pc' # "idle" => \A j \in 1..(at' - 1) :
          Proof!Plan[j] \in ProofSteps => completed'[Proof!Plan[j]] # 0 \/ Proof!Plan[j][2] \in receipts'
    BY <1>1, <1>3 DEF CatalogInv, Standing
  <2>. QED
    BY <1>1, <1>6, <2>1, <2>2, <2>3 DEF Standing
<1>9. InsideAsset'
  <2>1. /\ pc' \in InEngine => pc \in InEngine
        /\ pc' = "state" => pc = "state"
    BY <1>3 DEF InEngine, InStep
  <2>. QED
    BY <1>1, <1>6, <2>1 DEF CatalogInv, InsideAsset
<1>10. FundingFits'
  BY <1>1, <1>3, ChainFunding
<1>11. Proof!TypeOK'
  <2>1. Len(tx') = Len(tx)
    BY <1>2, <1>3 DEF Eng!EngineTypeOK
  <2>. QED
    BY <1>1, <1>5, <1>6, <2>1 DEF CatalogInv, Proof!TypeOK, Proof!Assets
<1>12. \A a \in receipts' : Earned(a)'
  BY <1>1 DEF CatalogInv, Earned
<1>13. smoke' = [pc |-> smoke'.pc, before |-> smoke'.before]
  BY <1>1 DEF CatalogInv
<1>. QED
  BY <1>5, <1>7, <1>8, <1>9, <1>10, <1>11, <1>12, <1>13 DEF CatalogInv

\* The other tool has its own records and the holder's balance.
LEMMA SmokeAside ==
  ASSUME Proof!ResumableAssumption, CatalogInv,
         UNCHANGED <<journal, tx, balance, pc, faults, completed, baseline, receipts, at>>,
         smoke' = [pc |-> smoke'.pc, before |-> smoke'.before],
         smoke'.pc \in {"idle", "mint", "before", "split", "between", "recombine", "final"},
         late' \in {"none", "mint", "split", "recombine"},
         held' \in [collateral : Nat, claims : Nat]
  PROVE  CatalogInv'
<1>1. Proof!EngineTypeOK' /\ CatalogEngine' /\ FundingFits'
  <2>1. pc \in Eng!Places
    BY DEF CatalogInv, Standing, InEngine, InStep, Eng!Places
  <2>. QED
    BY <2>1, EngineRests
<1>2. Proof!Plan' = Proof!Plan /\ Proof!Step' = Proof!Step
  BY PlanStays
<1>3. Proof!TypeOK'
  BY <1>1, <1>2 DEF CatalogInv, Proof!TypeOK, Proof!Assets
<1>4. Completions'
  BY DEF CatalogInv, Completions, Confirmed
<1>5. Standing'
  <2>1. pc \in InEngine => Eng!AtPlace(Proof!Step)' /\ Eng!AtSign(Proof!Step)'
    BY <1>2 DEF CatalogInv, Standing, Eng!AtPlace, Eng!AtSign, Eng!Previous, Eng!HasErr, Eng!Confirmed
  <2>. QED
    BY <1>2, <2>1 DEF CatalogInv, Standing
<1>6. InsideAsset'
  BY <1>2 DEF CatalogInv, InsideAsset
<1>7. \A a \in receipts' : Earned(a)'
  BY DEF CatalogInv, Earned
<1>. QED
  BY <1>1, <1>3, <1>4, <1>5, <1>6, <1>7 DEF CatalogInv

LEMMA SmokeMoves ==
  ASSUME Proof!ResumableAssumption, CatalogInv, Proof!Smoke
  PROVE  CatalogInv'
<1>1. /\ held \in [collateral : Nat, claims : Nat] /\ smoke = [pc |-> smoke.pc, before |-> smoke.before]
      /\ smoke.pc \in {"idle", "mint", "before", "split", "between", "recombine", "final"}
      /\ late \in {"none", "mint", "split", "recombine"}
  BY DEF CatalogInv, Proof!TypeOK
<1>2. UNCHANGED <<journal, tx, balance, pc, faults, completed, baseline, receipts, at>>
  BY DEF Proof!Smoke, Proof!SmokeStarts, Proof!SmokeCompares, Proof!LateLands, Proof!SmokeSends,
         Proof!engineVars, Proof!proofVars
<1>3. ASSUME NEW k \in {"mint", "split", "recombine"}, Proof!Applicable(k)
      PROVE  Proof!Applied(k) \in [collateral : Nat, claims : Nat]
  <2>1. held.collateral \in Nat /\ held.claims \in Nat /\ held = [collateral |-> held.collateral, claims |-> held.claims]
    BY <1>1
  <2>2. /\ k = "split" => held.collateral > 0
        /\ k = "recombine" => held.claims > 0
    BY <1>3 DEF Proof!Applicable
  <2>3. PICK c \in Nat, m \in Nat : held = [collateral |-> c, claims |-> m] /\ (k = "split" => c > 0) /\ (k = "recombine" => m > 0)
    BY <2>1, <2>2
  <2>4. CASE k = "mint"
    <3>1. Proof!Applied(k) = [collateral |-> c + 1, claims |-> m]
      BY <2>3, <2>4 DEF Proof!Applied
    <3>. QED
      BY <3>1
  <2>5. CASE k = "split"
    <3>1. Proof!Applied(k) = [collateral |-> c - 1, claims |-> m + 1]
      BY <2>3, <2>5 DEF Proof!Applied
    <3>. QED
      BY <2>3, <2>5, <3>1
  <2>6. CASE k = "recombine"
    <3>1. Proof!Applied(k) = [collateral |-> c + 1, claims |-> m - 1]
      BY <2>3, <2>6 DEF Proof!Applied
    <3>. QED
      BY <2>3, <2>6, <3>1
  <2>. QED
    BY <2>4, <2>5, <2>6
<1>4. CASE Proof!SmokeStarts
  <2>1. PICK p, b : smoke = [pc |-> p, before |-> b]
    BY <1>1
  <2>2. smoke' = [pc |-> "mint", before |-> b]
    BY <1>4, <2>1 DEF Proof!SmokeStarts
  <2>3. late' = late /\ held' = held
    BY <1>4 DEF Proof!SmokeStarts
  <2>. QED
    BY <1>1, <1>2, <2>2, <2>3, SmokeAside
<1>5. ASSUME NEW k \in {"mint", "split", "recombine"}, Proof!SmokeSends(k)
      PROVE  CatalogInv'
  <2>1. PICK p, b : smoke = [pc |-> p, before |-> b]
    BY <1>1
  <2>2. /\ \/ smoke' = [pc |-> Proof!After(k), before |-> b] /\ late' = late /\ held' = Proof!Applied(k)
              /\ Proof!Applicable(k)
           \/ smoke' = [pc |-> "idle", before |-> Proof!NoSnapshot] /\ late' = k /\ held' = held
    BY <1>5, <2>1 DEF Proof!SmokeSends
  <2>3. Proof!After(k) \in {"before", "between", "final"}
    BY DEF Proof!After
  <2>4. held' \in [collateral : Nat, claims : Nat] /\ late' \in {"none", "mint", "split", "recombine"}
    BY <1>1, <1>3, <2>2
  <2>5. /\ smoke' = [pc |-> smoke'.pc, before |-> smoke'.before]
        /\ smoke'.pc \in {"idle", "mint", "before", "split", "between", "recombine", "final"}
    BY <2>2, <2>3
  <2>. QED
    BY <1>2, <2>4, <2>5, SmokeAside
<1>6. CASE Proof!SmokeCompares
  <2>1. PICK p, b : smoke = [pc |-> p, before |-> b]
    BY <1>1
  <2>2. PICK c : /\ \/ smoke' = [pc |-> "split", before |-> c]
                    \/ smoke' = [smoke EXCEPT !.pc = "recombine"]
                    \/ smoke' = [pc |-> "idle", before |-> Proof!NoSnapshot]
    BY <1>6 DEF Proof!SmokeCompares
  <2>3. \/ smoke' = [pc |-> "split", before |-> c]
        \/ smoke' = [pc |-> "recombine", before |-> b]
        \/ smoke' = [pc |-> "idle", before |-> Proof!NoSnapshot]
    BY <2>1, <2>2
  <2>4. /\ smoke' = [pc |-> smoke'.pc, before |-> smoke'.before]
        /\ smoke'.pc \in {"idle", "mint", "before", "split", "between", "recombine", "final"}
    BY <2>3
  <2>5. late' = late /\ held' = held
    BY <1>6 DEF Proof!SmokeCompares
  <2>. QED
    BY <1>1, <1>2, <2>4, <2>5, SmokeAside
<1>7. CASE Proof!LateLands
  <2>1. /\ late' = "none" /\ smoke' = smoke /\ late \in {"mint", "split", "recombine"}
        /\ held' = held \/ (Proof!Applicable(late) /\ held' = Proof!Applied(late))
    BY <1>1, <1>7 DEF Proof!LateLands
  <2>2. held' \in [collateral : Nat, claims : Nat]
    <3>1. PICK k \in {"mint", "split", "recombine"} : k = late
      BY <2>1
    <3>. QED
      BY <1>1, <1>3, <2>1, <3>1
  <2>. QED
    BY <1>1, <1>2, <2>1, <2>2, SmokeAside
<1>. QED
  BY <1>4, <1>5, <1>6, <1>7 DEF Proof!Smoke

LEMMA CatalogStep ==
  ASSUME Proof!ResumableAssumption, Proof!CatalogAssumption, ForkedErrors = FALSE, CatalogInv,
         Proof!Next
  PROVE  CatalogInv'
BY ProofRuns, ProofEnters, ProofRecordsBaseline, ProofInEngine, ProofCompletes, ProofPublishes, ProofFinishes,
   SmokeMoves, ProofOnChain DEF Proof!Next, Proof!Proof

\* What that says of the receipts and the admin's balance.
LEMMA CatalogSays ==
  ASSUME Proof!ResumableAssumption, CatalogInv
  PROVE  /\ Proof!TypeOK /\ Proof!StepTakesEffectOnce /\ Proof!AdminPaysOnce
         /\ Proof!ReceiptIsEarned
<1>1. Eng!EngineTypeOK /\ Eng!Journaled /\ Eng!Superseded /\ Eng!ResumableAssumption
  BY SameTypes DEF CatalogInv, CatalogEngine, Proof!TypeOK
<1>2. Eng!StepTakesEffectOnce
  BY <1>1, Eng!ExactSays
<1>3. Proof!StepTakesEffectOnce
  BY <1>2 DEF Eng!StepTakesEffectOnce, Proof!StepTakesEffectOnce, Eng!Landed, Proof!Landed
<1>4. Proof!AdminPaysOnce
  BY DEF CatalogInv, FundingFits, Proof!AdminPaysOnce
<1>5. ASSUME NEW a \in receipts, NEW k \in {"mint", "deposit", "recombine"}
      PROVE  /\ Proof!Times(k, a) = 1 /\ completed[<<k, a>>] # 0
             /\ Proof!Confirmed(tx[completed[<<k, a>>]])
  <2>1. <<k, a>> \in ProofSteps /\ completed[<<k, a>>] # 0
    BY <1>5, AssetFacts DEF CatalogInv, Earned, Proof!TypeOK
  <2>2. PICK n : n = completed[<<k, a>>] /\ n \in DOMAIN tx /\ tx[n].step = <<k, a>> /\ Confirmed(tx[n])
    BY <2>1 DEF CatalogInv, Completions
  <2>3. {t \in DOMAIN tx : tx[t].step = <<k, a>> /\ Proof!Confirmed(tx[t])} = {n}
    <3>. SUFFICES ASSUME NEW t \in DOMAIN tx, t # n, tx[t].step = <<k, a>>, Confirmed(tx[t])
                  PROVE  FALSE
      BY <2>2 DEF Confirmed, Proof!Confirmed
    <3>. QED
      BY <1>2, <2>2 DEF Eng!StepTakesEffectOnce, Eng!Landed, Confirmed
  <2>4. Proof!Times(k, a) = Cardinality({n})
    BY <2>3, Zenon DEF Proof!Times, Proof!Cardinality, Cardinality
  <2>. QED
    BY <2>1, <2>2, <2>4, FS_Singleton DEF Confirmed, Proof!Confirmed
<1>6. Proof!ReceiptIsEarned
  <2>. SUFFICES ASSUME NEW a \in receipts PROVE Proof!Collateral(a) = 1 /\ Proof!Claims(a) = 0
    BY <1>5 DEF Proof!ReceiptIsEarned
  <2>1. Proof!Times("mint", a) = 1 /\ Proof!Times("deposit", a) = 1 /\ Proof!Times("recombine", a) = 1
    BY <1>5
  <2>. QED
    BY <2>1 DEF Proof!Collateral, Proof!Claims
<1>. QED
  BY <1>3, <1>4, <1>6 DEF CatalogInv

-----------------------------------------------------------------------------
(* The parts of a behaviour, and what is asked of them.                    *)

\* Blocks that reported a failure are dropped too, and state.json may be lost.
Worst == INSTANCE OperatorProofs WITH
  ForkedErrors <- TRUE, StateCanBeLost <- TRUE, BootstrapCeiling <- 20, ExpansionCeiling <- 20,
  MaxFaults <- WorstFaults

\* Ceilings that nothing reaches.
Ample == INSTANCE DevnetBootstrap WITH BootstrapCeiling <- 20, ExpansionCeiling <- 20, MaxFaults <- 1

\* Nobody else works on the vaults.
Alone == INSTANCE CatalogProof WITH
  Steps <- ProofSteps, Repeatable <- {}, Cost <- ProofCost, Fee <- ProofFee, MaxFaults <- 1,
  MaxSmoke <- 0

\* Nobody else moves the balances.
Quiet == INSTANCE FaucetEndowment WITH Fee <- TransferFee, MaxHeight <- 2, MaxMoves <- 0

ASSUME PartsAssumption ==
  /\ BootstrapAssumption /\ Worst!BootstrapAssumption /\ Worst!ResumableAssumption
  /\ Proof!ResumableAssumption /\ Proof!CatalogAssumption
  /\ Endow!EndowmentAssumption /\ Capacity!ProbeAssumption /\ Provider!ProbeAssumption

MCInit ==
  /\ part \in {"tool", "worst", "ample", "proof", "alone", "endow", "quiet", "capacity", "provider"}
  /\ IF part \in {"proof", "alone"} THEN Proof!InitEngine ELSE InitEngine
  /\ InitTool /\ Proof!InitProof /\ Endow!Init
  /\ IF part = "provider" THEN Provider!Init ELSE Capacity!Init

MCNext ==
  \/ /\ (part = "tool" /\ Next) \/ (part = "worst" /\ Worst!Next) \/ (part = "ample" /\ Ample!Next)
     /\ UNCHANGED <<part, proofVars, endowVars, probeVars>>
  \/ /\ (part = "proof" /\ Proof!Next) \/ (part = "alone" /\ Alone!Next)
     /\ UNCHANGED <<part, toolVars, endowVars, probeVars>>
  \/ /\ (part = "endow" /\ Endow!Next) \/ (part = "quiet" /\ Quiet!Next)
     /\ UNCHANGED <<part, vars, proofVars, probeVars>>
  \/ /\ (part = "capacity" /\ Capacity!Next) \/ (part = "provider" /\ Provider!Next)
     /\ UNCHANGED <<part, vars, proofVars, endowVars>>

\* The operator repeats the command that is still unfinished, the tool runs on
\* unless it is stopped, blocks keep coming and what a block holds is settled.
\* Nothing makes the cluster include a transaction.
ToolFairness ==
  /\ WF_vars(part = "ample" /\ Ample!Tool) /\ WF_vars(part = "ample" /\ Ample!BlocksPass)
  /\ SF_vars(part = "ample" /\ manifest = "none" /\ Ample!Run("bootstrap"))
  /\ SF_vars(part = "ample" /\ manifest = "legacy" /\ Ample!Run("expand"))
  /\ WF_vars(part = "ample" /\ \E t \in DOMAIN tx : Ample!TxSettles(t))

\* The same of the proof.
catalogVars == <<engineVars, at, proofVars>>
ProofFairness ==
  /\ WF_catalogVars(part = "alone" /\ Alone!Proof) /\ WF_catalogVars(part = "alone" /\ Alone!RunProof)
  /\ WF_catalogVars(part = "alone" /\ Alone!Tick /\ UNCHANGED <<at, proofVars>>)
  /\ WF_catalogVars(/\ part = "alone"
                    /\ \E t \in DOMAIN tx : Alone!Settle(t) /\ UNCHANGED <<at, proofVars>>)

\* A run goes on, and its minute passes whatever the cluster answers: strong,
\* because each turn of the loop leaves the place where the clock is read.
EndowFairness ==
  \A r \in Runs : /\ WF_endowVars(part = "quiet" /\ Quiet!RunSteps(r))
                      /\ SF_endowVars(part = "quiet" /\ Quiet!DeadlinePasses(r))

\* A probe goes on with what it can do; a poll may find nothing out for ever.
ProbeFairness == WF_probeVars(part = "provider" /\ Provider!Step)

MCSpec ==
  /\ MCInit /\ [][MCNext]_all
  /\ ToolFairness /\ ProofFairness /\ EndowFairness /\ ProbeFairness

\* However often a command is killed, repeated or run twice at once, each of its
\* steps takes effect once, nothing is sent that the next run does not find, and
\* the admin pays no more than the ceilings.  For the commands that use the step
\* engine this needs two things that the parts "tool" and "proof" assume
\* (ForkedErrors and StateCanBeLost are FALSE): that state.json is kept, and that
\* no block that reported an error is dropped.  The engine replaces an attempt on
\* any error it is told of (transactions.ts 60 and 72), where
\* spec/devnet-runtime-v1.md asks for a definite failure; if the error's block is
\* dropped, the old attempt and the new one may both pay.
NothingPaidTwice ==
  /\ part = "tool" => /\ TypeOK /\ StepTakesEffectOnce /\ OneLiveAttempt /\ SentIsJournaled
                      /\ SpendWithinCeiling
  /\ part = "proof" => Proof!TypeOK /\ Proof!StepTakesEffectOnce /\ Proof!AdminPaysOnce
  /\ part = "endow" => Endow!TypeOK /\ Endow!PaidAtMostOnce /\ Endow!SentIsRecorded

\* What the commands publish is so: a manifest's accounts exist, also after forks
\* and with state.json lost, a proof's receipt was earned, and a transfer's
\* receipt is never contradicted by the chain.  A probe that passed left no
\* sandbox and no ledger behind; the provider probe does leave its meter
\* documents.  A sandbox that the capacity probe may leave is named in its
\* evidence; the provider probe names none.
EvidenceIsTrue ==
  /\ part = "worst" => Worst!ManifestIsReal
  /\ part = "proof" => Proof!ReceiptIsEarned
  /\ part = "endow" => Endow!ReceiptIsTrue /\ Endow!ExpiredNeverPays
  /\ part = "capacity" => Capacity!TypeOK /\ Capacity!PassedIsClean /\ Capacity!LeftIsNamed
  /\ part = "provider" => Provider!PassedIsClean

\* A catalogue and a holder proof whose commands are repeated end: published and
\* proved, or at something that every further run refuses (the Blocked of
\* CatalogueDone and ProofDone).  Each run of the endowment and of the provider
\* probe ends.  The part "ample" has ceilings nothing reaches and keeps
\* state.json; in "alone" nobody else works on the vaults.  A run that is over
\* stays over, and part never changes.
CommandsEnd ==
  <>(/\ part = "ample" => Ample!CatalogueDone
     /\ part = "alone" => Alone!ProofDone
     /\ part = "quiet" => \A r \in Runs : Quiet!RunOver(r)
     /\ part = "provider" => Provider!ProbeOver)

-----------------------------------------------------------------------------
(* The operator's commands together.                                     *)

\* What holds of the part a behaviour is of.
OperatorInv ==
  /\ part = "tool" => SpendInv
  /\ part = "worst" => Worst!ToolInv
  /\ part = "proof" => CatalogInv
  /\ part = "endow" => EndowInv
  /\ part = "capacity" => CapacityInv
  /\ part = "provider" => ProviderInv

\* A step of a behaviour is one of its part, or none.
LEMMA StepOfPart ==
  ASSUME [MCNext]_all
  PROVE  /\ part' = part
         /\ part = "tool" => [Next]_vars
         /\ part = "worst" => [Worst!Next]_vars
         /\ part = "proof" => Proof!Next \/ UNCHANGED <<vars, proofVars>>
         /\ part = "endow" => Endow!Next \/ UNCHANGED endowVars
         /\ part = "capacity" => Capacity!Next \/ UNCHANGED probeVars
         /\ part = "provider" => Provider!Next \/ UNCHANGED probeVars
<1>1. CASE UNCHANGED all
  BY <1>1 DEF all
<1>2. CASE MCNext
  BY <1>2, Zenon DEF MCNext
<1>. QED
  BY <1>1, <1>2

LEMMA PartsStart ==
  ASSUME ForkedErrors = FALSE, StateCanBeLost = FALSE, MCInit
  PROVE  OperatorInv
<1>1. ASSUME part = "tool" PROVE SpendInv
  BY <1>1, PartsAssumption, ResumableAssumption, SpendInit DEF MCInit, Init
<1>2. ASSUME part = "worst" PROVE Worst!ToolInv
  <2>1. Worst!Init
    <3>1. InitEngine /\ InitTool
      BY <1>2 DEF MCInit
    <3>2. Worst!InitEngine
      BY <3>1, Zenon DEF InitEngine, Worst!InitEngine
    <3>3. Worst!InitTool
      BY <3>1, Zenon DEF InitTool, Worst!InitTool, Assets, Worst!Assets, LegacyAssets, AddedAssets,
                Worst!LegacyAssets, Worst!AddedAssets, NoState, Worst!NoState, Worst!NoBaseline, NoBaseline
    <3>. QED
      BY <3>2, <3>3 DEF Worst!Init
  <2>. QED
    BY <2>1, PartsAssumption, Worst!InitTools
<1>3. ASSUME part = "proof" PROVE CatalogInv
  BY <1>3, PartsAssumption, CatalogStarts DEF MCInit
<1>4. EndowInv
  BY PartsAssumption, EndowStarts DEF MCInit
<1>5. ASSUME part = "capacity" PROVE CapacityInv
  BY <1>5, PartsAssumption, CapacityStarts DEF MCInit
<1>6. ASSUME part = "provider" PROVE ProviderInv
  BY <1>6, PartsAssumption, ProviderStarts DEF MCInit
<1>. QED
  BY <1>1, <1>2, <1>3, <1>4, <1>5, <1>6 DEF OperatorInv

\* A step that leaves a part alone keeps what holds of it.
LEMMA PartsRest ==
  /\ Proof!ResumableAssumption /\ CatalogInv /\ UNCHANGED <<vars, proofVars>> => CatalogInv'
  /\ EndowInv /\ UNCHANGED endowVars => EndowInv'
  /\ CapacityInv /\ UNCHANGED probeVars => CapacityInv'
  /\ ProviderInv /\ UNCHANGED probeVars => ProviderInv'
<1>1. ASSUME Proof!ResumableAssumption, CatalogInv, UNCHANGED <<vars, proofVars>> PROVE CatalogInv'
  <2>1. UNCHANGED <<journal, tx, balance, pc, faults, completed, baseline, receipts, at, smoke, late, held>>
    BY <1>1 DEF vars, engineVars, proofVars
  <2>. QED
    BY <1>1, <2>1, SmokeAside DEF CatalogInv, Proof!TypeOK
<1>2. ASSUME EndowInv, UNCHANGED endowVars PROVE EndowInv'
  <2>1. EndowTyped' /\ OneFile'
    BY <1>2 DEF EndowInv, endowVars, EndowTyped, OneFile, RunTyped, Carries
  <2>2. LandedIsFiled' /\ Sound'
    BY <1>2 DEF EndowInv, endowVars, LandedIsFiled, Sound, Concludes, SaysTrue, Succeeded, Lapsed
  <2>. QED
    BY <2>1, <2>2 DEF EndowInv
<1>3. ASSUME CapacityInv, UNCHANGED probeVars PROVE CapacityInv'
  BY <1>3 DEF probeVars, CapacityInv, Capacity!TypeOK, ReceiptTyped, CapacityKnows, CapacityLeaves, CapacityPasses,
              Capacity!Left, Asked
<1>4. ASSUME ProviderInv, UNCHANGED probeVars PROVE ProviderInv'
  BY <1>4 DEF probeVars, ProviderInv, Provider!TypeOK, ReceiptTyped, ProviderKnows, ProviderPasses,
              Provider!Left, Asked
<1>. QED
  BY <1>1, <1>2, <1>3, <1>4

LEMMA PartsStep ==
  ASSUME ForkedErrors = FALSE, StateCanBeLost = FALSE, OperatorInv, [MCNext]_all
  PROVE  OperatorInv'
<1>0. part' = part
  BY StepOfPart
<1>1. ASSUME part = "tool" PROVE SpendInv'
  BY <1>1, StepOfPart, SpendStep, PartsAssumption, ResumableAssumption DEF OperatorInv
<1>2. ASSUME part = "worst" PROVE Worst!ToolInv'
  <2>1. [Worst!Next]_(Worst!vars)
    BY <1>2, StepOfPart DEF vars, Worst!vars, engineVars, Worst!engineVars
  <2>. QED
    BY <1>2, <2>1, Worst!ToolStep, PartsAssumption DEF OperatorInv
<1>3. ASSUME part = "proof" PROVE CatalogInv'
  BY <1>3, StepOfPart, CatalogStep, PartsRest, PartsAssumption DEF OperatorInv
<1>4. ASSUME part = "endow" PROVE EndowInv'
  BY <1>4, StepOfPart, EndowStep, PartsRest, PartsAssumption DEF OperatorInv
<1>5. ASSUME part = "capacity" PROVE CapacityInv'
  BY <1>5, StepOfPart, CapacityStep, PartsRest, PartsAssumption DEF OperatorInv
<1>6. ASSUME part = "provider" PROVE ProviderInv'
  BY <1>6, StepOfPart, ProviderStep, PartsRest, PartsAssumption DEF OperatorInv
<1>. QED
  BY <1>0, <1>1, <1>2, <1>3, <1>4, <1>5, <1>6 DEF OperatorInv

\* What the parts promise.
LEMMA PartsSay ==
  ASSUME OperatorInv
  PROVE  NothingPaidTwice /\ EvidenceIsTrue
<1>1. part = "tool" => TypeOK /\ StepTakesEffectOnce /\ OneLiveAttempt /\ SentIsJournaled /\ SpendWithinCeiling
  BY SpendSays, PartsAssumption, ResumableAssumption DEF OperatorInv
<1>2. part = "worst" => Worst!ManifestIsReal
  BY Worst!PublishedIsReal, PartsAssumption DEF OperatorInv, Worst!ToolInv, Worst!Evidence
<1>3. part = "proof" => Proof!TypeOK /\ Proof!StepTakesEffectOnce /\ Proof!AdminPaysOnce /\ Proof!ReceiptIsEarned
  BY CatalogSays, PartsAssumption DEF OperatorInv
<1>4. part = "endow" => /\ Endow!TypeOK /\ Endow!PaidAtMostOnce /\ Endow!SentIsRecorded
                        /\ Endow!ReceiptIsTrue /\ Endow!ExpiredNeverPays
  BY EndowSays, PartsAssumption DEF OperatorInv
<1>5. /\ part = "capacity" => Capacity!TypeOK /\ Capacity!PassedIsClean /\ Capacity!LeftIsNamed
      /\ part = "provider" => Provider!PassedIsClean
  BY ProbesSay DEF OperatorInv
<1>. QED
  BY <1>1, <1>2, <1>3, <1>4, <1>5 DEF NothingPaidTwice, EvidenceIsTrue

\* For any steps, costs, ceilings, assets, runs, blocks and faults, where a
\* failure that a block reported stays one and state.json is kept: however often
\* a command is killed, repeated or run twice at once, each of its steps takes
\* effect once, nothing is sent that the next run does not find, and the admin
\* pays no more than the ceilings.
THEOREM OperatorPaysOnce ==
  ASSUME ForkedErrors = FALSE, StateCanBeLost = FALSE
  PROVE  MCSpec => []NothingPaidTwice
<1>1. MCInit => OperatorInv
  BY PartsStart
<1>2. OperatorInv /\ [MCNext]_all => OperatorInv'
  BY PartsStep
<1>3. OperatorInv => NothingPaidTwice
  BY PartsSay
<1>. QED
  BY <1>1, <1>2, <1>3, PTL DEF MCSpec

\* For the same commands: a manifest's accounts exist even where blocks that
\* reported a failure are dropped and state.json is lost, a proof's receipt was
\* earned, the chain never contradicts a transfer's receipt, and a probe that
\* passed left no sandbox and no ledger behind (but the provider probe its meter
\* documents).
THEOREM OperatorEvidence ==
  ASSUME ForkedErrors = FALSE, StateCanBeLost = FALSE
  PROVE  MCSpec => []EvidenceIsTrue
<1>1. MCInit => OperatorInv
  BY PartsStart
<1>2. OperatorInv /\ [MCNext]_all => OperatorInv'
  BY PartsStep
<1>3. OperatorInv => EvidenceIsTrue
  BY PartsSay
<1>. QED
  BY <1>1, <1>2, <1>3, PTL DEF MCSpec

=============================================================================
