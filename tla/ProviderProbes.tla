--------------------------- MODULE ProviderProbes ---------------------------
(***************************************************************************)
(* The two probes an operator runs against the real sandbox provider       *)
(* (scripts/hosting/guided-capacity-probe.mjs in its provider mode, and    *)
(* hosted-provider-probe.mjs): both start sandboxes through a broker with  *)
(* a ledger of their own, check them, and must stop and delete what they   *)
(* started and the documents they wrote, whatever failed on the way.       *)
(*                                                                         *)
(* They differ in how they know the sandboxes to clean up after.  The      *)
(* capacity probe notes a name before it asks for the sandbox, and keeps   *)
(* its ledger when the fate of one is not known; the other reads the names *)
(* from its ledger and deletes the ledger always.  A visitor stands for    *)
(* its session, its sandbox's name and its meter: each starts once.        *)
(*                                                                         *)
(* A call to the provider that is given up may still be carried out later  *)
(* (a sandbox that is "coming").  A write of the store is carried out or   *)
(* not when its call ends.                                                 *)
(***************************************************************************)
EXTENDS Integers, FiniteSets

CONSTANTS
  Probe,      \* "capacity" or "provider"
  Sessions,   \* SESSIONS
  BatchSize   \* PROVIDER_BATCH; one for the probe that starts them in turn

\* What the instances of this module satisfy.
ProbeAssumption ==
  /\ Probe \in {"capacity", "provider"}
  /\ Sessions \in Nat \ {0} /\ BatchSize \in 1..Sessions

VARIABLES
  phase,     \* run, states, ledger, boxes, blobs, done; killed
  batch,     \* the first visitor of the batch under way
  pc,        \* how far each visitor's start has come
  boxes,     \* the provider's sandboxes
  sessions,  \* the probe's ledger: the status of each visitor's session
  ledger,    \* whether the ledger document is there
  meters,    \* the meter documents
  known,     \* createdProviders or providerNames
  created,   \* names whose create was answered
  todo,      \* visitors the loop of the phase has not come to
  looked,    \* names whose sandbox cleanupProvider has seen and will stop
  receipt    \* what the evidence file will say

run == <<batch, pc, sessions, created>>
vars == <<phase, run, boxes, ledger, meters, known, todo, looked, receipt>>

Visitors == 1..Sessions
Live == {"pending", "running", "stopping"}
Ended == {"stopped", "failed", "aborted"}

Init ==
  /\ phase = "run" /\ batch = 1
  /\ pc = [v \in Visitors |-> "wait"]
  /\ boxes = [v \in Visitors |-> "none"]
  /\ sessions = [v \in Visitors |-> "none"]
  /\ ledger = FALSE
  /\ meters = [v \in Visitors |-> FALSE]
  /\ known = {} /\ created = {} /\ todo = {} /\ looked = {}
  /\ receipt = [status |-> "started", ready |-> {}, uncertain |-> {}, unread |-> FALSE, retained |-> FALSE]

Batch == {v \in Visitors : v \in batch..(batch + BatchSize - 1)}
At(v, at) == phase = "run" /\ v \in Batch /\ pc[v] = at
Goes(v, at) == pc' = [pc EXCEPT ![v] = at]
Becomes(v, status) == sessions' = [sessions EXCEPT ![v] = status]

-----------------------------------------------------------------------------
(* The broker and the provider, as the probes use them.                    *)

\* start: the reservation, whose answer may be lost.
Reserve(v) ==
  /\ At(v, "wait")
  /\ \/ Becomes(v, "starting") /\ ledger' = TRUE /\ \E at \in {"create", "rejected"} : Goes(v, at)
     \/ Goes(v, "rejected") /\ UNCHANGED <<sessions, ledger>>
  /\ UNCHANGED <<phase, batch, boxes, meters, known, created, todo, looked, receipt>>

\* create, through the wrapper that notes the name first.
Create(v) ==
  /\ At(v, "create")
  /\ known' = IF Probe = "capacity" THEN known \union {v} ELSE known
  /\ \/ /\ boxes' = [boxes EXCEPT ![v] = "running"]
        /\ created' = created \union {v}
        /\ Goes(v, "fence") /\ UNCHANGED sessions
     \/ /\ \E left \in {"none", "coming", "running"} : boxes' = [boxes EXCEPT ![v] = left]
        /\ Becomes(v, "failed") /\ Goes(v, "rejected") /\ UNCHANGED created
  /\ UNCHANGED <<phase, batch, ledger, meters, todo, looked, receipt>>

\* The launch fence, and the launch.
Launch(v) ==
  /\ At(v, "fence")
  /\ \/ Goes(v, "poll") /\ UNCHANGED <<sessions, boxes>>
     \/ Goes(v, "rejected") /\ sessions' \in {sessions, [sessions EXCEPT ![v] = "failed"]} /\ UNCHANGED boxes
     \/ /\ Goes(v, "rejected") /\ Becomes(v, "failed")                    \* the fence has fallen
        /\ \E left \in {boxes[v], "deleted"} : boxes' = [boxes EXCEPT ![v] = left]
  /\ UNCHANGED <<phase, batch, ledger, meters, known, created, todo, looked, receipt>>

\* current and reconcile: the sandbox answers and its meter and session are
\* written, one of them or both; or nothing is found out.
Poll(v) ==
  /\ At(v, "poll")
  /\ \/ /\ boxes[v] = "running"
        /\ meters' = [meters EXCEPT ![v] = TRUE]
        /\ \/ Becomes(v, "ready") /\ Goes(v, "confirm")
           \/ UNCHANGED <<sessions, pc>>
     \/ /\ boxes[v] \in Ended
        /\ Becomes(v, "failed") /\ Goes(v, "rejected") /\ UNCHANGED meters
     \/ UNCHANGED <<sessions, pc, meters>>
  /\ UNCHANGED <<phase, batch, boxes, ledger, known, created, todo, looked, receipt>>

\* Mutant: the wait goes on while the session starts.
DeadlinePassesNever == FALSE

\* READY_DEADLINE_MS, PROBE_DEADLINE_MS and what a reading of the state may throw.
DeadlinePasses == TRUE

NotReady(v) ==
  /\ At(v, "poll") /\ DeadlinePasses
  /\ Goes(v, "rejected")
  /\ UNCHANGED <<phase, batch, sessions, created, boxes, ledger, meters, known, todo, looked, receipt>>

\* The record is read once more, and the session noted.
Confirm(v) ==
  /\ At(v, "confirm")
  /\ \/ /\ Goes(v, "ready")
        /\ receipt' = [receipt EXCEPT !.ready = @ \union {v}]
        /\ known' = known \union {v}
     \/ Goes(v, "rejected") /\ UNCHANGED <<receipt, known>>
  /\ UNCHANGED <<phase, batch, sessions, created, boxes, ledger, meters, todo, looked>>

\* The provider: a call given up is carried out, a sandbox ends by itself or
\* finishes stopping.
ProviderMoves(v) ==
  /\ \/ boxes[v] = "coming" /\ boxes' = [boxes EXCEPT ![v] = "running"]
     \/ boxes[v] = "coming" /\ boxes' = [boxes EXCEPT ![v] = "none"]
     \/ boxes[v] = "running" /\ \E left \in {"stopped", "failed"} : boxes' = [boxes EXCEPT ![v] = left]
     \/ boxes[v] = "stopping" /\ boxes' = [boxes EXCEPT ![v] = "stopped"]
  /\ UNCHANGED <<phase, run, ledger, meters, known, todo, looked, receipt>>

-----------------------------------------------------------------------------
(* The probe.                                                              *)

\* The try block ends.
Finishes(status) ==
  /\ receipt' = [receipt EXCEPT !.status = status]
  /\ phase' = "ledger" /\ todo' = Visitors

\* The loop's condition, offset < SESSIONS.
LastBatch == batch + BatchSize > Sessions

\* A batch has settled: the first failure ends the run.
EndBatch ==
  /\ phase = "run" /\ \A v \in Batch : pc[v] \in {"ready", "rejected"}
  /\ IF \E v \in Batch : pc[v] = "rejected"
       THEN Finishes("failed") /\ UNCHANGED batch
       ELSE /\ IF LastBatch
                 THEN phase' = "states" /\ UNCHANGED batch
                 ELSE batch' = batch + BatchSize /\ UNCHANGED phase
            /\ UNCHANGED <<receipt, todo>>
  /\ UNCHANGED <<pc, sessions, created, boxes, ledger, meters, known, looked>>

\* proxy to every sandbox; a reading that is not as expected fails the probe.
ReadStates ==
  /\ phase = "states"
  /\ \/ (\A v \in Visitors : boxes[v] = "running") /\ Finishes("passed")
     \/ Finishes("failed")
  /\ UNCHANGED <<run, boxes, ledger, meters, known, looked>>

Uncertain(names) == [receipt EXCEPT !.uncertain = @ \union names]

\* Each session is looked up in the ledger: its meter is closed, or its name
\* learned.  The lookup may fail.
LookUp(v) ==
  /\ phase = "ledger" /\ v \in todo
  /\ todo' = todo \ {v}
  /\ \/ /\ receipt' = IF Probe = "capacity" THEN [receipt EXCEPT !.unread = TRUE]
                      ELSE [receipt EXCEPT !.status = "cleanup_failed"]
        /\ UNCHANGED known
     \/ /\ known' = IF Probe = "provider" /\ sessions[v] # "none" THEN known \union {v} ELSE known
        /\ UNCHANGED receipt
  /\ UNCHANGED <<phase, run, boxes, ledger, meters, looked>>

ToBoxes ==
  /\ phase = "ledger" /\ todo = {}
  /\ phase' = "boxes" /\ todo' = known
  /\ UNCHANGED <<run, boxes, ledger, meters, known, looked, receipt>>

\* providerCreateOutcome: a sandbox whose create was not answered may still come.
MissingIsCertain(v) == v \in created

\* get, before stopAndDelete: of the capacity probe only.
Look(v) ==
  /\ phase = "boxes" /\ Probe = "capacity" /\ v \in todo \ looked
  /\ \/ /\ boxes[v] \in (Live \union Ended) \ {"stopping"}
        /\ looked' = looked \union {v} /\ todo' = todo /\ UNCHANGED receipt
     \/ /\ boxes[v] \in {"none", "coming", "deleted"}
        /\ receipt' = IF MissingIsCertain(v) THEN receipt ELSE Uncertain({v})
        /\ todo' = todo \ {v} /\ UNCHANGED looked
     \/ receipt' = Uncertain({v}) /\ todo' = todo \ {v} /\ UNCHANGED looked      \* stopping, or no answer
  /\ UNCHANGED <<phase, run, boxes, ledger, meters, known>>

\* What the receipt says after a stop that was not verified.
AfterFailure(v) == IF Probe = "capacity" THEN Uncertain({v}) ELSE [receipt EXCEPT !.status = "cleanup_failed"]

\* stopAndDelete.
StopAndDelete(v) ==
  /\ phase = "boxes" /\ v \in todo /\ (Probe = "capacity" => v \in looked)
  /\ todo' = todo \ {v}
  /\ \/ boxes[v] \in {"none", "coming", "deleted"} /\ UNCHANGED <<boxes, receipt>>
     \/ boxes[v] \in Live \union Ended /\ boxes' = [boxes EXCEPT ![v] = "deleted"] /\ UNCHANGED receipt
     \/ /\ \E left \in {boxes[v], "deleted"} \union (IF boxes[v] = "running" THEN {"stopping", "stopped"} ELSE {}) :
             boxes' = [boxes EXCEPT ![v] = left]
        /\ receipt' = AfterFailure(v)
  /\ UNCHANGED <<phase, run, ledger, meters, known, looked>>

\* allReconciled
Reconciled == receipt.uncertain = {} /\ ~ receipt.unread

ToBlobs ==
  /\ phase = "boxes" /\ todo = {}
  /\ \/ /\ Probe = "capacity" /\ ~ Reconciled
        /\ receipt' = [receipt EXCEPT !.retained = TRUE, !.status = "cleanup_failed"]
        /\ UNCHANGED <<ledger, meters>>
     \/ /\ Probe = "capacity" /\ Reconciled
        /\ \/ meters' = [v \in Visitors |-> FALSE] /\ ledger' = FALSE /\ UNCHANGED receipt
           \/ /\ receipt' = [receipt EXCEPT !.status = "cleanup_failed"]          \* some are not deleted
              /\ meters' \in {m \in [Visitors -> BOOLEAN] : \A v \in Visitors : m[v] => meters[v]}
              /\ ledger' \in {FALSE, ledger}
     \/ /\ Probe = "provider"                                                     \* the ledger alone
        /\ \/ ledger' = FALSE /\ UNCHANGED receipt
           \/ ledger' \in {FALSE, ledger} /\ receipt' = [receipt EXCEPT !.status = "cleanup_failed"]
        /\ UNCHANGED meters
  /\ phase' = "blobs"
  /\ UNCHANGED <<run, boxes, known, todo, looked>>

\* The evidence file, reserved at the start, is written.
Write ==
  /\ phase = "blobs" /\ phase' = "done"
  /\ UNCHANGED <<run, boxes, ledger, meters, known, todo, looked, receipt>>

Kill ==
  /\ phase \notin {"done", "killed"} /\ phase' = "killed"
  /\ UNCHANGED <<run, boxes, ledger, meters, known, todo, looked, receipt>>

Step ==
  \/ \E v \in Visitors : Reserve(v) \/ Create(v) \/ Launch(v) \/ NotReady(v) \/ Confirm(v)
                           \/ LookUp(v) \/ Look(v) \/ StopAndDelete(v)
  \/ EndBatch \/ ReadStates \/ ToBoxes \/ ToBlobs \/ Write

Next == Step \/ (\E v \in Visitors : Poll(v) \/ ProviderMoves(v)) \/ Kill

Spec == Init /\ [][Next]_vars

-----------------------------------------------------------------------------
(* Properties.                                                             *)

TypeOK ==
  /\ phase \in {"run", "states", "ledger", "boxes", "blobs", "done", "killed"}
  /\ batch \in Visitors
  /\ pc \in [Visitors -> {"wait", "create", "fence", "poll", "confirm", "ready", "rejected"}]
  /\ boxes \in [Visitors -> Live \union Ended \union {"none", "coming", "deleted"}]
  /\ sessions \in [Visitors -> {"none", "starting", "ready", "failed"}]
  /\ ledger \in BOOLEAN /\ meters \in [Visitors -> BOOLEAN]
  /\ known \subseteq Visitors /\ created \subseteq Visitors /\ todo \subseteq Visitors /\ looked \subseteq Visitors
  /\ receipt.status \in {"started", "passed", "failed", "cleanup_failed"}

Left(v) == boxes[v] \in Live \union Ended \union {"coming"}

\* Evidence of a passed probe is evidence that no sandbox of it runs, is kept or
\* can still come, and that its ledger is gone.  The provider probe's meter
\* documents stay.
PassedIsClean == (phase = "done" /\ receipt.status = "passed") => (~ ledger /\ \A v \in Visitors : ~ Left(v))

\* The capacity probe never loses a sandbox: one that is left, or may still
\* come, is named in the evidence, and the ledger that knows it is kept.
LeftIsNamed ==
  (phase = "done" /\ Probe = "capacity") =>
    \A v \in Visitors : Left(v) => (v \in receipt.uncertain /\ (sessions[v] # "none" => ledger))

\* The probe has ended with its evidence written, unless it was killed.
ProbeOver == phase \in {"done", "killed"}
=============================================================================
