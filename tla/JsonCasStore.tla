---------------------------- MODULE JsonCasStore ----------------------------
(***************************************************************************)
(* The compare-and-swap store under the broker's and the devnet service's  *)
(* ledgers (packages/hosted-broker/src/json-store.ts): BlobJsonCasStore    *)
(* and mutateJson, called by several serverless functions at once, over a  *)
(* blob service that answers late, not at all, or with an error.           *)
(*                                                                         *)
(* A document is how often each caller's mutation has been applied.  Its   *)
(* etag is its version: the service makes a new one for every write.       *)
(***************************************************************************)
EXTENDS Integers

CONSTANTS
  Callers,
  Attempts,        \* options.attempts
  Existing         \* whether the document exists at the start

\* What the instances of this module satisfy.
StoreAssumption == Attempts \in Nat \ {0} /\ Existing \in BOOLEAN

VARIABLES
  doc,             \* the stored document: present, count, etag
  call,            \* where each mutateJson stands
  flying,          \* puts on their way to the service
  creator          \* history: whose create made the document

storeVars == <<doc, call, flying, creator>>

Zero == [c \in Callers |-> 0]
NoView == [present |-> FALSE, count |-> Zero, etag |-> 0]

\* Fresh: the call begins with a read.
Fresh == [pc |-> "read", attempt |-> 0, gets |-> 0, view |-> NoView]

InitStore ==
  /\ doc = [present |-> Existing, count |-> Zero, etag |-> 0]
  /\ call = [c \in Callers |-> Fresh]
  /\ flying = {}
  /\ creator = {}

To(c, pc) == call' = [call EXCEPT ![c].pc = pc, ![c].gets = 0]

-----------------------------------------------------------------------------
(* read                                                                    *)

\* Mutant: a transient failure is tried again for as long as it lasts.
ReadAgainForever(c) ==
  /\ call[c].pc \in {"read", "recheck"}
  /\ call' = [call EXCEPT ![c].gets = 1 - @]
  /\ UNCHANGED <<doc, flying, creator>>

\* A transient failure of the first GET of a read is tried once more, under
\* the same deadline.
ReadAgain(c) ==
  /\ call[c].pc \in {"read", "recheck"}
  /\ call[c].gets = 0
  /\ call' = [call EXCEPT ![c].gets = 1]
  /\ UNCHANGED <<doc, flying, creator>>

\* Any other failure of a read ends the call: an error of the service, a
\* status that is not 200, an oversized body, a weak or a missing etag.
ReadFails(c) ==
  /\ call[c].pc \in {"read", "recheck"}
  /\ To(c, "failed")
  /\ UNCHANGED <<doc, flying, creator>>

\* The read of mutateJson: the latest document with its etag, or none.
Read(c) ==
  /\ call[c].pc = "read"
  /\ call' = [call EXCEPT ![c].pc = "write", ![c].gets = 0,
                          ![c].view = IF doc.present THEN doc ELSE NoView]
  /\ UNCHANGED <<doc, flying, creator>>

-----------------------------------------------------------------------------
(* create and compareAndSwap                                               *)

\* mutate on a copy of what was read, encoded and put: with the etag of the
\* copy, or as a new document.
Put(c) ==
  /\ call[c].pc = "write"
  /\ flying' = flying \union
       {[caller |-> c, attempt |-> call[c].attempt,
         swap |-> call[c].view.present, etag |-> call[c].view.etag,
         count |-> [call[c].view.count EXCEPT ![c] = @ + 1]]}
  /\ To(c, "sent")
  /\ UNCHANGED <<doc, creator>>

\* Mutant: the service is asked to overwrite whatever is there.
AcceptsAny(p) == p.swap => doc.present

\* The service's conditions: ifMatch, or allowOverwrite false.
Accepts(p) ==
  IF p.swap THEN doc.present /\ doc.etag = p.etag ELSE ~doc.present

Waits(p) == call[p.caller].pc = "sent" /\ call[p.caller].attempt = p.attempt

\* The service carries out or refuses a put that reached it.  Its answer comes
\* back, unless it is lost or the caller no longer waits.
Arrives(p, answered) ==
  /\ flying' = flying \ {p}
  /\ doc' = IF Accepts(p) THEN [present |-> TRUE, count |-> p.count, etag |-> doc.etag + 1] ELSE doc
  /\ creator' = IF Accepts(p) /\ ~p.swap THEN creator \union {p.caller} ELSE creator
  /\ call' = IF ~answered \/ ~Waits(p) THEN call
             ELSE [call EXCEPT ![p.caller].pc =
                     IF Accepts(p) THEN "done" ELSE IF p.swap THEN "conflict" ELSE "recheck"]

\* The put's ten seconds pass, or it fails otherwise, whether or not it was or
\* will be carried out.  A swap ends the call with an error; a create looks.
Unanswered(c) ==
  /\ call[c].pc = "sent"
  /\ To(c, IF call[c].view.present THEN "failed" ELSE "recheck")
  /\ UNCHANGED <<doc, flying, creator>>

\* The read of a create that failed: somebody's document is a conflict, none
\* is an error.
Recheck(c) ==
  /\ call[c].pc = "recheck"
  /\ To(c, IF doc.present THEN "conflict" ELSE "failed")
  /\ UNCHANGED <<doc, flying, creator>>

\* A conflict: the next attempt reads afresh, the last one gives up, JSON_LEDGER_BUSY.
NextAttempt(c) ==
  /\ call[c].pc = "conflict"
  /\ call' = [call EXCEPT ![c].attempt = @ + 1, ![c].view = NoView, ![c].gets = 0,
                          ![c].pc = IF call[c].attempt + 1 < Attempts THEN "read" ELSE "failed"]
  /\ UNCHANGED <<doc, flying, creator>>

-----------------------------------------------------------------------------

Step(c) ==
  ReadAgain(c) \/ ReadFails(c) \/ Read(c) \/ Put(c) \/ Unanswered(c) \/ Recheck(c) \/ NextAttempt(c)

NextStore ==
  \/ \E c \in Callers : Step(c)
  \/ \E p \in flying, answered \in BOOLEAN : Arrives(p, answered)

StoreSpec == InitStore /\ [][NextStore]_storeVars

-----------------------------------------------------------------------------
(* Properties.                                                             *)

StoreTypeOK ==
  /\ doc.count \in [Callers -> Nat]
  /\ \A c \in Callers : /\ call[c].pc \in {"read", "write", "sent", "recheck", "conflict", "done", "failed"}
                        /\ call[c].attempt \in 0..Attempts
                        /\ call[c].gets \in 0..1
  /\ \A p \in flying : p.caller \in Callers

\* No update is lost and none is half applied: each change of the document is
\* one mutation made to the document it replaces, whatever else was read,
\* swapped, delayed or abandoned meanwhile.
Counts == INSTANCE AtomicCounts WITH count <- doc.count
EveryWriteIsOneMutation == Counts!Spec

\* A call that returned has its mutation in the document.
SavedIsKept == \A c \in Callers : call[c].pc = "done" => doc.count[c] >= 1

\* A mutation is applied once: the retries of a busy ledger repeat it only
\* after the service refused it.  The one exception is the very first write,
\* whose lost answer is read as somebody else's create.
AppliedOnce == \A c \in Callers : doc.count[c] <= (IF c \in creator THEN 2 ELSE 1)

\* Every call has returned or thrown.
AllReturned == \A c \in Callers : call[c].pc \in {"done", "failed"}

=============================================================================
