--------------------------- MODULE GuidedRuntime ---------------------------
(***************************************************************************)
(* The guided demo server (packages/guided-runtime/src/server.ts and       *)
(* runtime.ts): one public state with a revision, mutated by two serialized*)
(* requests - start a fresh session, run exactly the next step - that      *)
(* return at once, and by the operation they leave running behind them     *)
(* (runSetup, runStep), which sends transactions, journals each one before *)
(* it waits for its confirmation, and ends in `ready`, `complete` or, after*)
(* a last look at the chain, `failed`.  Every change of the state is saved *)
(* by update -> persist, whose writes are chained one behind the other;    *)
(* every await is a place where another request or write may come first.   *)
(*                                                                         *)
(* Operations act on `this`: on whatever session, chain and state are      *)
(* current when they get to run, not on those they were started for.       *)
(*                                                                         *)
(* Abstractions: a step is TxPerStep transactions (what they do to the     *)
(* balances is GuidedJourney); runtimeId is constant for a process;        *)
(* receipts repeat the state and are left out.                             *)
(***************************************************************************)
EXTENDS Integers, Sequences, FiniteSets

CONSTANTS
  NumSteps,        \* the length of DEMO_STEPS
  TxPerStep,       \* transactions of the setup and of a step
  MaxSessions,     \* bound: sessions started
  MaxQueue,        \* bound: requests waiting at the same time
  RpcCanFail,      \* reads, sends and confirmations may fail
  PersistCanFail   \* writePrivateJson may fail

\* What the instances of this module satisfy.
GuidedAssumption ==
  /\ NumSteps \in Nat \ {0} /\ TxPerStep \in Nat \ {0}
  /\ MaxSessions \in Nat /\ MaxQueue \in Nat
  /\ {RpcCanFail, PersistCanFail} \subseteq BOOLEAN

VARIABLES
  state,           \* this.state, the public DemoState
  net,             \* the session whose chain `this.connection` reaches, 0 if none
  tasks,           \* operations running behind an answered request
  queue,           \* mutationTail: requests not handled yet
  handler,         \* the request whose update is being persisted, or Idle
  writes,          \* persistenceTail: values not yet on disk
  disk,            \* the state file, and the signatures in each session's file
  sent             \* history: transactions each chain has executed

vars == <<state, net, tasks, queue, handler, writes, disk, sent>>

Setup == 0                   \* activeStep 'setup'; the steps are 1 .. NumSteps
None == -1
Idle == [kind |-> "none"]
Sessions == 0 .. MaxSessions
Handler == <<None, None>>    \* owner of a write awaited by a request

Init ==
  /\ state = [revision |-> 0, session |-> 0, status |-> "idle", active |-> None, next |-> None,
              completed |-> <<>>, txs |-> {}]
  /\ net = 0 /\ tasks = {} /\ queue = <<>> /\ handler = Idle /\ writes = <<>>
  /\ disk = [revision |-> 0, files |-> [s \in Sessions |-> {}]]
  /\ sent = {}

-----------------------------------------------------------------------------
(* update and persist.                                                     *)

\* persist: a copy of the state joins the tail.
Save(owner, next) ==
  writes' = Append(writes, [owner |-> owner, revision |-> next.revision, session |-> next.session,
                            signatures |-> {x.id : x \in next.txs}])

\* update: the mutation is visible before it is saved.
Update(owner, next) ==
  /\ state' = [next EXCEPT !.revision = state.revision + 1]
  /\ Save(owner, [next EXCEPT !.revision = state.revision + 1])

-----------------------------------------------------------------------------
(* Requests.                                                               *)

\* A client asks for what the state it has just read permits; by the time the
\* request is handled that state may be gone.
Arrive ==
  /\ Len(queue) < MaxQueue
  /\ \E r \in {[kind |-> "start", revision |-> state.revision, session |-> state.session, step |-> Setup],
               [kind |-> "step", revision |-> state.revision, session |-> state.session,
                step |-> state.next]} :
       /\ r.kind = "start" => state.session < MaxSessions
       /\ r.kind = "step" => state.next # None
       /\ queue' = Append(queue, r)
  /\ UNCHANGED <<state, net, tasks, handler, writes, disk, sent>>

AcceptsStart(r) ==
  /\ r.kind = "start"
  /\ r.revision = state.revision
  /\ state.status \in {"idle", "complete", "failed"}

AcceptsStep(r) ==
  /\ r.kind = "step"
  /\ r.session = state.session /\ r.revision = state.revision
  /\ state.status = "ready" /\ state.next = r.step

\* beginStart up to the await of its update: the old chain is stopped.
BeginStart(r) ==
  /\ AcceptsStart(r)
  /\ net' = 0
  /\ handler' = [kind |-> "start", session |-> state.session + 1, step |-> Setup]
  /\ Update(Handler, [state EXCEPT !.session = @ + 1, !.status = "preparing", !.active = Setup,
                                   !.next = None, !.completed = <<>>, !.txs = {}])

BeginStep(r) ==
  /\ AcceptsStep(r)
  /\ handler' = [kind |-> "step", session |-> r.session, step |-> r.step]
  /\ Update(Handler, [state EXCEPT !.status = "running", !.active = r.step, !.next = None])
  /\ UNCHANGED net

\* serialize: one request after the other; a stale one is refused with 409.
HandleRequest ==
  /\ handler = Idle /\ queue # <<>>
  /\ queue' = Tail(queue)
  /\ LET r == Head(queue)
     IN  IF AcceptsStart(r) THEN BeginStart(r)
         ELSE IF AcceptsStep(r) THEN BeginStep(r)
         ELSE UNCHANGED <<state, net, handler, writes>>
  /\ UNCHANGED <<tasks, disk, sent>>

-----------------------------------------------------------------------------
(* Operations.                                                             *)

Owner(t) == <<t.session, t.step>>
Becomes(t, pc) == tasks' = (tasks \ {t}) \cup {[t EXCEPT !.pc = pc]}
Throws(t) == Becomes(t, "failing")
TxId(t) == <<t.session, t.step, t.i>>

\* runSetup before its first transaction: the captured files are verified and
\* a new chain is started, which becomes the current one.
BootChain(t) ==
  /\ t.pc = "boot"
  /\ net' = t.session
  /\ Save(Owner(t), state)
  /\ Becomes(t, "booted")
  /\ UNCHANGED <<state, queue, handler, disk, sent>>

\* simulateSendAndConfirm up to onSubmitted: the signature is journaled, and
\* the journal awaited, before the confirmation is.  Without a chain there is
\* no session, and on another session's chain the payer does not exist.
Send(t) ==
  /\ t.pc = "send"
  /\ IF net # t.session THEN Throws(t) /\ UNCHANGED <<state, writes, sent>>
     ELSE /\ sent' = sent \cup {[chain |-> net, id |-> TxId(t)]}
          /\ Update(Owner(t), [state EXCEPT !.txs = @ \cup {[id |-> TxId(t), status |-> "submitted"]}])
          /\ Becomes(t, "submitted")
  /\ UNCHANGED <<net, queue, handler, disk>>

\* confirmed: the chain and the journal entry must still be there.
Confirm(t) ==
  /\ t.pc = "confirm"
  /\ LET entry == [id |-> TxId(t), status |-> "submitted"]
     IN  IF entry \notin state.txs \/ net # t.session THEN Throws(t) /\ UNCHANGED <<state, writes>>
         ELSE /\ Update(Owner(t), [state EXCEPT !.txs =
                                     (@ \ {entry}) \cup {[entry EXCEPT !.status = "confirmed"]}])
              /\ Becomes(t, "confirmed")
  /\ UNCHANGED <<net, queue, handler, disk, sent>>

\* The closing snapshot verified the backing: runSetup opens the first step,
\* runStep the one after it.
Finish(t) ==
  /\ t.pc = "check"
  /\ LET completed == IF t.step = Setup THEN state.completed ELSE Append(state.completed, t.step)
         more == Len(completed) < NumSteps
     IN  IF net = 0 THEN Throws(t) /\ UNCHANGED <<state, writes>>
         ELSE /\ Update(Owner(t),
                   [state EXCEPT !.completed = completed, !.active = None,
                                 !.next = IF more THEN Len(completed) + 1 ELSE None,
                                 !.status = IF more THEN "ready" ELSE "complete"])
              /\ Becomes(t, "done")
  /\ UNCHANGED <<net, queue, handler, disk, sent>>

\* A read, a send, a confirmation or a check throws; a send that throws may
\* have been executed.
Breaks(t) ==
  /\ RpcCanFail
  /\ t.pc \in {"boot", "send", "confirm", "check"}
  /\ Throws(t)
  /\ \/ UNCHANGED sent
     \/ t.pc = "send" /\ net = t.session /\ sent' = sent \cup {[chain |-> net, id |-> TxId(t)]}
  /\ UNCHANGED <<state, net, queue, handler, writes, disk>>

\* fail: after an awaited snapshot the state, whichever session it is by now,
\* becomes failed.
Fail(t) ==
  /\ t.pc = "failing"
  /\ Update(Owner(t), [state EXCEPT !.status = "failed", !.active = None, !.next = None])
  /\ Becomes(t, "failed")
  /\ UNCHANGED <<net, queue, handler, disk, sent>>

Operation(t) == BootChain(t) \/ Send(t) \/ Confirm(t) \/ Finish(t) \/ Breaks(t) \/ Fail(t)

-----------------------------------------------------------------------------
(* The write at the head of the persistence tail.                          *)

\* Where an operation goes on when its write is done.
Resumed(t) ==
  IF t.pc \in {"done", "failed"} THEN {}
  ELSE IF t.pc = "confirmed" /\ t.i < TxPerStep THEN {[t EXCEPT !.pc = "send", !.i = @ + 1]}
  ELSE {[t EXCEPT !.pc = CASE t.pc = "booted" -> "send"
                           [] t.pc = "submitted" -> "confirm"
                           [] t.pc = "confirmed" -> "check"]}

\* ... and where when it failed; fail itself ignores that.
Interrupted(t) == IF t.pc = "failed" THEN {} ELSE {[t EXCEPT !.pc = "failing"]}

Waiting(owner) == {t \in tasks : Owner(t) = owner /\ t.pc \in {"booted", "submitted", "confirmed", "done", "failed"}}

\* An answered request leaves its operation behind.
Spawned ==
  {[session |-> handler.session, step |-> handler.step, i |-> 1,
    pc |-> IF handler.kind = "start" THEN "boot" ELSE "send"]}

Written ==
  /\ writes # <<>>
  /\ LET w == Head(writes)
         own == Waiting(w.owner)
     IN  /\ disk' = [revision |-> w.revision, files |-> [disk.files EXCEPT ![w.session] = w.signatures]]
         /\ IF w.owner = Handler
            THEN tasks' = tasks \cup Spawned /\ handler' = Idle
            ELSE tasks' = (tasks \ own) \cup UNION {Resumed(t) : t \in own} /\ UNCHANGED handler
  /\ writes' = Tail(writes)
  /\ UNCHANGED <<state, net, queue, sent>>

WriteFails ==
  /\ PersistCanFail /\ writes # <<>>
  /\ LET w == Head(writes)
         own == Waiting(w.owner)
     IN  IF w.owner = Handler
         THEN handler' = Idle /\ UNCHANGED tasks
         ELSE tasks' = (tasks \ own) \cup UNION {Interrupted(t) : t \in own} /\ UNCHANGED handler
  /\ writes' = Tail(writes)
  /\ UNCHANGED <<state, net, queue, disk, sent>>

-----------------------------------------------------------------------------

Next ==
  \/ Arrive \/ HandleRequest \/ Written \/ WriteFails
  \/ \E t \in tasks : Operation(t)

Spec == Init /\ [][Next]_vars

-----------------------------------------------------------------------------
(* Properties.                                                             *)

Active == {t \in tasks : t.pc \notin {"done", "failed"}}

TypeOK ==
  /\ state.revision \in Nat /\ state.session \in Sessions
  /\ state.status \in {"idle", "preparing", "ready", "running", "failed", "complete"}
  /\ state.active \in None .. NumSteps /\ state.next \in {None} \cup 1 .. NumSteps
  /\ state.completed \in Seq(1 .. NumSteps) /\ Len(state.completed) <= NumSteps
  /\ net \in Sessions /\ Len(queue) <= MaxQueue
  /\ \A t \in tasks : t.session \in Sessions /\ t.step \in Setup .. NumSteps /\ t.i \in 1 .. TxPerStep
  /\ disk.revision \in Nat

\* A pending operation is never reset and never doubled: while one is running
\* it is the only one, it belongs to the current session, it is the step the
\* state names, and it works on that session's own chain ("Never reset a
\* pending operation", spec/guided-demos-v1.md).
OneOperation ==
  \A t \in Active :
    /\ Active = {t}
    /\ t.session = state.session
    /\ state.status \in {"preparing", "running"} /\ state.active = t.step
    /\ net = IF t.pc = "boot" \/ (t.pc = "failing" /\ net = 0) THEN 0 ELSE t.session

\* However requests are repeated, delayed and raced, and whatever fails, no
\* step is begun twice in a session and no chain executes a transaction of the
\* journey a second time ("Repeated/stale revisions reject with 409 and never
\* repeat a transaction").
NothingRepeated ==
  /\ \A t \in tasks : \A u \in tasks : Owner(t) = Owner(u) => t = u
  /\ \A t \in tasks : t.pc = "send" => [chain |-> net, id |-> TxId(t)] \notin sent

\* While a confirmation is awaited its signature is already in the session's
\* file: a process that dies has recorded it ("Record submitted signatures
\* before awaiting confirmation").
JournaledBeforeConfirm ==
  \A t \in tasks : t.pc = "confirm" => TxId(t) \in disk.files[t.session]

\* What the state calls complete happened: the completed steps are the first
\* ones of the journey, each with all its transactions executed on the
\* current chain, and no entry is unconfirmed when a next step is offered.
CompletedIsConfirmed ==
  /\ \A k \in DOMAIN state.completed :
       /\ state.completed[k] = k
       /\ \A i \in 1 .. TxPerStep :
            /\ [chain |-> state.session, id |-> <<state.session, k, i>>] \in sent
            /\ [id |-> <<state.session, k, i>>, status |-> "confirmed"] \in state.txs
  /\ state.status \in {"ready", "complete"} => \A x \in state.txs : x.status = "confirmed"

\* The file on disk never goes back to an earlier revision.
DiskForward == disk'.revision >= disk.revision

\* Whatever was accepted ends: the state does not stay `preparing` or
\* `running` for ever, so that the next step or a fresh run is on offer.
OperationEnds ==
  \A s \in Sessions :
    (state.session = s /\ state.status \in {"preparing", "running"})
      ~> (state.session # s \/ state.status \in {"ready", "complete", "failed"})
=============================================================================
