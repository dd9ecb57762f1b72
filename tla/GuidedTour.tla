----------------------------- MODULE GuidedTour -----------------------------
(***************************************************************************)
(* The guided demo's page in its hosted form: HostedGuidedDemos.tsx finds, *)
(* starts and watches the visitor's sandbox, GuidedDemosApp.tsx shows its  *)
(* runtime's state and submits the next step, client.ts makes the          *)
(* requests.  Three clocks run against each other: the session (checks,    *)
(* polls, a singleflight operation that makes a sandbox), the view (reads  *)
(* of the runtime, polled while an action is pending) and the visitor's    *)
(* action, which goes through several requests.  Answers arrive late, in   *)
(* any order or not at all, and a request to a sandbox the broker no       *)
(* longer serves is answered 410.                                          *)
(*                                                                         *)
(* React renders at once after a state change; the broker and the runtime  *)
(* are reduced to what the page reads of them (HostedSessions and          *)
(* GuidedRuntime have them in full).  A sandbox has one runtime, so the    *)
(* number of the session names both; 0 is no session.                      *)
(***************************************************************************)
EXTENDS Integers, Sequences, SequencesExt

CONSTANTS
    MaxId,       \* bound: sandboxes the broker makes
    MaxRev,      \* bound: revisions of a runtime
    MaxReads,    \* bound: reads of the view in flight at once
    MaxLost,     \* bound: requests or answers that are lost
    Starts,      \* what the visitor's session can be when the page is opened
    OtherTab,    \* another tab of the browser may reset the sandbox
    Delays       \* a request may reach the runtime after the page gave it up

\* What the instances of this module satisfy.
TourAssumption ==
    /\ MaxId \in Nat \ {0}
    /\ MaxRev \in Nat \ {0}
    /\ MaxReads \in Nat \ {0}
    /\ MaxLost \in Nat
    /\ Delays \in BOOLEAN /\ OtherTab \in BOOLEAN
    /\ Starts \subseteq {"none", "starting", "ready", "expired"}

Ids == 0 .. MaxId
Revs == 0 .. MaxRev
Statuses == {"none", "starting", "ready", "expired", "failed"}
Sessions == [id: Ids, status: Statuses]
Unread == [id |-> 0, status |-> "unread"]
States == [rev: Revs, status: {"idle", "busy", "ready", "failed", "complete"}]
NoState == [rev |-> 0, status |-> "none"]

\* Answers: Silent stands for a request that is not made, Sent for one not yet
\* looked at, the others for what the page gets.
Silent == [status |-> "silent"]
Sent == [status |-> "sent"]
Failed == [status |-> "error"]
Gone == [status |-> "gone"]
Accepted == [status |-> "accepted"]
Conflict == [status |-> "conflict"]

VARIABLES
    broker,     \* the broker's session of this visitor
    runtime,    \* the runtime of every sandbox
    session,    \* sessionRef.current, and what is rendered
    flags,      \* checking, busy, error, uncertain of HostedGuidedDemos
    asks,       \* its requests in flight, by who made them
    op,         \* the operation of ensureReady
    view,       \* shown, expected, pending of GuidedDemosApp
    reads,      \* its reads of the runtime in flight, in the order they were made
    act,        \* the visitor's action
    late,       \* mutations given up by the page and still on their way
    losses,     \* requests or answers lost so far
    blame       \* history: why the sandbox on screen was last given up

lifeVars == <<session, flags, asks, op>>
viewVars == <<view, reads>>
worldVars == <<broker, runtime, late, losses>>
vars == <<worldVars, lifeVars, viewVars, act, blame>>

\* A request of the page for its session; latest says that generationRef has
\* not moved since.
Who == {"init", "poll", "user", "op", "post"}
OpStates == {"idle", "initial", "check", "post", "reconcile", "delay", "poll"}
ActStates == {"idle", "ensure", "read", "mutate", "reset", "confirm", "reread"}

TypeOK ==
    /\ broker \in Sessions
    /\ runtime \in [1 .. MaxId -> States]
    /\ session \in Sessions \cup {Unread}
    /\ flags \in [checking: BOOLEAN, busy: BOOLEAN, error: BOOLEAN, uncertain: BOOLEAN]
    /\ asks \in [Who -> [latest: BOOLEAN, answer: Sessions \cup {Silent, Sent, Failed}]]
    /\ op \in [pc: OpStates, expected: Ids, blocked: BOOLEAN, result: Ids]
    /\ view.shown \in [id: Ids, state: States \cup {NoState}]
    /\ view.expected \in {-1} \cup Revs
    /\ view.pending \in BOOLEAN /\ view.lost \in BOOLEAN
    /\ \A i \in 1 .. Len(reads) :
          reads[i] \in [id: Ids, old: BOOLEAN, answer: States \cup {Sent, Failed, Gone}]
    /\ act \in [pc: ActStates, id: Ids, rev: Revs, stale: BOOLEAN,
                answer: States \cup {Silent, Sent, Failed, Gone, Accepted, Conflict}]
    /\ late \subseteq [id: Ids, rev: Revs]
    /\ losses \in 0 .. MaxLost

-----------------------------------------------------------------------------
(* The session: HostedGuidedDemos. *)

\* The client the page renders with: the ready session's runtime.
ClientOf(s) == IF s.status = "ready" THEN s.id ELSE 0
Client == ClientOf(session)

NoView == [shown |-> [id |-> 0, state |-> NoState], expected |-> -1,
           pending |-> FALSE, lost |-> FALSE]
NewRead(id) == [id |-> id, old |-> FALSE, answer |-> Sent]

\* The view after the page renders with session s: without a client it is
\* cleared, with another client it reads the runtime.
Render(s, v, rs) ==
    /\ view' = IF ClientOf(s) # Client /\ ClientOf(s) = 0 THEN NoView ELSE v
    /\ reads' = IF ClientOf(s) # Client /\ ClientOf(s) # 0 /\ Len(rs) < MaxReads
                  THEN Append(rs, NewRead(ClientOf(s))) ELSE rs

\* generationRef moves on: what is in flight is no longer the latest.  A check
\* of the page itself is then of no further use, whatever its answer.
Superseded(a) ==
    [w \in Who |-> IF w \in {"poll", "user"} THEN [latest |-> FALSE, answer |-> Silent]
                   ELSE [a[w] EXCEPT !.latest = FALSE]]
Ask(a, who) == [Superseded(a) EXCEPT ![who] = [latest |-> TRUE, answer |-> Sent]]
Answer(who) == asks[who].answer
Answered(who) == Answer(who) \notin {Silent, Sent}
Quiet(a, who) == [a EXCEPT ![who] = [latest |-> FALSE, answer |-> Silent]]

\* accept: the session is shown, its error is the page's, nothing is uncertain.
Accepting(f, s) ==
    [f EXCEPT !.checking = FALSE, !.error = (s.status \in {"failed", "expired"}),
              !.uncertain = FALSE]

\* check refuses a session it has shown as expired.
Resumable(s) == ~(session.status = "expired" /\ s.status = "ready" /\ s.id = session.id)

\* Whether a check's answer may be taken.
Usable(who) == /\ asks[who].latest
               /\ Answer(who) # Failed
               /\ Resumable(Answer(who))

\* The flags of the page after a check that failed.
CheckFailed(who) == IF asks[who].latest
                      THEN [flags EXCEPT !.checking = FALSE, !.error = TRUE]
                      ELSE flags

NoOp == [pc |-> "idle", expected |-> 0, blocked |-> FALSE, result |-> 0]
Done(s) == [NoOp EXCEPT !.result = ClientOf(s)]

\* The operation goes on with session s, the flags f and the requests a: a
\* ready sandbox is handed to whoever waits, a starting one is awaited, one
\* that is gone is replaced unless the outcome of an earlier request is unknown.
GoOn(s, f, a) ==
    IF s.status = "ready"
      THEN op' = Done(s) /\ flags' = [f EXCEPT !.busy = FALSE] /\ asks' = a
      ELSE IF s.status = "starting"
      THEN op' = [op EXCEPT !.pc = "delay"] /\ flags' = f /\ asks' = a
      ELSE IF op.blocked \/ flags.uncertain
      THEN op' = NoOp /\ flags' = [f EXCEPT !.busy = FALSE, !.error = TRUE] /\ asks' = a
      ELSE op' = [op EXCEPT !.pc = "post", !.expected = s.id] /\ flags' = f /\ asks' = Ask(a, "post")

\* The operation awaits a ready sandbox (waitReady): any other end is an error.
Await(s, f, a) ==
    IF s.status = "starting"
      THEN op' = [op EXCEPT !.pc = "delay"] /\ flags' = f /\ asks' = a
      ELSE /\ op' = Done(s)
           /\ flags' = [f EXCEPT !.busy = FALSE, !.error = f.error \/ s.status # "ready"]
           /\ asks' = a

OpFails(f, a) ==
    op' = NoOp /\ flags' = [f EXCEPT !.busy = FALSE, !.error = TRUE] /\ asks' = a

\* ensureReady: the operation under way, or a new one.  s is the session known.
EnsureReady(s, f, a) ==
    IF op.pc # "idle"
      THEN op' = op /\ flags' = f /\ asks' = a
      ELSE IF s = Unread
      THEN /\ op' = [NoOp EXCEPT !.pc = "initial", !.blocked = flags.uncertain]
           /\ flags' = [f EXCEPT !.busy = TRUE, !.error = FALSE]
           /\ asks' = a
      ELSE GoOn(s, [f EXCEPT !.busy = TRUE, !.error = FALSE], a)

Expired(s) == [s EXCEPT !.status = "expired"]

Expires(id) == session.id = id

\* A request for sandbox id was answered 410 (onExpired of client.ts); v and
\* rs are the view and its reads without it.
OnExpired(id, v, rs) ==
    IF Expires(id)
      THEN /\ session' = Expired(session)
           /\ asks' = Superseded(asks)
           /\ flags' = Accepting(flags, Expired(session))
           /\ Render(Expired(session), v, rs)
           /\ blame' = IF session.status = "expired" THEN blame ELSE "gone"
           /\ UNCHANGED op
      ELSE /\ view' = v
           /\ reads' = rs
           /\ UNCHANGED <<lifeVars, blame>>

\* The first read: accepted by the effect that made it, unless overtaken.
InitAnswered ==
    /\ Answered("init") /\ asks["init"].latest /\ op.pc # "initial"
    /\ LET s == Answer("init") IN
       IF s = Failed
         THEN /\ flags' = [flags EXCEPT !.checking = FALSE, !.error = TRUE]
              /\ asks' = Superseded(asks)
              /\ UNCHANGED <<session, viewVars>>
         ELSE /\ flags' = Accepting(flags, s)
              /\ asks' = Superseded(asks)
              /\ session' = s
              /\ Render(s, view, reads)
    /\ UNCHANGED <<worldVars, op, act, blame>>

\* An operation that found no session waits for that first read as well, and
\* checks for itself if it failed.
OpInitial ==
    /\ op.pc = "initial" /\ Answered("init")
    /\ IF Answer("init") = Failed
         THEN /\ asks' = Ask(asks, "op")
              /\ flags' = [flags EXCEPT !.checking = TRUE]
              /\ op' = [op EXCEPT !.pc = "check"]
              /\ UNCHANGED <<session, viewVars>>
         ELSE /\ session' = Answer("init")
              /\ Render(Answer("init"), view, reads)
              /\ GoOn(Answer("init"), Accepting(flags, Answer("init")), Quiet(asks, "op"))
    /\ UNCHANGED <<worldVars, act, blame>>

\* A check of the operation is answered.
OpChecked ==
    /\ op.pc \in {"check", "reconcile", "poll"} /\ Answered("op")
    /\ LET s == Answer("op")
           a == Quiet(asks, "op")
           f == Accepting(flags, s)
       IN
       IF ~Usable("op")
         THEN /\ OpFails([CheckFailed("op") EXCEPT !.uncertain = (op.pc = "reconcile") \/ flags.uncertain], a)
              /\ UNCHANGED <<session, viewVars>>
         ELSE /\ session' = s
              /\ Render(s, view, reads)
              /\ CASE op.pc = "check" -> GoOn(s, f, a)
                   [] op.pc = "poll" -> Await(s, f, a)
                   [] op.pc = "reconcile" ->
                        IF s.status \in {"starting", "ready"} /\ (op.expected # 0 => s.id # op.expected)
                          THEN Await(s, f, a)
                          ELSE OpFails(f, a)
    /\ UNCHANGED <<worldVars, act, blame>>

\* The start or the reset is answered.  A failure is followed by one read and
\* never by a repetition; an answer that was overtaken ends the operation.
OpPosted ==
    /\ op.pc = "post" /\ Answered("post")
    /\ LET s == Answer("post")
           a == Quiet(asks, "post")
       IN
       IF ~asks["post"].latest
         THEN /\ OpFails(flags, a)
              /\ UNCHANGED <<session, viewVars>>
         ELSE IF s = Failed
         THEN /\ op' = [op EXCEPT !.pc = "reconcile"]
              /\ asks' = Ask(a, "op")
              /\ flags' = [flags EXCEPT !.checking = TRUE]
              /\ UNCHANGED <<session, viewVars>>
         ELSE /\ session' = s
              /\ Render(s, view, reads)
              /\ Await(s, Accepting(flags, s), a)
    /\ UNCHANGED <<worldVars, act, blame>>

\* waitReady: two seconds later it checks again, or its deadline has passed.
\* Mutant: without a deadline.
OpWaitsForever ==
    /\ op.pc = "delay"
    /\ op' = [op EXCEPT !.pc = "poll"]
    /\ asks' = Ask(asks, "op")
    /\ flags' = [flags EXCEPT !.checking = TRUE]
    /\ UNCHANGED <<worldVars, session, viewVars, act, blame>>
OpWaits ==
    /\ op.pc = "delay"
    /\ \/ /\ op' = [op EXCEPT !.pc = "poll"]
          /\ asks' = Ask(asks, "op")
          /\ flags' = [flags EXCEPT !.checking = TRUE]
       \/ OpFails(flags, asks)
    /\ UNCHANGED <<worldVars, session, viewVars, act, blame>>

Poll ==
    /\ session.status = "starting" /\ ~flags.busy /\ ~flags.error
    /\ Answer("poll") = Silent
    /\ \/ asks' = Ask(asks, "poll") /\ flags' = [flags EXCEPT !.checking = TRUE]
       \/ asks' = asks /\ flags' = [flags EXCEPT !.error = TRUE]
    /\ UNCHANGED <<worldVars, session, op, viewVars, act, blame>>

\* The visitor's "Check sandbox status".
UserCheck ==
    /\ flags.error /\ ~flags.checking /\ ~flags.busy
    /\ flags.uncertain \/ session.status \notin {"expired", "failed"}
    /\ Answer("user") = Silent
    /\ asks' = Ask(asks, "user")
    /\ flags' = [flags EXCEPT !.checking = TRUE]
    /\ UNCHANGED <<worldVars, session, op, viewVars, act, blame>>

\* Such a check is answered.
Checked ==
    \E who \in {"poll", "user"} :
      /\ Answered(who)
      /\ asks' = Quiet(asks, who)
      /\ IF Usable(who)
           THEN /\ session' = Answer(who)
                /\ flags' = Accepting(flags, Answer(who))
                /\ Render(Answer(who), view, reads)
           ELSE /\ flags' = CheckFailed(who)
                /\ UNCHANGED <<session, viewVars>>
      /\ UNCHANGED <<worldVars, op, act, blame>>

\* The timer of a ready session.
Expiry ==
    /\ session.status = "ready"
    /\ broker.id = session.id => broker.status = "expired"
    /\ session' = Expired(session)
    /\ asks' = Superseded(asks)
    /\ flags' = Accepting(flags, Expired(session))
    /\ Render(Expired(session), view, reads)
    /\ blame' = "clock"
    /\ UNCHANGED <<worldVars, op, act>>

\* No operation runs, and an action that waited for one has gone on: it does so
\* before the visitor's next click.
Free == op.pc = "idle" /\ act.pc \notin {"ensure", "reset"}

\* "Start guided tour".
Hero ==
    /\ Free /\ session.status # "ready"
    /\ EnsureReady(session, flags, asks)
    /\ UNCHANGED <<worldVars, session, viewVars, act, blame>>

\* reset: the sandbox shown is given up and another one made.
Reset ==
    LET s == Expired(session)
        f == Accepting(flags, s)
        a == Superseded(asks)
    IN  /\ session' = s
        /\ EnsureReady(s, f, a)
        /\ blame' = "user"

\* "Start a fresh guided demo".
FreshDemo ==
    /\ Free /\ session.status \in {"expired", "failed"} /\ session.id # 0
    /\ ~flags.uncertain /\ ~flags.busy
    /\ Reset
    /\ Render(session', view, reads)
    /\ UNCHANGED <<worldVars, act>>

-----------------------------------------------------------------------------
(* The view and the action: GuidedDemosApp. *)

\* What is on screen: the state of the client's runtime, or the invitation to
\* choose a company.
Viewed == Client # 0 /\ view.shown.id = Client

AcceptState(v, id, next) ==
    LET prev == v.shown
        changed == \/ prev.id \notin {0, id}
                   \/ prev.id = id /\ prev.state.status = "idle" /\ next.status # "idle"
        expected == IF changed THEN -1 ELSE v.expected
        moved == expected # -1 /\ next.rev > expected
    IN  IF id # Client \/ (prev.id = id /\ next.rev < prev.state.rev)
          THEN v
          ELSE [shown |-> [id |-> id, state |-> next],
                expected |-> IF moved /\ next.status # "busy" THEN -1 ELSE expected,
                pending |-> v.pending /\ ~changed /\ ~moved,
                lost |-> FALSE]

\* The view reads its runtime every 900 ms while it waits for something, and
\* when the visitor checks again after a failed read.
ViewReads ==
    /\ Client # 0 /\ Len(reads) < MaxReads
    /\ \/ view.pending \/ view.shown.state.status = "busy"
       \/ view.lost /\ Viewed /\ act.pc = "idle"
    /\ reads' = Append(reads, NewRead(Client))
    /\ UNCHANGED <<worldVars, lifeVars, view, act, blame>>

\* A read of the view is answered.  It is dropped if the client is another one
\* or a read made later was applied before it.
ReadAnswered ==
    \E i \in 1 .. Len(reads) :
      /\ reads[i].answer # Sent
      /\ LET r == reads[i]
             rest == RemoveAt([j \in 1 .. Len(reads) |->
                                IF j < i THEN [reads[j] EXCEPT !.old = TRUE] ELSE reads[j]], i)
             next == IF r.answer = Failed THEN [view EXCEPT !.lost = TRUE]
                                          ELSE AcceptState(view, r.id, r.answer)
         IN  IF r.answer = Gone
               THEN OnExpired(r.id, view, RemoveAt(reads, i))
               ELSE IF r.id # Client \/ r.old
               THEN reads' = RemoveAt(reads, i) /\ UNCHANGED <<view, lifeVars, blame>>
               ELSE /\ reads' = rest
                    /\ view' = next
                    /\ UNCHANGED <<lifeVars, blame>>
      /\ UNCHANGED <<worldVars, act>>

NoAct == [pc |-> "idle", id |-> 0, rev |-> 0, stale |-> FALSE, answer |-> Silent]
Request(pc, id, rev) == [pc |-> pc, id |-> id, rev |-> rev, stale |-> FALSE, answer |-> Sent]

\* The action goes on with the state it knows: it submits the start or the
\* next step, or gives a finished runtime up for a fresh one; with anything
\* else to do it returns.  v is the view so far.
Submit(id, state, v) ==
    CASE state.status \in {"idle", "ready"} ->
           /\ act' = Request("mutate", id, state.rev)
           /\ view' = [v EXCEPT !.expected = state.rev, !.pending = TRUE, !.lost = FALSE]
           /\ UNCHANGED <<lifeVars, reads, blame>>
      [] state.status \in {"failed", "complete"} ->
           /\ act' = [NoAct EXCEPT !.pc = "reset", !.id = id]
           /\ Reset
           /\ Render(session', v, reads)
      [] OTHER ->
           /\ act' = NoAct
           /\ view' = v
           /\ UNCHANGED <<lifeVars, reads, blame>>

\* The visitor clicks the action on screen; without a state on screen the
\* action first makes sure of a sandbox.
ActionReady == act.pc = "idle" /\ ~view.pending
Click ==
    /\ ActionReady
    /\ IF Viewed
         THEN /\ ~view.lost
              /\ view.shown.state.status # "busy"
              /\ Submit(Client, view.shown.state, view)
         ELSE /\ act' = [NoAct EXCEPT !.pc = "ensure"]
              /\ view' = [view EXCEPT !.pending = TRUE]
              /\ EnsureReady(session, flags, asks)
              /\ UNCHANGED <<session, reads, blame>>
    /\ UNCHANGED worldVars

\* The sandbox is there, or could not be had.
Ensured ==
    /\ act.pc = "ensure" /\ op.pc = "idle"
    /\ IF op.result # 0
         THEN act' = Request("read", op.result, 0) /\ UNCHANGED view
         ELSE act' = NoAct /\ view' = [view EXCEPT !.pending = FALSE]
    /\ UNCHANGED <<worldVars, lifeVars, reads, blame>>

\* The reset of a finished run has ended, one way or the other.
ResetEnds ==
    /\ act.pc = "reset" /\ op.pc = "idle"
    /\ act' = NoAct
    /\ UNCHANGED <<worldVars, lifeVars, viewVars, blame>>

\* The action's first read of the sandbox is answered.
FirstRead ==
    /\ act.pc = "read" /\ act.answer # Sent
    /\ IF act.answer = Gone
         THEN /\ act' = NoAct
              /\ OnExpired(act.id, [view EXCEPT !.pending = FALSE], reads)
         ELSE IF act.answer = Failed
         THEN /\ act' = NoAct
              /\ view' = [view EXCEPT !.pending = FALSE]
              /\ UNCHANGED <<lifeVars, reads, blame>>
         ELSE IF act.id # Client
         THEN /\ act' = NoAct
              /\ UNCHANGED <<lifeVars, viewVars, blame>>
         ELSE Submit(act.id, act.answer, AcceptState(view, act.id, act.answer))
    /\ UNCHANGED worldVars

Mutated ==
    /\ act.pc = "mutate" /\ act.answer # Sent
    /\ IF act.answer = Gone
         THEN act' = NoAct /\ OnExpired(act.id, view, reads)
         ELSE /\ act' = IF act.id # Client THEN NoAct
                        ELSE [act EXCEPT !.pc = IF act.answer = Accepted THEN "confirm" ELSE "reread",
                                         !.stale = (act.answer = Conflict), !.answer = Sent]
              /\ UNCHANGED <<lifeVars, viewVars, blame>>
    /\ UNCHANGED worldVars

\* The read after an accepted action is answered.
Confirmed ==
    /\ act.pc = "confirm" /\ act.answer # Sent
    /\ IF act.answer = Gone
         THEN act' = NoAct /\ OnExpired(act.id, view, reads)
         ELSE IF act.answer = Failed
         THEN /\ act' = IF act.id # Client THEN NoAct ELSE [act EXCEPT !.pc = "reread", !.answer = Sent]
              /\ UNCHANGED <<lifeVars, viewVars, blame>>
         ELSE /\ act' = NoAct
              /\ view' = AcceptState(view, act.id, act.answer)
              /\ UNCHANGED <<lifeVars, reads, blame>>
    /\ UNCHANGED worldVars

\* The read after a failed one is answered: the action is given back if the
\* runtime refused it or stands where it stood.
Reread ==
    /\ act.pc = "reread" /\ act.answer # Sent
    /\ act' = NoAct
    /\ IF act.answer = Gone
         THEN OnExpired(act.id, IF act.stale THEN [view EXCEPT !.pending = FALSE] ELSE view, reads)
         ELSE LET known == act.answer # Failed
                  v == IF known THEN AcceptState(view, act.id, act.answer) ELSE view
                  free == act.stale \/ (IF known THEN act.answer.rev = act.rev ELSE FALSE)
              IN  /\ view' = IF free THEN [v EXCEPT !.expected = -1, !.pending = FALSE] ELSE v
                  /\ UNCHANGED <<lifeVars, reads, blame>>
    /\ UNCHANGED worldVars

-----------------------------------------------------------------------------
(* The broker and the runtimes. *)

Fresh == {[id |-> broker.id + 1, status |-> st] : st \in {"starting", "ready"}}
Live == broker.status \in {"starting", "ready"}

\* What a start or a reset makes of the broker's session.
Outcomes(expected) ==
    IF expected = 0 /\ Live THEN {broker}
    ELSE IF broker.id = MaxId \/ (expected # 0 /\ (expected # broker.id \/ broker.status = "starting"))
    THEN {}
    ELSE Fresh

SandboxMoves ==
    /\ \/ broker.status = "starting" /\ broker' \in {[broker EXCEPT !.status = st] : st \in {"ready", "failed"}}
       \/ broker.status = "ready" /\ broker' = Expired(broker)
       \/ OtherTab /\ broker.id \in 1 .. (MaxId - 1) /\ broker' \in Fresh
    /\ UNCHANGED <<runtime, late, losses, lifeVars, viewVars, act, blame>>

\* An answer arrives, or it is lost.
Delivers(a, got) ==
    \/ got = a /\ UNCHANGED losses
    \/ got = Failed /\ losses < MaxLost /\ losses' = losses + 1

\* The broker looks at a request for the session.
ServeSession(who) ==
    /\ Answer(who) = Sent
    /\ LET next == IF who = "post" THEN Outcomes(op.expected) ELSE {broker} IN
       \E got \in next \cup {Failed} :
          /\ asks' = [asks EXCEPT ![who].answer = got]
          /\ IF next = {}
               THEN UNCHANGED <<broker, losses>>                  \* refused
               ELSE /\ broker' \in next
                    /\ Delivers(broker', got)
    /\ UNCHANGED <<runtime, late, session, flags, op, viewVars, act, blame>>

\* A request for the session is lost on its way.
LoseSession(who) ==
    /\ Answer(who) = Sent /\ losses < MaxLost
    /\ losses' = losses + 1
    /\ asks' = [asks EXCEPT ![who].answer = Failed]
    /\ UNCHANGED <<broker, runtime, late, session, flags, op, viewVars, act, blame>>

Served(id) == broker.id = id /\ broker.status = "ready"
StateOf(id) == IF Served(id) THEN runtime[id] ELSE Gone

\* A runtime answers a read of the view, or of the action.
ServeViewRead ==
    \E i \in 1 .. Len(reads), got \in States \cup {Failed, Gone} :
       /\ reads[i].answer = Sent
       /\ Delivers(StateOf(reads[i].id), got)
       /\ reads' = [reads EXCEPT ![i].answer = got]
       /\ UNCHANGED <<broker, runtime, late, lifeVars, view, act, blame>>

ServeActRead ==
    \E got \in {StateOf(act.id), Failed} :
       /\ act.pc \in {"read", "confirm", "reread"} /\ act.answer = Sent
       /\ Delivers(StateOf(act.id), got)
       /\ act' = [act EXCEPT !.answer = got]
       /\ UNCHANGED <<broker, runtime, late, lifeVars, viewVars, blame>>

\* The runtime takes an action of the revision it is at.
Takes(id, rev) == /\ Served(id)
                  /\ runtime[id].rev = rev /\ rev < MaxRev
                  /\ runtime[id].status \in {"idle", "ready"}
Taking(id, rev) == runtime' = [runtime EXCEPT ![id] = [rev |-> rev + 1, status |-> "busy"]]

\* A start or a step reaches the runtime.
ServeAction ==
    /\ act.pc = "mutate" /\ act.answer = Sent
    /\ IF Takes(act.id, act.rev)
         THEN /\ Taking(act.id, act.rev)
              /\ \E got \in {Accepted, Failed} : Delivers(Accepted, got) /\ act' = [act EXCEPT !.answer = got]
         ELSE /\ act' = [act EXCEPT !.answer = IF Served(act.id) THEN Conflict ELSE Gone]
              /\ UNCHANGED <<runtime, losses>>
    /\ UNCHANGED <<broker, late, lifeVars, viewVars, blame>>

\* It is lost on its way, or takes longer than the page waits.
LoseAction ==
    /\ act.pc = "mutate" /\ act.answer = Sent /\ losses < MaxLost
    /\ losses' = losses + 1
    /\ act' = [act EXCEPT !.answer = Failed]
    /\ late' \in {late} \cup (IF Delays THEN {late \cup {[id |-> act.id, rev |-> act.rev]}} ELSE {})
    /\ UNCHANGED <<broker, runtime, lifeVars, viewVars, blame>>

ServeLate ==
    \E p \in late :
      /\ late' = late \ {p}
      /\ IF Takes(p.id, p.rev) THEN Taking(p.id, p.rev) ELSE UNCHANGED runtime
      /\ UNCHANGED <<broker, losses, lifeVars, viewVars, act, blame>>

\* A runtime's step ends, well or not.
StepEnds ==
    \E id \in 1 .. MaxId :
      /\ runtime[id].status = "busy" /\ runtime[id].rev < MaxRev
      /\ \E st \in {"ready", "failed", "complete"} :
            runtime' = [runtime EXCEPT ![id] = [rev |-> runtime[id].rev + 1, status |-> st]]
      /\ UNCHANGED <<broker, late, losses, lifeVars, viewVars, act, blame>>

-----------------------------------------------------------------------------
Init ==
    /\ broker \in {[id |-> IF st = "none" THEN 0 ELSE 1, status |-> st] : st \in Starts}
    /\ runtime \in [1 .. MaxId -> {[rev |-> 0, status |-> "idle"], [rev |-> 1, status |-> "busy"]}]
    /\ \A id \in 1 .. MaxId : runtime[id].status = "busy" => broker = [id |-> id, status |-> "ready"]
    /\ session = Unread
    /\ flags = [checking |-> TRUE, busy |-> FALSE, error |-> FALSE, uncertain |-> FALSE]
    /\ asks = [w \in Who |-> IF w = "init" THEN [latest |-> TRUE, answer |-> Sent]
                                           ELSE [latest |-> FALSE, answer |-> Silent]]
    /\ op = NoOp
    /\ view = NoView
    /\ reads = <<>>
    /\ act = NoAct
    /\ late = {}
    /\ losses = 0
    /\ blame = "nobody"

Life == InitAnswered \/ OpInitial \/ OpChecked \/ OpPosted \/ OpWaits \/ Poll
          \/ UserCheck \/ Checked \/ Expiry \/ Hero \/ FreshDemo
Tour == ViewReads \/ ReadAnswered \/ Click \/ Ensured \/ ResetEnds \/ FirstRead
          \/ Mutated \/ Confirmed \/ Reread
World == \/ SandboxMoves \/ ServeViewRead \/ ServeActRead \/ ServeAction \/ LoseAction
         \/ ServeLate \/ StepEnds
         \/ \E who \in Who : ServeSession(who) \/ LoseSession(who)
Next == Life \/ Tour \/ World

Spec == Init /\ [][Next]_vars

-----------------------------------------------------------------------------
(* Properties. *)

\* What the visitor sees of a runtime never goes back to an earlier revision,
\* whatever the order in which reads of the view and of the action are
\* answered (acceptState, the sequence of refresh).
NeverBackInTime ==
    view.shown.id # 0 /\ view'.shown.id = view.shown.id
      => view.shown.state.rev <= view'.shown.state.rev

\* A sandbox the broker serves is not shown as expired because a request of
\* the sandbox before was answered 410 late (the ids expire compares).
ReplacementStaysUp ==
    session.status = "expired" /\ blame = "gone" /\ session.id = broker.id
      => broker.status # "ready"

\* While the operation awaits a starting sandbox nothing else checks it: its
\* check is the latest, so it is not failed by another one of the same page.
OnePollOwner == op.pc = "poll" /\ session.status = "starting" => asks["op"].latest

\* A step the runtime has taken is not offered again: when the action on screen
\* can be clicked, the runtime still is at the revision on screen.
NeverOfferedTwice ==
    ActionReady /\ Viewed /\ ~view.lost /\ view.shown.state.status \in {"idle", "ready"}
      => runtime[Client].rev = view.shown.state.rev

\* The action and the operation have ended.
ActionOver == act.pc = "idle"
OperationOver == op.pc = "idle"
=============================================================================
