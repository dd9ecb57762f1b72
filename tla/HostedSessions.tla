--------------------------- MODULE HostedSessions ---------------------------
(***************************************************************************)
(* The hosted session broker: visitors start, watch, reset and use         *)
(* short-lived sandboxes that a provider runs.  Three stores are involved  *)
(* and none is transactional with another: the session ledger (one JSON    *)
(* document behind compare-and-swap), a meter document per session, and    *)
(* the provider's sandboxes.  Every request is a handler that awaits one   *)
(* of them at a time, so the steps below interleave and a handler may stop *)
(* between any two of them.                                                *)
(*                                                                         *)
(* A ledger transaction re-reads and retries until its compare-and-swap    *)
(* wins, so it is one atomic step; giving up after twelve attempts, a      *)
(* store that answers with an error, an error answered to the caller and a *)
(* function that is killed all end the handler and are the action Stop.    *)
(* A session id stands for the sandbox name and the gateway token derived  *)
(* from it; the runtime id is drawn once per launched sandbox.             *)
(***************************************************************************)
EXTENDS Integers, FiniteSets, FiniteSetsExt

CONSTANTS
  Handlers,       \* requests served at the same time
  Visitors,       \* visitor cookies (hashed)
  Kinds,          \* wallet, guided
  Requests,       \* the requests visitors make: current, start, reset, read, mutate
  Ids,            \* session ids that may be drawn: bounds the sessions
  Active,         \* DEFAULT_LIMITS.active
  DailyLimit,     \* dailyGlobal, dailyVisitor: function of {"global"} and visitors
  Lifetime, Provisioning, Cooldown, Tombstone,   \* the durations of Limits
  MaxDuration,    \* maxDuration of the function a handler runs in
  CreateLatency,  \* longest time a create call may take to reach the provider
  RequestsTotal, MutationsTotal,                 \* the meter's budgets
  Snapshots,      \* whether the provider snapshots running sandboxes
  MaxAsks,        \* bound on the requests made
  MaxTime,        \* bound on the clock; all of it is one day and one minute
  None

\* 60 s of function and 15 s of operation timeout against 90 s of provisioning.
ASSUME TimingAssumption ==
  /\ {Active, Lifetime, Provisioning, Cooldown, Tombstone, MaxDuration, CreateLatency,
      RequestsTotal, MutationsTotal, MaxTime, MaxAsks} \subseteq Nat
  /\ MaxDuration + CreateLatency < Provisioning
  /\ Provisioning < Lifetime
  /\ CreateLatency < Tombstone

VARIABLES
  now,        \* the clock
  sessions,   \* ledger.sessions
  drawn,      \* the session ids drawn: 128 random bits, never drawn twice (history)
  latest,     \* ledger.latest
  daily,      \* ledger.daily of the day
  lastCreated,\* ledger.visitorLastCreatedAt
  meters,     \* the meter documents
  boxes,      \* the provider's sandboxes
  creating,   \* create calls that may still reach the provider
  h,          \* the handlers
  asks,       \* requests made so far (bound)
  sent        \* requests and mutations that reached each sandbox (history)

ledger == <<sessions, drawn, latest, daily, lastCreated>>
vars == <<now, sessions, drawn, latest, daily, lastCreated, meters, boxes, creating, h, asks, sent>>

Keys == Visitors \X Kinds
NoBox == [st |-> "missing", exp |-> 0, up |-> FALSE]
Idle == [op |-> "none", since |-> 0, pc |-> "idle", id |-> None, key |-> None, rec |-> None,
         view |-> NoBox, mutation |-> FALSE]

ProviderLive == {"pending", "running", "stopping"}
Terminal(st) == st \in {"stopped", "missing"}

\* The shapes of what is kept.
Statuses == {"starting", "ready", "resetting", "failed", "expired"}
ProviderStatuses == ProviderLive \cup {"unknown", "stopped", "missing", "deleted"}
Records == [key : Keys, status : Statuses, created : Nat, tomb : Nat, launched : BOOLEAN,
            pstat : ProviderStatuses \cup {None}, pexp : Nat \cup {None}, runtime : BOOLEAN,
            timedOut : BOOLEAN]
Meters == [open : BOOLEAN, forwarded : Nat, mutations : Nat]
Creates == [since : Nat, timeout : Nat]
Boxes == [st : ProviderLive \cup {"stopped", "missing"}, exp : Nat, up : BOOLEAN]
Views == [st : ProviderStatuses, exp : Nat \cup {None}, up : BOOLEAN]
Places == {"idle", "expireClose", "expireStop", "expireUpdate", "timeoutStop", "timeoutUpdate",
           "recGet", "poll", "recClose", "recTerminal", "recUpdate", "probe", "meter", "publish",
           "failClose", "failStop", "failUpdate", "create", "created", "createUnknown", "fence",
           "launch", "launchUnknown", "dropStop", "dropped", "resetClose", "resetMark", "resetStop",
           "resetUpdate", "restart", "reserve", "charge", "proxyGet", "proxyPending", "proxyMeter",
           "proxyLedger", "proxyMeterAgain", "proxyClose", "proxyEnd", "send"}
HandlerStates == [op : {"none", "current", "start", "proxy"}, since : Nat, pc : Places,
                  id : Ids \cup {None}, key : Keys \cup {None}, rec : Records \cup {None},
                  view : Views, mutation : BOOLEAN]

\* Absent is none of them.
ASSUME NoneAssumption ==
  /\ IsFiniteSet(Handlers) /\ IsFiniteSet(Ids)
  /\ None \notin Ids /\ None \notin Nat /\ None \notin ProviderStatuses
  /\ None \notin Records /\ None \notin Meters /\ None \notin Creates

Live(id) == boxes[id].st \in ProviderLive
Future(t) == t > now
Expires(rec) == rec.created + Lifetime

\* Mutant: a failed session is taken for one without a sandbox.
HoldsCapacityUnlessFailed(rec) ==
  /\ Future(Expires(rec))
  /\ rec.status \in {"starting", "ready", "resetting"}

\* Whether a record still counts against the number of active sandboxes.
HoldsCapacity(rec) ==
  \/ /\ rec.pstat \in ProviderLive \cup {"unknown"}
     /\ rec.pexp # None
     /\ Future(rec.pexp)
  \/ /\ Future(Expires(rec))
     /\ \/ rec.status \in {"starting", "ready", "resetting"}
        \/ rec.status = "failed" /\ rec.pstat \notin {"stopped", "missing", "deleted"}

\* Every read and every transaction first applies the clock to the ledger.
NormalizeRecord(rec) ==
  IF rec = None THEN None
  ELSE LET aged == IF ~Future(Expires(rec)) /\ rec.status # "expired"
                     THEN [rec EXCEPT !.status = "expired", !.timedOut = FALSE]
                   ELSE IF rec.status = "starting" /\ ~Future(rec.created + Provisioning)
                     THEN [rec EXCEPT !.status = "failed", !.timedOut = TRUE]
                   ELSE rec
       IN IF ~Future(aged.tomb) /\ ~HoldsCapacity(aged) THEN None ELSE aged

Ledger == [id \in Ids |-> NormalizeRecord(sessions[id])]
Latest == [k \in Keys |-> IF latest[k] # None /\ Ledger[latest[k]] = None THEN None ELSE latest[k]]
Current(k) == IF Latest[k] = None THEN None ELSE Ledger[Latest[k]]

\* A transaction that replaces one record (SessionLedgerRepository.update).
Update(id, rec) ==
  /\ sessions' = [Ledger EXCEPT ![id] = rec]
  /\ latest' = Latest
  /\ UNCHANGED <<drawn, daily, lastCreated>>

\* Whether updateFenced applies its mutation.
Fenced(id, allowed) ==
  LET rec == Ledger[id] IN
  /\ rec # None
  /\ rec.status \in allowed
  /\ Latest[rec.key] = id
  /\ Future(Expires(rec))

\* What the provider reports, as a record keeps it: the later of two tombstones.
Observe(rec, st, exp) ==
  [rec EXCEPT !.pstat = st, !.pexp = IF exp = None THEN @ ELSE exp,
              !.tomb = IF exp = None THEN @ ELSE Max({@, exp + Tombstone})]

ViewChanged(rec, view) == rec.pstat # view.st \/ rec.pexp # view.exp

Step(p, pc) == h' = [h EXCEPT ![p].pc = pc]
StepSeen(p, pc, view) == h' = [h EXCEPT ![p].pc = pc, ![p].view = view]
Done(p) == h' = [h EXCEPT ![p] = Idle]

\* reconcile returns a record: start polls again, everything else answers.
Return(p, rec) ==
  h' = [h EXCEPT ![p] = IF @.op = "start" THEN [@ EXCEPT !.pc = "poll", !.rec = rec, !.view = NoBox]
                        ELSE Idle]
At(p, pc) == h[p].pc = pc

Init ==
  /\ now = 0
  /\ sessions = [id \in Ids |-> None]
  /\ drawn = {}
  /\ latest = [k \in Keys |-> None]
  /\ daily = [c \in {"global"} \cup Visitors |-> 0]
  /\ lastCreated = [v \in Visitors |-> None]
  /\ meters = [id \in Ids |-> None]
  /\ boxes = [id \in Ids |-> NoBox]
  /\ creating = [id \in Ids |-> None]
  /\ h = [p \in Handlers |-> Idle]
  /\ asks = 0
  /\ sent = [id \in Ids |-> [requests |-> 0, mutations |-> 0]]

-----------------------------------------------------------------------------
(* current: expire what is over, otherwise reconcile with the provider.    *)

AskCurrent(p, k) ==
  LET rec == Current(k) IN
  /\ At(p, "idle")
  /\ rec # None
  /\ \E pc \in {"expireClose", "timeoutStop", "recGet"} :
       /\ pc = "expireClose" <=> ~Future(Expires(rec))
       /\ pc = "timeoutStop" <=> /\ Future(Expires(rec))
                                 /\ rec.status = "failed" /\ rec.timedOut
                                 /\ rec.pstat \notin {None, "unknown"}
       /\ pc = "recGet" => rec.status \in {"starting", "ready"}
       /\ h' = [h EXCEPT ![p] = [Idle EXCEPT !.since = now, !.op = "current", !.pc = pc, !.id = Latest[k],
                                             !.key = k, !.rec = rec]]
  /\ UNCHANGED <<now, ledger, meters, boxes, creating, sent>>

\* closeMeter: sets open to false; fails if the record is bound to no meter.
CloseMeter(p, pc, next) ==
  LET id == h[p].id IN
  /\ At(p, pc)
  /\ \/ /\ ~h[p].rec.runtime
        /\ UNCHANGED meters
     \/ /\ h[p].rec.runtime
        /\ meters[id] # None
        /\ meters' = [meters EXCEPT ![id].open = FALSE]
  /\ Step(p, next)
  /\ UNCHANGED <<now, ledger, boxes, creating, sent>>

\* stopAndDelete: verified gone, or it fails with the sandbox untouched or on
\* its way down; the get that follows a failure only reads the provider.
StopSandbox(p, pc, next) ==
  LET id == h[p].id  Seen(view) == h' = [h EXCEPT ![p].pc = next, ![p].view = view, ![p].rec = None] IN
  /\ At(p, pc)
  /\ \/ /\ boxes' = [boxes EXCEPT ![id] = NoBox]
        /\ Seen([NoBox EXCEPT !.st = "deleted"])
     \/ /\ boxes[id].st # "missing"
        /\ \/ UNCHANGED boxes
           \/ Live(id) /\ boxes' = [boxes EXCEPT ![id].st = "stopping"]
        /\ Seen(boxes'[id]) \/ Seen([NoBox EXCEPT !.st = "unknown", !.exp = None])
  /\ UNCHANGED <<now, ledger, meters, creating, sent>>

Deleted(p) == h[p].view.st = "deleted"
SeenExp(p) == IF Deleted(p) THEN None ELSE h[p].view.exp

\* The update after stopping an expired session.
ExpireUpdate(p) ==
  LET id == h[p].id IN
  /\ At(p, "expireUpdate")
  /\ Ledger[id] # None
  /\ Update(id, Observe([Ledger[id] EXCEPT !.status = IF Deleted(p) THEN "expired" ELSE "failed",
                                           !.timedOut = FALSE], h[p].view.st, SeenExp(p)))
  /\ Done(p)
  /\ UNCHANGED <<now, meters, boxes, creating, sent>>

TimeoutUpdate(p) ==
  LET id == h[p].id IN
  /\ At(p, "timeoutUpdate")
  /\ Ledger[id] # None
  /\ Update(id, [Ledger[id] EXCEPT !.pstat = IF Deleted(p) THEN "deleted" ELSE "unknown"])
  /\ Done(p)
  /\ UNCHANGED <<now, meters, boxes, creating, sent>>

-----------------------------------------------------------------------------
(* reconcile and probeReady, shared by current and start.                  *)

\* pollReady goes on while the record is starting and its deadline is ahead.
ReconcileGet(p) ==
  LET rec == h[p].rec  view == boxes[h[p].id]
      unseen == view.st = "missing" /\ rec.pstat \in {None, "unknown"}
      running == view.st = "running" /\ Future(view.exp)
  IN
  /\ \/ At(p, "recGet")
     \/ At(p, "poll") /\ rec.status = "starting" /\ Future(rec.created + Provisioning)
  /\ \/ unseen /\ Return(p, rec)
     \/ Terminal(view.st) /\ ~unseen /\ StepSeen(p, "recClose", view)
     \/ ~Terminal(view.st) /\ ViewChanged(rec, view) /\ StepSeen(p, "recUpdate", view)
     \/ ~Terminal(view.st) /\ ~ViewChanged(rec, view)
        /\ IF running /\ rec.status = "starting" /\ rec.launched
             THEN Step(p, "probe") ELSE Return(p, rec)
     \/ running /\ rec.pexp # None /\ Step(p, "failClose")   \* not the recorded domain
  /\ UNCHANGED <<now, ledger, meters, boxes, creating, sent>>

ReconcileTerminal(p) ==
  LET id == h[p].id IN
  /\ At(p, "recTerminal")
  /\ Ledger[id] # None
  /\ LET rec == [Ledger[id] EXCEPT !.status = "failed", !.timedOut = FALSE, !.pstat = h[p].view.st]
     IN /\ Update(id, rec)
        /\ Return(p, rec)
  /\ UNCHANGED <<now, meters, boxes, creating, sent>>

ReconcileUpdate(p) ==
  LET id == h[p].id  view == h[p].view IN
  /\ At(p, "recUpdate")
  /\ Ledger[id] # None
  /\ LET rec == Observe(Ledger[id], view.st, view.exp)
         probing == view.st = "running" /\ Future(view.exp) /\ rec.status = "starting" /\ rec.launched
     IN /\ Update(id, rec)
        /\ IF probing THEN h' = [h EXCEPT ![p].pc = "probe", ![p].rec = rec, ![p].view = NoBox]
           ELSE Return(p, rec)
  /\ UNCHANGED <<now, meters, boxes, creating, sent>>

\* providerRequest reaches the gateway of the session's own sandbox or none.
GatewayAnswers(id) == boxes[id].st = "running" /\ boxes[id].up

\* What validateHealth, validateWalletManifest and validateGuidedState tell
\* apart: an answer of the recorded runtime and chain, or of another one.
Identities == {"recorded", "changed"}

\* GET /health and the identity route: any mismatch or error returns the record.
ProbeHealth(p) ==
  /\ At(p, "probe")
  /\ \/ GatewayAnswers(h[p].id) /\ Step(p, "meter")
     \/ Return(p, h[p].rec)
  /\ UNCHANGED <<now, ledger, meters, boxes, creating, sent>>

\* initializeMeter: put-if-absent, or an existing open meter of this runtime.
InitializeMeter(p) ==
  LET id == h[p].id  absent == meters[id] = None IN
  /\ At(p, "meter")
  /\ meters' = IF absent THEN [meters EXCEPT ![id] = [open |-> TRUE, forwarded |-> 0, mutations |-> 0]]
               ELSE meters
  /\ IF meters'[id].open THEN Step(p, "publish") ELSE Return(p, h[p].rec)
  /\ UNCHANGED <<now, ledger, boxes, creating, sent>>

\* Mutant: ready is written without the fence.
PublishReadyUnfenced(p) ==
  LET id == h[p].id IN
  /\ At(p, "publish")
  /\ Ledger[id] # None
  /\ LET rec == [Ledger[id] EXCEPT !.status = "ready", !.runtime = TRUE, !.timedOut = FALSE]
     IN Update(id, rec) /\ Return(p, rec)
  /\ UNCHANGED <<now, meters, boxes, creating, sent>>

\* The fenced transition to ready.
PublishReady(p) ==
  LET id == h[p].id IN
  /\ At(p, "publish")
  /\ Ledger[id] # None
  /\ LET rec == IF Fenced(id, {"starting"})
                  THEN [Ledger[id] EXCEPT !.status = "ready", !.runtime = TRUE, !.timedOut = FALSE]
                  ELSE Ledger[id]
     IN /\ Update(id, rec)
        /\ Return(p, rec)
  /\ UNCHANGED <<now, meters, boxes, creating, sent>>

\* failClosed after its stop: fenced, so a session someone else ended stays as it is.
FailClosed(p) ==
  LET id == h[p].id IN
  /\ At(p, "failUpdate")
  /\ Ledger[id] # None
  /\ Update(id, IF Fenced(id, {"ready", "starting"})
                  THEN Observe([Ledger[id] EXCEPT !.status = "failed", !.timedOut = FALSE],
                               h[p].view.st, SeenExp(p))
                  ELSE Ledger[id])
  /\ Done(p)
  /\ UNCHANGED <<now, meters, boxes, creating, sent>>

\* failClosed tolerates a meter it cannot close.
FailCloseMeter(p) ==
  LET id == h[p].id IN
  /\ At(p, "failClose")
  /\ \/ UNCHANGED meters
     \/ h[p].rec.runtime /\ meters[id] # None /\ meters' = [meters EXCEPT ![id].open = FALSE]
  /\ Step(p, "failStop")
  /\ UNCHANGED <<now, ledger, boxes, creating, sent>>

-----------------------------------------------------------------------------
(* start: reserve, create, fence, launch, poll.                            *)

\* The check of expectedSessionId against the current session can only refuse
\* the request, and the reservation reads the ledger again: a start is taken
\* where it reserves.  The start that ends a reset is at "reserve".
Starting(p, k) == At(p, "idle") \/ (At(p, "reserve") /\ h[p].key = k)
Since(p) == IF At(p, "idle") THEN now ELSE h[p].since

NewRecord(k) ==
  [key |-> k, status |-> "starting", created |-> now, tomb |-> now + Lifetime + Tombstone,
   launched |-> FALSE, pstat |-> None, pexp |-> None, runtime |-> FALSE, timedOut |-> FALSE]

HeldCapacity == {id \in Ids : Ledger[id] # None /\ HoldsCapacity(Ledger[id])}

Admitted(v) ==
  /\ lastCreated[v] # None => lastCreated[v] + Cooldown <= now
  /\ Cardinality(HeldCapacity) < Active
  /\ \A c \in {"global", v} : daily[c] < DailyLimit[c]

Reserve(p, k) ==
  LET v == k[1]  rec == Current(k) IN
  /\ Starting(p, k)
  /\ ~(rec # None /\ HoldsCapacity(rec))
  /\ Admitted(v)
  /\ \E id \in Ids :
       /\ id \notin drawn
       /\ drawn' = drawn \cup {id}
       /\ sessions' = [Ledger EXCEPT ![id] = NewRecord(k)]
       /\ latest' = [Latest EXCEPT ![k] = id]
       /\ h' = [h EXCEPT ![p] = [Idle EXCEPT !.op = "start", !.since = Since(p), !.pc = "create",
                                             !.id = id, !.key = k, !.rec = NewRecord(k)]]
  /\ daily' = [daily EXCEPT !["global"] = @ + 1, ![v] = @ + 1]
  /\ lastCreated' = [lastCreated EXCEPT ![v] = now]
  /\ UNCHANGED <<now, meters, boxes, creating, sent>>

\* The visitor's session is still held: start answers with it, reconciled.
ReserveExisting(p, k) ==
  LET rec == Current(k) IN
  /\ Starting(p, k)
  /\ rec # None /\ HoldsCapacity(rec) /\ rec.status \in {"starting", "ready"}
  /\ h' = [h EXCEPT ![p] = [Idle EXCEPT !.op = "current", !.since = Since(p), !.pc = "recGet",
                                        !.id = Latest[k], !.key = k, !.rec = rec]]
  /\ UNCHANGED <<now, ledger, meters, boxes, creating, sent>>

\* provider.create: the timeout asked for is what is left of the session.
CreateCall(p) ==
  LET id == h[p].id  left == Expires(h[p].rec) - now IN
  /\ At(p, "create")
  /\ IF left > 0
       THEN /\ creating' = [creating EXCEPT ![id] = [since |-> now, timeout |-> left]]
            /\ Step(p, "created")
       ELSE Step(p, "createUnknown") /\ UNCHANGED creating
  /\ UNCHANGED <<now, ledger, meters, boxes, sent>>

CreateOk(p) ==
  LET id == h[p].id IN
  /\ At(p, "created")
  /\ boxes[id].st = "running"
  /\ StepSeen(p, "fence", boxes[id])
  /\ UNCHANGED <<now, ledger, meters, boxes, creating, sent>>

\* The call fails or is aborted; it may reach the provider all the same.
CreateFails(p) ==
  /\ At(p, "created")
  /\ Step(p, "createUnknown")
  /\ UNCHANGED <<now, ledger, meters, boxes, creating, sent>>

\* A last look at the provider, which may itself fail, is all that is recorded.
CreateUnknown(p) ==
  LET id == h[p].id IN
  /\ At(p, "createUnknown")
  /\ Ledger[id] # None
  /\ LET base == [Ledger[id] EXCEPT !.status = "failed", !.timedOut = FALSE, !.pexp = None] IN
     \/ Update(id, Observe(base, "unknown", None))
     \/ boxes[id].st # "missing" /\ Update(id, Observe(base, boxes[id].st, boxes[id].exp))
  /\ Done(p)
  /\ UNCHANGED <<now, meters, boxes, creating, sent>>

\* The launch fence: only the visitor's newest, still starting session is launched.
LaunchFence(p) ==
  LET id == h[p].id IN
  /\ At(p, "fence")
  /\ Ledger[id] # None
  /\ LET applied == Fenced(id, {"starting"})
         rec == IF applied THEN [Observe(Ledger[id], h[p].view.st, h[p].view.exp) EXCEPT !.launched = TRUE]
                ELSE Ledger[id]
     IN /\ Update(id, rec)
        /\ h' = [h EXCEPT ![p].pc = IF applied THEN "launch" ELSE "dropStop", ![p].rec = rec]
  /\ UNCHANGED <<now, meters, boxes, creating, sent>>

\* created.launch(): the command starts, or fails before or after starting.
Launch(p) ==
  LET id == h[p].id IN
  /\ At(p, "launch")
  /\ \E started \in BOOLEAN :
       /\ started => boxes[id].st = "running"
       /\ boxes' = [boxes EXCEPT ![id].up = @ \/ started]
       /\ \/ started /\ Step(p, "poll")
          \/ Step(p, "launchUnknown")
  /\ UNCHANGED <<now, ledger, meters, creating, sent>>

LaunchUnknown(p) ==
  LET id == h[p].id IN
  /\ At(p, "launchUnknown")
  /\ Ledger[id] # None
  /\ Update(id, [Ledger[id] EXCEPT !.status = "failed", !.timedOut = FALSE, !.pstat = "running"])
  /\ Done(p)
  /\ UNCHANGED <<now, meters, boxes, creating, sent>>

-----------------------------------------------------------------------------
(* reset: close the meter, mark, stop, then start again.                   *)

Resettable(rec) ==
  /\ rec.status # "starting"
  /\ ~(rec.status = "failed" /\ rec.pstat = "unknown" /\ HoldsCapacity(rec))
  /\ rec.created + Cooldown <= now

AskReset(p, k) ==
  LET rec == Current(k) IN
  /\ At(p, "idle")
  /\ rec # None
  /\ Resettable(rec)
  /\ h' = [h EXCEPT ![p] = [Idle EXCEPT !.since = now, !.op = "start", !.pc = "resetClose", !.id = Latest[k],
                                        !.key = k, !.rec = rec]]
  /\ UNCHANGED <<now, ledger, meters, boxes, creating, sent>>

ResetMark(p) ==
  LET id == h[p].id IN
  /\ At(p, "resetMark")
  /\ Ledger[id] # None
  /\ Update(id, [Ledger[id] EXCEPT !.status = "resetting", !.timedOut = FALSE])
  /\ Step(p, "resetStop")
  /\ UNCHANGED <<now, meters, boxes, creating, sent>>

\* After the stop: failed and still held, or expired and on to a new start.
ResetUpdate(p) ==
  LET id == h[p].id IN
  /\ At(p, "resetUpdate")
  /\ Ledger[id] # None
  /\ \/ /\ Deleted(p)
        /\ Update(id, [Ledger[id] EXCEPT !.status = "expired", !.timedOut = FALSE, !.pstat = "deleted"])
        /\ Step(p, "restart")
     \/ /\ ~Deleted(p)
        /\ Update(id, Observe([Ledger[id] EXCEPT !.status = "failed", !.timedOut = FALSE],
                              h[p].view.st, SeenExp(p)))
        /\ Done(p)
  /\ UNCHANGED <<now, meters, boxes, creating, sent>>

\* start(..., current.id): refused when the visitor's session changed meanwhile.
Restart(p) ==
  /\ At(p, "restart")
  /\ IF Latest[h[p].key] = h[p].id THEN Step(p, "reserve") ELSE Done(p)
  /\ UNCHANGED <<now, ledger, meters, boxes, creating, sent>>

-----------------------------------------------------------------------------
(* proxy: charge the meter, look at the provider, check again, forward.    *)

Forwardable(id, k) ==
  LET rec == Ledger[id] IN
  /\ rec # None /\ rec.key = k /\ Latest[k] = id
  /\ rec.status = "ready" /\ rec.runtime /\ Future(Expires(rec))

\* forwardableById; a session that is over is stopped on the way out.
AskProxy(p, k, id, mutation) ==
  LET rec == Ledger[id] IN
  /\ At(p, "idle")
  /\ rec # None /\ rec.key = k
  /\ \E pc \in {"charge", "expireStop"} :
       /\ pc = "charge" <=> Forwardable(id, k)
       /\ pc = "expireStop" => ~Future(Expires(rec))
       /\ h' = [h EXCEPT ![p] = [Idle EXCEPT !.since = now, !.op = "proxy", !.pc = pc, !.id = id, !.key = k,
                                             !.rec = rec, !.mutation = mutation]]
  /\ UNCHANGED <<now, ledger, meters, boxes, creating, sent>>

WithinBudget(m, mutations) ==
  /\ m.forwarded < RequestsTotal
  /\ m.mutations + mutations <= MutationsTotal

MeterOpen(id) == meters[id] # None /\ meters[id].open

\* Mutant: the charge is left to the answer's return.
ChargeLater(p) ==
  /\ At(p, "charge")
  /\ MeterOpen(h[p].id)
  /\ Step(p, "proxyGet")
  /\ UNCHANGED <<now, ledger, meters, boxes, creating, sent>>

Charge(p) ==
  LET id == h[p].id  cost == IF h[p].mutation THEN 1 ELSE 0 IN
  /\ At(p, "charge")
  /\ MeterOpen(id)
  /\ IF Future(Expires(h[p].rec))
       THEN /\ WithinBudget(meters[id], cost)
            /\ meters' = [meters EXCEPT ![id].forwarded = @ + 1, ![id].mutations = @ + cost]
            /\ Step(p, "proxyGet")
       ELSE Step(p, "expireStop") /\ UNCHANGED meters
  /\ UNCHANGED <<now, ledger, boxes, creating, sent>>

ProxyGet(p) ==
  LET view == boxes[h[p].id] IN
  /\ At(p, "proxyGet")
  /\ StepSeen(p, IF view.st = "pending" THEN "proxyPending"
                 ELSE IF view.st = "running" /\ Future(view.exp) THEN "proxyMeter"
                 ELSE "proxyClose", view)
  /\ UNCHANGED <<now, ledger, meters, boxes, creating, sent>>

ProxyPending(p) ==
  LET id == h[p].id IN
  /\ At(p, "proxyPending")
  /\ Ledger[id] # None
  /\ Update(id, Observe(Ledger[id], h[p].view.st, h[p].view.exp))
  /\ Done(p)
  /\ UNCHANGED <<now, meters, boxes, creating, sent>>

ProxyEnd(p) ==
  LET id == h[p].id  st == h[p].view.st IN
  /\ At(p, "proxyEnd")
  /\ Ledger[id] # None
  /\ Update(id, [Ledger[id] EXCEPT !.status = IF Terminal(st) THEN "failed" ELSE "expired",
                                   !.timedOut = FALSE, !.pstat = st])
  /\ Done(p)
  /\ UNCHANGED <<now, meters, boxes, creating, sent>>

\* assertMeterForwardable; a mutation then also passes assertForwardable, which
\* reads the ledger and after it the meter again.
ProxyMeter(p) ==
  /\ At(p, "proxyMeter")
  /\ Future(Expires(h[p].rec))
  /\ MeterOpen(h[p].id)
  /\ Step(p, IF h[p].mutation THEN "proxyLedger" ELSE "send")
  /\ UNCHANGED <<now, ledger, meters, boxes, creating, sent>>

ProxyLedger(p) ==
  /\ At(p, "proxyLedger")
  /\ Forwardable(h[p].id, h[p].key)
  /\ Step(p, "proxyMeterAgain")
  /\ UNCHANGED <<now, ledger, meters, boxes, creating, sent>>

ProxyMeterAgain(p) ==
  /\ At(p, "proxyMeterAgain")
  /\ MeterOpen(h[p].id)
  /\ Step(p, "send")
  /\ UNCHANGED <<now, ledger, meters, boxes, creating, sent>>

\* The request is forwarded; an answer of another runtime fails the session closed.
Forward(p) ==
  LET id == h[p].id IN
  /\ At(p, "send")
  /\ \/ /\ GatewayAnswers(id)
        /\ sent' = [sent EXCEPT ![id].requests = @ + 1,
                                ![id].mutations = @ + (IF h[p].mutation THEN 1 ELSE 0)]
        /\ \E identity \in Identities :
             IF identity = "recorded" THEN Done(p) ELSE Step(p, "failClose")
     \/ ~GatewayAnswers(id) /\ Done(p) /\ UNCHANGED sent
  /\ UNCHANGED <<now, ledger, meters, boxes, creating>>

-----------------------------------------------------------------------------
(* The provider (external), the end of a handler, and time.                *)

\* A create call arrives: the sandbox lives for the timeout it was given.
CreateArrives(id) ==
  /\ creating[id] # None
  /\ boxes' = [boxes EXCEPT ![id] = [st |-> "pending", exp |-> now + creating[id].timeout, up |-> FALSE]]
  /\ creating' = [creating EXCEPT ![id] = None]
  /\ UNCHANGED <<now, ledger, meters, h, sent>>

CreateLost(id) ==
  /\ creating[id] # None
  /\ creating' = [creating EXCEPT ![id] = None]
  /\ UNCHANGED <<now, ledger, meters, boxes, h, sent>>

\* A sandbox comes up, is snapshotted (which the broker treats as pending),
\* finishes stopping, fails, or reaches its timeout.
SandboxMoves(id) ==
  /\ boxes[id].st \in ProviderLive
  /\ \E st \in {"pending", "running", "stopped"} :
       /\ st = "running" => boxes[id].st = "pending"
       /\ st = "pending" => Snapshots /\ boxes[id].st = "running"
       /\ boxes' = [boxes EXCEPT ![id].st = st]
  /\ UNCHANGED <<now, ledger, meters, creating, h, sent>>

\* Time never passes a sandbox's timeout, the latency of a create call or the
\* duration of a function.
Tick ==
  /\ now < MaxTime
  /\ \A id \in Ids : /\ creating[id] # None => now < creating[id].since + CreateLatency
                     /\ boxes[id].st \in ProviderLive => now < boxes[id].exp
  /\ \A p \in Handlers : ~At(p, "idle") => now < h[p].since + MaxDuration
  /\ now' = now + 1
  /\ UNCHANGED <<ledger, meters, boxes, creating, h, sent>>

Stop(p) ==
  /\ ~At(p, "idle")
  /\ Done(p)
  /\ UNCHANGED <<now, ledger, meters, boxes, creating, sent>>

HandlerStep(p) ==
  \/ CloseMeter(p, "expireClose", "expireStop")
  \/ StopSandbox(p, "expireStop", "expireUpdate")
  \/ ExpireUpdate(p)
  \/ StopSandbox(p, "timeoutStop", "timeoutUpdate")
  \/ TimeoutUpdate(p)
  \/ ReconcileGet(p) \/ ReconcileTerminal(p) \/ ReconcileUpdate(p)
  \/ CloseMeter(p, "recClose", "recTerminal")
  \/ ProbeHealth(p) \/ InitializeMeter(p) \/ PublishReady(p)
  \/ FailCloseMeter(p)
  \/ StopSandbox(p, "failStop", "failUpdate")
  \/ FailClosed(p)
  \/ CreateCall(p) \/ CreateOk(p) \/ CreateFails(p) \/ CreateUnknown(p)
  \/ LaunchFence(p) \/ Launch(p) \/ LaunchUnknown(p)
  \/ StopSandbox(p, "dropStop", "dropped")
  \/ CloseMeter(p, "resetClose", "resetMark")
  \/ ResetMark(p)
  \/ StopSandbox(p, "resetStop", "resetUpdate")
  \/ ResetUpdate(p) \/ Restart(p)
  \/ Charge(p) \/ ProxyGet(p) \/ ProxyPending(p) \/ ProxyEnd(p)
  \/ CloseMeter(p, "proxyClose", "proxyEnd")
  \/ ProxyMeter(p) \/ ProxyLedger(p) \/ ProxyMeterAgain(p) \/ Forward(p)

Next ==
  \/ \E p \in Handlers, k \in Keys :
     /\ h[p].pc = "idle" => asks < MaxAsks
     /\ asks' = asks + (IF h[p].pc = "idle" THEN 1 ELSE 0)
     /\ \/ "current" \in Requests /\ AskCurrent(p, k)
        \/ "start" \in Requests /\ (Reserve(p, k) \/ ReserveExisting(p, k))
        \/ "reset" \in Requests /\ AskReset(p, k)
        \/ "read" \in Requests /\ \E id \in Ids : AskProxy(p, k, id, FALSE)
        \/ "mutate" \in Requests /\ \E id \in Ids : AskProxy(p, k, id, TRUE)
  \/ /\ UNCHANGED asks
     /\ \/ \E p \in Handlers : HandlerStep(p) \/ Stop(p)
        \/ \E id \in Ids : CreateArrives(id) \/ CreateLost(id) \/ SandboxMoves(id)
        \/ Tick

Spec == Init /\ [][Next]_vars

-----------------------------------------------------------------------------
(* What must hold.                                                         *)

HasRecord(id) == sessions[id] # None

\* Records, meters, sandboxes and handlers keep their shape.
TypeOK ==
  /\ now \in 0..MaxTime
  /\ sessions \in [Ids -> Records \cup {None}] /\ drawn \in SUBSET Ids
  /\ latest \in [Keys -> Ids \cup {None}]
  /\ meters \in [Ids -> Meters \cup {None}]
  /\ boxes \in [Ids -> Boxes]
  /\ creating \in [Ids -> Creates \cup {None}]
  /\ h \in [Handlers -> HandlerStates]
  /\ sent \in [Ids -> [requests : Nat, mutations : Nat]]

\* A sandbox that runs, or that a create call may still bring up, counts
\* against the capacity (holdsCapacity) whatever the handlers did to its
\* record: resets, expiries, failed stops and stale updates included.  Only a
\* sandbox whose creation was never recorded may outlive its record, by no
\* more than the time its create call was under way.
LiveIsCounted ==
  \A id \in Ids : Live(id) \/ creating[id] # None =>
    \/ HasRecord(id) /\ HoldsCapacity(sessions[id])
    \/ HasRecord(id) /\ ~Future(Expires(sessions[id])) /\ now <= Expires(sessions[id]) + CreateLatency

\* No more sandboxes than the limit run inside their session's lifetime.
LiveWithinCapacity ==
  Cardinality({id \in Ids : Live(id) /\ HasRecord(id) /\ Future(Expires(sessions[id]))}) <= Active

\* One visitor never has two sandboxes of a kind at the same time, however
\* start, reset and expiry interleave.
OneSandboxPerVisitor ==
  \A k \in Keys :
    Cardinality({id \in Ids : /\ Live(id) /\ HasRecord(id) /\ sessions[id].key = k
                              /\ Future(Expires(sessions[id]))}) <= 1

\* Capacity is never leaked: whatever a late or stale update wrote, a record
\* stops counting once the longest sandbox it could own is over.
CapacityReturned ==
  \A id \in Ids : HasRecord(id) /\ HoldsCapacity(sessions[id])
                     => now < Expires(sessions[id]) + CreateLatency

\* The gateway command runs only in a sandbox whose launch the ledger recorded
\* first, so that no other handler takes the session for one never launched.
LaunchIsRecorded ==
  \A id \in Ids : boxes[id].up /\ HasRecord(id) => sessions[id].launched

\* What reaches a sandbox was charged to its meter before, and the meter stays
\* in its budget: a crash loses a charge, never a forward.
BudgetBoundsForwards ==
  \A id \in Ids : sent[id].requests > 0 =>
    /\ meters[id] # None
    /\ sent[id].requests <= meters[id].forwarded /\ meters[id].forwarded <= RequestsTotal
    /\ sent[id].mutations <= meters[id].mutations /\ meters[id].mutations <= MutationsTotal

\* A session is published as ready only with its meter in place, so every
\* request to a ready session can be charged or refused.
ReadyIsMetered ==
  \A id \in Ids : HasRecord(id) /\ sessions[id].runtime => meters[id] # None

\* A session that left starting and ready (reset, failed, expired) never
\* becomes ready again, although most updates are not fenced.
NoResurrection ==
  \A id \in Ids : HasRecord(id) /\ sessions'[id] # None /\ sessions'[id].status = "ready"
                     => sessions[id].status \in {"starting", "ready"}

\* A meter that was closed is never opened again and never forgets what it
\* counted, so a reset session cannot be given a fresh budget.
MeterOnlyCloses ==
  \A id \in Ids : meters[id] # None =>
    /\ meters'[id] # None
    /\ meters'[id].open => meters[id].open
    /\ meters'[id].forwarded >= meters[id].forwarded

\* However start, reset, expiry, failed stops and stale updates interleave, a
\* sandbox that runs is counted, no visitor has two, there are no more than the
\* limit, capacity is never leaked, and no launch goes unrecorded.
SandboxesCounted ==
  /\ TypeOK
  /\ LiveIsCounted /\ LiveWithinCapacity
  /\ OneSandboxPerVisitor /\ CapacityReturned /\ LaunchIsRecorded

\* What reaches a sandbox was charged first, also when its handler dies, its
\* session is reset or the meter is closed meanwhile.
ForwardsAreCharged == BudgetBoundsForwards /\ ReadyIsMetered

\* What was closed stays closed: a session that was reset, failed or expired is
\* never ready again, and its meter never opens again or forgets its count.
NothingReopens == [][NoResurrection /\ MeterOnlyCloses]_vars

=============================================================================
