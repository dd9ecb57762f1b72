--------------------------- MODULE HostedGateway ---------------------------
(***************************************************************************)
(* The gateway inside a sandbox: it starts one runtime as a child process, *)
(* finds out who it is, and forwards the broker's requests to it until the *)
(* session expires.  One process, many handlers: everything between two    *)
(* awaits is one step, and between two steps any other handler, timer or   *)
(* event of the child may run.                                             *)
(*                                                                         *)
(* A chain stands for the triple genesis hash, deployment domain and RPC   *)
(* endpoint of one ledger; a runtime presents its own id and, once it has  *)
(* one, its chain.  Requests without the right token, unknown routes and   *)
(* malformed bodies change nothing and are answered at once.               *)
(***************************************************************************)
EXTENDS Integers, Sequences, FiniteSets, SequencesExt

CONSTANTS
  Kind,            \* "wallet" or "guided"
  Requests,        \* requests under way at the same time
  RuntimeIds, Chains,
  MaxInflight, MaxMutations,
  StartupTimeout, Expiry,
  MaxTime,         \* bound on the clock
  MaxChanges,      \* bound on how often the child shows another identity
  None

VARIABLES
  now,
  phase, closing, timer,   \* timer: the expiry timer is set
  child,                   \* none, up, signalled (SIGTERM), killed (SIGKILL), down
  term,                    \* terminateChild: none, grace
  runtimeId, identity,
  disc,                    \* discovery: pc and what it is looking at
  rt, changes,             \* the child's identity, and how often it changed
  req,                     \* the handlers
  queue, mutationCount, inflight, guidedStartClaimed,
  starts,                  \* history: starts sent to the runtime
  verified,                \* history: chains whose endpoint answered for them
  delivered                \* history: chains in answers given

life == <<phase, closing, timer, child, term>>
idents == <<runtimeId, identity>>
load == <<queue, mutationCount, inflight, guidedStartClaimed>>
hist == <<starts, verified, delivered>>
vars == <<now, life, idents, disc, rt, changes, req, load, hist>>

Routes == IF Kind = "wallet" THEN {"manifest", "faucet", "advance", "send", "genesis"}
          ELSE {"state", "receipt", "start", "step"}
Gets == {"manifest", "state", "receipt"}
Mutations == {"faucet", "advance", "start", "step", "send"}
Failures == {"startup-failed", "child-exited", "identity-failed"}

Idle == [pc |-> "idle", route |-> None, chain |-> None, prev |-> None]
NoIdentity == [genesis |-> None, url |-> None]

\* What the instances of this module satisfy: None is no route and no identity.
GatewayAssumption ==
  /\ Kind \in {"wallet", "guided"} /\ IsFiniteSet(Requests)
  /\ {MaxInflight, MaxMutations, MaxTime} \subseteq Nat
  /\ None \notin Gets \cup Mutations \cup {"genesis"}
  /\ None \notin [genesis : Chains \cup {None}, url : Chains \cup {None}]

Alive == child \in {"up", "signalled"}
Over == now >= Expiry
Ready == phase = "ready"

Init ==
  /\ now = 0
  /\ phase = "starting" /\ closing = FALSE /\ timer = FALSE
  /\ child = "none" /\ term = "none"
  /\ runtimeId = None /\ identity = None
  /\ disc = [pc |-> "off", id |-> None, chain |-> None, prev |-> None]
  /\ \E id \in RuntimeIds, c \in Chains :
       rt = [id |-> id, chain |-> IF Kind = "wallet" THEN c ELSE None]
  /\ changes = 0
  /\ req = [r \in Requests |-> Idle]
  /\ queue = <<>> /\ mutationCount = 0 /\ inflight = 0 /\ guidedStartClaimed = FALSE
  /\ starts = 0 /\ verified = {} /\ delivered = {}

-----------------------------------------------------------------------------
(* The phase: startup, failure, expiry and shutdown.                       *)

Signal(c) == IF c = "up" THEN "signalled" ELSE c

\* The first failure wins; it asks the child to stop and leaves the rest to expiry.
Fail(p) ==
  LET ignored == closing \/ phase \in Failures \cup {"expired"} IN
  /\ phase' = IF ignored THEN phase ELSE p
  /\ child' = IF ignored THEN child ELSE Signal(child)
  /\ UNCHANGED <<closing, timer, term>>

\* close: the phase is final, the timer is gone, the child gets its grace.
Close(p) ==
  IF closing THEN UNCHANGED life
  ELSE /\ phase' = p
       /\ closing' = TRUE
       /\ timer' = FALSE
       /\ child' = Signal(child)
       /\ term' = IF Alive THEN "grace" ELSE term

Expire == Close("expired")

\* start: listen, spawn, arm the timer, begin discovery.
Start ==
  /\ child = "none" /\ phase = "starting"
  /\ \/ /\ child' = "up"
        /\ timer' = TRUE
        /\ disc' = [disc EXCEPT !.pc = "ask"]
        /\ UNCHANGED <<phase, closing, term>>
     \/ Fail("startup-failed") /\ UNCHANGED disc     \* spawn throws
  /\ UNCHANGED <<now, idents, rt, changes, req, load, hist>>

ChildExits ==
  /\ child \in {"up", "signalled", "killed"}
  /\ child' = "down"
  /\ phase' = IF closing \/ phase \in Failures \cup {"expired"} THEN phase
              ELSE IF phase = "starting" THEN "startup-failed" ELSE "child-exited"
  /\ term' = "none"
  /\ UNCHANGED <<now, closing, timer, idents, disc, rt, changes, req, load, hist>>

ExpiryTimer ==
  /\ timer /\ Over
  /\ Expire
  /\ UNCHANGED <<now, idents, disc, rt, changes, req, load, hist>>

\* SIGINT or SIGTERM to the gateway.
Shutdown ==
  /\ <<child, phase>> # <<"none", "starting">>
  /\ ~closing
  /\ Close("stopped")
  /\ UNCHANGED <<now, idents, disc, rt, changes, req, load, hist>>

\* The five seconds of grace are over.
GraceOver ==
  /\ term = "grace"
  /\ term' = "none"
  /\ child' = "killed"
  /\ UNCHANGED <<now, phase, closing, timer, idents, disc, rt, changes, req, load, hist>>

-----------------------------------------------------------------------------
(* Discovery.                                                              *)

\* verifyRpc writes the endpoint it is about to ask into the shared identity.
Verifying(c) == [genesis |-> IF identity = None THEN None ELSE identity.genesis, url |-> c]

\* One attempt: a wallet's manifest names a chain to verify, a guided runtime
\* is bound by its id alone.  A failed attempt is retried until the deadline.
Discover ==
  /\ disc.pc = "ask"
  /\ IF phase # "starting" \/ now >= StartupTimeout
       THEN /\ disc' = [disc EXCEPT !.pc = "done"]
            /\ IF phase = "starting" THEN Fail("startup-failed") ELSE UNCHANGED life
            /\ UNCHANGED idents
       ELSE \/ /\ child \in {"up", "signalled"} /\ Kind = "wallet"
               /\ disc' = [pc |-> "verify", id |-> rt.id, chain |-> rt.chain, prev |-> identity]
               /\ identity' = Verifying(rt.chain)
               /\ UNCHANGED <<life, runtimeId>>
            \/ /\ child \in {"up", "signalled"} /\ Kind = "guided" /\ rt.chain = None
               /\ disc' = [disc EXCEPT !.pc = "done"]
               /\ runtimeId' = rt.id
               /\ identity' = NoIdentity
               /\ phase' = "ready"
               /\ UNCHANGED <<closing, timer, child, term>>
            \/ UNCHANGED <<life, idents, disc>>      \* the attempt failed
  /\ UNCHANGED <<now, rt, changes, req, load, hist>>

\* Mutant: discovery ends in ready whatever happened meanwhile.
DiscoverVerifiedLate ==
  /\ disc.pc = "program"
  /\ disc' = [disc EXCEPT !.pc = "done"]
  /\ runtimeId' = disc.id
  /\ identity' = [genesis |-> disc.chain, url |-> disc.chain]
  /\ phase' = "ready"
  /\ UNCHANGED <<now, closing, timer, child, term, rt, changes, req, load, hist>>

\* The endpoint answers for its genesis, then for the program.
DiscoverGenesis ==
  /\ disc.pc = "verify"
  /\ disc' = [disc EXCEPT !.pc = "program"]
  /\ verified' = verified \cup {identity.url}
  /\ UNCHANGED <<now, life, idents, rt, changes, req, load, starts, delivered>>

DiscoverVerified ==
  /\ disc.pc = "program"
  /\ disc' = [disc EXCEPT !.pc = "done"]
  /\ runtimeId' = disc.id
  /\ identity' = [genesis |-> disc.chain, url |-> disc.chain]
  /\ phase' = IF phase = "starting" THEN "ready" ELSE phase
  /\ UNCHANGED <<now, closing, timer, child, term, rt, changes, req, load, hist>>

DiscoverFails ==
  /\ disc.pc \in {"verify", "program"}
  /\ disc' = [disc EXCEPT !.pc = "ask"]
  /\ identity' = disc.prev
  /\ UNCHANGED <<now, life, runtimeId, rt, changes, req, load, hist>>

-----------------------------------------------------------------------------
(* Handlers.                                                               *)

Go(r, pc) == req' = [req EXCEPT ![r].pc = pc]

\* Answering frees the slot; a mutation, first in the queue since it had its
\* turn, also makes room for the next.
Answer(r) ==
  /\ req' = [req EXCEPT ![r] = Idle]
  /\ inflight' = inflight - 1
  /\ IF queue # <<>> /\ Head(queue) = r
       THEN queue' = Tail(queue) /\ mutationCount' = mutationCount - 1
       ELSE UNCHANGED <<queue, mutationCount>>

\* The operation, run when its turn comes: the session is looked at again, the
\* one start is claimed, and the request goes out.
Operate(r) ==
  LET start == req[r].route = "start" IN
  IF ~Ready \/ Over \/ (start /\ guidedStartClaimed)
    THEN /\ Answer(r)
         /\ IF Ready /\ Over THEN Expire ELSE UNCHANGED life
         /\ UNCHANGED <<guidedStartClaimed, starts>>
    ELSE /\ Go(r, "upstream")
         /\ guidedStartClaimed' = (guidedStartClaimed \/ start)
         /\ starts' = starts + (IF start THEN 1 ELSE 0)
         /\ UNCHANGED <<life, queue, mutationCount, inflight>>

\* A request is looked at when its headers are in: expiry, phase, load, route.
\* A refused one is answered and leaves no trace.
Refused(r) ==
  /\ req[r].pc = "idle"
  /\ Over /\ ~closing
  /\ Expire
  /\ UNCHANGED <<now, idents, disc, rt, changes, req, load, hist>>

Admit(r, route) ==
  /\ req[r].pc = "idle"
  /\ ~Over /\ Ready
  /\ inflight < MaxInflight
  /\ inflight' = inflight + 1
  /\ req' = [req EXCEPT ![r] = [Idle EXCEPT !.route = route,
                                            !.pc = IF route \in Gets THEN "upstream" ELSE "body"]]
  /\ UNCHANGED <<now, life, idents, disc, rt, changes, queue, mutationCount,
                 guidedStartClaimed, hist>>

\* Mutant: a full queue refuses the request but keeps what it counted.
BodyLeaks(r) ==
  /\ req[r].pc = "body"
  /\ IF req[r].route \in Mutations
       THEN IF mutationCount >= MaxMutations
              THEN /\ req' = [req EXCEPT ![r] = Idle]
                   /\ UNCHANGED <<life, load, starts>>
              ELSE /\ Go(r, "queued")
                   /\ queue' = Append(queue, r)
                   /\ mutationCount' = mutationCount + 1
                   /\ UNCHANGED <<life, inflight, guidedStartClaimed, starts>>
       ELSE Operate(r)
  /\ UNCHANGED <<now, idents, disc, rt, changes, verified, delivered>>

\* The body is in: a read operates at once, a mutation takes its turn.
Body(r) ==
  /\ req[r].pc = "body"
  /\ IF req[r].route \in Mutations
       THEN IF mutationCount >= MaxMutations
              THEN Answer(r) /\ UNCHANGED <<life, guidedStartClaimed, starts>>
              ELSE /\ Go(r, "queued")
                   /\ queue' = Append(queue, r)
                   /\ mutationCount' = mutationCount + 1
                   /\ UNCHANGED <<life, inflight, guidedStartClaimed, starts>>
       ELSE Operate(r)
  /\ UNCHANGED <<now, idents, disc, rt, changes, verified, delivered>>

\* The body is too large, malformed, not allowed by the policy, or never comes.
BodyFails(r) ==
  /\ req[r].pc = "body"
  /\ Answer(r)
  /\ UNCHANGED <<now, life, idents, disc, rt, changes, guidedStartClaimed, hist>>

\* mutationTail: each operation follows the end of the one before it.
RunMutation(r) ==
  /\ req[r].pc = "queued"
  /\ Head(queue) = r
  /\ Operate(r)
  /\ UNCHANGED <<now, idents, disc, rt, changes, verified, delivered>>

\* The runtime is unreachable, too slow or answers what is no answer.
UpstreamFails(r) ==
  /\ req[r].pc = "upstream"
  /\ Answer(r)
  /\ UNCHANGED <<now, life, idents, disc, rt, changes, guidedStartClaimed, hist>>

\* A check failed: the session is closed and the caller told it is gone.
IdentityFails(r) == Answer(r) /\ Fail("identity-failed")

Shown(route) == IF route \in {"manifest", "genesis", "state", "start", "step", "receipt"} THEN rt.chain ELSE None

\* What the answer shows differs from what the gateway is bound to.
Changed(route) ==
  \/ route \in {"manifest", "state", "start", "step", "receipt"} /\ rt.id # runtimeId
  \/ route \in {"manifest", "genesis"} /\ rt.chain # identity.genesis
  \/ /\ Kind = "guided" /\ rt.chain # None /\ identity.genesis # None
     /\ <<rt.chain, rt.chain>> # <<identity.genesis, identity.url>>

\* The runtime answers; a refusal of its own is passed on unchecked, a guided
\* state that names a chain for the first time is verified before it is.
UpstreamAnswers(r) ==
  LET route == req[r].route  fresh == Kind = "guided" /\ rt.chain # None /\ identity.genesis = None IN
  /\ req[r].pc = "upstream"
  /\ Alive
  /\ \/ Go(r, "deliver") /\ UNCHANGED <<life, identity, queue, mutationCount, inflight>>
     \/ Changed(route) /\ IdentityFails(r) /\ UNCHANGED identity
     \/ /\ ~Changed(route) /\ ~fresh
        /\ req' = [req EXCEPT ![r].pc = "deliver", ![r].chain = Shown(route)]
        /\ UNCHANGED <<life, identity, queue, mutationCount, inflight>>
     \/ /\ ~Changed(route) /\ fresh
        /\ req' = [req EXCEPT ![r].pc = "verify", ![r].chain = rt.chain, ![r].prev = identity]
        /\ identity' = Verifying(rt.chain)
        /\ UNCHANGED <<life, queue, mutationCount, inflight>>
  /\ UNCHANGED <<now, runtimeId, disc, rt, changes, guidedStartClaimed, hist>>

\* verifyRpc for a handler: genesis at the endpoint just written, then the
\* program at whatever endpoint the identity holds by then.
VerifyGenesis(r) ==
  /\ req[r].pc = "verify"
  /\ Go(r, "program")
  /\ verified' = verified \cup {req[r].chain}
  /\ UNCHANGED <<now, life, idents, disc, rt, changes, load, starts, delivered>>

Pin(r) ==
  /\ req[r].pc = "program"
  /\ identity' = [genesis |-> req[r].chain, url |-> req[r].chain]
  /\ Go(r, "deliver")
  /\ UNCHANGED <<now, life, runtimeId, disc, rt, changes, load, hist>>

VerifyFails(r) ==
  /\ req[r].pc \in {"verify", "program"}
  /\ identity' = req[r].prev
  /\ IdentityFails(r)
  /\ UNCHANGED <<now, runtimeId, disc, rt, changes, guidedStartClaimed, hist>>

\* The answer is passed on only while the session still stands.
Deliver(r) ==
  /\ req[r].pc = "deliver"
  /\ delivered' = IF Ready /\ ~Over THEN delivered \cup ({req[r].chain} \ {None}) ELSE delivered
  /\ Answer(r)
  /\ UNCHANGED <<now, life, idents, disc, rt, changes, guidedStartClaimed, starts, verified>>

-----------------------------------------------------------------------------
(* The child runtime (external) and time.                                  *)

\* A guided runtime brings its chain up after it was told to start.
RuntimeStarts ==
  /\ Kind = "guided" /\ starts > 0 /\ rt.chain = None /\ child = "up"
  /\ \E c \in Chains : rt' = [rt EXCEPT !.chain = c]
  /\ UNCHANGED <<now, life, idents, disc, changes, req, load, hist>>

\* The identity behind the runtime's port changes: what the checks are for.
RuntimeChanges ==
  /\ changes < MaxChanges
  /\ changes' = changes + 1
  /\ \E id \in RuntimeIds, c \in Chains :
       /\ rt' = [id |-> id, chain |-> IF rt.chain = None THEN None ELSE c]
       /\ rt' # rt
  /\ UNCHANGED <<now, life, idents, disc, req, load, hist>>

Tick ==
  /\ now < MaxTime
  /\ now' = now + 1
  /\ UNCHANGED <<life, idents, disc, rt, changes, req, load, hist>>

-----------------------------------------------------------------------------

HandlerStep(r) ==
  \/ Body(r) \/ BodyFails(r) \/ RunMutation(r)
  \/ UpstreamAnswers(r) \/ UpstreamFails(r)
  \/ VerifyGenesis(r) \/ Pin(r) \/ VerifyFails(r)
  \/ Deliver(r)

Discovery == Discover \/ DiscoverGenesis \/ DiscoverVerified \/ DiscoverFails

Next ==
  \/ Start \/ ChildExits \/ ExpiryTimer \/ Shutdown \/ GraceOver
  \/ Discovery
  \/ \E r \in Requests : \/ \E route \in Routes : Admit(r, route)
                         \/ Refused(r)
                         \/ HandlerStep(r)
  \/ RuntimeStarts \/ RuntimeChanges \/ Tick

Spec == Init /\ [][Next]_vars

-----------------------------------------------------------------------------
(* What must hold.                                                         *)

TypeOK ==
  /\ now \in 0..MaxTime
  /\ phase \in {"starting", "ready", "expired", "stopped"} \cup Failures
  /\ child \in {"none", "up", "signalled", "killed", "down"}
  /\ term = "grace" => closing /\ Alive
  /\ \A r \in Requests : req[r].pc \in {"idle", "body", "queued", "upstream", "verify", "program", "deliver"}
  /\ inflight \in Nat /\ mutationCount \in Nat

\* The counters that admission reads (inflight, mutationCount) say how many
\* handlers and mutations there are, on every error path: no slot is lost for
\* good and none is given twice.
SlotsExact ==
  /\ inflight = Cardinality({r \in Requests : req[r].pc # "idle"})
  /\ mutationCount = Cardinality({r \in Requests : Contains(queue, r)})
  /\ inflight <= MaxInflight /\ mutationCount <= MaxMutations

\* Mutations reach the runtime one at a time: the next one is sent only when
\* the answer to the one before it, identity check included, is in.
OneMutationAtATime ==
  Cardinality({r \in Requests : /\ req[r].route \in Mutations
                                /\ req[r].pc \in {"upstream", "verify", "program"}}) <= 1

\* A guided runtime is told to start at most once in the life of the gateway,
\* however many start requests wait behind each other or time out.
StartedOnce == starts <= 1

\* A chain is handed out in an answer only after its own endpoint answered
\* for its genesis hash.
DeliveredWasVerified == delivered \subseteq verified

\* Whatever the child does, all answers of one gateway show one and the same
\* chain: a change of identity fails the session closed instead.
OneChainDelivered == Cardinality(delivered) <= 1

\* A request waited for its body, for its turn and for the runtime: nothing is
\* sent or answered from the runtime once the session has failed or expired.
NothingAfterTheEnd ==
  \/ Ready /\ ~Over
  \/ /\ \A r \in Requests : req'[r].pc = "upstream" => req[r].pc = "upstream"
     /\ delivered' = delivered

\* A session that ended never serves again, and the reason that ended it is
\* kept: only expiry and shutdown may replace a failure, and they are final.
PhaseSettles ==
  /\ phase \notin {"starting", "ready"} => phase' \notin {"starting", "ready"}
  /\ phase \in {"expired", "stopped"} => phase' = phase
  /\ phase \in Failures /\ phase' # phase => phase' \in {"expired", "stopped"}

\* The child does not outlive the session: also one that ignores SIGTERM is
\* gone some time after the session failed, expired or was stopped.
\* A session that ended stays ended, so that this comes again and again says it.
ChildGone == phase \in {"starting", "ready"} \/ child \in {"none", "down"}

\* A request that was admitted has been answered, queued mutations included.
Answered(r) == req[r].pc = "idle"

=============================================================================
