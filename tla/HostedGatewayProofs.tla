------------------------ MODULE HostedGatewayProofs ------------------------
(***************************************************************************)
(* Theorems about what a hosted request passes: the gateway, the reviews   *)
(* and the meter of RPC calls, and the store under the ledgers.            *)
(*                                                                         *)
(* The gateway, for either kind of sandbox, any number of requests, chains *)
(* and runtime ids, and any limits.  The inductive invariant says what a   *)
(* handler that waits may rely on: its place in the queue, the identity it *)
(* is compared with, and that nothing is admitted before discovery bound   *)
(* the gateway to its runtime.                                             *)
(***************************************************************************)
EXTENDS HostedGateway, RpcPath, JsonCasStore, FiniteSetTheorems, TLAPS

Pcs == {"idle", "body", "queued", "upstream", "verify", "program", "deliver"}
Names == Chains \cup {None}
Idents == [genesis : Names, url : Names] \cup {None}
Handlers == [pc : Pcs, route : Routes \cup {None}, chain : Names, prev : Idents]

Typed ==
  /\ now \in 0..MaxTime
  /\ phase \in {"starting", "ready", "expired", "stopped"} \cup Failures
  /\ closing \in BOOLEAN /\ timer \in BOOLEAN
  /\ child \in {"none", "up", "signalled", "killed", "down"}
  /\ term \in {"none", "grace"}
  /\ identity \in Idents
  /\ disc \in [pc : {"off", "ask", "verify", "program", "done"},
               id : RuntimeIds \cup {None}, chain : Names, prev : Idents]
  /\ rt \in [id : RuntimeIds, chain : Names]
  /\ req \in [Requests -> Handlers]
  /\ queue \in Seq(Requests)
  /\ inflight \in Int /\ mutationCount \in Int
  /\ guidedStartClaimed \in BOOLEAN

\* The reason that ended the session is final once it closes, and the grace
\* is that of a child that runs.
Ending ==
  /\ term = "grace" => closing /\ Alive
  /\ closing <=> phase \in {"expired", "stopped"}

\* Nothing is admitted, and nothing was answered, before discovery is over.
Bound ==
  /\ child = "none" => disc.pc = "off"
  /\ disc.pc # "done" => delivered = {} /\ phase # "ready"
  /\ phase = "ready" => identity # None
  /\ \A r \in Requests : req[r].pc # "idle" => disc.pc = "done" /\ identity # None

\* The chain an identity is pinned to was verified.
Pinned(i) == i # None /\ i.genesis # None => i.genesis \in verified

\* Where each chain on its way to an answer comes from.
Vouched ==
  /\ Pinned(identity) /\ Pinned(disc.prev)
  /\ disc.pc = "verify" => identity # None /\ identity.url = disc.chain
  /\ disc.pc = "program" => disc.chain \in verified
  /\ \A r \in Requests :
       /\ Pinned(req[r].prev)
       /\ req[r].pc \in {"verify", "program"} => req[r].prev # None
       /\ req[r].pc \in {"body", "queued", "upstream"} => req[r].chain = None
       /\ req[r].pc = "program" => req[r].chain \in verified
       /\ req[r].pc = "deliver" /\ req[r].chain # None => req[r].chain \in verified
  /\ delivered \subseteq verified

\* A mutation that was taken and is not answered.
InLine(r) == req[r].route \in Mutations /\ req[r].pc \notin {"idle", "body"}

\* The queue holds the mutations once each, and who had its turn is first.
Turns ==
  /\ \A r \in Requests : req[r].pc = "queued" => InLine(r)
  /\ \A r \in Requests : InLine(r) <=> \E i \in 1..Len(queue) : queue[i] = r
  /\ \A i, j \in 1..Len(queue) : queue[i] = queue[j] => i = j
  /\ \A r \in Requests : InLine(r) /\ req[r].pc # "queued" => queue # <<>> /\ Head(queue) = r

Busy == {r \in Requests : req[r].pc # "idle"}
Waiting == {r \in Requests : InLine(r)}

Counted ==
  /\ inflight = Cardinality(Busy) /\ inflight <= MaxInflight
  /\ mutationCount = Cardinality(Waiting) /\ mutationCount <= MaxMutations

Claimed == starts = IF guidedStartClaimed THEN 1 ELSE 0

\* A wallet's gateway is bound once, and no handler changes what it is bound to.
OneChain ==
  Kind = "wallet" =>
    /\ \A r \in Requests : /\ req[r].pc \notin {"verify", "program"}
                           /\ req[r].pc = "deliver" /\ req[r].chain # None => req[r].chain = identity.genesis
    /\ \A c \in delivered : c = identity.genesis

IInv == Typed /\ Ending /\ Bound /\ Vouched /\ Turns /\ Counted /\ Claimed /\ OneChain

-----------------------------------------------------------------------------
(* The lemmas every handler step needs: what Answer and a turn do to the   *)
(* queue and to the counters.                                              *)

\* Answering a handler that has its turn, or never queued, keeps the order.
LEMMA AnswerTurns ==
  ASSUME Typed, Turns, NEW r \in Requests, Answer(r), req[r].pc # "idle",
         req[r].pc = "queued" => Head(queue) = r
  PROVE  Turns'
<1>1. req' = [req EXCEPT ![r] = Idle] /\ req \in [Requests -> Handlers] /\ queue \in Seq(Requests)
  BY DEF Answer, Typed
<1>2. ~ InLine(r)' /\ req'[r].pc = "idle"
  BY <1>1 DEF InLine, Idle
<1>3. \A s \in Requests : s # r => req'[s] = req[s] /\ (InLine(s)' <=> InLine(s))
  BY <1>1 DEF InLine
<1>4. CASE InLine(r)
  <2>1. queue # <<>> /\ Head(queue) = r
    BY <1>4, <1>1 DEF Turns, InLine
  <2>2. queue' = Tail(queue)
    BY <2>1 DEF Answer
  <2>3. /\ Len(queue) \in Nat \ {0} /\ Len(queue') = Len(queue) - 1 /\ queue[1] = r
        /\ \A i \in 1..Len(queue') : i + 1 \in 2..Len(queue) /\ queue'[i] = queue[i + 1]
    BY <2>1, <2>2, <1>1
  <2>4. \A i, j \in 1..Len(queue') : queue'[i] = queue'[j] => i = j
    BY <2>3 DEF Turns
  <2>5. \A i \in 1..Len(queue') : queue'[i] # r
    BY <2>3 DEF Turns
  <2>6. ASSUME NEW s \in Requests PROVE InLine(s)' <=> \E i \in 1..Len(queue') : queue'[i] = s
    <3>1. CASE s = r
      BY <3>1, <2>5, <1>2
    <3>2. CASE s # r
      <4>1. ASSUME NEW i \in 1..Len(queue), queue[i] = s PROVE \E j \in 1..Len(queue') : queue'[j] = s
        <5>1. i # 1 /\ i - 1 \in 1..Len(queue')
          BY <4>1, <3>2, <2>3
        <5>2. (i - 1) + 1 = i
          BY <5>1
        <5>3. queue'[i - 1] = queue[i]
          BY <5>1, <5>2, <2>3
        <5>. QED
          BY <5>1, <5>3, <4>1
      <4>2. ASSUME NEW i \in 1..Len(queue'), queue'[i] = s PROVE \E j \in 1..Len(queue) : queue[j] = s
        BY <4>2, <2>3
      <4>. QED
        BY <4>1, <4>2, <1>3, <3>2 DEF Turns
    <3>. QED
      BY <3>1, <3>2
  <2>7. \A s \in Requests : InLine(s)' => req'[s].pc = "queued"
    BY <1>2, <1>3, <2>1 DEF Turns
  <2>8. \A s \in Requests : req'[s].pc = "queued" => InLine(s)'
    BY <1>2, <1>3 DEF Turns
  <2>. QED
    BY <2>4, <2>6, <2>7, <2>8 DEF Turns
<1>5. CASE ~ InLine(r)
  <2>1. ~ (queue # <<>> /\ Head(queue) = r)
    BY <1>5, <1>1 DEF Turns
  <2>2. queue' = queue
    BY <2>1 DEF Answer
  <2>. QED
    BY <1>2, <1>3, <1>5, <2>2 DEF Turns
<1>. QED
  BY <1>4, <1>5

\* Answering gives back the slot and, to the next mutation, the place.
LEMMA AnswerCounted ==
  ASSUME GatewayAssumption, Typed, Turns, Counted, NEW r \in Requests, Answer(r), req[r].pc # "idle",
         req[r].pc = "queued" => Head(queue) = r
  PROVE  Counted'
<1>1. req' = [req EXCEPT ![r] = Idle] /\ req \in [Requests -> Handlers] /\ queue \in Seq(Requests)
  BY DEF Answer, Typed
<1>2. IsFiniteSet(Busy) /\ IsFiniteSet(Waiting)
  BY FS_Subset DEF GatewayAssumption, Busy, Waiting
<1>3. Busy' = Busy \ {r} /\ r \in Busy
  BY <1>1 DEF Busy, Idle
<1>4. Cardinality(Busy') = Cardinality(Busy) - 1
  BY <1>2, <1>3, FS_RemoveElement
<1>5. inflight' = Cardinality(Busy') /\ inflight' <= MaxInflight
  BY <1>4, <1>2, FS_CardinalityType DEF Answer, Counted, GatewayAssumption
<1>6. Waiting' = Waiting \ {r}
  BY <1>1 DEF Waiting, InLine, Idle
<1>7. CASE InLine(r)
  <2>1. queue # <<>> /\ Head(queue) = r
    BY <1>7, <1>1 DEF Turns, InLine
  <2>2. Cardinality(Waiting') = Cardinality(Waiting) - 1
    BY <1>2, <1>6, <1>7, FS_RemoveElement DEF Waiting
  <2>. QED
    BY <1>5, <2>1, <2>2, <1>2, FS_CardinalityType DEF Answer, Counted, GatewayAssumption
<1>8. CASE ~ InLine(r)
  <2>1. ~ (queue # <<>> /\ Head(queue) = r)
    BY <1>8, <1>1 DEF Turns
  <2>2. Waiting' = Waiting
    BY <1>6, <1>8 DEF Waiting
  <2>. QED
    BY <1>5, <2>1, <2>2 DEF Answer, Counted
<1>. QED
  BY <1>7, <1>8

-----------------------------------------------------------------------------
(* Each conjunct of the invariant is kept by every step.                   *)

\* The steps that are for a request, and those that are not.
RequestStep(r) ==
  \/ \E route \in Routes : Admit(r, route)
  \/ Refused(r) \/ Body(r) \/ BodyFails(r) \/ RunMutation(r)
  \/ UpstreamAnswers(r) \/ UpstreamFails(r)
  \/ VerifyGenesis(r) \/ Pin(r) \/ VerifyFails(r) \/ Deliver(r)

ServiceStep ==
  \/ Start \/ ChildExits \/ ExpiryTimer \/ Shutdown \/ GraceOver
  \/ Discover \/ DiscoverGenesis \/ DiscoverVerified \/ DiscoverFails
  \/ RuntimeStarts \/ RuntimeChanges \/ Tick

LEMMA Steps ==
  ASSUME [Next]_vars
  PROVE  UNCHANGED vars \/ ServiceStep \/ \E r \in Requests : RequestStep(r)
BY DEF Next, Discovery, HandlerStep, RequestStep, ServiceStep

\* Handlers stay handlers, whatever field of one is written.
LEMMA AnswerTyped ==
  ASSUME Typed, NEW r \in Requests, Answer(r)
  PROVE  /\ req' \in [Requests -> Handlers] /\ queue' \in Seq(Requests)
         /\ inflight' \in Int /\ mutationCount' \in Int
<1>1. Idle \in Handlers
  BY DEF Idle, Handlers, Pcs, Names, Idents
<1>2. req' \in [Requests -> Handlers]
  BY <1>1 DEF Answer, Typed
<1>3. queue' \in Seq(Requests)
  BY SMTT(60) DEF Answer, Typed
<1>. QED
  BY <1>2, <1>3 DEF Answer, Typed

\* A handler that moves on keeps its route, chain and former identity.
LEMMA GoTyped ==
  ASSUME Typed, NEW r \in Requests, NEW pc \in Pcs, Go(r, pc)
  PROVE  req' \in [Requests -> Handlers]
BY DEF Go, Typed, Handlers

\* Failing, closing and expiring keep the phase and the child what they may be.
LEMMA LifeTyped ==
  ASSUME Typed, \/ UNCHANGED life \/ Expire \/ Close("stopped")
                \/ Fail("startup-failed") \/ Fail("identity-failed")
  PROVE  /\ phase' \in {"starting", "ready", "expired", "stopped"} \cup Failures
         /\ closing' \in BOOLEAN /\ timer' \in BOOLEAN
         /\ child' \in {"none", "up", "signalled", "killed", "down"}
         /\ term' \in {"none", "grace"}
<1>1. CASE UNCHANGED life
  BY <1>1 DEF Typed, life
<1>2. CASE Expire
  BY <1>2 DEF Typed, life, Expire, Close, Signal, Failures
<1>3. CASE Close("stopped")
  BY <1>3 DEF Typed, life, Close, Signal, Failures
<1>4. CASE Fail("startup-failed")
  BY <1>4 DEF Typed, Fail, Signal, Failures
<1>5. CASE Fail("identity-failed")
  BY <1>5 DEF Typed, Fail, Signal, Failures
<1>. QED
  BY <1>1, <1>2, <1>3, <1>4, <1>5

\* What Operate does: it answers the request or sends it to the runtime.
LEMMA OperateTyped ==
  ASSUME Typed, NEW r \in Requests, Operate(r)
  PROVE  /\ req' \in [Requests -> Handlers] /\ queue' \in Seq(Requests)
         /\ inflight' \in Int /\ mutationCount' \in Int
         /\ guidedStartClaimed' \in BOOLEAN
         /\ UNCHANGED life \/ Expire
<1>1. CASE Answer(r) /\ UNCHANGED <<guidedStartClaimed, starts>> /\ (UNCHANGED life \/ Expire)
  BY <1>1, AnswerTyped DEF Typed
<1>2. CASE Go(r, "upstream") /\ UNCHANGED <<life, queue, mutationCount, inflight>>
           /\ guidedStartClaimed' = (guidedStartClaimed \/ req[r].route = "start")
  <2>1. guidedStartClaimed' \in BOOLEAN
    BY <1>2
  <2>2. req' \in [Requests -> Handlers]
    BY <1>2, GoTyped DEF Pcs
  <2>. QED
    BY <1>2, <2>1, <2>2 DEF Typed
<1>. QED
  BY <1>1, <1>2 DEF Operate

\* The endpoint about to be asked is an identity.
LEMMA VerifyingTyped ==
  ASSUME GatewayAssumption, Typed
  PROVE  Verifying(rt.chain) \in Idents /\ Verifying(rt.chain) # None
<1>1. Verifying(rt.chain) \in [genesis : Names, url : Names]
  BY DEF Typed, Verifying, Idents, Names
<1>. QED
  BY <1>1 DEF GatewayAssumption, Idents, Names

LEMMA TypedStep ==
  ASSUME GatewayAssumption, Typed, [Next]_vars
  PROVE  Typed'
<1>1. CASE UNCHANGED vars
  BY <1>1 DEF Typed, vars, life, idents, load, hist
<1>2. CASE Start
  BY <1>2, LifeTyped DEF Start, Typed, idents, load, life, hist
<1>3. CASE ChildExits
  BY <1>3 DEF ChildExits, Typed, idents, load, Failures
<1>4. CASE ExpiryTimer
  BY <1>4, LifeTyped DEF ExpiryTimer, Typed, idents, load
<1>5. CASE Shutdown
  BY <1>5, LifeTyped DEF Shutdown, Typed, idents, load
<1>6. CASE GraceOver
  BY <1>6 DEF GraceOver, Typed, idents, load
<1>7. CASE Discover
  BY <1>7, LifeTyped DEF Discover, Typed, idents, load, life, Verifying, NoIdentity, Idents, Names
<1>8. CASE DiscoverGenesis
  BY <1>8 DEF DiscoverGenesis, Typed, idents, load, life
<1>9. CASE DiscoverVerified
  BY <1>9 DEF DiscoverVerified, Typed, load, Idents, Names
<1>10. CASE DiscoverFails
  BY <1>10 DEF DiscoverFails, Typed, load, life
<1>11. CASE RuntimeStarts
  BY <1>11 DEF RuntimeStarts, Typed, idents, load, life, Names
<1>12. CASE RuntimeChanges
  BY <1>12 DEF RuntimeChanges, Typed, idents, load, life, Names
<1>13. CASE Tick
  BY <1>13 DEF Tick, Typed, idents, load, life, GatewayAssumption
<1>14. ASSUME NEW r \in Requests, RequestStep(r) PROVE Typed'
  <2>1. ASSUME NEW route \in Routes, Admit(r, route) PROVE Typed'
    <3>1. [Idle EXCEPT !.route = route, !.pc = IF route \in Gets THEN "upstream" ELSE "body"] \in Handlers
      BY DEF Handlers, Idle, Pcs, Names, Idents
    <3>2. req' \in [Requests -> Handlers]
      BY <2>1, <3>1 DEF Admit, Typed
    <3>. QED
      BY <2>1, <3>2 DEF Admit, Typed, idents, life
  <2>2. CASE Refused(r)
    BY <2>2, LifeTyped DEF Refused, Typed, idents, load
  <2>3. CASE Body(r)
    <3>1. CASE Operate(r) /\ UNCHANGED <<now, idents, disc, rt, changes>>
      BY <3>1, LifeTyped, OperateTyped DEF Typed, idents
    <3>2. CASE Answer(r) /\ UNCHANGED <<now, idents, disc, rt, changes, life, guidedStartClaimed>>
      BY <3>2, AnswerTyped DEF Typed, idents, life
    <3>3. CASE Go(r, "queued") /\ queue' = Append(queue, r) /\ mutationCount' = mutationCount + 1
               /\ UNCHANGED <<now, idents, disc, rt, changes, life, inflight, guidedStartClaimed>>
      BY <3>3, GoTyped DEF Typed, idents, life, Pcs
    <3>. QED
      BY <2>3, <3>1, <3>2, <3>3 DEF Body
  <2>4. CASE BodyFails(r)
    BY <2>4, AnswerTyped DEF BodyFails, Typed, idents, life
  <2>5. CASE RunMutation(r)
    BY <2>5, OperateTyped, LifeTyped DEF RunMutation, Typed, idents
  <2>6. CASE UpstreamAnswers(r)
    <3>1. UNCHANGED <<now, disc, rt, guidedStartClaimed>>
      BY <2>6 DEF UpstreamAnswers
    <3>2. CASE Go(r, "deliver") /\ UNCHANGED <<life, identity, queue, mutationCount, inflight>>
      BY <3>1, <3>2, GoTyped DEF Typed, life, Pcs
    <3>3. CASE IdentityFails(r) /\ UNCHANGED identity
      BY <3>1, <3>3, AnswerTyped, LifeTyped DEF Typed, IdentityFails
    <3>4. CASE /\ req' = [req EXCEPT ![r].pc = "deliver", ![r].chain = Shown(req[r].route)]
               /\ UNCHANGED <<life, identity, queue, mutationCount, inflight>>
      <4>1. Shown(req[r].route) \in Names
        BY DEF Shown, Typed, Names
      <4>2. req' \in [Requests -> Handlers]
        BY ZenonT(90), <3>4, <4>1 DEF Typed, Handlers, Pcs
      <4>. QED
        BY <3>1, <3>4, <4>2 DEF Typed, life
    <3>5. CASE /\ req' = [req EXCEPT ![r].pc = "verify", ![r].chain = rt.chain, ![r].prev = identity]
               /\ identity' = Verifying(rt.chain)
               /\ UNCHANGED <<life, queue, mutationCount, inflight>>
      <4>. DEFINE h == [req[r] EXCEPT !.pc = "verify", !.chain = rt.chain, !.prev = identity]
      <4>2. req[r] \in Handlers /\ rt.chain \in Names /\ identity \in Idents
        BY DEF Typed
      <4>3. h \in Handlers
        BY <4>2 DEF Handlers, Pcs
      <4>4. req' = [req EXCEPT ![r] = h]
        BY <3>5
      <4>1. req' \in [Requests -> Handlers]
        BY <4>3, <4>4 DEF Typed
      <4>. QED
        BY <3>1, <3>5, <4>1, VerifyingTyped DEF Typed, life
    <3>. QED
      BY <2>6, <3>2, <3>3, <3>4, <3>5 DEF UpstreamAnswers
  <2>7. CASE UpstreamFails(r)
    BY <2>7, AnswerTyped DEF UpstreamFails, Typed, idents, life
  <2>8. CASE VerifyGenesis(r)
    BY <2>8, GoTyped DEF VerifyGenesis, Typed, idents, life, load, Pcs
  <2>9. CASE Pin(r)
    BY <2>9, GoTyped DEF Pin, Typed, life, load, Idents, Handlers, Pcs
  <2>10. CASE VerifyFails(r)
    BY <2>10, AnswerTyped, LifeTyped DEF VerifyFails, Typed, IdentityFails, Handlers
  <2>11. CASE Deliver(r)
    BY <2>11, AnswerTyped DEF Deliver, Typed, idents, life
  <2>. QED
    BY <1>14, <2>1, <2>2, <2>3, <2>4, <2>5, <2>6, <2>7, <2>8, <2>9, <2>10, <2>11 DEF RequestStep
<1>. QED
  BY Steps, <1>1, <1>2, <1>3, <1>4, <1>5, <1>6, <1>7, <1>8, <1>9, <1>10, <1>11, <1>12, <1>13, <1>14 DEF ServiceStep

\* What a step may do to the phase, the timer and the child together.
LifeStep ==
  \/ UNCHANGED life \/ Expire \/ Close("stopped")
  \/ Fail("startup-failed") \/ Fail("identity-failed")

LEMMA RequestLife ==
  ASSUME NEW r \in Requests, RequestStep(r)
  PROVE  LifeStep
<1>1. ASSUME NEW route \in Routes, Admit(r, route) PROVE LifeStep
  BY <1>1 DEF Admit, LifeStep
<1>2. CASE Refused(r)
  BY <1>2 DEF Refused, LifeStep
<1>3. CASE Operate(r)
  BY <1>3 DEF Operate, LifeStep
<1>4. CASE Body(r) \/ RunMutation(r)
  BY <1>3, <1>4 DEF Body, RunMutation, LifeStep
<1>5. CASE BodyFails(r) \/ UpstreamFails(r)
  BY <1>5 DEF BodyFails, UpstreamFails, LifeStep
<1>6. CASE UpstreamAnswers(r)
  BY <1>6 DEF UpstreamAnswers, LifeStep, IdentityFails
<1>7. CASE VerifyGenesis(r) \/ Pin(r) \/ Deliver(r)
  BY <1>7 DEF VerifyGenesis, Pin, Deliver, LifeStep
<1>8. CASE VerifyFails(r)
  BY <1>8 DEF VerifyFails, LifeStep, IdentityFails
<1>. QED
  BY <1>1, <1>2, <1>4, <1>5, <1>6, <1>7, <1>8 DEF RequestStep

\* Failing, closing and expiring end the session and end it once.
LEMMA LifeEnding ==
  ASSUME Typed, Ending, LifeStep
  PROVE  /\ Ending' /\ PhaseSettles
         /\ phase' = "ready" => phase = "ready"
         /\ child' = "none" => child = "none"
<1>1. CASE UNCHANGED life
  BY <1>1 DEF Ending, PhaseSettles, life, Alive
<1>2. CASE Expire
  BY <1>2 DEF Typed, Ending, PhaseSettles, life, Expire, Close, Signal, Failures, Alive
<1>3. CASE Close("stopped")
  BY <1>3 DEF Typed, Ending, PhaseSettles, life, Close, Signal, Failures, Alive
<1>4. CASE Fail("startup-failed")
  BY <1>4 DEF Typed, Ending, PhaseSettles, Fail, Signal, Failures, Alive
<1>5. CASE Fail("identity-failed")
  BY <1>5 DEF Typed, Ending, PhaseSettles, Fail, Signal, Failures, Alive
<1>. QED
  BY <1>1, <1>2, <1>3, <1>4, <1>5 DEF LifeStep

\* A step keeps the end of a session: the invariant, and the action property.
LEMMA EndingStep ==
  ASSUME Typed, Ending, [Next]_vars
  PROVE  Ending' /\ PhaseSettles
<1>1. CASE UNCHANGED life
  BY <1>1, LifeEnding DEF LifeStep
<1>2. CASE UNCHANGED vars
  BY <1>2, <1>1 DEF vars
<1>3. CASE Start
  <2>1. CASE child' = "up" /\ UNCHANGED <<phase, closing, term>>
    BY <1>3, <2>1 DEF Start, Ending, PhaseSettles, Alive, Failures
  <2>2. CASE Fail("startup-failed")
    BY <2>2, LifeEnding DEF LifeStep
  <2>. QED
    BY <1>3, <2>1, <2>2 DEF Start
<1>4. CASE ChildExits
  BY <1>4 DEF ChildExits, Typed, Ending, PhaseSettles, Failures
<1>5. CASE ExpiryTimer \/ Shutdown
  BY <1>5, LifeEnding DEF ExpiryTimer, Shutdown, LifeStep
<1>6. CASE GraceOver
  BY <1>6 DEF GraceOver, Ending, PhaseSettles
<1>7. CASE Discover
  <2>1. CASE phase = "starting" /\ phase' = "ready" /\ UNCHANGED <<closing, timer, child, term>>
    BY <2>1 DEF Ending, PhaseSettles, Alive, Failures
  <2>2. CASE Fail("startup-failed")
    BY <2>2, LifeEnding DEF LifeStep
  <2>. QED
    BY <1>7, <2>1, <2>2, <1>1 DEF Discover
<1>8. CASE DiscoverVerified
  BY <1>8 DEF DiscoverVerified, Ending, PhaseSettles, Alive, Failures
<1>9. CASE DiscoverGenesis \/ DiscoverFails \/ RuntimeStarts \/ RuntimeChanges \/ Tick
  BY <1>9, <1>1 DEF DiscoverGenesis, DiscoverFails, RuntimeStarts, RuntimeChanges, Tick
<1>10. ASSUME NEW r \in Requests, RequestStep(r) PROVE Ending' /\ PhaseSettles
  BY <1>10, RequestLife, LifeEnding
<1>. QED
  BY Steps, <1>2, <1>3, <1>4, <1>5, <1>6, <1>7, <1>8, <1>9, <1>10 DEF ServiceStep

\* Only discovery and the verification of a guided chain touch the identity.
LEMMA RequestIdentity ==
  ASSUME GatewayAssumption, Typed, Vouched, NEW r \in Requests, RequestStep(r)
  PROVE  /\ UNCHANGED disc
         /\ identity # None => identity' # None
         /\ req[r].pc = "idle" => UNCHANGED identity
<1>1. ASSUME NEW route \in Routes, Admit(r, route) PROVE UNCHANGED <<disc, identity>>
  BY <1>1 DEF Admit, idents
<1>2. CASE Refused(r) \/ Body(r) \/ BodyFails(r) \/ RunMutation(r) \/ UpstreamFails(r)
           \/ VerifyGenesis(r) \/ Deliver(r)
  BY <1>2 DEF Refused, Body, BodyFails, RunMutation, UpstreamFails, VerifyGenesis, Deliver, idents
<1>3. CASE UpstreamAnswers(r)
  <2>1. Verifying(rt.chain) # None
    BY VerifyingTyped
  <2>. QED
    BY <1>3, <2>1 DEF UpstreamAnswers
<1>4. CASE Pin(r)
  <2>1. req[r].chain \in Names
    BY DEF Typed, Handlers
  <2>2. identity' \in [genesis : Names, url : Names]
    BY <1>4, <2>1 DEF Pin
  <2>. QED
    BY <1>4, <2>2 DEF Pin, GatewayAssumption, Names
<1>5. CASE VerifyFails(r)
  BY <1>5 DEF VerifyFails, Vouched
<1>. QED
  BY <1>1, <1>2, <1>3, <1>4, <1>5 DEF RequestStep

\* Nothing is admitted before discovery is over.
LEMMA BoundStep ==
  ASSUME GatewayAssumption, Typed, Ending, Bound, Vouched, [Next]_vars
  PROVE  Bound'
<1>1. CASE UNCHANGED vars
  BY <1>1 DEF Bound, vars, life, idents, hist
<1>2. CASE Start
  <2>1. UNCHANGED <<identity, req, delivered>> /\ phase' # "ready" /\ disc.pc = "off"
    BY <1>2 DEF Start, idents, hist, Fail, Bound
  <2>2. \A r \in Requests : req[r].pc = "idle"
    BY <2>1 DEF Bound
  <2>3. child' = "none" => disc' = disc
    BY <1>2 DEF Start
  <2>. QED
    BY <2>1, <2>2, <2>3 DEF Bound
<1>3. CASE ChildExits \/ GraceOver
  BY <1>3 DEF ChildExits, GraceOver, Bound, idents, hist
<1>4. CASE ExpiryTimer \/ Shutdown
  <2>1. LifeStep /\ UNCHANGED <<identity, disc, req, delivered>>
    BY <1>4 DEF ExpiryTimer, Shutdown, LifeStep, idents, hist
  <2>. QED
    BY <2>1, LifeEnding DEF Bound
<1>5. CASE RuntimeStarts \/ RuntimeChanges \/ Tick
  BY <1>5 DEF RuntimeStarts, RuntimeChanges, Tick, Bound, life, idents, hist
<1>6. CASE Discover
  <2>1. UNCHANGED <<req, delivered>> /\ delivered = {} /\ phase # "ready" /\ child # "none"
        /\ \A r \in Requests : req[r].pc = "idle"
    BY <1>6 DEF Discover, hist, Bound
  <2>2. phase' = "ready" => disc'.pc = "done" /\ identity' = NoIdentity
    BY <1>6, <2>1 DEF Discover, Fail, life, Typed
  <2>3. NoIdentity # None
    BY DEF NoIdentity, GatewayAssumption
  <2>4. child' # "none"
    BY <1>6, <2>1 DEF Discover, Fail, life, Signal
  <2>. QED
    BY <2>1, <2>2, <2>3, <2>4 DEF Bound
<1>7. CASE DiscoverGenesis \/ DiscoverFails
  BY <1>7 DEF DiscoverGenesis, DiscoverFails, Bound, life, hist, Typed
<1>8. CASE DiscoverVerified
  <2>1. disc.chain \in Names
    BY DEF Typed
  <2>2. identity' # None
    BY <1>8, <2>1 DEF DiscoverVerified, GatewayAssumption, Names
  <2>. QED
    BY <1>8, <2>2 DEF DiscoverVerified, Bound, hist, Typed
<1>9. ASSUME NEW r \in Requests, RequestStep(r) PROVE Bound'
  <2>1. /\ UNCHANGED disc
        /\ identity # None => identity' # None
        /\ phase' = "ready" => phase = "ready"
        /\ child' = "none" => child = "none"
    BY <1>9, RequestIdentity, RequestLife, LifeEnding
  <2>2. req[r].pc = "idle" => delivered' = delivered
    BY <1>9 DEF RequestStep, Admit, Refused, Body, BodyFails, RunMutation, UpstreamAnswers,
                UpstreamFails, VerifyGenesis, Pin, VerifyFails, Deliver, hist
  <2>3. \A t \in Requests : t # r => req'[t] = req[t]
    BY <1>9 DEF RequestStep, Admit, Refused, Body, BodyFails, RunMutation, UpstreamAnswers,
                UpstreamFails, VerifyGenesis, Pin, VerifyFails, Deliver, Operate, Answer, Go,
                IdentityFails, Typed
  <2>4. req[r].pc = "idle" /\ req'[r].pc # "idle" => phase = "ready"
    BY <1>9 DEF RequestStep, Admit, Refused, Body, BodyFails, RunMutation, UpstreamAnswers,
                UpstreamFails, VerifyGenesis, Pin, VerifyFails, Deliver, Ready
  <2>. QED
    BY <2>1, <2>2, <2>3, <2>4 DEF Bound
<1>. QED
  BY Steps, <1>1, <1>2, <1>3, <1>4, <1>5, <1>6, <1>7, <1>8, <1>9 DEF ServiceStep

\* A step that leaves what is verified alone, and the identities as they are.
LEMMA VouchedSame ==
  ASSUME Vouched, UNCHANGED <<identity, disc, req, verified, delivered>>
  PROVE  Vouched'
BY DEF Vouched, Pinned

\* A request's step that writes no chain down.
LEMMA VouchedMove ==
  ASSUME Typed, Vouched, NEW r \in Requests, UNCHANGED <<identity, disc, verified, delivered>>,
         \/ Answer(r)
         \/ Go(r, "queued") /\ req[r].pc = "body"
         \/ Go(r, "upstream") /\ req[r].pc \in {"body", "queued"}
         \/ Go(r, "deliver") /\ req[r].pc = "upstream"
  PROVE  Vouched'
<1>1. req \in [Requests -> Handlers]
  BY DEF Typed
<1>2. \A t \in Requests : t # r => req'[t] = req[t]
  BY <1>1 DEF Answer, Go
<1>3. CASE Answer(r)
  <2>1. req'[r] = Idle
    BY <1>1, <1>3 DEF Answer
  <2>. QED
    BY <1>2, <2>1 DEF Vouched, Pinned, Idle
<1>4. ASSUME NEW pc \in {"queued", "upstream", "deliver"}, Go(r, pc),
             req[r].pc \in {"body", "queued", "upstream"}
      PROVE  Vouched'
  <2>1. req'[r] = [req[r] EXCEPT !.pc = pc] /\ req[r] \in Handlers
    BY <1>1, <1>4 DEF Go
  <2>2. req'[r].pc = pc /\ req'[r].chain = req[r].chain /\ req'[r].prev = req[r].prev
    BY <2>1 DEF Handlers
  <2>. QED
    BY <1>2, <1>4, <2>2 DEF Vouched, Pinned
<1>. QED
  BY <1>3, <1>4

\* What a wallet's answer shows, once compared, is what the gateway is bound to.
LEMMA WalletShows ==
  ASSUME GatewayAssumption, Kind = "wallet", NEW r \in Requests, req[r] \in Handlers,
         ~ Changed(req[r].route)
  PROVE  Shown(req[r].route) \in {None, identity.genesis}
<1>1. None \notin {"state", "start", "step", "receipt"}
  BY DEF GatewayAssumption, Gets, Mutations
<1>2. req[r].route \in {"manifest", "faucet", "advance", "send", "genesis", None}
  BY DEF Handlers, Routes
<1>3. Shown(req[r].route) # None => req[r].route \in {"manifest", "genesis"}
  BY <1>1, <1>2 DEF Shown
<1>. QED
  BY <1>3 DEF Shown, Changed

\* Every chain on its way to an answer was verified where it has to be.
LEMMA VouchedStep ==
  ASSUME GatewayAssumption, Typed, Bound, Vouched, [Next]_vars
  PROVE  Vouched'
<1>. USE DEF idents, hist
<1>1. CASE UNCHANGED vars
  BY <1>1, VouchedSame DEF vars
<1>2. CASE Start
  <2>1. UNCHANGED <<identity, req, verified, delivered>> /\ disc'.prev = disc.prev
        /\ (disc' = disc \/ disc'.pc = "ask")
    BY <1>2 DEF Start, Typed
  <2>. QED
    BY <2>1 DEF Vouched, Pinned
<1>3. CASE ChildExits \/ ExpiryTimer \/ Shutdown \/ GraceOver \/ RuntimeStarts \/ RuntimeChanges \/ Tick
  BY <1>3, VouchedSame DEF ChildExits, ExpiryTimer, Shutdown, GraceOver, RuntimeStarts, RuntimeChanges, Tick
<1>4. CASE Discover
  <2>1. UNCHANGED <<req, verified, delivered>>
    BY <1>4 DEF Discover
  <2>2. CASE disc' = [disc EXCEPT !.pc = "done"] /\ (UNCHANGED identity \/ identity' = NoIdentity)
    BY <2>1, <2>2 DEF Vouched, Pinned, NoIdentity, Typed
  <2>3. CASE /\ disc' = [pc |-> "verify", id |-> rt.id, chain |-> rt.chain, prev |-> identity]
             /\ identity' = Verifying(rt.chain)
    <3>1. identity'.url = rt.chain /\ identity' # None /\ Pinned(identity)'
      BY <2>1, <2>3, VerifyingTyped DEF Verifying, Vouched, Pinned
    <3>. QED
      BY <2>1, <2>3, <3>1 DEF Vouched, Pinned
  <2>4. CASE UNCHANGED <<disc, identity>>
    BY <2>1, <2>4, VouchedSame
  <2>. QED
    BY <1>4, <2>2, <2>3, <2>4 DEF Discover
<1>5. CASE DiscoverGenesis
  BY <1>5 DEF DiscoverGenesis, Vouched, Pinned, Typed
<1>6. CASE DiscoverVerified
  BY <1>6 DEF DiscoverVerified, Vouched, Pinned, Typed
<1>7. CASE DiscoverFails
  BY <1>7 DEF DiscoverFails, Vouched, Pinned, Typed
<1>8. ASSUME NEW r \in Requests, NEW route \in Routes, Admit(r, route) PROVE Vouched'
  <2>1. /\ UNCHANGED <<identity, disc, verified, delivered>>
        /\ \A t \in Requests : t # r => req'[t] = req[t]
        /\ req'[r].chain = None /\ req'[r].prev = None /\ req'[r].pc \in {"upstream", "body"}
    BY <1>8 DEF Admit, Idle, Typed
  <2>. QED
    BY <2>1 DEF Vouched, Pinned
<1>9. ASSUME NEW r \in Requests, Operate(r), req[r].pc \in {"body", "queued"},
             UNCHANGED <<identity, disc, verified, delivered>>
      PROVE  Vouched'
  BY <1>9, VouchedMove DEF Operate
<1>10. ASSUME NEW r \in Requests,
              Refused(r) \/ Body(r) \/ BodyFails(r) \/ RunMutation(r) \/ UpstreamFails(r)
       PROVE  Vouched'
  BY <1>9, <1>10, VouchedMove, VouchedSame DEF Refused, Body, BodyFails, RunMutation, UpstreamFails
<1>11. ASSUME NEW r \in Requests, UpstreamAnswers(r) PROVE Vouched'
  <2>1. UNCHANGED <<disc, verified, delivered>> /\ req[r].pc = "upstream" /\ req[r] \in Handlers
        /\ identity # None /\ disc.pc = "done"
    BY <1>11 DEF UpstreamAnswers, Typed, Bound
  <2>2. CASE (Go(r, "deliver") \/ Answer(r)) /\ UNCHANGED identity
    BY <2>1, <2>2, VouchedMove
  <2>3. CASE /\ ~ Changed(req[r].route) /\ ~ (Kind = "guided" /\ rt.chain # None /\ identity.genesis = None)
             /\ req' = [req EXCEPT ![r].pc = "deliver", ![r].chain = Shown(req[r].route)]
             /\ UNCHANGED identity
    <3>1. Shown(req[r].route) # None => Shown(req[r].route) = identity.genesis
      <4>1. CASE Kind = "wallet"
        BY <4>1, <2>1, <2>3, WalletShows
      <4>2. CASE Kind # "wallet"
        <5>1. CASE Kind = "guided"
          BY <5>1, <2>1, <2>3 DEF Shown, Changed
        <5>. QED
          BY <5>1, <4>2 DEF GatewayAssumption
      <4>. QED
        BY <4>1, <4>2
    <3>2. /\ \A t \in Requests : t # r => req'[t] = req[t]
          /\ req'[r].pc = "deliver" /\ req'[r].chain = Shown(req[r].route) /\ req'[r].prev = req[r].prev
      BY <2>1, <2>3 DEF Typed, Handlers
    <3>3. Shown(req[r].route) # None => Shown(req[r].route) \in verified
      BY <2>1, <3>1 DEF Vouched, Pinned
    <3>4. UNCHANGED <<identity, disc, verified, delivered>>
      BY <2>1, <2>3
    <3>5. ASSUME NEW t \in Requests
          PROVE  /\ Pinned(req'[t].prev)
                 /\ req'[t].pc \in {"verify", "program"} => req'[t].prev # None
                 /\ req'[t].pc \in {"body", "queued", "upstream"} => req'[t].chain = None
                 /\ req'[t].pc = "program" => req'[t].chain \in verified
                 /\ req'[t].pc = "deliver" /\ req'[t].chain # None => req'[t].chain \in verified
      <4>1. CASE t = r
        BY <4>1, <3>2, <3>3 DEF Vouched
      <4>2. CASE t # r
        BY <4>2, <3>2 DEF Vouched
      <4>. QED
        BY <4>1, <4>2
    <3>. QED
      BY <3>4, <3>5 DEF Vouched, Pinned
  <2>4. CASE /\ req' = [req EXCEPT ![r].pc = "verify", ![r].chain = rt.chain, ![r].prev = identity]
             /\ identity' = Verifying(rt.chain)
    <3>1. identity' # None /\ Pinned(identity)'
      BY <2>1, <2>4, VerifyingTyped DEF Verifying, Vouched, Pinned
    <3>2. /\ \A t \in Requests : t # r => req'[t] = req[t]
          /\ req'[r].pc = "verify" /\ req'[r].prev = identity
      BY <2>1, <2>4 DEF Typed, Handlers
    <3>. QED
      BY <2>1, <3>1, <3>2 DEF Vouched, Pinned
  <2>. QED
    BY <1>11, <2>2, <2>3, <2>4 DEF UpstreamAnswers, IdentityFails
<1>12. ASSUME NEW r \in Requests, VerifyGenesis(r) PROVE Vouched'
  <2>1. /\ UNCHANGED <<identity, disc, delivered>> /\ verified' = verified \cup {req[r].chain}
        /\ \A t \in Requests : t # r => req'[t] = req[t]
        /\ req[r].pc = "verify" /\ req'[r].pc = "program"
        /\ req'[r].chain = req[r].chain /\ req'[r].prev = req[r].prev
    BY <1>12 DEF VerifyGenesis, Go, Typed, Handlers
  <2>. QED
    BY <2>1 DEF Vouched, Pinned
<1>13. ASSUME NEW r \in Requests, Pin(r) PROVE Vouched'
  <2>1. /\ UNCHANGED <<disc, verified, delivered>> /\ identity'.genesis = req[r].chain
        /\ \A t \in Requests : t # r => req'[t] = req[t]
        /\ req[r].pc = "program" /\ req'[r].pc = "deliver"
        /\ req'[r].chain = req[r].chain /\ req'[r].prev = req[r].prev
    BY <1>13 DEF Pin, Go, Typed, Handlers
  <2>2. disc.pc = "done"
    BY <2>1 DEF Bound
  <2>. QED
    BY <2>1, <2>2 DEF Vouched, Pinned
<1>14. ASSUME NEW r \in Requests, VerifyFails(r) PROVE Vouched'
  <2>1. /\ UNCHANGED <<disc, verified, delivered>> /\ identity' = req[r].prev
        /\ \A t \in Requests : t # r => req'[t] = req[t]
        /\ req'[r] = Idle /\ req[r].pc \in {"verify", "program"}
    BY <1>14 DEF VerifyFails, IdentityFails, Answer, Typed
  <2>2. disc.pc = "done"
    BY <2>1 DEF Bound
  <2>. QED
    BY <2>1, <2>2 DEF Vouched, Pinned, Idle
<1>15. ASSUME NEW r \in Requests, Deliver(r) PROVE Vouched'
  <2>1. /\ UNCHANGED <<identity, disc, verified>>
        /\ \A t \in Requests : t # r => req'[t] = req[t]
        /\ req'[r] = Idle
    BY <1>15 DEF Deliver, Answer, Typed
  <2>2. delivered' \subseteq verified'
    BY <1>15 DEF Deliver, Vouched
  <2>. QED
    BY <2>1, <2>2 DEF Vouched, Pinned, Idle
<1>. QED
  BY Steps, <1>1, <1>2, <1>3, <1>4, <1>5, <1>6, <1>7, <1>8, <1>10, <1>11, <1>12, <1>13, <1>14, <1>15
     DEF ServiceStep, RequestStep

\* A handler that moves on and neither joins nor leaves the queue.
LEMMA MoveKeeps ==
  ASSUME Turns, Counted, UNCHANGED <<queue, mutationCount, inflight>>,
         \A s \in Requests : /\ req'[s].pc = "idle" <=> req[s].pc = "idle"
                             /\ InLine(s)' <=> InLine(s)
                             /\ req'[s].pc = "queued" => req[s].pc = "queued"
                             /\ req[s].pc = "queued" /\ req'[s].pc # "queued" => queue # <<>> /\ Head(queue) = s
  PROVE  Turns' /\ Counted'
<1>1. Turns'
  BY DEF Turns
<1>2. Busy' = Busy /\ Waiting' = Waiting
  BY DEF Busy, Waiting
<1>. QED
  BY <1>1, <1>2 DEF Counted

\* The turn of a request: it is first, and is answered or sent.
LEMMA OperateKeeps ==
  ASSUME GatewayAssumption, Typed, Turns, Counted, NEW r \in Requests, Operate(r),
         \/ req[r].pc = "body" /\ req[r].route \notin Mutations
         \/ req[r].pc = "queued" /\ Head(queue) = r
  PROVE  Turns' /\ Counted'
<1>1. CASE Answer(r)
  BY <1>1, AnswerTurns, AnswerCounted
<1>2. CASE Go(r, "upstream") /\ UNCHANGED <<queue, mutationCount, inflight>>
  <2>1. /\ \A s \in Requests : s # r => req'[s] = req[s]
        /\ req'[r].pc = "upstream" /\ req'[r].route = req[r].route
    BY <1>2 DEF Go, Typed, Handlers
  <2>2. ASSUME req[r].pc = "queued" PROVE queue # <<>> /\ Head(queue) = r
    <3>1. queue # <<>>
      BY <2>2 DEF Turns, Typed
    <3>. QED
      BY <3>1, <2>2
  <2>. QED
    BY <1>2, <2>1, <2>2, MoveKeeps DEF InLine
<1>. QED
  BY <1>1, <1>2 DEF Operate

\* A mutation whose body is in goes to the end of the queue.
LEMMA JoinKeeps ==
  ASSUME GatewayAssumption, Typed, Turns, Counted, NEW r \in Requests,
         req[r].pc = "body", req[r].route \in Mutations, mutationCount < MaxMutations,
         Go(r, "queued"), queue' = Append(queue, r), mutationCount' = mutationCount + 1,
         UNCHANGED inflight
  PROVE  Turns' /\ Counted'
<1>1. /\ \A s \in Requests : s # r => req'[s] = req[s] /\ (InLine(s)' <=> InLine(s))
      /\ req'[r].pc = "queued" /\ InLine(r)' /\ ~ InLine(r)
  BY DEF Go, Typed, Handlers, InLine
<1>2. /\ Len(queue') = Len(queue) + 1 /\ Len(queue) \in Nat
      /\ queue'[Len(queue) + 1] = r /\ \A i \in 1..Len(queue) : queue'[i] = queue[i]
      /\ queue # <<>> => queue' # <<>> /\ Head(queue') = Head(queue)
  BY DEF Typed
<1>3. \A i \in 1..Len(queue) : queue[i] # r
  BY <1>1 DEF Turns
<1>4. \A i, j \in 1..Len(queue') : queue'[i] = queue'[j] => i = j
  BY <1>2, <1>3 DEF Turns
<1>5. ASSUME NEW s \in Requests PROVE InLine(s)' <=> \E i \in 1..Len(queue') : queue'[i] = s
  <2>1. CASE s = r
    BY <2>1, <1>1, <1>2
  <2>2. CASE s # r
    <3>1. (\E i \in 1..Len(queue') : queue'[i] = s) <=> \E i \in 1..Len(queue) : queue[i] = s
      BY <2>2, <1>2
    <3>. QED
      BY <3>1, <2>2, <1>1 DEF Turns
  <2>. QED
    BY <2>1, <2>2
<1>6. Turns'
  BY <1>1, <1>2, <1>4, <1>5 DEF Turns
<1>7. IsFiniteSet(Waiting) /\ r \notin Waiting /\ Waiting' = Waiting \cup {r} /\ Busy' = Busy
  BY <1>1, FS_Subset DEF GatewayAssumption, Waiting, Busy
<1>8. Cardinality(Waiting') = Cardinality(Waiting) + 1
  BY <1>7, FS_AddElement
<1>. QED
  BY SMTT(60), <1>6, <1>7, <1>8, FS_CardinalityType DEF Counted, GatewayAssumption, Typed

\* The order of the mutations and the counters of admission are kept.
LEMMA TurnsStep ==
  ASSUME GatewayAssumption, Typed, Turns, Counted, [Next]_vars
  PROVE  Turns' /\ Counted'
<1>1. CASE UNCHANGED <<req, queue, mutationCount, inflight>>
  BY <1>1 DEF Turns, Counted, Busy, Waiting, InLine
<1>2. CASE UNCHANGED vars \/ ServiceStep
  BY <1>1, <1>2 DEF ServiceStep, Start, ChildExits, ExpiryTimer, Shutdown, GraceOver, Discover,
       DiscoverGenesis, DiscoverVerified, DiscoverFails, RuntimeStarts, RuntimeChanges, Tick, vars, load
<1>3. ASSUME NEW r \in Requests, NEW route \in Routes, Admit(r, route) PROVE Turns' /\ Counted'
  <2>1. /\ \A s \in Requests : s # r => req'[s] = req[s]
        /\ req[r].pc = "idle" /\ req'[r].pc = (IF route \in Gets THEN "upstream" ELSE "body")
        /\ req'[r].route = route
        /\ UNCHANGED <<queue, mutationCount>> /\ inflight' = inflight + 1 /\ inflight < MaxInflight
    BY <1>3 DEF Admit, Typed, Idle
  <2>2. \A s \in Requests : InLine(s)' <=> InLine(s)
    BY <2>1 DEF InLine, Gets, Mutations
  <2>3. \A s \in Requests : /\ req'[s].pc = "queued" => InLine(s)
                            /\ InLine(s) => req'[s] = req[s]
    BY <2>1 DEF InLine, Turns
  <2>4. Turns'
    BY <2>1, <2>2, <2>3 DEF Turns
  <2>5. IsFiniteSet(Busy) /\ r \notin Busy /\ Busy' = Busy \cup {r} /\ Waiting' = Waiting
    BY <2>1, <2>2, FS_Subset DEF GatewayAssumption, Busy, Waiting
  <2>6. Cardinality(Busy') = Cardinality(Busy) + 1
    BY <2>5, FS_AddElement
  <2>. QED
    BY <2>1, <2>4, <2>5, <2>6, FS_CardinalityType DEF Counted, GatewayAssumption, Typed
<1>4. ASSUME NEW r \in Requests, Refused(r) PROVE Turns' /\ Counted'
  BY <1>1, <1>4 DEF Refused, load
<1>5. ASSUME NEW r \in Requests, Body(r) PROVE Turns' /\ Counted'
  <2>1. req[r].pc = "body"
    BY <1>5 DEF Body
  <2>2. CASE req[r].route \notin Mutations
    BY <1>5, <2>1, <2>2, OperateKeeps DEF Body
  <2>3. CASE req[r].route \in Mutations /\ mutationCount >= MaxMutations
    BY <1>5, <2>1, <2>3, AnswerTurns, AnswerCounted DEF Body
  <2>4. CASE req[r].route \in Mutations /\ ~ (mutationCount >= MaxMutations)
    <3>1. mutationCount < MaxMutations
      BY <2>4 DEF Typed, GatewayAssumption
    <3>. QED
      BY <1>5, <2>1, <2>4, <3>1, JoinKeeps DEF Body
  <2>. QED
    BY <2>2, <2>3, <2>4
<1>6. ASSUME NEW r \in Requests, BodyFails(r) \/ UpstreamFails(r) \/ VerifyFails(r) \/ Deliver(r)
      PROVE  Turns' /\ Counted'
  <2>1. Answer(r) /\ req[r].pc \notin {"idle", "queued"}
    BY <1>6 DEF BodyFails, UpstreamFails, VerifyFails, Deliver, IdentityFails
  <2>. QED
    BY <2>1, AnswerTurns, AnswerCounted
<1>7. ASSUME NEW r \in Requests, RunMutation(r) PROVE Turns' /\ Counted'
  BY <1>7, OperateKeeps DEF RunMutation
<1>8. ASSUME NEW r \in Requests, UpstreamAnswers(r) \/ VerifyGenesis(r) \/ Pin(r) PROVE Turns' /\ Counted'
  <2>1. req[r].pc \in {"upstream", "verify", "program"}
    BY <1>8 DEF UpstreamAnswers, VerifyGenesis, Pin
  <2>2. CASE Answer(r)
    BY <2>1, <2>2, AnswerTurns, AnswerCounted
  <2>3. CASE /\ UNCHANGED <<queue, mutationCount, inflight>>
             /\ \A s \in Requests : s # r => req'[s] = req[s]
             /\ req'[r].pc \in {"verify", "program", "deliver"} /\ req'[r].route = req[r].route
    BY <2>1, <2>3, MoveKeeps DEF InLine
  <2>4. Answer(r) \/ /\ UNCHANGED <<queue, mutationCount, inflight>>
                     /\ \A s \in Requests : s # r => req'[s] = req[s]
                     /\ req'[r].pc \in {"verify", "program", "deliver"} /\ req'[r].route = req[r].route
    BY <1>8 DEF UpstreamAnswers, VerifyGenesis, Pin, Go, IdentityFails, load, Typed, Handlers
  <2>. QED
    BY <2>2, <2>3, <2>4
<1>. QED
  BY Steps, <1>2, <1>3, <1>4, <1>5, <1>6, <1>7, <1>8 DEF RequestStep

\* The one start is claimed before it is sent.
LEMMA ClaimedStep ==
  ASSUME Typed, Claimed, [Next]_vars
  PROVE  Claimed'
<1>1. CASE UNCHANGED <<guidedStartClaimed, starts>>
  BY <1>1 DEF Claimed
<1>2. CASE UNCHANGED vars \/ ServiceStep
  BY <1>1, <1>2 DEF ServiceStep, Start, ChildExits, ExpiryTimer, Shutdown, GraceOver, Discover,
       DiscoverGenesis, DiscoverVerified, DiscoverFails, RuntimeStarts, RuntimeChanges, Tick, vars, load, hist
<1>3. ASSUME NEW r \in Requests, Operate(r) PROVE Claimed'
  <2>1. CASE Go(r, "upstream") /\ ~ (req[r].route = "start" /\ guidedStartClaimed)
             /\ guidedStartClaimed' = (guidedStartClaimed \/ req[r].route = "start")
             /\ starts' = starts + (IF req[r].route = "start" THEN 1 ELSE 0)
    <3>1. CASE req[r].route = "start"
      <4>1. ~ guidedStartClaimed /\ guidedStartClaimed'
        BY <2>1, <3>1
      <4>. QED
        BY <2>1, <3>1, <4>1 DEF Claimed
    <3>2. CASE req[r].route # "start"
      <4>1. guidedStartClaimed' <=> guidedStartClaimed
        BY <2>1, <3>2
      <4>2. starts' = starts
        BY <2>1, <3>2 DEF Claimed
      <4>. QED
        BY <4>1, <4>2 DEF Claimed
    <3>. QED
      BY <3>1, <3>2
  <2>. QED
    BY <1>3, <1>1, <2>1 DEF Operate
<1>4. ASSUME NEW r \in Requests, Body(r) \/ RunMutation(r) PROVE Claimed'
  BY SMTT(60), <1>4, <1>1, <1>3 DEF Body, RunMutation
<1>5. ASSUME NEW r \in Requests, RequestStep(r), ~ (Body(r) \/ RunMutation(r)) PROVE Claimed'
  BY <1>5, <1>1 DEF RequestStep, Admit, Refused, BodyFails, UpstreamAnswers, UpstreamFails,
       VerifyGenesis, Pin, VerifyFails, Deliver, load, hist
<1>. QED
  BY Steps, <1>2, <1>4, <1>5

\* A wallet's gateway keeps what it is bound to, and answers with that.
LEMMA OneChainStep ==
  ASSUME GatewayAssumption, Typed, Bound, Vouched, OneChain, Kind = "wallet", [Next]_vars
  PROVE  OneChain'
<1>. USE DEF idents, hist
<1>1. CASE UNCHANGED <<identity, req, delivered>>
  BY <1>1 DEF OneChain
<1>2. CASE disc.pc # "done" /\ UNCHANGED <<req, delivered>>
  <2>1. delivered = {} /\ \A r \in Requests : req[r].pc = "idle"
    BY <1>2 DEF Bound
  <2>. QED
    BY <1>2, <2>1 DEF OneChain
<1>3. CASE UNCHANGED vars
  BY <1>1, <1>3 DEF vars
<1>4. CASE Start \/ ChildExits \/ ExpiryTimer \/ Shutdown \/ GraceOver \/ DiscoverGenesis
           \/ RuntimeStarts \/ RuntimeChanges \/ Tick
  BY <1>1, <1>4 DEF Start, ChildExits, ExpiryTimer, Shutdown, GraceOver, DiscoverGenesis,
                    RuntimeStarts, RuntimeChanges, Tick
<1>5. CASE Discover \/ DiscoverVerified \/ DiscoverFails
  BY <1>2, <1>5 DEF Discover, DiscoverVerified, DiscoverFails
<1>6. ASSUME NEW r \in Requests, UNCHANGED <<identity, delivered>>,
             \A s \in Requests : s # r => req'[s] = req[s],
             \/ req'[r].pc \in {"idle", "body", "queued", "upstream"}
             \/ req'[r].pc = "deliver" /\ req'[r].chain \in {None, identity.genesis}
      PROVE  OneChain'
  BY <1>6 DEF OneChain
<1>7. ASSUME NEW r \in Requests, NEW route \in Routes, Admit(r, route) PROVE OneChain'
  <2>1. req'[r].pc \in {"upstream", "body"} /\ \A s \in Requests : s # r => req'[s] = req[s]
    BY <1>7 DEF Admit, Typed, Idle
  <2>. QED
    BY <1>6, <1>7, <2>1 DEF Admit
<1>8. ASSUME NEW r \in Requests, Refused(r) PROVE OneChain'
  BY <1>1, <1>8 DEF Refused
<1>9. ASSUME NEW r \in Requests, Body(r) \/ RunMutation(r) \/ BodyFails(r) \/ UpstreamFails(r)
      PROVE  OneChain'
  <2>1. Answer(r) \/ Go(r, "queued") \/ Go(r, "upstream")
    BY <1>9 DEF Body, RunMutation, BodyFails, UpstreamFails, Operate
  <2>2. /\ req'[r].pc \in {"idle", "queued", "upstream"}
        /\ \A s \in Requests : s # r => req'[s] = req[s]
    BY <2>1 DEF Answer, Go, Typed, Idle, Handlers
  <2>. QED
    BY <1>6, <1>9, <2>2 DEF Body, RunMutation, BodyFails, UpstreamFails
<1>10. ASSUME NEW r \in Requests, UpstreamAnswers(r) PROVE OneChain'
  <2>1. UNCHANGED delivered /\ req[r].pc = "upstream" /\ req[r] \in Handlers /\ req[r].chain = None
    BY <1>10 DEF UpstreamAnswers, Typed, Vouched
  <2>2. CASE Go(r, "deliver") /\ UNCHANGED identity
    <3>1. /\ req'[r].pc = "deliver" /\ req'[r].chain = None
          /\ \A s \in Requests : s # r => req'[s] = req[s]
      BY <2>1, <2>2 DEF Go, Typed, Handlers
    <3>. QED
      BY <1>6, <2>1, <2>2, <3>1
  <2>3. CASE Answer(r) /\ UNCHANGED identity
    <3>1. req'[r].pc = "idle" /\ \A s \in Requests : s # r => req'[s] = req[s]
      BY <2>1, <2>3 DEF Answer, Typed, Idle
    <3>. QED
      BY <1>6, <2>1, <2>3, <3>1
  <2>4. CASE /\ ~ Changed(req[r].route) /\ UNCHANGED identity
             /\ req' = [req EXCEPT ![r].pc = "deliver", ![r].chain = Shown(req[r].route)]
    <3>1. /\ req'[r].pc = "deliver" /\ req'[r].chain = Shown(req[r].route)
          /\ \A s \in Requests : s # r => req'[s] = req[s]
      BY <2>1, <2>4 DEF Typed, Handlers
    <3>2. Shown(req[r].route) \in {None, identity.genesis}
      BY <2>1, <2>4, WalletShows
    <3>. QED
      BY <1>6, <2>1, <2>4, <3>1, <3>2
  <2>. QED
    BY <1>10, <2>2, <2>3, <2>4 DEF UpstreamAnswers, IdentityFails, GatewayAssumption
<1>11. ASSUME NEW r \in Requests, VerifyGenesis(r) \/ Pin(r) \/ VerifyFails(r) PROVE FALSE
  BY <1>11 DEF VerifyGenesis, Pin, VerifyFails, OneChain
<1>12. ASSUME NEW r \in Requests, Deliver(r) PROVE OneChain'
  <2>1. /\ req'[r].pc = "idle" /\ \A s \in Requests : s # r => req'[s] = req[s]
        /\ UNCHANGED identity /\ req[r].pc = "deliver"
        /\ delivered' \subseteq delivered \cup ({req[r].chain} \ {None})
    BY <1>12 DEF Deliver, Answer, Typed, Idle
  <2>. QED
    BY <2>1 DEF OneChain
<1>. QED
  BY Steps, <1>3, <1>4, <1>5, <1>7, <1>8, <1>9, <1>10, <1>11, <1>12 DEF ServiceStep, RequestStep

-----------------------------------------------------------------------------
(* The theorems.                                                           *)

LEMMA InvInit ==
  ASSUME GatewayAssumption, Init
  PROVE  IInv
<1>1. Idle \in Handlers
  BY DEF Idle, Handlers, Pcs, Names, Idents
<1>2. Typed
  <2>1. /\ disc \in [pc : {"off", "ask", "verify", "program", "done"},
                     id : RuntimeIds \cup {None}, chain : Names, prev : Idents]
        /\ identity \in Idents
    BY DEF Init, Names, Idents
  <2>2. rt \in [id : RuntimeIds, chain : Names]
    BY DEF Init, Names
  <2>3. req \in [Requests -> Handlers] /\ queue \in Seq(Requests) /\ now \in 0..MaxTime
    BY <1>1 DEF Init, GatewayAssumption
  <2>4. /\ phase \in {"starting", "ready", "expired", "stopped"} \cup Failures
        /\ child \in {"none", "up", "signalled", "killed", "down"} /\ term \in {"none", "grace"}
        /\ inflight \in Int /\ mutationCount \in Int
    BY DEF Init
  <2>5. closing \in BOOLEAN /\ timer \in BOOLEAN /\ guidedStartClaimed \in BOOLEAN
    BY DEF Init
  <2>. QED
    BY <2>1, <2>2, <2>3, <2>4, <2>5 DEF Typed
<1>3. \A r \in Requests : req[r] = Idle /\ ~ InLine(r)
  BY DEF Init, Idle, InLine
<1>4. Busy = {} /\ Waiting = {}
  BY <1>3 DEF Busy, Waiting, Idle
<1>5. Counted
  BY <1>4, FS_EmptySet DEF Init, Counted, GatewayAssumption
<1>6. Turns
  BY <1>3 DEF Init, Turns, Idle
<1>7. Ending /\ Bound /\ Claimed
  BY <1>3 DEF Init, Ending, Bound, Claimed, Idle
<1>8. Vouched
  BY <1>3 DEF Init, Vouched, Pinned, Idle
<1>9. OneChain
  BY <1>3 DEF Init, OneChain, Idle
<1>. QED
  BY <1>2, <1>5, <1>6, <1>7, <1>8, <1>9 DEF IInv

LEMMA InvStep ==
  ASSUME GatewayAssumption, IInv, [Next]_vars
  PROVE  IInv'
<1>1. Typed'
  BY TypedStep DEF IInv
<1>2. Ending'
  BY EndingStep DEF IInv
<1>3. Bound' /\ Vouched'
  BY BoundStep, VouchedStep DEF IInv
<1>4. Turns' /\ Counted'
  BY TurnsStep DEF IInv
<1>5. Claimed'
  BY ClaimedStep DEF IInv
<1>6. OneChain'
  <2>1. CASE Kind = "wallet"
    BY <2>1, OneChainStep DEF IInv
  <2>. QED
    BY <2>1 DEF OneChain
<1>. QED
  BY <1>1, <1>2, <1>3, <1>4, <1>5, <1>6 DEF IInv

\* What the invariant says of the counters, the queue, the start and the answers.
LEMMA InvSays ==
  ASSUME GatewayAssumption, IInv
  PROVE  /\ TypeOK /\ SlotsExact /\ OneMutationAtATime /\ StartedOnce /\ DeliveredWasVerified
         /\ Kind = "wallet" => OneChainDelivered
<1>. USE DEF IInv
<1>1. IsFiniteSet(Busy) /\ IsFiniteSet(Waiting)
  BY FS_Subset DEF GatewayAssumption, Busy, Waiting
<1>2. inflight \in Nat /\ mutationCount \in Nat
  BY <1>1, FS_CardinalityType DEF Counted
<1>3. TypeOK
  BY <1>2 DEF Typed, Ending, TypeOK, Handlers, Pcs
<1>4. {r \in Requests : Contains(queue, r)} = Waiting
  BY DEF Turns, Contains, Waiting
<1>5. SlotsExact
  BY <1>4 DEF SlotsExact, Counted, Busy
<1>6. OneMutationAtATime
  <2>. DEFINE S == {r \in Requests : /\ req[r].route \in Mutations
                                     /\ req[r].pc \in {"upstream", "verify", "program"}}
  <2>1. \A r \in S : r = Head(queue)
    BY DEF Turns, InLine
  <2>2. S \subseteq {Head(queue)}
    BY <2>1
  <2>3. IsFiniteSet({Head(queue)}) /\ Cardinality({Head(queue)}) = 1
    BY FS_Singleton
  <2>4. IsFiniteSet(S) /\ Cardinality(S) <= Cardinality({Head(queue)})
    BY <2>2, <2>3, FS_Subset
  <2>. QED
    BY <2>3, <2>4 DEF OneMutationAtATime
<1>7. StartedOnce
  BY DEF Claimed, StartedOnce
<1>8. DeliveredWasVerified
  BY DEF Vouched, DeliveredWasVerified
<1>9. ASSUME Kind = "wallet" PROVE OneChainDelivered
  <2>1. delivered \subseteq {identity.genesis}
    BY <1>9 DEF OneChain
  <2>2. IsFiniteSet({identity.genesis}) /\ Cardinality({identity.genesis}) = 1
    BY FS_Singleton
  <2>3. Cardinality(delivered) <= Cardinality({identity.genesis})
    BY <2>1, <2>2, FS_Subset
  <2>. QED
    BY <2>2, <2>3 DEF OneChainDelivered
<1>. QED
  BY <1>3, <1>5, <1>6, <1>7, <1>8, <1>9

\* A step sends and answers nothing for a session that is over.
LEMMA NothingLate ==
  ASSUME Typed, [Next]_vars
  PROVE  NothingAfterTheEnd
<1>1. CASE UNCHANGED <<req, delivered>>
  BY <1>1 DEF NothingAfterTheEnd
<1>2. CASE UNCHANGED vars \/ ServiceStep
  BY <1>1, <1>2 DEF ServiceStep, Start, ChildExits, ExpiryTimer, Shutdown, GraceOver, Discover,
       DiscoverGenesis, DiscoverVerified, DiscoverFails, RuntimeStarts, RuntimeChanges, Tick, vars, hist
<1>3. ASSUME NEW r \in Requests, UNCHANGED delivered,
             \/ Answer(r) \/ Go(r, "queued") \/ Go(r, "program") \/ Go(r, "deliver")
             \/ req' = [req EXCEPT ![r].pc = "deliver", ![r].chain = Shown(req[r].route)]
             \/ req' = [req EXCEPT ![r].pc = "verify", ![r].chain = rt.chain, ![r].prev = identity]
      PROVE  NothingAfterTheEnd
  <2>1. req'[r].pc # "upstream" /\ \A s \in Requests : s # r => req'[s] = req[s]
    BY <1>3 DEF Answer, Go, Idle, Typed, Handlers
  <2>. QED
    BY <1>3, <2>1 DEF NothingAfterTheEnd
<1>4. ASSUME NEW r \in Requests, NEW route \in Routes, Admit(r, route) PROVE NothingAfterTheEnd
  BY <1>4 DEF Admit, NothingAfterTheEnd
<1>5. ASSUME NEW r \in Requests, Refused(r) PROVE NothingAfterTheEnd
  BY SMTT(60), <1>1, <1>5 DEF Refused, hist
<1>6. ASSUME NEW r \in Requests, Operate(r), UNCHANGED delivered PROVE NothingAfterTheEnd
  <2>1. CASE Ready /\ ~ Over
    BY SMTT(60), <2>1 DEF NothingAfterTheEnd
  <2>. QED
    BY <1>3, <1>6, <2>1 DEF Operate
<1>7. ASSUME NEW r \in Requests, Body(r) \/ RunMutation(r) PROVE NothingAfterTheEnd
  BY ZenonT(90), <1>3, <1>6, <1>7 DEF Body, RunMutation
<1>8. ASSUME NEW r \in Requests,
             BodyFails(r) \/ UpstreamFails(r) \/ UpstreamAnswers(r) \/ VerifyGenesis(r) \/ Pin(r) \/ VerifyFails(r)
      PROVE  NothingAfterTheEnd
  BY ZenonT(90), <1>3, <1>8 DEF BodyFails, UpstreamFails, UpstreamAnswers, VerifyGenesis, Pin, VerifyFails,
                    IdentityFails, hist
<1>9. ASSUME NEW r \in Requests, Deliver(r) PROVE NothingAfterTheEnd
  <2>1. CASE Ready /\ ~ Over
    BY <2>1 DEF NothingAfterTheEnd
  <2>. QED
    BY <1>3, <1>9, <2>1 DEF Deliver
<1>. QED
  BY Steps, <1>2, <1>4, <1>5, <1>7, <1>8, <1>9 DEF RequestStep

\* The gateway under every interleaving of handlers, timers and the child: no
\* slot of admission is lost or given twice, mutations reach the runtime one at
\* a time, a guided runtime is started once, no chain is handed out that its own
\* endpoint did not vouch for, and a wallet's answers all show one chain.
THEOREM GatewayStaysExact ==
  ASSUME GatewayAssumption
  PROVE  Spec => []( /\ TypeOK /\ SlotsExact /\ OneMutationAtATime /\ StartedOnce /\ DeliveredWasVerified
                     /\ Kind = "wallet" => OneChainDelivered )
<1>1. Init => IInv
  BY InvInit
<1>2. IInv /\ [Next]_vars => IInv'
  BY InvStep
<1>3. IInv => /\ TypeOK /\ SlotsExact /\ OneMutationAtATime /\ StartedOnce /\ DeliveredWasVerified
              /\ Kind = "wallet" => OneChainDelivered
  BY InvSays
<1>. QED
  BY <1>1, <1>2, <1>3, PTL DEF Spec

\* A session that ended never serves again, keeps the reason that ended it, and
\* sends and answers nothing for the requests that waited through its end.
THEOREM EndIsTheEnd ==
  ASSUME GatewayAssumption
  PROVE  Spec => [][PhaseSettles /\ NothingAfterTheEnd]_vars
<1>1. Init => IInv
  BY InvInit
<1>2. IInv /\ [Next]_vars => IInv'
  BY InvStep
<1>3. IInv /\ [Next]_vars => [PhaseSettles /\ NothingAfterTheEnd]_vars
  BY EndingStep, NothingLate DEF IInv
<1>. QED
  BY <1>1, <1>2, <1>3, PTL DEF Spec

-----------------------------------------------------------------------------
(* The reviews and the meter (RpcPath), for any pages and requests.        *)

Statuses == {"none", "refused", "limited", "unavailable", "answered", "lost"}
Wires == [stage : {"broker", "gateway", "done"}, request : PageRequests, status : Statuses]

\* The invariant: what is forwarded was accepted, what is refused was refused by
\* one of the lists, and the meter covers what ran and what is on its way.
PathInv ==
  /\ forwarded \in 0..RequestLimit /\ mutations \in 0..MutationLimit /\ ran \in Nat
  /\ wire \in [Pages -> {NoRequest} \cup Wires]
  /\ \A p \in Pages : wire[p].stage = "gateway" => BrokerAccepts(wire[p].request)
  /\ \A p \in Pages : wire[p].stage = "done" /\ wire[p].status = "refused" =>
                        ~ BrokerAccepts(wire[p].request) \/ ~ GatewayAccepts(wire[p].request)
  /\ RunsAreMetered

LEMMA TenFinite == IsFiniteSet(1..10)
<1>1. 1 \in Int /\ 10 \in Int
  OBVIOUS
<1>. QED
  BY <1>1, FS_Interval, Zenon

LEMMA OnTheWayFinite ==
  ASSUME PathAssumption
  PROVE  IsFiniteSet(OnTheWay) /\ Cardinality(OnTheWay) \in Nat
<1>0. IsFiniteSet(1..10)
  BY TenFinite
<1>1. IsFiniteSet(Pages \X (1..10))
  BY <1>0, FS_Product DEF PathAssumption
<1>2. OnTheWay \subseteq Pages \X (1..10)
  BY DEF OnTheWay
<1>3. IsFiniteSet(OnTheWay)
  BY <1>1, <1>2, FS_Subset
<1>. QED
  BY <1>3, FS_CardinalityType

\* As many pairs of one page as there are transactions in its request.
LEMMA PagePairs ==
  ASSUME NEW p, NEW r, BrokerAccepts(r)
  PROVE  /\ Sends(r) \subseteq 1..10
         /\ IsFiniteSet(Sends(r)) /\ Cardinality(Sends(r)) \in Nat
         /\ IsFiniteSet({p} \X Sends(r))
         /\ Cardinality({p} \X Sends(r)) = Cardinality(Sends(r))
<1>1. Sends(r) \subseteq 1..10
  BY DEF BrokerAccepts, Sends
<1>0. IsFiniteSet(1..10)
  BY TenFinite
<1>2. IsFiniteSet(Sends(r))
  BY <1>0, <1>1, FS_Subset
<1>3. Cardinality(Sends(r)) \in Nat
  BY <1>2, FS_CardinalityType
<1>4. IsFiniteSet({p}) /\ Cardinality({p}) = 1
  BY FS_Singleton
<1>5. /\ IsFiniteSet({p} \X Sends(r))
      /\ Cardinality({p} \X Sends(r)) = Cardinality({p}) * Cardinality(Sends(r))
  BY <1>2, <1>4, FS_Product
<1>. QED
  BY <1>1, <1>2, <1>3, <1>4, <1>5

\* A request that comes or goes and is not at the gateway carries nothing.
LEMMA ElsewhereSame ==
  ASSUME PathInv, NEW p \in Pages, wire[p].stage # "gateway", wire'[p].stage # "gateway",
         \A q \in Pages : q # p => wire'[q] = wire[q]
  PROVE  OnTheWay' = OnTheWay
BY DEF OnTheWay

\* What leaves the gateway's door leaves what is on its way.
LEMMA LeavingGateway ==
  ASSUME PathAssumption, PathInv, NEW p \in Pages, wire[p].stage = "gateway", wire'[p].stage # "gateway",
         \A q \in Pages : q # p => wire'[q] = wire[q]
  PROVE  Cardinality(OnTheWay') = Cardinality(OnTheWay) - Cardinality(Sends(wire[p].request))
<1>. DEFINE T == {p} \X Sends(wire[p].request)
<1>1. BrokerAccepts(wire[p].request)
  BY DEF PathInv
<1>2. Sends(wire[p].request) \subseteq 1..10 /\ Cardinality(T) = Cardinality(Sends(wire[p].request))
  BY <1>1, PagePairs
<1>3. T \subseteq OnTheWay
  BY <1>2 DEF OnTheWay
<1>4. OnTheWay' = OnTheWay \ T
  BY DEF OnTheWay
<1>5. OnTheWay \cap T = T
  BY <1>3
<1>6. IsFiniteSet(OnTheWay)
  BY OnTheWayFinite
<1>7. Cardinality(OnTheWay \ T) = Cardinality(OnTheWay) - Cardinality(OnTheWay \cap T)
  BY <1>6, FS_Difference
<1>. QED
  BY <1>2, <1>4, <1>5, <1>7

\* What the broker forwards comes on its way.
LEMMA EnteringGateway ==
  ASSUME PathAssumption, PathInv, NEW p \in Pages, wire[p].stage # "gateway", wire'[p].stage = "gateway",
         BrokerAccepts(wire'[p].request), \A q \in Pages : q # p => wire'[q] = wire[q]
  PROVE  Cardinality(OnTheWay') = Cardinality(OnTheWay) + Cardinality(Sends(wire'[p].request))
<1>. DEFINE T == {p} \X Sends(wire'[p].request)
<1>1. /\ Sends(wire'[p].request) \subseteq 1..10 /\ IsFiniteSet(T)
      /\ Cardinality(T) = Cardinality(Sends(wire'[p].request)) /\ Cardinality(Sends(wire'[p].request)) \in Nat
  BY PagePairs
<1>2. OnTheWay' = OnTheWay \cup T
  BY <1>1 DEF OnTheWay
<1>3. OnTheWay \cap T = {}
  BY DEF OnTheWay
<1>4. Cardinality({}) = 0
  BY FS_EmptySet
<1>5. Cardinality(OnTheWay \cup T) = Cardinality(OnTheWay) + Cardinality(T) - Cardinality(OnTheWay \cap T)
  BY <1>1, OnTheWayFinite, FS_Union
<1>6. Cardinality(OnTheWay) \in Nat /\ Cardinality(T) \in Nat
  BY <1>1, OnTheWayFinite
<1>7. Cardinality(OnTheWay') = Cardinality(OnTheWay) + Cardinality(T) - 0
  BY <1>2, <1>3, <1>4, <1>5
<1>8. Cardinality(OnTheWay') = Cardinality(OnTheWay) + Cardinality(T)
  BY <1>6, <1>7
<1>. QED
  BY <1>1, <1>8

LEMMA PathInit ==
  ASSUME PathAssumption, InitPath
  PROVE  PathInv
<1>1. OnTheWay = {}
  BY DEF InitPath, OnTheWay, NoRequest
<1>2. RunsAreMetered
  BY <1>1, FS_EmptySet DEF InitPath, RunsAreMetered
<1>3. /\ \A p \in Pages : wire[p] = NoRequest /\ wire[p].stage = "idle"
      /\ wire \in [Pages -> {NoRequest} \cup Wires]
  BY DEF InitPath, NoRequest
<1>. QED
  BY <1>2, <1>3 DEF InitPath, PathInv, PathAssumption

\* The end of a request.
LEMMA DoneEnds ==
  ASSUME PathInv, NEW p \in Pages, NEW status \in Statuses, wire[p].stage \in {"broker", "gateway"},
         Done(p, status)
  PROVE  /\ wire[p] \in Wires /\ wire' \in [Pages -> {NoRequest} \cup Wires]
         /\ wire'[p].stage = "done" /\ wire'[p].status = status /\ wire'[p].request = wire[p].request
         /\ \A q \in Pages : q # p => wire'[q] = wire[q]
<1>1. wire[p] \in Wires
  BY DEF PathInv, NoRequest
<1>2. [wire[p] EXCEPT !.stage = "done", !.status = status] \in Wires
  BY <1>1 DEF Wires
<1>3. wire' = [wire EXCEPT ![p] = [wire[p] EXCEPT !.stage = "done", !.status = status]]
  BY DEF Done
<1>. QED
  BY <1>1, <1>2, <1>3 DEF PathInv, Wires

LEMMA PathStep ==
  ASSUME PathAssumption, PathInv, [NextPath]_pathVars
  PROVE  PathInv'
<1>1. CASE UNCHANGED pathVars
  <2>1. OnTheWay' = OnTheWay
    BY <1>1 DEF pathVars, OnTheWay
  <2>. QED
    BY <1>1, <2>1 DEF pathVars, PathInv, RunsAreMetered
<1>2. ASSUME NEW p \in Pages, Send(p) PROVE PathInv'
  <2>1. PICK r \in PageRequests : wire' = [wire EXCEPT ![p] = [stage |-> "broker", request |-> r, status |-> "none"]]
    BY <1>2 DEF Send
  <2>2. /\ wire' \in [Pages -> {NoRequest} \cup Wires] /\ wire'[p].stage = "broker"
        /\ \A q \in Pages : q # p => wire'[q] = wire[q]
    BY <2>1 DEF PathInv, Wires, Statuses
  <2>3. OnTheWay' = OnTheWay /\ UNCHANGED <<forwarded, mutations, ran>>
    BY <1>2, <2>2, ElsewhereSame DEF Send
  <2>. QED
    BY <2>2, <2>3 DEF PathInv, RunsAreMetered
<1>3. ASSUME NEW p \in Pages, BrokerRefuses(p) PROVE PathInv'
  <2>1. wire[p].stage = "broker" /\ Done(p, "refused") /\ ~ BrokerAccepts(wire[p].request)
        /\ UNCHANGED <<forwarded, mutations, ran>>
    BY <1>3 DEF BrokerRefuses
  <2>2. /\ wire' \in [Pages -> {NoRequest} \cup Wires]
        /\ wire'[p].stage = "done" /\ wire'[p].request = wire[p].request
        /\ \A q \in Pages : q # p => wire'[q] = wire[q]
    BY <2>1, DoneEnds DEF Statuses
  <2>3. OnTheWay' = OnTheWay
    BY <2>1, <2>2, ElsewhereSame
  <2>. QED
    BY <2>1, <2>2, <2>3 DEF PathInv, RunsAreMetered
<1>4. ASSUME NEW p \in Pages, Charge(p) PROVE PathInv'
  <2>1. wire[p].stage = "broker" /\ BrokerAccepts(wire[p].request) /\ UNCHANGED ran
    BY <1>4 DEF Charge
  <2>2. CASE Within(wire[p].request)
    <3>1. /\ forwarded' = forwarded + 1 /\ mutations' = mutations + Cardinality(Sends(wire[p].request))
          /\ wire' = [wire EXCEPT ![p].stage = "gateway"]
      BY <1>4, <2>2 DEF Charge, MutationsOf
    <3>2. wire[p] \in Wires
      BY <2>1 DEF PathInv, NoRequest
    <3>3. /\ wire' \in [Pages -> {NoRequest} \cup Wires]
          /\ wire'[p].stage = "gateway" /\ wire'[p].request = wire[p].request
          /\ \A q \in Pages : q # p => wire'[q] = wire[q]
      BY <3>1, <3>2 DEF PathInv, Wires
    <3>4. Cardinality(OnTheWay') = Cardinality(OnTheWay) + Cardinality(Sends(wire[p].request))
      BY <2>1, <3>3, EnteringGateway
    <3>5. Cardinality(Sends(wire[p].request)) \in Nat
      BY <2>1, PagePairs
    <3>6. forwarded' \in 0..RequestLimit /\ mutations' \in 0..MutationLimit
      BY <2>2, <3>1, <3>5 DEF Within, MutationsOf, PathInv, PathAssumption
    <3>7. RunsAreMetered'
      BY <2>1, <3>1, <3>4, <3>5, OnTheWayFinite DEF PathInv, RunsAreMetered
    <3>. QED
      BY <2>1, <3>3, <3>6, <3>7 DEF PathInv
  <2>3. CASE ~ Within(wire[p].request)
    <3>1. Done(p, "limited") /\ UNCHANGED <<forwarded, mutations>>
      BY <1>4, <2>3 DEF Charge
    <3>2. /\ wire' \in [Pages -> {NoRequest} \cup Wires]
          /\ wire'[p].stage = "done" /\ wire'[p].status = "limited"
          /\ \A q \in Pages : q # p => wire'[q] = wire[q]
      BY <2>1, <3>1, DoneEnds DEF Statuses
    <3>3. OnTheWay' = OnTheWay
      BY <2>1, <3>2, ElsewhereSame
    <3>. QED
      BY <2>1, <3>1, <3>2, <3>3 DEF PathInv, RunsAreMetered
  <2>. QED
    BY <2>2, <2>3
<1>5. ASSUME NEW p \in Pages, NEW status \in Statuses, wire[p].stage = "gateway", Done(p, status),
             status = "refused" => ~ GatewayAccepts(wire[p].request),
             ran' \in {ran, ran + Cardinality(Sends(wire[p].request))},
             UNCHANGED <<forwarded, mutations>>
      PROVE  PathInv'
  <2>1. /\ wire' \in [Pages -> {NoRequest} \cup Wires]
        /\ wire'[p].stage = "done" /\ wire'[p].status = status /\ wire'[p].request = wire[p].request
        /\ \A q \in Pages : q # p => wire'[q] = wire[q]
    BY <1>5, DoneEnds
  <2>2. Cardinality(OnTheWay') = Cardinality(OnTheWay) - Cardinality(Sends(wire[p].request))
    BY <1>5, <2>1, LeavingGateway
  <2>3. Cardinality(Sends(wire[p].request)) \in Nat
    BY <1>5, PagePairs DEF PathInv
  <2>4. RunsAreMetered' /\ ran' \in Nat
    BY <1>5, <2>2, <2>3, OnTheWayFinite DEF PathInv, RunsAreMetered
  <2>. QED
    BY <1>5, <2>1, <2>4 DEF PathInv
<1>6. ASSUME NEW p \in Pages, Unreached(p) \/ GatewayRefuses(p) \/ Run(p) PROVE PathInv'
  BY <1>5, <1>6 DEF Unreached, GatewayRefuses, Run, Statuses
<1>. QED
  BY <1>1, <1>2, <1>3, <1>4, <1>6 DEF NextPath

\* The lists the wallet reads fit the broker's list when the inventory does.
LEMMA InventoryFits ==
  ASSUME Assets \in Nat, 1 + 6 * Assets <= BrokerList
  PROVE  InventorySizes \subseteq 1..BrokerList
<1>. DEFINE size == 1 + 6 * Assets
<1>1. size \in 1..20 /\ BrokerList = 20
  BY DEF BrokerList
<1>2. (size - 1) \div 100 = 0
  BY <1>1
<1>3. InventorySizes = {Min({100, size - 100 * i}) : i \in 0..((size - 1) \div 100)}
  BY DEF InventorySizes
<1>4. 0..((size - 1) \div 100) = {0} /\ size - 100 * 0 = size
  BY <1>1, <1>2
<1>7. InventorySizes = {Min({100, size - 100 * 0})}
  BY ZenonT(90), <1>3, <1>4
<1>5. InventorySizes = {Min({100, size})}
  BY <1>4, <1>7
<1>6. Min({100, size}) = size
  BY <1>1 DEF Min
<1>. QED
  BY <1>1, <1>5, <1>6

\* A call of the wallet page alone in its request passes both reviews, unless it
\* reads the balance.
LEMMA OwnCallsTaken ==
  ASSUME PathAssumption, 1 + 6 * Assets <= BrokerList,
         NEW r \in PageRequests, ~ r.array, r.calls[1] \in PageCalls \ {BalanceCall}
  PROVE  BrokerAccepts(r) /\ GatewayAccepts(r)
<1>. DEFINE c == r.calls[1]
<1>1. Len(r.calls) = 1
  BY DEF PathAssumption
<1>2. CASE \E n \in 1..20 : c = Accounts(n)
  <2>1. PICK n \in 1..20 : c = Accounts(n)
    BY <1>2
  <2>2. BrokerTakes(c)
    BY <2>1 DEF BrokerTakes, Accounts, Call, BrokerMethods, BrokerList
  <2>3. GatewayMethod(c) /\ c.id = "text" /\ c.count = 2
    BY <2>1 DEF GatewayMethod, Accounts, Call, GatewayList, Options, AccountOptions
  <2>. QED
    BY <1>1, <2>2, <2>3 DEF BrokerAccepts, GatewayAccepts
<1>3. CASE c \in {Call("getGenesisHash", 0, "none", 0, {}, "text"),
                  Call("getAccountInfo", 2, "address", 1, {"encoding", "commitment"}, "text"),
                  Call("getLatestBlockhash", 1, "options", 0, {"commitment"}, "text"),
                  Call("getBlockHeight", 1, "options", 0, {"commitment"}, "text"),
                  Call("getSignatureStatuses", 2, "signatures", 1, {"searchTransactionHistory"}, "text"),
                  Call("sendTransaction", 2, "transaction", 1644, {"encoding", "preflightCommitment"}, "text")}
  <2>1. BrokerTakes(c)
    <3>1. CASE c = Call("getGenesisHash", 0, "none", 0, {}, "text")
      BY <3>1 DEF BrokerTakes, Call, BrokerMethods, BrokerList
    <3>2. CASE c = Call("getAccountInfo", 2, "address", 1, {"encoding", "commitment"}, "text")
      BY <3>2 DEF BrokerTakes, Call, BrokerMethods, BrokerList
    <3>3. CASE c = Call("getLatestBlockhash", 1, "options", 0, {"commitment"}, "text")
      BY <3>3 DEF BrokerTakes, Call, BrokerMethods, BrokerList
    <3>4. CASE c = Call("getBlockHeight", 1, "options", 0, {"commitment"}, "text")
      BY <3>4 DEF BrokerTakes, Call, BrokerMethods, BrokerList
    <3>5. CASE c = Call("getSignatureStatuses", 2, "signatures", 1, {"searchTransactionHistory"}, "text")
      BY <3>5 DEF BrokerTakes, Call, BrokerMethods, BrokerList
    <3>6. CASE c = Call("sendTransaction", 2, "transaction", 1644, {"encoding", "preflightCommitment"}, "text")
      BY <3>6 DEF BrokerTakes, Call, BrokerMethods, BrokerList
    <3>. QED
      BY <1>3, <3>1, <3>2, <3>3, <3>4, <3>5, <3>6
  <2>2. c.id = "text" /\ c.count \in 0..2
    BY SMTT(60), <1>3 DEF Call
  <2>3. GatewayMethod(c)
    BY <1>3 DEF GatewayMethod, Call, GatewayList, GatewayTransaction, Options, AccountOptions,
                SimpleOptions, SendOptions
  <2>. QED
    BY <1>1, <2>1, <2>2, <2>3 DEF BrokerAccepts, GatewayAccepts
<1>4. InventorySizes \union {1, 3, 6, 9} \subseteq 1..20
  BY InventoryFits DEF PathAssumption, BrokerList
<1>. QED
  BY <1>2, <1>3, <1>4 DEF PageCalls

\* What the invariant says of the budget and of the wallet's own calls.
LEMMA PathInvSays ==
  ASSUME PathAssumption, PathInv
  PROVE  /\ PathTypeOK /\ RunsAreMetered
         /\ 1 + 6 * Assets <= BrokerList => OwnCallsServed
<1>1. PathTypeOK
  BY DEF PathInv, PathTypeOK, Wires
<1>2. ASSUME 1 + 6 * Assets <= BrokerList PROVE OwnCallsServed
  <2>. SUFFICES ASSUME NEW p \in Pages, wire[p].stage = "done", ~ wire[p].request.array,
                       wire[p].request.calls[1] \in PageCalls \ {BalanceCall}
                PROVE  wire[p].status # "refused"
    BY DEF OwnCallsServed
  <2>1. wire[p].request \in PageRequests
    BY DEF PathInv, Wires, NoRequest
  <2>2. BrokerAccepts(wire[p].request) /\ GatewayAccepts(wire[p].request)
    BY <1>2, <2>1, OwnCallsTaken
  <2>. QED
    BY <2>2 DEF PathInv
<1>. QED
  BY <1>1, <1>2 DEF PathInv

\* For any pages, requests, batches and budgets: every transaction that reaches
\* the chain was charged before, in whatever order and batch, and of the calls
\* the wallet page makes itself neither the broker's nor the gateway's list refuses
\* any but the reading of the SOL balance, which the broker's lacks, as long as the
\* inventory of the sandbox's assets fits the broker's list of twenty.
THEOREM CallsStayMetered ==
  ASSUME PathAssumption
  PROVE  PathSpec => [](PathTypeOK /\ RunsAreMetered /\ (1 + 6 * Assets <= BrokerList => OwnCallsServed))
<1>1. InitPath => PathInv
  BY PathInit
<1>2. PathInv /\ [NextPath]_pathVars => PathInv'
  BY PathStep
<1>3. PathInv => PathTypeOK /\ RunsAreMetered /\ (1 + 6 * Assets <= BrokerList => OwnCallsServed)
  BY PathInvSays
<1>. QED
  BY <1>1, <1>2, <1>3, PTL DEF PathSpec

-----------------------------------------------------------------------------
(* The store (JsonCasStore), for any callers and attempts.  The invariant: *)
(* a put that the service accepts replaces the document it was computed    *)
(* from, because etags name documents: a view or a put with the etag of    *)
(* the document holds its count.  A mutation is applied once because a     *)
(* swap leaves at most one put behind and the call goes on only when that  *)
(* put was refused.                                                        *)

Places == {"read", "write", "sent", "recheck", "conflict", "done", "failed"}
Docs == [present: BOOLEAN, count: [Callers -> Nat], etag: Nat]
Calls == [pc: Places, attempt: 0..Attempts, gets: 0..1, view: Docs]
Puts == [caller: Callers, attempt: Nat, swap: BOOLEAN, etag: Nat, count: [Callers -> Nat]]

Types ==
  /\ doc \in Docs
  /\ call \in [Callers -> Calls]
  /\ flying \subseteq Puts
  /\ creator \subseteq Callers

\* A document that does not exist was never written.
DocOK == ~doc.present => doc.count = Zero /\ creator = {}

\* Etags name documents.
ViewOK(v) ==
  IF v.present
  THEN doc.present /\ v.etag <= doc.etag /\ (v.etag = doc.etag => v.count = doc.count)
  ELSE v.count = Zero

ContentOK(p) ==
  IF p.swap
  THEN /\ doc.present /\ p.etag <= doc.etag
       /\ p.etag = doc.etag => p.count = [doc.count EXCEPT ![p.caller] = @ + 1]
  ELSE p.count = [Zero EXCEPT ![p.caller] = 1]

\* Where the caller of a put on its way can be: a swap is the last it sent.
SenderOK(p, x) ==
  /\ p.attempt <= x.attempt
  /\ p.attempt = x.attempt => x.pc \in {"sent", "recheck", "conflict", "failed"}
  /\ p.swap => p.attempt = x.attempt /\ x.pc \in {"sent", "failed"}
  /\ p.attempt = x.attempt /\ x.pc = "sent" => p.swap = x.view.present

\* One put for each attempt.
OnePut == \A p, q \in flying : p.caller = q.caller /\ p.attempt = q.attempt => p = q

\* How often a swap of the caller was applied: never while it may still try.
Swapped(c) == doc.count[c] - (IF c \in creator THEN 1 ELSE 0)

SwapsOK(c) ==
  /\ Swapped(c) \in 0..1
  /\ call[c].pc \in {"read", "write", "recheck", "conflict"} => Swapped(c) = 0
  /\ call[c].pc = "sent" /\ ~call[c].view.present => Swapped(c) = 0
  /\ \A p \in flying : p.swap /\ p.caller = c => Swapped(c) = 0

CallOK(c) ==
  /\ ViewOK(call[c].view)
  /\ call[c].pc # "failed" => call[c].attempt < Attempts
  /\ call[c].pc = "done" => doc.count[c] >= 1
  /\ SwapsOK(c)

PutOK(p) == ContentOK(p) /\ SenderOK(p, call[p.caller])

StoreInv ==
  /\ Types
  /\ DocOK
  /\ OnePut
  /\ \A p \in flying : PutOK(p)
  /\ \A c \in Callers : CallOK(c)

-----------------------------------------------------------------------------
(* The initial states.                                                     *)

\* Before any call has read, nothing is on its way.
LEMMA StoreInit == ASSUME StoreAssumption, InitStore PROVE StoreInv
  BY DEF StoreAssumption, InitStore, StoreInv, Types, Docs, Calls, Puts, Places, DocOK, OnePut, CallOK,
         ViewOK, SwapsOK, Swapped, Fresh, NoView, Zero

-----------------------------------------------------------------------------
(* A caller's own steps leave the document alone.                          *)

\* A call whose fields are replaced is a call.
LEMMA CallFields ==
  ASSUME NEW r \in Calls, NEW p \in Places, NEW g \in 0..1, NEW v \in Docs
  PROVE  /\ [r EXCEPT !.pc = p, !.gets = g] \in Calls
         /\ [r EXCEPT !.pc = p, !.gets = g, !.view = v] \in Calls
  BY DEF Calls

\* What caller c may become, the document and the puts standing.
Fits(c, x) ==
  /\ x \in Calls
  /\ ViewOK(x.view)
  /\ x.pc # "failed" => x.attempt < Attempts
  /\ x.pc # "done"
  /\ x.pc \in {"read", "write", "recheck", "conflict"} => Swapped(c) = 0
  /\ x.pc = "sent" /\ ~x.view.present => Swapped(c) = 0
  /\ \A p \in flying : p.caller = c => SenderOK(p, x)

\* A caller that becomes what fits, alone, keeps the invariant.
LEMMA OwnStep ==
  ASSUME StoreInv, NEW c \in Callers, NEW x, Fits(c, x),
         call' = [call EXCEPT ![c] = x], UNCHANGED <<doc, flying, creator>>
  PROVE  StoreInv'
<1> USE DEF Fits
<1>1. Types' /\ DocOK' /\ OnePut'
  BY DEF StoreInv, Types, DocOK, OnePut, Zero
<1>2. call'[c] = x /\ \A d \in Callers : d # c => call'[d] = call[d]
  BY DEF StoreInv, Types
<1>3. ASSUME NEW p \in flying PROVE PutOK(p)'
  <2>1. p.caller \in Callers /\ PutOK(p)
    BY DEF StoreInv, Types, Puts
  <2>2. SenderOK(p, call'[p.caller])
    BY <1>2, <2>1 DEF PutOK
  <2>3. ContentOK(p)'
    BY <2>1 DEF PutOK, ContentOK, Zero
  <2> QED BY <2>2, <2>3 DEF PutOK, SenderOK
<1>4. ASSUME NEW d \in Callers PROVE CallOK(d)'
  <2>1. CallOK(d)
    BY DEF StoreInv
  <2>2. ViewOK(call[d].view) /\ Swapped(d)' = Swapped(d)
    BY <2>1 DEF CallOK, Swapped
  <2>3. ViewOK(call'[d].view)
    BY <1>2, <2>2
  <2>4. ViewOK(call[d].view)'
    BY <2>3 DEF ViewOK, Zero
  <2>5. SwapsOK(d)'
    BY <1>2, <2>1, <2>2 DEF CallOK, SwapsOK
  <2> QED BY <1>2, <2>1, <2>4, <2>5 DEF CallOK
<1> QED BY <1>1, <1>3, <1>4 DEF StoreInv

\* Reading, looking again, giving up and trying again.
LEMMA StepInv ==
  ASSUME StoreAssumption, StoreInv, NEW c \in Callers,
         ReadAgain(c) \/ ReadFails(c) \/ Read(c) \/ Unanswered(c) \/ Recheck(c) \/ NextAttempt(c)
  PROVE  StoreInv'
<1>1. /\ call[c] \in Calls /\ CallOK(c) /\ doc \in Docs /\ Zero \in [Callers -> Nat]
      /\ call \in [Callers -> Calls]
      /\ \A p \in flying : p \in Puts /\ (p.caller = c => SenderOK(p, call[c]))
      /\ Attempts \in Nat
  BY DEF StoreInv, Types, PutOK, Zero, StoreAssumption
<1>2. \E x : /\ Fits(c, x) /\ call' = [call EXCEPT ![c] = x]
             /\ UNCHANGED <<doc, flying, creator>>
  <2>1. CASE ReadAgain(c)
    <3> DEFINE x == [call[c] EXCEPT !.gets = 1]
    <3>1. call' = [call EXCEPT ![c] = x] /\ UNCHANGED <<doc, flying, creator>>
      BY <1>1, <2>1 DEF ReadAgain, To, Calls
    <3>2. Fits(c, x)
      BY <1>1, <2>1 DEF ReadAgain, Fits, CallOK, SwapsOK, SenderOK, Calls, Places, Puts
    <3> QED BY <3>1, <3>2
  <2>2. CASE ReadFails(c)
    <3> DEFINE x == [call[c] EXCEPT !.pc = "failed", !.gets = 0]
    <3>1. call' = [call EXCEPT ![c] = x] /\ UNCHANGED <<doc, flying, creator>>
      BY <1>1, <2>2 DEF ReadFails, To, Calls
    <3>2. Fits(c, x)
      BY <1>1, <2>2 DEF ReadFails, Fits, CallOK, SwapsOK, SenderOK, Calls, Places, Puts
    <3> QED BY <3>1, <3>2
  <2>3. CASE Read(c)
    <3> DEFINE x == [call[c] EXCEPT !.pc = "write", !.gets = 0,
                           !.view = IF doc.present THEN doc ELSE NoView]
    <3>1. call' = [call EXCEPT ![c] = x] /\ UNCHANGED <<doc, flying, creator>>
      BY <1>1, <2>3 DEF Read, To, Calls
    <3>2. LET v == IF doc.present THEN doc ELSE NoView IN v \in Docs /\ ViewOK(v)
      BY <1>1, <2>3 DEF Read, ViewOK, NoView, Docs, CallOK, Calls
    <3>3. /\ x.pc = "write" /\ x.attempt = call[c].attempt /\ x.gets = 0
          /\ x.view = IF doc.present THEN doc ELSE NoView
      BY <1>1, <2>3 DEF Read, Calls
    <3>4. x \in Calls
      <4>1. "write" \in Places /\ 0 \in 0..1
        BY DEF Places
      <4> QED BY <1>1, <3>2, <4>1, CallFields
    <3>5. \A p \in flying : p.caller = c => SenderOK(p, x)
      BY <1>1, <2>3, <3>3 DEF Read, SenderOK, Calls, Puts
    <3>6. Swapped(c) = 0 \/ x.pc = "failed"
      BY <1>1, <2>3, <3>3 DEF Read, CallOK, SwapsOK, Calls
    <3>7. x.pc # "failed" => x.attempt < Attempts /\ x.pc # "done"
      BY <1>1, <2>3, <3>3 DEF Read, CallOK, Calls
    <3>8. Fits(c, x)
      BY <3>2, <3>3, <3>4, <3>5, <3>6, <3>7 DEF Fits
    <3> QED BY <3>1, <3>8
  <2>4. CASE Unanswered(c)
    <3> DEFINE x == [call[c] EXCEPT !.pc = IF call[c].view.present THEN "failed" ELSE "recheck",
                           !.gets = 0]
    <3>1. call' = [call EXCEPT ![c] = x] /\ UNCHANGED <<doc, flying, creator>>
      BY <1>1, <2>4 DEF Unanswered, To, Calls
    <3>2. call[c].view \in Docs /\ ViewOK(call[c].view)
      BY <1>1, <2>4 DEF Unanswered, ViewOK, NoView, Docs, CallOK, Calls
    <3>3. /\ x.pc = (IF call[c].view.present THEN "failed" ELSE "recheck")
          /\ x.attempt = call[c].attempt /\ x.gets = 0 /\ x.view = call[c].view
      BY SMTT(60), <1>1, <2>4 DEF Unanswered, Calls
    <3>4. x \in Calls
      <4>1. (IF call[c].view.present THEN "failed" ELSE "recheck") \in Places /\ 0 \in 0..1
        BY DEF Places
      <4> QED BY <1>1, <3>2, <4>1, CallFields
    <3>5. \A p \in flying : p.caller = c => SenderOK(p, x)
      BY <1>1, <2>4, <3>3 DEF Unanswered, SenderOK, Calls, Puts
    <3>6. Swapped(c) = 0 \/ x.pc = "failed"
      BY <1>1, <2>4, <3>3 DEF Unanswered, CallOK, SwapsOK, Calls
    <3>7. x.pc # "failed" => x.attempt < Attempts /\ x.pc # "done"
      BY <1>1, <2>4, <3>3 DEF Unanswered, CallOK, Calls
    <3>8. Fits(c, x)
      BY <3>2, <3>3, <3>4, <3>5, <3>6, <3>7 DEF Fits
    <3> QED BY <3>1, <3>8
  <2>5. CASE Recheck(c)
    <3> DEFINE x == [call[c] EXCEPT !.pc = IF doc.present THEN "conflict" ELSE "failed", !.gets = 0]
    <3>1. call' = [call EXCEPT ![c] = x] /\ UNCHANGED <<doc, flying, creator>>
      BY <1>1, <2>5 DEF Recheck, To, Calls
    <3>2. Fits(c, x)
      BY <1>1, <2>5 DEF Recheck, Fits, CallOK, SwapsOK, SenderOK, Calls, Places, Puts
    <3> QED BY <3>1, <3>2
  <2>6. CASE NextAttempt(c)
    <3> DEFINE x == [call[c] EXCEPT !.attempt = @ + 1, !.view = NoView, !.gets = 0,
                           !.pc = IF call[c].attempt + 1 < Attempts THEN "read" ELSE "failed"]
    <3>1. call' = [call EXCEPT ![c] = x] /\ UNCHANGED <<doc, flying, creator>>
      BY <1>1, <2>6 DEF NextAttempt, To, Calls
    <3>2. NoView \in Docs /\ ViewOK(NoView)
      BY <1>1, <2>6 DEF NextAttempt, ViewOK, NoView, Docs, CallOK, Calls
    <3>3. /\ x.pc = (IF call[c].attempt + 1 < Attempts THEN "read" ELSE "failed")
          /\ x.attempt = call[c].attempt + 1 /\ x.gets = 0 /\ x.view = NoView
      BY <1>1, <2>6 DEF NextAttempt, Calls
    <3>4. x \in Calls
      BY <1>1, <2>6, <3>2, <3>3 DEF NextAttempt, Calls, Places, CallOK
    <3>5. \A p \in flying : p.caller = c => SenderOK(p, x)
      BY <1>1, <2>6, <3>3 DEF NextAttempt, SenderOK, Calls, Puts
    <3>6. Swapped(c) = 0 \/ x.pc = "failed"
      BY <1>1, <2>6, <3>3 DEF NextAttempt, CallOK, SwapsOK, Calls
    <3>7. x.pc # "failed" => x.attempt < Attempts /\ x.pc # "done"
      BY <1>1, <2>6, <3>3 DEF NextAttempt, CallOK, Calls
    <3>8. Fits(c, x)
      BY <3>2, <3>3, <3>4, <3>5, <3>6, <3>7 DEF Fits
    <3> QED BY <3>1, <3>8
  <2> QED BY <2>1, <2>2, <2>3, <2>4, <2>5, <2>6
<1> QED BY <1>2, OwnStep

\* A put is sent, computed from what was read.
LEMMA PutInv == ASSUME StoreAssumption, StoreInv, NEW c \in Callers, Put(c) PROVE StoreInv'
<1> DEFINE new == [caller |-> c, attempt |-> call[c].attempt,
                   swap |-> call[c].view.present, etag |-> call[c].view.etag,
                   count |-> [call[c].view.count EXCEPT ![c] = @ + 1]]
           x == [call[c] EXCEPT !.pc = "sent", !.gets = 0]
<1>1. /\ call \in [Callers -> Calls] /\ call[c] \in Calls /\ CallOK(c) /\ doc \in Docs
      /\ \A p \in flying : p \in Puts /\ PutOK(p)
      /\ Attempts \in Nat
  BY DEF StoreInv, Types, StoreAssumption
<1>2. /\ call[c].pc = "write" /\ flying' = flying \union {new}
      /\ call' = [call EXCEPT ![c] = x] /\ UNCHANGED <<doc, creator>>
  BY <1>1 DEF Put, To, Calls
<1>3. x \in Calls /\ new \in Puts
  <2>1. x \in Calls
    <3>1. "sent" \in Places /\ 0 \in 0..1 /\ call[c].view \in Docs
      BY <1>1 DEF Places, Calls
    <3> QED BY <1>1, <3>1, CallFields
  <2>2. call[c].view.count \in [Callers -> Nat] /\ call[c].view.etag \in Nat
        /\ call[c].view.present \in BOOLEAN /\ call[c].attempt \in Nat
    BY <1>1 DEF Calls, Docs
  <2>3. [call[c].view.count EXCEPT ![c] = @ + 1] \in [Callers -> Nat]
    BY <2>2
  <2> QED BY <2>1, <2>2, <2>3 DEF Puts
<1>4. call'[c] = x /\ \A d \in Callers : d # c => call'[d] = call[d]
  BY <1>1, <1>2
<1>5. Types' /\ DocOK'
  BY <1>2, <1>3 DEF StoreInv, Types, DocOK, Zero
<1>6. \A p \in flying : p.caller = c => p.attempt # call[c].attempt /\ ~p.swap
  BY <1>1, <1>2 DEF PutOK, SenderOK
<1>7. OnePut'
  BY <1>1, <1>2, <1>6 DEF StoreInv, OnePut
<1>8. ASSUME NEW p \in flying' PROVE PutOK(p)'
  <2>1. CASE p = new
    <3>1. ContentOK(p)
      <4>1. ViewOK(call[c].view) /\ call[c].view.count \in [Callers -> Nat]
        BY <1>1 DEF CallOK, Calls, Docs
      <4>2. /\ p.swap = call[c].view.present /\ p.etag = call[c].view.etag /\ p.caller = c
            /\ p.count = [call[c].view.count EXCEPT ![c] = @ + 1]
        BY <2>1
      <4>3. CASE p.swap
        BY <4>1, <4>2, <4>3 DEF ViewOK, ContentOK
      <4>4. CASE ~p.swap
        BY <4>1, <4>2, <4>4 DEF ViewOK, ContentOK, Zero
      <4> QED BY <4>3, <4>4
    <3>2. ContentOK(p)'
      BY <1>2, <3>1 DEF ContentOK, Zero
    <3>3. SenderOK(p, x)
      BY <1>1, <2>1 DEF SenderOK, Calls
    <3>4. call'[p.caller] = x
      BY <1>4, <2>1
    <3> QED BY <3>2, <3>3, <3>4 DEF PutOK, SenderOK
  <2>2. CASE p \in flying
    <3>1. p \in Puts /\ PutOK(p)
      BY <1>1, <2>2
    <3>2. ContentOK(p)'
      BY <1>2, <3>1 DEF PutOK, ContentOK, Zero
    <3>3. SenderOK(p, call[p.caller])'
      <4>1. CASE p.caller = c
        BY <1>1, <1>4, <1>6, <2>2, <3>1, <4>1 DEF PutOK, SenderOK, Calls
      <4>2. CASE p.caller # c
        BY <1>4, <3>1, <4>2 DEF PutOK, SenderOK, Puts
      <4> QED BY <4>1, <4>2
    <3> QED BY <3>2, <3>3 DEF PutOK
  <2> QED BY <1>2, <2>1, <2>2
<1>9. ASSUME NEW d \in Callers PROVE CallOK(d)'
  <2>1. CallOK(d) /\ Swapped(d)' = Swapped(d) /\ Swapped(c) = 0
    BY <1>1, <1>2 DEF StoreInv, CallOK, SwapsOK, Swapped
  <2>2. call'[d].view = call[d].view
    BY <1>1, <1>4 DEF Calls
  <2>3. ViewOK(call[d].view)'
    BY <1>2, <2>1, <2>2 DEF CallOK, ViewOK, Zero
  <2>4. SwapsOK(d)'
    BY <1>1, <1>2, <1>4, <2>1 DEF CallOK, SwapsOK, Calls
  <2> QED BY <1>1, <1>2, <1>4, <2>1, <2>3, <2>4 DEF CallOK, Calls
<1> QED BY <1>5, <1>7, <1>8, <1>9 DEF StoreInv

-----------------------------------------------------------------------------
(* A put arrives.                                                          *)

\* What the service accepts is the sender's mutation of the document it
\* replaces: a swap's etag names that document, a create finds none.
LEMMA AcceptedApplies ==
  ASSUME StoreInv, NEW p \in flying, Accepts(p)
  PROVE  /\ p.count = [doc.count EXCEPT ![p.caller] = @ + 1]
         /\ ~p.swap => doc.count = Zero /\ creator = {}
<1>1. PutOK(p) /\ p \in Puts /\ doc.count \in [Callers -> Nat]
  BY DEF StoreInv, Types, Docs
<1>2. CASE p.swap
  BY <1>1, <1>2 DEF Accepts, PutOK, ContentOK
<1>3. CASE ~p.swap
  <2>1. doc.count = Zero /\ creator = {} /\ p.count = [Zero EXCEPT ![p.caller] = 1]
    BY <1>1, <1>3 DEF Accepts, PutOK, ContentOK, StoreInv, DocOK
  <2>2. [Zero EXCEPT ![p.caller] = 1] = [Zero EXCEPT ![p.caller] = @ + 1]
    BY <1>1 DEF Puts, Zero
  <2> QED BY <2>1, <2>2
<1> QED BY <1>2, <1>3

\* The caller that hears of its put.
Told(p) ==
  [call[p.caller] EXCEPT !.pc = IF Accepts(p) THEN "done" ELSE IF p.swap THEN "conflict" ELSE "recheck"]

\* An arrival leaves every call as it was, or tells the sender who waits.
LEMMA Telling ==
  ASSUME StoreInv, NEW p \in flying, NEW answered \in BOOLEAN, Arrives(p, answered)
  PROVE  /\ call' \in [Callers -> Calls]
         /\ \A c \in Callers :
              /\ call'[c].attempt = call[c].attempt /\ call'[c].view = call[c].view
              /\ \/ call'[c].pc = call[c].pc
                 \/ /\ c = p.caller /\ Waits(p)
                    /\ call'[c].pc = IF Accepts(p) THEN "done" ELSE IF p.swap THEN "conflict" ELSE "recheck"
<1>1. call \in [Callers -> Calls] /\ p.caller \in Callers /\ call[p.caller] \in Calls
  BY DEF StoreInv, Types, Puts
<1>2. CASE ~answered \/ ~Waits(p)
  BY <1>1, <1>2 DEF Arrives
<1>3. CASE answered /\ Waits(p)
  <2>1. call' = [call EXCEPT ![p.caller].pc =
                   IF Accepts(p) THEN "done" ELSE IF p.swap THEN "conflict" ELSE "recheck"]
    BY <1>3 DEF Arrives
  <2>2. (IF Accepts(p) THEN "done" ELSE IF p.swap THEN "conflict" ELSE "recheck") \in Places
    BY DEF Places
  <2>3. /\ Told(p) \in Calls /\ Told(p).attempt = call[p.caller].attempt
        /\ Told(p).view = call[p.caller].view
        /\ Told(p).pc = IF Accepts(p) THEN "done" ELSE IF p.swap THEN "conflict" ELSE "recheck"
    BY <1>1, <2>2 DEF Told, Calls
  <2>4. call' = [call EXCEPT ![p.caller] = Told(p)]
    BY <1>1, <2>1 DEF Told
  <2> QED BY <1>1, <1>3, <2>3, <2>4
<1> QED BY <1>2, <1>3

\* A refused put leaves the document alone.  The sender who is told so may try
\* again: this was the only put of its attempt.
LEMMA RefusedInv ==
  ASSUME StoreAssumption, StoreInv, NEW p \in flying, NEW answered \in BOOLEAN, Arrives(p, answered),
         ~Accepts(p)
  PROVE  StoreInv'
<1>1. flying' = flying \ {p} /\ UNCHANGED <<doc, creator>>
  BY DEF Arrives
<1>2. Types' /\ DocOK' /\ OnePut'
  BY <1>1, Telling DEF StoreInv, Types, DocOK, OnePut, Zero
<1>3. ASSUME NEW q \in flying' PROVE PutOK(q)'
  <2>1. q \in flying /\ q # p /\ q \in Puts /\ PutOK(q)
    BY <1>1 DEF StoreInv, Types
  <2>2. ContentOK(q)'
    BY <1>1, <2>1 DEF PutOK, ContentOK, Zero
  <2>3. q.caller = p.caller => q.attempt # p.attempt
    BY <2>1 DEF StoreInv, OnePut
  <2>4. q.caller = p.caller /\ Waits(p) => q.attempt # call[q.caller].attempt
    BY <2>3 DEF Waits
  <2>5. q.caller \in Callers /\ SenderOK(q, call[q.caller])
    BY <2>1 DEF PutOK, Puts
  <2>6. SenderOK(q, call'[q.caller])
    BY <2>4, <2>5, Telling DEF SenderOK
  <2> QED BY <2>2, <2>6 DEF PutOK, SenderOK
<1>4. ASSUME NEW c \in Callers PROVE CallOK(c)'
  <2>1. CallOK(c) /\ Swapped(c)' = Swapped(c) /\ call'[c].view = call[c].view
    BY <1>1, Telling DEF StoreInv, Swapped
  <2>2. ViewOK(call[c].view)'
    BY <1>1, <2>1 DEF CallOK, ViewOK, Zero
  <2>3. c = p.caller /\ Waits(p) => Swapped(c) = 0
    <3>1. SUFFICES ASSUME c = p.caller, Waits(p), ~p.swap PROVE Swapped(c) = 0
      BY <2>1 DEF CallOK, SwapsOK
    <3>2. ~call[c].view.present /\ call[c].pc = "sent"
      BY <3>1 DEF StoreInv, PutOK, SenderOK, Waits
    <3> QED BY <2>1, <3>2 DEF CallOK, SwapsOK
  <2>4. SwapsOK(c)'
    BY <1>1, <2>1, <2>3, Telling DEF CallOK, SwapsOK
  <2>5. call'[c].pc # "failed" => call'[c].attempt < Attempts
    BY <2>1, Telling DEF CallOK, Waits
  <2>6. call'[c].pc = "done" => doc'.count[c] >= 1
    BY <1>1, <2>1, Telling DEF CallOK
  <2> QED BY <2>2, <2>4, <2>5, <2>6 DEF CallOK
<1> QED BY <1>2, <1>3, <1>4 DEF StoreInv

\* An accepted put is one mutation more.  The etag moves, so every view and
\* every other put is of an older document; a swap was its sender's only one.
LEMMA AcceptedInv ==
  ASSUME StoreAssumption, StoreInv, NEW p \in flying, NEW answered \in BOOLEAN, Arrives(p, answered),
         Accepts(p)
  PROVE  StoreInv'
<1>1. /\ flying' = flying \ {p}
      /\ doc' = [present |-> TRUE, count |-> [doc.count EXCEPT ![p.caller] = @ + 1], etag |-> doc.etag + 1]
      /\ creator' = IF p.swap THEN creator ELSE creator \union {p.caller}
  BY AcceptedApplies DEF Arrives
<1>2. p.caller \in Callers /\ doc \in Docs /\ doc.count \in [Callers -> Nat] /\ doc.etag \in Nat
  BY DEF StoreInv, Types, Puts, Docs
<1>3. /\ doc' \in Docs /\ doc'.present /\ doc'.etag = doc.etag + 1
      /\ \A c \in Callers : doc'.count[c] = IF c = p.caller THEN doc.count[c] + 1 ELSE doc.count[c]
  BY <1>1, <1>2 DEF Docs
<1>4. Types' /\ DocOK' /\ OnePut'
  BY <1>1, <1>2, <1>3, Telling DEF StoreInv, Types, DocOK, OnePut
<1>5. ASSUME NEW q \in flying' PROVE PutOK(q)'
  <2>1. q \in flying /\ q # p /\ q \in Puts /\ PutOK(q)
    BY <1>1 DEF StoreInv, Types
  <2>2. ContentOK(q)'
    BY <1>2, <1>3, <2>1 DEF PutOK, ContentOK, Zero, Puts
  <2>3. q.caller = p.caller => q.attempt # p.attempt
    BY <2>1 DEF StoreInv, OnePut
  <2>4. q.caller = p.caller /\ Waits(p) => q.attempt # call[q.caller].attempt
    BY <2>3 DEF Waits
  <2>5. q.caller \in Callers /\ SenderOK(q, call[q.caller])
    BY <2>1 DEF PutOK, Puts
  <2>6. SenderOK(q, call'[q.caller])
    BY <2>4, <2>5, Telling DEF SenderOK
  <2> QED BY <2>2, <2>6 DEF PutOK, SenderOK
<1>6. ASSUME NEW c \in Callers PROVE CallOK(c)'
  <2>1. CallOK(c) /\ call'[c].view = call[c].view /\ call[c].view \in Docs
    BY Telling DEF StoreInv, Types, Calls
  <2>2. ViewOK(call[c].view)'
    BY <1>2, <1>3, <2>1 DEF CallOK, ViewOK, Zero, Docs
  <2>3. call'[c].pc # "failed" => call'[c].attempt < Attempts
    BY <2>1, Telling DEF CallOK, Waits
  <2>4. call'[c].pc = "done" => doc'.count[c] >= 1
    BY <1>2, <1>3, <2>1, Telling DEF CallOK, Waits
  <2>5. SwapsOK(c)'
    <3>1. CASE ~p.swap
      <4>1. Swapped(c)' = 0
        BY <1>1, <1>3, <3>1, AcceptedApplies DEF Swapped, Zero
      <4> QED BY <4>1 DEF SwapsOK
    <3>2. CASE p.swap /\ c # p.caller
      <4>1. Swapped(c)' = Swapped(c)
        BY <1>1, <1>3, <3>2 DEF Swapped
      <4> QED BY <1>1, <2>1, <3>2, <4>1, Telling DEF CallOK, SwapsOK
    <3>3. CASE p.swap /\ c = p.caller
      <4>1. Swapped(c)' = 1
        BY <1>1, <1>2, <1>3, <2>1, <3>3 DEF Swapped, CallOK, SwapsOK
      <4>2. /\ call[c].pc \in {"sent", "failed"} /\ p.attempt = call[c].attempt
            /\ call[c].pc = "sent" => call[c].view.present
        BY <3>3 DEF StoreInv, PutOK, SenderOK
      <4>3. call'[c].pc \in {"sent", "failed", "done"} /\ (call'[c].pc = "sent" => call'[c].view.present)
        BY <4>2, Telling
      <4>4. \A q \in flying' : q.swap => q.caller # c
        BY <1>1, <3>3, <4>2 DEF StoreInv, OnePut, PutOK, SenderOK
      <4> QED BY <4>1, <4>3, <4>4 DEF SwapsOK
    <3> QED BY <3>1, <3>2, <3>3
  <2> QED BY <2>2, <2>3, <2>4, <2>5 DEF CallOK
<1> QED BY <1>4, <1>5, <1>6 DEF StoreInv

-----------------------------------------------------------------------------
(* The theorems.                                                           *)

\* Every step of the store keeps the invariant.
LEMMA StoreStep == ASSUME StoreAssumption, StoreInv, [NextStore]_storeVars PROVE StoreInv'
<1>1. CASE \E c \in Callers : Step(c)
  BY <1>1, StepInv, PutInv DEF Step
<1>2. CASE \E p \in flying, answered \in BOOLEAN : Arrives(p, answered)
  BY <1>2, RefusedInv, AcceptedInv
<1>3. CASE UNCHANGED storeVars
  <2>1. Types' /\ DocOK' /\ OnePut'
    BY <1>3 DEF storeVars, StoreInv, Types, DocOK, OnePut, Zero
  <2>2. \A p \in flying : PutOK(p)'
    BY <1>3 DEF storeVars, StoreInv, PutOK, ContentOK, SenderOK, Zero
  <2>3. \A c \in Callers : CallOK(c)'
    BY <1>3 DEF storeVars, StoreInv, CallOK, ViewOK, SwapsOK, Swapped, Zero
  <2> QED BY <1>3, <2>1, <2>2, <2>3 DEF storeVars, StoreInv
<1> QED BY <1>1, <1>2, <1>3 DEF NextStore

\* The invariant holds of every behaviour of the store.
LEMMA Invariance == ASSUME StoreAssumption PROVE StoreSpec => []StoreInv
  BY StoreInit, StoreStep, PTL DEF StoreSpec

LEMMA StoreInvSays == ASSUME StoreInv PROVE StoreTypeOK /\ SavedIsKept /\ AppliedOnce
<1>1. StoreTypeOK
  BY DEF StoreInv, Types, StoreTypeOK, Docs, Calls, Places, Puts
<1>2. SavedIsKept
  BY DEF StoreInv, CallOK, SavedIsKept
<1>3. AppliedOnce
  <2> SUFFICES ASSUME NEW c \in Callers
               PROVE  doc.count[c] <= (IF c \in creator THEN 2 ELSE 1)
    BY DEF AppliedOnce
  <2>1. doc.count[c] \in Nat /\ Swapped(c) \in 0..1
    BY DEF StoreInv, Types, Docs, CallOK, SwapsOK
  <2> QED BY <2>1 DEF Swapped
<1> QED BY <1>1, <1>2, <1>3

\* Whatever is delayed, refused or lost between mutateJson and the blob service,
\* a call that returned has its mutation in the document, and no mutation is
\* applied twice but one whose create made the document.
THEOREM StoreKeepsWhatItSaved ==
  ASSUME StoreAssumption PROVE StoreSpec => [](StoreTypeOK /\ SavedIsKept /\ AppliedOnce)
BY StoreInvSays, Invariance, PTL

\* A document begins with no mutation, and a step applies at most one, whole.
LEMMA CountsInit == ASSUME InitStore PROVE Counts!Init
  BY DEF InitStore, Counts!Init, Zero

LEMMA CountsStep == ASSUME StoreInv, [NextStore]_storeVars PROVE [Counts!Next]_(doc.count)
<1> SUFFICES ASSUME doc'.count # doc.count PROVE Counts!Next
  OBVIOUS
<1>1. PICK p \in flying, answered \in BOOLEAN : Arrives(p, answered)
  BY DEF NextStore, storeVars, Step, ReadAgain, ReadFails, Read, Put, Unanswered, Recheck, NextAttempt
<1>2. Accepts(p) /\ doc'.count = p.count
  BY <1>1 DEF Arrives
<1>3. p.caller \in Callers
  BY DEF StoreInv, Types, Puts
<1> QED BY <1>2, <1>3, AcceptedApplies DEF Counts!Next, Counts!Apply

\* mutateJson implements an atomic document: each change of the stored document
\* is one call's mutation applied, whole, to the document it replaces.
THEOREM StoreIsAtomic == ASSUME StoreAssumption PROVE StoreSpec => EveryWriteIsOneMutation
BY CountsInit, CountsStep, Invariance, PTL DEF StoreSpec, EveryWriteIsOneMutation, Counts!Spec

=============================================================================
