-------------------------- MODULE MCHostedGateway --------------------------
(***************************************************************************)
(* What a hosted request passes on its way: the gateway in the sandbox     *)
(* (HostedGateway, for either kind of sandbox), the two reviews of its RPC *)
(* calls (RpcPath), the scheduler of calls to the public endpoint          *)
(* (RpcStartScheduler) and the store under the ledgers (JsonCasStore).     *)
(* A behaviour is of one part.                                             *)
(***************************************************************************)
EXTENDS HostedGatewayProofs

CONSTANTS q1, q2, chain1, chain2, r1, r2, p1, p2, c1, c2, c3

VARIABLES
  part,
  clock, waiting, nextStartAt, cooldownUntil, closed, wakeup, started, deadline, lastStart

startVars == <<clock, waiting, nextStartAt, cooldownUntil, closed, wakeup, started, deadline, lastStart>>
all == <<vars, part, pathVars, startVars, storeVars>>

Guided == INSTANCE HostedGatewayProofs WITH Kind <- "guided", RuntimeIds <- {r1}, MaxMutations <- 2

\* One chain and one runtime id, which liveness does not tell apart.
Ends == INSTANCE HostedGateway WITH Chains <- {chain1}, RuntimeIds <- {r1}, MaxMutations <- 2

\* Everything the two reviews tell apart, and batches.  Of the methods the broker
\* does not know there are two, which the gateway would take: getBalance, which the
\* page asks for, and simulateTransaction.
Rpc(method, count, first, n, options) == Call(method, count, first, n, options, "text")
Sent(n, id) == Call("sendTransaction", 2, "transaction", n, {"encoding"}, id)
Heights == Call("getBlockHeight", 0, "none", 0, {}, "number")
Odd == {Rpc("getBlockHeight", -1, "none", 0, {}),          \* params left out
        Rpc("getGenesisHash", 1, "options", 0, {"commitment"}),
        Rpc("getAccountInfo", 1, "none", 0, {}),
        Rpc("getAccountInfo", 2, "address", 1, {"junk"}),
        Rpc("simulateTransaction", 2, "transaction", 8, {"encoding", "sigVerify"}),
        Accounts(0), Accounts(20), Accounts(21), Accounts(33),
        Sent(3, "text"), Sent(1645, "text"), Sent(2001, "text"),
        Sent(8, "null"), Sent(8, "long"), Sent(8, "object")}
Batches == {[array |-> TRUE, calls |-> s] :
              s \in {<<>>, <<Sent(8, "text")>>, <<Heights, Sent(8, "text")>>,
                     <<Sent(8, "text"), Sent(8, "text")>>}}
Everything ==
  {[array |-> FALSE, calls |-> <<c>>] : c \in PageCalls \cup Odd}
    \cup Batches

Starts == INSTANCE RpcStartScheduler WITH
  Calls <- {c1, c2, c3}, Interval <- 2, MaxQueue <- 2, Timeouts <- {1, 3}, RetryAfters <- {0, 2, 4},
  MaxDelay <- 3, MaxTime <- 4, now <- clock, queue <- waiting, timer <- wakeup,
  call <- started

ASSUME PartsAssumption ==
  /\ Kind = "wallet" /\ GatewayAssumption /\ Guided!GatewayAssumption
  /\ PathAssumption /\ 1 + 6 * Assets <= BrokerList
  /\ Starts!SchedulerAssumption /\ StoreAssumption

\* No action names an id or a chain, so which one a wallet's runtime starts with
\* makes no difference.
MCInit ==
  /\ part \in {"wallet", "ends", "guided", "path", "starts", "store"}
  /\ IF part = "guided" THEN Guided!Init ELSE Init
  /\ part # "guided" => rt = [id |-> r1, chain |-> chain1]
  /\ InitPath /\ Starts!Init /\ InitStore

Fixed == UNCHANGED <<vars, part>>

MCNext ==
  \/ part = "wallet" /\ Next /\ UNCHANGED <<part, pathVars, startVars, storeVars>>
  \/ part = "ends" /\ Ends!Next /\ UNCHANGED <<part, pathVars, startVars, storeVars>>
  \/ part = "guided" /\ Guided!Next /\ UNCHANGED <<part, pathVars, startVars, storeVars>>
  \/ part = "path" /\ NextPath /\ Fixed /\ UNCHANGED <<startVars, storeVars>>
  \/ part = "starts" /\ Starts!Next /\ Fixed /\ UNCHANGED <<pathVars, storeVars>>
  \/ part = "store" /\ NextStore /\ Fixed /\ UNCHANGED <<pathVars, startVars>>

\* Timers fire, a killed process dies, fetches and bodies time out.  An attempt
\* of discovery may fail for as long as its deadline is ahead.
GatewayFairness ==
  /\ WF_vars(part = "ends" /\ Ends!Start) /\ WF_vars(part = "ends" /\ Ends!Tick)
  /\ WF_vars(part = "ends" /\ Ends!ExpiryTimer) /\ WF_vars(part = "ends" /\ Ends!GraceOver)
  /\ WF_vars(part = "ends" /\ child = "killed" /\ Ends!ChildExits)
  /\ WF_vars(/\ part = "ends"
             /\ disc.pc # "ask" \/ phase # "starting" \/ now >= StartupTimeout
             /\ Ends!Discovery)
  /\ \A r \in Requests : WF_vars(part = "ends" /\ Ends!HandlerStep(r))

\* The clock runs, the timer fires, and a fetch is aborted at its deadline.
StartsFairness ==
  /\ WF_startVars(part = "starts" /\ Starts!Tick) /\ WF_startVars(part = "starts" /\ Starts!TimerFires)
  /\ \A c \in {c1, c2, c3} : WF_startVars(part = "starts" /\ Starts!FetchTimesOut(c))

\* A function that runs takes its steps, and every request of it to the blob
\* service ends: by its answer or by its ten seconds.
StoreFairness == \A c \in Callers : WF_storeVars(part = "store" /\ Step(c))

MCSpec == MCInit /\ [][MCNext]_all /\ GatewayFairness /\ StartsFairness /\ StoreFairness

\* The gateway under every interleaving of handlers, timers and the child:
\* slots are never lost, mutations go one at a time, a guided runtime is started
\* once, and every answer shows a chain that its own endpoint vouched for.  The
\* answers of a wallet sandbox show one chain; those of a guided one may show two,
\* when two reads both find none pinned (server.mjs:325).
GatewayExact ==
  /\ part = "wallet" => TypeOK /\ SlotsExact /\ OneChainDelivered /\ DeliveredWasVerified
  /\ part = "guided" => /\ Guided!SlotsExact /\ Guided!OneMutationAtATime
                        /\ Guided!StartedOnce /\ Guided!DeliveredWasVerified

\* A session that ended never serves again, keeps the reason that ended it, and
\* sends and answers nothing for requests that waited through its end.
EndedStaysEnded ==
  [][CASE part = "wallet" -> PhaseSettles /\ NothingAfterTheEnd
       [] part = "guided" -> Guided!PhaseSettles /\ Guided!NothingAfterTheEnd
       [] OTHER -> TRUE]_all

\* The budget bounds what a session's calls can do in whatever order and batch,
\* and of the calls the wallet page makes itself both reviews take every one but the
\* reading of its SOL balance, which the broker always refuses.
CallsMetered == part = "path" => PathTypeOK /\ RunsAreMetered /\ OwnCallsServed

\* No wake-up of the start scheduler is lost, and calls start in their order,
\* spaced, in time, and never inside a pause, also across aborts and late timers.
StartsInTurn ==
  /\ [](part = "starts" => Starts!TypeOK /\ Starts!QueueIsWaiting /\ Starts!WakeUpIsSet)
  /\ [][part = "starts" => Starts!StartsSpaced /\ Starts!StartsInOrder /\ Starts!PauseOnlyGrows]_all

\* Every change of a document is one mutation of the document it replaces; a
\* call that returned has its mutation there, and its retries do not repeat it but
\* in one case: a call whose own create made the document, and whose answer was
\* lost, may find that document, take it for another's and apply its mutation a
\* second time; no mutation is applied a third time.
StoreLosesNothing ==
  /\ [](part = "store" => StoreTypeOK /\ SavedIsKept /\ AppliedOnce)
  /\ EveryWriteIsOneMutation

\* Nobody waits for good: a child does not outlive its session, every request a
\* gateway admitted is answered, every scheduled call and store call ends.
\* The state without the wait comes again and again; part never changes.
RequestsEnd ==
  /\ []<>(/\ part = "ends" => Ends!ChildGone
          /\ part = "starts" => Starts!AllSettled
          /\ part = "store" => AllReturned)
  /\ \A r \in Requests : []<>(part = "ends" => Ends!Answered(r))

-----------------------------------------------------------------------------
(* Theorems.  What each part's own proofs say carries over to MCSpec: the  *)
(* step of a part is a step of its specification, and every other step     *)
(* leaves its variables alone.                                             *)

MCInv ==
  /\ part = "wallet" => IInv
  /\ part = "guided" => Guided!IInv
  /\ part = "path" => PathInv
  /\ part = "store" => StoreInv

LEMMA MCInvInit ==
  ASSUME MCInit
  PROVE  MCInv
<1>1. part = "wallet" => IInv
  BY PartsAssumption, InvInit DEF MCInit
<1>2. part = "guided" => Guided!IInv
  BY PartsAssumption, Guided!InvInit DEF MCInit
<1>3. PathInv
  BY PartsAssumption, PathInit DEF MCInit
<1>4. StoreInv
  BY PartsAssumption, StoreInit DEF MCInit
<1>. QED
  BY <1>1, <1>2, <1>3, <1>4 DEF MCInv

\* A step is a step of its part.
LEMMA StepOfPart ==
  ASSUME [MCNext]_all
  PROVE  /\ UNCHANGED part
         /\ part = "wallet" => [Next]_vars
         /\ part = "guided" => [Guided!Next]_(Guided!vars)
         /\ part = "path" => [NextPath]_pathVars
         /\ part = "store" => [NextStore]_storeVars
         /\ part # "store" => UNCHANGED doc
<1>1. CASE UNCHANGED all
  <2>1. UNCHANGED <<vars, part, pathVars, storeVars>>
    BY <1>1 DEF all
  <2>2. UNCHANGED Guided!vars
    BY <2>1 DEF vars, Guided!vars, life, Guided!life, idents, Guided!idents, load, Guided!load, hist, Guided!hist
  <2>3. UNCHANGED pathVars /\ UNCHANGED storeVars /\ UNCHANGED doc
    BY <2>1 DEF storeVars
  <2>. QED
    BY <2>1, <2>2, <2>3
<1>2. CASE MCNext
  BY <1>2 DEF MCNext, Fixed, storeVars
<1>. QED
  BY <1>1, <1>2

LEMMA MCInvStep ==
  ASSUME MCInv, [MCNext]_all
  PROVE  MCInv'
<1>. USE StepOfPart, PartsAssumption DEF MCInv
<1>1. CASE part = "wallet"
  BY <1>1, InvStep
<1>2. CASE part = "guided"
  BY <1>2, Guided!InvStep
<1>3. CASE part = "path"
  BY <1>3, PathStep
<1>4. CASE part = "store"
  BY <1>4, StoreStep
<1>. QED
  BY <1>1, <1>2, <1>3, <1>4

LEMMA MCInvariance == MCSpec => []MCInv
<1>1. MCInit => MCInv
  BY MCInvInit
<1>2. MCInv /\ [MCNext]_all => MCInv'
  BY MCInvStep
<1>. QED
  BY <1>1, <1>2, PTL DEF MCSpec

\* For any requests, chains, runtime ids and limits, in a wallet's sandbox and in
\* a guided one: slots are never lost, mutations go one at a time, a guided
\* runtime is started once, every answer shows a chain its own endpoint vouched
\* for, and a wallet's answers show one chain.
THEOREM GatewayIsExact == MCSpec => []GatewayExact
<1>1. MCInv => GatewayExact
  <2>. SUFFICES ASSUME MCInv PROVE GatewayExact
    OBVIOUS
  <2>1. CASE part = "wallet"
    BY <2>1, PartsAssumption, InvSays DEF MCInv, GatewayExact
  <2>2. CASE part = "guided"
    BY <2>2, PartsAssumption, Guided!InvSays DEF MCInv, GatewayExact
  <2>. QED
    BY <2>1, <2>2 DEF GatewayExact
<1>. QED
  BY <1>1, MCInvariance, PTL

\* For the same gateways: a session that ended never serves again, keeps the
\* reason that ended it, and nothing that waited through its end is sent or
\* answered.
THEOREM EndedIsFinal == MCSpec => EndedStaysEnded
<1>. DEFINE Ended == CASE part = "wallet" -> PhaseSettles /\ NothingAfterTheEnd
                       [] part = "guided" -> Guided!PhaseSettles /\ Guided!NothingAfterTheEnd
                       [] OTHER -> TRUE
<1>1. MCInv /\ [MCNext]_all => [Ended]_all
  <2>. SUFFICES ASSUME MCInv, [MCNext]_all PROVE Ended
    OBVIOUS
  <2>1. CASE part = "wallet"
    <3>1. PhaseSettles /\ NothingAfterTheEnd
      BY <2>1, StepOfPart, EndingStep, NothingLate DEF MCInv, IInv
    <3>. QED
      BY <2>1, <3>1
  <2>2. CASE part = "guided"
    <3>1. Guided!PhaseSettles /\ Guided!NothingAfterTheEnd
      BY <2>2, StepOfPart, Guided!EndingStep, Guided!NothingLate DEF MCInv, Guided!IInv
    <3>. QED
      BY <2>2, <3>1
  <2>. QED
    BY <2>1, <2>2
<1>. QED
  BY <1>1, MCInvariance, PTL DEF MCSpec, EndedStaysEnded

\* For any pages and requests: every transaction that reaches the chain was
\* charged before, in whatever order and batch, and of the calls
\* that the page of a sandbox of three assets makes itself neither review refuses
\* any but the reading of its SOL balance, which the broker's list leaves out.
THEOREM CallsAreMetered == MCSpec => []CallsMetered
<1>1. MCInv => CallsMetered
  BY PartsAssumption, PathInvSays DEF MCInv, CallsMetered
<1>. QED
  BY <1>1, MCInvariance, PTL

\* For any callers and attempts: what mutateJson returned is in the document, a
\* mutation is applied once, or twice when its own call's create made the document
\* and the answer was lost, and the document changes by one mutation at a time.
THEOREM StoreIsExact == MCSpec => StoreLosesNothing
<1>1. MCInv => (part = "store" => StoreTypeOK /\ SavedIsKept /\ AppliedOnce)
  BY StoreInvSays DEF MCInv
<1>2. MCInit => Counts!Init
  BY CountsInit DEF MCInit
<1>3. MCInv /\ [MCNext]_all => [Counts!Next]_(doc.count)
  BY StepOfPart, CountsStep DEF MCInv
<1>. QED
  BY <1>1, <1>2, <1>3, MCInvariance, PTL DEF MCSpec, StoreLosesNothing, EveryWriteIsOneMutation,
    Counts!Spec

=============================================================================
