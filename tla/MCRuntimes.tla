----------------------------- MODULE MCRuntimes -----------------------------
(***************************************************************************)
(* The programs that carry whole sequences of transactions through: the    *)
(* local network's controls (LocalRuntime), the guided runtime and what    *)
(* its fifteen steps do to the balances (GuidedRuntime, GuidedJourney) and *)
(* the Raydium round trip (AmmFlow).  A behaviour is of one part.          *)
(*                                                                         *)
(* The round trip keeps the frozen ratios 40 : 60 DR and 4 : 6 : 1 quote   *)
(* with ten raw units per DR and forty per quote unit, and fee rates high  *)
(* enough that each fee is at least one raw unit.                          *)
(***************************************************************************)
EXTENDS AmmFlow

CONSTANT o1

VARIABLES
  part,
  stage, booted, network, solOwners, assetOwners, presses, op, reply, faults,
  state, net, tasks, requests, handler, writes, disk, sent,
  unit, ledger, done, status, sending, before, disturbed

localVars == <<stage, booted, network, solOwners, assetOwners, presses, op, reply, faults>>
guidedVars == <<state, net, tasks, requests, handler, writes, disk, sent>>
journeyVars == <<unit, ledger, done, status, sending, before, disturbed>>
all == <<vars, localVars, guidedVars, journeyVars, part>>

MCStrangerAmounts == {8, 20}

\* Nobody else trades; the command is killed and started again.
Killed == INSTANCE AmmFlow WITH StrangerQuote <- 0, MaxRuns <- 3
KilledPrivate == INSTANCE AmmFlow WITH Circle <- FALSE, StrangerQuote <- 0, MaxRuns <- 3

\* Two assets, and keepers.
Controls == INSTANCE LocalRuntime WITH
  NumProfiles <- 2, Owners <- {}, LastQuarter <- 1, MaxQueue <- 1, MaxFaults <- 0,
  ConfirmationsCanBeLost <- TRUE, KeepersAct <- TRUE, MayStop <- FALSE,
  chain <- network, queue <- presses

\* A wallet asks for funds, again and again, while the process may be told to stop.
Faucet == INSTANCE LocalRuntime WITH
  NumProfiles <- 1, Owners <- {o1}, LastQuarter <- 1, MaxQueue <- 1, MaxFaults <- 1,
  ConfirmationsCanBeLost <- FALSE, KeepersAct <- FALSE, MayStop <- TRUE,
  chain <- network, queue <- presses

\* The same, and transfers that land may look like failures.
Lossy == INSTANCE LocalRuntime WITH
  NumProfiles <- 1, Owners <- {o1}, LastQuarter <- 1, MaxQueue <- 1, MaxFaults <- 1,
  ConfirmationsCanBeLost <- TRUE, KeepersAct <- FALSE, MayStop <- FALSE,
  chain <- network, queue <- presses

\* One asset, and a user who does not give up.
Year == INSTANCE LocalRuntime WITH
  NumProfiles <- 1, Owners <- {}, LastQuarter <- 2, MaxQueue <- 1, MaxFaults <- 2,
  ConfirmationsCanBeLost <- TRUE, KeepersAct <- TRUE, MayStop <- FALSE,
  chain <- network, queue <- presses

\* Calls fail, the disk does not.
Guided == INSTANCE GuidedRuntime WITH
  NumSteps <- 3, TxPerStep <- 2, MaxSessions <- 2, MaxQueue <- 3, RpcCanFail <- TRUE,
  PersistCanFail <- FALSE, queue <- requests

\* The disk fails too.
Worst == INSTANCE GuidedRuntime WITH
  NumSteps <- 3, TxPerStep <- 1, MaxSessions <- 1, MaxQueue <- 2, RpcCanFail <- TRUE,
  PersistCanFail <- TRUE, queue <- requests

Ends == INSTANCE GuidedRuntime WITH
  NumSteps <- 2, TxPerStep <- 1, MaxSessions <- 2, MaxQueue <- 1, RpcCanFail <- TRUE,
  PersistCanFail <- FALSE, queue <- requests

\* The program's stocks have 10^6, 10^8 or 10^9 raw units against 10^6 per quote
\* unit; here one stock has between half and more than twice as many.  The quote
\* amounts are those of the round trip.
Journey == INSTANCE GuidedJourney WITH
  SlippageBps <- 50, Units <- 20 .. 90, MayFail <- TRUE,
  chain <- ledger, queue <- sending

ASSUME PartsAssumption ==
  /\ Killed!FlowAssumption /\ KilledPrivate!FlowAssumption
  /\ Controls!LocalAssumption /\ Faucet!LocalAssumption /\ Lossy!LocalAssumption /\ Year!LocalAssumption
  /\ Guided!GuidedAssumption /\ Worst!GuidedAssumption /\ Ends!GuidedAssumption
  /\ Journey!JourneyAssumption /\ Journey!LedgerAssumption

MCInit ==
  /\ part \in {"public", "killed", "private", "controls", "faucet", "lossy", "year",
               "guided", "worst", "ends", "journey"}
  /\ IF part = "public" THEN Init ELSE Killed!Init
  /\ Guided!Init
  /\ part # "journey" => unit = 20
  /\ Journey!Init
  /\ CASE part = "faucet" -> Faucet!Init
       [] part = "lossy" -> Lossy!Init
       [] part = "year" -> Year!Init
       [] OTHER -> Controls!Init

MCNext ==
  \/ /\ \/ part = "public" /\ Next
        \/ part = "killed" /\ Killed!Next
        \/ part = "private" /\ KilledPrivate!Next
     /\ UNCHANGED <<part, localVars, guidedVars, journeyVars>>
  \/ /\ \/ part = "controls" /\ Controls!Next
        \/ part = "faucet" /\ Faucet!Next
        \/ part = "lossy" /\ Lossy!Next
        \/ part = "year" /\ Year!Next
     /\ UNCHANGED <<part, vars, guidedVars, journeyVars>>
  \/ /\ \/ part = "guided" /\ Guided!Next
        \/ part = "worst" /\ Worst!Next
        \/ part = "ends" /\ Ends!Next
     /\ UNCHANGED <<part, vars, localVars, journeyVars>>
  \/ /\ part = "journey" /\ Journey!Next
     /\ UNCHANGED <<part, vars, localVars, guidedVars>>

\* The event loop runs every settled promise on; a user who is not told that the
\* series is finalized presses its controls again.
YearFairness ==
  /\ WF_localVars(part = "year" /\ Year!Boot) /\ WF_localVars(part = "year" /\ Year!Listen)
  /\ WF_localVars(part = "year" /\ Year!Handler)
  /\ \A kind \in {"record-dividends", "end-year", "finalize"} :
       SF_localVars(part = "year" /\ Year!Presses(1, kind))

\* The event loop serves every settled promise; RPC calls carry a timeout.
GuidedFairness ==
  /\ WF_guidedVars(part = "ends" /\ Ends!HandleRequest)
  /\ WF_guidedVars(part = "ends" /\ (Ends!Written \/ Ends!WriteFails))
  /\ WF_guidedVars(part = "ends" /\ \E t \in tasks : Ends!Operation(t))

MCSpec == MCInit /\ [][MCNext]_all /\ YearFairness /\ GuidedFairness

\* However often an operation is interrupted, refused, killed and repeated, and
\* whoever else acts on the chain between its steps: dividends are not doubled or
\* skipped, a receipt is of the round trip nobody disturbed, a session has one
\* operation and its completed steps are confirmed, and an assertion that fails
\* had a cause.  And neither the local network's clock nor the guided state on
\* disk goes back.  With three conditions.  The local faucet pays a wallet once
\* only while no confirmation is lost ("faucet"); one that is lost may be paid
\* again, and need not be reported as partial ("lossy").  One operation, the
\* journal before the confirmation, what is complete and the state on disk are
\* checked with a disk that works ("guided"); with one that fails, that no step
\* or transaction is repeated ("worst").
SequencesAreExact ==
  /\ [](/\ part = "public" => TypeOK /\ ReceiptIsExact /\ NoFalseAlarm /\ FundedOnce
        /\ part = "killed" => Killed!FundedOnce
        /\ part = "private" => KilledPrivate!FundedOnce
        /\ part = "controls" => /\ Controls!TypeOK /\ Controls!DividendsOnce
                                /\ Controls!SuccessMeansDone /\ Controls!FinalIsComplete
        /\ part = "year" => Year!DividendsOnce /\ Year!SuccessMeansDone /\ Year!FinalIsComplete
        /\ part = "faucet" => Faucet!FaucetPaysOnce /\ Faucet!PartialIsReported
        /\ part = "lossy" => Lossy!FaucetPaysOnce
        /\ part = "guided" => /\ Guided!TypeOK /\ Guided!OneOperation /\ Guided!NothingRepeated
                              /\ Guided!JournaledBeforeConfirm /\ Guided!CompletedIsConfirmed
        /\ part = "worst" => Worst!NothingRepeated
        /\ part = "journey" => Journey!TypeOK /\ Journey!NoFalseAlarm /\ Journey!CompleteIsExact)
  /\ [][/\ part = "controls" => Controls!ClockForward
        /\ part = "guided" => Guided!DiskForward]_all

\* A user who keeps pressing the controls gets the series finalized, however the
\* earlier attempts failed; a guided operation that was accepted ends, as long as
\* the disk works.
OperationsEnd ==
  /\ <>(part = "year" => Year!YearFinalized)
  /\ part = "ends" => Ends!OperationEnds
=============================================================================
