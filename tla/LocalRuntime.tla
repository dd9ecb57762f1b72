---------------------------- MODULE LocalRuntime ----------------------------
(***************************************************************************)
(* The local test network (packages/local-runtime/src/server.mjs): one     *)
(* process that owns a disposable chain, boots the test assets and their   *)
(* 2027 series on it, and then answers two mutating routes.  POST /faucet  *)
(* funds a wallet, POST /advance moves the year on by one of four          *)
(* controls.  Both run on one chain of promises (serialize), and both      *)
(* issue several transactions one after the other, any of which may fail;  *)
(* a caller who gets an error presses the same control again.              *)
(*                                                                         *)
(* An operation alternates between Plan, which reads the chain and decides *)
(* the next transactions, and Send, which issues the first of them.  What  *)
(* was read may be stale when it is used: folding and completing a sealed  *)
(* journal is open to every wallet, so a keeper may act between the two.   *)
(*                                                                         *)
(* Abstractions: the Clock takes the values the controls travel to;        *)
(* multipliers are numbered by the quarter that set them; digests and      *)
(* addresses are left out; the custody side of the series is AnnualSeries. *)
(***************************************************************************)
EXTENDS Integers, Sequences, FiniteSets, FiniteSetsExt

CONSTANTS
  NumProfiles,     \* the number of PROFILES, one test asset each
  Owners,          \* wallets that ask for funds
  LastQuarter,     \* the number of QUARTERS
  MaxQueue,        \* bound: operations waiting at the same time
  MaxFaults,       \* bound: failing calls, over the whole behaviour
  ConfirmationsCanBeLost, \* a transaction may land and its confirmation fail
  KeepersAct,      \* other wallets use the permissionless instructions
  MayStop          \* the process may be told to stop

Quarters == 1 .. LastQuarter
Assets == 1 .. NumProfiles

\* What the instances of this module satisfy.
LocalAssumption ==
  /\ LastQuarter \in Nat \ {0} /\ MaxQueue \in Nat /\ MaxFaults \in Nat
  /\ NumProfiles \in Nat \ {0}
  /\ {ConfirmationsCanBeLost, KeepersAct, MayStop} \subseteq BOOLEAN

VARIABLES
  stage,           \* "boot", "serving", "closing" or "exited"
  booted,          \* this.assets: how many assets are bootstrapped
  chain,           \* the disposable chain
  solOwners,       \* this.faucetSolOwners
  assetOwners,     \* this.faucetAssets
  queue,           \* mutationTail: operations in the order they arrived
  op,              \* the running operation, or Idle
  reply,           \* the last answer, with the history the properties need
  faults           \* failing calls so far

vars == <<stage, booted, chain, solOwners, assetOwners, queue, op, reply, faults>>

-----------------------------------------------------------------------------
(* The chain: the Clock, each asset's mint, policy and series, and what    *)
(* the faucet has paid.                                                    *)

\* PRE_YEAR_MS, START_YEAR_MS, event(asset, quarter).effectiveMs, END_YEAR_MS.
PreYear == 0
StartYear == 1
Effective(q) == StartYear + q
EndYear == StartYear + LastQuarter + 1

NewChain ==
  [clock  |-> PreYear,
   scale  |-> [a \in Assets |-> 0],         \* the quarter that set the multiplier
   fresh  |-> [a \in Assets |-> TRUE],      \* the observation is valid and matches
   events |-> [a \in Assets |-> {}],        \* quarters with an event head
   phase  |-> [a \in Assets |-> "open"],
   cursor |-> [a \in Assets |-> 0],
   sol    |-> [o \in Owners |-> 0],         \* transfers the faucet made
   tokens |-> [w \in Owners \X Assets |-> 0]]

\* What the programs require of a transaction ...
Accepted(tx, c) ==
  CASE tx.type = "upsert"     -> c.phase[tx.asset] = "open"
    [] tx.type = "begin"      -> /\ c.phase[tx.asset] = "open" /\ c.fresh[tx.asset]
                                 /\ c.clock >= EndYear
    [] tx.type = "accumulate" -> /\ c.phase[tx.asset] = "sealing"
                                 /\ c.cursor[tx.asset] = tx.quarter - 1
    [] tx.type = "complete"   -> /\ c.phase[tx.asset] = "sealing"
                                 /\ c.cursor[tx.asset] = Cardinality(c.events[tx.asset])
    [] OTHER                  -> TRUE

\* ... and what it writes.
Applied(tx, c) ==
  CASE tx.type = "refresh"    -> [c EXCEPT !.fresh[tx.asset] = TRUE]
    [] tx.type = "multiplier" -> [c EXCEPT !.scale[tx.asset] = tx.quarter, !.fresh[tx.asset] = FALSE]
    [] tx.type = "upsert"     -> [c EXCEPT !.events[tx.asset] = @ \cup {tx.quarter}]
    [] tx.type = "begin"      -> [c EXCEPT !.phase[tx.asset] = "sealing", !.cursor[tx.asset] = 0]
    [] tx.type = "accumulate" -> [c EXCEPT !.cursor[tx.asset] = tx.quarter]
    [] tx.type = "complete"   -> [c EXCEPT !.phase[tx.asset] = "finalized"]
    [] tx.type = "sol"        -> [c EXCEPT !.sol[tx.owner] = @ + 1]
    [] tx.type = "tokens"     -> [c EXCEPT !.tokens[<<tx.owner, tx.asset>>] = @ + 1]

\* travelToAtLeast: a jump leaves every asset's observation expired.
TravelToAtLeast(t, c) ==
  IF c.clock < t THEN [c EXCEPT !.clock = t, !.fresh = [a \in Assets |-> FALSE]] ELSE c

Refresh(a) == [type |-> "refresh", asset |-> a]

-----------------------------------------------------------------------------
(* Operations.  A plan is the transactions to send, the point of the       *)
(* handler to go on from, the chain (time travel is not a transaction) and *)
(* whether the handler throws instead.                                     *)

\* Points of a handler; 'record-dividends' counts its quarters from Begin.
Done == 0
Begin == 1
Seal == 2
Fold == 3
Complete == 4

Idle == [kind |-> "none"]
Refused == [throws |-> TRUE, todo |-> <<>>, pc |-> Done, chain |-> chain]
Planned(todo, pc, c) == [throws |-> FALSE, todo |-> todo, pc |-> pc, chain |-> c]
Finished == Planned(<<>>, Done, chain)

Requests ==
  [kind: {"faucet"}, asset: Assets, owner: Owners, current: BOOLEAN]
    \cup [kind: {"start-year", "record-dividends", "end-year", "finalize"},
          asset: Assets, owner: {"none"}, current: BOOLEAN]

\* faucet: an expiring observation is refreshed while deposits are possible,
\* then whatever this process has not yet recorded as paid is paid.
FaucetPlan(r) ==
  Planned((IF chain.clock < StartYear /\ ~chain.fresh[r.asset] THEN <<Refresh(r.asset)>> ELSE <<>>)
            \o (IF r.owner \in solOwners THEN <<>>
                ELSE << [type |-> "sol", owner |-> r.owner] >>)
            \o (IF <<r.owner, r.asset>> \in assetOwners THEN <<>>
                ELSE << [type |-> "tokens", asset |-> r.asset, owner |-> r.owner] >>),
          Done, chain)

\* advance 'start-year' and 'end-year'.
TravelPlan(t) ==
  Planned([a \in Assets |-> Refresh(a)], Done, TravelToAtLeast(t, chain))

\* Mutant: a retry sets the quarter's multiplier again.
RecordQuarterPlanAgain(r, q) ==
  LET c == TravelToAtLeast(Effective(q), chain)
      upsert == [type |-> "upsert", asset |-> r.asset, quarter |-> q]
      multiplier == [type |-> "multiplier", asset |-> r.asset, quarter |-> c.scale[r.asset] + 1]
  IN  IF q \in chain.events[r.asset] THEN Planned(<<>>, q + 1, chain)
      ELSE Planned(<<multiplier, Refresh(r.asset), upsert>>, q + 1, c)

\* advance 'record-dividends', one round of the loop: a quarter with an event
\* head is skipped; the mint must show the quarter's multiplier or the
\* preceding one, and is only updated in the second case.
RecordQuarterPlan(r, q) ==
  LET c == TravelToAtLeast(Effective(q), chain)
      upsert == [type |-> "upsert", asset |-> r.asset, quarter |-> q]
      multiplier == [type |-> "multiplier", asset |-> r.asset, quarter |-> q]
  IN  IF q \in chain.events[r.asset] THEN Planned(<<>>, q + 1, chain)
      ELSE IF c.scale[r.asset] = q THEN Planned(<<Refresh(r.asset), upsert>>, q + 1, c)
      ELSE IF c.scale[r.asset] = q - 1
           THEN Planned(<<multiplier, Refresh(r.asset), upsert>>, q + 1, c)
           ELSE [Refused EXCEPT !.chain = c]

RecordPlan(r, pc) == IF pc > LastQuarter THEN Finished ELSE RecordQuarterPlan(r, pc)

\* Mutant: a resumed finalization folds the journal from its first event.
FoldFromStart(r) ==
  [i \in 1 .. LastQuarter |-> [type |-> "accumulate", asset |-> r.asset, quarter |-> i]]

\* The accumulateEvent calls left after the cursor that was read.
FoldFrom(r) ==
  [i \in 1 .. (LastQuarter - chain.cursor[r.asset]) |->
     [type |-> "accumulate", asset |-> r.asset, quarter |-> chain.cursor[r.asset] + i]]

\* advance 'finalize': begin, fold what is left, complete; each decided from a
\* new read of the series.
FinalizePlan(r, pc) ==
  LET phase == chain.phase[r.asset]
  IN  CASE pc = Begin ->
             IF chain.events[r.asset] # Quarters \/ chain.clock < EndYear THEN Refused
             ELSE IF phase = "finalized" THEN Finished
             ELSE Planned(<<Refresh(r.asset)>>, Seal, chain)
        [] pc = Seal ->
             IF phase = "open"
             THEN Planned(<< [type |-> "begin", asset |-> r.asset] >>, Fold, chain)
             ELSE Planned(FoldFrom(r), Complete, chain)
        [] pc = Fold -> Planned(FoldFrom(r), Complete, chain)
        [] pc = Complete ->
             IF phase = "sealing"
             THEN Planned(<< [type |-> "complete", asset |-> r.asset] >>, Done, chain)
             ELSE Finished

Planning(o) ==
  IF ~o.request.current THEN Refused
  ELSE CASE o.kind = "faucet" -> FaucetPlan(o.request)
         [] o.kind = "start-year" -> TravelPlan(StartYear)
         [] o.kind = "record-dividends" -> RecordPlan(o.request, o.pc)
         [] o.kind = "end-year" -> TravelPlan(EndYear)
         [] o.kind = "finalize" -> FinalizePlan(o.request, o.pc)

-----------------------------------------------------------------------------
(* Steps.  `signed` says whether `signatures` has an entry yet, `landed`    *)
(* whether a transaction of the operation took effect.                     *)

Init ==
  /\ stage = "boot" /\ booted = 0
  /\ chain = NewChain
  /\ solOwners = {} /\ assetOwners = {}
  /\ queue = <<>> /\ op = Idle
  /\ reply = [kind |-> "none", request |-> Idle, ok |-> TRUE, partial |-> FALSE,
              landed |-> FALSE]
  /\ faults = 0

CanFault == faults < MaxFaults

\* initialize: one bootstrapAsset after the other.  Any failure ends the
\* process before it listens.
Boot ==
  /\ stage = "boot"
  /\ \/ /\ booted < NumProfiles
        /\ booted' = booted + 1 /\ UNCHANGED <<stage, faults>>
     \/ CanFault /\ faults' = faults + 1 /\ stage' = "exited" /\ UNCHANGED booted
  /\ UNCHANGED <<chain, solOwners, assetOwners, queue, op, reply>>

\* verifyBootstrap, then the manifest is built and the server listens.
Listen ==
  /\ stage = "boot" /\ booted = NumProfiles
  /\ stage' = "serving"
  /\ UNCHANGED <<booted, chain, solOwners, assetOwners, queue, op, reply, faults>>

\* A request that passed the HTTP checks joins the tail of the queue.
Arrive(r) ==
  /\ stage = "serving"
  /\ Len(queue) < MaxQueue
  /\ queue' = Append(queue, r)
  /\ UNCHANGED <<stage, booted, chain, solOwners, assetOwners, op, reply, faults>>

\* serialize: the next operation starts when the one before it has settled.
Start ==
  /\ stage \in {"serving", "closing"}
  /\ op = Idle /\ queue # <<>>
  /\ queue' = Tail(queue)
  /\ op' = [kind |-> Head(queue).kind, request |-> Head(queue),
            pc |-> Begin, todo |-> <<>>, signed |-> FALSE, landed |-> FALSE]
  /\ UNCHANGED <<stage, booted, chain, solOwners, assetOwners, reply, faults>>

Replies(ok, landed) ==
  /\ op' = Idle
  /\ reply' = [kind |-> op.kind, request |-> op.request, ok |-> ok,
               partial |-> ~ok /\ op.signed, landed |-> landed]

\* The handler reads the chain and goes on to its next transactions, returns,
\* or throws; a read may fail too.
Plan ==
  /\ op # Idle /\ op.todo = <<>> /\ op.pc # Done
  /\ LET plan == Planning(op)
     IN  /\ chain' = plan.chain
         /\ IF plan.throws THEN Replies(FALSE, op.landed)
            ELSE op' = [op EXCEPT !.todo = plan.todo, !.pc = plan.pc] /\ UNCHANGED reply
  /\ UNCHANGED <<stage, booted, solOwners, assetOwners, queue, faults>>

ReadFails ==
  /\ op # Idle /\ op.todo = <<>> /\ op.pc # Done
  /\ op.request.current
  /\ CanFault /\ faults' = faults + 1
  /\ Replies(FALSE, op.landed)
  /\ UNCHANGED <<stage, booted, chain, solOwners, assetOwners, queue>>

\* What the faucet remembers of a payment it has seen confirmed.
RememberPayment(tx) ==
  /\ solOwners' = IF tx.type = "sol" THEN solOwners \cup {tx.owner} ELSE solOwners
  /\ assetOwners' = IF tx.type = "tokens" THEN assetOwners \cup {<<tx.owner, tx.asset>>}
                    ELSE assetOwners

\* The next transaction is confirmed.
Send ==
  /\ op # Idle /\ op.todo # <<>>
  /\ LET tx == Head(op.todo)
     IN  /\ Accepted(tx, chain)
         /\ chain' = Applied(tx, chain)
         /\ RememberPayment(tx)
         /\ op' = [op EXCEPT !.todo = Tail(@), !.signed = TRUE, !.landed = TRUE]
  /\ UNCHANGED <<stage, booted, queue, reply, faults>>

\* The programs refuse it: simulation fails and send throws.
Rejected ==
  /\ op # Idle /\ op.todo # <<>>
  /\ ~Accepted(Head(op.todo), chain)
  /\ Replies(FALSE, op.landed)
  /\ UNCHANGED <<stage, booted, chain, solOwners, assetOwners, queue, faults>>

\* It is not delivered, or it lands and the confirmation is lost.
SendFails ==
  /\ op # Idle /\ op.todo # <<>>
  /\ CanFault /\ faults' = faults + 1
  /\ \/ Replies(FALSE, op.landed) /\ UNCHANGED chain
     \/ /\ ConfirmationsCanBeLost
        /\ Accepted(Head(op.todo), chain)
        /\ chain' = Applied(Head(op.todo), chain)
        /\ Replies(FALSE, TRUE)
  /\ UNCHANGED <<stage, booted, solOwners, assetOwners, queue>>

Return ==
  /\ op # Idle /\ op.todo = <<>> /\ op.pc = Done
  /\ Replies(TRUE, op.landed)
  /\ UNCHANGED <<stage, booted, chain, solOwners, assetOwners, queue, faults>>

\* Time passes before the year: an observation runs out.
Elapse ==
  /\ stage = "serving" /\ chain.clock = PreYear
  /\ chain' = [chain EXCEPT !.fresh = [a \in Assets |-> FALSE]]
  /\ UNCHANGED <<stage, booted, solOwners, assetOwners, queue, op, reply, faults>>

\* Another wallet folds in the next event, or completes the finalization.
Keeper(a) ==
  /\ KeepersAct
  /\ \E tx \in {[type |-> "accumulate", asset |-> a, quarter |-> chain.cursor[a] + 1],
                [type |-> "complete", asset |-> a]} :
       /\ tx.type = "accumulate" => chain.cursor[a] < Cardinality(chain.events[a])
       /\ Accepted(tx, chain)
       /\ chain' = Applied(tx, chain)
  /\ UNCHANGED <<stage, booted, solOwners, assetOwners, queue, op, reply, faults>>

\* shutdown: no new connection; the process exits when every answer is out,
\* or after five seconds whatever is still running.
Shutdown ==
  /\ MayStop /\ stage = "serving"
  /\ stage' = "closing"
  /\ UNCHANGED <<booted, chain, solOwners, assetOwners, queue, op, reply, faults>>

Exit ==
  /\ stage = "closing"
  /\ stage' = "exited" /\ queue' = <<>> /\ op' = Idle
  /\ UNCHANGED <<booted, chain, solOwners, assetOwners, reply, faults>>

Handler == Start \/ Plan \/ ReadFails \/ Send \/ Rejected \/ SendFails \/ Return

Next ==
  \/ Boot \/ Listen \/ Handler \/ Elapse \/ Shutdown \/ Exit
  \/ \E r \in Requests : Arrive(r)
  \/ \E a \in Assets : Keeper(a)

Spec == Init /\ [][Next]_vars

\* A user who is not told that a series is finalized presses its controls again.
Presses(a, kind) ==
  /\ chain.phase[a] # "finalized"
  /\ Arrive([kind |-> kind, asset |-> a, owner |-> "none", current |-> TRUE])

-----------------------------------------------------------------------------
(* Properties.                                                             *)

TypeOK ==
  /\ stage \in {"boot", "serving", "closing", "exited"} /\ booted \in 0 .. NumProfiles
  /\ chain.clock \in PreYear .. EndYear
  /\ chain.scale \in [Assets -> 0 .. LastQuarter] /\ chain.fresh \in [Assets -> BOOLEAN]
  /\ chain.events \in [Assets -> SUBSET Quarters] /\ chain.cursor \in [Assets -> 0 .. LastQuarter]
  /\ chain.phase \in [Assets -> {"open", "sealing", "finalized"}]
  /\ solOwners \subseteq Owners /\ assetOwners \subseteq Owners \X Assets
  /\ queue \in Seq(Requests) /\ Len(queue) <= MaxQueue
  /\ faults \in 0 .. MaxFaults

\* Whatever was interrupted and repeated, an asset's recorded quarters are the
\* first ones of the year, and its mint has grown by exactly those and at most
\* the one that is being recorded: no dividend is skipped, doubled or attested
\* without the mint showing it (the loop of advance 'record-dividends').
DividendsOnce ==
  \A a \in Assets :
    \E k \in 0 .. LastQuarter :
      /\ chain.events[a] = 1 .. k
      /\ chain.scale[a] \in {k, k + 1}

\* A confirmed answer describes the chain, also when it repeats an operation
\* that failed half way: after 'record-dividends' all quarters are there, after
\* 'finalize' the series is final, after the faucet the wallet has its funds,
\* and the clock has reached the date of a control (the messages of advance).
SuccessMeansDone ==
  reply.ok /\ reply.kind # "none" =>
    LET r == reply.request
    IN  /\ r.current
        /\ r.kind = "faucet" => chain.sol[r.owner] > 0 /\ chain.tokens[<<r.owner, r.asset>>] > 0
        /\ r.kind = "start-year" => chain.clock >= StartYear
        /\ r.kind = "record-dividends" => chain.events[r.asset] = Quarters
        /\ r.kind = "end-year" => chain.clock >= EndYear
        /\ r.kind = "finalize" => chain.phase[r.asset] = "finalized"

\* A series is sealed only after maturity and from a complete year, and is
\* final only with every event folded in, whoever folded them.
FinalIsComplete ==
  \A a \in Assets :
    /\ chain.phase[a] # "open" => chain.events[a] = Quarters /\ chain.clock >= EndYear
    /\ chain.phase[a] = "finalized" => chain.cursor[a] = LastQuarter

\* The faucet funds a wallet once, and with each asset once
\* (packages/local-runtime/README.md), as long as no confirmation is lost: every
\* payment on the chain is one it remembers and does not make again, but for one
\* of each transfer that landed unconfirmed, which it forgets and repeats.
Forgotten(paid, remembered) ==
  MapThenSumSet(LAMBDA w : paid[w] - (IF w \in remembered THEN 1 ELSE 0), DOMAIN paid)
FaucetPaysOnce ==
  /\ \A o \in solOwners : chain.sol[o] >= 1
  /\ \A w \in assetOwners : chain.tokens[w] >= 1
  /\ Forgotten(chain.sol, solOwners) + Forgotten(chain.tokens, assetOwners)
       <= IF ConfirmationsCanBeLost THEN faults ELSE 0

\* An operation that failed after a transaction of it took effect is reported
\* as partial (spec/wallet-integration-v1.md).
PartialIsReported == ~reply.ok /\ reply.landed => reply.partial

\* The network's clock never goes back, whichever asset a control is for.
ClockForward == chain'.clock >= chain.clock

\* A user who keeps pressing the controls gets every series finalized, however
\* the earlier attempts failed: no interruption leaves a state the controls
\* cannot continue from.
YearFinalized == stage = "exited" \/ \A a \in Assets : chain.phase[a] = "finalized"
=============================================================================
