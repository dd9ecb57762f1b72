---------------------------- MODULE GuidedJourney ----------------------------
(***************************************************************************)
(* What the fifteen guided steps do to the balances                        *)
(* (packages/guided-runtime/src/runtime.ts: fundStock, depositStock,       *)
(* recombineStock, recordQuarter, createPool ... redeem, snapshot,         *)
(* assertFinalResidual).  GuidedRuntime models how a step is accepted,     *)
(* journalled and published; here each step sends its transactions one     *)
(* after the other, reads the balances before and after, and fails the     *)
(* session unless they changed exactly as it expects.                      *)
(*                                                                         *)
(* The chain is private, but folding the journal and completing the year   *)
(* need no permission: a keeper may do either first.  A transaction may    *)
(* also be refused or not be confirmed in time.                            *)
(***************************************************************************)
EXTENDS CpmmLedger, Sequences, SequencesExt

CONSTANTS
  Units,      \* possible values of stockRaw(1), one per asset profile
  MayFail     \* whether a transaction may be refused or lost

\* What the instances of this module satisfy.
JourneyAssumption ==
  /\ Units \subseteq Nat \ {0}
  /\ MayFail \in BOOLEAN

\* The exact program's arithmetic; only its rational operators are used here.
Exact == INSTANCE DividendMath WITH FractionBits <- 0, Bias <- 1, Span <- 0, BigLimit <- 1

\* QUARTERS: the multiplier after each of the four events, in hundredths.
Quarters == <<101, 102, 103, 104>>

DemoSteps == <<"core-split", "core-recombine-partial", "core-recombine-rest",
               "dividend-split", "dividend-quarter-one", "dividend-quarter-two",
               "dividend-recombine", "create-pool", "add-liquidity", "buy-dr",
               "remove-liquidity", "recombine", "settle-year",
               "redeem-buyer", "redeem-provider">>

VARIABLES
  unit,     \* stockRaw(1) of the selected asset
  chain,    \* [bal, buyerStock, phase, events, multiplier, folded, pools, issued, redeemed]
  done,     \* completed steps
  status,   \* ready, running, complete, failed
  queue,    \* transactions of the active step that are still to be sent
  before,   \* the chain as the active step read it first
  disturbed \* a keeper stepped in, or a transaction was lost

vars == <<unit, chain, done, status, queue, before, disturbed>>

Step == DemoSteps[done + 1]

\* What the series owes: each pool less what its side was paid (requiredCustodyRaw).
RequiredCustody(c) ==
  LET left(s) == c.pools[s] - Exact!CumulativeFloor(c.redeemed[s], c.pools[s], c.issued[s])
  IN  left("pt") + left("dr")

-----------------------------------------------------------------------------
(* The transactions. *)

\* recordQuarter: the multiplier is scheduled, then the event is recorded.
QuarterTransactions == <<"multiplier", "event">>

\* settleYear: the last two quarters, then the fold of all four events.
SettleTransactions ==
  QuarterTransactions \o QuarterTransactions \o <<"begin">>
    \o [i \in 1..4 |-> "fold"] \o <<"complete">>

\* Transactions of a step, in order.
Transactions(step) ==
  CASE step \in {"core-split", "dividend-split"} -> <<"deposit">>
    [] step \in {"dividend-quarter-one", "dividend-quarter-two"} -> QuarterTransactions
    [] step \in {"core-recombine-partial", "core-recombine-rest",
                 "dividend-recombine", "recombine"} -> <<"recombine">>
    [] step = "settle-year" -> SettleTransactions
    [] OTHER -> <<step>>

\* How many pairs a step recombines: fixed, or as many as the recovered DR allow.
RecombineAmount(step, b) ==
  CASE step \in {"core-recombine-partial", "dividend-recombine"} -> 40 * unit
    [] step = "core-recombine-rest" -> 60 * unit
    [] step = "recombine" -> IF b.dr.provider < b.pt.provider
                             THEN b.dr.provider ELSE b.pt.provider

\* redeem: the buyer burns all its DR, the provider all its PT.
RedeemAmount(tx, b) == IF tx = "redeem-buyer" THEN b.dr.buyer ELSE b.pt.provider

Payout(c, side, amount) ==
  Exact!RedemptionPayout(c.redeemed[side], amount, c.pools[side], c.issued[side])

\* The year's first dividend closes the series to deposits.
DepositOpen(c) == c.phase = "open" /\ c.multiplier = 100

\* Whether the programs accept a transaction that was built on the reads in `before`.
Accepted(tx, c) ==
  LET b == c.bal IN
  CASE tx = "deposit" -> DepositOpen(c) /\ b.collateral.provider >= 100 * unit
    [] tx = "recombine" -> LET n == RecombineAmount(Step, before.bal)
                           IN  n > 0 /\ b.pt.provider >= n /\ b.dr.provider >= n
    [] tx \in {"multiplier", "event"} -> c.phase = "open"
    [] tx = "create-pool" -> b.dr.provider >= 24 * unit /\ b.quote.provider >= SeedQuote
    [] tx = "add-liquidity" ->
         LET lp == LpFor(b, 36 * unit)
         IN  /\ lp > 0 /\ DepositCost(b, b.dr, lp) <= b.dr.provider
             /\ DepositCost(b, b.quote, lp) <= b.quote.provider
    [] tx = "buy-dr" -> QuotesSwap(b) /\ b.quote.buyer >= BuyerQuote
    [] tx = "remove-liquidity" -> b.lp.provider > 0
    [] tx = "begin" -> c.phase = "open" /\ c.events = 4
    [] tx = "fold" -> c.phase = "finalizing" /\ c.folded < 4
    [] tx = "complete" -> c.phase = "finalizing" /\ c.folded = 4
    [] tx \in {"redeem-buyer", "redeem-provider"} ->
         c.phase = "finalized" /\ RedeemAmount(tx, b) > 0

\* The chain after a transaction.  Completing splits the backing by the product
\* of the four ratios, which telescopes to 100 / 104.
Applied(tx, c) ==
  LET b == c.bal IN
  CASE tx = "deposit" ->
         [c EXCEPT !.bal.collateral.provider = @ - 100 * unit,
                   !.bal.collateral.vault = @ + 100 * unit,
                   !.bal.pt.provider = @ + 100 * unit, !.bal.pt.supply = @ + 100 * unit,
                   !.bal.dr.provider = @ + 100 * unit, !.bal.dr.supply = @ + 100 * unit]
    [] tx = "recombine" -> [c EXCEPT !.bal = Recombined(b, RecombineAmount(Step, before.bal))]
    [] tx = "multiplier" -> [c EXCEPT !.multiplier = Quarters[c.events + 1]]
    [] tx = "event" -> [c EXCEPT !.events = @ + 1]
    [] tx = "create-pool" -> [c EXCEPT !.bal = PoolCreated(b, 24 * unit)]
    [] tx = "add-liquidity" -> [c EXCEPT !.bal = LiquidityAdded(b, LpFor(b, 36 * unit))]
    [] tx = "buy-dr" -> [c EXCEPT !.bal = Swapped(b)]
    [] tx = "remove-liquidity" -> [c EXCEPT !.bal = LiquidityRemoved(b, b.lp.provider)]
    [] tx = "begin" -> [c EXCEPT !.phase = "finalizing"]
    [] tx = "fold" -> [c EXCEPT !.folded = @ + 1]
    [] tx = "complete" ->
         [c EXCEPT !.phase = "finalized",
                   !.pools = Exact!SplitPools(b.collateral.vault, 100, Quarters[4]),
                   !.issued = [pt |-> b.pt.supply, dr |-> b.dr.supply]]
    [] tx = "redeem-buyer" ->
         [c EXCEPT !.bal.dr.buyer = 0, !.bal.dr.supply = @ - b.dr.buyer,
                   !.bal.collateral.vault = @ - Payout(c, "dr", b.dr.buyer),
                   !.buyerStock = @ + Payout(c, "dr", b.dr.buyer),
                   !.redeemed["dr"] = @ + b.dr.buyer]
    [] tx = "redeem-provider" ->
         [c EXCEPT !.bal.pt.provider = 0, !.bal.pt.supply = @ - b.pt.provider,
                   !.bal.collateral.vault = @ - Payout(c, "pt", b.pt.provider),
                   !.bal.collateral.provider = @ + Payout(c, "pt", b.pt.provider),
                   !.redeemed["pt"] = @ + b.pt.provider]

-----------------------------------------------------------------------------
(* The assertions. *)

\* recordQuarter: an event moves no balance, is counted, and leaves the series open.
EventChecks(old, new) ==
  /\ new.bal = old.bal
  /\ new.events = old.events + 1
  /\ new.multiplier = Quarters[new.events]
  /\ new.phase = "open"

\* depositStock
SplitChecks(b) ==
  /\ b.collateral.provider = 0 /\ b.collateral.vault = 100 * unit
  /\ b.pt.supply = 100 * unit /\ b.dr.supply = 100 * unit
  /\ Backed(b)

\* recombineStock, with the checkpoint after two dividends
RecombineStockChecks(step, old, new) ==
  LET n == RecombineAmount(step, old.bal)
      rest == IF n = 40 * unit THEN 60 * unit ELSE 0
  IN  /\ RecombineDelta(old.bal, new.bal, n)
      /\ Backed(new.bal)
      /\ new.bal.collateral.provider = IF n = 40 * unit THEN 40 * unit ELSE 100 * unit
      /\ {new.bal.collateral.vault, new.bal.pt.supply, new.bal.dr.supply} = {rest}
      /\ step = "dividend-recombine" =>
           /\ new.events = 2 /\ new.multiplier = Quarters[2] /\ new.phase = "open"
           /\ ~DepositOpen(new)

\* createPool
CreatePoolChecks(b) ==
  /\ b.dr.pool = 24 * unit /\ b.quote.pool = SeedQuote
  /\ b.dr.provider = 36 * unit
  /\ Backed(b)

\* addLiquidity: the pool takes what the minted LP cost, rounded up; less than
\* one LP unit's worth of DR stays in the wallet.
AddLiquidityChecks(old, new) ==
  LET minted == new.lp.provider - old.lp.provider
      expectedDr == CeilDiv(minted * old.dr.pool, old.lp.internal)
      expectedQuote == CeilDiv(minted * old.quote.pool, old.lp.internal)
      dust == new.dr.provider
  IN  /\ minted > 0 /\ old.lp.internal > 0
      /\ old.dr.provider = 36 * unit
      /\ old.dr.provider - new.dr.provider = expectedDr
      /\ new.dr.pool - old.dr.pool = expectedDr
      /\ dust >= 0 /\ dust < CeilDiv(old.dr.pool, old.lp.internal)
      /\ new.dr.pool + dust = 60 * unit
      /\ expectedQuote = AddQuote
      /\ old.quote.provider - new.quote.provider = expectedQuote
      /\ new.quote.pool - old.quote.pool = expectedQuote
      /\ new.lp.internal - old.lp.internal = minted
      /\ Backed(new)

\* assertFinalResidual: only the pool's claims are left, and the vault holds
\* what they can still redeem.
FinalResidual(c) ==
  /\ c.phase = "finalized" /\ c.bal.collateral.vault = RequiredCustody(c)
  /\ c.bal.pt.supply = 0
  /\ c.bal.dr.supply = c.bal.dr.pool /\ c.bal.dr.pool > 0
  /\ c.bal.dr.provider = 0 /\ c.bal.dr.buyer = 0
  /\ c.bal.lp.provider = 0 /\ c.bal.lp.internal = LockedLp

\* snapshot: backingVerified
BackingVerified(c) ==
  LET b == c.bal IN
  /\ b.collateral.provider + c.buyerStock + b.collateral.vault = b.collateral.supply
  /\ b.pt.provider + b.pt.other = b.pt.supply
  /\ b.dr.provider + b.dr.buyer + b.dr.pool = b.dr.supply
  /\ b.quote.provider + b.quote.buyer + b.quote.pool = ControlledTotal
  /\ IF c.phase = "finalized"
     THEN b.collateral.vault = RequiredCustody(c)
     ELSE b.collateral.vault = b.pt.supply /\ b.pt.supply = b.dr.supply

\* What a step asserts once its transactions are confirmed.
Checks(step, old, new) ==
  /\ CASE step \in {"core-split", "dividend-split"} -> SplitChecks(new.bal)
       [] step \in {"core-recombine-partial", "core-recombine-rest", "dividend-recombine"} ->
            RecombineStockChecks(step, old, new)
       [] step \in {"dividend-quarter-one", "dividend-quarter-two"} ->
            /\ EventChecks(old, new)
            /\ new.bal.collateral.provider = 0
            /\ new.bal.pt.provider = 100 * unit /\ new.bal.dr.provider = 100 * unit
       [] step = "create-pool" -> CreatePoolChecks(new.bal)
       [] step = "add-liquidity" -> AddLiquidityChecks(old.bal, new.bal)
       [] step = "buy-dr" -> SwapDelta(old.bal, new.bal, SwapQuote(old.bal)) /\ new.bal.dr.buyer > 0
       [] step = "remove-liquidity" -> SoleProviderWithdrawal(old.bal, new.bal)
       [] step = "recombine" ->
            /\ RecombineDelta(old.bal, new.bal, RecombineAmount(step, old.bal))
            /\ Backed(new.bal)
       [] step = "settle-year" -> new.phase = "finalized" /\ new.events = 4
       [] step = "redeem-provider" -> FinalResidual(new)
       [] OTHER -> TRUE
  /\ BackingVerified(new)

-----------------------------------------------------------------------------
(* The session. *)

\* After runSetup: fundStock minted 100 stocks to the provider, and the local
\* quote balances were written.
Init ==
  /\ unit \in Units
  /\ chain = [bal |-> [Empty EXCEPT !.collateral.provider = 100 * unit,
                                    !.collateral.supply = 100 * unit,
                                    !.quote.provider = SeedQuote + AddQuote,
                                    !.quote.buyer = BuyerQuote],
              buyerStock |-> 0, phase |-> "open", events |-> 0, multiplier |-> 100,
              folded |-> 0, pools |-> [s \in Exact!Sides |-> 0],
              issued |-> [s \in Exact!Sides |-> 0],
              redeemed |-> [s \in Exact!Sides |-> 0]]
  /\ done = 0 /\ status = "ready" /\ queue = << >>
  /\ before = chain
  /\ disturbed = FALSE

\* One request returns every account, owners and addresses verified.
CoherentRead == chain

\* runStep, up to the first send; settleYear looks for the two early dividends.
Begin ==
  /\ status = "ready"
  /\ before' = CoherentRead
  /\ IF Step = "settle-year" /\ ~(/\ chain.events = 2 /\ chain.multiplier = Quarters[2]
                                  /\ chain.phase = "open")
     THEN status' = "failed" /\ UNCHANGED queue
     ELSE status' = "running" /\ queue' = Transactions(Step)
  /\ UNCHANGED <<unit, chain, done, disturbed>>

\* send: a transaction is confirmed, or refused by the programs.
SendNext ==
  LET tx == Head(queue) IN
  /\ status = "running" /\ queue # << >>
  /\ IF Accepted(tx, chain)
     THEN /\ chain' = Applied(tx, chain)
          /\ status' = IF tx = "event" /\ ~EventChecks(chain, chain') THEN "failed" ELSE status
          /\ queue' = Tail(queue)
     ELSE status' = "failed" /\ UNCHANGED <<chain, queue>>
  /\ UNCHANGED <<unit, done, before, disturbed>>

\* A transaction that is not confirmed fails the session, landed or not.
Lose ==
  LET tx == Head(queue) IN
  /\ MayFail
  /\ status = "running" /\ queue # << >>
  /\ chain' \in {chain} \union (IF Accepted(tx, chain) THEN {Applied(tx, chain)} ELSE {})
  /\ status' = "failed" /\ disturbed' = TRUE
  /\ UNCHANGED <<unit, done, queue, before>>

\* The rest of runStep: assertions, snapshot, checkpoint.
Complete ==
  /\ status = "running" /\ queue = << >>
  /\ IF Checks(Step, before, CoherentRead)
     THEN /\ done' = done + 1
          /\ status' = IF done + 1 = Len(DemoSteps) THEN "complete" ELSE "ready"
     ELSE status' = "failed" /\ UNCHANGED done
  /\ UNCHANGED <<unit, chain, queue, before, disturbed>>

\* Any wallet may fold the journal or complete the year.
Keeper ==
  \E tx \in {"fold", "complete"} :
    /\ Accepted(tx, chain)
    /\ chain' = Applied(tx, chain)
    /\ disturbed' = TRUE
    /\ UNCHANGED <<unit, done, status, queue, before>>

Next == Begin \/ SendNext \/ Lose \/ Complete \/ Keeper

Spec == Init /\ [][Next]_vars

-----------------------------------------------------------------------------
(* Properties. *)

TypeOK ==
  /\ unit \in Units
  /\ done \in 0..Len(DemoSteps)
  /\ status \in {"ready", "running", "complete", "failed"}
  /\ chain.phase \in {"open", "finalizing", "finalized"}
  /\ chain.events \in 0..4 /\ chain.folded \in 0..4
  /\ chain.bal.collateral.vault \in Nat
  /\ chain.bal.dr.provider \in Nat /\ chain.bal.pt.provider \in Nat
  /\ FeeExcluded(chain.bal.quote) \in Nat /\ chain.bal.quote.provider \in Nat
  /\ \A s \in Exact!Sides : chain.redeemed[s] <= chain.issued[s]

\* No assertion of the fifteen steps fails unless a keeper stepped in or a
\* transaction was lost: the roundings they expect (the LP's cost rounded up,
\* the DR dust, the locked LP's residual, the two floors of redemption) are
\* the ones that the programs compute, for every asset's precision.
NoFalseAlarm == status = "failed" => disturbed

\* A complete journey paid out exactly: the buyer received its share of the
\* dividend pool, rounded down, the provider everything else except the stock
\* that the claims locked in the pool can still redeem, and that stock is
\* in the vault.
CompleteIsExact ==
  status = "complete" =>
    LET bought == chain.redeemed["dr"]
        locked == chain.bal.dr.pool
        backing == chain.issued["pt"]
        dividends == (backing * (Quarters[4] - 100)) \div Quarters[4]
        paid == (bought * dividends) \div (bought + locked)
    IN  /\ chain.buyerStock = paid
        /\ chain.bal.collateral.vault = dividends - paid
        /\ chain.bal.collateral.provider = 100 * unit - dividends
        /\ chain.bal.collateral.vault = Payout(chain, "dr", locked)

=============================================================================
