----------------------------- MODULE DemoClient -----------------------------
(***************************************************************************)
(* The in-memory client behind the rehearsal pages                         *)
(* (packages/sdk/src/index.ts, createDemoClient): a seller and a buyer,    *)
(* one series per dividend event, sale quotes tied to a version of the     *)
(* ledger, and the calls a page makes in any order.  Each call runs to its *)
(* end without awaiting anything; one that throws changes nothing and is   *)
(* not a step.                                                             *)
(*                                                                         *)
(* Fixtures pin one event to one asset, so a series also names its asset.  *)
(* A decimal string is the number of its digits without the point and the  *)
(* number of digits after it.                                              *)
(***************************************************************************)
EXTENDS Integers, FiniteSets

CONSTANTS
  Series,          \* event ids
  M0, M1,          \* multipliers of the series, decimals
  Decimals,        \* asset.decimals
  SellerStock,     \* '1000': what the seller starts with, a decimal
  BuyerUsdc,       \* parseUsdc('1000')
  StockAmounts,    \* decimals typed into deposit
  Amounts,         \* raw claim amounts of the other calls
  Prices,          \* raw totals of a quote
  MaxRaw,          \* U64_MAX
  Ttl,             \* QUOTE_TTL_MS
  MaxTime, MaxVersion, MaxQuotes, MaxGeneration  \* bounds

VARIABLES
  collateral,      \* wallets[w].collateral
  usdc,            \* wallets[w].usdc
  claims,          \* wallets[w].claims
  series,
  condition,
  version,
  told,            \* receipts: the sum of the changes they list
  quotes,          \* the map of open quotes, with what the quoter saw
  quoteCounter, generation,
  now

ledger == <<collateral, usdc, claims, series, condition>>
quoting == <<quotes, quoteCounter, generation>>
vars == <<ledger, version, told, quoting, now>>

Wallets == {"seller", "buyer"}
Sides == {"pt", "dr"}
Conditions == {"ready", "stale", "paused", "rejected_event"}

-----------------------------------------------------------------------------
(* Arithmetic.                                                             *)

FitsRaw(n) == n \in 0..MaxRaw

\* parseDecimal
Numerator(x) == x.digits
Denominator(x) == 10^x.places

\* The condition under which toRawAmount returns, its u64 check apart.
ConvertsToRaw(display) == display.places <= Decimals

\* toRawAmount: the stock amount over the multiplier, rounded down.
ToRawAmount(display, multiplier) ==
  (Numerator(display) * 10^Decimals * Denominator(multiplier))
    \div (Denominator(display) * Numerator(multiplier))

\* allocate: the dividend pool of a raw amount; the rest is the PT pool.
DrPool(raw, s) ==
  LET after == Numerator(M1[s]) * Denominator(M0[s])
  IN  (raw * (after - Numerator(M0[s]) * Denominator(M1[s]))) \div after

\* validateFixtures: multipliers are positive, and the event, on an amount as
\* large as any here, has a dividend.
FixturesValid ==
  /\ \A s \in Series : /\ Numerator(M0[s]) > 0 /\ Numerator(M1[s]) > 0
                       /\ DrPool(MaxRaw, s) > 0
                       /\ ToRawAmount(SellerStock, M0[s]) <= MaxRaw
  /\ BuyerUsdc <= MaxRaw

-----------------------------------------------------------------------------

NoSeries ==
  [phase |-> "none", accounted |-> 0, original |-> 0,
   supply |-> [d \in Sides |-> 0], burned |-> [d \in Sides |-> 0],
   originalPool |-> [d \in Sides |-> 0], pool |-> [d \in Sides |-> 0]]

\* makeInitialState
InitialCollateral ==
  [w \in Wallets |-> [s \in Series |->
     IF w = "seller" THEN ToRawAmount(SellerStock, M0[s]) ELSE 0]]
InitialUsdc == [w \in Wallets |-> IF w = "buyer" THEN BuyerUsdc ELSE 0]
NoClaims == [w \in Wallets |-> [s \in Series |-> [d \in Sides |-> 0]]]
InitialSeries == [s \in Series |-> NoSeries]

NothingTold ==
  [collateral |-> [w \in Wallets |-> [s \in Series |-> 0]], usdc |-> [w \in Wallets |-> 0],
   claims |-> NoClaims, accounted |-> [s \in Series |-> 0]]

Init ==
  /\ collateral = InitialCollateral
  /\ usdc = InitialUsdc
  /\ claims = NoClaims
  /\ series = InitialSeries
  /\ condition = "ready"
  /\ version = 0
  /\ told = NothingTold
  /\ quotes = {}
  /\ quoteCounter = 0
  /\ generation = 1
  /\ now = 0

\* requireReady
Ready == condition = "ready"

Bump == version < MaxVersion /\ version' = version + 1

\* allocate(nextAccounted).drPoolRaw === 0n refuses a deposit or recombination.
Settles(s, accounted) == DrPool(accounted, s) > 0

Funded(s, raw) == collateral["seller"][s] >= raw

\* deposit
Deposit(s, amount) ==
  LET raw == ToRawAmount(amount, M0[s])
  IN  /\ Ready
      /\ ConvertsToRaw(amount)
      /\ raw > 0 /\ FitsRaw(raw)
      /\ Funded(s, raw)
      /\ series[s].phase \in {"none", "open"}
      /\ FitsRaw(series[s].accounted + raw)
      /\ Settles(s, series[s].accounted + raw)
      /\ \A d \in Sides : FitsRaw(claims["seller"][s][d] + raw)
      /\ collateral' = [collateral EXCEPT !["seller"][s] = @ - raw]
      /\ claims' = [claims EXCEPT !["seller"][s] = [d \in Sides |-> @[d] + raw]]
      /\ series' = [series EXCEPT ![s].phase = "open", ![s].accounted = @ + raw,
                                  ![s].supply = [d \in Sides |-> @[d] + raw]]
      /\ told' = [told EXCEPT !.collateral["seller"][s] = @ - raw, !.accounted[s] = @ + raw,
                              !.claims["seller"][s] = [d \in Sides |-> @[d] + raw]]
      /\ Bump
      /\ UNCHANGED <<usdc, condition, quoting, now>>

\* quoteSale
QuoteSale(s, dr, price) ==
  /\ quoteCounter < MaxQuotes
  /\ Ready
  /\ series[s].phase = "open"
  /\ claims["seller"][s]["dr"] >= dr
  /\ usdc["buyer"] >= price
  /\ quoteCounter' = quoteCounter + 1
  /\ quotes' = quotes \union
       {[id |-> quoteCounter + 1, generation |-> generation, series |-> s, dr |-> dr,
         price |-> price, version |-> version, expires |-> now + Ttl, saw |-> ledger]}
  /\ UNCHANGED <<ledger, version, told, generation, now>>

\* acceptSale with reject: the quote is dropped.
RejectSale(q) ==
  /\ q \in quotes
  /\ quotes' = quotes \ {q}
  /\ UNCHANGED <<ledger, version, told, quoteCounter, generation, now>>

\* acceptSale
AcceptSale(q) ==
  /\ q \in quotes /\ q.generation = generation
  /\ Ready
  /\ now < q.expires
  /\ q.version = version
  /\ series[q.series].phase = "open"
  /\ claims["seller"][q.series]["dr"] >= q.dr
  /\ usdc["buyer"] >= q.price
  /\ FitsRaw(claims["buyer"][q.series]["dr"] + q.dr) /\ FitsRaw(usdc["seller"] + q.price)
  /\ claims' = [claims EXCEPT !["seller"][q.series]["dr"] = @ - q.dr,
                              !["buyer"][q.series]["dr"] = @ + q.dr]
  /\ usdc' = [w \in Wallets |-> usdc[w] + (IF w = "seller" THEN q.price ELSE -q.price)]
  /\ quotes' = quotes \ {q}
  /\ told' = [told EXCEPT !.claims["seller"][q.series]["dr"] = @ - q.dr,
                          !.claims["buyer"][q.series]["dr"] = @ + q.dr,
                          !.usdc["buyer"] = @ - q.price, !.usdc["seller"] = @ + q.price]
  /\ Bump
  /\ UNCHANGED <<collateral, series, condition, quoteCounter, generation, now>>

\* closeDeposits
CloseDeposits(s) ==
  /\ series[s].phase = "open"
  /\ series' = [series EXCEPT ![s].phase = "closed"]
  /\ Bump
  /\ UNCHANGED <<collateral, usdc, claims, condition, told, quoting, now>>

\* The checks settle makes on a closed series once the page is ready.
SettleAccepts(s) ==
  /\ Settles(s, series[s].accounted)
  /\ \A d \in Sides : series[s].supply[d] = series[s].accounted

\* settle
Settle(s) ==
  LET dr == DrPool(series[s].accounted, s)
      pools == [d \in Sides |-> IF d = "dr" THEN dr ELSE series[s].accounted - dr]
  IN  /\ Ready
      /\ series[s].phase = "closed"
      /\ SettleAccepts(s)
      /\ series' = [series EXCEPT ![s].phase = "settled", ![s].original = series[s].accounted,
                                  ![s].originalPool = pools, ![s].pool = pools]
      /\ Bump
      /\ UNCHANGED <<collateral, usdc, claims, condition, told, quoting, now>>

\* Mutant: every redemption is floored on its own.
PayoutAlone(s, side, amount) ==
  (amount * series[s].originalPool[side]) \div series[s].original

\* previewRedemption
Payout(s, side, amount) ==
  LET upTo(n) == (n * series[s].originalPool[side]) \div series[s].original
  IN  upTo(series[s].burned[side] + amount) - upTo(series[s].burned[side])

AfterRedemption(x, side, amount, payout) ==
  [x EXCEPT !.supply[side] = @ - amount, !.pool[side] = @ - payout,
            !.burned[side] = @ + amount, !.accounted = @ - payout]

\* redeem
Redeem(s, w, side, amount) ==
  LET payout == Payout(s, side, amount)
      after == AfterRedemption(series[s], side, amount, payout)
      done == \A d \in Sides : after.supply[d] = 0 /\ after.pool[d] = 0
  IN  /\ condition # "paused"
      /\ series[s].phase = "settled"
      /\ claims[w][s][side] >= amount
      /\ payout > 0 /\ payout <= series[s].pool[side]
      /\ FitsRaw(collateral[w][s] + payout)
      /\ claims' = [claims EXCEPT ![w][s][side] = @ - amount]
      /\ collateral' = [collateral EXCEPT ![w][s] = @ + payout]
      /\ series' = [series EXCEPT ![s] = IF done THEN [after EXCEPT !.phase = "complete"] ELSE after]
      /\ told' = [told EXCEPT !.claims[w][s][side] = @ - amount, !.collateral[w][s] = @ + payout,
                              !.accounted[s] = @ - payout]
      /\ Bump
      /\ UNCHANGED <<usdc, condition, quoting, now>>

LeavesEnough(s, left) == left > 0 => Settles(s, left)

PhaseAfterUnwinding(s, left) == IF left = 0 THEN "cancelled" ELSE series[s].phase

\* The changes recombine's receipt lists.
TellRecombined(w, s, amount) ==
  [told EXCEPT !.claims[w][s] = [d \in Sides |-> @[d] - amount], !.collateral[w][s] = @ + amount,
               !.accounted[s] = @ - amount]

\* recombine
Recombine(s, w, amount) ==
  LET left == series[s].accounted - amount
  IN  /\ condition # "paused"
      /\ series[s].phase \in {"open", "closed"}
      /\ \A d \in Sides : claims[w][s][d] >= amount
      /\ FitsRaw(collateral[w][s] + amount)
      /\ LeavesEnough(s, left)
      /\ claims' = [claims EXCEPT ![w][s] = [d \in Sides |-> @[d] - amount]]
      /\ collateral' = [collateral EXCEPT ![w][s] = @ + amount]
      /\ series' = [series EXCEPT ![s].supply = [d \in Sides |-> @[d] - amount],
                                  ![s].accounted = left,
                                  ![s].phase = PhaseAfterUnwinding(s, left)]
      /\ told' = TellRecombined(w, s, amount)
      /\ Bump
      /\ UNCHANGED <<usdc, condition, quoting, now>>

\* setCondition
SetCondition(c) ==
  /\ condition' = c
  /\ Bump
  /\ UNCHANGED <<collateral, usdc, claims, series, told, quoting, now>>

\* reset: the version starts again at zero, so the quotes are cleared.
Reset ==
  /\ generation < MaxGeneration
  /\ generation' = generation + 1
  /\ quotes' = {}
  /\ collateral' = InitialCollateral /\ usdc' = InitialUsdc /\ claims' = NoClaims
  /\ series' = InitialSeries /\ condition' = "ready" /\ version' = 0 /\ told' = NothingTold
  /\ UNCHANGED <<quoteCounter, now>>

\* The clock of options.now.
Tick ==
  /\ now < MaxTime
  /\ now' = now + 1
  /\ UNCHANGED <<ledger, version, told, quoting>>

Next ==
  \/ \E s \in Series, x \in StockAmounts : Deposit(s, x)
  \/ \E s \in Series, n \in Amounts, p \in Prices : QuoteSale(s, n, p)
  \/ \E q \in quotes : RejectSale(q) \/ AcceptSale(q)
  \/ \E s \in Series : CloseDeposits(s) \/ Settle(s)
  \/ \E s \in Series, w \in Wallets, d \in Sides, n \in Amounts : Redeem(s, w, d, n)
  \/ \E s \in Series, w \in Wallets, n \in Amounts : Recombine(s, w, n)
  \/ \E c \in Conditions : SetCondition(c)
  \/ Reset
  \/ Tick

Spec == Init /\ [][Next]_vars

-----------------------------------------------------------------------------
(* Properties.                                                             *)

Unsettled(s) == series[s].phase \in {"open", "closed"}

TypeOK ==
  /\ collateral \in [Wallets -> [Series -> 0..MaxRaw]]
  /\ usdc \in [Wallets -> 0..MaxRaw]
  /\ claims \in [Wallets -> [Series -> [Sides -> 0..MaxRaw]]]
  /\ \A s \in Series : series[s].phase \in {"none", "open", "closed", "settled", "complete", "cancelled"}
  /\ condition \in Conditions
  /\ \A q \in quotes : q.id <= quoteCounter

\* A quote that would still be taken by its version shows its seller and its
\* buyer the very ledger they will trade on: every call that changes the
\* ledger moves the version on, and a reset, which moves it back, leaves no
\* quote behind.
QuoteIsCurrent ==
  \A q \in quotes : q.version = version => q.saw = ledger

\* Stock is in a wallet or backs a series, dollars only change hands, and the
\* claims of a series are the wallets' claims.
Conserved ==
  /\ \A s \in Series :
       /\ collateral["seller"][s] + collateral["buyer"][s] + series[s].accounted
            = InitialCollateral["seller"][s]
       /\ \A d \in Sides : claims["seller"][s][d] + claims["buyer"][s][d] = series[s].supply[d]
  /\ usdc["seller"] + usdc["buyer"] = BuyerUsdc

\* The receipts tell the whole story: what they list, added up since the last
\* reset, is the difference between the seeded wallets and the present ones.
ReceiptsExplainLedger ==
  /\ \A w \in Wallets :
       /\ usdc[w] = InitialUsdc[w] + told.usdc[w]
       /\ \A s \in Series : /\ collateral[w][s] = InitialCollateral[w][s] + told.collateral[w][s]
                            /\ claims[w][s] = told.claims[w][s]
  /\ \A s \in Series : series[s].accounted = told.accounted[s]

\* A series that took a deposit and was not unwound can be settled: however
\* deposits and recombinations alternate, settle's own checks never refuse.
SettleNeverRefused == \A s \in Series : Unsettled(s) => SettleAccepts(s)

\* Whoever is left with all claims of a side of a settled series can redeem
\* them at once, for exactly what is left of the pool, which is not nothing;
\* the guard against zero payouts never holds the last claims back.
LastHolderPaid ==
  \A s \in Series, w \in Wallets, d \in Sides :
    LET held == claims[w][s][d]
    IN  (series[s].phase = "settled" /\ held > 0 /\ held = series[s].supply[d])
          => /\ Payout(s, d, held) = series[s].pool[d]
             /\ series[s].pool[d] > 0

\* Nothing is left in a series nobody has claims on.
EmptyIsClosed ==
  \A s \in Series :
    (\A d \in Sides : series[s].supply[d] = 0) =>
      series[s].accounted = 0 /\ series[s].phase \in {"none", "cancelled", "complete"}

\* A series of the rehearsal keeps the promise of AnnualClaims, the one the
\* program keeps, from one reset of the page to the next.
Settled(s) == series[s].phase \in {"settled", "complete"}
Subject == CHOOSE s \in Series : TRUE
Claims == INSTANCE AnnualClaims WITH
  settled <- Settled(Subject),
  backing <- IF Settled(Subject) THEN series[Subject].original ELSE series[Subject].accounted,
  pool <- series[Subject].originalPool,
  redeemed <- series[Subject].burned,
  paid <- [d \in Sides |-> series[Subject].originalPool[d] - series[Subject].pool[d]]
RefinesClaims ==
  /\ Claims!Init
  /\ [][Claims!Next \/ (generation' # generation /\ Claims!Init')]_(Claims!vars)

=============================================================================
