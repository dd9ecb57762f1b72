----------------------------- MODULE CpmmLedger -----------------------------
(***************************************************************************)
(* The accounting of the Raydium round trip                                *)
(* (packages/amm-integration/src/accounting.ts, quote.ts): the balances    *)
(* that a coherent read returns, what the constant-product pool does to    *)
(* them, and the assertions that compare two reads.                        *)
(*                                                                         *)
(* Amounts are raw units.  The pool is an external program; it is modelled *)
(* from the quote the code computes for it and from the rounding that the  *)
(* assertions expect.  Creator fees are refused by the code and are zero.  *)
(***************************************************************************)
EXTENDS Integers

CONSTANTS
  TradeFeeRate, ProtocolFeeRate, FundFeeRate,   \* out of FeeRateDenominator
  FeeRateDenominator,
  LockedLp,        \* LP units that the pool never mints (100 in Raydium)
  SlippageBps,     \* out of 10000
  SeedQuote, AddQuote, BuyerQuote   \* the flow's quote amounts

\* Bounds from verifyExecutionEnvironment and from the frozen flow amounts.
ASSUME LedgerAssumption ==
  /\ TradeFeeRate \in 1..(FeeRateDenominator - 1)
  /\ ProtocolFeeRate + FundFeeRate <= FeeRateDenominator
  /\ SlippageBps \in 0..500
  /\ {LockedLp, SeedQuote, AddQuote, BuyerQuote} \subseteq Nat \ {0}

ControlledTotal == SeedQuote + AddQuote + BuyerQuote

CeilDiv(n, d) == (n + d - 1) \div d

SquareRoot(n) == CHOOSE r \in 0..n : r * r <= n /\ (r + 1) * (r + 1) > n

\* AssetBalances: what one read of the sixteen accounts returns.
Empty ==
  [collateral |-> [provider |-> 0, vault |-> 0, supply |-> 0],
   pt |-> [provider |-> 0, other |-> 0, supply |-> 0],
   dr |-> [provider |-> 0, buyer |-> 0, pool |-> 0, protocol |-> 0, fund |-> 0, supply |-> 0],
   quote |-> [provider |-> 0, buyer |-> 0, pool |-> 0, protocol |-> 0, fund |-> 0],
   lp |-> [provider |-> 0, mint |-> 0, internal |-> 0]]

-----------------------------------------------------------------------------
(* The assertions. *)

\* assertControlledConservation (amounts read from the chain are never negative)
Conserved(b) ==
  /\ b.collateral.provider + b.collateral.vault = b.collateral.supply
  /\ b.pt.provider + b.pt.other = b.pt.supply
  /\ b.dr.provider + b.dr.buyer + b.dr.pool = b.dr.supply
  /\ b.quote.provider + b.quote.buyer + b.quote.pool = ControlledTotal

\* assertPrefinalBacking
Backed(b) ==
  /\ Conserved(b)
  /\ b.collateral.vault = b.pt.supply
  /\ b.pt.supply = b.dr.supply

\* assertSwapDelta: the exact change, and nothing else changed.
SwapDelta(before, after, x) ==
  /\ x.output >= x.minimum
  /\ after = [before EXCEPT !.dr.buyer = @ + x.output, !.dr.pool = @ - x.output,
                            !.quote.buyer = @ - BuyerQuote, !.quote.pool = @ + BuyerQuote,
                            !.quote.protocol = @ + x.protocol, !.quote.fund = @ + x.fund]
  /\ Conserved(before)
  /\ Conserved(after)

\* What recombining n pairs does, on the chain and in assertRecombineDelta.
Recombined(b, n) ==
  [b EXCEPT !.collateral.provider = @ + n, !.collateral.vault = @ - n,
            !.pt.provider = @ - n, !.pt.supply = @ - n,
            !.dr.provider = @ - n, !.dr.supply = @ - n]

\* assertRecombineDelta
RecombineDelta(before, after, n) == n > 0 /\ after = Recombined(before, n)

\* assertWithdrawBoundary
WithdrawBoundary(b) ==
  /\ b.lp.provider = 0 /\ b.lp.mint = 0
  /\ b.lp.internal = LockedLp
  /\ b.dr.pool > 0 /\ b.quote.pool > 0

\* feeExcluded
FeeExcluded(side) == side.pool - side.protocol - side.fund

\* What one side of the pool keeps for the locked LP, fees included.
Residual(side, internal) ==
  CeilDiv(LockedLp * FeeExcluded(side), internal) + side.protocol + side.fund

\* assertSoleProviderWithdrawal
SoleProviderWithdrawal(before, after) ==
  LET drOut == before.dr.pool - after.dr.pool
      quoteOut == before.quote.pool - after.quote.pool
  IN  /\ before.lp.provider > 0
      /\ before.lp.mint = before.lp.provider
      /\ before.lp.internal = before.lp.provider + LockedLp
      /\ WithdrawBoundary(after)
      /\ FeeExcluded(before.dr) >= 0 /\ FeeExcluded(before.quote) >= 0
      /\ after.dr.pool = Residual(before.dr, before.lp.internal)
      /\ after.quote.pool = Residual(before.quote, before.lp.internal)
      /\ after = [before EXCEPT !.dr.provider = @ + drOut, !.dr.pool = @ - drOut,
                                !.quote.provider = @ + quoteOut, !.quote.pool = @ - quoteOut,
                                !.lp = [provider |-> 0, mint |-> 0, internal |-> LockedLp]]
      /\ Conserved(after)

-----------------------------------------------------------------------------
(* The pool program, and the quote the code computes for it. *)

\* The curve: what `amount` of one side buys of the other, and the fees it pays.
Curve(amount, inSide, outSide) ==
  LET trade == CeilDiv(amount * TradeFeeRate, FeeRateDenominator)
      net == amount - trade
  IN  [output |-> (net * FeeExcluded(outSide)) \div (FeeExcluded(inSide) + net),
       protocol |-> (trade * ProtocolFeeRate) \div FeeRateDenominator,
       fund |-> (trade * FundFeeRate) \div FeeRateDenominator]

\* minimumOutput
MinimumOutput(expected) == (expected * (10000 - SlippageBps)) \div 10000

\* quoteCreatorDisabledSwap over the reserves of a read
SwapQuote(b) ==
  LET c == Curve(BuyerQuote, b.quote, b.dr)
  IN  [output |-> c.output, minimum |-> MinimumOutput(c.output),
       protocol |-> c.protocol, fund |-> c.fund]

\* The condition under which quoteCreatorDisabledSwap returns a quote.
QuotesSwap(b) ==
  /\ FeeExcluded(b.quote) > 0 /\ FeeExcluded(b.dr) > 0
  /\ SwapQuote(b).output > 0
  /\ SwapQuote(b).minimum > 0

\* createPool: the geometric mean is the LP supply, LockedLp of it never minted.
PoolCreated(b, seedDr) ==
  LET internal == SquareRoot(seedDr * SeedQuote)
  IN  [b EXCEPT !.dr.provider = @ - seedDr, !.dr.pool = seedDr,
                !.quote.provider = @ - SeedQuote, !.quote.pool = SeedQuote,
                !.lp = [provider |-> internal - LockedLp, mint |-> internal - LockedLp,
                        internal |-> internal]]

\* The LP units that the SDK asks for an input of `amount` DR at zero slippage.
LpFor(b, amount) == (amount * b.lp.internal) \div FeeExcluded(b.dr)

\* What `lp` new units cost on one side.
DepositCost(b, side, lp) == CeilDiv(lp * FeeExcluded(side), b.lp.internal)

LiquidityAdded(b, lp) ==
  LET dr == DepositCost(b, b.dr, lp)
      quote == DepositCost(b, b.quote, lp)
  IN  [b EXCEPT !.dr.provider = @ - dr, !.dr.pool = @ + dr,
                !.quote.provider = @ - quote, !.quote.pool = @ + quote,
                !.lp.provider = @ + lp, !.lp.mint = @ + lp, !.lp.internal = @ + lp]

\* The buyer's swap as the pool executes it on the balances it finds.
Swapped(b) ==
  LET c == Curve(BuyerQuote, b.quote, b.dr)
  IN  [b EXCEPT !.dr.buyer = @ + c.output, !.dr.pool = @ - c.output,
                !.quote.buyer = @ - BuyerQuote, !.quote.pool = @ + BuyerQuote,
                !.quote.protocol = @ + c.protocol, !.quote.fund = @ + c.fund]

\* What burning `lp` units pays on one side.
WithdrawalOf(b, side, lp) == (lp * FeeExcluded(side)) \div b.lp.internal

LiquidityRemoved(b, lp) ==
  LET dr == WithdrawalOf(b, b.dr, lp)
      quote == WithdrawalOf(b, b.quote, lp)
  IN  [b EXCEPT !.dr.provider = @ + dr, !.dr.pool = @ - dr,
                !.quote.provider = @ + quote, !.quote.pool = @ - quote,
                !.lp.provider = @ - lp, !.lp.mint = @ - lp, !.lp.internal = @ - lp]

=============================================================================
