------------------------------- MODULE AmmFlow -------------------------------
(***************************************************************************)
(* The bounded Raydium round trip of packages/amm-integration/src/flow.ts, *)
(* run from its command line (cli.ts): prepare a fresh DividendX series,   *)
(* deposit 100 test stocks, seed a DR pool, add to it, let the buyer swap, *)
(* withdraw all liquidity and recombine what came back.  After each pool   *)
(* transaction the runner reads the pool and then the balances, asserts    *)
(* the exact change and keeps the balances as a checkpoint.                *)
(*                                                                         *)
(* The chain is public: between any two steps of the runner a stranger may *)
(* trade with the pool or send quote tokens to its accounts.  The runner   *)
(* may be killed at any point and started again on the same state          *)
(* directory; a transaction that it had sent may land later.               *)
(***************************************************************************)
EXTENDS CpmmLedger, Sequences, SequencesExt

CONSTANTS
  Circle,          \* TRUE: official devnet USDC, FALSE: a private quote mint
  SeedDr, AddDr,   \* DR put into the pool by the first and the second deposit
  StrangerQuote,   \* quote tokens that the stranger owns
  StrangerAmounts, \* amounts that the stranger moves at once
  MaxRuns          \* bound: starts of the command

ASSUME FlowAssumption ==
  /\ Circle \in BOOLEAN
  /\ {SeedDr, AddDr} \subseteq Nat \ {0}
  /\ StrangerQuote \in Nat
  /\ StrangerAmounts \subseteq Nat \ {0}
  /\ MaxRuns \in Nat

Deposit == SeedDr + AddDr

\* Transactions in the order of prepareDividendX and runAmmFlow.
Setup == <<"config", "mint">>
         \o (IF Circle THEN << >> ELSE <<"quoteMint">>)
         \o <<"register", "observe", "series", "providerAccounts", "buyerAccounts">>
         \o (IF Circle THEN <<"circle">> ELSE << >>)
         \o <<"deposit">>
PoolSteps == <<"create", "add", "swap", "withdraw", "recombine">>
Steps == Setup \o PoolSteps

VARIABLES
  made,        \* accounts that exist on the chain
  bal,         \* the balances, as a coherent read would return them
  stranger,    \* what the stranger holds: [quote, dr]
  adminPaid,   \* quote tokens that left the admin's account
  runs,        \* starts of the command so far
  phase,       \* of the current run; "failed": an assertion or a simulation
               \* refused, "refused": the environment did
  at,          \* index into Steps
  info,        \* the pool as getPoolInfoFromRpc last returned it
  checkpoints, \* step name -> balances
  flying       \* transactions sent but not landed: [run, tx]

vars == <<made, bal, stranger, adminPaid, runs, phase, at, info, checkpoints, flying>>

-----------------------------------------------------------------------------
(* The chain. *)

\* Accounts a transaction creates; it fails when one of them exists.  The
\* config is created only when absent, and token accounts idempotently.
Creates(step) == CASE step = "config" -> {"config"}
                   [] step = "mint" -> {"mint"}
                   [] step = "quoteMint" -> {"quoteMint"}
                   [] step = "register" -> {"policy"}
                   [] step = "series" -> {"series"}
                   [] step = "create" -> {"pool"}
                   [] OTHER -> {}

\* Accounts a transaction needs.
Needs(step) == CASE step = "register" -> {"mint"}
                 [] step \in {"observe", "series"} -> {"policy"}
                 [] step \in {"providerAccounts", "buyerAccounts", "circle", "deposit"} -> {"series"}
                 [] step = "create" -> {"series"}
                 [] step \in {"add", "swap", "withdraw"} -> {"pool"}
                 [] OTHER -> {}

\* The balances after a transaction that the programs accept.
Effect(tx, b) ==
  CASE tx.step = "providerAccounts" ->
         [b EXCEPT !.collateral.provider = @ + Deposit, !.collateral.supply = @ + Deposit,
                   !.quote.provider = @ + (IF Circle THEN 0 ELSE SeedQuote + AddQuote)]
    [] tx.step = "buyerAccounts" ->
         [b EXCEPT !.quote.buyer = @ + (IF Circle THEN 0 ELSE BuyerQuote)]
    [] tx.step = "circle" ->
         [b EXCEPT !.quote.provider = @ + SeedQuote + AddQuote, !.quote.buyer = @ + BuyerQuote]
    [] tx.step = "deposit" ->
         [b EXCEPT !.collateral.provider = @ - Deposit, !.collateral.vault = @ + Deposit,
                   !.pt.provider = @ + Deposit, !.pt.supply = @ + Deposit,
                   !.dr.provider = @ + Deposit, !.dr.supply = @ + Deposit]
    [] tx.step = "create" -> PoolCreated(b, SeedDr)
    [] tx.step = "add" -> LiquidityAdded(b, tx.lp)
    [] tx.step = "swap" -> Swapped(b)
    [] tx.step = "withdraw" -> LiquidityRemoved(b, tx.lp)
    [] tx.step = "recombine" -> Recombined(b, tx.pairs)
    [] OTHER -> b

\* What the programs check besides the accounts: balances and the bounds that
\* the instruction carries.
Possible(tx, b) ==
  CASE tx.step = "deposit" -> b.collateral.provider >= Deposit
    [] tx.step = "create" -> b.dr.provider >= SeedDr /\ b.quote.provider >= SeedQuote
    [] tx.step = "add" -> /\ DepositCost(b, b.dr, tx.lp) <= tx.maxDr
                          /\ DepositCost(b, b.quote, tx.lp) <= tx.maxQuote
                          /\ b.quote.provider >= tx.maxQuote
    [] tx.step = "swap" -> /\ Curve(BuyerQuote, b.quote, b.dr).output >= tx.minDr
                           /\ b.quote.buyer >= BuyerQuote
    [] tx.step = "withdraw" -> /\ WithdrawalOf(b, b.dr, tx.lp) >= tx.minDr
                               /\ WithdrawalOf(b, b.quote, tx.lp) >= tx.minQuote
    [] tx.step = "recombine" -> b.dr.provider >= tx.pairs /\ b.pt.provider >= tx.pairs
    [] OTHER -> TRUE

Accepted(tx) ==
  /\ Creates(tx.step) \intersect made = {}
  /\ Needs(tx.step) \subseteq made
  /\ Possible(tx, bal)

\* Leaves the chain as it is.
ChainSame == UNCHANGED <<made, bal, adminPaid>>

Apply(tx) ==
  /\ made' = made \union Creates(tx.step)
  /\ bal' = Effect(tx, bal)
  /\ adminPaid' = adminPaid + (IF tx.step = "circle" THEN ControlledTotal ELSE 0)

-----------------------------------------------------------------------------
(* The runner. *)

Init ==
  /\ made = {} /\ bal = Empty
  /\ stranger = [quote |-> StrangerQuote, dr |-> 0]
  /\ adminPaid = 0
  /\ runs = 0 /\ phase = "off" /\ at = 1
  /\ info = Empty /\ checkpoints = [s \in {} |-> Empty]
  /\ flying = {}

\* cli main: signers of the state directory are loaded or created again.
StartRun ==
  /\ phase \in {"off", "failed", "refused", "receipt"}
  /\ runs < MaxRuns
  /\ runs' = runs + 1 /\ phase' = "fresh"
  /\ at' = 1 /\ info' = Empty /\ checkpoints' = [s \in {} |-> Empty]
  /\ UNCHANGED <<made, bal, stranger, adminPaid, flying>>

\* requireFreshRun
RunIsFresh ==
  /\ {"mint", "policy", "series"} \intersect made = {}
  /\ ~Circle => "quoteMint" \notin made

\* verifyCircleDevnetUsdcFunding: the recipients have no token account yet.
RecipientsFresh == Circle => bal.quote.provider = 0 /\ bal.quote.buyer = 0

\* The checks before the first transaction; budgets, program identities and
\* Raydium's configuration may refuse the run as well.
Preflight ==
  /\ phase = "fresh"
  /\ phase' \in (IF RunIsFresh /\ RecipientsFresh THEN {"send", "refused"} ELSE {"failed"})
  /\ UNCHANGED <<made, bal, stranger, adminPaid, runs, at, info, checkpoints, flying>>

Slipped(amount) == MinimumOutput(amount)

\* The transaction of a step, built from the last pool read and checkpoint.
\* The withdrawal's amounts come from the pool read, its LP from the
\* checkpoint; recombination takes the smaller of the two claim balances.
Built(step) ==
  LET last == IF step = "swap" THEN "add" ELSE IF step = "withdraw" THEN "swap" ELSE "withdraw"
      lpAdd == LpFor(info, AddDr)
      lpAll == checkpoints[last].lp.provider
      quote == SwapQuote(info)
  IN  CASE step = "add" -> [step |-> step, lp |-> lpAdd, maxDr |-> AddDr,
                            maxQuote |-> DepositCost(info, info.quote, lpAdd)]
        [] step = "swap" -> [step |-> step, minDr |-> quote.minimum]
        [] step = "withdraw" ->
             [step |-> step, lp |-> lpAll,
              minDr |-> Slipped(WithdrawalOf(info, info.dr, lpAll)),
              minQuote |-> Slipped(WithdrawalOf(info, info.quote, lpAll))]
        [] step = "recombine" ->
             [step |-> step, pairs |-> IF checkpoints[last].dr.provider < checkpoints[last].pt.provider
                                       THEN checkpoints[last].dr.provider
                                       ELSE checkpoints[last].pt.provider]
        [] OTHER -> [step |-> step]

\* The conditions under which building throws.
Builds(step) ==
  /\ step = "swap" => QuotesSwap(info)
  /\ step = "withdraw" => checkpoints["swap"].lp.provider > 0
  /\ step = "recombine" => /\ checkpoints["withdraw"].dr.provider > 0
                           /\ checkpoints["withdraw"].pt.provider > 0

\* simulateSendAndConfirm, up to sendRawTransaction: a simulation that the
\* chain refuses ends the run.  A config that exists already is only verified.
Send ==
  LET step == Steps[at] IN
  /\ phase = "send"
  /\ IF step = "config" /\ "config" \in made
     THEN /\ phase' = "send" /\ at' = at + 1
          /\ UNCHANGED flying
     ELSE IF Builds(step) /\ Accepted(Built(step))
     THEN /\ phase' = "sent"
          /\ flying' = flying \union {[run |-> runs, tx |-> Built(step)]}
          /\ UNCHANGED at
     ELSE phase' = "failed" /\ UNCHANGED <<at, flying>>
  /\ UNCHANGED <<made, bal, stranger, adminPaid, runs, info, checkpoints>>

\* A transaction is executed, by the chain as it is then, or expires.  The
\* config is a plain account creation.
Land(f) ==
  /\ flying' = flying \ {f}
  /\ \/ /\ Accepted(f.tx) /\ Apply(f.tx)
        /\ phase' = IF f.run = runs /\ phase = "sent" THEN "landed" ELSE phase
     \/ /\ ChainSame
        /\ phase' = IF f.run = runs /\ phase = "sent" THEN "refused" ELSE phase
  /\ UNCHANGED <<stranger, runs, at, info, checkpoints>>

\* confirmTransaction or getSignatureStatuses throws while the transaction may
\* still land: the run ends.
Unconfirmed ==
  /\ phase = "sent"
  /\ phase' = "refused"
  /\ UNCHANGED <<made, bal, stranger, adminPaid, runs, at, info, checkpoints, flying>>

\* Confirmed: setup steps go on; after Circle funding the three token accounts
\* are read and compared; pool steps read the pool first.
Confirm ==
  LET step == Steps[at] IN
  /\ phase = "landed"
  /\ IF step \in ToSet(PoolSteps)
     THEN phase' = "informed" /\ info' = bal /\ UNCHANGED at
     ELSE /\ UNCHANGED info
          /\ IF step = "circle" /\ ~(/\ bal.quote.provider = SeedQuote + AddQuote
                                     /\ bal.quote.buyer = BuyerQuote)
             THEN phase' = "failed" /\ UNCHANGED at
             ELSE phase' = "send" /\ at' = at + 1
  /\ UNCHANGED <<made, bal, stranger, adminPaid, runs, checkpoints, flying>>

\* The assertion after each pool step.
Checks(step, after) ==
  CASE step = "create" -> /\ after.dr.pool = SeedDr /\ after.quote.pool = SeedQuote
                          /\ Backed(after)
    [] step = "add" ->
         LET before == checkpoints["create"] IN
         /\ before.dr.provider - after.dr.provider = AddDr
         /\ before.quote.provider - after.quote.provider = AddQuote
         /\ after.dr.pool - before.dr.pool = AddDr
         /\ after.quote.pool - before.quote.pool = AddQuote
         /\ after.lp.provider > before.lp.provider
         /\ Backed(after)
    [] step = "swap" -> SwapDelta(checkpoints["add"], after, SwapQuote(checkpoints["info"]))
    [] step = "withdraw" -> SoleProviderWithdrawal(checkpoints["swap"], after)
    [] step = "recombine" ->
         /\ RecombineDelta(checkpoints["withdraw"], after, Built("recombine").pairs)
         /\ Backed(after)

\* One request returns the sixteen accounts.
ReadBalances == bal

\* readBalances and the assertion; the swap is compared with the quote that
\* was computed from the earlier pool read, kept under "info".  The last
\* checkpoint, within the budget, yields the receipt.
Checkpoint ==
  LET step == Steps[at] IN
  /\ phase = "informed"
  /\ IF Checks(step, ReadBalances)
     THEN /\ checkpoints' = (step :> ReadBalances) @@ ("info" :> info) @@ checkpoints
          /\ IF at < Len(Steps)
             THEN phase' = "send" /\ at' = at + 1
             ELSE phase' \in {"receipt", "refused"} /\ UNCHANGED at
     ELSE phase' = "failed" /\ UNCHANGED <<checkpoints, at>>
  /\ UNCHANGED <<made, bal, stranger, adminPaid, runs, info, flying>>

\* The process is killed.
Kill ==
  /\ phase \notin {"off", "receipt", "failed", "refused"}
  /\ runs < MaxRuns
  /\ phase' = "off"
  /\ UNCHANGED <<made, bal, stranger, adminPaid, runs, at, info, checkpoints, flying>>

-----------------------------------------------------------------------------
(* The stranger. *)

StrangerBuys(q) ==
  LET c == Curve(q, bal.quote, bal.dr) IN
  /\ "pool" \in made /\ q <= stranger.quote /\ FeeExcluded(bal.dr) > c.output
  /\ stranger' = [quote |-> stranger.quote - q, dr |-> stranger.dr + c.output]
  /\ bal' = [bal EXCEPT !.dr.pool = @ - c.output, !.quote.pool = @ + q,
                        !.quote.protocol = @ + c.protocol, !.quote.fund = @ + c.fund]

StrangerSells ==
  LET c == Curve(stranger.dr, bal.dr, bal.quote) IN
  /\ "pool" \in made /\ stranger.dr > 0
  /\ stranger' = [quote |-> stranger.quote + c.output, dr |-> 0]
  /\ bal' = [bal EXCEPT !.dr.pool = @ + stranger.dr, !.quote.pool = @ - c.output,
                        !.dr.protocol = @ + c.protocol, !.dr.fund = @ + c.fund]

StrangerGives(q) ==
  /\ "series" \in made /\ q <= stranger.quote
  /\ stranger' = [stranger EXCEPT !.quote = @ - q]
  /\ \E to \in {"provider", "buyer"} \union (IF "pool" \in made THEN {"pool"} ELSE {}) :
       bal' = [bal EXCEPT !.quote[to] = @ + q]

Stranger ==
  /\ \/ \E q \in StrangerAmounts : StrangerBuys(q) \/ StrangerGives(q)
     \/ StrangerSells
  /\ UNCHANGED <<made, adminPaid, runs, phase, at, info, checkpoints, flying>>

-----------------------------------------------------------------------------

Next == \/ StartRun \/ Preflight \/ Send \/ Confirm \/ Checkpoint \/ Unconfirmed \/ Kill
        \/ Stranger \/ (\E f \in flying : Land(f))

Spec == Init /\ [][Next]_vars

-----------------------------------------------------------------------------
(* Properties. *)

TypeOK ==
  /\ made \subseteq {"config", "mint", "quoteMint", "policy", "series", "pool"}
  /\ stranger.quote \in Nat /\ stranger.dr \in Nat
  /\ \A side \in {bal.dr, bal.quote} : side.pool \in Nat /\ FeeExcluded(side) \in Nat
  /\ bal.dr.provider \in Nat /\ bal.quote.provider \in Nat /\ bal.quote.buyer \in Nat
  /\ runs \in 0..MaxRuns /\ at \in 1..Len(Steps)
  /\ phase \in {"off", "fresh", "send", "sent", "landed", "informed",
               "receipt", "failed", "refused"}
  /\ DOMAIN checkpoints \subseteq ToSet(PoolSteps) \union {"info"}

\* The round trip that nobody disturbs.
Undisturbed ==
  LET funded == Effect([step |-> "deposit"], [Empty EXCEPT
                  !.collateral.provider = Deposit, !.collateral.supply = Deposit,
                  !.quote.provider = SeedQuote + AddQuote, !.quote.buyer = BuyerQuote])
      seeded == PoolCreated(funded, SeedDr)
      added == LiquidityAdded(seeded, LpFor(seeded, AddDr))
      bought == Swapped(added)
      left == LiquidityRemoved(bought, bought.lp.provider)
  IN  [create |-> seeded, add |-> added, swap |-> bought, withdraw |-> left,
       recombine |-> Recombined(left, left.dr.provider)]

\* A receipt tells of a round trip that nobody disturbed: whatever a stranger
\* did between the reads, each checkpoint it lists is exactly the one of the
\* undisturbed trip.
ReceiptIsExact ==
  phase = "receipt" =>
    \A s \in ToSet(PoolSteps) : checkpoints[s] = Undisturbed[s]

\* Stocks are minted and quote tokens handed out once per state directory,
\* however often the command is killed and started again (README: the runner
\* "refuses a dirty fixture rather than minting/depositing twice").
FundedOnce ==
  /\ bal.collateral.supply <= Deposit
  /\ adminPaid <= ControlledTotal
  /\ ~Circle => bal.quote.provider + bal.quote.buyer + bal.quote.pool <= ControlledTotal

\* The runner's own assertions never stop a first run that nobody disturbs:
\* the exact amounts they demand, residuals rounded for the locked LP included,
\* are the ones that the pool's rounding produces.
NoFalseAlarm ==
  phase = "failed" /\ runs = 1 => stranger # [quote |-> StrangerQuote, dr |-> 0]

=============================================================================
