---------------------------- MODULE GuardedQuotes ----------------------------
(***************************************************************************)
(* Holders who trade through the transaction SDK                           *)
(* (packages/transaction-sdk/src): the SDK reads every account of the      *)
(* series in one snapshot, decides on its own whether the program would    *)
(* accept the call, and returns a quote with a guard; the wallet submits   *)
(* the call any time later, after anybody else has acted.                  *)
(*                                                                         *)
(* The snapshot is one getMultipleAccounts answer, so it is a state of the *)
(* chain; that it may be old when the quote is made is the time a quote    *)
(* waits.  The SDK's own arithmetic (arithmetic.ts) is written out again   *)
(* here instead of taken from DividendMath.  The wording of errors and of  *)
(* the `reasons` of deriveEligibility is left out.                         *)
(***************************************************************************)
EXTENDS AnnualSeries

CONSTANTS
  Quoters,         \* holders that use the SDK
  Patience         \* longest validity a caller asks for

ASSUME QuoteAssumption == Quoters \subseteq Holders /\ Patience \in Nat

VARIABLE quote     \* the quote each of them waits to submit

quoteVars == <<vars, quote>>

NoGuard == [expected_state_version |-> 0, expiry |-> 0, minimum |-> 0]
NoQuote == [kind |-> "none", side |-> "pt", input |-> 0, output |-> 0, allow_zero |-> FALSE,
            guard |-> NoGuard]

QuoteInit == Init /\ quote = [h \in Quoters |-> NoQuote]

-----------------------------------------------------------------------------
(* What the SDK derives from a snapshot.                                   *)

\* fetchQuoteSnapshot with inspectMintProfile: the accounts exist, the mint is
\* supported and not paused, the vault and the holder's account are usable.
SnapshotValid(h) ==
  /\ phase # "none"
  /\ mint.transferable
  /\ Vault \notin frozen
  /\ h \notin frozen

\* mintProfileMatchesPolicy
MintProfileMatchesPolicy ==
  /\ DecodesMultiplier(mint.current) /\ DecodesMultiplier(mint.new)
  /\ [current |-> mint.current, new |-> mint.new, effective |-> mint.effective,
      active |-> IF now >= mint.effective THEN mint.new ELSE mint.current] = asset.scale
  /\ mint.controls = asset.controls

\* requiredCustodyRaw's consistency checks on a finalized series ...
SeriesConsistent ==
  phase = "finalized" =>
    IF final_supply = 0
    THEN \A s \in Sides : pool[s] = 0 /\ redeemed[s] = 0 /\ paid[s] = 0
    ELSE /\ pool["pt"] + pool["dr"] = final_supply
         /\ \A s \in Sides :
              /\ redeemed[s] <= final_supply
              /\ paid[s] <= pool[s]
              /\ paid[s] = (redeemed[s] * pool[s]) \div final_supply

\* ... and what it returns.
RequiredCustodyRaw ==
  IF phase # "finalized" THEN nominal_backing
  ELSE pool["pt"] - paid["pt"] + pool["dr"] - paid["dr"]

\* custodySnapshot
CustodyHealthy == SeriesConsistent /\ vault >= RequiredCustodyRaw

\* Mutant: an in-year dividend that is resolved no longer closes funding.
DepositsOpenResolved ==
  /\ phase = "open" /\ now < Start
  /\ asset.admission_enabled
  /\ now <= asset.valid_until /\ asset.evidence
  /\ journal.unresolved_count = 0
  /\ MintProfileMatchesPolicy
  /\ CustodyHealthy

\* depositsOpen of deriveEligibility.
DepositsOpen ==
  /\ phase = "open" /\ now < Start
  /\ asset.admission_enabled
  /\ now <= asset.valid_until /\ asset.evidence
  /\ journal.unresolved_count = 0 /\ journal.in_year_qualified_count = 0
  /\ MintProfileMatchesPolicy
  /\ CustodyHealthy

\* Mutant: the cumulative payout is rounded up.
CumulativeRedemptionPayoutCeiling(side, amount) ==
  ((redeemed[side] + amount) * pool[side] + final_supply - 1) \div final_supply
    - (redeemed[side] * pool[side] + final_supply - 1) \div final_supply

\* cumulativeRedemptionPayout
CumulativeRedemptionPayout(side, amount) ==
  ((redeemed[side] + amount) * pool[side]) \div final_supply
    - (redeemed[side] * pool[side]) \div final_supply

\* The conditions of quoteDeposit, quoteRecombine and quoteRedemption.
QuotesDeposit(h, amount) ==
  /\ SnapshotValid(h)
  /\ amount <= collateral[h]
  /\ DepositsOpen

QuotesRecombine(h, amount) ==
  /\ SnapshotValid(h)
  /\ amount <= claims["pt"][h] /\ amount <= claims["dr"][h]
  /\ phase # "finalized"
  /\ CustodyHealthy
  /\ amount <= nominal_backing

QuotesRedemption(h, side, amount, allow_zero) ==
  /\ SnapshotValid(h)
  /\ amount <= claims[side][h]
  /\ phase = "finalized"
  /\ CustodyHealthy
  /\ final_supply # 0 /\ redeemed[side] + amount <= final_supply
  /\ CumulativeRedemptionPayout(side, amount) > 0 \/ allow_zero

-----------------------------------------------------------------------------

\* guard: the version of the snapshot, the caller's minimum and deadline.
QuoteGuard(minimum, expiry) ==
  [expected_state_version |-> state_version, expiry |-> expiry, minimum |-> minimum]

\* A caller may ask for less than the output, and for any deadline not past.
Hold(h, kind, side, amount, output, allow_zero) ==
  \E minimum \in 0..output, expiry \in now..(now + Patience) :
    quote' = [quote EXCEPT ![h] =
      [kind |-> kind, side |-> side, input |-> amount, output |-> output,
       allow_zero |-> allow_zero, guard |-> QuoteGuard(minimum, expiry)]]

QuoteDeposit(h, amount) ==
  /\ QuotesDeposit(h, amount)
  /\ Hold(h, "deposit", "pt", amount, amount, FALSE)
  /\ UNCHANGED vars

QuoteRecombine(h, amount) ==
  /\ QuotesRecombine(h, amount)
  /\ Hold(h, "recombine", "pt", amount, amount, FALSE)
  /\ UNCHANGED vars

QuoteRedemption(h, side, amount, allow_zero) ==
  /\ QuotesRedemption(h, side, amount, allow_zero)
  /\ Hold(h, "redeem", side, amount, CumulativeRedemptionPayout(side, amount), allow_zero)
  /\ UNCHANGED vars

\* HolderInstructionBuilder: a redemption without consent to zero needs a
\* positive minimum.
Builds(q) == q.kind = "redeem" /\ ~q.allow_zero => q.guard.minimum > 0

\* The instruction a quote stands for.
Instruction(h, q) ==
  \/ q.kind = "deposit" /\ Deposit(h, q.input, q.guard)
  \/ q.kind = "recombine" /\ Recombine(h, q.input, q.guard)
  \/ q.kind = "redeem" /\ Redeem(h, q.side, q.input, q.allow_zero, q.guard)

Submit(h) ==
  /\ Builds(quote[h])
  /\ Instruction(h, quote[h])
  /\ quote' = [quote EXCEPT ![h] = NoQuote]

Quoting ==
  \E h \in Quoters, amount \in Amounts :
    \/ QuoteDeposit(h, amount)
    \/ QuoteRecombine(h, amount)
    \/ \E side \in Sides, allow_zero \in BOOLEAN : QuoteRedemption(h, side, amount, allow_zero)

QuoteNext ==
  \/ Quoting
  \/ \E h \in Quoters : Submit(h)
  \/ Next /\ UNCHANGED quote

QuoteSpec == QuoteInit /\ [][QuoteNext]_quoteVars

-----------------------------------------------------------------------------
(* Properties.                                                             *)

\* The change of a holder's collateral and claims a quote announces.
Announced(h, q) ==
  CASE q.kind = "deposit" ->
         /\ collateral'[h] = collateral[h] - q.input
         /\ \A s \in Sides : claims'[s][h] = claims[s][h] + q.output
    [] q.kind = "recombine" ->
         /\ collateral'[h] = collateral[h] + q.output
         /\ \A s \in Sides : claims'[s][h] = claims[s][h] - q.input
    [] q.kind = "redeem" ->
         /\ collateral'[h] = collateral[h] + q.output
         /\ claims'[q.side][h] = claims[q.side][h] - q.input

\* A submitted quote gives exactly what it announced or nothing: however long it
\* waited and whoever acted meanwhile, the program never fills it at another
\* amount, not even above a minimum the caller set lower.
QuoteExact ==
  [][\A h \in Quoters :
       quote[h].kind # "none" /\ quote'[h].kind = "none" => Announced(h, quote[h])]_quoteVars

\* A quote is for the past or for the present: one that carries the current
\* version announces what the program would pay now.
QuoteCurrent ==
  \A h \in Quoters :
    LET q == quote[h]
    IN  q.kind # "none" =>
          /\ q.guard.expected_state_version <= state_version
          /\ q.guard.expected_state_version = state_version =>
               q.output = IF q.kind = "redeem"
                          THEN RedemptionPayout(redeemed[q.side], q.input, pool[q.side], final_supply)
                          ELSE q.input

\* The two implementations agree: in every reachable state the SDK quotes exactly
\* the calls the program accepts, for deposits, recombinations and redemptions.
ClientAgrees ==
  \A h \in Quoters, amount \in Amounts :
    LET guard == QuoteGuard(amount, now)
    IN  /\ nominal_backing + amount <= MaxRaw =>
             (QuotesDeposit(h, amount) <=> DepositAccepted(h, amount, guard))
        /\ QuotesRecombine(h, amount) <=> RecombineAccepted(h, amount, guard)
        /\ \A side \in Sides, allow_zero \in BOOLEAN :
             QuotesRedemption(h, side, amount, allow_zero) <=>
               RedeemAccepted(h, side, amount, allow_zero, QuoteGuard(0, now))

\* A quote to leave is honoured: while its version is current and its deadline
\* not past, only the holder, by moving the claims away, and the issuer, by
\* pausing, freezing or taking collateral, can make its submission fail.
ExitQuoteHonoured ==
  \A h \in Quoters :
    LET q == quote[h]
    IN  /\ q.kind \in {"recombine", "redeem"} /\ Builds(q)
        /\ q.guard.expected_state_version = state_version
        /\ now <= q.guard.expiry
        /\ SnapshotValid(h) /\ vault >= RequiredCustodyRaw
        /\ \A s \in (IF q.kind = "redeem" THEN {q.side} ELSE Sides) : q.input <= claims[s][h]
        => /\ q.kind = "recombine" => RecombineAccepted(h, q.input, q.guard)
           /\ q.kind = "redeem" =>
                RedeemAccepted(h, q.side, q.input, q.allow_zero, q.guard)

=============================================================================
