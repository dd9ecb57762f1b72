-------------------------- MODULE AnnualReference ---------------------------
(***************************************************************************)
(* The executable reference of annual accounting                           *)
(* (packages/sdk/src/annual-reference.ts): one AnnualReferenceModel, its   *)
(* accounts, its journal of dividend events and its custody, and the calls *)
(* a test or a page makes on it in any order and at any claimed time.  A   *)
(* call that throws changes nothing and is not a step.                     *)
(*                                                                         *)
(* A multiplier is a decimal string, here the number of its digits without *)
(* the point and the number of digits after it; U64_MAX is MaxRaw.         *)
(***************************************************************************)
EXTENDS Integers, FiniteSets, Folds, TLC

CONSTANTS
  Accounts,        \* accountIds of the constructor
  EventIds,
  Payloads,        \* what an event record can say, its id and revision apart
  Amounts,         \* raw amounts a call passes
  Times,           \* nowSeconds a call passes
  Year,            \* term.year
  Start, Maturity, \* startSeconds and maturitySeconds
  MaxRaw,          \* U64_MAX
  MaxEventIds,     \* MAX_EVENT_IDS
  MaxRevision      \* bound on revisions

ASSUME ReferenceAssumption ==
  /\ Cardinality(Accounts) >= 2
  /\ Amounts \subseteq 1..MaxRaw
  /\ Start < Maturity

VARIABLES
  accountable,     \* accountableRaw, Q
  supply,          \* ptSupplyRaw, drSupplyRaw
  burned,          \* externallyBurnedPtRaw, externallyBurnedDrRaw
  redeemed,        \* redeemedPtClaimsRaw, redeemedDrClaimsRaw
  actual,          \* actualCustodyRaw
  donations,       \* donationsRaw
  blocked,         \* custodyBlocked
  accounts,
  events,
  snapshot,
  remaining,       \* remainingPtPoolRaw, remainingDrPoolRaw
  drift            \* history: what reportActualCustody added or took

custodyVars == <<actual, donations, blocked, drift>>
claimVars == <<accountable, supply, burned, redeemed, accounts>>
finalVars == <<snapshot, remaining>>
vars == <<claimVars, custodyVars, events, finalVars>>

Sides == {"pt", "dr"}
Nothing == [s \in Sides |-> 0]
NoSnapshot == [final |-> FALSE]
Finalized == snapshot.final

-----------------------------------------------------------------------------
(* Rationals and dates.                                                    *)

\* gcd: Euclid's loop.
Gcd[a \in Nat, b \in Nat] == IF b = 0 THEN a ELSE Gcd[b, a % b]

\* reduce
Reduce(n, d) ==
  [numerator |-> n \div Gcd[n, d], denominator |-> d \div Gcd[n, d]]

ParsesPositiveDecimal(x) == x.digits > 0

\* parsePositiveDecimal of a string that passes it.
ParsePositiveDecimal(x) == Reduce(x.digits, 10^x.places)

Below(left, right) ==
  left.numerator * right.denominator < right.numerator * left.denominator

\* validCivilDate: the date survives a round trip through Date.UTC, which
\* takes a year below 100 for one of the last century.
ValidCivilDate(d) ==
  LET leap == d.year % 4 = 0 /\ (d.year % 100 # 0 \/ d.year % 400 = 0)
      last == CASE d.month \in {4, 6, 9, 11} -> 30
                [] d.month = 2 -> (IF leap THEN 29 ELSE 28)
                [] OTHER -> 31
  IN  d.year >= 100 /\ d.month \in 1..12 /\ d.day \in 1..last

NoDate == [year |-> 0, month |-> 0, day |-> 0]      \* exDate null

-----------------------------------------------------------------------------
(* What the calls share.                                                   *)

\* addU64 and checkedRaw with zero allowed.
FitsRaw(n) == n \in 0..MaxRaw

Obligation ==
  IF Finalized THEN remaining["pt"] + remaining["dr"] ELSE accountable

\* custody.deficitRaw of getState.
Deficit == IF Obligation > actual THEN Obligation - actual ELSE 0

\* requireCustodyAvailable(true)
CustodyAvailable == ~blocked /\ actual >= Obligation

\* validateEvent: the series' own chain, issuer and mint, a real date or none,
\* positive multipliers, and no decrease but in quarantine.
ValidEvent(p) ==
  /\ p.own
  /\ (p.exDate # NoDate => ValidCivilDate(p.exDate))
  /\ ParsesPositiveDecimal(p.m0) /\ ParsesPositiveDecimal(p.m1)
  /\ (Below(ParsePositiveDecimal(p.m1), ParsePositiveDecimal(p.m0))
        => p.status \in {"pending", "unsupported"})

\* The events currentIndex multiplies.
Counted ==
  {e \in DOMAIN events : /\ events[e].exDate # NoDate
                         /\ events[e].exDate.year = Year
                         /\ events[e].status = "qualified"}

\* currentIndex: the reduced product of m0 / m1.
CurrentIndex ==
  LET times(e, index) ==
        LET m0 == ParsePositiveDecimal(events[e].m0)
            m1 == ParsePositiveDecimal(events[e].m1)
        IN  Reduce(index.numerator * m0.numerator * m1.denominator,
                   index.denominator * m0.denominator * m1.numerator)
  IN  MapThenFoldSet(times, [numerator |-> 1, denominator |-> 1],
                     LAMBDA e : e, LAMBDA s : CHOOSE e \in s : TRUE, Counted)

\* previewAllocation before finalization.
PreviewAllocation ==
  LET index == CurrentIndex
      dr == (accountable * (index.denominator - index.numerator)) \div index.denominator
  IN  [accountable |-> accountable, index |-> index,
       pool |-> [s \in Sides |-> IF s = "dr" THEN dr ELSE accountable - dr]]

\* Mutant: every redemption is floored on its own.
PayoutAlone(side, amount) ==
  IF snapshot.denominator = 0 THEN 0
  ELSE (amount * snapshot.pool[side]) \div snapshot.denominator

\* previewRedemption of a held amount of a finalized series.
Payout(side, amount) ==
  IF snapshot.denominator = 0 THEN 0
  ELSE ((redeemed[side] + amount) * snapshot.pool[side]) \div snapshot.denominator
       - (redeemed[side] * snapshot.pool[side]) \div snapshot.denominator

-----------------------------------------------------------------------------
(* The calls.                                                              *)

\* the constructor
Init ==
  /\ accountable = 0
  /\ supply = Nothing /\ burned = Nothing /\ redeemed = Nothing
  /\ actual = 0 /\ donations = 0 /\ blocked = FALSE /\ drift = 0
  /\ accounts = [a \in Accounts |-> [collateral |-> 0, pt |-> 0, dr |-> 0]]
  /\ events = <<>>
  /\ snapshot = NoSnapshot
  /\ remaining = Nothing

\* deposit: every sum is checked before the first assignment.
Deposit(a, amount, now) ==
  /\ ~Finalized /\ now < Start /\ CustodyAvailable
  /\ FitsRaw(accountable + amount)
  /\ \A s \in Sides : FitsRaw(supply[s] + amount) /\ FitsRaw(accounts[a][s] + amount)
  /\ FitsRaw(actual + amount)
  /\ accountable' = accountable + amount
  /\ supply' = [s \in Sides |-> supply[s] + amount]
  /\ actual' = actual + amount
  /\ accounts' = [accounts EXCEPT ![a].pt = @ + amount, ![a].dr = @ + amount]
  /\ UNCHANGED <<burned, redeemed, donations, blocked, drift, events, finalVars>>

\* recordEvent: a new id, or a strictly higher revision of a known one.  The
\* same record again is answered 'idempotent' and is a stutter.
RecordEvent(e, revision, p) ==
  /\ ~Finalized /\ ValidEvent(p)
  /\ IF e \in DOMAIN events THEN revision > events[e].revision
     ELSE Cardinality(DOMAIN events) < MaxEventIds
  /\ events' = [x \in DOMAIN events \union {e} |->
                  IF x = e THEN [revision |-> revision] @@ p ELSE events[x]]
  /\ UNCHANGED <<claimVars, custodyVars, finalVars>>

\* transfer, before and after finalization.
Transfer(from, to, side, amount) ==
  /\ from # to
  /\ accounts[from][side] >= amount
  /\ FitsRaw(accounts[to][side] + amount)
  /\ accounts' = [accounts EXCEPT ![from][side] = @ - amount, ![to][side] = @ + amount]
  /\ UNCHANGED <<accountable, supply, burned, redeemed, custodyVars, events, finalVars>>

\* recombine
Recombine(a, amount) ==
  /\ ~Finalized
  /\ \A s \in Sides : accounts[a][s] >= amount
  /\ CustodyAvailable
  /\ FitsRaw(accounts[a].collateral + amount)
  /\ accounts' = [accounts EXCEPT ![a] = [collateral |-> @.collateral + amount,
                                          pt |-> @.pt - amount, dr |-> @.dr - amount]]
  /\ supply' = [s \in Sides |-> supply[s] - amount]
  /\ accountable' = accountable - amount
  /\ actual' = actual - amount
  /\ UNCHANGED <<burned, redeemed, donations, blocked, drift, events, finalVars>>

\* burn: claims destroyed outside the series, which leaves Q and S alone.
Burn(a, side, amount) ==
  /\ accounts[a][side] >= amount
  /\ accounts' = [accounts EXCEPT ![a][side] = @ - amount]
  /\ supply' = [supply EXCEPT ![side] = @ - amount]
  /\ burned' = [burned EXCEPT ![side] = @ + amount]
  /\ UNCHANGED <<accountable, redeemed, custodyVars, events, finalVars>>

\* finalize
Finalize(now, complete) ==
  /\ ~Finalized
  /\ now >= Maturity
  /\ complete
  /\ \A e \in DOMAIN events : /\ events[e].exDate # NoDate
                              /\ events[e].finalized
                              /\ events[e].status \notin {"pending", "unsupported"}
  /\ CustodyAvailable
  /\ snapshot' = [final |-> TRUE, denominator |-> accountable] @@ PreviewAllocation
  /\ remaining' = PreviewAllocation.pool
  /\ UNCHANGED <<claimVars, custodyVars, events>>

\* redeem
Redeem(a, side, amount, allowZero) ==
  /\ Finalized
  /\ accounts[a][side] >= amount
  /\ LET payout == Payout(side, amount)
     IN  /\ (payout = 0 => allowZero)
         /\ CustodyAvailable
         /\ FitsRaw(accounts[a].collateral + payout)
         /\ payout <= remaining[side]
         /\ accounts' = [accounts EXCEPT ![a][side] = @ - amount, ![a].collateral = @ + payout]
         /\ supply' = [supply EXCEPT ![side] = @ - amount]
         /\ redeemed' = [redeemed EXCEPT ![side] = @ + amount]
         /\ remaining' = [remaining EXCEPT ![side] = @ - payout]
         /\ actual' = actual - payout
  /\ UNCHANGED <<accountable, burned, donations, blocked, drift, events, snapshot>>

\* donate
Donate(amount) ==
  /\ FitsRaw(actual + amount) /\ FitsRaw(donations + amount)
  /\ actual' = actual + amount
  /\ donations' = donations + amount
  /\ UNCHANGED <<claimVars, blocked, drift, events, finalVars>>

\* setCustodyBlocked
SetCustodyBlocked(b) ==
  /\ blocked' = b
  /\ UNCHANGED <<claimVars, actual, donations, drift, events, finalVars>>

\* reportActualCustody
ReportActualCustody(n) ==
  /\ FitsRaw(n)
  /\ actual' = n
  /\ drift' = drift + n - actual
  /\ UNCHANGED <<claimVars, donations, blocked, events, finalVars>>

Next ==
  \/ \E a \in Accounts, n \in Amounts, now \in Times : Deposit(a, n, now)
  \/ \E e \in EventIds, r \in 0..MaxRevision, p \in Payloads : RecordEvent(e, r, p)
  \/ \E a, b \in Accounts, s \in Sides, n \in Amounts : Transfer(a, b, s, n)
  \/ \E a \in Accounts, n \in Amounts : Recombine(a, n)
  \/ \E a \in Accounts, s \in Sides, n \in Amounts : Burn(a, s, n)
  \/ \E now \in Times, complete \in BOOLEAN : Finalize(now, complete)
  \/ \E a \in Accounts, s \in Sides, n \in Amounts, z \in BOOLEAN : Redeem(a, s, n, z)
  \/ \E n \in Amounts : Donate(n)
  \/ \E b \in BOOLEAN : SetCustodyBlocked(b)
  \/ \E n \in Amounts \union {0} : ReportActualCustody(n)

Spec == Init /\ [][Next]_vars

-----------------------------------------------------------------------------
(* Properties.                                                             *)

Held(side) ==
  MapThenFoldSet(+, 0, LAMBDA a : accounts[a][side], LAMBDA s : CHOOSE a \in s : TRUE, Accounts)

TypeOK ==
  /\ {accountable, actual, donations} \subseteq 0..MaxRaw
  /\ {supply, burned, redeemed, remaining} \subseteq [Sides -> 0..MaxRaw]
  /\ accounts \in [Accounts -> [collateral : 0..MaxRaw, pt : 0..MaxRaw, dr : 0..MaxRaw]]
  /\ blocked \in BOOLEAN
  /\ DOMAIN events \subseteq EventIds

\* Every claim that was ever backed is held, redeemed or burned outside, and
\* the two sides stay equal in sum: pairs are made and unmade together, and
\* neither a transfer nor a burn changes what the series owes.
SupplyExact ==
  \A s \in Sides :
    /\ Held(s) = supply[s]
    /\ supply[s] + burned[s] + redeemed[s] = accountable

\* Custody holds what is owed, the donations and whatever an outside report
\* put there or took away, through every deposit, recombination and payout.
\* So a deficit is exactly what reports took, and no deposit or donation is
\* ever counted for a holder.
CustodyExact ==
  /\ actual = Obligation + donations + drift
  /\ Deficit > 0 <=> donations + drift < 0

\* burn and redeem assign before they have checked every sum; none of the
\* late checks can fail, so no call throws half-way and leaves half its work.
NoPartialFailure ==
  \A a \in Accounts, s \in Sides :
    /\ FitsRaw(burned[s] + accounts[a][s])
    /\ FitsRaw(redeemed[s] + accounts[a][s])
    /\ Finalized => \A n \in 1..accounts[a][s] : Payout(s, n) \in 0..remaining[s]

\* Reducing the index after every event is exact: the pools are those of the
\* product of the multipliers as they are written, and the dividend pool is a
\* part of the backing, whichever corrections the journal went through.
AllocationExact ==
  LET fold(f(_)) == MapThenFoldSet(LAMBDA e, n : f(e) * n, 1, LAMBDA e : e,
                                   LAMBDA s : CHOOSE e \in s : TRUE, Counted)
      before == fold(LAMBDA e : events[e].m0.digits * 10^events[e].m1.places)
      after == fold(LAMBDA e : events[e].m1.digits * 10^events[e].m0.places)
      pool == IF Finalized THEN snapshot.pool ELSE PreviewAllocation.pool
  IN  /\ before <= after
      /\ pool["dr"] = (accountable * (after - before)) \div after
      /\ pool["pt"] + pool["dr"] = accountable

\* When the last claim of a side that nobody burned outside has come in, its
\* pool is empty: however the claims were split, transferred and ordered,
\* rounding leaves nothing behind.
NothingStranded ==
  \A s \in Sides : (Finalized /\ supply[s] = 0 /\ burned[s] = 0) => remaining[s] = 0

\* The journal only moves forward: a record is replaced by a strictly later
\* revision or not at all, none is lost, and finalization closes it.
JournalForward ==
  /\ \A e \in DOMAIN events : /\ e \in DOMAIN events'
                              /\ events'[e] # events[e] => events'[e].revision > events[e].revision
  /\ Finalized => events' = events /\ snapshot' = snapshot

\* The reference keeps the promise of AnnualClaims, which the program's
\* AnnualSeries is also shown to keep: what conformance tests compare.
Claims == INSTANCE AnnualClaims WITH
  settled <- Finalized,
  backing <- accountable,
  pool <- IF Finalized THEN snapshot.pool ELSE Nothing,
  paid <- [s \in Sides |-> IF Finalized THEN snapshot.pool[s] - remaining[s] ELSE 0]
RefinesClaims == Claims!Spec

=============================================================================
