---------------------------- MODULE AnnualSeries ----------------------------
(***************************************************************************)
(* The DividendX program for one collateral asset and one annual series    *)
(* (programs/dividendx/src/instructions/handlers.rs).  A series takes      *)
(* collateral into a vault before its year starts and mints equal          *)
(* quantities of PT and DR claims; an attestor journals the dividends of   *)
(* the year; after maturity the journal is sealed, folded into one exact   *)
(* ratio, and the backing is split into a PT and a DR pool from which the  *)
(* two sides redeem independently.                                         *)
(*                                                                         *)
(* One action per instruction.  A Solana instruction is atomic: either all *)
(* of its requirements hold and all of its writes happen, or nothing does, *)
(* so a requirement is a conjunct and a failed call is no step.  What the  *)
(* program does not control - the clock, the issuer of the collateral      *)
(* mint, and holders using the token programs directly - are actions too.  *)
(*                                                                         *)
(* Abstractions: unix_timestamp and slot advance together as `now`;        *)
(* 32-byte digests, addresses and the mint's extension data are model      *)
(* values; a hash is the tuple of what it hashes (collision freedom).      *)
(***************************************************************************)
EXTENDS DividendMath, FiniteSets

CONSTANTS
  Holders,         \* wallets that can hold collateral and claims
  Vault,           \* the series' collateral account
  Principals,      \* keys that may sign administrative instructions
  Admin,           \* the upgrade authority, recorded by initialize_config
  Events,          \* event identifiers
  Payloads,        \* contents an event revision can have
  MaxRevision,     \* bound: greatest revision number submitted
  MaxEvents,       \* MAX_EVENTS
  Scales,          \* scale tuples the issuer may put on the mint
  ControlSets,     \* control fingerprints (authorities and extensions)
  NoControls,      \* the all-zero fingerprint
  IssuerActs,      \* which issuer powers the instance exercises
  WalletActs,      \* which direct token-program calls the instance exercises
  Start, Maturity, \* start_timestamp and maturity_timestamp of the year
  MaxTime,         \* bound: last instant of the clock
  Lifetime,        \* MAX_OBSERVATION_LIFETIME
  Amounts,         \* raw amounts callers ask for
  Endowment,       \* collateral each holder starts with
  MaxRaw,          \* u64::MAX for raw amounts
  MaxVersion       \* u64::MAX for state_version

ASSUME SeriesAssumption ==
  /\ Admin \in Principals
  /\ Vault \notin Holders
  /\ MaxRevision \in Nat /\ MaxEvents \in Nat
  /\ Start \in Nat /\ Maturity \in Nat /\ Start < Maturity
  /\ MaxTime \in Nat /\ Lifetime \in Nat
  /\ Amounts \subseteq Nat \ {0}
  /\ Endowment \in Nat /\ MaxRaw \in Nat /\ MaxVersion \in Nat
  /\ Scales \subseteq [current: Nat, new: Nat, effective: Nat]
  /\ Scales # {} /\ ControlSets # {} /\ NoControls \notin ControlSets

\* Multipliers are u64 patterns.
ASSUME PayloadAssumption == \A p \in Payloads : p.m0_bits \in Nat /\ p.m1_bits \in Nat

VARIABLES
  now,             \* Clock::unix_timestamp
  configured,      \* the Config account exists
  asset,           \* the AssetPolicy account
  mint,            \* the Token-2022 collateral mint (issuer controlled)
  frozen,          \* collateral accounts the issuer has frozen
  phase,           \* SeriesPhase, "none" before create_series
  nominal_backing, \* Series::nominal_backing
  journal,         \* event_count, unresolved_count, ..., journal_hash
  heads,           \* EventHead accounts
  revisions,       \* EventRevision accounts
  seal,            \* the sealed_* fields of Series
  accumulator,     \* the Accumulator account
  final_supply, pool, redeemed, paid,
                   \* final_supply, {pt,dr}_pool, _redeemed_nominal, _paid
  state_version,   \* Series::state_version
  vault,           \* amount of the vault token account
  collateral,      \* collateral balance of each holder
  claims,          \* claim balance of each side and holder
  supply,          \* supply of each claim mint
  mint_authority,  \* TRUE while the series is the mint authority of a side
  donated, seized, burned
                   \* history: raw collateral sent straight to the vault, taken
                   \* by the issuer's delegate, claims burned outside redeem

clockVars == <<now, configured>>
mintVars == <<mint, frozen>>
journalVars == <<journal, heads, revisions>>
sealVars == <<seal, accumulator>>
poolVars == <<final_supply, pool, redeemed, paid>>
tokenVars == <<vault, collateral, claims, supply, mint_authority>>
historyVars == <<donated, seized, burned>>

vars == <<clockVars, asset, mintVars, phase, nominal_backing, journalVars,
          sealVars, poolVars, state_version, tokenVars, historyVars>>

-----------------------------------------------------------------------------
(* Event payloads.                                                         *)

\* A payload is the part of EventInput that counts: its status, its ex-date
\* ("unknown", "in_year" or "off_year"), both multipliers and source_final;
\* `observed` stands for original_effective_time and observed_slot.

\* validate_event_input: what makes an input acceptable at time t ...
ValidEventInput(p, t) ==
  IF p.status = "qualified"
  THEN /\ QualifiedFactor(p.m0_bits, p.m1_bits)
       /\ p.source_final => p.observed <= t
  ELSE p.m0_bits = 0 /\ p.m1_bits = 0

\* ... and the two booleans it returns.
Resolved(p) ==
  /\ p.status \in {"qualified", "confirmed_zero", "cancelled"}
  /\ p.source_final
  /\ p.ex_date # "unknown"

InYearQualified(p) ==
  /\ Resolved(p)
  /\ p.status = "qualified"
  /\ p.ex_date = "in_year"

\* hash_event_record and the journal hash chain.
GenesisHash == <<>>
RecordHash(e, r, p, previous) == <<previous, e, r, p>>
ChainHash(hash, record) == <<hash, record>>

-----------------------------------------------------------------------------
(* The mint profile.                                                       *)

\* The multiplier in force at time t.
ActiveBits(m, t) == IF t >= m.effective THEN m.new ELSE m.current

ScaleTuple(m, t) ==
  [current |-> m.current, new |-> m.new, effective |-> m.effective,
   active |-> ActiveBits(m, t)]

NoScale == [current |-> 0, new |-> 0, effective |-> 0, active |-> 0]

\* inspect_mint_for_exit succeeds: supported extensions, not paused, no active
\* transfer hook, accounts not frozen by default.
InspectsForExit == mint.transferable

\* inspect_mint succeeds: the same, and both multipliers decode.
InspectsMint ==
  /\ InspectsForExit
  /\ DecodesMultiplier(mint.current)
  /\ DecodesMultiplier(mint.new)

\* require_reviewed_profile.  observed_slot <= slot always holds: the slot of
\* an observation is in the past.
ReviewedProfile ==
  /\ asset.evidence
  /\ asset.valid_until >= now
  /\ InspectsMint
  /\ mint.controls = asset.controls
  /\ ScaleTuple(mint, now) = asset.scale

\* require_admission
Admitted == asset.admission_enabled /\ ReviewedProfile

\* Mutant: the version the caller saw is not compared.
GuardHoldsAnyVersion(guard, output) == now <= guard.expiry /\ output >= guard.minimum

\* check_guard: a caller's view of the series, its deadline and its minimum.
GuardHolds(guard, output) ==
  /\ guard.expected_state_version = state_version
  /\ now <= guard.expiry
  /\ output >= guard.minimum

\* Mutant: saturating_add for checked_add.
BumpStateVersionSaturating ==
  state_version' = IF state_version < MaxVersion THEN state_version + 1 ELSE state_version

\* bump_state_version, whose checked_add fails at the end of its range.
BumpStateVersion ==
  /\ state_version < MaxVersion
  /\ state_version' = state_version + 1

\* funding_journal_open
FundingJournalOpen ==
  journal.unresolved_count = 0 /\ journal.in_year_qualified_count = 0

\* Mutant: what was already paid is still counted.
RemainingObligationsGross == pool["pt"] + pool["dr"]

\* remaining_obligations
RemainingObligations == (pool["pt"] - paid["pt"]) + (pool["dr"] - paid["dr"])

\* validate_series_accounts and validate_exit_accounts: addresses hold by
\* construction, and only the issuer can take the vault out of Initialized.
VaultUsable == Vault \notin frozen

-----------------------------------------------------------------------------
(* Initial state: nothing deployed, a usable mint, endowed holders.        *)

NoHead == [live |-> FALSE, index |-> 0, latest_revision |-> 0, latest_record_hash |-> GenesisHash,
           latest_resolved |-> FALSE, latest_in_year_qualified |-> FALSE]

FreshAccumulator == [cursor |-> 0, numerator |-> 1, denominator |-> 1]

Unsealed == [journal_version |-> 0, journal_hash |-> GenesisHash, event_count |-> 0,
             scale |-> NoScale, controls |-> NoControls]

Init ==
  /\ now = 0
  /\ configured = FALSE
  /\ asset = [registered |-> FALSE, attestor |-> Admin, admission_enabled |-> FALSE,
              scale |-> NoScale, controls |-> NoControls, valid_until |-> 0, evidence |-> FALSE]
  /\ \E s \in Scales, c \in ControlSets :
       mint = [current |-> s.current, new |-> s.new, effective |-> s.effective,
               controls |-> c, transferable |-> TRUE]
  /\ frozen = {}
  /\ phase = "none"
  /\ nominal_backing = 0
  /\ journal = [event_count |-> 0, unresolved_count |-> 0, in_year_qualified_count |-> 0,
                version |-> 0, hash |-> GenesisHash]
  /\ heads = [e \in Events |-> NoHead]
  /\ revisions = {}
  /\ seal = Unsealed
  /\ accumulator = FreshAccumulator
  /\ final_supply = 0
  /\ pool = [s \in Sides |-> 0]
  /\ redeemed = [s \in Sides |-> 0]
  /\ paid = [s \in Sides |-> 0]
  /\ state_version = 0
  /\ vault = 0
  /\ collateral = [h \in Holders |-> Endowment]
  /\ claims = [s \in Sides |-> [h \in Holders |-> 0]]
  /\ supply = [s \in Sides |-> 0]
  /\ mint_authority = [s \in Sides |-> FALSE]
  /\ donated = 0
  /\ seized = 0
  /\ burned = [s \in Sides |-> 0]

-----------------------------------------------------------------------------
(* Configuration and the asset policy.                                     *)

InitializeConfig(signer) ==
  /\ signer = Admin
  /\ ~configured
  /\ configured' = TRUE
  /\ UNCHANGED <<now, asset, mintVars, phase, nominal_backing, journalVars, sealVars,
                 poolVars, state_version, tokenVars, historyVars>>

\* Registration records the mint's profile but no attestor evidence.
RegisterAsset(signer, attestor) ==
  /\ configured
  /\ signer = Admin
  /\ attestor # Admin
  /\ ~asset.registered
  /\ InspectsMint
  /\ asset' = [registered |-> TRUE, attestor |-> attestor, admission_enabled |-> TRUE,
               scale |-> ScaleTuple(mint, now), controls |-> mint.controls,
               valid_until |-> 0, evidence |-> FALSE]
  /\ UNCHANGED <<clockVars, mintVars, phase, nominal_backing, journalVars, sealVars,
                 poolVars, state_version, tokenVars, historyVars>>

SetAssetAdmission(signer, enabled) ==
  /\ asset.registered
  /\ signer = Admin
  /\ asset' = [asset EXCEPT !.admission_enabled = enabled]
  /\ UNCHANGED <<clockVars, mintVars, phase, nominal_backing, journalVars, sealVars,
                 poolVars, state_version, tokenVars, historyVars>>

RefreshObservation(signer, valid_until) ==
  /\ asset.registered
  /\ signer = asset.attestor
  /\ valid_until > now
  /\ valid_until <= now + Lifetime
  /\ InspectsMint
  /\ mint.controls = asset.controls
  /\ asset' = [asset EXCEPT !.scale = ScaleTuple(mint, now), !.valid_until = valid_until,
                            !.evidence = TRUE]
  /\ UNCHANGED <<clockVars, mintVars, phase, nominal_backing, journalVars, sealVars,
                 poolVars, state_version, tokenVars, historyVars>>

-----------------------------------------------------------------------------
(* Custody before finalization.                                            *)

\* mint_claim on the two claim mints.
MintPair(h, amount) ==
  /\ claims' = [s \in Sides |-> [claims[s] EXCEPT ![h] = @ + amount]]
  /\ supply' = [s \in Sides |-> supply[s] + amount]

\* Mutant: only the PT leg of a pair is burned.
BurnPtOnly(h, amount) ==
  /\ claims' = [claims EXCEPT !["pt"][h] = @ - amount]
  /\ supply' = [supply EXCEPT !["pt"] = @ - amount]

\* burn_claim does not fail: neither the holder nor the mint has too little.
Burns(h, side, amount) == amount <= claims[side][h] /\ amount <= supply[side]

\* burn_claim on the two claim mints.
BurnPair(h, amount) ==
  /\ claims' = [s \in Sides |-> [claims[s] EXCEPT ![h] = @ - amount]]
  /\ supply' = [s \in Sides |-> supply[s] - amount]

\* Mutant: the new balance is computed from the books instead of the account.
TransferFromBooks(h, amount) ==
  /\ vault' = nominal_backing - amount
  /\ collateral' = [collateral EXCEPT ![h] = @ + amount]

\* transfer_from_vault, signed by the series.
TransferFromVault(h, amount) ==
  /\ vault' = vault - amount
  /\ collateral' = [collateral EXCEPT ![h] = @ + amount]

\* create_series zeroes every counter; here they are zero since Init.
CreateSeries ==
  /\ asset.registered
  /\ phase = "none"
  /\ now < Start
  /\ Admitted
  /\ phase' = "open"
  /\ mint_authority' = [s \in Sides |-> TRUE]
  /\ UNCHANGED <<clockVars, asset, mintVars, nominal_backing, journalVars, sealVars, poolVars,
                 state_version, vault, collateral, claims, supply, historyVars>>

\* The conditions of deposit, its token transfer and its checked_add.
DepositAccepted(h, amount, guard) ==
  /\ amount > 0
  /\ GuardHolds(guard, amount)
  /\ phase = "open"
  /\ FundingJournalOpen
  /\ now < Start
  /\ Admitted
  /\ VaultUsable /\ h \notin frozen
  /\ vault >= nominal_backing
  /\ \A s \in Sides : mint_authority[s]
  /\ amount <= collateral[h]
  /\ nominal_backing + amount <= MaxRaw

Deposit(h, amount, guard) ==
  /\ DepositAccepted(h, amount, guard)
  /\ vault' = vault + amount
  /\ collateral' = [collateral EXCEPT ![h] = @ - amount]
  /\ MintPair(h, amount)
  /\ nominal_backing' = nominal_backing + amount
  /\ BumpStateVersion
  /\ UNCHANGED <<clockVars, asset, mintVars, phase, journalVars, sealVars, poolVars,
                 mint_authority, historyVars>>

\* The conditions of recombine, its burns and its token transfer.
RecombineAccepted(h, amount, guard) ==
  /\ amount > 0
  /\ GuardHolds(guard, amount)
  /\ phase \in {"open", "sealing"}
  /\ amount <= nominal_backing
  /\ InspectsForExit
  /\ VaultUsable /\ h \notin frozen
  /\ vault >= nominal_backing
  /\ \A s \in Sides : Burns(h, s, amount)
  /\ amount <= vault

\* The exit of a PT/DR pair: no admission, no observation, any time before
\* finalization.
Recombine(h, amount, guard) ==
  /\ RecombineAccepted(h, amount, guard)
  /\ BurnPair(h, amount)
  /\ TransferFromVault(h, amount)
  /\ nominal_backing' = nominal_backing - amount
  /\ BumpStateVersion
  /\ UNCHANGED <<clockVars, asset, mintVars, phase, journalVars, sealVars, poolVars,
                 mint_authority, historyVars>>

-----------------------------------------------------------------------------
(* The event journal.                                                      *)

\* The EventRevision account of an event's revision, empty before its write.
RevisionAccount(e, r) == {x \in revisions : x.event = e /\ x.revision = r}

\* A replay of the latest revision must match it and writes nothing.
ReplayRevision(e, r, p) ==
  /\ heads[e].live
  /\ r = heads[e].latest_revision
  /\ \E x \in RevisionAccount(e, r) :
       x.record_hash = heads[e].latest_record_hash /\ x.payload = p
  /\ UNCHANGED vars

\* Mutant: the class of the previous revision is not taken back.
ReclassifiedUpwards(count, was, is) == IF is THEN count + 1 ELSE count

\* A class counter after an event that was counted in it, or not, is written
\* again; and whether the checked_sub of the old class succeeds.
Reclassified(count, was, is) ==
  (IF was THEN count - 1 ELSE count) + (IF is THEN 1 ELSE 0)
CanReclassify(count, was) == was => count > 0

\* An event keeps the index it was given when it was first written.
EventIndex(head) == IF head.live THEN head.index ELSE journal.event_count

\* A first or a higher revision: it becomes the event's head, its class
\* replaces the previous revision's in the counters, and the journal grows.
AppendRevision(e, r, p) ==
  LET head     == heads[e]
      previous == IF head.live THEN head.latest_record_hash ELSE GenesisHash
      record   == RecordHash(e, r, p, previous)
      wasOpen  == head.live /\ ~head.latest_resolved
      wasIn    == head.live /\ head.latest_in_year_qualified
  IN  /\ IF head.live THEN r > head.latest_revision ELSE journal.event_count < MaxEvents
      /\ RevisionAccount(e, r) = {}
      /\ CanReclassify(journal.unresolved_count, wasOpen)
      /\ CanReclassify(journal.in_year_qualified_count, wasIn)
      /\ revisions' = revisions \cup
           {[event |-> e, revision |-> r, payload |-> p, record_hash |-> record]}
      /\ heads' = [heads EXCEPT ![e] =
           [live |-> TRUE,
            index |-> EventIndex(head),
            latest_revision |-> r,
            latest_record_hash |-> record,
            latest_resolved |-> Resolved(p),
            latest_in_year_qualified |-> InYearQualified(p)]]
      /\ journal' =
           [event_count |-> IF head.live THEN journal.event_count ELSE journal.event_count + 1,
            unresolved_count |->
              Reclassified(journal.unresolved_count, wasOpen, ~Resolved(p)),
            in_year_qualified_count |->
              Reclassified(journal.in_year_qualified_count, wasIn, InYearQualified(p)),
            version |-> journal.version + 1,
            hash |-> ChainHash(journal.hash, record)]
      /\ BumpStateVersion
      /\ UNCHANGED <<clockVars, asset, mintVars, phase, nominal_backing, sealVars, poolVars,
                     tokenVars, historyVars>>

\* Mutant: a sealed journal can still be revised.
UpsertEventUnsealed(signer, e, r, p) ==
  /\ phase \in {"open", "sealing"}
  /\ signer = asset.attestor
  /\ r > 0
  /\ ValidEventInput(p, now)
  /\ \/ ReplayRevision(e, r, p)
     \/ AppendRevision(e, r, p)

UpsertEvent(signer, e, r, p) ==
  /\ phase = "open"
  /\ signer = asset.attestor
  /\ r > 0
  /\ ValidEventInput(p, now)
  /\ \/ ReplayRevision(e, r, p)
     \/ AppendRevision(e, r, p)

-----------------------------------------------------------------------------
(* Finalization.                                                           *)

BeginFinalization(signer, expected_version, expected_hash) ==
  /\ phase = "open"
  /\ signer = asset.attestor
  /\ now >= Maturity
  /\ journal.unresolved_count = 0
  /\ journal.version = expected_version
  /\ journal.hash = expected_hash
  /\ ReviewedProfile
  /\ VaultUsable
  /\ vault >= nominal_backing
  /\ phase' = "sealing"
  /\ seal' = [journal_version |-> expected_version, journal_hash |-> expected_hash,
              event_count |-> journal.event_count,
              scale |-> ScaleTuple(mint, now), controls |-> mint.controls]
  /\ accumulator' = FreshAccumulator
  /\ BumpStateVersion
  /\ UNCHANGED <<clockVars, asset, mintVars, nominal_backing, journalVars, poolVars,
                 tokenVars, historyVars>>

\* Permissionless: a keeper folds in the event at the cursor.
AccumulateEvent(e) ==
  /\ phase = "sealing"
  /\ accumulator.cursor < seal.event_count
  /\ heads[e].live
  /\ heads[e].index = accumulator.cursor
  /\ \E x \in RevisionAccount(e, heads[e].latest_revision) :
       LET n == accumulator.numerator
           d == accumulator.denominator
           product == MultiplyRatio(n, d, x.payload.m0_bits, x.payload.m1_bits)
       IN  /\ x.record_hash = heads[e].latest_record_hash
           /\ IF heads[e].latest_in_year_qualified
              THEN /\ MultipliesRatio(n, d, x.payload.m0_bits, x.payload.m1_bits)
                   /\ accumulator' = [cursor |-> accumulator.cursor + 1,
                                      numerator |-> product.numerator,
                                      denominator |-> product.denominator]
              ELSE accumulator' = [accumulator EXCEPT !.cursor = @ + 1]
  /\ BumpStateVersion
  /\ UNCHANGED <<clockVars, asset, mintVars, phase, nominal_backing, journalVars, seal,
                 poolVars, tokenVars, historyVars>>

\* Mutant: one of the two authorities is left.
RevokePtAuthority == mint_authority' = [mint_authority EXCEPT !["pt"] = FALSE]

\* revoke_mint_authority on the two claim mints.
RevokeMintAuthority == mint_authority' = [s \in Sides |-> FALSE]

\* Permissionless: no freshness is required here, only that the mint still has
\* the profile that was sealed.
CompleteFinalization ==
  /\ phase = "sealing"
  /\ accumulator.cursor = seal.event_count
  /\ InspectsMint
  /\ mint.controls = seal.controls
  /\ mint.controls = asset.controls
  /\ ScaleTuple(mint, now) = seal.scale
  /\ VaultUsable
  /\ vault >= nominal_backing
  /\ \A s \in Sides : mint_authority[s]
  /\ SplitsPools(nominal_backing, accumulator.numerator, accumulator.denominator)
  /\ RevokeMintAuthority
  /\ final_supply' = nominal_backing
  /\ pool' = SplitPools(nominal_backing, accumulator.numerator, accumulator.denominator)
  /\ phase' = "finalized"
  /\ BumpStateVersion
  /\ UNCHANGED <<clockVars, asset, mintVars, nominal_backing, journalVars, sealVars,
                 redeemed, paid, vault, collateral, claims, supply, historyVars>>

AbortFinalization(signer) ==
  /\ phase = "sealing"
  /\ signer = asset.attestor
  /\ phase' = "open"
  /\ seal' = Unsealed
  /\ accumulator' = FreshAccumulator
  /\ BumpStateVersion
  /\ UNCHANGED <<clockVars, asset, mintVars, nominal_backing, journalVars, poolVars,
                 tokenVars, historyVars>>

-----------------------------------------------------------------------------
(* Redemption of one side.                                                 *)

\* The conditions of redeem, its burn and its token transfer.
RedeemAccepted(h, side, amount, allow_zero, guard) ==
  LET payout == RedemptionPayout(redeemed[side], amount, pool[side], final_supply)
  IN  /\ amount > 0
      /\ phase = "finalized"
      /\ InspectsForExit
      /\ VaultUsable /\ h \notin frozen
      /\ ~mint_authority[side]
      /\ RedemptionFits(redeemed[side], amount, final_supply)
      /\ GuardHolds(guard, payout)
      /\ payout > 0 \/ allow_zero
      /\ vault >= RemainingObligations
      /\ Burns(h, side, amount)
      /\ payout <= vault

Redeem(h, side, amount, allow_zero, guard) ==
  LET payout == RedemptionPayout(redeemed[side], amount, pool[side], final_supply)
  IN  /\ RedeemAccepted(h, side, amount, allow_zero, guard)
      /\ claims' = [claims EXCEPT ![side][h] = @ - amount]
      /\ supply' = [supply EXCEPT ![side] = @ - amount]
      /\ TransferFromVault(h, payout)
      /\ redeemed' = [redeemed EXCEPT ![side] = @ + amount]
      /\ paid' = [paid EXCEPT ![side] = @ + payout]
      /\ BumpStateVersion
      /\ UNCHANGED <<clockVars, asset, mintVars, phase, nominal_backing, journalVars,
                     sealVars, final_supply, pool, mint_authority, historyVars>>

-----------------------------------------------------------------------------
(* The environment: clock, issuer, and direct token-program calls.         *)

AdvanceClock ==
  /\ now < MaxTime
  /\ now' = now + 1
  /\ UNCHANGED <<configured, asset, mintVars, phase, nominal_backing, journalVars, sealVars,
                 poolVars, state_version, tokenVars, historyVars>>

UpdateScale(s) ==
  /\ "scale" \in IssuerActs
  /\ mint' = [mint EXCEPT !.current = s.current, !.new = s.new, !.effective = s.effective]
  /\ UNCHANGED <<clockVars, asset, frozen, phase, nominal_backing, journalVars, sealVars,
                 poolVars, state_version, tokenVars, historyVars>>

UpdateControls(c) ==
  /\ "controls" \in IssuerActs
  /\ mint' = [mint EXCEPT !.controls = c]
  /\ UNCHANGED <<clockVars, asset, frozen, phase, nominal_backing, journalVars, sealVars,
                 poolVars, state_version, tokenVars, historyVars>>

\* Pause, resume, or set a transfer hook or default frozen state.
SetTransferable(b) ==
  /\ "pause" \in IssuerActs
  /\ mint' = [mint EXCEPT !.transferable = b]
  /\ UNCHANGED <<clockVars, asset, frozen, phase, nominal_backing, journalVars, sealVars,
                 poolVars, state_version, tokenVars, historyVars>>

SetFrozen(accounts) ==
  /\ "freeze" \in IssuerActs
  /\ frozen' = accounts
  /\ UNCHANGED <<clockVars, asset, mint, phase, nominal_backing, journalVars, sealVars,
                 poolVars, state_version, tokenVars, historyVars>>

\* The permanent delegate of the mint takes collateral out of the vault.
Seize(amount) ==
  /\ "seize" \in IssuerActs
  /\ phase # "none"
  /\ amount > 0 /\ amount <= vault
  /\ vault' = vault - amount
  /\ seized' = seized + amount
  /\ UNCHANGED <<clockVars, asset, mintVars, phase, nominal_backing, journalVars, sealVars,
                 poolVars, state_version, collateral, claims, supply, mint_authority,
                 donated, burned>>

Donate(h, amount) ==
  /\ "donate" \in WalletActs
  /\ phase # "none"
  /\ amount > 0 /\ amount <= collateral[h]
  /\ mint.transferable /\ VaultUsable /\ h \notin frozen
  /\ vault' = vault + amount
  /\ collateral' = [collateral EXCEPT ![h] = @ - amount]
  /\ donated' = donated + amount
  /\ UNCHANGED <<clockVars, asset, mintVars, phase, nominal_backing, journalVars, sealVars,
                 poolVars, state_version, claims, supply, mint_authority, seized, burned>>

TransferClaim(from, to, side, amount) ==
  /\ "transfer" \in WalletActs
  /\ from # to
  /\ amount > 0 /\ amount <= claims[side][from]
  /\ claims' = [claims EXCEPT ![side] =
       [claims[side] EXCEPT ![from] = @ - amount, ![to] = @ + amount]]
  /\ UNCHANGED <<clockVars, asset, mintVars, phase, nominal_backing, journalVars, sealVars,
                 poolVars, state_version, vault, collateral, supply, mint_authority,
                 historyVars>>

BurnClaim(h, side, amount) ==
  /\ "burn" \in WalletActs
  /\ amount > 0 /\ amount <= claims[side][h] /\ amount <= supply[side]
  /\ claims' = [claims EXCEPT ![side][h] = @ - amount]
  /\ supply' = [supply EXCEPT ![side] = @ - amount]
  /\ burned' = [burned EXCEPT ![side] = @ + amount]
  /\ UNCHANGED <<clockVars, asset, mintVars, phase, nominal_backing, journalVars, sealVars,
                 poolVars, state_version, vault, collateral, mint_authority, donated, seized>>

-----------------------------------------------------------------------------

\* Every guard that passes has the same effect, so one stands for them all;
\* the module GuardedQuotes submits guards that were built earlier.
CurrentGuard == [expected_state_version |-> state_version, expiry |-> now, minimum |-> 0]

Administration ==
  \/ \E signer \in Principals :
       \/ InitializeConfig(signer)
       \/ \E attestor \in Principals : RegisterAsset(signer, attestor)
       \/ \E enabled \in BOOLEAN : SetAssetAdmission(signer, enabled)
       \/ \E valid_until \in now..(now + Lifetime) : RefreshObservation(signer, valid_until)
  \/ CreateSeries

Custody ==
  \E h \in Holders, amount \in Amounts :
    \/ Deposit(h, amount, CurrentGuard)
    \/ Recombine(h, amount, CurrentGuard)
    \/ \E side \in Sides, allow_zero \in BOOLEAN :
         Redeem(h, side, amount, allow_zero, CurrentGuard)

Attestation ==
  \E signer \in Principals :
    \/ \E e \in Events, r \in 1..MaxRevision, p \in Payloads : UpsertEvent(signer, e, r, p)
    \/ BeginFinalization(signer, journal.version, journal.hash)
    \/ AbortFinalization(signer)

Keeping ==
  \/ \E e \in Events : AccumulateEvent(e)
  \/ CompleteFinalization

Issuer ==
  \/ \E s \in Scales : UpdateScale(s)
  \/ \E c \in ControlSets : UpdateControls(c)
  \/ \E b \in BOOLEAN : SetTransferable(b)
  \/ \E accounts \in SUBSET (Holders \cup {Vault}) : SetFrozen(accounts)
  \/ \E amount \in Amounts : Seize(amount)

Wallets ==
  \E h \in Holders, amount \in Amounts :
    \/ Donate(h, amount)
    \/ \E side \in Sides :
         \/ BurnClaim(h, side, amount)
         \/ \E to \in Holders : TransferClaim(h, to, side, amount)

Next ==
  \/ Administration \/ Custody \/ Attestation \/ Keeping
  \/ AdvanceClock \/ Issuer \/ Wallets

Spec == Init /\ [][Next]_vars

-----------------------------------------------------------------------------
(* Properties.                                                             *)

Phases == {"none", "open", "sealing", "finalized"}
ScaleTuples == [current: Nat, new: Nat, effective: Nat, active: Nat]

\* Type invariant: amounts, counters and versions are naturals and every
\* account has the shape its struct in state.rs declares.
TypeOK ==
  /\ now \in Nat
  /\ configured \in BOOLEAN
  /\ asset \in [registered: BOOLEAN, attestor: Principals, admission_enabled: BOOLEAN,
                scale: ScaleTuples, controls: ControlSets \cup {NoControls},
                valid_until: Nat, evidence: BOOLEAN]
  /\ mint \in [current: Nat, new: Nat, effective: Nat, controls: ControlSets,
               transferable: BOOLEAN]
  /\ frozen \subseteq Holders \cup {Vault}
  /\ phase \in Phases
  /\ nominal_backing \in Nat
  /\ journal.event_count \in Nat /\ journal.unresolved_count \in Nat
  /\ journal.in_year_qualified_count \in Nat /\ journal.version \in Nat
  /\ DOMAIN heads = Events
  /\ \A e \in Events : heads[e].live \in BOOLEAN /\ heads[e].latest_resolved \in BOOLEAN
                         /\ heads[e].latest_in_year_qualified \in BOOLEAN
                         /\ heads[e].index \in Nat /\ heads[e].latest_revision \in Nat
  /\ seal.journal_version \in Nat /\ seal.event_count \in Nat /\ seal.scale \in ScaleTuples
  /\ seal.controls \in ControlSets \cup {NoControls}
  /\ accumulator \in [cursor: Nat, numerator: Nat, denominator: Nat]
  /\ final_supply \in Nat
  /\ pool \in [Sides -> Nat]
  /\ redeemed \in [Sides -> Nat]
  /\ paid \in [Sides -> Nat]
  /\ state_version \in Nat
  /\ vault \in Nat
  /\ collateral \in [Holders -> Nat]
  /\ claims \in [Sides -> [Holders -> Nat]]
  /\ supply \in [Sides -> Nat]
  /\ mint_authority \in [Sides -> BOOLEAN]
  /\ donated \in Nat /\ seized \in Nat
  /\ burned \in [Sides -> Nat]

\* Raw collateral the series owes: the whole backing before finalization, the
\* unpaid part of the final supply afterwards.
Owed ==
  IF phase = "finalized" THEN final_supply - paid["pt"] - paid["dr"] ELSE nominal_backing

\* Custody is exact: the vault holds what the series owes plus what was donated,
\* less what the issuer's delegate took.  No order of deposits, exits, journal
\* writes, aborted seals and redemptions moves collateral the books do not show.
CustodyExact == vault + seized = donated + Owed

\* Each claim mint's supply is the backing less what was redeemed or burned, on
\* both sides, whatever holders do with the token program directly.
SupplyExact ==
  \A s \in Sides : supply[s] + burned[s] + redeemed[s] = nominal_backing

\* The checks requiredCustodyRaw makes on every finalized series: the pools add
\* up to the final supply, no side redeems more claims than exist, and the paid
\* counter is the cumulative floor of the redeemed one, so what a side has
\* received does not depend on how its redemptions were cut or interleaved.
PoolsConsistent ==
  /\ phase # "finalized" =>
       \A s \in Sides : pool[s] = 0 /\ redeemed[s] = 0 /\ paid[s] = 0
  /\ phase = "finalized" =>
       /\ final_supply = nominal_backing
       /\ pool["pt"] + pool["dr"] = final_supply
       /\ \A s \in Sides :
            /\ redeemed[s] <= final_supply
            /\ paid[s] <= pool[s]
            /\ final_supply = 0 => redeemed[s] = 0 /\ paid[s] = 0
            /\ final_supply # 0 => paid[s] = CumulativeFloor(redeemed[s], pool[s], final_supply)

\* Events whose latest revision has a given class.
LiveEvents == {e \in Events : heads[e].live}

\* The three u8 counters agree with a recount of the event heads, however often
\* events were revised from one class to another; deposits and finalization rely
\* on the counters alone.
CountersMatchHeads ==
  /\ journal.event_count = Cardinality(LiveEvents)
  /\ journal.unresolved_count = Cardinality({e \in LiveEvents : ~heads[e].latest_resolved})
  /\ journal.in_year_qualified_count =
       Cardinality({e \in LiveEvents : heads[e].latest_in_year_qualified})

\* A head names the highest revision written for its event and carries that
\* revision's hash and class; indexes number the events 0, 1, ... without gaps.
HeadsMatchRevisions ==
  /\ \A e \in LiveEvents :
       /\ \A x \in revisions : x.event = e => x.revision <= heads[e].latest_revision
       /\ \E x \in RevisionAccount(e, heads[e].latest_revision) :
            /\ x.record_hash = heads[e].latest_record_hash
            /\ heads[e].latest_resolved = Resolved(x.payload)
            /\ heads[e].latest_in_year_qualified = InYearQualified(x.payload)
  /\ {heads[e].index : e \in LiveEvents} = 0..(journal.event_count - 1)

\* What deposits, seals and keepers read of the journal is what a recount of all
\* its revisions gives.
JournalExact == CountersMatchHeads /\ HeadsMatchRevisions

\* From the seal on, the journal that was sealed is the journal that counts: no
\* revision slips in between begin_finalization and the last accumulation.
SealPinsJournal ==
  phase \in {"sealing", "finalized"} =>
    /\ seal.journal_version = journal.version
    /\ seal.journal_hash = journal.hash
    /\ seal.event_count = journal.event_count
    /\ journal.unresolved_count = 0

\* The number a bit pattern stands for, in units of the least one.
FactorValue(bits) ==
  DecodeMultiplier(bits).significand * Pow2[DecodeMultiplier(bits).exponent + FractionBits + Span]

\* The newest payload of the event at place i, in a journal of heads hs and
\* revisions rs.
PayloadAt(hs, rs, i) ==
  LET e == CHOOSE e \in Events : hs[e].live /\ hs[e].index = i
  IN  (CHOOSE x \in rs : x.event = e /\ x.revision = hs[e].latest_revision).payload

\* What the events of a journal count for at their places: the multiplier before
\* or after an in-year dividend, and one for any other event.
Factors(count, hs, rs, field) ==
  [i \in Nat |-> IF i < count /\ InYearQualified(PayloadAt(hs, rs, i))
                 THEN FactorValue(PayloadAt(hs, rs, i)[field]) ELSE 1]

\* The product of the first `count` events' multipliers.
ProductBefore(count) == Product(Factors(journal.event_count, heads, revisions, "m0_bits"))[count]
ProductAfter(count) == Product(Factors(journal.event_count, heads, revisions, "m1_bits"))[count]

\* While sealing, the accumulator is exactly the product of the sealed in-year
\* ratios up to the cursor: no event is skipped, counted twice or rounded, also
\* after an abort and a new seal.
AccumulatorExact ==
  phase = "sealing" =>
    accumulator.numerator * ProductAfter(accumulator.cursor)
      = accumulator.denominator * ProductBefore(accumulator.cursor)

\* The DR pool is the floor of the backing times the dividend share of the whole
\* sealed journal, computed from the multipliers themselves.
PoolsFollowJournal ==
  phase = "finalized" =>
    LET before == ProductBefore(journal.event_count)
        after  == ProductAfter(journal.event_count)
    IN  pool["dr"] = (final_supply * (after - before)) \div after

\* The split is that of the journal: no event is skipped, counted twice or
\* rounded on the way, and the pools are those of the whole product.
SplitFollowsJournal == AccumulatorExact /\ PoolsFollowJournal

\* Nothing the issuer can do or undo stands in the holder's way, and custody is
\* whole.
Healthy(h) ==
  /\ mint.transferable /\ VaultUsable /\ h \notin frozen
  /\ vault >= Owed

\* While the mint transfers and custody is whole, every holder can leave with all
\* it holds or any part: pairs recombine until finalization and each side redeems
\* afterwards, whatever the admission flag, the observation, the scale and the
\* order of the other holders' exits.
ExitsStayOpen ==
  \A h \in Holders :
    Healthy(h) =>
      /\ phase \in {"open", "sealing"} =>
           \A amount \in 1..claims["pt"][h] :
             amount <= claims["dr"][h] => RecombineAccepted(h, amount, CurrentGuard)
      /\ phase = "finalized" =>
           \A s \in Sides : \A amount \in 1..claims[s][h] :
             RedeemAccepted(h, s, amount, TRUE, CurrentGuard)

\* A step that leaves state_version alone leaves alone every fact a guarded
\* quote was computed from.
VersionCoversState ==
  [][phase # "none" /\ state_version' = state_version =>
       UNCHANGED <<phase, nominal_backing, journalVars, sealVars, poolVars>>]_vars

\* Finalization is irrevocable: the phase, the split, the sealed journal and the
\* backing never change again, and neither claim mint ever mints again.
FinalityIsPermanent ==
  [][phase = "finalized" =>
       /\ UNCHANGED <<phase, nominal_backing, journalVars, sealVars, final_supply, pool>>
       /\ \A s \in Sides : supply'[s] <= supply[s] /\ ~mint_authority'[s]]_vars

\* The series implements the holders' contract: every journal write, seal, abort,
\* keeper call, issuer action and token transfer is a stutter of AnnualClaims,
\* and every redemption pays the cumulative floor.
Claims == INSTANCE AnnualClaims WITH settled <- phase = "finalized", backing <- nominal_backing
RefinesClaims == Claims!Spec

=============================================================================
