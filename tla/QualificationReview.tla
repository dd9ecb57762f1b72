------------------------- MODULE QualificationReview -------------------------
(***************************************************************************)
(* The qualification review of one xStocks asset                           *)
(* (packages/issuer-readers/src/qualification.ts): a saved report and a    *)
(* researcher's supplement are read again, the heads are recomputed, every *)
(* candidate join is matched, and whatever does not fit becomes a blocker. *)
(* The dossier is always blocked; the blockers that are always there say   *)
(* nothing, so what matters is that every flaw of the input adds one.      *)
(*                                                                         *)
(* The input is chosen at the start: the files are the operator's, so the  *)
(* revisions may come in any order, repeat and contradict each other, and  *)
(* the joins may be wrong in every way the schema lets through.  The loops *)
(* of the review are its steps.  An event's body is its factors (they      *)
(* rise, fall or do not encode), its action, its status and, for all the   *)
(* rest, a text; `seen` says that a good answer had its digest.            *)
(***************************************************************************)
EXTENDS Integers, Sequences, FiniteSets, SequencesExt, TLC

CONSTANTS
  HistoryInputs,   \* what the report has of the asset: "observed", "partial" or
                   \* "failed" corporate actions, or "unavailable", no row at all
  RecordInputs, JoinInputs, AnnouncementInputs, SuppliedInputs,
  IdentityInputs,  \* the supplement: none, match, unselected, mismatch
  TimeInputs,      \* and whether the requested year is one of the program's
  MintInputs,
                   \* the inputs to review
  Year, MaxAge     \* the requested year ends at time Year; maximumObservationAgeMs

\* What the instances of this module satisfy.
ReviewAssumption == Year \in Int /\ MaxAge \in Nat

VARIABLES
  input, pc, k,
  kept, conflicts, heads,       \* reduceRevisions
  reviews, used,                \* the revisions reviewed; announcements used
  assetBlockers, supplementBlockers, observationBlockers,
  dossier

vars == <<input, pc, k, kept, conflicts, heads, reviews, used,
          assetBlockers, supplementBlockers, observationBlockers, dossier>>

None == "none"
Supplemented == input.identity = "match"

Init ==
  /\ input \in [history : HistoryInputs, records : RecordInputs, joins : JoinInputs,
                announcements : AnnouncementInputs, supplied : SuppliedInputs,
                identity : IdentityInputs, times : TimeInputs, mint : MintInputs]
  /\ input.history \in {"failed", "unavailable"} => input.records = <<>>
  /\ input.history = "unavailable" => input.identity # "match"
  /\ pc = "times" /\ k = 1
  /\ kept = <<>> /\ conflicts = {} /\ heads = << >>
  /\ reviews = <<>> /\ used = {}
  /\ assetBlockers = {} /\ supplementBlockers = {} /\ observationBlockers = {}
  /\ dossier = {}

When(condition, blocker) == IF condition THEN {blocker} ELSE {}
Loop(sequence, next) ==
  IF k < Len(sequence) THEN k' = k + 1 /\ UNCHANGED pc ELSE k' = 1 /\ pc' = next

\* Where a loop over nothing goes.
Over(sequence, here, next) == IF sequence = <<>> THEN next ELSE here

-----------------------------------------------------------------------------
(* The frame: times, the supplement's identity and the asset's history.    *)

\* An age against now: from the future, or stale.
Aged(at, what) ==
  CASE at > input.times.now -> {what \o "_from_future"}
    [] input.times.now - at > MaxAge -> {what \o "_stale"}
    [] OTHER -> {}

\* What the report has of the asset's events.
HistoryBlockers ==
  IF input.history = "unavailable" THEN {"issuer_event_history_unavailable"}
  ELSE When(input.history # "observed", "issuer_event_history_incomplete")
         \union When(input.records = <<>>, "empty_history_not_annual_coverage")

ReviewTimes ==
  /\ pc = "times"
  /\ LET t == input.times
     IN  observationBlockers' =
           When(t.completed < t.started, "observation_report_time_inverted")
             \union (IF t.started > t.now THEN {"observation_report_from_future"}
                     ELSE Aged(t.completed, "observation_report"))
             \union Aged(t.request, "source_observation")
             \union When(t.request < t.started \/ t.request > t.completed,
                         "source_observation_outside_report_window")
  /\ supplementBlockers' = When(input.identity = "unselected", "supplement_identity_not_selected")
                             \union When(input.identity = "mismatch", "supplement_identity_mismatch")
  /\ assetBlockers' = HistoryBlockers
  /\ pc' = Over(input.records, "reduce", "joins")
  /\ UNCHANGED <<input, k, kept, conflicts, heads, reviews, used, dossier>>

-----------------------------------------------------------------------------
(* The revisions.                                                          *)

SameKey(r, s) == r.event = s.event /\ r.version = s.version

\* semanticRevision: everything but the digest.
Differs(r, s) == r.body # s.body

\* Mutant: revisions are keyed by what they say as well.
PriorSame(r) == {s \in Range(kept) : SameKey(r, s) /\ ~ Differs(r, s)}

Prior(r) == {s \in Range(kept) : SameKey(r, s)}

ReduceTurn ==
  /\ pc = "reduce"
  /\ LET r == input.records[k]
         prior == Prior(r)
     IN  /\ conflicts' = conflicts \union {s.event : s \in {p \in prior : Differs(r, p)}}
         /\ kept' = IF prior = {} THEN Append(kept, r) ELSE kept
  /\ Loop(input.records, "heads")
  /\ UNCHANGED <<input, heads, reviews, used, assetBlockers, supplementBlockers, observationBlockers, dossier>>

IsLater(r) == r.event \in DOMAIN heads => r.version > heads[r.event].version

HeadTurn ==
  /\ pc = "heads"
  /\ heads' = IF IsLater(kept[k]) THEN (kept[k].event :> kept[k]) @@ heads ELSE heads
  /\ Loop(kept, "review")
  /\ UNCHANGED <<input, kept, conflicts, reviews, used, assetBlockers, supplementBlockers, observationBlockers, dossier>>

IsHead(r) == heads[r.event] = r
Matching(r) == SelectSeq(input.joins, LAMBDA j : SameKey(j, r))

\* candidateDates: of several joins the first counts, and is called ambiguous.
Candidate(r) ==
  LET m == Matching(r)
      first == {a \in input.announcements : m # <<>> /\ a.id = m[1].announcement}
  IN  CASE m = <<>> -> [announcement |-> None, blockers |-> {"candidate_join_missing"}]
        [] first = {} -> [announcement |-> None,
                          blockers |-> When(Len(m) > 1, "candidate_join_ambiguous")
                                         \union {"candidate_announcement_missing"}]
        [] OTHER -> [announcement |-> m[1].announcement,
                     blockers |-> When(Len(m) > 1, "candidate_join_ambiguous")
                                    \union When(\E a \in first : ~ a.fits, "candidate_announcement_conflict")
                                    \union When(\E a \in first : ~ a.usd, "candidate_currency_mismatch")]

\* What the issuer calls its event: of an ordinary first announcement too the
\* taxonomy and the finality stay unresolved.
Unresolved == {"ordinary_dividend_taxonomy_unresolved", "initial_status_finality_unresolved"}

FactorBlockers(b) ==
  CASE b.factors = "rises" -> {}
    [] b.factors = "falls" -> {"falling_factor_not_ordinary_dividend"}
    [] b.factors = "invalid" -> {"invalid_candidate_factor"}
SourceBlockers(b) ==
  {IF b.action = "CashDividend" THEN "ordinary_dividend_taxonomy_unresolved" ELSE "unsupported_source_action",
   IF b.status = "Initial" THEN "initial_status_finality_unresolved" ELSE "source_status_semantics_unresolved"}
    \union When("cancelled" \in {b.action, b.status}, "cancellation_semantics_unresolved")

\* reviewRevision
Review(r) ==
  LET c == IF Supplemented THEN Candidate(r)
           ELSE [announcement |-> None, blockers |-> {"candidate_join_missing"}]
  IN  [revision |-> r, isHead |-> IsHead(r), announcement |-> c.announcement,
       blockers |-> FactorBlockers(r.body) \union SourceBlockers(r.body)
                      \union When(r.event \in conflicts, "conflicting_same_version_revision")
                      \union When(~ r.seen, "source_digest_not_observed")
                      \union (IF IsHead(r) THEN c.blockers ELSE {})]

\* currentAnnouncementUse
Uses(v) == IF v.isHead /\ v.announcement # None
           THEN {[announcement |-> v.announcement, event |-> v.revision.event]} ELSE {}

ReviewTurn ==
  /\ pc = "review"
  /\ LET v == Review(kept[k])
     IN  /\ reviews' = Append(reviews, v)
         /\ used' = used \union Uses(v)
         /\ assetBlockers' = assetBlockers \union (IF v.isHead THEN v.blockers ELSE {})
  /\ Loop(kept, "joins")
  /\ UNCHANGED <<input, kept, conflicts, heads, supplementBlockers, observationBlockers, dossier>>

-----------------------------------------------------------------------------
(* The joins, the mint, the dossier.                                       *)

JoinedHead(j) ==
  IF j.event \notin DOMAIN heads THEN {"candidate_join_event_missing"}
  ELSE When(heads[j.event].version # j.version, "candidate_join_stale_revision")

\* The supplement's own copy of the event agrees with the head.
JoinedCopy(j) ==
  LET copies == SelectSeq(input.supplied, LAMBDA e : SameKey(e, j))
  IN  CASE copies = <<>> -> {"candidate_supplement_event_missing"}
        [] Len(copies) > 1 -> {"candidate_supplement_event_ambiguous"}
        [] OTHER -> When(j.event \in DOMAIN heads /\ copies[1].body # heads[j.event].body,
                         "candidate_supplement_event_conflict")

JoinTurn ==
  /\ pc = "joins"
  /\ IF Supplemented /\ input.joins # <<>>
       THEN LET j == input.joins[k]
            IN  /\ assetBlockers' = assetBlockers \union JoinedHead(j) \union JoinedCopy(j)
                     \union When(\A a \in input.announcements : a.id # j.announcement, "candidate_announcement_missing")
                /\ Loop(input.joins, "mint")
       ELSE pc' = "mint" /\ UNCHANGED <<k, assetBlockers>>
  /\ UNCHANGED <<input, kept, conflicts, heads, reviews, used, supplementBlockers, observationBlockers, dossier>>

\* The accounts decoded again, against what the observation claims; profileTrue
\* says too that its factors are supported.
Decoded(o) ==
  CASE ~ o.decodes -> {"current_mint_decode_failed"}
    [] OTHER -> When(~ o.clockTrue, "clock_claim_mismatch")
                  \union When(~ o.profileTrue, "current_mint_profile_mismatch")
                  \union When(~ o.factorTrue, "latest_factor_claim_mismatch")

\* reviewCurrentMint: of two accounts, which may both be the mint's.  mainnet
\* stands for the genesis, the commitment and the mint named by the claim.
MintBlockers(o) ==
  LET IsClock(a) == a.address = "clock" IN
  LET mint == SelectSeq(o.accounts, LAMBDA a : a.address = "mint")
      clock == SelectSeq(o.accounts, IsClock)
  IN  When(~ o.mainnet, "mainnet_genesis_mismatch")
        \union Aged(o.at, "current_mint_observation")
        \union When(mint = <<>>, "current_mint_account_missing")
        \union When(clock = <<>>, "clock_account_missing")
        \union {IF i = SelectInSeq(o.accounts, IsClock) THEN "clock_data_digest_mismatch" ELSE "mint_data_digest_mismatch" :
                  i \in {n \in 1..2 : ~ o.accounts[n].digestTrue}}
        \union When(mint # <<>> => ~ mint[1].owned, "current_mint_owner_mismatch")
        \union When(clock # <<>> => ~ clock[1].owned, "clock_owner_mismatch")
        \union (IF mint # <<>> /\ clock # <<>> THEN Decoded(o) ELSE {})

ReviewMint ==
  /\ pc = "mint"
  /\ assetBlockers' = assetBlockers \union
       (IF Supplemented /\ input.mint.supplied THEN MintBlockers(input.mint) ELSE {})
  /\ pc' = "duplicates"
  /\ UNCHANGED <<input, k, kept, conflicts, heads, reviews, used, supplementBlockers, observationBlockers, dossier>>

Shared(id) == Cardinality({u.event : u \in {w \in used : w.announcement = id}}) > 1

\* Two current events that claim one announcement: all of them are marked.
MarkDuplicates ==
  /\ pc = "duplicates"
  /\ reviews' = [i \in 1..Len(reviews) |->
       IF reviews[i].isHead /\ Shared(reviews[i].announcement)
       THEN [reviews[i] EXCEPT !.blockers = @ \union {"duplicate_entitlement_candidate"}] ELSE reviews[i]]
  /\ supplementBlockers' = supplementBlockers \union
       When(\E u \in used : Shared(u.announcement), "duplicate_entitlement_candidate")
  /\ pc' = "finish"
  /\ UNCHANGED <<input, k, kept, conflicts, heads, used, assetBlockers, observationBlockers, dossier>>

Gathered == observationBlockers \union supplementBlockers \union assetBlockers

Finish ==
  /\ pc = "finish"
  /\ dossier' = Gathered \union When(input.times.now < Year, "term_not_matured")
                  \union When(~ input.times.supported, "program_year_range_unsupported")
  /\ pc' = "done"
  /\ UNCHANGED <<input, k, kept, conflicts, heads, reviews, used, assetBlockers, supplementBlockers, observationBlockers>>

Next ==
  \/ ReviewTimes \/ ReduceTurn \/ HeadTurn \/ ReviewTurn
  \/ JoinTurn \/ ReviewMint \/ MarkDuplicates \/ Finish

Spec == Init /\ [][Next]_vars

-----------------------------------------------------------------------------
(* Properties.                                                             *)

TypeOK ==
  /\ pc \in {"times", "reduce", "heads", "review", "joins", "mint", "duplicates", "finish", "done"}
  /\ k \in Nat \ {0}
  /\ Len(reviews) <= Len(kept) /\ \A i, j \in 1..Len(kept) : i # j => ~ SameKey(kept[i], kept[j])
  /\ conflicts \subseteq {r.event : r \in Range(input.records)}

\* The latest revisions of the input, found without a loop.
Latest == {r \in Range(input.records) : \A s \in Range(input.records) : s.event = r.event => s.version <= r.version}

\* Every event has one head, its latest version, in whatever order its
\* revisions were saved and however often they are repeated.
OneHeadEach ==
  pc = "done" =>
    LET current == {reviews[i].revision : i \in {i \in 1..Len(reviews) : reviews[i].isHead}}
    IN  /\ current \subseteq Latest
        /\ \A r \in Range(input.records) : Cardinality({h \in current : h.event = r.event}) = 1

\* What the review would have to find for the input to be without flaw.
Fresh(t) == t <= input.times.now /\ input.times.now - t <= MaxAge
FlawlessTimes ==
  LET t == input.times
  IN  t.supported /\ t.started <= t.request /\ t.request <= t.completed /\ t.now >= Year /\ Fresh(t.completed) /\ Fresh(t.request)
FlawlessRecords ==
  /\ input.history = "observed" /\ input.records # <<>>
  /\ \A r, s \in Range(input.records) : SameKey(r, s) => r.body = s.body
  /\ \A r \in Latest :
       /\ r.body.factors = "rises" /\ r.body.action = "CashDividend" /\ r.body.status = "Initial"
       /\ \E s \in Range(input.records) : SameKey(r, s) /\ s.seen
FlawlessJoins ==
  /\ Supplemented
  /\ \A r \in Latest : \E i \in 1..Len(input.joins) :
       /\ SameKey(input.joins[i], r)
       /\ \E a \in input.announcements : a.id = input.joins[i].announcement /\ a.fits /\ a.usd
  /\ \A i, j \in 1..Len(input.joins) : i # j =>
       /\ ~ SameKey(input.joins[i], input.joins[j])
       /\ input.joins[i].announcement # input.joins[j].announcement
  /\ \A i \in 1..Len(input.joins) : \E r \in Latest :
       /\ SameKey(input.joins[i], r)
       /\ \E e \in Range(input.supplied) : SameKey(e, r) /\ e.body = r.body
FlawlessMint ==
  input.mint.supplied =>
    /\ input.mint.mainnet /\ Fresh(input.mint.at)
    /\ {a.address : a \in Range(input.mint.accounts)} = {"mint", "clock"}
    /\ \A a \in Range(input.mint.accounts) : a.owned /\ a.digestTrue
    /\ input.mint.decodes /\ input.mint.clockTrue /\ input.mint.profileTrue /\ input.mint.factorTrue

\* A dossier with no blocker but those of the best event comes from an input
\* without flaw: no partial or missing history, stale, contradictory, cancelled
\* or unsupported revision, missing, stale, doubled or ambiguous join, old
\* observation or false mint claim is passed over.
CleanMeansFlawless ==
  (pc = "done" /\ dossier \subseteq Unresolved) =>
    FlawlessTimes /\ FlawlessRecords /\ FlawlessJoins /\ FlawlessMint

\* Two current heads joined to one announcement, each without ambiguity, are
\* both marked, and the dossier says so.
DuplicatesAreMarked ==
  pc = "done" =>
    \A i, j \in 1..Len(reviews) :
      (/\ i # j /\ reviews[i].isHead /\ reviews[j].isHead
       /\ reviews[i].announcement # None /\ reviews[i].announcement = reviews[j].announcement)
      => /\ "duplicate_entitlement_candidate" \in reviews[i].blockers
         /\ "duplicate_entitlement_candidate" \in dossier

=============================================================================
