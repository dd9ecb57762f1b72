---------------------------- MODULE MCReference ----------------------------
(***************************************************************************)
(* What the program is compared with and fed from: the reference ledger of *)
(* the SDK (AnnualReference), the rehearsal in the browser (DemoClient),   *)
(* the calendar of the program (Calendar), the issuer readers              *)
(* (IssuerReads) and the review of what they read (QualificationReview).   *)
(* A behaviour is of one part.                                             *)
(***************************************************************************)
EXTENDS AnnualReference

CONSTANTS alice, bob

VARIABLES
  part,
  collateral, usdc, claims, series, condition, version, told, quotes, quoteCounter, generation, now,
  date, days,
  published, issuer, step, index, page, pages, learnt, obs, requests, stopped,
  input, pc, k, kept, conflicts, heads, reviews, used,
  assetBlockers, supplementBlockers, observationBlockers, dossier

demoVars == <<collateral, usdc, claims, series, condition, version, told, quotes, quoteCounter,
              generation, now>>
calendarVars == <<date, days>>
readVars == <<published, issuer, step, index, page, pages, learnt, obs, requests, stopped>>
reviewVars == <<input, pc, k, kept, conflicts, heads, reviews, used,
                assetBlockers, supplementBlockers, observationBlockers, dossier>>
all == <<vars, demoVars, calendarVars, readVars, reviewVars, part>>

-----------------------------------------------------------------------------
(* The reference: an event that doubles the stock in the custody instance; *)
(* in the journal instance two events whose records are corrected,         *)
(* quarantined and moved between years.                                    *)

Decimal(digits, places) == [digits |-> digits, places |-> places]
In(year, month, day) == [year |-> year, month |-> month, day |-> day]

Record(exDate, status, m0, m1, finalized, own) ==
  [exDate |-> exDate, status |-> status, m0 |-> m0, m1 |-> m1,
   finalized |-> finalized, own |-> own]

\* "1" becomes "2.0".
Raise == {Record(In(2026, 12, 31), "qualified", Decimal(1, 0), Decimal(20, 1), TRUE, TRUE)}

\* A dividend of a quarter and one of a fifth in the year, the first again on
\* the day after it, without a date, on a day that does not exist and for
\* another mint; a decrease as a dividend and in quarantine; a zero multiplier.
Entries ==
  {Record(In(2026, 1, 1), "qualified", Decimal(1, 0), Decimal(125, 2), TRUE, TRUE),
   Record(In(2026, 3, 1), "qualified", Decimal(10, 1), Decimal(12, 1), TRUE, TRUE),
   Record(In(2027, 1, 1), "qualified", Decimal(1, 0), Decimal(125, 2), TRUE, TRUE),
   Record(NoDate, "qualified", Decimal(1, 0), Decimal(125, 2), TRUE, TRUE),
   Record(In(2026, 2, 29), "qualified", Decimal(1, 0), Decimal(125, 2), TRUE, TRUE),
   Record(In(2026, 1, 1), "qualified", Decimal(1, 0), Decimal(125, 2), TRUE, FALSE),
   Record(In(2026, 6, 1), "qualified", Decimal(125, 2), Decimal(1, 0), TRUE, TRUE),
   Record(In(2026, 6, 1), "unsupported", Decimal(125, 2), Decimal(1, 0), FALSE, TRUE),
   Record(In(2026, 6, 1), "cancelled", Decimal(1, 0), Decimal(0, 0), TRUE, TRUE)}

Journal == INSTANCE AnnualReference WITH
  EventIds <- {"e1", "e2", "e3"}, Payloads <- Entries, Amounts <- {3}, Times <- {0, 1, 2}, MaxRaw <- 3,
  MaxEventIds <- 2, MaxRevision <- 1

-----------------------------------------------------------------------------
(* The rehearsal.  The asset has one decimal and a multiplier of 2 that    *)
(* the event raises to 3: a stock amount of 0.2 is one raw unit, 0.1 is    *)
(* none, 0.5 is two and a half, and one raw unit alone carries no dividend. *)

Typed == {Decimal(1, 1), Decimal(2, 1), Decimal(5, 1), Decimal(6, 1), Decimal(25, 2)}

Rehearsal == INSTANCE DemoClient WITH
  Series <- {"e1"}, M0 <- [s \in {"e1"} |-> Decimal(2, 0)], M1 <- [s \in {"e1"} |-> Decimal(30, 1)],
  Decimals <- 1, SellerStock <- Decimal(1, 0), BuyerUsdc <- 2, StockAmounts <- Typed,
  Amounts <- {1, 2, 3}, Prices <- {1}, MaxRaw <- 5, Ttl <- 1, MaxTime <- 0, MaxVersion <- 7,
  MaxQuotes <- 2, MaxGeneration <- 1

Quoting == INSTANCE DemoClient WITH
  Series <- {"e1", "e2"}, M0 <- [s \in {"e1", "e2"} |-> Decimal(2, 0)],
  M1 <- [s \in {"e1", "e2"} |-> Decimal(30, 1)],
  Decimals <- 1, SellerStock <- Decimal(1, 0), BuyerUsdc <- 2, StockAmounts <- Typed,
  Amounts <- {2, 3}, Prices <- {1}, MaxRaw <- 6, Ttl <- 1, MaxTime <- 1, MaxVersion <- 3,
  MaxQuotes <- 2, MaxGeneration <- 2

-----------------------------------------------------------------------------
(* The calendar, on every day from 1970 to the end of 2102, one year past  *)
(* the last that parse_civil_date accepts.                                 *)

Days == INSTANCE Calendar WITH DaySeconds <- 24, Last <- 2102

-----------------------------------------------------------------------------
(* The readers.                                                            *)

Revision(e, v, b, own) == [event |-> e, version |-> v, body |-> b, own |-> own]

\* A history in pages of one: a correction comes after another event, then the
\* issuer contradicts itself.
Pages == INSTANCE IssuerReads WITH
  Selected <- [xstocks |-> <<"KO">>, backpack |-> <<>>, ondo |-> <<>>],
  History <- [KO |-> <<Revision("e1", 0, "x", TRUE), Revision("e2", 0, "x", TRUE), Revision("e1", 1, "y", TRUE),
                       Revision("e2", 1, "x", TRUE), Revision("e1", 1, "z", TRUE), Revision("e3", 0, "x", TRUE)>>],
  Underlying <- [a \in {"KO"} |-> "match"], PageSize <- 1, MaxPages <- 4,
  MaxNotices <- 0, MaxRecords <- 20

\* Assets of each issuer: one with more pages than are read, one with a
\* foreign event and no underlying.  A whole report has more records than the
\* review takes.
Walk == INSTANCE IssuerReads WITH
  Selected <- [xstocks |-> <<"KO", "PG">>, backpack |-> <<"MU">>, ondo |-> <<"KOon">>],
  History <- [KO |-> <<Revision("e1", 0, "x", TRUE), Revision("e2", 0, "x", TRUE), Revision("e1", 1, "x", TRUE)>>,
              PG |-> <<Revision("e3", 1, "x", TRUE), Revision("e4", 0, "x", FALSE)>>],
  Underlying <- [a \in {"KO", "PG"} |-> IF a = "KO" THEN "match" ELSE "null"],
  PageSize <- 2, MaxPages <- 1, MaxNotices <- 1, MaxRecords <- 12

-----------------------------------------------------------------------------
(* The review.                                                             *)

Body(text, factors, action, status) == [text |-> text, factors |-> factors, action |-> action, status |-> status]
X == Body("x", "rises", "CashDividend", "Initial")
Y == Body("y", "rises", "CashDividend", "Initial")
Saved(e, v, b, seen) == [event |-> e, version |-> v, body |-> b, seen |-> seen]
Join(e, v, a) == [event |-> e, version |-> v, announcement |-> a]
Copy(e, v, b) == [event |-> e, version |-> v, body |-> b]
Announcement(id, fits, usd) == [id |-> id, fits |-> fits, usd |-> usd]
SeqsUpTo(S, n) == UNION {[1..m -> S] : m \in 0..n}
At(s, r, c, n) == [started |-> s, request |-> r, completed |-> c, now |-> n, supported |-> TRUE]

\* Every sequence of up to three revisions of two events and of up to two joins.
ManyRecords == SeqsUpTo({Saved("e1", 0, X, TRUE), Saved("e1", 1, X, TRUE), Saved("e1", 1, Y, TRUE),
                         Saved("e2", 0, X, TRUE)}, 3)
ManyJoins == SeqsUpTo({Join(e, v, a) : e \in {"e1", "e2"}, v \in {0, 1}, a \in {"a1", "a2"}}, 2)
OneOrTwo == {{Announcement("a1", TRUE, TRUE)}, {Announcement("a1", TRUE, TRUE), Announcement("a2", TRUE, TRUE)}}
AllCopies == <<Copy("e1", 0, X), Copy("e1", 1, X), Copy("e2", 0, X), Copy("e2", 1, X)>>
GoodTimes == At(8, 9, 9, 10)
NoMint == [supplied |-> FALSE]

Joins == INSTANCE QualificationReview WITH
  HistoryInputs <- {"observed"},
  RecordInputs <- ManyRecords, JoinInputs <- ManyJoins, AnnouncementInputs <- OneOrTwo,
  SuppliedInputs <- {AllCopies}, IdentityInputs <- {"match"}, TimeInputs <- {GoodTimes},
  MintInputs <- {NoMint}, Year <- 8, MaxAge <- 2

\* One event, and everything about its evidence that may be wrong ...
OneRecord == {<<Saved("e1", 0, X, seen)>> : seen \in BOOLEAN}
SomeAnnouncements == {{}} \union {{Announcement("a1", fits, usd)} : fits \in BOOLEAN, usd \in BOOLEAN}
SomeCopies == {<<>>, <<Copy("e1", 0, X)>>, <<Copy("e1", 0, Y)>>, <<Copy("e1", 0, X), Copy("e1", 0, X)>>}
AllIdentities == {"none", "match", "unselected", "mismatch"}
SomeTimes == {[GoodTimes EXCEPT !.supported = FALSE]}
               \union {At(s, r, c, n) : s \in {4, 9}, r \in {4, 8, 11}, c \in {5, 9, 11}, n \in {7, 10}}

Evidence == INSTANCE QualificationReview WITH
  HistoryInputs <- {"observed"},
  RecordInputs <- OneRecord, JoinInputs <- {<<Join("e1", 0, "a1")>>},
  AnnouncementInputs <- SomeAnnouncements, SuppliedInputs <- SomeCopies,
  IdentityInputs <- AllIdentities, TimeInputs <- SomeTimes, MintInputs <- {NoMint},
  Year <- 8, MaxAge <- 2

\* ... in every history, with every body and its copy or another.
Bodies == {Body("x", factors, action, status) : factors \in {"rises", "falls", "invalid"},
             action \in {"CashDividend", "other", "cancelled"}, status \in {"Initial", "other", "cancelled"}}

Histories == INSTANCE QualificationReview WITH
  HistoryInputs <- {"observed", "partial", "failed", "unavailable"},
  RecordInputs <- {<<>>} \union {<<Saved("e1", 0, b, TRUE)>> : b \in Bodies},
  JoinInputs <- {<<Join("e1", 0, "a1")>>}, AnnouncementInputs <- {{Announcement("a1", TRUE, TRUE)}},
  SuppliedInputs <- {<<Copy("e1", 0, b)>> : b \in Bodies},
  IdentityInputs <- AllIdentities, TimeInputs <- {GoodTimes}, MintInputs <- {NoMint},
  Year <- 8, MaxAge <- 2

\* Every flaw of a supplied mint observation.
Read(address, owned, true) == [address |-> address, owned |-> owned, digestTrue |-> true]
Reads == {Read(address, owned, true) : address \in {"mint", "clock"}, owned \in BOOLEAN, true \in BOOLEAN}
Mint(main, at, read, decodes, clock, profile, factor) ==
  [supplied |-> TRUE, mainnet |-> main, at |-> at, accounts |-> read, decodes |-> decodes,
   clockTrue |-> clock, profileTrue |-> profile, factorTrue |-> factor]
SomeMints ==
  {NoMint} \union {Mint(TRUE, 9, <<a, b>>, TRUE, TRUE, TRUE, TRUE) : a \in Reads, b \in Reads}
  \union {Mint(main, at, <<Read("clock", TRUE, TRUE), Read("mint", TRUE, TRUE)>>, decodes, clock, profile, factor) :
            main \in BOOLEAN, at \in {5, 9, 11}, decodes \in BOOLEAN, clock \in BOOLEAN,
            profile \in BOOLEAN, factor \in BOOLEAN}

MintReview == INSTANCE QualificationReview WITH
  HistoryInputs <- {"observed"},
  RecordInputs <- OneRecord, JoinInputs <- {<<Join("e1", 0, "a1")>>},
  AnnouncementInputs <- {{Announcement("a1", TRUE, TRUE)}}, SuppliedInputs <- {<<Copy("e1", 0, X)>>},
  IdentityInputs <- AllIdentities, TimeInputs <- {GoodTimes}, MintInputs <- SomeMints,
  Year <- 8, MaxAge <- 2

NoInput ==
  [history |-> "observed", records |-> <<>>, joins |-> <<>>, announcements |-> {Announcement("a1", TRUE, TRUE)},
   supplied |-> AllCopies, identity |-> "match", times |-> GoodTimes, mint |-> NoMint]

-----------------------------------------------------------------------------

ASSUME PartsAssumption ==
  /\ Journal!ReferenceAssumption /\ Days!CalendarAssumption
  /\ Rehearsal!FixturesValid /\ Quoting!FixturesValid
  /\ Pages!ReadsAssumption /\ Walk!ReadsAssumption
  /\ Joins!ReviewAssumption /\ Evidence!ReviewAssumption
  /\ Histories!ReviewAssumption /\ MintReview!ReviewAssumption

MCInit ==
  /\ part \in {"custody", "journal", "rehearsal", "quoting", "days", "pages", "walk",
               "joins", "evidence", "histories", "mint"}
  /\ Init
  /\ IF part = "quoting" THEN Quoting!Init ELSE Rehearsal!Init
  /\ Days!Init
  /\ IF part = "walk" THEN Walk!Init ELSE Pages!Init
  /\ part \notin {"joins", "evidence", "histories", "mint"} => input = NoInput
  /\ CASE part = "evidence" -> Evidence!Init
       [] part = "histories" -> Histories!Init
       [] part = "mint" -> MintReview!Init
       [] OTHER -> Joins!Init

MCNext ==
  \/ /\ \/ part = "custody" /\ Next
        \/ part = "journal" /\ Journal!Next
     /\ UNCHANGED <<part, demoVars, calendarVars, readVars, reviewVars>>
  \/ /\ \/ part = "rehearsal" /\ Rehearsal!Next
        \/ part = "quoting" /\ Quoting!Next
     /\ UNCHANGED <<part, vars, calendarVars, readVars, reviewVars>>
  \/ /\ part = "days" /\ Days!Next
     /\ UNCHANGED <<part, vars, demoVars, readVars, reviewVars>>
  \/ /\ \/ part = "pages" /\ Pages!Next
        \/ part = "walk" /\ Walk!Next
     /\ UNCHANGED <<part, vars, demoVars, calendarVars, reviewVars>>
  \/ /\ \/ part = "joins" /\ Joins!Next
        \/ part = "evidence" /\ Evidence!Next
        \/ part = "histories" /\ Histories!Next
        \/ part = "mint" /\ MintReview!Next
     /\ UNCHANGED <<part, vars, demoVars, calendarVars, readVars>>

\* The accounts are interchangeable.
AccountSymmetry == Permutations(Accounts)

MCSpec == MCInit /\ [][MCNext]_all

\* The reference and the rehearsal keep the promise of AnnualClaims that the
\* program keeps, whatever the order of calls, corrections and failures; their
\* sums are exact on every way there, their journal only moves forward, and the
\* program's calendar is the calendar.
ReferencesAgree ==
  /\ [](/\ part = "custody" => TypeOK /\ SupplyExact /\ CustodyExact /\ NoPartialFailure /\ NothingStranded
        /\ part = "journal" => Journal!AllocationExact
        /\ part = "rehearsal" => /\ Rehearsal!Conserved /\ Rehearsal!ReceiptsExplainLedger
                                 /\ Rehearsal!SettleNeverRefused /\ Rehearsal!LastHolderPaid
                                 /\ Rehearsal!EmptyIsClosed
        /\ part = "quoting" => Quoting!TypeOK /\ Quoting!QuoteIsCurrent
        /\ part = "days" => Days!DaysExact /\ Days!ParsesExactlyTheDates /\ Days!YearsAgree)
  /\ [][part = "journal" => Journal!JournalForward]_all
  /\ RefinesClaims
  /\ Rehearsal!RefinesClaims

\* Nothing is reported as observed or passed as clean that is not: whatever pages
\* are stale, whichever request fails or stops the reader, and however histories
\* are cut short and revisions, joins and observations repeated, contradicted or
\* out of date.  Of the readers' own reports the review refuses those, and only
\* those, that name no underlying or another, or exceed its limit of records.
ReviewsAreHonest ==
  /\ [](/\ part = "pages" => Pages!FullIsSnapshot /\ Pages!HeadsAreLatest
        /\ part = "walk" => /\ Walk!TypeOK /\ Walk!EveryAssetReported /\ Walk!StopIsAccounted
                            /\ Walk!SummaryIsHonest /\ Walk!ReportIsAccepted
        /\ part = "joins" => /\ Joins!TypeOK /\ Joins!OneHeadEach /\ Joins!DuplicatesAreMarked
                             /\ Joins!CleanMeansFlawless
        /\ part = "evidence" => Evidence!CleanMeansFlawless
        /\ part = "histories" => Histories!CleanMeansFlawless
        /\ part = "mint" => MintReview!CleanMeansFlawless)
  /\ [][part = "walk" => Walk!StopIsObeyed]_all
=============================================================================
