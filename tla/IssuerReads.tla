----------------------------- MODULE IssuerReads -----------------------------
(***************************************************************************)
(* One run of the issuer readers (packages/issuer-readers/src): the        *)
(* selected assets of three issuers are read one request after the other,  *)
(* while the issuers go on publishing, and a report says of every asset    *)
(* what was observed.  xStocks histories are paged; an authentication or   *)
(* rate-limit answer stops an issuer.  The report is then given to the     *)
(* qualification review, whose validator must take it.                     *)
(*                                                                         *)
(* External: the issuers' services.  A history only grows at its end.  An  *)
(* answer is made from one state of it, which may be an old one, and may   *)
(* carry the nodes of another page of that state.  Every other fault (no   *)
(* answer, an HTTP error, a malformed or mismatched value) is "fails".     *)
(* Texts, dates, decimals and digests are left out.                        *)
(***************************************************************************)
EXTENDS Integers, Sequences, FiniteSets, SequencesExt, FiniteSetsExt, TLC

CONSTANTS
  Selected,        \* the assets of each issuer, in the catalogue's order
  History,         \* what xStocks will publish of each of its assets
  Underlying,      \* the registry's underlying: "match", "other" or "null"
  PageSize,        \* 100
  MaxPages,        \* XSTOCKS_MAX_PAGES
  MaxNotices,      \* bound on the pauses, and on the multipliers, of an Ondo asset
  MaxRecords       \* QUALIFICATION_MAX_SOURCE_RECORDS

Issuers == {"xstocks", "backpack", "ondo"}
None == -1

\* What the instances of this module satisfy.
ReadsAssumption ==
  /\ DOMAIN Selected = Issuers
  /\ \A a \in Range(Selected["xstocks"]) : Underlying[a] \in {"match", "other", "null"}
  /\ PageSize \in Nat \ {0} /\ MaxPages \in Nat
  /\ MaxNotices \in Nat /\ MaxRecords \in Nat

VARIABLES
  published,       \* how much of each history is published
  issuer, step, index, page,
                   \* the request that is next
  pages,           \* the pages of this asset's history
  learnt,          \* Ondo: the pauses, and this asset's multiplier
  obs,             \* the observations of each issuer, in order
  requests, stopped
                   \* of each issuer: requests made, and None or the assets or
                   \* requests a stop left out

place == <<issuer, step, index, page, pages, learnt>>
vars == <<published, place, obs, requests, stopped>>

\* What an answer may hold of an asset: no, one or two rows for its symbol,
\* and in them no, one or two Solana mints, its own or another.
Mints == {<<>>, <<"own">>, <<"other">>, <<"own", "other">>}
Rows == {<<>>, <<<<"own">>, <<"own">>>>} \union {<<m>> : m \in Mints}

Xstocks == Range(Selected["xstocks"])
Asset == Selected[issuer][index]

FirstStep == [xstocks |-> "registry", backpack |-> "listing", ondo |-> "addresses"]
Following == [xstocks |-> "backpack", backpack |-> "ondo", ondo |-> "none"]

\* The first issuer from i on with something selected.
Nonempty(i) ==
  CASE i = "none" -> "none"
    [] Selected[i] # <<>> -> i
    [] Following[i] # "none" /\ Selected[Following[i]] # <<>> -> Following[i]
    [] i = "xstocks" /\ Selected["ondo"] # <<>> -> "ondo"
    [] OTHER -> "none"
StartOf(i) == IF i = "none" THEN "done" ELSE FirstStep[i]

Nothing == [pauses |-> "none", multiplier |-> "none"]

Init ==
  /\ published = [a \in Xstocks |-> 0]
  /\ issuer = Nonempty("xstocks") /\ step = StartOf(issuer)
  /\ index = 1 /\ page = 1 /\ pages = <<>>
  /\ learnt = Nothing
  /\ obs = [i \in Issuers |-> <<>>]
  /\ requests = [i \in Issuers |-> 0]
  /\ stopped = [i \in Issuers |-> None]

\* External: another revision is published.
Publish(a) ==
  /\ published[a] < Len(History[a])
  /\ published' = [published EXCEPT ![a] = @ + 1]
  /\ UNCHANGED <<place, obs, requests, stopped>>

-----------------------------------------------------------------------------
(* The walk over assets and issuers.                                       *)

Requested ==
  /\ requests' = [requests EXCEPT ![issuer] = @ + 1]
  /\ UNCHANGED published

\* The next issuer's first request, or the end.
NextIssuer ==
  /\ issuer' = Nonempty(Following[issuer])
  /\ step' = StartOf(issuer')
  /\ index' = 1 /\ page' = 1 /\ pages' = <<>> /\ learnt' = Nothing

NextAsset(first) ==
  IF index = Len(Selected[issuer]) THEN NextIssuer
  ELSE index' = index + 1 /\ step' = first /\ page' = 1 /\ pages' = <<>> /\ UNCHANGED <<issuer, learnt>>

\* Everything that is left of an issuer after o.
Rest(o) == [k \in 1..(Len(Selected[issuer]) - index) |-> [o EXCEPT !.asset = Selected[issuer][index + k]]]

\* An observation, and the walk goes on.
Observe(o, first) ==
  /\ obs' = [obs EXCEPT ![issuer] = Append(@, o)]
  /\ NextAsset(first)
  /\ UNCHANGED stopped

\* An observation, the issuer is left alone, the remaining assets are skipped.
Stop(o, skipped, left) ==
  /\ obs' = [obs EXCEPT ![issuer] = Append(@, o) \o Rest(skipped)]
  /\ stopped' = [stopped EXCEPT ![issuer] = left]
  /\ NextIssuer

-----------------------------------------------------------------------------
(* xStocks.                                                                *)

XObservation(identity, actions, records, heads) ==
  [asset |-> Asset, identity |-> identity, actions |-> actions, records |-> records, heads |-> heads]
AssetFailure == XObservation("failed", "skipped", <<>>, {})
XSkipped == XObservation("skipped", "skipped", <<>>, {})

\* parseXstocksRegistry: one Solana deployment, the catalogue's mint.
Deployed(deployments) == deployments = <<"own">>

\* The registry entry: its mint decides, its underlying is only recorded.
Registry(answer, deployments) ==
  /\ step = "registry"
  /\ Requested
  /\ CASE answer = "ok" /\ Deployed(deployments) ->
                           /\ step' = "history" /\ page' = 1 /\ pages' = <<>>
                           /\ UNCHANGED <<issuer, index, learnt, obs, stopped>>
       [] answer = "stop" -> Stop(AssetFailure, XSkipped, Len(Selected["xstocks"]) - index)
       [] OTHER -> Observe(AssetFailure, "registry")

TotalPages(nodes) == Max({1, (nodes + PageSize - 1) \div PageSize})
Nodes(a, v, q) == SubSeq(History[a], (q - 1) * PageSize + 1, Min({q * PageSize, v}))

\* External: a page of state v with the nodes of its page q.
Page(v, q) == [total |-> v, nodes |-> Nodes(Asset, v, q)]

\* parseXstocksHistoryPage: the page that was asked for is one there is.
Parses(p) == page <= TotalPages(p.total)

\* The page repeats none before it, and was counted like the first.
Fits(p) ==
  /\ \A k \in 1..Len(pages) : pages[k].nodes # p.nodes
  /\ pages # <<>> => p.total = pages[1].total

\* One turn of the loop that finds heads.
LaterHead(heads, r) ==
  IF r.event \notin DOMAIN heads \/ (r.event \in DOMAIN heads /\ r.version > heads[r.event].version)
  THEN (r.event :> r) @@ heads ELSE heads

\* reduceXstocksRevisions: of equal revisions the first is kept.
SameKey(r, s) == r.event = s.event /\ r.version = s.version
Conflict(all) == \E r, s \in Range(all) : SameKey(r, s) /\ r.body # s.body
Keep(kept, r) == IF \E s \in Range(kept) : SameKey(r, s) THEN kept ELSE Append(kept, r)
Reduced(all) == FoldLeft(Keep, <<>>, all)
HeadsOf(records) == Range(FoldLeft(LaterHead, << >>, records))

AllOf(ps) == FlattenSeq([k \in 1..Len(ps) |-> ps[k].nodes])

\* validateEventRelationships: its ISIN, and its underlying if there is one.
Related(r) == r.own /\ (Underlying[Asset] # "null" => Underlying[Asset] = "match")

\* The state of the corporate actions once the pages ps are read.
ActionsState(failure, ps) ==
  LET all == AllOf(ps)
  IN  CASE ps = <<>> -> "failed"
        [] Conflict(all) \/ \E r \in Range(all) : ~ Related(r) -> "failed"
        [] failure -> "partial"
        [] Len(all) # ps[1].total -> "failed"
        [] OTHER -> "observed"

\* The observation of an asset whose history has been read.
HistoryRead(failure, ps) ==
  LET s == ActionsState(failure, ps)
      records == IF s = "failed" THEN <<>> ELSE Reduced(AllOf(ps))
  IN  XObservation("observed", s, records, HeadsOf(records))

WithinLimit == page <= MaxPages

\* The history breaks off: too many pages, a request that fails, a stop.
HistoryFails(answer) ==
  /\ step = "history"
  /\ IF answer = "limit"
       THEN /\ ~ WithinLimit
            /\ UNCHANGED <<requests, published>>
            /\ Observe(HistoryRead(TRUE, pages), "registry")
       ELSE /\ WithinLimit
            /\ Requested
            /\ IF answer = "stop"
                 THEN Stop(HistoryRead(TRUE, pages), XSkipped, Len(Selected["xstocks"]) - index)
                 ELSE Observe(HistoryRead(TRUE, pages), "registry")

HistoryPage(v, q) ==
  /\ step = "history" /\ WithinLimit
  /\ LET p == Page(v, q)
         more == Append(pages, p)
     IN  /\ Requested
         /\ CASE ~ (Parses(p) /\ Fits(p)) -> Observe(HistoryRead(TRUE, pages), "registry")
              [] page < TotalPages(v) -> /\ page' = page + 1 /\ pages' = more
                                         /\ UNCHANGED <<issuer, step, index, learnt, obs, stopped>>
              [] OTHER -> Observe(HistoryRead(FALSE, more), "registry")

-----------------------------------------------------------------------------
(* Backpack: one request for all assets.                                   *)

BObservation(a, identity) == [asset |-> a, identity |-> identity, actions |-> "unavailable"]
All(o) == [k \in 1..Len(Selected[issuer]) |-> [o EXCEPT !.asset = Selected[issuer][k]]]

\* parseBackpackRegistry: one entry of the symbol, one Solana token in it, the
\* catalogue's mint and decimals.
Listed(entries) == Len(entries) = 1 /\ entries[1] = <<"own">>

Listing(answer, found) ==
  /\ step = "listing"
  /\ Requested
  /\ obs' = [obs EXCEPT ![issuer] =
       CASE answer = "ok" -> [k \in 1..Len(Selected[issuer]) |->
              BObservation(Selected[issuer][k], IF Listed(found[Selected[issuer][k]]) THEN "observed" ELSE "failed")]
         [] answer = "fails" -> All(BObservation(Asset, "failed"))
         [] answer = "stop" -> All(BObservation(Asset, "skipped"))]
  /\ stopped' = [stopped EXCEPT ![issuer] = IF answer = "stop" THEN 0 ELSE @]
  /\ NextIssuer

-----------------------------------------------------------------------------
(* Ondo: two requests for all assets, then two for each.                   *)

\* How many records there may be in what was observed: pauses and multipliers
\* in any number, one dividend.
Counts(s) == IF s = "observed" THEN 0..MaxNotices ELSE {0}
Notices(pauses, multiplier, dividend) ==
  {p + m + IF dividend = "observed" THEN 1 ELSE 0 : p \in Counts(pauses), m \in Counts(multiplier)}

OObservation(identity, pauses, multiplier, dividend, notices) ==
  [asset |-> Asset, identity |-> identity, pauses |-> pauses,
   multiplier |-> multiplier, dividend |-> dividend, notices |-> notices]
\* parseOndoAddresses: one row of the symbol, one Solana address in it.
Addressed(rows) == IF Len(rows) = 1 /\ rows[1] = <<"own">> THEN "observed" ELSE "failed"
OAll(s) == OObservation(s, s, s, s, 0)
Outcome(answer) == IF answer = "ok" THEN "observed" ELSE "failed"

\* No credentials: nothing is asked.
OndoUnavailable ==
  /\ step = "addresses"
  /\ obs' = [obs EXCEPT ![issuer] = All(OAll("unavailable"))]
  /\ NextIssuer
  /\ UNCHANGED <<published, requests, stopped>>

\* The addresses of everything; without them the issuer is given up.
Addresses(answer) ==
  /\ step = "addresses"
  /\ Requested
  /\ IF answer = "ok" THEN step' = "status" /\ UNCHANGED <<issuer, index, page, pages, learnt, obs, stopped>>
     ELSE /\ obs' = [obs EXCEPT ![issuer] = All(OAll("unavailable"))]
          /\ stopped' = [stopped EXCEPT ![issuer] =
               IF answer = "stop" THEN 1 + 2 * Len(Selected[issuer]) ELSE @]
          /\ NextIssuer

\* The pauses of everything: a failure is noted with every asset.
Status(answer) ==
  /\ step = "status"
  /\ Requested
  /\ IF answer = "stop"
       THEN /\ obs' = [obs EXCEPT ![issuer] = All(OAll("unavailable"))]
            /\ stopped' = [stopped EXCEPT ![issuer] = 2 * Len(Selected[issuer])]
            /\ NextIssuer
       ELSE /\ step' = "multiplier" /\ learnt' = [learnt EXCEPT !.pauses = Outcome(answer)]
            /\ UNCHANGED <<issuer, index, page, pages, obs, stopped>>

\* Requests not made after a stop, here of them for this asset.
LeftAfter(here) == here + 2 * (Len(Selected[issuer]) - index)

Multiplier(answer) ==
  /\ step = "multiplier"
  /\ Requested
  /\ IF answer = "stop"
       THEN \E rows \in Rows : \E n \in Notices(learnt.pauses, "failed", "skipped") :
              Stop(OObservation(Addressed(rows), learnt.pauses, "failed", "skipped", n), OAll("skipped"), LeftAfter(1))
       ELSE /\ step' = "dividend" /\ learnt' = [learnt EXCEPT !.multiplier = Outcome(answer)]
            /\ UNCHANGED <<issuer, index, page, pages, obs, stopped>>

Dividend(answer) ==
  /\ step = "dividend"
  /\ Requested
  /\ \E rows \in Rows : \E n \in Notices(learnt.pauses, learnt.multiplier, Outcome(answer)) :
       LET o == OObservation(Addressed(rows), learnt.pauses, learnt.multiplier, Outcome(answer), n)
       IN  IF answer = "stop" THEN Stop(o, OAll("skipped"), LeftAfter(0))
           ELSE Observe(o, "multiplier")

Answers == {"ok", "fails", "stop"}
AnyVersion(a) == 0..published[a]

Next ==
  \/ \E a \in Xstocks : Publish(a)
  \/ \E answer \in Answers : \/ Addresses(answer) \/ Status(answer)
                             \/ Multiplier(answer) \/ Dividend(answer)
                             \/ \E deployments \in Mints : Registry(answer, deployments)
                             \/ \E found \in [Range(Selected["backpack"]) -> Rows] : Listing(answer, found)
  \/ \E answer \in {"limit", "fails", "stop"} : HistoryFails(answer)
  \/ step = "history" /\ \E v \in AnyVersion(Asset) : \E q \in 1..TotalPages(v) : HistoryPage(v, q)
  \/ OndoUnavailable

Spec == Init /\ [][Next]_vars

-----------------------------------------------------------------------------
(* The report.                                                             *)

Complete(i, o) ==
  /\ o.identity = "observed"
  /\ CASE i = "xstocks" -> o.actions = "observed"
       [] i = "ondo" -> o.pauses = "observed" /\ o.multiplier = "observed" /\ o.dividend = "observed"
       [] OTHER -> TRUE
HardFailure(i, o) == IF i = "xstocks" THEN o.identity # "observed" \/ o.actions \in {"failed", "skipped"}
                     ELSE ~ Complete(i, o)

\* The state of an issuer's group, which decides the exit code.
IssuerState(i) ==
  LET hard == Len(SelectSeq(obs[i], LAMBDA o : HardFailure(i, o)))
      whole == Len(SelectSeq(obs[i], LAMBDA o : Complete(i, o)))
  IN  CASE i = "ondo" /\ requests[i] = 0 -> "unavailable"
        [] hard = Len(obs[i]) -> "failed"
        [] whole < Len(obs[i]) -> "partial"
        [] OTHER -> "observed"

Reported(i) == step = "done" /\ Selected[i] # <<>>

\* validateObservationReport: every selected asset is there or its issuer was
\* stopped, none twice, ...
GroupsMatch ==
  \A i \in Issuers :
    LET seen == [k \in 1..Len(obs[i]) |-> obs[i][k].asset]
    IN  /\ IsInjective(seen) /\ Range(seen) \subseteq Range(Selected[i])
        /\ Range(seen) = Range(Selected[i]) \/ stopped[i] # None

\* ... the registry names the catalogue's underlying (not null), the events are of it, ...
IdentitiesMatch ==
  \A o \in Range(obs["xstocks"]) : o.identity = "observed" =>
    Underlying[o.asset] = "match" /\ \A r \in Range(o.records) : r.own

\* ... and there is no more than the review will look at: requests, revisions and
\* Ondo's notices.
SourceRecords ==
  LET revisions(k, o) == k + Len(o.records)
      notices(k, o) == k + o.notices
  IN  requests["xstocks"] + requests["backpack"] + requests["ondo"]
        + FoldLeft(revisions, 0, obs["xstocks"]) + FoldLeft(notices, 0, obs["ondo"])
Accepted == GroupsMatch /\ IdentitiesMatch /\ SourceRecords <= MaxRecords

-----------------------------------------------------------------------------
(* Properties.                                                             *)

TypeOK ==
  /\ issuer \in Issuers \union {"none"} /\ (step = "done" <=> issuer = "none")
  /\ page \in 1..(MaxPages + 1)
  /\ requests["xstocks"] <= Len(Selected["xstocks"]) * (1 + MaxPages)
  /\ \A i \in Issuers : stopped[i] \in Nat \union {None}

\* A history reported as fully fetched is one state the issuer's history was
\* in: no revision is missed or read twice while the issuer publishes between
\* two pages, whatever old pages or wrong pages the service answers with.
FullIsSnapshot ==
  \A o \in Range(obs["xstocks"]) : o.actions = "observed" =>
    \E v \in 0..published[o.asset] :
      Range(o.records) = Range(SubSeq(History[o.asset], 1, v))

\* The heads of what was read are its latest revisions, one for each event,
\* in whatever order the pages came.
HeadsAreLatest ==
  \A o \in Range(obs["xstocks"]) :
    o.heads = {r \in Range(o.records) : \A s \in Range(o.records) : s.event = r.event => s.version <= r.version}

\* Every selected asset is reported, once and in order, also after a stop.
EveryAssetReported ==
  \A i \in Issuers : Reported(i) => [k \in 1..Len(obs[i]) |-> obs[i][k].asset] = Selected[i]

\* What a stop left out is accounted for: the requests made and the requests
\* left out are those of a whole read, and assets are left out one by one.
StopIsAccounted ==
  /\ (Reported("ondo") /\ stopped["ondo"] # None) =>
       requests["ondo"] + stopped["ondo"] = 2 + 2 * Len(Selected["ondo"])
  /\ (Reported("xstocks") /\ stopped["xstocks"] # None) =>
       Cardinality({k \in 1..Len(obs["xstocks"]) : obs["xstocks"][k].identity = "skipped"}) = stopped["xstocks"]

\* A group is reported as observed only when nothing of it is missing.
SummaryIsHonest ==
  \A i \in Issuers : (Reported(i) /\ IssuerState(i) = "observed") =>
    stopped[i] = None /\ \A o \in Range(obs[i]) : Complete(i, o)

\* An issuer that has stopped the reader is not asked again.
StopIsObeyed == \A i \in Issuers : stopped[i] # None => requests'[i] = requests[i]

\* The review takes every report the readers make, but for two that they can
\* make as well: one with a registry whose underlying is null or another than
\* the catalogue's, which the readers call observed, and one with more records
\* than the review's limit.  No stop, failure or partial history is refused.
ReportIsAccepted ==
  step = "done" =>
    (Accepted <=> /\ \A o \in Range(obs["xstocks"]) : o.identity = "observed" => Underlying[o.asset] = "match"
                  /\ SourceRecords <= MaxRecords)

=============================================================================
