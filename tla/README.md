# DividendX: a TLA+ verification project

DividendX splits a year of a tokenized stock into two claims. Collateral goes into a vault
before the year starts; every raw unit mints one PT (principal) and one DR (dividend) claim; an
attestor journals the year's dividends as multiplier changes of the collateral mint; after
maturity the journal is sealed, folded into one exact ratio, and the backing is divided into a PT
pool and a DR pool from which both sides redeem. Around this Solana program there are a
TypeScript SDK, a hosted devnet faucet, a service that rents sandboxes, the runtimes inside the
sandboxes, a web application, the operator's commands and the issuer readers.

This directory models the parts of the repository that carry its own logic, checks them with TLC
on small instances, and proves the main results with TLAPS for every value of the constants.
`PROJECT.json` holds the correspondence between definitions and source lines, the runs, the
mutants that show each property can fail, the hazards and the theorems.

## 1. The system

| Part | State | Operations | Hard because |
|---|---|---|---|
| program (`programs/dividendx`) | config, asset policy, series, event heads and revisions, accumulator, vault, two claim mints | 13 instructions | anybody acts between two calls; the issuer controls the mint; rounding; counters kept by differences |
| exact arithmetic and calendar (`math.rs`, `calendar.rs`) | none | decode, multiply, split, payout; parse a date | floors must add up whatever the cut; leap years |
| transaction SDK | a snapshot, a quote | quote, build, submit | the snapshot is old when the call lands; the rules are written twice |
| hosted devnet service | one JSON ledger, transactions on a chain | reserve, lease, prepare, persist, send, release, reconcile | stateless workers, crashes, expiring leases, lost answers, forks |
| RPC start scheduler | a queue, a timer, a pause | enter, start, abort, close | timers and aborts race; deadlines pass in the queue |
| JSON store | documents with etags | read, create, compare-and-swap | a put can be applied and still report an error |
| hosted session broker | session ledger, one meter per session, sandboxes at a provider | start, reset, current, reconcile, proxy | two documents and a provider, no common transaction |
| HTTP edge | cookies | manifest, faucet, session routes | answers of two tabs set the same cookie |
| hosted gateway | phase, slots, mutation queue, child process | handle, forward, fail, expire, close | timers and child events race with requests |
| local and guided runtime | a local chain, a step cursor, a journal on disk | faucet, advance, start, step | several transactions for one request |
| devnet runtime and operator scripts | a private state file, receipts | bootstrap, expand, prove, endow, probe | killed between writing and sending; repeated; run twice |
| AMM integration | a Raydium pool | fund, create, add, swap, remove | other traders act between the steps |
| SDK reference, rehearsal client | a ledger in memory | deposit, trade, settle, redeem | must agree with the program |
| issuer readers and review | reports | read pages, join, review | pages are stale, contradict each other or stop |
| web application | React state over late answers | quote, submit, poll, reset, step | answers of another wallet, sandbox or runtime |

How they interact: wallets read the series through the SDK and submit guarded instructions to the
program. The devnet service signs grants and observation refreshes and talks to the chain by RPC
through the start scheduler; its workers share nothing but the ledger in the JSON store. The
broker, reached through the HTTP edge, keeps its ledger in the same kind of store and creates
sandboxes in which a gateway fronts a local or guided runtime; these drive the program through
its whole year. The web pages talk to all of them.

What makes each part correct:

* *program*: the vault holds what the series owes; claim supplies match the backing; pools and
  payouts are exact and independent of order; the sealed journal is the one that counts; a final
  series stays final; holders can always leave a healthy series.
* *SDK*: a quote is filled exactly or not at all, and the SDK offers what the program takes.
* *devnet service*: a grant pays at most once, the ledger never contradicts the chain, and no
  budget is overspent, whichever worker stops where.
* *store*: no update that was reported as done is lost, none is half applied, and none is repeated
  but the one that created the document, when its own answer was lost.
* *broker, edge, gateway*: a sandbox that runs is counted, capacity comes back, what reaches a
  sandbox was charged, a closed session receives nothing, a visitor keeps what it was told of.
* *runtimes and commands*: an interrupted sequence is continued and nothing in it happens twice
  (under the conditions of section 4); what is published is so.
* *web application*: what is submitted is of the context it was quoted in, what is shown does not
  go back, and operations, calls, resets and tour actions end.

## 2. The modules

| Module | Models | Checked by |
|---|---|---|
| `DividendMath`, `Calendar` | `math.rs`, `calendar.rs` | `MCAnnualSeries`, `MCReference` |
| `AnnualSeries` | the whole program for one asset and one series, the issuer, direct token transfers, the clock | `MCAnnualSeries` |
| `AnnualClaims` | abstract: what holders are promised | refined by `AnnualSeries`, `AnnualReference` and `DemoClient` |
| `GuardedQuotes` | the SDK's quotes, composed with `AnnualSeries` | `MCGuardedQuotes` |
| `FaucetJournal` | the hosted devnet service, its store and its chain | `MCFaucetJournal` |
| `HostedSessions`, `VisitorEdge` | the broker with its provider; the HTTP edge and the browser's tabs | `MCHostedSessions` |
| `HostedGateway`, `RpcPath`, `RpcStartScheduler` | the gateway; the two reviews of RPC calls and the meter; the scheduler | `MCHostedGateway`; `RpcPath` itself for the balance |
| `JsonCasStore`, `AtomicCounts` | the store; abstract: a document that changes by whole mutations | `MCHostedGateway` |
| `ResumableSteps`, `DevnetBootstrap`, `CatalogProof` | the engine of persisted attempts; the catalogue's bootstrap and the holder proof on it | `MCOperator` |
| `FaucetEndowment`, `ProviderProbes` | the transfer that funds the services; the probes of the sandbox provider | `MCOperator` |
| `LocalRuntime`, `GuidedRuntime`, `GuidedJourney` | the controls of the local network; the guided session; what its fifteen steps do to the balances | `MCRuntimes` |
| `CpmmLedger`, `AmmFlow` | the pool's arithmetic; the round trip | `MCRuntimes` |
| `WalletApp`, `WalletRequests`, `SessionGate`, `GuidedTour` | the pages and the queue of their calls | `MCWeb` |
| `AnnualReference`, `DemoClient` | the reference engine and the rehearsal client | `MCReference` |
| `IssuerReads`, `QualificationReview` | the readers and the review | `MCReference` |
| `AnnualSeriesProofs`, `FaucetJournalProofs`, `HostedSessionsProofs`, `VisitorEdgeProofs`, `HostedGatewayProofs`, `OperatorProofs` | invariants and theorems of the components | TLAPS |
| `MCHostedGateway`, `MCOperator` | also theorems: what the components prove, of the compositions the runs check | TLAPS and TLC |

`MCHostedSessions` holds only model values and the symmetry: the composition it checks (the parts,
`ServiceSpec`, `VisitorIsKept`, `AnswersAreMeant`) is at the end of `HostedSessionsProofs`, where
theorems are proved of it. `MCOperator` gives each command with the proofs of its invariant first,
and the parts, their properties and the theorems about them last.

**Parts.** A run that asks one question of several components, or of one component under several
constants, has a variable `part`. The MC module holds the variables of all its components and one
INSTANCE for each part; `MCInit` chooses the part, and a behaviour takes only the steps of that
part while the variables of the others stand still. The properties say `part = "x" => ...`. So a
part's behaviours are exactly those of its instance, and nothing couples the parts.

**Atomicity.** In the TypeScript components a `pc` names the await a handler, worker or page is
at; everything between two awaits is one step, because JavaScript runs it without interruption.
In the program an instruction is one step, because Solana runs it entirely or not at all.

### The program

*DividendMath.* Multipliers are IEEE doubles in the code; here they are positive floating-point
numbers with `FractionBits` fraction bits and exponents up to `Span`, decoded as in
`decode_multiplier` (normal numbers inside a range, everything else refused). The accumulated
fraction is an exact pair of naturals bounded by `BigLimit`, as `bounded_bytes` bounds it by 8192
bits. `SplitPools` and `RedemptionPayout` are the code's formulas.

*AnnualSeries.* Each of the 13 instructions is one action: its `require!`s are conjuncts, its
token-program calls and its final `bump_state_version` part of the action. What a holder's
instruction needs is also there as a predicate of the state (`DepositAccepted`,
`RecombineAccepted`, `RedeemAccepted`), so that a property can say that an instruction would be
accepted. Event revisions keep
their hash chain, with a hash modelled as the tuple of what it hashes. What the program does not
control is an action marked external in the map: `AdvanceClock`, the issuer (`UpdateScale`,
`UpdateControls`, `SetTransferable`, `SetFrozen`, `Seize`) and holders using the token programs
directly (`Donate`, `TransferClaim`, `BurnClaim`). `donated`, `seized` and `burned` are history
variables. Unix time and slot advance together; addresses and digests are model values.

*AnnualClaims.* Five variables and four actions: fund, unwind, settle once, redeem. A side that
has handed in `r` of the `S` claims has been paid `floor(r * pool / S)`, no matter how.

*GuardedQuotes.* `quote[h]` is what a wallet holds between asking the SDK and submitting. The
snapshot is one `getMultipleAccounts` answer, so quoting reads a single state; submission is any
number of steps later. The SDK's eligibility rules and its payout arithmetic are translated from
the TypeScript, not shared with `AnnualSeries`: that the two agree is a property.

### The services

*FaucetJournal.* Each `DurableJournal` mutation is one atomic step, which `JsonCasStore` justifies,
but its outcome is `"saved"`, `"lost"` (applied, answer lost) or `"unsaved"`, and the worker cannot
tell the last two apart. The time a mutation uses was read before it, so it may be up to `Lag`
older than the ledger. The chain keeps transactions that were sent, processes them up to their
last valid height, and confirms blocks with any subset of what was processed: the rest was on a
fork. Amounts are counted in reservations, and a lease's random holder is represented by its
fence, which is as unique.

*HostedSessions.* A handler runs `start`, `reset`, `current` or a proxied request, and dies at any
await. The ledger transaction normalizes the records (expiry, tombstones) before it writes, as
`mutate` does. A create call may reach the provider late, after its handler gave up; a stop may
fail with the sandbox untouched. `drawn` remembers the session ids that were ever drawn, because
128 random bits are not drawn twice.

*JsonCasStore.* `mutateJson` over `BlobJsonCasStore`: a put is on its way until the service carries
it out or refuses it, whether or not its caller still waits. A document is how often each caller's
mutation was applied to it, which is what tells a lost, doubled or half-applied update.

*HostedGateway, RpcPath, RpcStartScheduler, VisitorEdge.* Handlers, timers and the child process
interleave; a call carries what the reviews look at (method, arity, sizes, options, the kind of its
id) and nothing else; a browser keeps the last cookie an answer set.

### The runtimes, commands and pages

*ResumableSteps* is the engine `executeResumableStep`: an attempt is written before it is sent and
reconciled before another is made. `DevnetBootstrap` and `CatalogProof` extend it with the steps
of their command, its state file and its budget. *LocalRuntime*, *GuidedRuntime* and *AmmFlow*
carry sequences of transactions through, each of which may land, fail, or land without a
confirmation. *GuidedJourney* computes the balances of the fifteen steps with the pool's and the
program's arithmetic for every size of a stock unit between half and twice the quote unit.
*IssuerReads* reads pages of a history that may grow or contradict itself and counts what each
issuer's file holds, events, notices and mints alike; *QualificationReview* then decides on a whole
input (history status, records with their body, factors, action and status, joins, announcements,
copies, identity, times, mint observation) which blockers each event and the review itself get.
The pages (*WalletApp*, *SessionGate*, *GuidedTour*) hold their React state and refs; a render is an
action, because a closure keeps what it was rendered with.

## 3. The runs

| Run | Shows |
|---|---|
| `custody` | Two holders deposit, trade, recombine and redeem around every class of journal entry: custody, supplies and pools stay exact, every change a quote depends on moves the version, finality is permanent, and the program implements `AnnualClaims`. |
| `journal` | Two events are revised from class to class, sealed, aborted, sealed again and accumulated: counters, heads, seal, accumulator and pools agree with a recount of the journal. |
| `issuer` | The issuer moves the scale, changes controls, pauses, freezes and takes collateral: a holder of a whole vault can always leave, and a seal whose conditions keep holding ends. |
| `quotes` | A quote is filled exactly or not at all; the SDK offers a call exactly when the program takes it. |
| `faucet` | Workers race over grants with crashes, lost and failed writes, old clocks, failing RPC and dropped forks: a grant pays once, the ledger tells the truth, quotas and budget hold. |
| `sessions` | Visitors start, reset and use sandboxes through handlers that interleave and die, and through the tabs of a browser whose answers are lost or late: capacity and meters stay exact, a browser with one tab keeps its identity, and only the answer to a first request replaces that of one with two. |
| `gateway` | Slots, order, budgets and documents stay exact through the gateway, the reviews, the scheduler and the store (a call whose create was taken for another's may count twice), and everybody is answered. |
| `operator` | Commands killed at any await, repeated and run twice at once pay nothing twice as long as no block that reported an error is dropped and `state.json` is kept; what they publish is so even if not; repeated, they finish or stand at something every run refuses. |
| `runtimes` | Sequences interrupted after any transaction, repeated and disturbed: nothing happens twice but a faucet payment whose confirmation was lost, what is reported is so, and with a disk that works they end. |
| `web` | An action goes where the screen says, nothing shown goes back, a session is given up for a cause of its own or a late 410 of the sandbox before; operations, queued calls, resets and tour actions end. |
| `reference` | The reference engine and the rehearsal keep the holders' contract, the calendar is the calendar on every day from 1970 to 2102, and nothing is called observed or clean that is not. |
| `rpc_balance` | (violation) The broker refuses the reading of a balance which the gateway's documentation permits. |

**Bounds** are small but chosen so that the cases matter: the pools split unevenly and leave a
remainder, leases expire while their holder works, a blockhash expires between two reads, a create
call arrives after its handler gave up, and every counter reaches its limit. `MaxVersion` stands
for the u64 limit of `state_version` and `MaxRaw` for that of raw amounts, so the runs also meet
the overflow checks. `MaxFence`, `MaxAttempts`, `MaxHeight`, `MaxTime`, `MaxAsks`, `MaxRuns`,
`MaxFaults`, `MaxEvents` and the like limit how long an instance runs: two fences are a lease and
its takeover, two signatures are what a double payment needs, two sessions are one and its
replacement, two faults are one and another while it is repaired. Properties that two parts
disturb differently have a part each: `race` (two visitors and one sandbox), `resets` (one visitor
who resets while another request runs) and `use` (one sandbox and its meter) for `sessions`, with
`tab` (one tab), `kindred` (two pages of one kind) and `devnet` (a sandbox page and the faucet's)
for its browsers. In `runtimes`, `faucet` has confirmations that arrive and `lossy` has not: there
the faucet pays a wallet at most once more for each confirmation that was lost. In `reference`,
`pages` reads up to four pages of a history that grows and contradicts itself; `walk` reads assets
of all three issuers with one page at most and a limit of 12 records, which a whole report exceeds;
`joins` has
every sequence of up to three revisions and two joins; `evidence`, `histories` and `mint` each vary
one kind of evidence in full: times, copies and identities; histories observed, partial, failed or
unavailable with every factor, action and status; and mint observations.

**Symmetry** is used where the permuted values are interchangeable in the module and in every
property of the run, and where the run has no liveness property: workers in `faucet`, handlers,
session ids and visitors in `sessions`, accounts in `reference`.

**Deadlock** checking is off in every run because every instance ends: clocks, versions, heights
and the numbers of requests are bounded, and the systems modelled may rest.

**Fairness**, and what justifies it:

* `issuer`: weak fairness of `AccumulateEvent` and `CompleteFinalization` together. Both are
  permissionless in `contexts.rs`, so some interested holder submits one that stays enabled. The
  property only asks for an end while the conditions `complete_finalization` re-checks hold.
* `gateway`: timers fire, a killed process dies, fetches and bodies have deadlines, and a function
  takes its steps. An attempt of discovery may fail for as long as its deadline is ahead. The
  service need not carry out a put.
* `operator`: a command that runs takes its steps, the operator repeats the one that is unfinished
  (strongly, since a command that is killed leaves the place where it can be started), blocks keep
  coming. Nothing makes the cluster include a transaction. A run's minute passes strongly, because
  each turn of its loop leaves the place where the clock is read.
* `runtimes`: the event loop runs every settled promise on, RPC calls have timeouts, and a user who
  is not told of the end presses again (strongly: the control is disabled while an operation runs).
* `web`: requests are answered or time out, timers fire, React renders. The wallet's prompt is the
  visitor's and is not fair; a wait that is over as often as it is looked at ends (strong).

**What the chain may contradict.** `transactionStatus` reports an error as soon as any block, even
an unconfirmed one, holds it. A grant may therefore be recorded as failed and still be paid when
that block's fork is dropped. No property claims otherwise: the grant still pays at most once and
its reservation stays spent.

## 4. What disagrees with the repository's own words

The run `rpc_balance` is the finding listed in `PROJECT.json`: the broker's list of RPC methods
leaves out `getBalance`, which `packages/hosted-gateway/README.md` permits and the wallet page
calls, so a page in a hosted sandbox never learns its SOL balance.

The models also showed the following while they were written. The properties of the passing runs
are stated so that they say what does hold, and their comments name the exception; the parts named
leave out the one circumstance.

* *Gateway* (`server.mjs:325`, `validateGuidedState`): two reads that both find no genesis bound
  each bind and deliver their own chain, though the specification has the first observed one bound.
  Delivery of one chain is checked for the wallet gateway; for both, that each delivered chain was
  vouched for.
* *RPC policy* (`broker.ts:15`): because of `getBalance`, `CallsMetered` says that the calls of the
  wallet page pass both reviews *except* the reading of its balance (`BalanceCall`).
* *Devnet runtime* (`transactions.ts:60, 72`, `reconcilePersistedAttempt`): an error seen only in an
  unconfirmed block permits a replacement, where `spec/devnet-runtime-v1.md:29` asks for a definite
  failure, and both attempts may land (`ForkedErrors`). `bootstrap.ts`: after `state.json` is lost
  the first repeated run refuses the existing assets and the second accepts them
  (`StateCanBeLost`). `NothingPaidTwice` holds of the registry tool and the holder proof without
  these two; what is published (`EvidenceIsTrue`) is right with them.
* *Local runtime* (`server.mjs:296-311`): a transfer that lands without its confirmation is not
  remembered, so that the faucet pays it again, where `packages/local-runtime/README.md:30` says once
  for each wallet and asset, and its failure is not reported as partial. `FaucetPaysOnce` allows one
  repetition for each lost confirmation, and none where none is lost.
* *Guided runtime* (`runtime.ts`): when the write that closes a step fails, a step accepted
  meanwhile can be reset under way; when the write of an accepted request fails, the state stays
  pending with nothing behind it (`PersistCanFail`). One operation, the journal before the
  confirmation and the end of operations are checked with a disk that works; that nothing is
  repeated, also with one that fails.
* *Wallet page* (`WalletApp.tsx:437-459`): an operation of the previous wallet can supersede the new
  wallet's read of its inventory, which then stays loading. `WaitsEnd` does not promise its end.
* *Session gate* (`session.tsx:182`, `sandbox-main.tsx:15`): a 410 for the replaced sandbox marks
  whichever session is shown as expired, though stale answers are to be ignored after a replacement
  (`spec/guided-lazy-entry.md:9`; `tests/hosted.spec.ts:462` has it for the tour, which compares the
  ids). `ExpiresForCause` says that this is the only way a session that still runs is given up. A
  check by hand overtaken by a failing poll stays loading (`session.tsx:121-134, 166-170`).
* *Guided tour*: a late 410 can discard the answer of a reset under way without a reconciling read;
  a click before the first read of a busy runtime leaves the page pending
  (`GuidedDemosApp.tsx:355, 367`), which `WaitsEnd` does not exclude: it says that the action ends.
* *Issuer readers*: a registry entry whose underlying is null is observed by the reader
  (`xstocks.ts:75`) and refused by the review (`qualification-schema.ts:181`), and a report of all
  assets with 100 pages of 100 records each exceeds the 10,000 records the review takes
  (`qualification-schema.ts:224`). `ReportIsAccepted` says that a report is refused for these two
  reasons and no other. *Review*: an announcement reused through the second of two joins is not
  marked.
* *HTTP edge* (`http.ts:98`): two tabs opened before the first cookie; the later answer replaces the
  cookie and the running sandbox is no longer the browser's. `ReloadReconnects` is checked for one
  tab; for two, that only the answer to a request sent without a cookie replaces it
  (`OnlyFirstRequestsReplace`).
* *Store* (`json-store.ts`): the very first write of a document may be applied twice when the answer
  to its create is lost, because the document it then finds is taken for somebody else's
  (`AppliedOnce` says so).
* *Provider probe* (`hosted-provider-probe.mjs`): it leaves its meter documents behind, also when it
  passed, deletes its ledger even when a lookup of its sandboxes failed, and names none of the
  sandboxes that may be left. `PassedIsClean` is about sandboxes and the ledger; `LeftIsNamed` is
  checked for the capacity probe only.

## 5. The proofs

All proofs are checked by TLAPS with SMT (Z3), Zenon and LS4. They assume only what the
constants' assumptions say, which TLC evaluates in the runs.

**`AnnualSeriesProofs`** (any holders, events, payloads, scales, amounts and limits):

* The inductive invariant `Inv` is the conjunction of `TypeOK`, `CustodyExact`, `SupplyExact` and
  `PoolsConsistent`. None of them is inductive alone: that a redemption lowers the vault and the
  debt by the same amount, and that the amount is a natural number the vault can pay, needs
  `PoolsConsistent` and the monotonicity of the cumulative floor, for which division lemmas
  are proved first; `PoolsConsistent` in turn needs the types.
* One lemma per group of actions (`AdministrationInv`, `CustodyInv`, ...), then `NextInv`, then
  the theorems `TypeCorrect`, `CustodyCorrect`, `SupplyCorrect`, `PoolsCorrect`.
* `JournalCorrect`: the counters, heads, newest revisions and indices are a recount of the journal,
  after any sequence of revisions, replays, seals and aborts. `JournalInv` adds that the live events
  are finite, so that they can be counted, and that only live events have revisions, so that a
  first revision is the highest of its event. Only `AppendRevision` writes the journal; its
  differences (`Reclassified`) are compared with the cardinalities before and after.
* `VersionGuards`: no fact of the series changes while `state_version` stands still.
* `SealCorrect`: the sealed journal is the journal. `FinalityCorrect`: a finalized series only
  redeems, and its mints never mint again (with the auxiliary invariant that both authorities
  are gone).
* `Refinement`: `AnnualSeries` implements `AnnualClaims`.

* `SplitCorrect`: the accumulator is the product of the in-year ratios of the journal and the pools
  are the backing split once by it. `Products` is a recursive function; that some function satisfies
  its definition at all, and that a product over one more place is the product times one factor, is
  shown by induction, which here goes through the least element of a set of numbers (`NatMin`,
  `SetInduction`), because the library's induction theorems take an operator.
* `ExitsAreOpen` and the two about the SDK say that an instruction *would be accepted*, with the
  predicates `DepositAccepted`, `RecombineAccepted` and `RedeemAccepted` instead of ENABLED. That a
  holder's burn cannot fail needs the holdings to add up to the supply, for any set of holders: the
  units of a claim are pairs of a holder and a number (`Units`), a finite set whose cardinality is
  the supply (`Held`). `Minting` and `Revoked` follow the mint authorities.

The last sections are about *GuardedQuotes* (any number of quoting holders): `QuoteInv` joins `Inv`,
the shape of a waiting quote and `QuoteCurrent`. The key lemma is `VersionMoves`: a step either
keeps the version and everything a quote was computed from, or raises the version, after which
`check_guard` refuses the quote. From it follow `QuotesCurrent`, `QuotesExact`,
`QuotesRefineSeries` (the composition implements the series, so every theorem above holds of it)
and, with `Fillable`, `ExitQuotesAreHonoured`; `ClientIsRight` compares the SDK's copy of the rules
with the program's.

**`FaucetJournalProofs`** (any workers, owners, assets, attempts, clocks and limits; any subset of
the outcomes of a write; with or without crashes and failures):

* That a grant pays once is not inductive. It rests on what was sent being recorded (`ChainInv`),
  that on a worker sending only what the ledger holds, and that on what the worker may still rely
  on at each of its awaits (`LocalInv`, place by place), although others wrote the ledger in
  between. `RecordOK` ties a record's state to the chain: confirmed means settled, expired means
  that the transaction can never be included any more.
* A worker's step is treated once, by `WorkerStep`: it stores a ledger that is a `Successor` of the
  old one (no attempt is replaced, no terminal state is left) or none, and moves on. What is then
  left for each action is that its ledger is a successor.
* `PaidOnce`, `LedgerIsTrue`, `TerminalStays`; and `LimitsCorrect`, from `BooksInv`: the daily
  quotas and the lifetime budget are cardinalities of the sets of operations they were charged for.

**`HostedSessionsProofs`** (any handlers, session ids, visitors, kinds and limits). Assumed:
`TimingAssumption`, the order of the code's durations (a function and a create call it made end
before the provisioning deadline, that before a session's lifetime, and a create call is later than
its handler by less than a tombstone stays), and `NoneAssumption`, that `None` is none of the values.

* `SandboxesAreCounted`: a sandbox that runs, or may still come, holds capacity; there are no more
  than the limit and one to a visitor; capacity comes back; every launch is recorded.
  `RequestsAreCharged`: what reached a sandbox was charged first, within its budget.
  `NothingEverReopens`: a session that ended is never ready again and a closed meter stays closed.
* The invariant has six parts. `RecordsOK`: what a record says of the provider is so, or is too
  careful. `BoxesOK`: a sandbox belongs to a record while it lives, and its timeout is late by no
  more than its create call was under way. `HandlersOK`: what a handler remembers across an await
  is still worth something, by where it stands; one handler at most is creating for a session.
  `OccupiedOK`: the sandboxes that live *or whose create call is still open* are within the limit;
  counting only the live ones is not inductive, because a late create call adds one. `MetersOK`:
  what was sent plus the requests under way is within what the meter counted.
* `Evolves` says what may happen to a session while others are worked on; records, views and
  handlers that were right stay right while their session evolves (`RecordCarries`, `ViewCarries`,
  `HandlerCarries`). So every action has to show only what it does to its own session: `Waits` for
  the handlers that stand still, `Moves` for the one that acts.

**The browsers** (`VisitorEdgeProofs`, any tabs of any origins, cookies and sandboxes). `EdgeInv`
says what a request on its way is worth: it was sent for the session its page was told of (`Meant`),
and an answer that sets a cookie answers a request that had none (`Recognised`); for one tab also
that the sandbox belongs to whoever the cookie names (`Belongs`). `EdgeIsTrue` and, for one tab,
`LoneTabIsKept`. `HostedSessionsProofs` carries them to the service's three browsers
(`VisitorStays`, `AnswersStayMeant`), whose steps leave the broker alone and the other way round.

**`HostedGatewayProofs`** (any requests, chains, runtime ids, pages, callers and limits):

* *The gateway.* `IInv` says what a handler that waits may rely on: its place in the queue
  (`Turns`), the counters as cardinalities of the sets of handlers under way (`Counted`), that nothing
  is admitted before discovery is over (`Bound`), where each chain on its way to an answer was
  verified (`Vouched`), and for a wallet that no handler rebinds it (`OneChain`).
  `GatewayStaysExact`, `EndIsTheEnd`.
* *The reviews.* `PathInv`: what is forwarded was accepted by the broker, and the meter covers what
  ran and what is on its way. `CallsStayMetered`.
* *The store*: `StoreIsAtomic` is the refinement of `AtomicCounts`, `StoreKeepsWhatItSaved` says that
  a call that returned has its mutation in the document and that none is applied twice but one whose
  own create made the document. The invariant: etags name documents, so that a view or a put with
  the document's etag holds its count; one put for each attempt, and a swap is the last a caller
  sent; no swap of a caller was applied while it may still try. This is what lets `FaucetJournal`
  and `HostedSessions` treat a mutation as one step that is saved, saved without an answer, or not
  saved.

`MCHostedGateway` carries the three to the composition the run `gateway` checks: a step is one of
its part and leaves the other parts' variables alone (`GatewayIsExact`, `EndedIsFinal`,
`CallsAreMetered`, `StoreIsExact`).

**`OperatorProofs`** (the registry tool; any assets, costs, ceilings and faults).

* `ToolInv` holds whatever the cluster drops and even if `state.json` is lost: where a run stands in
  its plan, everything before is settled (`Positions`), and a manifest is written over a finished
  plan (`Evidence`). `ManifestStaysReal`.
* `SpendInv` is for a cluster that keeps blocks which reported an error and a kept `state.json`: an
  attempt was written before it was sent (`Journaled`) and another is made only after it failed, or of
  a step that may be repeated (`Superseded`), nothing is signed before what precedes it is settled
  (`InTurn`), and at most one attempt may still have to be paid, for which the ceiling has room (`Budget`).
  `NothingIsPaidTwice`.

**`MCOperator`** proves the same of the other commands and then of all of them together.
`CatalogInv`: the engine's lemmas hold of the proof's steps, and an asset's receipt is earned by the
steps since its baseline. `EndowInv`: whoever holds an attempt after the file was written holds the
file's (`OneFile`), what landed is in the file, and what a run concludes the chain does not contradict
(`Sound`). `CapacityInv` and `ProviderInv`: what may be left of a probe is always known to the part
of it that comes next. `OperatorPaysOnce` assumes `ForkedErrors` and `StateCanBeLost` to be FALSE,
`OperatorEvidence` too, but for the part `worst`, an instance of its own in which both are TRUE.

**Only model-checked.** Liveness (`SealingEnds`, `RequestsEnd`, `CommandsEnd`, `OperationsEnd`,
`WaitsEnd`) is outside what the provers do. `StartsInTurn`, `SequencesAreExact`, `PagesStayTrue`,
`ReferencesAgree` and `ReviewsAreHonest` bundle components that are not proved about.

## 6. What is next

In this order: the start scheduler (starts spaced, in order, no wake-up lost); the reference
engine's implementation of `AnnualClaims`; the session gate and the tour (nothing shown goes back);
the guided runtime's journal.

## 7. Not modelled

Token-2022 extension parsing and account layouts (bytes, no behaviour of their own); address
derivation and IDL; keys, header wording and the parsing of origins; archive and file checks of the
issuer readers, `ondo-readonly.mjs` and the shapes of supplements; the capacity probe's meter mode,
which measures the ledger against itself; SOL top-ups, ELF parsing and manifests of the AMM
integration; layout and product pages of the web application; smoke tests, build and deployment.
Several series of one asset are not modelled together: they share only the asset policy, which
`AnnualSeries` lets change at any time.
