----------------------------- MODULE WalletApp -----------------------------
(***************************************************************************)
(* The wallet page of the browser application.  What the visitor sees and  *)
(* what a click means is decided by a context: the connected account, how  *)
(* often the wallet reported a change, and the annual series on screen.    *)
(* Everything else is asynchronous: reads of the series and of the wallet, *)
(* which finish in any order, and one operation at a time, which goes from *)
(* the click through verification, quote, wallet prompt and submission to  *)
(* a confirmation while the context may change under it at every await.    *)
(*                                                                         *)
(* A wallet's change event reaches the page before React renders it: in    *)
(* between, the page shows the old context.  A handler's state updates and *)
(* the effects of the render they cause are one step.                      *)
(***************************************************************************)
EXTENDS Integers, Sequences, FiniteSets

CONSTANTS
  Accounts, Series,
  Panels,       \* what the page shows of the wallet: its inventory, its SOL
  Http,         \* the private sandbox: confirmations are polled over HTTP
  MaxRevision,  \* bound on wallet change events
  MaxEpoch,     \* bound on restarts of the runtime behind the URL
  MaxOps,       \* bound on operations started
  MaxEvents,    \* bound on what the visitor, the wallet and the poll do
  None

ASSUME WalletAssumption ==
  /\ None \notin Accounts \cup Series
  /\ Panels \subseteq {"inventory", "sol"}
  /\ Http \in BOOLEAN
  /\ MaxRevision \in Nat /\ MaxEpoch \in Nat \ {0} /\ MaxOps \in Nat /\ MaxEvents \in Nat

VARIABLES
  epoch,     \* which runtime answers at the configured URL
  version,   \* how often the holder's accounts changed there
  runtime,   \* the page's runtime: [kind, manifest]
  ctx,       \* what is rendered: [account, rev, series]
  tab, dialog,
  queued,    \* a wallet event that is not rendered yet, or None
  active,    \* activeKey.current; None stands for "...:wallet-change"
  mounted,
  reads,     \* fetchWalletSeries in flight
  ready, stale, loading, shown,   \* quoteReadyKey, staleKey, loadingSnapshot, snapshotEntry
  panel,     \* the inventory and the SOL balance, each with its reads
  op,        \* the operation in progress
  ops,       \* how many were started
  events,    \* how much the visitor, the wallet and the poll did
  sent,      \* history: transactions handed to the RPC
  confirmed  \* history: for each context, the accounts' version its action reported

page == <<runtime, ctx, tab, dialog, queued, active, mounted>>
snapshotVars == <<reads, ready, stale, loading, shown>>
vars == <<epoch, version, page, snapshotVars, panel, op, ops, events, sent, confirmed>>

Contexts == [account : Accounts \cup {None}, rev : 0..MaxRevision, series : Series]
Identity(c) == [account |-> c.account, rev |-> c.rev]
Idle == [stage |-> "idle"]

-----------------------------------------------------------------------------
(* Reads.  A read is the latest until another read of its kind starts, or  *)
(* an effect withdraws it: readGeneration, inventoryGeneration and         *)
(* solGeneration.                                                          *)

Outdated(rs) == {[r EXCEPT !.latest = FALSE] : r \in rs}

\* The operation that awaits the read goes on when the read ends.
SnapshotRead(key, background, mine) ==
  [key |-> key, background |-> background, mine |-> mine, latest |-> TRUE, from |-> version]

PanelRead(id, mine) == [id |-> id, mine |-> mine, latest |-> TRUE]

\* refreshSnapshot in the foreground.
RefreshSnapshot(key, mine) ==
  /\ reads' = Outdated(reads) \cup {SnapshotRead(key, FALSE, mine)}
  /\ loading' = TRUE /\ ready' = None

\* refreshInventory and refreshSol, from a render with identity id.
Refreshed(pn, p, id, mine) ==
  [q \in Panels |->
     IF q # p THEN pn[q]
     ELSE [shown   |-> IF p = "sol" THEN None ELSE pn[q].shown,
           loading |-> TRUE,
           reads   |-> Outdated(pn[q].reads) \cup {PanelRead(id, mine)}]]

\* The first lines of the effects: what the previous identity left is dropped.
Cleared(pn, p) ==
  [q \in Panels |->
     IF q # p THEN pn[q] ELSE [shown |-> None, loading |-> FALSE, reads |-> Outdated(pn[q].reads)]]

\* Effects on the wallet's panels of a render of c with the asset dialog d.
PanelEffects(c, d) ==
  LET id == Identity(c)
      newWallet == id # Identity(ctx)
      inv == IF newWallet
             THEN LET cleared == Cleared(panel, "inventory")
                  IN IF c.account # None THEN Refreshed(cleared, "inventory", id, FALSE) ELSE cleared
             ELSE panel
      sol == IF newWallet \/ d # dialog
             THEN LET cleared == Cleared(inv, "sol")
                  IN IF d /\ c.account # None
                     THEN Refreshed(Refreshed(cleared, "sol", id, FALSE), "inventory", id, FALSE)
                     ELSE cleared
             ELSE inv
  IN panel' = sol

\* A render of c on tab t: keys are recomputed, effects run.
Rendered(c, t, d) ==
  /\ ctx' = c /\ tab' = t /\ dialog' = d /\ active' = c
  /\ IF c # ctx \/ t # tab
     THEN IF t # "market" THEN RefreshSnapshot(c, FALSE)
          ELSE ready' = None /\ UNCHANGED <<reads, loading>>
     ELSE UNCHANGED <<reads, loading, ready>>
  /\ PanelEffects(c, d)
  /\ UNCHANGED <<stale, shown>>

-----------------------------------------------------------------------------
(* Boot. *)

NoPanel == [shown |-> None, loading |-> FALSE, reads |-> {}]

Init ==
  /\ epoch = 1 /\ version = 0
  /\ runtime = [kind |-> "loading", manifest |-> None]
  /\ \E s \in Series : ctx = [account |-> None, rev |-> 0, series |-> s]
  /\ tab = "market" /\ dialog = FALSE /\ queued = None
  /\ active = ctx /\ mounted = TRUE
  /\ reads = {} /\ ready = None /\ stale = None /\ loading = FALSE /\ shown = None
  /\ panel = [p \in Panels |-> NoPanel]
  /\ op = Idle /\ ops = 0 /\ events = 0 /\ sent = {} /\ confirmed = [c \in Contexts |-> 0]

\* loadManifest: the manifest of the runtime that answers now.
LoadManifest ==
  /\ runtime.kind = "loading" /\ runtime.manifest = None
  /\ \/ runtime' = [runtime EXCEPT !.manifest = epoch]
     \/ runtime' = [runtime EXCEPT !.kind = "error"]
  /\ UNCHANGED <<epoch, version, ctx, tab, dialog, queued, active, mounted, snapshotVars, panel, op, ops, events, sent, confirmed>>

\* verifyRuntimeIdentity: genesis, program and deployment domain behind the
\* RPC are those of the manifest.
Identified == runtime.manifest = epoch

Boot ==
  /\ runtime.kind = "loading" /\ runtime.manifest # None
  /\ \/ Identified /\ runtime' = [runtime EXCEPT !.kind = "ready"]
     \/ runtime' = [kind |-> "error", manifest |-> None]
  /\ UNCHANGED <<epoch, version, ctx, tab, dialog, queued, active, mounted, snapshotVars, panel, op, ops, events, sent, confirmed>>

Retry ==
  /\ runtime.kind = "error"
  /\ runtime' = [kind |-> "loading", manifest |-> None]
  /\ UNCHANGED <<epoch, version, ctx, tab, dialog, queued, active, mounted, snapshotVars, panel, op, ops, events, sent, confirmed>>

-----------------------------------------------------------------------------
(* The visitor and the wallet. *)

Visible == runtime.kind = "ready" /\ mounted

Event == events < MaxEvents /\ events' = events + 1

Usable == Visible /\ queued = None

\* connectWallet answered and the dialog was not closed meanwhile.
Connect(a) ==
  /\ Event
  /\ Usable /\ ctx.account = None
  /\ Rendered([ctx EXCEPT !.account = a], tab, dialog)
  /\ UNCHANGED <<epoch, version, runtime, queued, mounted, op, ops, sent, confirmed>>

Disconnect ==
  /\ Event
  /\ Usable /\ ctx.account # None
  /\ Rendered([ctx EXCEPT !.account = None], tab, dialog)
  /\ UNCHANGED <<epoch, version, runtime, queued, mounted, op, ops, sent, confirmed>>

\* choosePosition, from any of the lists.
ChoosePosition(s) ==
  /\ Event
  /\ Usable /\ s # ctx.series
  /\ Rendered([ctx EXCEPT !.series = s], tab, dialog)
  /\ UNCHANGED <<epoch, version, runtime, queued, mounted, op, ops, sent, confirmed>>

SelectTab(t) ==
  /\ Event
  /\ Usable /\ t # tab
  /\ Rendered(ctx, t, dialog)
  /\ UNCHANGED <<epoch, version, runtime, queued, mounted, op, ops, sent, confirmed>>

\* openAssetDialog and closeAssetDialog: a card of the market.
AssetDialog ==
  /\ Event
  /\ Usable /\ tab = "market" /\ Panels # {}
  /\ \/ ~dialog /\ \E s \in Series : Rendered([ctx EXCEPT !.series = s], tab, TRUE)
     \/ dialog /\ Rendered(ctx, tab, FALSE)
  /\ UNCHANGED <<epoch, version, runtime, queued, mounted, op, ops, sent, confirmed>>

\* Mutant: the handler leaves the key to the next render.
WalletEventRendersLater(a) ==
  /\ Event
  /\ Usable /\ ctx.account # None /\ ctx.rev < MaxRevision
  /\ queued' = [account |-> a]
  /\ UNCHANGED <<epoch, version, runtime, ctx, tab, dialog, active, mounted, snapshotVars, panel, op, ops, sent, confirmed>>

\* The wallet reports a change: the key is spoilt at once, the new account, or
\* none, waits for the render.  A change of capabilities also clears the quote.
WalletEvent(a) ==
  /\ Event
  /\ Usable /\ ctx.account # None /\ ctx.rev < MaxRevision
  /\ queued' = [account |-> a]
  /\ active' = None
  /\ ready' \in {ready, None}
  /\ UNCHANGED <<epoch, version, runtime, ctx, tab, dialog, mounted, reads, stale, loading, shown, panel, op, ops, sent, confirmed>>

Render ==
  /\ queued # None
  /\ Rendered([ctx EXCEPT !.account = queued.account, !.rev = @ + 1], tab, dialog)
  /\ queued' = None
  /\ UNCHANGED <<epoch, version, runtime, mounted, op, ops, events, sent, confirmed>>

\* The poll, or the window's focus: a background read, unless one of the same
\* key is still pending.
Pending(key) == \E r \in reads : r.latest /\ r.key = key

Poll ==
  /\ Event
  /\ Visible /\ tab # "market" /\ ~Pending(ctx)
  /\ reads' = Outdated(reads) \cup {SnapshotRead(ctx, TRUE, FALSE)}
  /\ UNCHANGED <<epoch, version, page, ready, stale, loading, shown, panel, op, ops, sent, confirmed>>

\* The focus event's inventory read.
Focus ==
  /\ Event
  /\ Visible /\ ctx.account # None /\ "inventory" \in Panels
  /\ panel' = Refreshed(panel, "inventory", Identity(ctx), FALSE)
  /\ UNCHANGED <<epoch, version, page, snapshotVars, op, ops, sent, confirmed>>

\* "Refresh balances", disabled while anything is loading.
RefreshBalances ==
  /\ Event
  /\ Usable /\ tab # "market" /\ ~loading /\ ("inventory" \in Panels => ~panel["inventory"].loading)
  /\ RefreshSnapshot(ctx, FALSE)
  /\ panel' = IF ctx.account = None THEN panel
              ELSE Refreshed(Refreshed(panel, "inventory", Identity(ctx), FALSE), "sol", Identity(ctx), FALSE)
  /\ UNCHANGED <<epoch, version, page, stale, shown, op, ops, sent, confirmed>>

-----------------------------------------------------------------------------
(* The answers to reads.  The operation that awaits one goes on.            *)

\* The rest of runAction, faucet or advance: it calls the refresh functions
\* of the render it was clicked in.
TailStep(pn) ==
  IF op.key.account = None \/ op.rest = <<>> THEN <<pn, Idle>>
  ELSE <<Refreshed(pn, Head(op.rest), Identity(op.key), TRUE), [op EXCEPT !.rest = Tail(@)]>>

GoOn(mine, pn) ==
  LET next == IF mine THEN TailStep(pn) ELSE <<pn, op>>
  IN panel' = next[1] /\ op' = next[2]

Current(r) == active = r.key /\ r.latest

\* The end of refreshSnapshot.
ReadDone(r, ok) ==
  /\ reads' = reads \ {r}
  /\ IF Current(r)
     THEN /\ loading' = FALSE
          /\ IF ok
             THEN /\ \E v \in r.from..version : shown' = [key |-> r.key, version |-> v]
                  /\ stale' = None /\ ready' = r.key
             ELSE stale' = r.key /\ ready' = None /\ UNCHANGED shown
     ELSE UNCHANGED <<loading, ready, stale, shown>>
  /\ GoOn(r.mine, panel)
  /\ UNCHANGED <<epoch, version, page, ops, events, sent, confirmed>>

\* inventoryIdentity.current is recomputed by every render.
OfThisWallet(p, r) == r.latest /\ r.id = Identity(ctx)

PanelDone(p, r, ok) ==
  /\ GoOn(r.mine,
       [panel EXCEPT ![p] =
          [shown   |-> IF OfThisWallet(p, r) /\ ok THEN r.id ELSE @.shown,
           loading |-> IF OfThisWallet(p, r) THEN FALSE ELSE @.loading,
           reads   |-> @.reads \ {r}]])
  /\ UNCHANGED <<epoch, version, page, snapshotVars, ops, events, sent, confirmed>>

\* The answers the operation waits for.
AwaitedAnswers ==
  \/ \E r \in reads, ok \in BOOLEAN : r.mine /\ ReadDone(r, ok)
  \/ \E p \in Panels, ok \in BOOLEAN : \E r \in panel[p].reads : r.mine /\ PanelDone(p, r, ok)

Answers ==
  \/ \E r \in reads, ok \in BOOLEAN : ReadDone(r, ok)
  \/ \E p \in Panels, ok \in BOOLEAN : \E r \in panel[p].reads : PanelDone(p, r, ok)

-----------------------------------------------------------------------------
(* Operations. *)

ActionReady == ready = ctx /\ ~loading /\ stale # ctx

\* runAction, faucet and advance up to their first await.
Click(kind) ==
  /\ Visible /\ op = Idle /\ ops < MaxOps
  /\ kind # "advance" => ctx.account # None
  /\ kind = "action" => tab # "market" /\ ActionReady
  /\ op' = [stage |-> "verify", kind |-> kind, key |-> ctx]
  /\ ops' = ops + 1
  /\ UNCHANGED <<epoch, version, page, snapshotVars, panel, events, sent, confirmed>>

IsCurrent == active = op.key

Abandon == op' = Idle

\* verifyRuntimeIdentity at the start, then the check before the next await.
Verified ==
  /\ op.stage = "verify"
  /\ \/ /\ Identified
        /\ op.kind = "action" => IsCurrent
        /\ op' = [op EXCEPT !.stage = IF op.kind = "action" THEN "quote" ELSE "post"]
     \/ Abandon
  /\ UNCHANGED <<epoch, version, page, snapshotVars, panel, ops, events, sent, confirmed>>

\* fetchWalletSeries, the quote and its guard; then the recent blockhash.
Quoted ==
  /\ op.stage = "quote"
  /\ \/ IsCurrent /\ op' = [op EXCEPT !.stage = "blockhash"]
     \/ Abandon
  /\ UNCHANGED <<epoch, version, page, snapshotVars, panel, ops, events, sent, confirmed>>

Prompted ==
  /\ op.stage = "blockhash"
  /\ \/ /\ IsCurrent
        /\ op' = [stage |-> "prompt", kind |-> "action", key |-> op.key, chain |-> epoch]
     \/ Abandon
  /\ UNCHANGED <<epoch, version, page, snapshotVars, panel, ops, events, sent, confirmed>>

\* The wallet returned the message it was given, signed; or it did not.
Signed ==
  /\ op.stage = "prompt"
  /\ \/ op' = [op EXCEPT !.stage = "reverify"]
     \/ Abandon
  /\ UNCHANGED <<epoch, version, page, snapshotVars, panel, ops, events, sent, confirmed>>

\* verifyRuntimeIdentity after the prompt.
Reidentified == Identified

\* lifetimeAbort: the signal is looked at where the sandbox submits.
Aborted == Http /\ ~mounted

\* The runtime takes a transaction only with a blockhash of its own chain.
Taken == IF op.chain = epoch THEN epoch ELSE None

Submission ==
  [clicked |-> op.key, shown |-> ctx, spoilt |-> queued # None, mounted |-> mounted, chain |-> Taken]

Submitted ==
  /\ op.stage = "reverify"
  /\ \/ /\ Reidentified /\ IsCurrent /\ ~Aborted
        /\ op' = [op EXCEPT !.stage = "confirm", !.chain = Taken]
        /\ sent' = sent \cup {Submission}
        /\ version' = IF Taken = None THEN version ELSE version + 1
     \/ Abandon /\ UNCHANGED <<sent, version>>
  /\ UNCHANGED <<epoch, page, snapshotVars, panel, ops, events, confirmed>>

\* What an operation reads at its end, after the series.
Awaited(kind) ==
  SelectSeq(IF kind = "advance" THEN <<"inventory">> ELSE <<"inventory", "sol">>, LAMBDA p : p \in Panels)

\* The last awaits of a confirmed operation begin, if its context is on screen.
Report ==
  IF IsCurrent
  THEN /\ op' = [stage |-> "tail", kind |-> op.kind, key |-> op.key, rest |-> Awaited(op.kind)]
       /\ RefreshSnapshot(op.key, TRUE)
       /\ confirmed' = [confirmed EXCEPT ![op.key] = version]
       /\ UNCHANGED <<stale, shown>>
  ELSE Abandon /\ UNCHANGED <<snapshotVars, confirmed>>

\* The answer to the status poll that was under way, or of the socket.
Confirmed ==
  /\ op.stage = "confirm" /\ op.chain # None
  /\ Report
  /\ UNCHANGED <<epoch, version, page, panel, ops, events, sent>>

\* Failed, expired, past the deadline, or given up by the polling loop because
\* the context changed or the page was closed.
Unconfirmed ==
  /\ op.stage = "confirm"
  /\ Abandon
  /\ UNCHANGED <<epoch, version, page, snapshotVars, panel, ops, events, sent, confirmed>>

\* faucet and advance: runtimePost answered and its signatures are confirmed.
Posted ==
  /\ op.stage = "post"
  /\ version' \in {version, version + 1}
  /\ \/ Report /\ UNCHANGED panel
     \/ Abandon /\ UNCHANGED <<snapshotVars, panel, confirmed>>
  /\ UNCHANGED <<epoch, page, ops, events, sent>>

\* The faucet failed after some transactions: they are shown, and the wallet
\* is read again.
PartlyPosted ==
  /\ op.stage = "post" /\ op.kind = "faucet" /\ IsCurrent /\ Panels # {}
  /\ version' = version + 1
  /\ panel' = Refreshed(panel, Head(Awaited("faucet")), Identity(op.key), TRUE)
  /\ op' = [stage |-> "tail", kind |-> "faucet", key |-> op.key, rest |-> Tail(Awaited("faucet"))]
  /\ UNCHANGED <<epoch, page, snapshotVars, ops, events, sent, confirmed>>

Operation ==
  \/ Verified \/ Quoted \/ Prompted \/ Submitted
  \/ Confirmed \/ Unconfirmed \/ Posted \/ PartlyPosted

-----------------------------------------------------------------------------
(* The environment. *)

\* Another runtime answers at the URL, with another genesis.
Restart ==
  /\ epoch < MaxEpoch
  /\ epoch' = epoch + 1
  /\ UNCHANGED <<version, page, snapshotVars, panel, op, ops, events, sent, confirmed>>

\* The hosted session expired or was replaced: the page's tree is removed.
Unmount ==
  /\ Http /\ mounted
  /\ mounted' = FALSE
  /\ UNCHANGED <<epoch, version, runtime, ctx, tab, dialog, queued, active, snapshotVars, panel, op, ops, events, sent, confirmed>>

Next ==
  \/ LoadManifest \/ Boot \/ Retry
  \/ \E a \in Accounts : Connect(a)
  \/ Disconnect
  \/ \E s \in Series : ChoosePosition(s)
  \/ \E t \in {"market", "split"} : SelectTab(t)
  \/ AssetDialog
  \/ \E a \in Accounts \cup {None} : WalletEvent(a)
  \/ Render \/ Poll \/ Focus \/ RefreshBalances
  \/ Answers
  \/ \E k \in {"action", "faucet", "advance"} : Click(k)
  \/ Operation \/ Signed
  \/ Restart \/ Unmount

Spec == Init /\ [][Next]_vars

-----------------------------------------------------------------------------
(* Properties. *)

Ops == {"action", "faucet", "advance"}

TypeOK ==
  /\ epoch \in 1..MaxEpoch /\ version \in 0..MaxOps
  /\ runtime.kind \in {"loading", "error", "ready"} /\ runtime.manifest \in {None} \cup 1..MaxEpoch
  /\ ctx \in Contexts /\ active \in Contexts \cup {None}
  /\ ready \in Contexts \cup {None} /\ stale \in Contexts \cup {None}
  /\ shown # None => shown.key \in Contexts /\ shown.version \in 0..version
  /\ \A r \in reads : r.key \in Contexts /\ r.from \in 0..version
  /\ \A p \in Panels : panel[p].shown = None \/ panel[p].shown.account \in Accounts
  /\ op # Idle => op.key \in Contexts /\ op.kind \in Ops
  /\ ops \in 0..MaxOps /\ Cardinality(sent) <= ops

\* Nothing is submitted for a context other than the one on screen, after the
\* wallet reported a change that is not rendered yet, or for a closed page.
SubmittedInContext ==
  \A t \in sent : t.clicked = t.shown /\ ~t.spoilt /\ t.mounted

\* What the runtime accepted went to the chain of the verified manifest, even
\* when another runtime takes over the URL during an operation.
LandedOnVerifiedChain ==
  \A t \in sent : t.chain \in {None, runtime.manifest}

\* Once an operation of a context has reported its confirmation, the page
\* never again offers an action there on balances from before it.
QuotesSeeOwnActions ==
  ready = ctx /\ active = ctx /\ op = Idle =>
    /\ shown # None /\ shown.key = ctx
    /\ shown.version >= confirmed[ctx]

\* While the series on screen is being read in the foreground, that read is in
\* flight and nothing has superseded it: a poll does not.
LoadingIsBacked ==
  tab # "market" /\ queued = None /\ loading =>
    \E r \in reads : r.latest /\ ~r.background /\ r.key = ctx

\* The balances on screen are those of the wallet on screen.
PanelsAreOwn ==
  \A p \in Panels : panel[p].shown \in {None, Identity(ctx)}

\* An operation has ended, or it is the wallet's prompt that is waited for.
OperationOver == op.stage \in {"idle", "prompt"}
=============================================================================
