------------------------------ MODULE RpcPath ------------------------------
(***************************************************************************)
(* The JSON-RPC calls of a hosted sandbox's wallet pages on their way to   *)
(* its chain: reviewed and metered by the broker (validateRpc and the      *)
(* charge, hosted-broker/src/broker.ts), then reviewed once more by the    *)
(* gateway inside the sandbox (hosted-gateway/src/rpc-policy.mjs).  The    *)
(* two reviews are two lists written apart, and a call that the first lets *)
(* through is charged whatever the second says.                            *)
(*                                                                         *)
(* A call is its method, how many parameters it has (-1 when it has none   *)
(* to name), what its first one is and how long, the names of its options  *)
(* and what its id is.  Texts are as long as they matter: the list of a    *)
(* call, and the characters of a transaction.                              *)
(***************************************************************************)
EXTENDS Integers, Sequences, FiniteSets, FiniteSetsExt

CONSTANTS
  Pages,
  PageRequests,        \* what the pages may send: sequences of calls; whether in an array
  Assets,          \* assets of the sandbox's manifest, one series each
  RequestLimit, MutationLimit   \* the session's budget

\* What the instances of this module satisfy; what is no array is one call.
PathAssumption ==
  /\ RequestLimit \in Nat /\ MutationLimit \in Nat /\ Assets \in Nat
  /\ IsFiniteSet(Pages)
  /\ \A r \in PageRequests : r.array \/ Len(r.calls) = 1

VARIABLES
  wire,        \* Pages -> the page's request, where it is and what became of it
  forwarded,   \* requests charged to the session
  mutations,   \* mutations charged
  ran          \* transactions the chain was given

pathVars == <<wire, forwarded, mutations, ran>>

NoRequest == [stage |-> "idle"]

InitPath == wire = [p \in Pages |-> NoRequest] /\ forwarded = 0 /\ mutations = 0 /\ ran = 0

Call(method, count, first, n, options, id) ==
  [method |-> method, count |-> count, first |-> first, n |-> n, options |-> options, id |-> id]

-----------------------------------------------------------------------------
(* What the wallet page asks (chain.ts, runtime.ts, inventory.ts, the      *)
(* transaction SDK), as the web3 connection words it.                      *)

\* The inventory reads the clock, and of each asset the mint, the holding
\* and four accounts of its series, at most 100 at a time.
InventorySizes == LET all == 1 + 6 * Assets IN {Min({100, all - 100 * i}) : i \in 0..((all - 1) \div 100)}

Accounts(n) == Call("getMultipleAccounts", 2, "addresses", n, {"encoding", "commitment"}, "text")

\* refreshSol
BalanceCall == Call("getBalance", 2, "address", 1, {"commitment"}, "text")

PageCalls ==
  {Accounts(n) : n \in InventorySizes \union {1, 3, 6, 9}}
    \union {BalanceCall, Call("getGenesisHash", 0, "none", 0, {}, "text"),
            Call("getAccountInfo", 2, "address", 1, {"encoding", "commitment"}, "text"),
            Call("getLatestBlockhash", 1, "options", 0, {"commitment"}, "text"),
            Call("getBlockHeight", 1, "options", 0, {"commitment"}, "text"),
            Call("getSignatureStatuses", 2, "signatures", 1, {"searchTransactionHistory"}, "text"),
            Call("sendTransaction", 2, "transaction", 1644, {"encoding", "preflightCommitment"}, "text")}

\* Each of them, one at a time.
OwnRequests == {[array |-> FALSE, calls |-> <<c>>] : c \in PageCalls}

-----------------------------------------------------------------------------
(* The broker.                                                             *)

BrokerMethods == {"getGenesisHash", "getAccountInfo", "getMultipleAccounts", "getLatestBlockhash",
                  "getSignatureStatuses", "getBlockHeight", "sendTransaction"}
BrokerList == 20

\* One call; an option that is no object is the option "junk".
BrokerTakes(c) ==
  /\ c.id \in {"text", "number", "null", "long"}
  /\ c.method \in BrokerMethods
  /\ c.count <= 2
  /\ c.method = "getGenesisHash" => c.count <= 0
  /\ c.method \in {"getBlockHeight", "getLatestBlockhash"} => c.count <= 1
  /\ c.method = "getAccountInfo" => c.first = "address"
  /\ c.method = "getMultipleAccounts" => c.first = "addresses" /\ c.n \in 1..BrokerList
  /\ c.method = "getSignatureStatuses" => c.first = "signatures" /\ c.n \in 1..BrokerList
  /\ c.count = 2 => "junk" \notin c.options
  /\ c.method = "sendTransaction" => c.first = "transaction" /\ c.n \in 4..2000

\* validateRpc: up to ten calls, each taken.
BrokerAccepts(r) == Len(r.calls) \in 1..10 /\ \A i \in 1..Len(r.calls) : BrokerTakes(r.calls[i])

\* The calls of a request that give the chain a transaction.
Sends(r) == {i \in 1..Len(r.calls) : r.calls[i].method = "sendTransaction"}

\* Mutant: a request is one mutation or none, by its first call.
MutationsOfFirst(r) == IF r.calls[1].method = "sendTransaction" THEN 1 ELSE 0

MutationsOf(r) == Cardinality(Sends(r))

-----------------------------------------------------------------------------
(* The gateway.                                                            *)

GatewayList == 32
\* The characters of 1,232 bytes in base64.
GatewayTransaction == 1644

AccountOptions == {"commitment", "encoding", "minContextSlot"}
SimpleOptions == {"commitment", "minContextSlot"}
SendOptions == {"encoding", "skipPreflight", "preflightCommitment", "maxRetries", "minContextSlot"}
SimulateOptions == {"encoding", "sigVerify", "replaceRecentBlockhash", "commitment", "minContextSlot",
                    "accounts", "innerInstructions"}

\* config: the options, when there is a place for them, are of the allowed ones.
Options(c, place, allowed) == c.count >= place => c.options \subseteq allowed

\* The validators.
GatewayMethod(c) ==
  CASE c.method = "getGenesisHash" -> c.count \in 0..1 /\ Options(c, 1, {"commitment"})
    [] c.method \in {"getLatestBlockhash", "getBlockHeight", "getSlot"} -> c.count \in 0..1 /\ Options(c, 1, SimpleOptions)
    [] c.method = "getAccountInfo" -> c.count \in 1..2 /\ c.first = "address" /\ Options(c, 2, AccountOptions)
    [] c.method = "getMultipleAccounts" ->
         c.count \in 1..2 /\ c.first = "addresses" /\ c.n \in 1..GatewayList /\ Options(c, 2, AccountOptions)
    [] c.method = "getSignatureStatuses" ->
         c.count \in 1..2 /\ c.first = "signatures" /\ c.n \in 1..GatewayList /\ Options(c, 2, {"searchTransactionHistory"})
    [] c.method = "getBalance" -> c.count \in 1..2 /\ c.first = "address" /\ Options(c, 2, SimpleOptions)
    [] c.method = "getMinimumBalanceForRentExemption" -> c.count \in 1..2 /\ c.first = "size" /\ Options(c, 2, {"commitment"})
    [] c.method = "getFeeForMessage" ->
         c.count \in 1..2 /\ c.first = "transaction" /\ c.n <= GatewayTransaction /\ Options(c, 2, SimpleOptions)
    [] c.method = "sendTransaction" ->
         c.count \in 1..2 /\ c.first = "transaction" /\ c.n <= GatewayTransaction /\ Options(c, 2, SendOptions)
    [] c.method = "simulateTransaction" ->
         /\ c.count \in 1..2 /\ c.first = "transaction" /\ c.n <= GatewayTransaction /\ Options(c, 2, SimulateOptions)
         /\ ~ {"sigVerify", "replaceRecentBlockhash"} \subseteq c.options
    [] c.method = "getVersion" -> c.count = 0
    [] OTHER -> FALSE

\* validateRpcEnvelope: one call, parameters named, an id that is not null.
GatewayAccepts(r) ==
  /\ ~ r.array
  /\ r.calls[1].id \in {"text", "number"} /\ r.calls[1].count >= 0
  /\ GatewayMethod(r.calls[1])

-----------------------------------------------------------------------------
(* The steps of a request.                                                 *)

Send(p) ==
  /\ wire[p].stage \in {"idle", "done"}
  /\ \E r \in PageRequests : wire' = [wire EXCEPT ![p] = [stage |-> "broker", request |-> r, status |-> "none"]]
  /\ UNCHANGED <<forwarded, mutations, ran>>

Done(p, status) == wire' = [wire EXCEPT ![p].stage = "done", ![p].status = status]

BrokerRefuses(p) ==
  /\ wire[p].stage = "broker" /\ ~ BrokerAccepts(wire[p].request)
  /\ Done(p, "refused")
  /\ UNCHANGED <<forwarded, mutations, ran>>

Within(r) == forwarded < RequestLimit /\ mutations + MutationsOf(r) <= MutationLimit

\* ledger.charge, before anything is forwarded.
Charge(p) ==
  /\ wire[p].stage = "broker" /\ BrokerAccepts(wire[p].request)
  /\ IF Within(wire[p].request)
       THEN /\ forwarded' = forwarded + 1
            /\ mutations' = mutations + MutationsOf(wire[p].request)
            /\ wire' = [wire EXCEPT ![p].stage = "gateway"]
       ELSE Done(p, "limited") /\ UNCHANGED <<forwarded, mutations>>
  /\ UNCHANGED ran

\* The sandbox cannot be reached, or is ending.
Unreached(p) ==
  /\ wire[p].stage = "gateway"
  /\ Done(p, "unavailable")
  /\ UNCHANGED <<forwarded, mutations, ran>>

GatewayRefuses(p) ==
  /\ wire[p].stage = "gateway" /\ ~ GatewayAccepts(wire[p].request)
  /\ Done(p, "refused")
  /\ UNCHANGED <<forwarded, mutations, ran>>

\* rpcUpstream; the answer may be lost after the call ran.
Run(p) ==
  /\ wire[p].stage = "gateway" /\ GatewayAccepts(wire[p].request)
  /\ ran' = ran + Cardinality(Sends(wire[p].request))
  /\ \E status \in {"answered", "lost"} : Done(p, status)
  /\ UNCHANGED <<forwarded, mutations>>

NextPath == \E p \in Pages : Send(p) \/ BrokerRefuses(p) \/ Charge(p) \/ Unreached(p) \/ GatewayRefuses(p) \/ Run(p)

PathSpec == InitPath /\ [][NextPath]_pathVars

-----------------------------------------------------------------------------
(* Properties.                                                             *)

PathTypeOK ==
  /\ forwarded \in 0..RequestLimit /\ mutations \in 0..MutationLimit /\ ran \in Nat
  /\ \A p \in Pages : wire[p] = NoRequest \/ (wire[p].stage \in {"broker", "gateway", "done"} /\ wire[p].request \in PageRequests)

\* The transactions the broker forwarded and the gateway has not seen.
OnTheWay == {x \in Pages \X (1..10) : wire[x[1]].stage = "gateway" /\ x[2] \in Sends(wire[x[1]].request)}

\* Every transaction given to the chain was charged before, and those the
\* broker forwarded and the gateway has not seen are charged as well: the
\* budget bounds what a session can do, in whatever order and batch.
RunsAreMetered == ran + Cardinality(OnTheWay) <= mutations

\* Of what the wallet page itself asks for, one call alone is ever refused by a
\* list: the reading of its SOL balance, which the broker does not know
\* (BalanceServed fails).
OwnCallsServed ==
  \A p \in Pages :
    (/\ wire[p].stage = "done" /\ wire[p].status = "refused"
     /\ ~ wire[p].request.array /\ wire[p].request.calls[1] \in PageCalls)
    => wire[p].request.calls[1] = BalanceCall

\* The wallet's balance, which the gateway permits, can be read.
BalanceServed ==
  \A p \in Pages :
    (wire[p].stage = "done" /\ wire[p].request = [array |-> FALSE, calls |-> <<BalanceCall>>]) => wire[p].status # "refused"

=============================================================================
