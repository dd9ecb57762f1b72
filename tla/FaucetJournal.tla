---------------------------- MODULE FaucetJournal ----------------------------
(***************************************************************************)
(* The hosted devnet service (packages/hosted-devnet/src): stateless       *)
(* workers that pay faucet grants and refresh observations on a chain,     *)
(* coordinated only by one JSON ledger under compare-and-swap.             *)
(*                                                                         *)
(* An operation is reserved against a budget, prepared (one transaction is *)
(* signed and stored before it is sent), sent, and reconciled with the     *)
(* chain.  A worker's awaits are its steps: anything may happen between    *)
(* two of them, and a worker may stop at any of them.  mutateJson retries  *)
(* its compare-and-swap, so a saved mutation is one atomic step; but the   *)
(* store's answer can be lost after the write ("lost") or the write can    *)
(* fail ("unsaved"), and the worker cannot tell the two apart.             *)
(*                                                                         *)
(* Abstractions: a signature is a number; a lease's random holder is its   *)
(* fence, which is as unique; amounts are counted in reservations.  The    *)
(* time a worker uses may be older than the ledger it changes, because     *)
(* now() is read before the await: `t` below, at most Lag behind.          *)
(***************************************************************************)
EXTENDS Integers, FiniteSets

CONSTANTS
  Workers,         \* concurrent invocations of the service
  Owners,          \* (owner, asset) pairs of faucet requests
  Assets,          \* assets of the manifest, for observations
  Visitors, Addresses,
                   \* visitor and IP hashes
  DayLength, BucketLength,
                   \* length of a quota day and of an observation bucket
  DailyGrants, VisitorGrants, AddressGrants,
                   \* FAUCET_DAILY_GRANTS, VISITOR_DAILY_GRANTS, IP_DAILY_GRANTS
  Budget,          \* reservations the lifetime budget of each kind holds
  LeaseLength,     \* PREPARATION_LEASE_MS
  Validity,        \* blocks a blockhash stays valid
  Lag,             \* greatest age of a time a worker acts on
  Outcomes,        \* how a store write may end
  CanFail,         \* whether chain calls may fail
  CanCrash,        \* whether workers may stop
  MaxTime, MaxHeight, MaxAttempts, MaxFence
                   \* bounds of the instance

Kinds == {"faucet", "observation"}

ASSUME FaucetAssumption ==
  /\ DayLength \in Nat \ {0} /\ BucketLength \in Nat \ {0}
  /\ IsFiniteSet(Owners) /\ IsFiniteSet(Assets)
  /\ Budget \in [Kinds -> Nat]
  /\ LeaseLength \in Nat /\ Validity \in Nat /\ Lag \in Nat
  /\ Outcomes \subseteq {"saved", "lost", "unsaved"}
  /\ MaxTime \in Nat /\ MaxHeight \in Nat /\ MaxAttempts \in Nat /\ MaxFence \in Nat

VARIABLES
  now,             \* wall clock
  ledger,          \* the HostedDevnetLedger
  height,          \* confirmed block height
  signed,          \* what each signature signs: its operation and last valid height
  sent,            \* signatures some RPC node has been given
  processed,       \* result of a transaction in a block not yet confirmed
  settled,         \* result of a transaction in a confirmed block
  worker           \* the local state of each worker

chainVars == <<height, signed, sent, processed, settled>>
vars == <<now, ledger, chainVars, worker>>

Attempts == 1..MaxAttempts
None == 0
Results == {"none", "ok", "error"}

\* grantOperationId and observationOperationId: one operation for each target
\* and day or bucket.
Operation(kind, target, period) == [kind |-> kind, target |-> target, period |-> period]
Days == {t \div DayLength : t \in 0..MaxTime}
Buckets == {t \div BucketLength : t \in 0..MaxTime}
Operations ==
  {Operation("faucet", o, d) : o \in Owners, d \in Days} \cup
  {Operation("observation", a, p) : a \in Assets, p \in Buckets}

Active == {"reserved", "prepared", "submitted"}
Terminal == {"confirmed", "failed", "expired"}

Absent == [state |-> "absent", fence |-> None, attempt |-> None, visitor |-> None, address |-> None]
NoOperation == Operation("none", None, 0)
NoLease == [op |-> NoOperation, fence |-> None, expires |-> 0]

EmptyQuota == [grants |-> 0, visitors |-> [v \in Visitors |-> 0],
               addresses |-> [i \in Addresses |-> 0]]

\* A worker between two calls; writeDisabled outlives the call.
Rest == [pc |-> "idle", op |-> NoOperation, seen |-> Absent, fence |-> None, last |-> FALSE,
         verdict |-> "none", cause |-> "none", writeDisabled |-> FALSE]

Init ==
  /\ now = 0
  /\ ledger = [operations |-> [id \in Operations |-> Absent], nextFence |-> 0,
               leases |-> [k \in Kinds |-> NoLease], lifetime |-> [k \in Kinds |-> 0],
               daily |-> [d \in Days |-> EmptyQuota], disabled |-> FALSE]
  /\ height = 0
  /\ signed = [a \in Attempts |-> [op |-> NoOperation, lastValid |-> 0]]
  /\ sent = {}
  /\ processed = [a \in Attempts |-> "none"]
  /\ settled = [a \in Attempts |-> "none"]
  /\ worker = [w \in Workers |-> Rest]

-----------------------------------------------------------------------------
(* Worker bookkeeping.                                                     *)

\* A time a worker may have read.
Times == {t \in (now - Lag)..now : t >= 0}

\* mutate: the write happened unless the outcome is "unsaved".
Store(outcome, next) == ledger' = IF outcome = "unsaved" THEN ledger ELSE next

Stay(w, fields) == worker' = [worker EXCEPT ![w] = fields]
Return(w) == [Rest EXCEPT !.writeDisabled = worker[w].writeDisabled]
Disabled(w) == [Rest EXCEPT !.writeDisabled = TRUE]

\* fund's catch: an error that is no ServiceError stops the worker's faucet.
Threw(w) == IF worker[w].op.kind = "faucet" THEN Disabled(w) ELSE Return(w)

\* The first step of reconcile, for an operation the worker has just read.
Reconcile(w, op, seen, last) ==
  IF seen.state \in Terminal \/ (last /\ seen.attempt = None)
  THEN Return(w)
  ELSE [worker[w] EXCEPT !.op = op, !.seen = seen, !.last = last,
                         !.pc = IF seen.attempt = None THEN "acquire" ELSE "status"]

\* reconcile found nothing to record: execute goes on, or is done.
Unresolved(w) == IF worker[w].last THEN Return(w) ELSE [worker[w] EXCEPT !.pc = "acquire"]

-----------------------------------------------------------------------------
(* Reservations.                                                           *)

\* reserveGrant's limits.  FAUCET_DAILY_LAMPORTS is FAUCET_DAILY_GRANTS times the
\* reservation, so counting grants is counting lamports.
WithinQuota(day, visitor, address) ==
  LET quota == ledger.daily[day]
  IN  /\ quota.grants < DailyGrants
      /\ ledger.lifetime["faucet"] + 1 <= Budget["faucet"]
      /\ quota.visitors[visitor] < VisitorGrants
      /\ quota.addresses[address] < AddressGrants

\* Mutant: a request that is retried is charged again.
GrantReservedAgain(id, visitor, address) ==
  LET quota == ledger.daily[id.period]
      old   == ledger.operations[id]
  IN  [ledger EXCEPT
         !.operations[id] = IF old.state # "absent" THEN old
                            ELSE [Absent EXCEPT !.state = "reserved", !.visitor = visitor,
                                                !.address = address],
         !.lifetime["faucet"] = @ + 1,
         !.daily[id.period] = [grants |-> quota.grants + 1,
                               visitors |-> [quota.visitors EXCEPT ![visitor] = @ + 1],
                               addresses |-> [quota.addresses EXCEPT ![address] = @ + 1]]]

\* The ledger after a reservation; an operation that exists is left alone.
GrantReserved(id, visitor, address) ==
  IF ledger.operations[id].state # "absent" THEN ledger
  ELSE LET quota == ledger.daily[id.period]
       IN  [ledger EXCEPT
              !.operations[id] = [Absent EXCEPT !.state = "reserved", !.visitor = visitor,
                                                !.address = address],
              !.lifetime["faucet"] = @ + 1,
              !.daily[id.period] = [grants |-> quota.grants + 1,
                                    visitors |-> [quota.visitors EXCEPT ![visitor] = @ + 1],
                                    addresses |-> [quota.addresses EXCEPT ![address] = @ + 1]]]

ObservationReserved(id) ==
  IF ledger.operations[id].state # "absent" THEN ledger
  ELSE [ledger EXCEPT !.operations[id] = [Absent EXCEPT !.state = "reserved"],
                      !.lifetime["observation"] = @ + 1]

\* fund, up to the end of reserveGrant.
Fund(w, owner, visitor, address, t, outcome) ==
  LET id   == Operation("faucet", owner, t \div DayLength)
      next == GrantReserved(id, visitor, address)
  IN  /\ worker[w].pc = "idle"
      /\ ~worker[w].writeDisabled
      /\ ~ledger.disabled
      /\ ledger.operations[id].state # "absent" \/ WithinQuota(id.period, visitor, address)
      /\ Store(outcome, next)
      /\ Stay(w, IF outcome = "saved" THEN Reconcile(w, id, next.operations[id], FALSE)
                 ELSE Disabled(w))
      /\ UNCHANGED <<now, chainVars>>

\* One asset of refreshObservations, up to the end of reserveObservation.
Refresh(w, asset, t, outcome) ==
  LET id   == Operation("observation", asset, t \div BucketLength)
      next == ObservationReserved(id)
  IN  /\ worker[w].pc = "idle"
      /\ \/ ledger.operations[id].state # "absent"
         \/ ledger.lifetime["observation"] + 1 <= Budget["observation"]
      /\ Store(outcome, next)
      /\ Stay(w, IF outcome = "saved" THEN Reconcile(w, id, next.operations[id], FALSE)
                 ELSE Return(w))
      /\ UNCHANGED <<now, chainVars>>

-----------------------------------------------------------------------------
(* reconcile: three reads of the chain, then one write.                    *)

\* transactionStatus.  An error counts as soon as it is processed.
TransactionStatus(a) ==
  IF settled[a] = "ok" THEN "confirmed"
  ELSE IF settled[a] = "error" \/ processed[a] = "error" THEN "failed"
  ELSE IF processed[a] = "ok" THEN "pending"
  ELSE "missing"

\* What reconcile records for a status: a confirmed transaction is recorded as
\* confirmed or, when verifyOutcome disagrees, as failed.
Verdicts(status) ==
  CASE status = "confirmed" -> {"confirmed", "failed"}
    [] status = "failed" -> {"failed"}
    [] OTHER -> {}

\* Mutant: the status is not read again after the block height.
FinalVerdictsBlind(status) == {"expired"}

\* After the block height: what is not confirmed or failed by now has expired.
FinalVerdicts(status) ==
  IF status \in {"confirmed", "failed"} THEN Verdicts(status) ELSE {"expired"}

ReadStatus(w) ==
  LET verdicts == Verdicts(TransactionStatus(worker[w].seen.attempt))
  IN  /\ worker[w].pc = "status"
      /\ \/ /\ verdicts = {}
            /\ Stay(w, [worker[w] EXCEPT !.pc = "height"])
         \/ \E v \in verdicts : Stay(w, [worker[w] EXCEPT !.pc = "record", !.verdict = v])
      /\ UNCHANGED <<now, ledger, chainVars>>

ReadHeight(w) ==
  /\ worker[w].pc = "height"
  /\ Stay(w, IF height > signed[worker[w].seen.attempt].lastValid
             THEN [worker[w] EXCEPT !.pc = "final"] ELSE Unresolved(w))
  /\ UNCHANGED <<now, ledger, chainVars>>

ReadFinalStatus(w) ==
  /\ worker[w].pc = "final"
  /\ \E v \in FinalVerdicts(TransactionStatus(worker[w].seen.attempt)) :
       Stay(w, [worker[w] EXCEPT !.pc = "record", !.verdict = v])
  /\ UNCHANGED <<now, ledger, chainVars>>

\* Mutant: the last worker to reconcile wins.
TransitionedAlways(id, state) == [ledger EXCEPT !.operations[id].state = state]

\* transition: a terminal operation is left alone.
Transitioned(id, state) ==
  IF ledger.operations[id].state \in Terminal THEN ledger
  ELSE [ledger EXCEPT !.operations[id].state = state]

Record(w, outcome) ==
  /\ worker[w].pc = "record"
  /\ ledger.operations[worker[w].op].attempt # None
  /\ Store(outcome, Transitioned(worker[w].op, worker[w].verdict))
  /\ Stay(w, IF outcome = "saved" THEN Return(w) ELSE Threw(w))
  /\ UNCHANGED <<now, chainVars>>

\* A chain read fails: the error leaves fund through its catch.
ReadFails(w) ==
  /\ CanFail
  /\ worker[w].pc \in {"status", "height", "final"}
  /\ Stay(w, Threw(w)) \/ Stay(w, Return(w))
  /\ UNCHANGED <<now, ledger, chainVars>>

\* faucetAvailable could not read the ledger.
Unavailable(w) ==
  /\ CanFail
  /\ worker[w].pc = "idle" /\ ~worker[w].writeDisabled
  /\ Stay(w, Disabled(w))
  /\ UNCHANGED <<now, ledger, chainVars>>

-----------------------------------------------------------------------------
(* execute, from the lease to the release.                                 *)

LeaseFree(kind, t) ==
  ledger.leases[kind].fence = None \/ ledger.leases[kind].expires <= t

\* acquire.  A busy lease returns what was read; an operation that is no longer
\* active is a ServiceError.
Acquire(w, t, outcome) ==
  LET id    == worker[w].op
      op    == ledger.operations[id]
      fence == ledger.nextFence + 1
      can   == op.state \in Active /\ LeaseFree(id.kind, t)
  IN  /\ worker[w].pc = "acquire"
      /\ \/ /\ ~can
            /\ Stay(w, Return(w))
            /\ UNCHANGED ledger
         \/ /\ can
            /\ fence <= MaxFence
            /\ Store(outcome,
                 [ledger EXCEPT
                    !.nextFence = fence,
                    !.leases[id.kind] = [op |-> id, fence |-> fence, expires |-> t + LeaseLength],
                    !.operations[id] =
                      IF op.state = "reserved" THEN op ELSE [op EXCEPT !.fence = fence]])
            /\ Stay(w, IF outcome # "saved" THEN Threw(w)
                       ELSE [worker[w] EXCEPT !.fence = fence,
                               !.pc = IF worker[w].seen.state = "reserved" THEN "prepare"
                                      ELSE "fence"])
      /\ UNCHANGED <<now, chainVars>>

\* The least signature not used yet stands for a fresh one.
Fresh(a) ==
  /\ signed[a].op = NoOperation
  /\ \A b \in Attempts : b < a => signed[b].op # NoOperation

\* prepareFaucet or prepareObservation: sign, and keep the bytes in memory.
Prepare(w) ==
  /\ worker[w].pc = "prepare"
  /\ \E a \in Attempts :
       /\ Fresh(a)
       /\ signed' = [signed EXCEPT ![a] = [op |-> worker[w].op, lastValid |-> height + Validity]]
       /\ Stay(w, [worker[w] EXCEPT !.seen.attempt = a, !.pc = "persist"])
  /\ UNCHANGED <<now, ledger, height, sent, processed, settled>>

\* The lease of a worker is the one in the ledger.
SameLease(w) ==
  LET lease == ledger.leases[worker[w].op.kind]
  IN  lease.op = worker[w].op /\ lease.fence = worker[w].fence

HoldsLease(w, t) == SameLease(w) /\ ledger.leases[worker[w].op.kind].expires > t

\* Mutant: the state the worker saw is trusted.
PersistAllowedStale(w, t) == HoldsLease(w, t)

PersistAllowed(w, t) ==
  ledger.operations[worker[w].op].state = "reserved" /\ HoldsLease(w, t)

\* The catch of execute.
Abandon(w, cause) == [worker[w] EXCEPT !.pc = "abandon", !.cause = cause]

PersistPrepared(w, t, outcome) ==
  LET id   == worker[w].op
      next == [ledger EXCEPT !.operations[id] =
                 [@ EXCEPT !.state = "prepared", !.fence = worker[w].fence,
                           !.attempt = worker[w].seen.attempt]]
  IN  /\ worker[w].pc = "persist"
      /\ IF PersistAllowed(w, t)
         THEN /\ Store(outcome, next)
              /\ Stay(w, IF outcome = "saved"
                         THEN [worker[w] EXCEPT !.seen = next.operations[id], !.pc = "fence"]
                         ELSE Abandon(w, "other"))
         ELSE /\ UNCHANGED ledger
              /\ Stay(w, Abandon(w, "service"))
      /\ UNCHANGED <<now, chainVars>>

\* assertSendFence, after verifyPrepared.
SendFenceHolds(w, t) ==
  LET op == ledger.operations[worker[w].op]
  IN  op.state \in {"prepared", "submitted"} /\ op.fence = worker[w].fence /\ HoldsLease(w, t)

AssertSendFence(w, t) ==
  /\ worker[w].pc = "fence"
  /\ Stay(w, IF SendFenceHolds(w, t) THEN [worker[w] EXCEPT !.pc = "send"]
             ELSE Abandon(w, "service"))
  /\ UNCHANGED <<now, ledger, chainVars>>

\* prepare or verifyPrepared fails, perhaps because the deployment changed or
\* the signer is out of funds.
PreparationFails(w) ==
  /\ CanFail
  /\ worker[w].pc \in {"prepare", "fence"}
  /\ \E cause \in {"identity", "service", "other"} : Stay(w, Abandon(w, cause))
  /\ UNCHANGED <<now, ledger, chainVars>>

\* sendExact: the bytes reach the chain or not, and the answer is a success, a
\* foreign signature (recorded as failed) or an error (recorded as submitted).
SendExact(w) ==
  /\ worker[w].pc = "send"
  /\ sent' \in {sent, sent \cup {worker[w].seen.attempt}}
  /\ \E last \in BOOLEAN, v \in {"submitted", "failed"} :
       /\ last => v = "submitted"
       /\ ~last => CanFail
       /\ Stay(w, [worker[w] EXCEPT !.pc = "release", !.verdict = v, !.last = last])
  /\ UNCHANGED <<now, ledger, height, signed, processed, settled>>

ReleasedLease(w, book) ==
  IF SameLease(w) THEN [book EXCEPT !.leases[worker[w].op.kind] = NoLease] ELSE book

\* release with a state.
Release(w, t, outcome) ==
  LET id   == worker[w].op
      op   == ledger.operations[id]
      done == op.state \in Terminal
      owns == op.fence = worker[w].fence /\ HoldsLease(w, t)
      next == ReleasedLease(w, IF done THEN ledger
                               ELSE [ledger EXCEPT !.operations[id].state = worker[w].verdict])
  IN  /\ worker[w].pc = "release"
      /\ IF done \/ (owns /\ op.state \in {"prepared", "submitted"})
         THEN /\ Store(outcome, next)
              /\ Stay(w, IF outcome # "saved" THEN Disabled(w)
                         ELSE IF worker[w].last THEN Reconcile(w, id, next.operations[id], TRUE)
                         ELSE Return(w))
         ELSE /\ UNCHANGED ledger
              /\ Stay(w, Disabled(w))
      /\ UNCHANGED <<now, chainVars>>

\* release without a state, in the catch of execute.
ReleaseAbandoned(w, outcome) ==
  /\ worker[w].pc = "abandon"
  /\ Store(outcome, ReleasedLease(w, ledger))
  /\ Stay(w, IF worker[w].op.kind = "faucet" /\ worker[w].cause = "identity"
             THEN [worker[w] EXCEPT !.pc = "disable"]
             ELSE IF outcome # "saved" THEN Disabled(w)
             ELSE IF worker[w].cause = "other" THEN Threw(w)
             ELSE Return(w))
  /\ UNCHANGED <<now, chainVars>>

DisableFaucet(w, outcome) ==
  /\ worker[w].pc = "disable"
  /\ Store(outcome, [ledger EXCEPT !.disabled = TRUE])
  /\ Stay(w, Disabled(w))
  /\ UNCHANGED <<now, chainVars>>

\* The platform stops a worker; the next invocation starts afresh.
Crash(w) ==
  /\ CanCrash
  /\ worker[w].pc # "idle"
  /\ Stay(w, Rest)
  /\ UNCHANGED <<now, ledger, chainVars>>

-----------------------------------------------------------------------------
(* The environment: time and the chain.                                    *)

Tick ==
  /\ now < MaxTime
  /\ now' = now + 1
  /\ UNCHANGED <<ledger, chainVars, worker>>

\* A node puts a transaction it was given into the next block, which is no
\* higher than the transaction's last valid height.
Process(a, result) ==
  /\ a \in sent
  /\ processed[a] = "none" /\ settled[a] = "none"
  /\ height + 1 <= signed[a].lastValid
  /\ processed' = [processed EXCEPT ![a] = result]
  /\ UNCHANGED <<now, ledger, height, signed, sent, settled, worker>>

\* The next block is confirmed with the transactions it kept; the others were
\* on a fork that is dropped.
ConfirmBlock(kept) ==
  /\ height < MaxHeight
  /\ height' = height + 1
  /\ settled' = [a \in Attempts |-> IF a \in kept THEN processed[a] ELSE settled[a]]
  /\ processed' = [a \in Attempts |-> "none"]
  /\ UNCHANGED <<now, ledger, signed, sent, worker>>

-----------------------------------------------------------------------------

Requests(w) ==
  \E t \in Times, outcome \in Outcomes :
    \/ \E owner \in Owners, visitor \in Visitors, address \in Addresses :
         Fund(w, owner, visitor, address, t, outcome)
    \/ \E asset \in Assets : Refresh(w, asset, t, outcome)

Steps(w) ==
  \/ ReadStatus(w) \/ ReadHeight(w) \/ ReadFinalStatus(w)
  \/ Prepare(w) \/ SendExact(w)
  \/ \E t \in Times : AssertSendFence(w, t)
  \/ \E outcome \in Outcomes :
       \/ Record(w, outcome) \/ ReleaseAbandoned(w, outcome) \/ DisableFaucet(w, outcome)
       \/ \E t \in Times :
            Acquire(w, t, outcome) \/ PersistPrepared(w, t, outcome) \/ Release(w, t, outcome)

Faults(w) == ReadFails(w) \/ Unavailable(w) \/ PreparationFails(w) \/ Crash(w)

Chain ==
  \/ \E a \in Attempts, result \in {"ok", "error"} : Process(a, result)
  \/ \E kept \in SUBSET {a \in Attempts : processed[a] # "none"} : ConfirmBlock(kept)

Next == Tick \/ Chain \/ \E w \in Workers : Requests(w) \/ Steps(w) \/ Faults(w)

Spec == Init /\ [][Next]_vars

-----------------------------------------------------------------------------
(* Properties.  They range over the operations of the ledger and the        *)
(* transactions of the chain, so that they say the same of every instance. *)

States == {"absent"} \cup Active \cup Terminal
Slots == Attempts \cup {None}
Causes == {"none", "identity", "service", "other"}
Places == {"idle", "status", "height", "final", "record", "acquire", "prepare", "persist",
           "fence", "send", "release", "abandon", "disable"}

OperationRecords ==
  [state: States, fence: Nat, attempt: Slots, visitor: Visitors \cup {None},
   address: Addresses \cup {None}]
Leases == [op: Operations \cup {NoOperation}, fence: Nat, expires: Nat]
Quotas == [grants: Nat, visitors: [Visitors -> Nat], addresses: [Addresses -> Nat]]
Locals ==
  [pc: Places, op: Operations \cup {NoOperation}, seen: OperationRecords, fence: Nat,
   last: BOOLEAN, verdict: States \cup {"none"}, cause: Causes, writeDisabled: BOOLEAN]

TypeOK ==
  /\ now \in 0..MaxTime
  /\ ledger \in [operations: [Operations -> OperationRecords], nextFence: Nat,
                 leases: [Kinds -> Leases], lifetime: [Kinds -> Nat], daily: [Days -> Quotas],
                 disabled: BOOLEAN]
  /\ height \in Nat
  /\ signed \in [Attempts -> [op: Operations \cup {NoOperation}, lastValid: Nat]]
  /\ sent \subseteq Attempts
  /\ processed \in [Attempts -> Results]
  /\ settled \in [Attempts -> Results]
  /\ worker \in [Workers -> Locals]

\* Every operation pays at most once: of all transactions ever signed for it, by
\* any worker before or after a crash, at most one takes effect on the chain.
PaidAtMostOnce ==
  \A a, b \in DOMAIN settled :
    settled[a] = "ok" /\ settled[b] = "ok" /\ signed[a].op = signed[b].op => a = b

\* No transaction is sent that the ledger does not hold: a crash after a send
\* leaves nothing on the chain that a later worker does not know of.
SentIsRecorded == \A a \in sent : ledger.operations[signed[a].op].attempt = a

\* An operation recorded as expired never pays: its transaction is not in a
\* confirmed block, not in a processed one, and too old for any other.
ExpiredNeverPays ==
  \A id \in DOMAIN ledger.operations :
    ledger.operations[id].state = "expired" =>
      LET a == ledger.operations[id].attempt
      IN  settled[a] # "ok" /\ processed[a] = "none" /\ height >= signed[a].lastValid

\* An operation recorded as confirmed did pay, on a confirmed block.
ConfirmedPaid ==
  \A id \in DOMAIN ledger.operations :
    ledger.operations[id].state = "confirmed" => settled[ledger.operations[id].attempt] = "ok"

\* The journal tells the truth about the chain while workers race: what was sent
\* is recorded, what it calls expired never pays, what it calls confirmed did.
JournalTrue == SentIsRecorded /\ ExpiredNeverPays /\ ConfirmedPaid

KeepsTerminal ==
  \A id \in DOMAIN ledger.operations :
    /\ ledger.operations[id].state \in Terminal =>
         ledger'.operations[id].state = ledger.operations[id].state
    /\ ledger.operations[id].attempt # None =>
         ledger'.operations[id].attempt = ledger.operations[id].attempt

\* No step of a late, failed or restarted worker changes a terminal record or
\* replaces the transaction an operation is about.
TerminalIsFinal == [][KeepsTerminal]_vars

Made(kind) ==
  {id \in DOMAIN ledger.operations :
     id.kind = kind /\ ledger.operations[id].state # "absent"}
Granted(day) == {id \in Made("faucet") : id.period = day}

\* The counters are a recount of the operations, whatever was retried, lost or
\* answered twice: no request is charged twice and none escapes its quota.
QuotaMatchesOperations ==
  /\ \A k \in Kinds : ledger.lifetime[k] = Cardinality(Made(k))
  /\ \A d \in DOMAIN ledger.daily :
       /\ ledger.daily[d].grants = Cardinality(Granted(d))
       /\ \A v \in DOMAIN ledger.daily[d].visitors : ledger.daily[d].visitors[v] =
            Cardinality({id \in Granted(d) : ledger.operations[id].visitor = v})
       /\ \A i \in DOMAIN ledger.daily[d].addresses : ledger.daily[d].addresses[i] =
            Cardinality({id \in Granted(d) : ledger.operations[id].address = i})

\* What the chain has paid stays within the lifetime budget of its kind.
SpendWithinBudget ==
  \A k \in Kinds :
    Cardinality({a \in DOMAIN settled : settled[a] = "ok" /\ signed[a].op.kind = k})
      <= Budget[k]

\* Limits hold across retries, lost answers and restarts: the counters are a
\* recount of the operations, and the chain pays no more than the budget.
LimitsHold == QuotaMatchesOperations /\ SpendWithinBudget

=============================================================================
