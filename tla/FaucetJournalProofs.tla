------------------------ MODULE FaucetJournalProofs ------------------------
(***************************************************************************)
(* Theorems about FaucetJournal for any number of workers, operations and  *)
(* attempts, any clocks and limits: an operation pays at most once, the    *)
(* ledger never says what the chain contradicts, terminal records stay,    *)
(* and the quotas are a recount of the operations.                         *)
(***************************************************************************)
EXTENDS FaucetJournal, FiniteSetTheorems, TLAPS

-----------------------------------------------------------------------------
(* The inductive invariant.  That an operation pays once is not inductive: *)
(* it rests on what was sent being recorded, that on a worker sending only *)
(* what the ledger holds, and that on what the worker knows at each of its *)
(* awaits.  LocalInv says what a worker may rely on, place by place.       *)

Ledgers ==
  [operations: [Operations -> OperationRecords], nextFence: Nat, leases: [Kinds -> Leases],
   lifetime: [Kinds -> Nat], daily: [Days -> Quotas], disabled: BOOLEAN]

\* A transaction that did not pay and cannot pay any more.
Dead(a) == settled[a] # "ok" /\ processed[a] = "none" /\ height >= signed[a].lastValid

\* The transaction of a record is signed for its operation and bears its state out.
RecordOK(id, op) ==
  /\ op.state \in {"absent", "reserved"} <=> op.attempt = None
  /\ op.attempt # None => signed[op.attempt].op = id
  /\ op.state = "confirmed" => settled[op.attempt] = "ok"
  /\ op.state = "expired" => Dead(op.attempt)

\* Only recorded transactions are sent, and only what was sent is in a block.
ChainInv ==
  /\ \A a \in sent :
       signed[a].op \in Operations /\ ledger.operations[signed[a].op].attempt = a
  /\ \A a \in Attempts :
       /\ processed[a] # "none" =>
            a \in sent /\ settled[a] = "none" /\ height + 1 <= signed[a].lastValid
       /\ settled[a] # "none" => a \in sent

\* What a worker with local state l relies on in ledger b.
LocalInv(l, b) ==
  /\ l.pc # "idle" => l.op \in Operations /\ b.operations[l.op].state # "absent"
  /\ l.pc \in {"status", "height", "final", "record", "fence", "send", "release"} =>
       l.seen.attempt # None /\ b.operations[l.op].attempt = l.seen.attempt
  /\ l.pc \in {"status", "height"} => l.seen.state # "reserved"
  /\ l.pc = "acquire" =>
       \/ l.seen.state = "reserved"
       \/ l.seen.attempt # None /\ b.operations[l.op].attempt = l.seen.attempt
  /\ l.pc = "persist" => l.seen.attempt # None /\ signed[l.seen.attempt].op = l.op
  /\ l.pc = "final" => height > signed[l.seen.attempt].lastValid
  /\ l.pc = "record" =>
       /\ l.verdict \in Terminal
       /\ l.verdict = "confirmed" => settled[l.seen.attempt] = "ok"
       /\ l.verdict = "expired" => Dead(l.seen.attempt)
  /\ l.pc = "release" => l.verdict \in {"submitted", "failed"}

Inv ==
  /\ TypeOK
  /\ ChainInv
  /\ \A id \in Operations : RecordOK(id, ledger.operations[id])
  /\ \A w \in Workers : LocalInv(worker[w], ledger)

\* A ledger that may follow the one of this state, as far as payments go.
Successor(b) ==
  /\ b \in Ledgers
  /\ \A id \in Operations :
       LET old == ledger.operations[id]
           new == b.operations[id]
       IN  /\ RecordOK(id, new)
           /\ old.state # "absent" => new.state # "absent"
           /\ old.attempt # None => new.attempt = old.attempt
           /\ old.state \in Terminal => new.state = old.state

-----------------------------------------------------------------------------
(* Facts about the constants.                                              *)

\* The ids that requests make are operations, and none of them is a placeholder.
LEMMA OperationIds ==
  /\ \A id \in Operations : id.kind \in Kinds
  /\ NoOperation \notin Operations
  /\ None \notin Attempts
  /\ \A o \in Owners, t \in 0..MaxTime :
       Operation("faucet", o, t \div DayLength) \in Operations
  /\ \A a \in Assets, t \in 0..MaxTime :
       Operation("observation", a, t \div BucketLength) \in Operations
  <1>1. \A id \in Operations : id.kind \in Kinds
    BY DEF Operations, Operation, Kinds
  <1>2. NoOperation \notin Operations
    BY <1>1 DEF NoOperation, Operation, Kinds
  <1>3. None \notin Attempts
    BY FaucetAssumption DEF None, Attempts
  <1>4. \A o \in Owners, t \in 0..MaxTime :
          Operation("faucet", o, t \div DayLength) \in Operations
    BY DEF Operations, Days
  <1>5. \A a \in Assets, t \in 0..MaxTime :
          Operation("observation", a, t \div BucketLength) \in Operations
    BY DEF Operations, Buckets
  <1> QED BY <1>1, <1>2, <1>3, <1>4, <1>5

\* The placeholders have the types of what they stand for.
LEMMA ConstantTypes ==
  /\ Absent \in OperationRecords
  /\ NoLease \in Leases
  /\ EmptyQuota \in Quotas
  /\ Rest \in Locals
  <1>1. Absent \in OperationRecords
    BY DEF Absent, OperationRecords, States, Slots, None
  <1>2. NoLease \in Leases
    BY DEF NoLease, Leases, None
  <1>3. EmptyQuota \in Quotas
    BY DEF EmptyQuota, Quotas
  <1>4. Rest \in Locals
    BY <1>1 DEF Rest, Locals, Places, States, Causes, None
  <1> QED BY <1>1, <1>2, <1>3, <1>4

\* The initial state satisfies the invariant.
LEMMA InitInv == Init => Inv
  <1> SUFFICES ASSUME Init PROVE Inv
    OBVIOUS
  <1>1. TypeOK
    BY ConstantTypes, FaucetAssumption DEF Init, TypeOK, Results
  <1>2. ChainInv
    BY DEF Init, ChainInv
  <1>3. \A id \in Operations : RecordOK(id, ledger.operations[id])
    BY DEF Init, RecordOK, Absent
  <1>4. \A w \in Workers : LocalInv(worker[w], ledger)
    BY DEF Init, LocalInv, Rest, Absent
  <1> QED BY <1>1, <1>2, <1>3, <1>4 DEF Inv

-----------------------------------------------------------------------------
(* A worker's step: it writes the ledger or not, and moves on.             *)

\* The ledger and the workers have their types.
LEMMA TypeFacts ==
  ASSUME TypeOK
  PROVE  /\ ledger \in Ledgers
         /\ \A w \in Workers : worker[w] \in Locals
  BY DEF TypeOK, Ledgers

\* The ledger may stay as it is.
LEMMA SameLedger ==
  ASSUME Inv
  PROVE  Successor(ledger)
  BY TypeFacts DEF Inv, Successor

\* What a worker relies on survives the writes of the others.
LEMMA LocalKept ==
  ASSUME Inv, NEW b, Successor(b), NEW l, LocalInv(l, ledger)
  PROVE  LocalInv(l, b)
  BY DEF Successor, LocalInv

\* A worker that leaves a fit ledger and goes where it may be keeps the invariant.
LEMMA WorkerStep ==
  ASSUME Inv, NEW w \in Workers, NEW l \in Locals, NEW b, Successor(b), LocalInv(l, b),
         ledger' = b, Stay(w, l), UNCHANGED <<now, chainVars>>
  PROVE  Inv' /\ KeepsTerminal
  <1> USE DEF chainVars
  <1>1. TypeOK'
    BY DEF Inv, TypeOK, Stay, Successor, Ledgers
  <1>2. ChainInv'
    BY OperationIds DEF Inv, ChainInv, Successor, TypeOK
  <1>3. \A id \in Operations : RecordOK(id, ledger.operations[id])'
    BY DEF Successor, RecordOK, Dead
  <1>4. \A v \in Workers : LocalInv(worker[v], ledger)'
    <2> TAKE v \in Workers
    <2>1. LocalInv(worker'[v], b)
      BY LocalKept DEF Inv, TypeOK, Stay
    <2> QED BY <2>1 DEF LocalInv, Dead
  <1>5. KeepsTerminal
    BY DEF Inv, TypeOK, Successor, KeepsTerminal
  <1> QED BY <1>1, <1>2, <1>3, <1>4, <1>5 DEF Inv

\* A worker that only reads.
LEMMA ReadStep ==
  ASSUME Inv, NEW w \in Workers, NEW l \in Locals, LocalInv(l, ledger), Stay(w, l),
         UNCHANGED <<now, ledger, chainVars>>
  PROVE  Inv' /\ KeepsTerminal
  BY WorkerStep, SameLedger

\* A worker that writes: the write is good, and so is where it goes after either
\* outcome.
LEMMA WriteStep ==
  ASSUME Inv, NEW w \in Workers, NEW l \in Locals, NEW b, Successor(b), NEW outcome,
         LocalInv(l, b), outcome = "unsaved" => LocalInv(l, ledger),
         Store(outcome, b), Stay(w, l), UNCHANGED <<now, chainVars>>
  PROVE  Inv' /\ KeepsTerminal
  BY WorkerStep, SameLedger DEF Store

\* A worker at rest relies on nothing.
LEMMA RestSafe ==
  ASSUME Inv, NEW w \in Workers, NEW b
  PROVE  /\ Return(w) \in Locals /\ LocalInv(Return(w), b)
         /\ Disabled(w) \in Locals /\ LocalInv(Disabled(w), b)
         /\ Threw(w) \in Locals /\ LocalInv(Threw(w), b)
         /\ Rest \in Locals /\ LocalInv(Rest, b)
  <1>1. worker[w] \in Locals
    BY TypeFacts DEF Inv
  <1>2. Return(w) \in Locals /\ Return(w).pc = "idle"
    BY <1>1, ConstantTypes DEF Return, Locals, Rest, Places
  <1>3. Disabled(w) \in Locals /\ Disabled(w).pc = "idle"
    BY <1>1, ConstantTypes DEF Disabled, Locals, Rest, Places
  <1>4. Rest \in Locals /\ Rest.pc = "idle"
    BY ConstantTypes DEF Rest
  <1>5. ASSUME NEW l \in Locals, l.pc = "idle" PROVE LocalInv(l, b)
    BY <1>5 DEF LocalInv
  <1> QED BY <1>2, <1>3, <1>4, <1>5 DEF Threw

\* reconcile begins with what the ledger holds.
LEMMA ReconcileSafe ==
  ASSUME Inv, NEW w \in Workers, NEW b, Successor(b), NEW id \in Operations,
         b.operations[id].state # "absent", NEW last \in BOOLEAN
  PROVE  /\ Reconcile(w, id, b.operations[id], last) \in Locals
         /\ LocalInv(Reconcile(w, id, b.operations[id], last), b)
  <1> DEFINE seen == b.operations[id]
  <1>1. seen \in OperationRecords /\ RecordOK(id, seen)
    BY DEF Successor, Ledgers
  <1>2. CASE seen.state \in Terminal \/ (last /\ seen.attempt = None)
    BY <1>2, RestSafe DEF Reconcile
  <1>3. CASE ~(seen.state \in Terminal \/ (last /\ seen.attempt = None))
    <2> DEFINE l == [worker[w] EXCEPT !.op = id, !.seen = seen, !.last = last,
                                      !.pc = IF seen.attempt = None THEN "acquire" ELSE "status"]
    <2>1. worker[w] \in Locals
      BY TypeFacts DEF Inv
    <2>2. l \in Locals
      BY <1>1, <2>1 DEF Locals, Places
    <2>3. /\ l.op = id /\ l.seen = seen
          /\ l.pc = IF seen.attempt = None THEN "acquire" ELSE "status"
      BY <2>1 DEF Locals
    <2>4. LocalInv(l, b)
      BY <1>1, <2>3 DEF LocalInv, RecordOK
    <2> QED BY <1>3, <2>2, <2>4 DEF Reconcile
  <1> QED BY <1>2, <1>3

-----------------------------------------------------------------------------
(* Reservations.                                                           *)

\* A clock that a request read is within the bound.
LEMMA TimesBound ==
  ASSUME TypeOK, NEW t \in Times
  PROVE  t \in 0..MaxTime
  BY FaucetAssumption DEF Times, TypeOK

\* The ledger after a write to one operation that leaves the rest of the
\* operations alone is a fit successor when the new record is.
LEMMA OneRecord ==
  ASSUME Inv, NEW b \in Ledgers, NEW id \in Operations, NEW op,
         b.operations = [ledger.operations EXCEPT ![id] = op],
         RecordOK(id, op),
         ledger.operations[id].state # "absent" => op.state # "absent",
         ledger.operations[id].attempt # None => op.attempt = ledger.operations[id].attempt,
         ledger.operations[id].state \in Terminal => op.state = ledger.operations[id].state
  PROVE  Successor(b)
  BY DEF Inv, TypeOK, Successor

\* A ledger with a new grant is a fit successor.
LEMMA GrantSuccessor ==
  ASSUME Inv, NEW o \in Owners, NEW visitor \in Visitors, NEW address \in Addresses,
         NEW t \in 0..MaxTime
  PROVE  LET id == Operation("faucet", o, t \div DayLength)
         IN  /\ Successor(GrantReserved(id, visitor, address))
             /\ GrantReserved(id, visitor, address).operations[id].state # "absent"
  <1> DEFINE id == Operation("faucet", o, t \div DayLength)
             b == GrantReserved(id, visitor, address)
             op == [Absent EXCEPT !.state = "reserved", !.visitor = visitor, !.address = address]
  <1>1. id \in Operations /\ id.period \in Days
    BY OperationIds DEF Operation, Days
  <1>2. CASE ledger.operations[id].state # "absent"
    BY <1>2, SameLedger DEF GrantReserved
  <1>3. CASE ledger.operations[id].state = "absent"
    <2> HIDE DEF id
    <2>1. /\ op \in OperationRecords
          /\ op.state = "reserved" /\ op.attempt = None
      BY DEF Absent, OperationRecords, States, Active, Slots, None
    <2>2. ledger.daily[id.period] \in Quotas
      BY <1>1 DEF Inv, TypeOK
    <2> DEFINE q == ledger.daily[id.period]
               n == [grants |-> q.grants + 1,
                     visitors |-> [q.visitors EXCEPT ![visitor] = @ + 1],
                     addresses |-> [q.addresses EXCEPT ![address] = @ + 1]]
    <2>3. n \in Quotas
      BY <2>2 DEF Quotas
    <2> DEFINE lifetime == [ledger.lifetime EXCEPT !["faucet"] = @ + 1]
    <2>4. b = [operations |-> [ledger.operations EXCEPT ![id] = op],
               nextFence |-> ledger.nextFence, leases |-> ledger.leases, lifetime |-> lifetime,
               daily |-> [ledger.daily EXCEPT ![id.period] = n], disabled |-> ledger.disabled]
      BY <1>3, <2>2, TypeFacts DEF Inv, Ledgers, GrantReserved
    <2>5. b \in Ledgers /\ b.operations = [ledger.operations EXCEPT ![id] = op]
      <3>1. lifetime \in [Kinds -> Nat]
        BY DEF Inv, TypeOK, Kinds
      <3> HIDE DEF b, n, op, lifetime
      <3> QED BY <1>1, <2>1, <2>3, <2>4, <3>1, TypeFacts DEF Inv, Ledgers
    <2>6. RecordOK(id, op)
      BY <2>1 DEF RecordOK
    <2>7. ledger.operations[id].attempt = None
      BY <1>1, <1>3 DEF Inv, RecordOK
    <2>8. Successor(b)
      <3> HIDE DEF b, op
      <3> QED BY <1>1, <1>3, <2>1, <2>5, <2>6, <2>7, OneRecord DEF Terminal
    <2> QED BY <1>1, <2>1, <2>5, <2>8 DEF Inv, TypeOK, id
  <1> QED BY <1>2, <1>3

\* A ledger with a new observation is a fit successor.
LEMMA ObservationSuccessor ==
  ASSUME Inv, NEW a \in Assets, NEW t \in 0..MaxTime
  PROVE  LET id == Operation("observation", a, t \div BucketLength)
         IN  /\ Successor(ObservationReserved(id))
             /\ ObservationReserved(id).operations[id].state # "absent"
  <1> DEFINE id == Operation("observation", a, t \div BucketLength)
             b == ObservationReserved(id)
             op == [Absent EXCEPT !.state = "reserved"]
  <1>1. id \in Operations
    BY OperationIds
  <1>2. CASE ledger.operations[id].state # "absent"
    BY <1>2, SameLedger DEF ObservationReserved
  <1>3. CASE ledger.operations[id].state = "absent"
    <2> HIDE DEF id
    <2>1. /\ op \in OperationRecords
          /\ op.state = "reserved" /\ op.attempt = None
      BY DEF Absent, OperationRecords, States, Active, Slots, None
    <2> DEFINE lifetime == [ledger.lifetime EXCEPT !["observation"] = @ + 1]
    <2>2. b = [operations |-> [ledger.operations EXCEPT ![id] = op],
               nextFence |-> ledger.nextFence, leases |-> ledger.leases, lifetime |-> lifetime,
               daily |-> ledger.daily, disabled |-> ledger.disabled]
      BY <1>3, TypeFacts DEF Inv, Ledgers, ObservationReserved
    <2>3. b \in Ledgers /\ b.operations = [ledger.operations EXCEPT ![id] = op]
      <3>1. lifetime \in [Kinds -> Nat]
        BY DEF Inv, TypeOK, Kinds
      <3> HIDE DEF b, op, lifetime
      <3> QED BY <1>1, <2>1, <2>2, <3>1, TypeFacts DEF Inv, Ledgers
    <2>4. RecordOK(id, op)
      BY <2>1 DEF RecordOK
    <2>5. ledger.operations[id].attempt = None
      BY <1>1, <1>3 DEF Inv, RecordOK
    <2>6. Successor(b)
      <3> HIDE DEF b, op
      <3> QED BY <1>1, <1>3, <2>1, <2>3, <2>4, <2>5, OneRecord DEF Terminal
    <2> QED BY <1>1, <2>1, <2>3, <2>6 DEF Inv, TypeOK, id
  <1> QED BY <1>2, <1>3

\* Fund and refresh reserve what was absent, or find what is there.
LEMMA RequestsInv ==
  ASSUME Inv, NEW w \in Workers, Requests(w)
  PROVE  Inv' /\ KeepsTerminal
  <1>1. ASSUME NEW t \in Times, NEW outcome \in Outcomes, NEW o \in Owners,
               NEW v \in Visitors, NEW i \in Addresses, Fund(w, o, v, i, t, outcome)
        PROVE  Inv' /\ KeepsTerminal
    <2> DEFINE id == Operation("faucet", o, t \div DayLength)
               b == GrantReserved(id, v, i)
               l == IF outcome = "saved" THEN Reconcile(w, id, b.operations[id], FALSE)
                    ELSE Disabled(w)
    <2>1. id \in Operations /\ Successor(b) /\ b.operations[id].state # "absent"
      BY TimesBound, GrantSuccessor, OperationIds DEF Inv
    <2>2. Store(outcome, b) /\ Stay(w, l) /\ UNCHANGED <<now, chainVars>>
      BY <1>1 DEF Fund
    <2> HIDE DEF id, b
    <2>3. l \in Locals /\ LocalInv(l, b) /\ (outcome = "unsaved" => LocalInv(l, ledger))
      BY <2>1, ReconcileSafe, RestSafe
    <2> HIDE DEF l
    <2> QED BY <2>1, <2>2, <2>3, WriteStep
  <1>2. ASSUME NEW t \in Times, NEW outcome \in Outcomes, NEW a \in Assets,
               Refresh(w, a, t, outcome)
        PROVE  Inv' /\ KeepsTerminal
    <2> DEFINE id == Operation("observation", a, t \div BucketLength)
               b == ObservationReserved(id)
               l == IF outcome = "saved" THEN Reconcile(w, id, b.operations[id], FALSE)
                    ELSE Return(w)
    <2>1. id \in Operations /\ Successor(b) /\ b.operations[id].state # "absent"
      BY TimesBound, ObservationSuccessor, OperationIds DEF Inv
    <2>2. Store(outcome, b) /\ Stay(w, l) /\ UNCHANGED <<now, chainVars>>
      BY <1>2 DEF Refresh
    <2> HIDE DEF id, b
    <2>3. l \in Locals /\ LocalInv(l, b) /\ (outcome = "unsaved" => LocalInv(l, ledger))
      BY <2>1, ReconcileSafe, RestSafe
    <2> HIDE DEF l
    <2> QED BY <2>1, <2>2, <2>3, WriteStep
  <1> QED BY <1>1, <1>2 DEF Requests

-----------------------------------------------------------------------------
(* reconcile.                                                              *)

\* What reconcile concludes is what the chain says.
LEMMA VerdictFacts ==
  ASSUME NEW a
  PROVE  /\ \A v \in Verdicts(TransactionStatus(a)) :
              v \in {"confirmed", "failed"} /\ (v = "confirmed" => settled[a] = "ok")
         /\ \A v \in FinalVerdicts(TransactionStatus(a)) :
              /\ v \in Terminal
              /\ v = "confirmed" => settled[a] = "ok"
              /\ v = "expired" => settled[a] # "ok"
  BY SMTT(60) DEF Verdicts, FinalVerdicts, TransactionStatus, Terminal

\* A status that was read is a verdict only when the chain settles it.
LEMMA ReadStatusInv ==
  ASSUME Inv, NEW w \in Workers, ReadStatus(w)
  PROVE  Inv' /\ KeepsTerminal
  <1> DEFINE a == worker[w].seen.attempt
  <1>1. worker[w] \in Locals /\ LocalInv(worker[w], ledger) /\ worker[w].pc = "status"
    BY TypeFacts DEF Inv, ReadStatus
  <1>2. UNCHANGED <<now, ledger, chainVars>>
    BY DEF ReadStatus
  <1>3. CASE Stay(w, [worker[w] EXCEPT !.pc = "height"])
    <2> DEFINE l == [worker[w] EXCEPT !.pc = "height"]
    <2>1. l \in Locals /\ LocalInv(l, ledger)
      BY <1>1 DEF Locals, Places, LocalInv
    <2> QED BY <1>2, <1>3, <2>1, ReadStep
  <1>4. ASSUME NEW v \in Verdicts(TransactionStatus(a)),
               Stay(w, [worker[w] EXCEPT !.pc = "record", !.verdict = v])
        PROVE  Inv' /\ KeepsTerminal
    <2> DEFINE l == [worker[w] EXCEPT !.pc = "record", !.verdict = v]
    <2>1. v \in {"confirmed", "failed"} /\ (v = "confirmed" => settled[a] = "ok")
      BY <1>4, VerdictFacts
    <2>2. l \in Locals
      BY <1>1, <2>1 DEF Locals, Places, States, Terminal
    <2>3. LocalInv(l, ledger)
      BY <1>1, <2>1 DEF Locals, LocalInv, Terminal
    <2> QED BY <1>2, <1>4, <2>2, <2>3, ReadStep
  <1> QED BY <1>3, <1>4 DEF ReadStatus

\* A height past the last valid one sends the worker to look once more.
LEMMA ReadHeightInv ==
  ASSUME Inv, NEW w \in Workers, ReadHeight(w)
  PROVE  Inv' /\ KeepsTerminal
  <1>1. worker[w] \in Locals /\ LocalInv(worker[w], ledger) /\ worker[w].pc = "height"
    BY TypeFacts DEF Inv, ReadHeight
  <1>2. UNCHANGED <<now, ledger, chainVars>>
    BY DEF ReadHeight
  <1>3. CASE height > signed[worker[w].seen.attempt].lastValid
    <2> DEFINE l == [worker[w] EXCEPT !.pc = "final"]
    <2>1. l \in Locals /\ LocalInv(l, ledger)
      BY <1>1, <1>3 DEF Locals, Places, LocalInv
    <2> QED BY <1>2, <1>3, <2>1, ReadStep DEF ReadHeight
  <1>4. CASE ~(height > signed[worker[w].seen.attempt].lastValid)
    <2> DEFINE l == [worker[w] EXCEPT !.pc = "acquire"]
    <2>1. l \in Locals /\ LocalInv(l, ledger)
      BY <1>1 DEF Locals, Places, LocalInv
    <2>2. Unresolved(w) \in Locals /\ LocalInv(Unresolved(w), ledger)
      BY <2>1, RestSafe DEF Unresolved
    <2> QED BY <1>2, <1>4, <2>2, ReadStep DEF ReadHeight
  <1> QED BY <1>3, <1>4

\* A worker says expired only when no block can hold the transaction any more: one
\* that was processed is in a block no higher than its last valid height.
LEMMA ReadFinalStatusInv ==
  ASSUME Inv, NEW w \in Workers, ReadFinalStatus(w)
  PROVE  Inv' /\ KeepsTerminal
  <1> DEFINE a == worker[w].seen.attempt
  <1>1. worker[w] \in Locals /\ LocalInv(worker[w], ledger) /\ worker[w].pc = "final"
    BY TypeFacts DEF Inv, ReadFinalStatus
  <1>2. UNCHANGED <<now, ledger, chainVars>>
    BY DEF ReadFinalStatus
  <1>3. PICK v \in FinalVerdicts(TransactionStatus(a)) :
          Stay(w, [worker[w] EXCEPT !.pc = "record", !.verdict = v])
    BY DEF ReadFinalStatus
  <1> DEFINE l == [worker[w] EXCEPT !.pc = "record", !.verdict = v]
  <1>4. /\ v \in Terminal
        /\ v = "confirmed" => settled[a] = "ok"
        /\ v = "expired" => settled[a] # "ok"
    BY <1>3, VerdictFacts
  <1>5. a \in Attempts /\ height > signed[a].lastValid
    BY <1>1 DEF LocalInv, Locals, OperationRecords, Slots
  <1>6. signed[a].lastValid \in Nat /\ height \in Nat
    BY <1>5 DEF Inv, TypeOK
  <1>7. processed[a] = "none" /\ height >= signed[a].lastValid
    BY <1>5, <1>6 DEF Inv, ChainInv
  <1>8. l \in Locals
    BY <1>1, <1>4 DEF Locals, Places, States
  <1>9. LocalInv(l, ledger)
    BY <1>1, <1>4, <1>7 DEF Locals, LocalInv, Dead
  <1> QED BY <1>2, <1>3, <1>8, <1>9, ReadStep

\* transition writes what the chain bears out, and only to an open record.
LEMMA RecordInv ==
  ASSUME Inv, NEW w \in Workers, NEW outcome, Record(w, outcome)
  PROVE  Inv' /\ KeepsTerminal
  <1> DEFINE id == worker[w].op
             v == worker[w].verdict
             b == Transitioned(id, v)
             op == [ledger.operations[id] EXCEPT !.state = v]
             l == IF outcome = "saved" THEN Return(w) ELSE Threw(w)
  <1>1. worker[w] \in Locals /\ LocalInv(worker[w], ledger) /\ worker[w].pc = "record"
    BY TypeFacts DEF Inv, Record
  <1>2. /\ id \in Operations /\ v \in Terminal
        /\ worker[w].seen.attempt = ledger.operations[id].attempt
    BY <1>1 DEF LocalInv
  <1>3. ledger.operations[id] \in OperationRecords /\ RecordOK(id, ledger.operations[id])
    BY <1>2 DEF Inv, TypeOK
  <1>4. Successor(b)
    <2>1. CASE ledger.operations[id].state \in Terminal
      BY <2>1, SameLedger DEF Transitioned
    <2>2. CASE ledger.operations[id].state \notin Terminal
      <3>1. b = [ledger EXCEPT !.operations[id].state = v]
        BY <2>2 DEF Transitioned
      <3>2. b \in Ledgers /\ b.operations = [ledger.operations EXCEPT ![id] = op]
        <4> HIDE DEF b, id, v
        <4> QED BY <1>2, <1>3, <3>1, TypeFacts DEF Inv, Ledgers, OperationRecords, States
      <3>3. op.state = v /\ op.attempt = ledger.operations[id].attempt
        BY <1>3 DEF OperationRecords
      <3>4. RecordOK(id, op) /\ op.state # "absent"
        BY <1>1, <1>2, <1>3, <3>3 DEF RecordOK, LocalInv, Record, Terminal
      <3> HIDE DEF b, op
      <3> QED BY <1>2, <2>2, <3>2, <3>3, <3>4, OneRecord
    <2> QED BY <2>1, <2>2
  <1>5. Store(outcome, b) /\ Stay(w, l) /\ UNCHANGED <<now, chainVars>>
    BY DEF Record
  <1>6. l \in Locals /\ LocalInv(l, b) /\ LocalInv(l, ledger)
    BY RestSafe
  <1> HIDE DEF b, l
  <1> QED BY <1>4, <1>5, <1>6, WriteStep

\* A worker that fails, or dies, holds nothing back.
LEMMA FaultsInv ==
  ASSUME Inv, NEW w \in Workers, Faults(w)
  PROVE  Inv' /\ KeepsTerminal
  <1>1. CASE ReadFails(w) \/ Unavailable(w) \/ Crash(w)
    BY <1>1, RestSafe, ReadStep DEF ReadFails, Unavailable, Crash
  <1>2. CASE PreparationFails(w)
    <2>1. PICK cause \in {"identity", "service", "other"} : Stay(w, Abandon(w, cause))
      BY <1>2 DEF PreparationFails
    <2>2. worker[w] \in Locals /\ LocalInv(worker[w], ledger) /\ worker[w].pc # "idle"
      BY <1>2, TypeFacts DEF Inv, PreparationFails
    <2>3. Abandon(w, cause) \in Locals /\ LocalInv(Abandon(w, cause), ledger)
      BY <2>2 DEF Abandon, Locals, Places, Causes, LocalInv
    <2> QED BY <1>2, <2>1, <2>3, ReadStep DEF PreparationFails
  <1> QED BY <1>1, <1>2 DEF Faults

-----------------------------------------------------------------------------
(* The chain.  ChainKept is what every step leaves of it, for the          *)
(* transactions that are signed.                                           *)

ChainKept ==
  /\ height' >= height
  /\ \A a \in Attempts : signed[a].op # NoOperation =>
       /\ signed'[a] = signed[a]
       /\ settled[a] = "ok" => settled'[a] = "ok"
       /\ Dead(a) => Dead(a)'

\* A step of the chain leaves every record and every worker as good as it was.
LEMMA ChainStep ==
  ASSUME Inv, ChainKept, TypeOK', ledger' = ledger
  PROVE  /\ \A id \in Operations : RecordOK(id, ledger.operations[id])'
         /\ \A v \in Workers : worker'[v] = worker[v] => LocalInv(worker[v], ledger)'
  <1>1. \A id \in Operations : RecordOK(id, ledger.operations[id])'
    <2> SUFFICES ASSUME NEW id \in Operations PROVE RecordOK(id, ledger.operations[id])'
      OBVIOUS
    <2>1. /\ RecordOK(id, ledger.operations[id])
          /\ ledger.operations[id] \in OperationRecords
      BY DEF Inv, TypeOK
    <2>2. CASE ledger.operations[id].attempt = None
      BY <2>1, <2>2 DEF RecordOK
    <2>3. CASE ledger.operations[id].attempt # None
      <3> DEFINE a == ledger.operations[id].attempt
      <3>1. a \in Attempts /\ signed[a].op = id /\ id # NoOperation
        BY <2>1, <2>3, OperationIds DEF RecordOK, OperationRecords, Slots
      <3>2. signed'[a] = signed[a] /\ (settled[a] = "ok" => settled'[a] = "ok")
            /\ (Dead(a) => Dead(a)')
        BY <3>1 DEF ChainKept
      <3> QED BY <2>1, <2>3, <3>1, <3>2 DEF RecordOK, Dead
    <2> QED BY <2>2, <2>3
  <1>2. ASSUME NEW v \in Workers, worker'[v] = worker[v]
        PROVE  LocalInv(worker[v], ledger)'
    <2> DEFINE l == worker[v]
               a == l.seen.attempt
    <2>1. l \in Locals /\ LocalInv(l, ledger)
      BY TypeFacts DEF Inv
    <2>2. a \in Slots
      BY <2>1 DEF Locals, OperationRecords
    <2>3. CASE l.pc \in {"final", "record", "persist"}
      <3>1. a \in Attempts /\ signed[a].op # NoOperation
        BY <2>1, <2>2, <2>3, OperationIds DEF LocalInv, Slots, Inv, RecordOK
      <3>2. /\ signed'[a] = signed[a] /\ (settled[a] = "ok" => settled'[a] = "ok")
            /\ Dead(a) => Dead(a)'
            /\ height' >= height
        BY <1>2, <3>1 DEF ChainKept, Dead
      <3>3. height \in Nat /\ height' \in Nat /\ signed[a].lastValid \in Nat
        BY <3>1 DEF Inv, TypeOK
      <3> QED BY <1>2, <2>1, <2>3, <3>2, <3>3 DEF LocalInv, Dead
    <2>4. CASE l.pc \notin {"final", "record", "persist"}
      BY <1>2, <2>1, <2>4 DEF LocalInv
    <2> QED BY <2>3, <2>4
  <1> QED BY <1>1, <1>2

\* A fresh signature touches nothing that is recorded, sent or relied on.
LEMMA PrepareInv ==
  ASSUME Inv, NEW w \in Workers, Prepare(w)
  PROVE  Inv' /\ KeepsTerminal
  <1>1. PICK a \in Attempts :
          /\ Fresh(a)
          /\ signed' = [signed EXCEPT ![a] = [op |-> worker[w].op, lastValid |-> height + Validity]]
          /\ Stay(w, [worker[w] EXCEPT !.seen.attempt = a, !.pc = "persist"])
    BY DEF Prepare
  <1>2. worker[w] \in Locals /\ LocalInv(worker[w], ledger) /\ worker[w].pc = "prepare"
    BY TypeFacts DEF Inv, Prepare
  <1>3. UNCHANGED <<now, ledger, height, sent, processed, settled>>
    BY DEF Prepare
  <1>4. signed[a].op = NoOperation
    BY <1>1 DEF Fresh
  <1> DEFINE l == [worker[w] EXCEPT !.seen.attempt = a, !.pc = "persist"]
  <1>5. /\ l \in Locals
        /\ l.pc = "persist" /\ l.op = worker[w].op /\ l.seen.attempt = a
    BY <1>2 DEF Locals, Places, OperationRecords, Slots
  <1>6. worker[w].op \in Operations /\ ledger.operations[worker[w].op].state # "absent"
    BY <1>2 DEF LocalInv
  <1>7. TypeOK'
    <2>1. signed' \in [Attempts -> [op: Operations \cup {NoOperation}, lastValid: Nat]]
      BY <1>1, <1>6, FaucetAssumption DEF Inv, TypeOK
    <2>2. worker' \in [Workers -> Locals]
      BY <1>1, <1>5 DEF Inv, TypeOK, Stay
    <2> QED BY <1>3, <2>1, <2>2 DEF Inv, TypeOK
  <1>8. ChainKept
    BY <1>1, <1>3, <1>4 DEF ChainKept, Dead, Inv, TypeOK
  <1>9. ChainInv'
    <2>1. a \notin sent
      BY <1>4, OperationIds DEF Inv, ChainInv
    <2> QED BY <1>1, <1>3, <2>1 DEF Inv, ChainInv, TypeOK
  <1>10. LocalInv(worker[w], ledger)'
    <2>1. worker'[w] = l /\ signed'[a].op = worker[w].op
      BY <1>1 DEF Inv, TypeOK, Stay
    <2>2. a # None
      BY OperationIds
    <2> HIDE DEF l
    <2> QED BY <1>3, <1>5, <1>6, <2>1, <2>2 DEF LocalInv
  <1>11. \A v \in Workers : v # w => worker'[v] = worker[v]
    BY <1>1 DEF Inv, TypeOK, Stay
  <1> QED BY <1>3, <1>7, <1>8, <1>9, <1>10, <1>11, ChainStep DEF Inv, KeepsTerminal

\* What is sent is what the ledger holds for the operation.
LEMMA SendExactInv ==
  ASSUME Inv, NEW w \in Workers, SendExact(w)
  PROVE  Inv' /\ KeepsTerminal
  <1>1. worker[w] \in Locals /\ LocalInv(worker[w], ledger) /\ worker[w].pc = "send"
    BY TypeFacts DEF Inv, SendExact
  <1> DEFINE a == worker[w].seen.attempt
             id == worker[w].op
  <1>2. /\ a \in Attempts /\ id \in Operations
        /\ ledger.operations[id].attempt = a /\ ledger.operations[id].state # "absent"
        /\ signed[a].op = id
    BY <1>1 DEF LocalInv, Locals, OperationRecords, Slots, Inv, RecordOK
  <1>3. UNCHANGED <<now, ledger, height, signed, processed, settled>> /\ sent' \in {sent, sent \cup {a}}
    BY SMTT(60) DEF SendExact
  <1>4. PICK last \in BOOLEAN, v \in {"submitted", "failed"} :
          Stay(w, [worker[w] EXCEPT !.pc = "release", !.verdict = v, !.last = last])
    BY DEF SendExact
  <1> DEFINE l == [worker[w] EXCEPT !.pc = "release", !.verdict = v, !.last = last]
  <1>5. /\ l \in Locals
        /\ l.pc = "release" /\ l.verdict = v /\ l.op = id /\ l.seen.attempt = a
    BY <1>1, <1>4 DEF Locals, Places, States, Active, Terminal
  <1>6. TypeOK'
    <2>1. worker' \in [Workers -> Locals]
      BY <1>4, <1>5 DEF Inv, TypeOK, Stay
    <2> QED BY <1>2, <1>3, <2>1 DEF Inv, TypeOK
  <1>7. ChainKept
    BY <1>3 DEF ChainKept, Dead, Inv, TypeOK
  <1>8. ChainInv'
    BY <1>2, <1>3 DEF Inv, ChainInv
  <1>9. LocalInv(worker[w], ledger)'
    <2>1. worker'[w] = l
      BY <1>4 DEF Inv, TypeOK, Stay
    <2>2. a # None
      BY <1>2, OperationIds
    <2> HIDE DEF l, a, id
    <2> QED BY <1>2, <1>3, <1>4, <1>5, <2>1, <2>2 DEF LocalInv
  <1>10. \A u \in Workers : u # w => worker'[u] = worker[u]
    BY <1>4 DEF Inv, TypeOK, Stay
  <1> QED BY <1>3, <1>6, <1>7, <1>8, <1>9, <1>10, ChainStep DEF Inv, KeepsTerminal

\* The clock.
LEMMA TickInv ==
  ASSUME Inv, Tick
  PROVE  Inv' /\ KeepsTerminal
  <1> USE DEF Tick, chainVars
  <1>1. TypeOK'
    BY FaucetAssumption DEF Inv, TypeOK
  <1>2. ChainKept
    BY DEF ChainKept, Dead, Inv, TypeOK
  <1>3. ChainInv'
    BY DEF Inv, ChainInv
  <1> QED BY <1>1, <1>2, <1>3, ChainStep DEF Inv, KeepsTerminal

\* A transaction that is dead is too old for the next block.
LEMMA ProcessInv ==
  ASSUME Inv, NEW a \in Attempts, NEW result \in {"ok", "error"}, Process(a, result)
  PROVE  Inv' /\ KeepsTerminal
  <1> USE DEF Process
  <1>1. TypeOK'
    BY DEF Inv, TypeOK, Results
  <1>2. ChainKept
    <2>1. \A c \in Attempts : signed[c].lastValid \in Nat
      BY DEF Inv, TypeOK
    <2> QED BY <2>1 DEF ChainKept, Dead, Inv, TypeOK
  <1>3. ChainInv'
    BY DEF Inv, ChainInv, TypeOK
  <1> QED BY <1>1, <1>2, <1>3, ChainStep DEF Inv, KeepsTerminal

\* A confirmed block settles some of what was processed; the rest was on a fork.
LEMMA ConfirmBlockInv ==
  ASSUME Inv, NEW kept \in SUBSET {a \in Attempts : processed[a] # "none"}, ConfirmBlock(kept)
  PROVE  Inv' /\ KeepsTerminal
  <1> USE DEF ConfirmBlock
  <1>1. TypeOK'
    BY DEF Inv, TypeOK, Results
  <1>2. ChainKept
    <2>1. \A c \in Attempts : signed[c].lastValid \in Nat
      BY DEF Inv, TypeOK
    <2> QED BY <2>1 DEF ChainKept, Dead, Inv, TypeOK, ChainInv
  <1>3. ChainInv'
    BY DEF Inv, ChainInv, TypeOK
  <1> QED BY <1>1, <1>2, <1>3, ChainStep DEF Inv, KeepsTerminal

-----------------------------------------------------------------------------
(* execute.                                                                *)

\* acquire touches the lease and, for a record that holds a transaction, its fence.
LEMMA AcquireInv ==
  ASSUME Inv, NEW w \in Workers, NEW t \in Times, NEW outcome, Acquire(w, t, outcome)
  PROVE  Inv' /\ KeepsTerminal
  <1> DEFINE id == worker[w].op
             fence == ledger.nextFence + 1
             old == ledger.operations[id]
             op == IF old.state = "reserved" THEN old ELSE [old EXCEPT !.fence = fence]
             lease == [op |-> id, fence |-> fence, expires |-> t + LeaseLength]
             b == [ledger EXCEPT
                     !.nextFence = fence,
                     !.leases[id.kind] = lease,
                     !.operations[id] = op]
             l == IF outcome # "saved" THEN Threw(w)
                  ELSE [worker[w] EXCEPT !.fence = fence,
                          !.pc = IF worker[w].seen.state = "reserved" THEN "prepare" ELSE "fence"]
  <1>1. worker[w] \in Locals /\ LocalInv(worker[w], ledger) /\ worker[w].pc = "acquire"
    BY TypeFacts DEF Inv, Acquire
  <1>2. id \in Operations /\ ledger.operations[id].state # "absent" /\ id.kind \in Kinds
    BY <1>1, OperationIds DEF LocalInv
  <1>3. ledger.operations[id] \in OperationRecords /\ RecordOK(id, ledger.operations[id])
    BY <1>2 DEF Inv, TypeOK
  <1>4. fence \in Nat /\ lease \in Leases
    BY <1>2, TimesBound, FaucetAssumption DEF Inv, TypeOK, Leases
  <1>5. CASE Stay(w, Return(w)) /\ UNCHANGED ledger
    BY <1>5, RestSafe, ReadStep DEF Acquire
  <1>6. CASE Store(outcome, b) /\ Stay(w, l)
    <2>1. /\ op \in OperationRecords /\ op.state = ledger.operations[id].state
          /\ op.attempt = ledger.operations[id].attempt
      BY <1>3, <1>4 DEF OperationRecords
    <2>2. b = [operations |-> [ledger.operations EXCEPT ![id] = op],
               nextFence |-> fence, leases |-> [ledger.leases EXCEPT ![id.kind] = lease],
               lifetime |-> ledger.lifetime, daily |-> ledger.daily,
               disabled |-> ledger.disabled]
      <3>1. ledger \in Ledgers
        BY TypeFacts DEF Inv
      <3>2. b = [ledger EXCEPT !.nextFence = fence, !.leases[id.kind] = lease,
                               !.operations[id] = op]
        OBVIOUS
      <3> HIDE DEF id, fence, lease, op, b
      <3> QED BY <1>2, <3>1, <3>2 DEF Ledgers
    <2>3. b \in Ledgers /\ b.operations = [ledger.operations EXCEPT ![id] = op]
      <3> HIDE DEF id, fence, lease, op, b
      <3> QED BY <1>2, <1>4, <2>1, <2>2, TypeFacts DEF Inv, Ledgers
    <2>4. RecordOK(id, op)
      BY <1>3, <2>1 DEF RecordOK
    <2>5. Successor(b)
      <3> HIDE DEF id, op, b
      <3> QED BY <1>2, <2>1, <2>3, <2>4, OneRecord
    <2>6. l \in Locals
      BY ZenonT(90), <1>1, <1>4, RestSafe DEF Locals, Places
    <2>7. LocalInv(l, b) /\ (outcome = "unsaved" => LocalInv(l, ledger))
      <3>1. CASE outcome # "saved"
        BY <3>1, RestSafe
      <3>2. CASE outcome = "saved"
        <4>1. /\ l.op = id /\ l.seen = worker[w].seen
              /\ l.pc = IF worker[w].seen.state = "reserved" THEN "prepare" ELSE "fence"
          BY <1>1, <3>2 DEF Locals
        <4>2. LocalInv(worker[w], b)
          <5> HIDE DEF b
          <5> QED BY <1>1, <2>5, LocalKept
        <4>3. LocalInv(l, b)
          <5> HIDE DEF b, l
          <5> QED BY <1>1, <4>1, <4>2 DEF LocalInv
        <4> QED BY <3>2, <4>3
      <3> QED BY <3>1, <3>2
    <2> HIDE DEF b, l
    <2> QED BY <1>6, <2>5, <2>6, <2>7, WriteStep DEF Acquire
  <1> QED BY <1>5, <1>6 DEF Acquire

\* A transaction is recorded only for an operation that has none.
LEMMA PersistPreparedInv ==
  ASSUME Inv, NEW w \in Workers, NEW t \in Times, NEW outcome, PersistPrepared(w, t, outcome)
  PROVE  Inv' /\ KeepsTerminal
  <1> DEFINE id == worker[w].op
             a == worker[w].seen.attempt
             op == [ledger.operations[id] EXCEPT !.state = "prepared", !.fence = worker[w].fence,
                                                 !.attempt = a]
             b == [ledger EXCEPT !.operations[id] =
                     [@ EXCEPT !.state = "prepared", !.fence = worker[w].fence, !.attempt = a]]
             l == IF outcome = "saved"
                  THEN [worker[w] EXCEPT !.seen = b.operations[id], !.pc = "fence"]
                  ELSE Abandon(w, "other")
  <1>1. worker[w] \in Locals /\ LocalInv(worker[w], ledger) /\ worker[w].pc = "persist"
    BY TypeFacts DEF Inv, PersistPrepared
  <1>2. /\ id \in Operations /\ ledger.operations[id].state # "absent"
        /\ a \in Attempts /\ a # None /\ signed[a].op = id
    BY <1>1 DEF LocalInv, Locals, OperationRecords, Slots
  <1>3. ledger.operations[id] \in OperationRecords /\ RecordOK(id, ledger.operations[id])
    BY <1>2 DEF Inv, TypeOK
  <1>4. ASSUME NEW cause \in Causes, NEW c, Successor(c)
        PROVE  Abandon(w, cause) \in Locals /\ LocalInv(Abandon(w, cause), c)
    <2>1. LocalInv(worker[w], c)
      BY <1>1, <1>4, LocalKept
    <2> QED BY <1>1, <1>2, <2>1 DEF Abandon, Locals, Places, LocalInv
  <1>5. CASE ~PersistAllowed(w, t)
    BY <1>4, <1>5, SameLedger, ReadStep DEF PersistPrepared, Causes
  <1>6. CASE PersistAllowed(w, t)
    <2>1. /\ op \in OperationRecords /\ op.state = "prepared" /\ op.attempt = a
          /\ worker[w].fence \in Nat
      BY <1>1, <1>2, <1>3 DEF OperationRecords, Locals, States, Active, Slots
    <2>2. b \in Ledgers /\ b.operations = [ledger.operations EXCEPT ![id] = op]
      <3>1. b = [ledger EXCEPT !.operations[id] = op]
        OBVIOUS
      <3> HIDE DEF b, op, id
      <3> QED BY <1>2, <2>1, <3>1, TypeFacts DEF Inv, Ledgers
    <2>3. RecordOK(id, op)
      BY <1>2, <2>1 DEF RecordOK
    <2>4. ledger.operations[id].state = "reserved" /\ ledger.operations[id].attempt = None
      BY <1>3, <1>6 DEF PersistAllowed, RecordOK
    <2>5. Successor(b)
      <3> HIDE DEF b, op, id, a
      <3> QED BY <1>2, <2>1, <2>2, <2>3, <2>4, OneRecord DEF Terminal
    <2>6. b.operations[id] = op
      <3> HIDE DEF b, op, id
      <3> QED BY <1>2, <2>2 DEF Inv, TypeOK
    <2>7. /\ l \in Locals /\ LocalInv(l, b)
          /\ outcome = "unsaved" => LocalInv(l, ledger)
      <3>1. CASE outcome # "saved"
        <4> HIDE DEF b
        <4> QED BY <1>4, <2>5, <3>1, SameLedger DEF Causes
      <3>2. CASE outcome = "saved"
        <4> DEFINE m == [worker[w] EXCEPT !.seen = op, !.pc = "fence"]
        <4>1. m \in Locals /\ m.seen = op /\ m.pc = "fence" /\ m.op = id
          <5> HIDE DEF op
          <5> QED BY <1>1, <2>1 DEF Locals, Places
        <4>2. LocalInv(m, b)
          <5> HIDE DEF b, m, op, id, a
          <5> QED BY <1>2, <2>1, <2>6, <4>1 DEF LocalInv
        <4> QED BY <2>6, <3>2, <4>1, <4>2
      <3> QED BY <3>1, <3>2
    <2>8. Store(outcome, b) /\ Stay(w, l) /\ UNCHANGED <<now, chainVars>>
      BY <1>6 DEF PersistPrepared
    <2> HIDE DEF b, l
    <2> QED BY <2>5, <2>7, <2>8, WriteStep
  <1> QED BY <1>5, <1>6

\* The check of the lease before sending, which writes nothing.
LEMMA AssertSendFenceInv ==
  ASSUME Inv, NEW w \in Workers, NEW t \in Times, AssertSendFence(w, t)
  PROVE  Inv' /\ KeepsTerminal
  <1>1. worker[w] \in Locals /\ LocalInv(worker[w], ledger) /\ worker[w].pc = "fence"
    BY TypeFacts DEF Inv, AssertSendFence
  <1>2. /\ [worker[w] EXCEPT !.pc = "send"] \in Locals
        /\ LocalInv([worker[w] EXCEPT !.pc = "send"], ledger)
    BY <1>1 DEF Locals, Places, LocalInv
  <1>3. /\ Abandon(w, "service") \in Locals
        /\ LocalInv(Abandon(w, "service"), ledger)
    BY <1>1 DEF Abandon, Locals, Places, Causes, LocalInv
  <1> QED BY <1>2, <1>3, ReadStep DEF AssertSendFence

\* Giving a lease back changes no operation.
LEMMA ReleasedLeaseFacts ==
  ASSUME Inv, NEW w \in Workers, worker[w].op \in Operations, NEW b, Successor(b)
  PROVE  /\ Successor(ReleasedLease(w, b))
         /\ ReleasedLease(w, b).operations = b.operations
  <1>1. worker[w].op.kind \in Kinds
    BY OperationIds
  <1> DEFINE c == [b EXCEPT !.leases[worker[w].op.kind] = NoLease]
  <1>2. c \in Ledgers /\ c.operations = b.operations
    BY <1>1, ConstantTypes DEF Successor, Ledgers
  <1>3. Successor(c)
    <2> HIDE DEF c
    <2> QED BY SMTT(60), <1>2 DEF Successor
  <1> QED BY <1>2, <1>3 DEF ReleasedLease

\* A lease given back with the state the worker saw, if it is still its own.
LEMMA ReleaseInv ==
  ASSUME Inv, NEW w \in Workers, NEW t \in Times, NEW outcome, Release(w, t, outcome)
  PROVE  Inv' /\ KeepsTerminal
  <1> DEFINE id == worker[w].op
             v == worker[w].verdict
             old == ledger.operations[id]
             done == old.state \in Terminal
             op == [old EXCEPT !.state = v]
             c == IF done THEN ledger ELSE [ledger EXCEPT !.operations[id].state = v]
             b == ReleasedLease(w, c)
             l == IF outcome # "saved" THEN Disabled(w)
                  ELSE IF worker[w].last THEN Reconcile(w, id, b.operations[id], TRUE)
                  ELSE Return(w)
  <1>1. worker[w] \in Locals /\ LocalInv(worker[w], ledger) /\ worker[w].pc = "release"
    BY TypeFacts DEF Inv, Release
  <1>2. id \in Operations /\ old.state # "absent" /\ v \in {"submitted", "failed"}
    BY <1>1 DEF LocalInv
  <1>3. old \in OperationRecords /\ RecordOK(id, old)
    BY SMTT(60), <1>2 DEF Inv, TypeOK
  <1>4. CASE UNCHANGED ledger /\ Stay(w, Disabled(w))
    BY SMTT(60), <1>4, RestSafe, ReadStep DEF Release
  <1>5. CASE /\ done \/ old.state \in {"prepared", "submitted"}
             /\ Store(outcome, b) /\ Stay(w, l)
    <2>1. Successor(c) /\ c.operations[id].state # "absent"
      <3>1. CASE done
        BY <1>2, <3>1, SameLedger
      <3>2. CASE ~done
        <4>1. c = [ledger EXCEPT !.operations[id].state = v]
          BY <3>2
        <4>2. /\ op \in OperationRecords /\ op.state = v /\ op.attempt = old.attempt
          BY <1>2, <1>3 DEF OperationRecords, States, Active, Terminal
        <4>3. c \in Ledgers /\ c.operations = [ledger.operations EXCEPT ![id] = op]
          <5> HIDE DEF c, id, v
          <5> QED BY SMTT(60), <1>2, <1>3, <4>1, <4>2, TypeFacts DEF Inv, Ledgers
        <4>4. RecordOK(id, op)
          BY <1>2, <1>3, <1>5, <3>2, <4>2 DEF RecordOK
        <4>5. c.operations[id] = op
          <5> HIDE DEF c, id, op
          <5> QED BY <1>2, <4>3 DEF Inv, TypeOK
        <4>6. Successor(c)
          <5> HIDE DEF c, id, op, v
          <5> QED BY <1>2, <3>2, <4>2, <4>3, <4>4, OneRecord
        <4> QED BY <1>2, <4>2, <4>5, <4>6
      <3> QED BY <3>1, <3>2
    <2>2. Successor(b) /\ b.operations[id].state # "absent"
      <3> HIDE DEF c
      <3> QED BY <1>2, <2>1, ReleasedLeaseFacts
    <2>3. /\ l \in Locals /\ LocalInv(l, b)
          /\ outcome = "unsaved" => LocalInv(l, ledger)
      <3> HIDE DEF b, id
      <3> QED BY <1>2, <2>2, RestSafe, ReconcileSafe
    <2> HIDE DEF b, l
    <2> QED BY <1>5, <2>2, <2>3, WriteStep DEF Release
  <1> QED BY <1>4, <1>5 DEF Release

\* A lease given back after a failure, which changes no record.
LEMMA ReleaseAbandonedInv ==
  ASSUME Inv, NEW w \in Workers, NEW outcome, ReleaseAbandoned(w, outcome)
  PROVE  Inv' /\ KeepsTerminal
  <1> DEFINE b == ReleasedLease(w, ledger)
             l == IF worker[w].op.kind = "faucet" /\ worker[w].cause = "identity"
                  THEN [worker[w] EXCEPT !.pc = "disable"]
                  ELSE IF outcome # "saved" THEN Disabled(w)
                  ELSE IF worker[w].cause = "other" THEN Threw(w)
                  ELSE Return(w)
  <1>1. worker[w] \in Locals /\ LocalInv(worker[w], ledger) /\ worker[w].pc = "abandon"
    BY TypeFacts DEF Inv, ReleaseAbandoned
  <1>2. worker[w].op \in Operations
    BY <1>1 DEF LocalInv
  <1>3. Successor(b)
    BY <1>2, SameLedger, ReleasedLeaseFacts
  <1>4. ASSUME NEW c, Successor(c)
        PROVE  /\ [worker[w] EXCEPT !.pc = "disable"] \in Locals
               /\ LocalInv([worker[w] EXCEPT !.pc = "disable"], c)
    <2>1. LocalInv(worker[w], c)
      BY <1>1, <1>4, LocalKept
    <2> QED BY <1>1, <2>1 DEF Locals, Places, LocalInv
  <1>5. l \in Locals /\ LocalInv(l, b) /\ LocalInv(l, ledger)
    <2> HIDE DEF b
    <2> QED BY <1>3, <1>4, SameLedger, RestSafe
  <1>6. Store(outcome, b) /\ Stay(w, l) /\ UNCHANGED <<now, chainVars>>
    BY DEF ReleaseAbandoned
  <1> HIDE DEF b, l
  <1> QED BY <1>3, <1>5, <1>6, WriteStep

\* The switch that stops grants.
LEMMA DisableFaucetInv ==
  ASSUME Inv, NEW w \in Workers, NEW outcome, DisableFaucet(w, outcome)
  PROVE  Inv' /\ KeepsTerminal
  <1> DEFINE b == [ledger EXCEPT !.disabled = TRUE]
  <1>1. b \in Ledgers /\ b.operations = ledger.operations
    BY TypeFacts DEF Inv, Ledgers
  <1>2. Successor(b)
    <2> HIDE DEF b
    <2> QED BY <1>1, SameLedger DEF Successor
  <1>3. Store(outcome, b) /\ Stay(w, Disabled(w)) /\ UNCHANGED <<now, chainVars>>
    BY DEF DisableFaucet
  <1> HIDE DEF b
  <1> QED BY <1>2, <1>3, RestSafe, WriteStep

-----------------------------------------------------------------------------
(* Every step.                                                             *)

\* Every step keeps the invariant.
LEMMA NextInv ==
  ASSUME Inv, [Next]_vars
  PROVE  Inv' /\ KeepsTerminal
  <1>1. ASSUME NEW w \in Workers, Steps(w)
        PROVE  Inv' /\ KeepsTerminal
    <2>1. CASE ReadStatus(w) \/ ReadHeight(w) \/ ReadFinalStatus(w)
      BY <2>1, ReadStatusInv, ReadHeightInv, ReadFinalStatusInv
    <2>2. CASE Prepare(w) \/ SendExact(w)
      BY <2>2, PrepareInv, SendExactInv
    <2>3. CASE \E t \in Times : AssertSendFence(w, t)
      BY <2>3, AssertSendFenceInv
    <2>4. ASSUME NEW outcome \in Outcomes,
                 Record(w, outcome) \/ ReleaseAbandoned(w, outcome) \/ DisableFaucet(w, outcome)
          PROVE  Inv' /\ KeepsTerminal
      BY <2>4, RecordInv, ReleaseAbandonedInv, DisableFaucetInv
    <2>5. ASSUME NEW outcome \in Outcomes, NEW t \in Times,
                 Acquire(w, t, outcome) \/ PersistPrepared(w, t, outcome) \/ Release(w, t, outcome)
          PROVE  Inv' /\ KeepsTerminal
      BY <2>5, AcquireInv, PersistPreparedInv, ReleaseInv
    <2> QED BY <1>1, <2>1, <2>2, <2>3, <2>4, <2>5 DEF Steps
  <1>2. CASE Tick
    BY <1>2, TickInv
  <1>3. CASE Chain
    BY <1>3, ProcessInv, ConfirmBlockInv DEF Chain
  <1>4. CASE \E w \in Workers : Requests(w) \/ Steps(w) \/ Faults(w)
    BY <1>1, <1>4, RequestsInv, FaultsInv
  <1>5. CASE UNCHANGED vars
    <2> USE <1>5 DEF vars, chainVars
    <2>1. TypeOK' /\ ChainInv'
      BY DEF Inv, TypeOK, ChainInv
    <2>2. ChainKept
      BY DEF ChainKept, Dead, Inv, TypeOK
    <2> QED BY <2>1, <2>2, ChainStep DEF Inv, KeepsTerminal
  <1> QED BY <1>2, <1>3, <1>4, <1>5 DEF Next

\* Every reachable state satisfies the inductive invariant.
THEOREM Invariance == Spec => []Inv
  <1>1. Init => Inv
    BY InitInv
  <1>2. Inv /\ [Next]_vars => Inv'
    BY NextInv
  <1> QED BY <1>1, <1>2, PTL DEF Spec

\* Two transactions that paid for one operation were both sent, so both are the
\* one the ledger holds for it.
LEMMA PaidOnceFromInv == Inv => PaidAtMostOnce
  BY DEF Inv, TypeOK, ChainInv, PaidAtMostOnce

\* What the ledger says of a transaction, the chain bears out.
LEMMA TruthFromInv == Inv => JournalTrue
  <1> SUFFICES ASSUME Inv PROVE JournalTrue
    OBVIOUS
  <1>1. DOMAIN ledger.operations = Operations
    BY DEF Inv, TypeOK
  <1>2. SentIsRecorded
    BY DEF Inv, ChainInv, SentIsRecorded
  <1>3. ExpiredNeverPays
    BY <1>1 DEF Inv, RecordOK, Dead, ExpiredNeverPays
  <1>4. ConfirmedPaid
    BY <1>1 DEF Inv, RecordOK, ConfirmedPaid
  <1> QED BY <1>2, <1>3, <1>4 DEF JournalTrue

\* For any number of workers, crashes, lost answers and forks, no operation of the
\* hosted service pays twice: fund and refreshObservations sign at most one
\* transaction that takes effect for each operation id.
THEOREM PaidOnce == Spec => []PaidAtMostOnce
  BY Invariance, PaidOnceFromInv, PTL

\* The ledger and the chain never contradict each other: sendExact sends only what
\* persistPrepared wrote, and reconcile records expired or confirmed only what is.
THEOREM LedgerIsTrue == Spec => []JournalTrue
  BY Invariance, TruthFromInv, PTL

\* transition, release and persistPrepared never change a terminal record and
\* never replace a recorded transaction, whoever runs them and however late.
THEOREM TerminalStays == Spec => TerminalIsFinal
  <1>1. Inv /\ [Next]_vars => [KeepsTerminal]_vars
    BY NextInv
  <1> QED BY <1>1, Invariance, PTL DEF Spec, TerminalIsFinal

-----------------------------------------------------------------------------
(* Quotas and budget.  The counters are a recount of the operations, so    *)
(* only a reservation may move them; and a recount within the budget bounds*)
(* what the chain pays, because every payment is an operation's own.       *)

\* The operations an instance can name are finitely many.
LEMMA FiniteOperations == IsFiniteSet(Operations)
  <1> DEFINE F == {Operation("faucet", o, d) : o \in Owners, d \in Days}
             O == {Operation("observation", a, p) : a \in Assets, p \in Buckets}
             f == [x \in Owners \X (0..MaxTime) |-> Operation("faucet", x[1], x[2] \div DayLength)]
             g == [x \in Assets \X (0..MaxTime) |->
                     Operation("observation", x[1], x[2] \div BucketLength)]
  <1>1. IsFiniteSet(Owners \X (0..MaxTime)) /\ IsFiniteSet(Assets \X (0..MaxTime))
    <2>1. IsFiniteSet(0..MaxTime)
      BY FaucetAssumption, FS_Interval
    <2> QED BY <2>1, FaucetAssumption, FS_Product, Zenon
  <1>2. f \in Surjection(Owners \X (0..MaxTime), F)
    <2>1. f \in [Owners \X (0..MaxTime) -> F]
      BY DEF Days
    <2>2. ASSUME NEW y \in F PROVE \E x \in Owners \X (0..MaxTime) : f[x] = y
      <3>1. PICK o \in Owners, t \in 0..MaxTime : y = Operation("faucet", o, t \div DayLength)
        BY DEF Days
      <3>2. <<o, t>> \in Owners \X (0..MaxTime) /\ f[<<o, t>>] = y
        BY <3>1
      <3> QED BY <3>2
    <2> HIDE DEF f, F
    <2> QED BY <2>1, <2>2 DEF Surjection
  <1>3. g \in Surjection(Assets \X (0..MaxTime), O)
    <2>1. g \in [Assets \X (0..MaxTime) -> O]
      BY DEF Buckets
    <2>2. ASSUME NEW y \in O PROVE \E x \in Assets \X (0..MaxTime) : g[x] = y
      <3>1. PICK a \in Assets, t \in 0..MaxTime :
              y = Operation("observation", a, t \div BucketLength)
        BY DEF Buckets
      <3>2. <<a, t>> \in Assets \X (0..MaxTime) /\ g[<<a, t>>] = y
        BY <3>1
      <3> QED BY <3>2
    <2> HIDE DEF g, O
    <2> QED BY <2>1, <2>2 DEF Surjection
  <1>4. Operations = F \cup O
    BY DEF Operations
  <1> HIDE DEF f, g, F, O
  <1> QED BY <1>1, <1>2, <1>3, <1>4, FS_Surjection, FS_Union

WithinBudget == \A k \in Kinds : ledger.lifetime[k] <= Budget[k]

BooksInv == Inv /\ QuotaMatchesOperations /\ WithinBudget

\* Ledger b charges exactly what this state's ledger charges.
SameBooks(b) ==
  /\ b.lifetime = ledger.lifetime /\ b.daily = ledger.daily
  /\ \A id \in Operations :
       /\ b.operations[id].state = "absent" <=> ledger.operations[id].state = "absent"
       /\ b.operations[id].visitor = ledger.operations[id].visitor
       /\ b.operations[id].address = ledger.operations[id].address

\* A write to a record that exists charges nothing.
LEMMA OneRecordBooks ==
  ASSUME Inv, NEW b, NEW id \in Operations, NEW op,
         b.operations = [ledger.operations EXCEPT ![id] = op],
         b.lifetime = ledger.lifetime, b.daily = ledger.daily,
         ledger.operations[id].state # "absent", op.state # "absent",
         op.visitor = ledger.operations[id].visitor, op.address = ledger.operations[id].address
  PROVE  SameBooks(b)
  BY DEF Inv, TypeOK, SameBooks

\* The recount is the same when the books are.
LEMMA SameRecount ==
  ASSUME BooksInv, TypeOK', SameBooks(ledger')
  PROVE  QuotaMatchesOperations' /\ WithinBudget'
  <1>1. DOMAIN ledger.operations = Operations /\ DOMAIN ledger'.operations = Operations
    BY DEF BooksInv, Inv, TypeOK
  <1>2. \A k : Made(k)' = Made(k)
    BY <1>1 DEF SameBooks, Made
  <1>3. \A d : Granted(d)' = Granted(d)
    BY <1>2 DEF Granted
  <1>4. \A d : Granted(d) \subseteq Operations
    BY <1>1 DEF Granted, Made
  <1>6. ledger'.lifetime = ledger.lifetime /\ ledger'.daily = ledger.daily
    BY DEF SameBooks
  <1>7. QuotaMatchesOperations'
    <2>1. \A k \in Kinds : ledger'.lifetime[k] = Cardinality(Made(k)')
      BY <1>2, <1>6 DEF BooksInv, QuotaMatchesOperations
    <2>2. ASSUME NEW d \in DOMAIN ledger'.daily
          PROVE  ledger'.daily[d].grants = Cardinality(Granted(d)')
      BY <1>3, <1>6, <2>2 DEF BooksInv, QuotaMatchesOperations
    <2>3. ASSUME NEW d \in DOMAIN ledger'.daily, NEW v \in DOMAIN ledger'.daily[d].visitors
          PROVE  ledger'.daily[d].visitors[v]
                 = Cardinality({id \in Granted(d)' : ledger'.operations[id].visitor = v})
      <3>1. ledger.daily[d].visitors[v]
            = Cardinality({id \in Granted(d) : ledger.operations[id].visitor = v})
        BY <1>6, <2>3 DEF BooksInv, QuotaMatchesOperations
      <3>2. {id \in Granted(d)' : ledger'.operations[id].visitor = v}
            = {id \in Granted(d) : ledger.operations[id].visitor = v}
        BY <1>3, <1>4 DEF SameBooks
      <3> QED BY <1>6, <3>1, <3>2
    <2>4. ASSUME NEW d \in DOMAIN ledger'.daily, NEW i \in DOMAIN ledger'.daily[d].addresses
          PROVE  ledger'.daily[d].addresses[i]
                 = Cardinality({id \in Granted(d)' : ledger'.operations[id].address = i})
      <3>1. ledger.daily[d].addresses[i]
            = Cardinality({id \in Granted(d) : ledger.operations[id].address = i})
        BY <1>6, <2>4 DEF BooksInv, QuotaMatchesOperations
      <3>2. {id \in Granted(d)' : ledger'.operations[id].address = i}
            = {id \in Granted(d) : ledger.operations[id].address = i}
        BY <1>3, <1>4 DEF SameBooks
      <3> QED BY <1>6, <3>1, <3>2
    <2> QED BY <2>1, <2>2, <2>3, <2>4 DEF QuotaMatchesOperations
  <1>8. WithinBudget'
    BY <1>6 DEF BooksInv, WithinBudget
  <1> QED BY <1>7, <1>8

\* Counting a set after one element joins it.
LEMMA CountOneMore ==
  ASSUME NEW S \in SUBSET Operations, NEW T, NEW x, x \notin S, T = S \cup {x}
  PROVE  Cardinality(T) = Cardinality(S) + 1 /\ Cardinality(S) \in Nat
  BY FiniteOperations, FS_Subset, FS_AddElement, FS_CardinalityType

\* A grant charges its day, its visitor, its address and the lifetime budget, each by one.
LEMMA FundBooks ==
  ASSUME BooksInv, Inv', NEW w, NEW o \in Owners, NEW v \in Visitors, NEW i \in Addresses,
         NEW t \in Times, NEW outcome, Fund(w, o, v, i, t, outcome)
  PROVE  QuotaMatchesOperations' /\ WithinBudget'
  <1> DEFINE id == Operation("faucet", o, t \div DayLength)
             q == ledger.daily[id.period]
             op == [Absent EXCEPT !.state = "reserved", !.visitor = v, !.address = i]
             n == [grants |-> q.grants + 1,
                   visitors |-> [q.visitors EXCEPT ![v] = @ + 1],
                   addresses |-> [q.addresses EXCEPT ![i] = @ + 1]]
  <1>1. /\ id \in Operations /\ id.period \in Days /\ id.kind = "faucet"
        /\ ledger \in Ledgers /\ ledger' \in Ledgers
    BY TimesBound, TypeFacts, OperationIds DEF BooksInv, Inv, Operation, Days, TypeOK, Ledgers
  <1>2. CASE ledger' = ledger
    BY <1>2, SameRecount DEF BooksInv, Inv, SameBooks
  <1>3. CASE ledger' # ledger
    <2>1. ledger.operations[id].state = "absent" /\ WithinQuota(id.period, v, i)
      BY SMTT(60), <1>3 DEF Fund, Store, GrantReserved
    <2>2. ledger' = [ledger EXCEPT !.operations[id] = op, !.lifetime["faucet"] = @ + 1,
                                   !.daily[id.period] = n]
      BY <1>3, <2>1 DEF Fund, Store, GrantReserved
    <2>3. op.state = "reserved" /\ op.visitor = v /\ op.address = i
      BY DEF Absent
    <2>4. /\ ledger'.operations = [ledger.operations EXCEPT ![id] = op]
          /\ ledger'.lifetime = [ledger.lifetime EXCEPT !["faucet"] = @ + 1]
          /\ ledger'.daily = [ledger.daily EXCEPT ![id.period] = n]
      <3> HIDE DEF id, op, n
      <3> QED BY <1>1, <2>2 DEF Ledgers
    <2>5. q \in Quotas
      BY <1>1 DEF Ledgers
    <2>6. /\ n.grants = q.grants + 1
          /\ DOMAIN n.visitors = Visitors /\ DOMAIN n.addresses = Addresses
          /\ \A u \in Visitors : n.visitors[u] = q.visitors[u] + (IF u = v THEN 1 ELSE 0)
          /\ \A u \in Addresses : n.addresses[u] = q.addresses[u] + (IF u = i THEN 1 ELSE 0)
      <3> HIDE DEF q
      <3> QED BY <2>5 DEF Quotas
    <2>7. DOMAIN ledger.operations = Operations /\ DOMAIN ledger'.operations = Operations
      BY <1>1 DEF Ledgers
    <2> HIDE DEF id, q, op, n
    <2>8. /\ Made("faucet")' = Made("faucet") \cup {id} /\ id \notin Made("faucet")
          /\ Made("observation")' = Made("observation")
          /\ Made("faucet") \subseteq Operations
      BY <1>1, <2>1, <2>3, <2>4, <2>7 DEF Made
    <2>9. /\ Granted(id.period)' = Granted(id.period) \cup {id}
          /\ id \notin Granted(id.period)
          /\ \A d : d # id.period => Granted(d)' = Granted(d)
          /\ \A d : Granted(d) \subseteq Operations /\ id \notin Granted(d)
      BY <2>8 DEF Granted
    <2>10. \A k \in Kinds : ledger'.lifetime[k] = Cardinality(Made(k)')
      <3>1. ledger.lifetime["faucet"] = Cardinality(Made("faucet"))
            /\ ledger.lifetime["observation"] = Cardinality(Made("observation"))
        BY DEF BooksInv, QuotaMatchesOperations, Kinds
      <3>2. Cardinality(Made("faucet")') = Cardinality(Made("faucet")) + 1
        BY <2>8, CountOneMore
      <3>3. /\ ledger'.lifetime["faucet"] = ledger.lifetime["faucet"] + 1
            /\ ledger'.lifetime["observation"] = ledger.lifetime["observation"]
        BY <1>1, <2>4 DEF Ledgers, Kinds
      <3> QED BY <2>8, <3>1, <3>2, <3>3 DEF Kinds
    <2>11. ASSUME NEW d \in Days PROVE ledger'.daily[d].grants = Cardinality(Granted(d)')
      <3>1. ledger.daily[d].grants = Cardinality(Granted(d))
        BY <1>1 DEF BooksInv, QuotaMatchesOperations, Ledgers
      <3>2. CASE d = id.period
        <4>1. Cardinality(Granted(d)') = Cardinality(Granted(d)) + 1
          BY <2>9, <3>2, CountOneMore
        <4>2. ledger'.daily[d].grants = ledger.daily[d].grants + 1
          BY <1>1, <2>4, <2>6, <3>2 DEF Ledgers, q
        <4> QED BY <3>1, <4>1, <4>2
      <3>3. CASE d # id.period
        BY <1>1, <2>4, <2>9, <3>1, <3>3 DEF Ledgers
      <3> QED BY <3>2, <3>3
    <2> DEFINE V(d, u) == {x \in Granted(d) : ledger.operations[x].visitor = u}
               V1(d, u) == {x \in Granted(d)' : ledger'.operations[x].visitor = u}
               A(d, u) == {x \in Granted(d) : ledger.operations[x].address = u}
               A1(d, u) == {x \in Granted(d)' : ledger'.operations[x].address = u}
    <2>12. \A x \in Operations : x # id => ledger'.operations[x] = ledger.operations[x]
      BY <1>1, <2>4, <2>7
    <2>13. ledger'.operations[id] = op
      BY <1>1, <2>4, <2>7
    <2>14. ASSUME NEW d \in Days, NEW u \in Visitors
           PROVE  ledger'.daily[d].visitors[u] = Cardinality(V1(d, u))
      <3>1. ledger.daily[d].visitors[u] = Cardinality(V(d, u))
        BY <1>1 DEF BooksInv, QuotaMatchesOperations, Ledgers, Quotas
      <3>2. CASE d = id.period /\ u = v
        <4>1. V1(d, u) = V(d, u) \cup {id} /\ id \notin V(d, u)
          BY <2>3, <2>9, <2>12, <2>13, <3>2
        <4>2. V(d, u) \in SUBSET Operations
          BY <2>9
        <4>3. Cardinality(V1(d, u)) = Cardinality(V(d, u)) + 1
          <5> HIDE DEF V, V1
          <5> QED BY <4>1, <4>2, CountOneMore
        <4>4. ledger'.daily[d].visitors[u] = ledger.daily[d].visitors[u] + 1
          BY <1>1, <2>4, <2>6, <3>2 DEF Ledgers, q
        <4> QED BY <3>1, <4>3, <4>4
      <3>3. CASE ~(d = id.period /\ u = v)
        <4>1. V1(d, u) = V(d, u)
          BY <2>3, <2>9, <2>12, <2>13, <3>3
        <4>2. ledger.daily[d].visitors[u] \in Nat
          BY <1>1 DEF Ledgers, Quotas
        <4>3. ledger'.daily[d].visitors[u] = ledger.daily[d].visitors[u]
          BY <1>1, <2>4, <2>6, <3>3, <4>2 DEF Ledgers, q
        <4> QED BY <3>1, <4>1, <4>3
      <3> QED BY <3>2, <3>3
    <2>15. ASSUME NEW d \in Days, NEW u \in Addresses
           PROVE  ledger'.daily[d].addresses[u] = Cardinality(A1(d, u))
      <3>1. ledger.daily[d].addresses[u] = Cardinality(A(d, u))
        BY <1>1 DEF BooksInv, QuotaMatchesOperations, Ledgers, Quotas
      <3>2. CASE d = id.period /\ u = i
        <4>1. A1(d, u) = A(d, u) \cup {id} /\ id \notin A(d, u)
          BY <2>3, <2>9, <2>12, <2>13, <3>2
        <4>2. A(d, u) \in SUBSET Operations
          BY <2>9
        <4>3. Cardinality(A1(d, u)) = Cardinality(A(d, u)) + 1
          <5> HIDE DEF A, A1
          <5> QED BY <4>1, <4>2, CountOneMore
        <4>4. ledger'.daily[d].addresses[u] = ledger.daily[d].addresses[u] + 1
          BY <1>1, <2>4, <2>6, <3>2 DEF Ledgers, q
        <4> QED BY <3>1, <4>3, <4>4
      <3>3. CASE ~(d = id.period /\ u = i)
        <4>1. A1(d, u) = A(d, u)
          BY <2>3, <2>9, <2>12, <2>13, <3>3
        <4>2. ledger.daily[d].addresses[u] \in Nat
          BY <1>1 DEF Ledgers, Quotas
        <4>3. ledger'.daily[d].addresses[u] = ledger.daily[d].addresses[u]
          BY <1>1, <2>4, <2>6, <3>3, <4>2 DEF Ledgers, q
        <4> QED BY <3>1, <4>1, <4>3
      <3> QED BY <3>2, <3>3
    <2>16. DOMAIN ledger'.daily = Days
           /\ \A d \in Days : /\ DOMAIN ledger'.daily[d].visitors = Visitors
                             /\ DOMAIN ledger'.daily[d].addresses = Addresses
      BY <1>1 DEF Ledgers, Quotas
    <2>17. QuotaMatchesOperations'
      BY <2>10, <2>11, <2>14, <2>15, <2>16 DEF QuotaMatchesOperations
    <2>18. WithinBudget'
      BY <1>1, <2>1, <2>4 DEF BooksInv, WithinBudget, WithinQuota, Ledgers, Kinds
    <2> QED BY SMTT(60), <2>17, <2>18
  <1> QED BY <1>2, <1>3

\* An observation charges the lifetime budget of its kind.
LEMMA RefreshBooks ==
  ASSUME BooksInv, Inv', NEW w, NEW a \in Assets, NEW t \in Times, NEW outcome,
         Refresh(w, a, t, outcome)
  PROVE  QuotaMatchesOperations' /\ WithinBudget'
  <1> DEFINE id == Operation("observation", a, t \div BucketLength)
             op == [Absent EXCEPT !.state = "reserved"]
  <1>1. /\ id \in Operations /\ id.kind = "observation"
        /\ ledger \in Ledgers /\ ledger' \in Ledgers
    BY TimesBound, TypeFacts, OperationIds DEF BooksInv, Inv, Operation, TypeOK, Ledgers
  <1>2. CASE ledger' = ledger
    BY <1>2, SameRecount DEF BooksInv, Inv, SameBooks
  <1>3. CASE ledger' # ledger
    <2>1. /\ ledger.operations[id].state = "absent"
          /\ ledger.lifetime["observation"] + 1 <= Budget["observation"]
      BY <1>3 DEF Refresh, Store, ObservationReserved
    <2>2. ledger' = [ledger EXCEPT !.operations[id] = op, !.lifetime["observation"] = @ + 1]
      BY <1>3, <2>1 DEF Refresh, Store, ObservationReserved
    <2>3. op.state = "reserved"
      BY DEF Absent
    <2>4. /\ ledger'.operations = [ledger.operations EXCEPT ![id] = op]
          /\ ledger'.lifetime = [ledger.lifetime EXCEPT !["observation"] = @ + 1]
          /\ ledger'.daily = ledger.daily
      <3> HIDE DEF id, op
      <3> QED BY <1>1, <2>2 DEF Ledgers
    <2>5. DOMAIN ledger.operations = Operations /\ DOMAIN ledger'.operations = Operations
      BY <1>1 DEF Ledgers
    <2> HIDE DEF id, op
    <2>6. /\ Made("observation")' = Made("observation") \cup {id}
          /\ id \notin Made("observation")
          /\ Made("faucet")' = Made("faucet") /\ id \notin Made("faucet")
          /\ Made("observation") \subseteq Operations /\ Made("faucet") \subseteq Operations
      BY <1>1, <2>1, <2>3, <2>4, <2>5 DEF Made
    <2>7. \A d : Granted(d)' = Granted(d) /\ Granted(d) \subseteq Operations \ {id}
      BY <2>6 DEF Granted
    <2>8. \A x \in Operations : x # id => ledger'.operations[x] = ledger.operations[x]
      BY <1>1, <2>4, <2>5
    <2>9. \A k \in Kinds : ledger'.lifetime[k] = Cardinality(Made(k)')
      <3>1. /\ ledger.lifetime["faucet"] = Cardinality(Made("faucet"))
            /\ ledger.lifetime["observation"] = Cardinality(Made("observation"))
        BY DEF BooksInv, QuotaMatchesOperations, Kinds
      <3>2. Cardinality(Made("observation")') = Cardinality(Made("observation")) + 1
        BY <2>6, CountOneMore
      <3>3. /\ ledger'.lifetime["observation"] = ledger.lifetime["observation"] + 1
            /\ ledger'.lifetime["faucet"] = ledger.lifetime["faucet"]
        BY <1>1, <2>4 DEF Ledgers, Kinds
      <3> QED BY <2>6, <3>1, <3>2, <3>3 DEF Kinds
    <2>10. \A d \in DOMAIN ledger.daily : ledger.daily[d].grants = Cardinality(Granted(d)')
      BY <2>7 DEF BooksInv, QuotaMatchesOperations
    <2>11. ASSUME NEW d \in DOMAIN ledger.daily, NEW v \in DOMAIN ledger.daily[d].visitors
           PROVE  ledger.daily[d].visitors[v]
                  = Cardinality({x \in Granted(d)' : ledger'.operations[x].visitor = v})
      <3>1. ledger.daily[d].visitors[v]
            = Cardinality({x \in Granted(d) : ledger.operations[x].visitor = v})
        BY <2>11 DEF BooksInv, QuotaMatchesOperations
      <3>2. {x \in Granted(d)' : ledger'.operations[x].visitor = v}
            = {x \in Granted(d) : ledger.operations[x].visitor = v}
        BY <2>7, <2>8
      <3> QED BY <3>1, <3>2
    <2>12. ASSUME NEW d \in DOMAIN ledger.daily, NEW i \in DOMAIN ledger.daily[d].addresses
           PROVE  ledger.daily[d].addresses[i]
                  = Cardinality({x \in Granted(d)' : ledger'.operations[x].address = i})
      <3>1. ledger.daily[d].addresses[i]
            = Cardinality({x \in Granted(d) : ledger.operations[x].address = i})
        BY <2>12 DEF BooksInv, QuotaMatchesOperations
      <3>2. {x \in Granted(d)' : ledger'.operations[x].address = i}
            = {x \in Granted(d) : ledger.operations[x].address = i}
        BY <2>7, <2>8
      <3> QED BY <3>1, <3>2
    <2>13. QuotaMatchesOperations'
      BY <2>4, <2>9, <2>10, <2>11, <2>12 DEF QuotaMatchesOperations
    <2>14. WithinBudget'
      BY <1>1, <2>1, <2>4 DEF BooksInv, WithinBudget, Ledgers, Kinds
    <2> QED BY <2>13, <2>14
  <1> QED BY <1>2, <1>3

\* No step of a worker after its reservation charges anything.
LEMMA StepsBooks ==
  ASSUME Inv, NEW w \in Workers, Steps(w)
  PROVE  SameBooks(ledger')
  <1>1. CASE UNCHANGED ledger
    BY <1>1 DEF SameBooks
  <1> DEFINE id == worker[w].op
             old == ledger.operations[id]
  <1>2. ASSUME worker[w].pc # "idle"
        PROVE  /\ id \in Operations /\ old.state # "absent" /\ id.kind \in Kinds
               /\ old \in OperationRecords /\ ledger \in Ledgers /\ worker[w] \in Locals
    BY <1>2, TypeFacts, OperationIds DEF Inv, LocalInv, TypeOK
  <1>3. ASSUME worker[w].pc # "idle", NEW s \in States, s # "absent"
        PROVE  SameBooks([ledger EXCEPT !.operations[id].state = s])
    <2> DEFINE op == [old EXCEPT !.state = s]
               b == [ledger EXCEPT !.operations[id].state = s]
    <2>1. op.state = s /\ op.visitor = old.visitor /\ op.address = old.address
      BY <1>2, <1>3 DEF OperationRecords
    <2>2. /\ b.operations = [ledger.operations EXCEPT ![id] = op]
          /\ b.lifetime = ledger.lifetime /\ b.daily = ledger.daily
      <3> HIDE DEF id
      <3> QED BY <1>2, <1>3 DEF Ledgers, OperationRecords
    <2>3. SameBooks(b)
      <3> HIDE DEF b, op, id
      <3> QED BY <1>2, <1>3, <2>1, <2>2, OneRecordBooks
    <2> QED BY <2>3
  <1>4. ASSUME NEW b, SameBooks(b), b \in Ledgers, id.kind \in Kinds
        PROVE  SameBooks(ReleasedLease(w, b))
    <2> DEFINE c == [b EXCEPT !.leases[worker[w].op.kind] = NoLease]
    <2>1. c.operations = b.operations /\ c.lifetime = b.lifetime /\ c.daily = b.daily
      BY <1>4 DEF Ledgers
    <2>2. SameBooks(c)
      <3> HIDE DEF c
      <3> QED BY <1>4, <2>1 DEF SameBooks
    <2> QED BY <1>4, <2>2 DEF ReleasedLease
  <1>5. SameBooks(ledger)
    BY DEF SameBooks
  <1>6. ASSUME NEW outcome, Record(w, outcome) PROVE SameBooks(ledger')
    <2>1. worker[w].pc # "idle" /\ worker[w].verdict \in States /\ worker[w].verdict # "absent"
      BY <1>6 DEF Record, Inv, LocalInv, Terminal, States
    <2> QED BY <1>3, <1>5, <1>6, <2>1 DEF Record, Store, Transitioned
  <1>7. ASSUME NEW outcome, ReleaseAbandoned(w, outcome) PROVE SameBooks(ledger')
    <2>1. worker[w].pc # "idle"
      BY <1>7 DEF ReleaseAbandoned
    <2> QED BY <1>2, <1>4, <1>5, <1>7, <2>1 DEF ReleaseAbandoned, Store
  <1>8. ASSUME NEW outcome, DisableFaucet(w, outcome) PROVE SameBooks(ledger')
    <2> DEFINE b == [ledger EXCEPT !.disabled = TRUE]
    <2>1. b.operations = ledger.operations /\ b.lifetime = ledger.lifetime
          /\ b.daily = ledger.daily
      BY TypeFacts DEF Inv, Ledgers
    <2>2. SameBooks(b)
      <3> HIDE DEF b
      <3> QED BY <2>1 DEF SameBooks
    <2> QED BY <1>5, <1>8, <2>2 DEF DisableFaucet, Store
  <1>9. ASSUME NEW t \in Times, NEW outcome, Acquire(w, t, outcome) PROVE SameBooks(ledger')
    <2> DEFINE fence == ledger.nextFence + 1
               lease == [op |-> id, fence |-> fence, expires |-> t + LeaseLength]
               op == IF old.state = "reserved" THEN old ELSE [old EXCEPT !.fence = fence]
               b == [ledger EXCEPT !.nextFence = fence, !.leases[id.kind] = lease,
                                   !.operations[id] = op]
    <2>1. worker[w].pc # "idle"
      BY <1>9 DEF Acquire
    <2>2. op.state # "absent" /\ op.visitor = old.visitor /\ op.address = old.address
      BY <1>2, <2>1 DEF OperationRecords
    <2>3. b = [ledger EXCEPT !.nextFence = fence, !.leases[id.kind] = lease,
                             !.operations[id] = op]
      OBVIOUS
    <2>4. ledger' \in {ledger, b}
      BY <1>9 DEF Acquire, Store
    <2> HIDE DEF b, op, id, fence, lease
    <2>5. /\ b.operations = [ledger.operations EXCEPT ![id] = op]
          /\ b.lifetime = ledger.lifetime /\ b.daily = ledger.daily
      BY <1>2, <2>1, <2>3 DEF Ledgers
    <2>6. SameBooks(b)
      BY <1>2, <2>1, <2>2, <2>5, OneRecordBooks
    <2> QED BY <1>5, <2>4, <2>6
  <1>10. ASSUME NEW t \in Times, NEW outcome, PersistPrepared(w, t, outcome)
         PROVE  SameBooks(ledger')
    <2> DEFINE op == [old EXCEPT !.state = "prepared", !.fence = worker[w].fence,
                                 !.attempt = worker[w].seen.attempt]
               b == [ledger EXCEPT !.operations[id] = op]
    <2>1. worker[w].pc # "idle"
      BY <1>10 DEF PersistPrepared
    <2>2. op.state # "absent" /\ op.visitor = old.visitor /\ op.address = old.address
      BY <1>2, <2>1 DEF OperationRecords
    <2>3. b = [ledger EXCEPT !.operations[id] = op]
      OBVIOUS
    <2>4. ledger' \in {ledger, b}
      BY <1>10 DEF PersistPrepared, Store
    <2> HIDE DEF b, op, id
    <2>5. /\ b.operations = [ledger.operations EXCEPT ![id] = op]
          /\ b.lifetime = ledger.lifetime /\ b.daily = ledger.daily
      BY <1>2, <2>1, <2>3 DEF Ledgers
    <2>6. SameBooks(b)
      BY <1>2, <2>1, <2>2, <2>5, OneRecordBooks
    <2> QED BY <1>5, <2>4, <2>6
  <1>11. ASSUME NEW t \in Times, NEW outcome, Release(w, t, outcome) PROVE SameBooks(ledger')
    <2> DEFINE c == [ledger EXCEPT !.operations[id].state = worker[w].verdict]
    <2>1. worker[w].pc # "idle" /\ worker[w].verdict \in States /\ worker[w].verdict # "absent"
      BY <1>11 DEF Release, Inv, LocalInv, Terminal, Active, States
    <2>2. SameBooks(c)
      BY <1>3, <2>1
    <2>3. c \in Ledgers
      <3>1. c = [ledger EXCEPT !.operations[id].state = worker[w].verdict]
        OBVIOUS
      <3> HIDE DEF c, id
      <3> QED BY <1>2, <2>1, <3>1 DEF Ledgers, OperationRecords
    <2>4. ledger' \in {ledger, ReleasedLease(w, ledger), ReleasedLease(w, c)}
      BY <1>11 DEF Release, Store
    <2> HIDE DEF c
    <2> QED BY SMTT(60), <1>2, <1>4, <1>5, <2>1, <2>2, <2>3, <2>4
  <1>12. CASE \/ ReadStatus(w) \/ ReadHeight(w) \/ ReadFinalStatus(w)
              \/ Prepare(w) \/ SendExact(w) \/ \E t \in Times : AssertSendFence(w, t)
    BY <1>1, <1>12 DEF ReadStatus, ReadHeight, ReadFinalStatus, Prepare, SendExact,
       AssertSendFence
  <1> QED BY <1>6, <1>7, <1>8, <1>9, <1>10, <1>11, <1>12 DEF Steps

\* Nothing is charged at the start.
LEMMA InitBooks == Init => BooksInv
  <1> SUFFICES ASSUME Init PROVE BooksInv
    OBVIOUS
  <1>1. ledger.operations = [id \in Operations |-> Absent]
        /\ ledger.lifetime = [k \in Kinds |-> 0] /\ ledger.daily = [d \in Days |-> EmptyQuota]
    BY DEF Init
  <1>2. \A k : Made(k) = {}
    BY <1>1 DEF Made, Absent
  <1>3. \A d : Granted(d) = {}
    BY <1>2 DEF Granted
  <1>4. Cardinality({}) = 0
    BY FS_EmptySet
  <1>5. QuotaMatchesOperations
    <2>1. \A k \in Kinds : ledger.lifetime[k] = Cardinality(Made(k))
      BY <1>1, <1>2, <1>4
    <2>2. ASSUME NEW d \in Days
          PROVE  /\ ledger.daily[d] = EmptyQuota
                 /\ ledger.daily[d].grants = Cardinality(Granted(d))
      <3>1. ledger.daily[d] = EmptyQuota
        BY <1>1
      <3>2. EmptyQuota.grants = 0
        BY DEF EmptyQuota
      <3> QED BY <1>3, <1>4, <3>1, <3>2
    <2>3. ASSUME NEW d \in Days, NEW v \in Visitors
          PROVE  EmptyQuota.visitors[v]
                 = Cardinality({id \in Granted(d) : ledger.operations[id].visitor = v})
      <3>1. {id \in Granted(d) : ledger.operations[id].visitor = v} = {}
        BY <1>3
      <3> QED BY <1>4, <3>1 DEF EmptyQuota
    <2>4. ASSUME NEW d \in Days, NEW i \in Addresses
          PROVE  EmptyQuota.addresses[i]
                 = Cardinality({id \in Granted(d) : ledger.operations[id].address = i})
      <3>1. {id \in Granted(d) : ledger.operations[id].address = i} = {}
        BY <1>3
      <3> QED BY <1>4, <3>1 DEF EmptyQuota
    <2>5. /\ DOMAIN ledger.daily = Days
          /\ DOMAIN EmptyQuota.visitors = Visitors /\ DOMAIN EmptyQuota.addresses = Addresses
      BY <1>1 DEF EmptyQuota
    <2> QED BY <2>1, <2>2, <2>3, <2>4, <2>5 DEF QuotaMatchesOperations
  <1>6. WithinBudget
    BY <1>1, FaucetAssumption DEF WithinBudget
  <1> QED BY <1>5, <1>6, InitInv DEF BooksInv

\* Every step keeps the books.
LEMMA NextBooks ==
  ASSUME BooksInv, [Next]_vars
  PROVE  BooksInv'
  <1>1. Inv /\ Inv' /\ TypeOK'
    BY NextInv DEF BooksInv, Inv
  <1>2. CASE SameBooks(ledger')
    BY <1>1, <1>2, SameRecount DEF BooksInv
  <1>3. CASE UNCHANGED ledger
    BY <1>2, <1>3 DEF SameBooks
  <1>4. CASE Tick \/ Chain \/ UNCHANGED vars
    BY <1>3, <1>4 DEF Tick, Chain, Process, ConfirmBlock, vars
  <1>5. ASSUME NEW w \in Workers, Faults(w) PROVE BooksInv'
    BY <1>3, <1>5 DEF Faults, ReadFails, Unavailable, PreparationFails, Crash
  <1>6. ASSUME NEW w \in Workers, Steps(w) PROVE BooksInv'
    BY <1>1, <1>2, <1>6, StepsBooks
  <1>7. ASSUME NEW w \in Workers, Requests(w) PROVE BooksInv'
    BY <1>1, <1>7, FundBooks, RefreshBooks DEF Requests, BooksInv
  <1> QED BY <1>4, <1>5, <1>6, <1>7 DEF Next

\* The transactions that paid are no more than the operations that were made, for
\* each pays for its own.
LEMMA SpendFromBooks == BooksInv => SpendWithinBudget
  <1> SUFFICES ASSUME BooksInv, NEW k \in Kinds
               PROVE  Cardinality({a \in DOMAIN settled :
                                     settled[a] = "ok" /\ signed[a].op.kind = k}) <= Budget[k]
    BY DEF SpendWithinBudget
  <1> DEFINE P == {a \in DOMAIN settled : settled[a] = "ok" /\ signed[a].op.kind = k}
             f == [a \in P |-> signed[a].op]
  <1>1. ASSUME NEW a \in P PROVE signed[a].op \in Made(k)
    <2>1. a \in Attempts /\ a \in sent
      BY DEF BooksInv, Inv, TypeOK, ChainInv
    <2>2. signed[a].op \in Operations /\ ledger.operations[signed[a].op].attempt = a
      BY <2>1 DEF BooksInv, Inv, ChainInv
    <2>3. ledger.operations[signed[a].op].state # "absent"
      BY <2>1, <2>2, OperationIds DEF BooksInv, Inv, RecordOK
    <2> QED BY <2>2, <2>3 DEF Made, BooksInv, Inv, TypeOK
  <1>2. \A a, b \in P : signed[a].op = signed[b].op => a = b
    BY PaidOnceFromInv DEF BooksInv, PaidAtMostOnce
  <1>3. f \in Injection(P, Made(k))
    <2>1. f \in [P -> Made(k)] /\ \A a, b \in P : f[a] = f[b] => a = b
      BY <1>1, <1>2
    <2> HIDE DEF f, P
    <2> QED BY <2>1 DEF Injection, IsInjective
  <1>4. IsFiniteSet(Made(k))
    <2>1. Made(k) \in SUBSET Operations
      BY DEF Made, BooksInv, Inv, TypeOK
    <2> QED BY <2>1, FiniteOperations, FS_Subset
  <1>5. Cardinality(P) <= Cardinality(Made(k)) /\ IsFiniteSet(P)
    <2> HIDE DEF f, P
    <2> QED BY <1>3, <1>4, FS_Injection
  <1>6. Cardinality(Made(k)) <= Budget[k]
    BY DEF BooksInv, QuotaMatchesOperations, WithinBudget
  <1>7. Cardinality(P) \in Nat /\ Cardinality(Made(k)) \in Nat /\ Budget[k] \in Nat
    <2> HIDE DEF P
    <2> QED BY <1>4, <1>5, FS_CardinalityType, FaucetAssumption
  <1>8. Cardinality(P) <= Budget[k]
    <2> HIDE DEF P
    <2> QED BY <1>5, <1>6, <1>7
  <1> QED BY <1>8

\* For any number of workers and any outcome of their writes, the quotas of
\* reserveGrant and reserveObservation are a recount of the operations, and what
\* the chain pays stays within the lifetime budget.
THEOREM LimitsCorrect == Spec => []LimitsHold
  <1>1. Init => BooksInv
    BY InitBooks
  <1>2. BooksInv /\ [Next]_vars => BooksInv'
    BY NextBooks
  <1>3. BooksInv => LimitsHold
    BY SpendFromBooks DEF BooksInv, LimitsHold
  <1> QED BY <1>1, <1>2, <1>3, PTL DEF Spec

=============================================================================
