--------------------------- MODULE OperatorProofs ---------------------------
(***************************************************************************)
(* Theorems about the step engine (ResumableSteps) and the devnet registry *)
(* tool on it (DevnetBootstrap), for any assets, costs, ceilings, block    *)
(* lifetimes and numbers of faults.                                        *)
(*                                                                         *)
(* An attempt is written before it is sent and another is signed only over *)
(* a finished one.  What makes that inductive is what the process may rely *)
(* on at each of its awaits although the chain moved on in between, and    *)
(* that the journal's last attempt of a step is the newest there is.       *)
(***************************************************************************)
EXTENDS DevnetBootstrap, FiniteSetTheorems, SequenceTheorems, TLAPS

-----------------------------------------------------------------------------
(* Sequences.                                                              *)

LEMMA Updated ==
  ASSUME NEW S, NEW q \in Seq(S), NEW f, DOMAIN f = DOMAIN q, f = [i \in DOMAIN q |-> f[i]],
         \A i \in DOMAIN q : f[i] \in S
  PROVE  f \in Seq(S) /\ Len(f) = Len(q)
<1>1. DOMAIN q = 1..Len(q) /\ Len(q) \in Nat
  OBVIOUS
<1>2. f \in [1..Len(q) -> S]
  BY <1>1
<1>. QED
  BY <1>1, <1>2

LEMMA Widened ==
  ASSUME NEW S, NEW T, S \subseteq T, NEW q \in Seq(S)
  PROVE  q \in Seq(T)
<1>1. PICK n \in Nat : q \in [1..n -> S]
  BY SeqDef
<1>2. q \in [1..n -> T]
  BY <1>1
<1>. QED
  BY <1>2, SeqDef

LEMMA Appended ==
  ASSUME NEW S, NEW q \in Seq(S), NEW x \in S
  PROVE  /\ Append(q, x) \in Seq(S) /\ Len(Append(q, x)) = Len(q) + 1
         /\ Append(q, x)[Len(q) + 1] = x /\ Last(Append(q, x)) = x /\ Append(q, x) # <<>>
         /\ \A i \in DOMAIN q : Append(q, x)[i] = q[i]
         /\ DOMAIN Append(q, x) = DOMAIN q \cup {Len(q) + 1}
BY DEF Last

-----------------------------------------------------------------------------
(* The engine.  What holds whatever the cluster does.                      *)

Txs == [step : Steps, status : Statuses, life : 0..Life]

\* The journal of a step holds attempts of that step.
JournalNames == \A s \in Steps : \A i \in DOMAIN journal[s] : tx[journal[s][i]].step = s

\* What a process at its step s relies on: there is a last attempt to look at,
\* and the one it is about to send has not been sent.
AtPlace(s) ==
  /\ pc \in {"status", "height", "final", "resend", "send", "confirm"} => journal[s] # <<>>
  /\ pc = "send" => Previous(s).status = "signed"

\* Transactions are never taken back, and what is confirmed stays so.
TxKept ==
  \A t \in DOMAIN tx : /\ t \in DOMAIN tx' /\ tx'[t].step = tx[t].step
                       /\ Confirmed(tx[t]) => Confirmed(tx'[t])

LEMMA LastAttempt ==
  ASSUME EngineTypeOK, JournalNames, NEW s \in Steps, journal[s] # <<>>
  PROVE  /\ Last(journal[s]) \in DOMAIN tx /\ Last(journal[s]) \in 1..Len(tx)
         /\ Len(journal[s]) \in DOMAIN journal[s]
         /\ Previous(s) \in Txs /\ Previous(s).step = s /\ Previous(s) = tx[Last(journal[s])]
<1>1. journal[s] \in Seq(DOMAIN tx) /\ tx \in Seq(Txs)
  BY DEF EngineTypeOK, Txs
<1>2. Len(journal[s]) \in DOMAIN journal[s] /\ Last(journal[s]) = journal[s][Len(journal[s])]
  BY <1>1 DEF Last
<1>3. Last(journal[s]) \in DOMAIN tx
  BY <1>1, <1>2
<1>. QED
  BY <1>1, <1>2, <1>3 DEF JournalNames, Previous

LEMMA TxTyped ==
  ASSUME EngineTypeOK, NEW t \in DOMAIN tx
  PROVE  tx[t] \in Txs
<1>1. tx \in Seq(Txs)
  BY DEF EngineTypeOK, Txs
<1>. QED
  BY <1>1

\* One transaction gets another status or lifetime, or several lose lifetime.
LEMMA TxChanges ==
  ASSUME EngineTypeOK, JournalNames, UNCHANGED journal, DOMAIN tx' = DOMAIN tx,
         tx' = [t \in DOMAIN tx |-> tx'[t]],
         \A t \in DOMAIN tx : tx'[t] \in Txs /\ tx'[t].step = tx[t].step
  PROVE  tx' \in Seq(Txs) /\ Len(tx') = Len(tx) /\ journal' \in [Steps -> Seq(DOMAIN tx')] /\ JournalNames'
<1>1. tx \in Seq(Txs)
  BY DEF EngineTypeOK, Txs
<1>2. tx' \in Seq(Txs) /\ Len(tx') = Len(tx)
  BY <1>1, Updated
<1>3. journal' \in [Steps -> Seq(DOMAIN tx')]
  BY DEF EngineTypeOK
<1>4. \A s \in Steps : \A i \in DOMAIN journal[s] : journal[s][i] \in DOMAIN tx
  BY DEF EngineTypeOK
<1>. QED
  BY <1>2, <1>3, <1>4 DEF JournalNames

\* What the process does inside its step s.
Engine(s, done, simulates, initial, maxSpend) ==
  \/ CheckStep(s, done) \/ ReadStatus(s, done) \/ ReadHeight(s) \/ ReadFinalStatus(s, done)
  \/ Resend(s) \/ Recheck(s, done) \/ Sign(s, simulates, initial, maxSpend) \/ Send(s)
  \/ Confirm(s, done)

\* What the world does to it.
Cluster ==
  \/ \E t \in DOMAIN tx : (\E possible \in BOOLEAN : Land(t, possible)) \/ Fork(t) \/ Settle(t)
  \/ Tick \/ Stop

Places == {"idle", "signers", "state", "baseline", "check", "status", "height", "final",
           "resend", "recheck", "sign", "send", "confirm", "next"}

\* A step of the engine that leaves the transactions alone.
LEMMA QuietStep ==
  ASSUME EngineTypeOK, JournalNames, UNCHANGED <<journal, tx, balance, faults>>, pc' \in Places
  PROVE  EngineTypeOK' /\ JournalNames' /\ TxKept
BY DEF EngineTypeOK, JournalNames, TxKept, Confirmed, Places

\* Resend and Send give the last attempt to the cluster.
LEMMA GivenAway ==
  ASSUME EngineTypeOK, JournalNames, NEW s \in Steps, AtPlace(s), Resend(s) \/ Send(s)
  PROVE  /\ EngineTypeOK' /\ JournalNames' /\ TxKept /\ AtPlace(s)' /\ pc' = "confirm"
         /\ UNCHANGED <<journal, balance, faults>> /\ DOMAIN tx' = DOMAIN tx
         /\ \A t \in DOMAIN tx : /\ tx'[t] # tx[t] => tx[t].status = "signed" /\ tx'[t].status = "sent"
                                 /\ tx'[t].step = tx[t].step
<1>. DEFINE n == Last(journal[s])
<1>1. journal[s] # <<>> /\ (pc = "send" => tx[n].status = "signed") /\ pc \in {"send", "resend"}
  BY DEF AtPlace, Resend, Send, Previous
<1>2. n \in DOMAIN tx /\ Previous(s) = tx[n]
  BY <1>1, LastAttempt
<1>3. PICK st : /\ tx' = [tx EXCEPT ![n].status = st]
                /\ (st = "sent" /\ tx[n].status = "signed") \/ st = tx[n].status
  BY <1>1 DEF Resend, Send
<1>4. \A t \in DOMAIN tx : tx[t] \in Txs
  BY TxTyped
<1>5. st \in Statuses
  BY <1>2, <1>3, <1>4 DEF Txs, Statuses
<1>6. /\ DOMAIN tx' = DOMAIN tx /\ tx' = [t \in DOMAIN tx |-> tx'[t]]
      /\ \A t \in DOMAIN tx : t # n => tx'[t] = tx[t]
      /\ tx'[n] = [tx[n] EXCEPT !.status = st]
  BY <1>2, <1>3
<1>7. \A t \in DOMAIN tx : tx'[t] \in Txs /\ tx'[t].step = tx[t].step
  BY <1>4, <1>5, <1>6 DEF Txs
<1>8. UNCHANGED <<journal, balance, faults>> /\ pc' = "confirm"
  BY DEF Resend, Send
<1>9. tx' \in Seq(Txs) /\ journal' \in [Steps -> Seq(DOMAIN tx')] /\ JournalNames'
  BY <1>6, <1>7, <1>8, TxChanges
<1>10. EngineTypeOK'
  BY <1>8, <1>9 DEF EngineTypeOK, Txs
<1>11. \A t \in DOMAIN tx : tx'[t] # tx[t] => tx[t].status = "signed" /\ tx'[t].status = "sent"
  BY <1>2, <1>3, <1>4, <1>6 DEF Txs
<1>12. AtPlace(s)'
  BY <1>1, <1>8 DEF AtPlace
<1>13. TxKept
  BY <1>6, <1>7, <1>11 DEF TxKept, Confirmed
<1>. QED
  BY <1>6, <1>7, <1>8, <1>9, <1>10, <1>11, <1>12, <1>13

\* Sign writes a new attempt, the last of its step.
LEMMA NewAttempt ==
  ASSUME ResumableAssumption, EngineTypeOK, JournalNames, NEW s \in Steps,
         tx' = Append(tx, [step |-> s, status |-> "signed", life |-> Life]),
         journal' = [journal EXCEPT ![s] = Append(@, Len(tx) + 1)],
         UNCHANGED <<balance, faults>>, pc' \in Places
  PROVE  /\ EngineTypeOK' /\ JournalNames' /\ TxKept
         /\ Len(tx') = Len(tx) + 1 /\ DOMAIN tx' = DOMAIN tx \cup {Len(tx) + 1}
         /\ \A t \in DOMAIN tx : tx'[t] = tx[t]
         /\ tx'[Len(tx) + 1].step = s /\ tx'[Len(tx) + 1].status = "signed"
         /\ journal'[s] # <<>> /\ Last(journal'[s]) = Len(tx) + 1
         /\ Len(journal'[s]) \in DOMAIN journal'[s] /\ journal'[s][Len(journal'[s])] = Len(tx) + 1
         /\ \A i \in DOMAIN journal[s] : i \in DOMAIN journal'[s] /\ journal'[s][i] = journal[s][i]
         /\ \A u \in Steps : u # s => journal'[u] = journal[u]
<1>. DEFINE x == [step |-> s, status |-> "signed", life |-> Life]  m == Len(tx) + 1
<1>1. x \in Txs /\ tx \in Seq(Txs)
  BY DEF EngineTypeOK, Txs, Statuses, ResumableAssumption
<1>2. /\ tx' \in Seq(Txs) /\ Len(tx') = m /\ tx'[m] = x /\ DOMAIN tx' = DOMAIN tx \cup {m}
      /\ \A t \in DOMAIN tx : tx'[t] = tx[t]
  BY <1>1, Appended
<1>3. journal \in [Steps -> Seq(DOMAIN tx)] /\ m \in DOMAIN tx'
  BY <1>2 DEF EngineTypeOK
<1>4. \A u \in Steps : journal[u] \in Seq(DOMAIN tx')
  BY <1>2, <1>3, Widened
<1>5. /\ journal'[s] = Append(journal[s], m) /\ \A u \in Steps : u # s => journal'[u] = journal[u]
      /\ journal' = [u \in Steps |-> journal'[u]]
  BY <1>3
<1>6. /\ journal'[s] \in Seq(DOMAIN tx') /\ Len(journal'[s]) = Len(journal[s]) + 1
      /\ journal'[s] # <<>> /\ Last(journal'[s]) = m /\ journal'[s][Len(journal'[s])] = m
      /\ DOMAIN journal'[s] = DOMAIN journal[s] \cup {Len(journal[s]) + 1}
      /\ \A i \in DOMAIN journal[s] : journal'[s][i] = journal[s][i]
  <2>1. journal[s] \in Seq(DOMAIN tx') /\ m \in DOMAIN tx'
    BY <1>3, <1>4
  <2>2. journal'[s] = Append(journal[s], m)
    BY <1>5
  <2>3. /\ Append(journal[s], m) \in Seq(DOMAIN tx') /\ Len(Append(journal[s], m)) = Len(journal[s]) + 1
        /\ Append(journal[s], m)[Len(journal[s]) + 1] = m /\ Last(Append(journal[s], m)) = m
        /\ Append(journal[s], m) # <<>>
        /\ \A i \in DOMAIN journal[s] : Append(journal[s], m)[i] = journal[s][i]
        /\ DOMAIN Append(journal[s], m) = DOMAIN journal[s] \cup {Len(journal[s]) + 1}
    <3>. DEFINE q == journal[s]  D == DOMAIN tx'
    <3>1. q \in Seq(D) /\ m \in D
      BY <2>1
    <3>. HIDE DEF q, D, m
    <3>2. /\ Append(q, m) \in Seq(D) /\ Len(Append(q, m)) = Len(q) + 1
          /\ Append(q, m)[Len(q) + 1] = m /\ Last(Append(q, m)) = m /\ Append(q, m) # <<>>
          /\ \A i \in DOMAIN q : Append(q, m)[i] = q[i]
          /\ DOMAIN Append(q, m) = DOMAIN q \cup {Len(q) + 1}
      BY <3>1, Appended
    <3>. QED
      BY <3>2, Zenon DEF q, D
  <2>. QED
    BY <2>2, <2>3, Zenon
<1>7. journal' \in [Steps -> Seq(DOMAIN tx')]
  BY <1>4, <1>5, <1>6
<1>8. EngineTypeOK'
  BY <1>2, <1>7 DEF EngineTypeOK, Txs, Places
<1>9. JournalNames'
  <2>. SUFFICES ASSUME NEW u \in Steps, NEW i \in DOMAIN journal'[u] PROVE tx'[journal'[u][i]].step = u
    BY DEF JournalNames
  <2>1. CASE u = s /\ i = Len(journal[s]) + 1
    BY <1>2, <1>6, <2>1
  <2>2. CASE ~ (u = s /\ i = Len(journal[s]) + 1)
    <3>1. i \in DOMAIN journal[u] /\ journal'[u][i] = journal[u][i]
      BY <1>5, <1>6, <2>2
    <3>2. journal[u][i] \in DOMAIN tx
      BY <1>3, <3>1
    <3>. QED
      BY <1>2, <3>1, <3>2 DEF JournalNames
  <2>. QED
    BY <2>1, <2>2
<1>10. TxKept
  BY <1>2 DEF TxKept, Confirmed
<1>11. \A i \in DOMAIN journal[s] : i \in DOMAIN journal'[s]
  BY <1>6
<1>12. Len(journal'[s]) \in DOMAIN journal'[s]
  BY <1>6
<1>13. tx'[m].step = s /\ tx'[m].status = "signed"
  BY <1>2
<1>. QED
  BY <1>2, <1>5, <1>6, <1>8, <1>9, <1>10, <1>11, <1>12, <1>13, Zenon

\* A step of the process at s.
LEMMA EngineBasic ==
  ASSUME ResumableAssumption, EngineTypeOK, JournalNames, NEW s \in Steps, AtPlace(s),
         NEW done, NEW simulates, NEW initial, NEW maxSpend,
         Engine(s, done, simulates, initial, maxSpend)
  PROVE  /\ EngineTypeOK' /\ JournalNames' /\ TxKept /\ AtPlace(s)'
         /\ UNCHANGED <<balance, faults>>
         /\ pc \in {"check", "status", "height", "final", "resend", "recheck", "sign", "send", "confirm"}
         /\ pc' \in {"idle", "status", "height", "final", "resend", "recheck", "sign", "send", "confirm", "next"}
         /\ pc' = "next" => done
<1>1. CASE CheckStep(s, done) \/ ReadStatus(s, done) \/ ReadHeight(s) \/ ReadFinalStatus(s, done)
           \/ Recheck(s, done) \/ Confirm(s, done)
  <2>1. /\ UNCHANGED <<journal, tx, balance, faults>>
        /\ pc \in {"check", "status", "height", "final", "recheck", "confirm"}
        /\ pc' \in {"idle", "status", "height", "final", "resend", "recheck", "sign", "next"}
        /\ pc' = "next" => done
        /\ pc' \in {"status", "height", "final", "resend"} => journal[s] # <<>>
    BY <1>1 DEF CheckStep, ReadStatus, ReadHeight, ReadFinalStatus, Recheck, Confirm, AfterConfirmed,
                ToIdle, AtPlace
  <2>2. EngineTypeOK' /\ JournalNames' /\ TxKept
    BY <2>1, QuietStep DEF Places
  <2>3. AtPlace(s)'
    BY <2>1 DEF AtPlace
  <2>. QED
    BY <2>1, <2>2, <2>3
<1>2. CASE Resend(s) \/ Send(s)
  BY <1>2, GivenAway DEF Resend, Send
<1>3. CASE Sign(s, simulates, initial, maxSpend)
  <2>1. pc = "sign" /\ UNCHANGED <<balance, faults>> /\ pc' \in {"send", "idle"}
    BY <1>3 DEF Sign, ToIdle
  <2>2. CASE pc' = "send"
    <3>1. /\ tx' = Append(tx, [step |-> s, status |-> "signed", life |-> Life])
          /\ journal' = [journal EXCEPT ![s] = Append(@, Len(tx) + 1)]
      BY <1>3, <2>2 DEF Sign, ToIdle
    <3>2. /\ EngineTypeOK' /\ JournalNames' /\ TxKept
          /\ journal'[s] # <<>> /\ Last(journal'[s]) = Len(tx) + 1
          /\ tx'[Len(tx) + 1].status = "signed"
      BY <2>1, <2>2, <3>1, NewAttempt DEF Places
    <3>3. AtPlace(s)'
      BY <3>2 DEF AtPlace, Previous
    <3>. QED
      BY <2>1, <2>2, <3>2, <3>3
  <2>3. CASE pc' = "idle"
    <3>1. UNCHANGED <<journal, tx>>
      BY <1>3, <2>3 DEF Sign, ToIdle
    <3>2. EngineTypeOK' /\ JournalNames' /\ TxKept
      BY <2>1, <2>3, <3>1, QuietStep DEF Places
    <3>. QED
      BY <2>1, <2>3, <3>2 DEF AtPlace
  <2>. QED
    BY <2>1, <2>2, <2>3
<1>. QED
  BY <1>1, <1>2, <1>3 DEF Engine

\* What the cluster may make of a transaction.
Goes(a, b) ==
  \/ a = b
  \/ a = "sent" /\ b \in {"processed", "failing"}
  \/ a = "processed" /\ b \in {"confirmed", "sent"}
  \/ a = "failing" /\ (b = "failed" \/ (b = "sent" /\ ForkedErrors))

\* A step of the cluster that changes one transaction.
LEMMA OneGoes ==
  ASSUME EngineTypeOK, JournalNames, NEW t \in DOMAIN tx, NEW st \in Statuses, NEW lf \in 0..Life,
         tx' = [tx EXCEPT ![t].status = st, ![t].life = lf], Goes(tx[t].status, st),
         UNCHANGED <<journal, pc>>, balance' \in Int, faults' \in 0..MaxFaults
  PROVE  /\ EngineTypeOK' /\ JournalNames' /\ TxKept /\ DOMAIN tx' = DOMAIN tx
         /\ \A u \in DOMAIN tx : u # t => tx'[u] = tx[u]
         /\ tx'[t].status = st /\ tx'[t].step = tx[t].step
         /\ \A s \in Steps : AtPlace(s) => AtPlace(s)'
<1>1. tx[t] \in Txs
  BY TxTyped
<1>2. /\ DOMAIN tx' = DOMAIN tx /\ tx' = [u \in DOMAIN tx |-> tx'[u]]
      /\ \A u \in DOMAIN tx : u # t => tx'[u] = tx[u]
      /\ tx'[t] = [tx[t] EXCEPT !.status = st, !.life = lf]
  OBVIOUS
<1>3. tx'[t].status = st /\ tx'[t].step = tx[t].step /\ tx'[t] \in Txs
  BY <1>1, <1>2 DEF Txs
<1>4. \A u \in DOMAIN tx : tx'[u] \in Txs /\ tx'[u].step = tx[u].step
  BY <1>2, <1>3, TxTyped
<1>5. tx' \in Seq(Txs) /\ journal' \in [Steps -> Seq(DOMAIN tx')] /\ JournalNames'
  BY <1>2, <1>4, TxChanges
<1>6. EngineTypeOK'
  BY <1>5 DEF EngineTypeOK, Txs
<1>7. TxKept
  BY <1>2, <1>3 DEF TxKept, Confirmed, Goes
<1>8. ASSUME NEW s \in Steps, AtPlace(s) PROVE AtPlace(s)'
  <2>1. ASSUME pc = "send" PROVE Previous(s)'.status = "signed"
    <3>1. journal[s] # <<>> /\ Previous(s).status = "signed"
      BY <1>8, <2>1 DEF AtPlace
    <3>2. Last(journal[s]) \in DOMAIN tx /\ tx[Last(journal[s])].status = "signed"
      BY <3>1, LastAttempt DEF Previous
    <3>. QED
      BY <1>2, <1>3, <3>2 DEF Previous, Goes
  <2>. QED
    BY <1>8, <2>1 DEF AtPlace
<1>. QED
  BY <1>2, <1>3, <1>5, <1>6, <1>7, <1>8

\* A step of the cluster, or the end of the process.
LEMMA ClusterBasic ==
  ASSUME ResumableAssumption, EngineTypeOK, JournalNames, Cluster
  PROVE  /\ EngineTypeOK' /\ JournalNames' /\ TxKept /\ UNCHANGED journal
         /\ DOMAIN tx' = DOMAIN tx
         /\ \A t \in DOMAIN tx : Goes(tx[t].status, tx'[t].status) /\ tx'[t].step = tx[t].step
         /\ \A s \in Steps : AtPlace(s) => AtPlace(s)'
         /\ pc' \in {pc, "idle"}
<1>0. faults \in 0..MaxFaults /\ balance \in Int /\ MaxFaults \in Nat
  BY DEF EngineTypeOK, ResumableAssumption
<1>1. ASSUME NEW t \in DOMAIN tx, (\E possible \in BOOLEAN : Land(t, possible)) \/ Fork(t) \/ Settle(t)
      PROVE  \E st \in Statuses, lf \in 0..Life :
                /\ tx' = [tx EXCEPT ![t].status = st, ![t].life = lf] /\ Goes(tx[t].status, st)
                /\ UNCHANGED <<journal, pc>> /\ balance' \in Int /\ faults' \in 0..MaxFaults
  <2>0. tx[t] \in Txs
    BY TxTyped
  <2>1. /\ Cost[tx[t].step] \in Nat /\ Fee[tx[t].step] \in Nat /\ tx[t].life \in 0..Life
        /\ tx[t].status \in Statuses /\ 0 \in 0..Life
    BY <2>0 DEF Txs, ResumableAssumption
  <2>2. \A st : [tx EXCEPT ![t].status = st] = [tx EXCEPT ![t].status = st, ![t].life = tx[t].life]
    BY <2>0 DEF Txs
  <2>3. faults' \in 0..MaxFaults /\ balance' \in Int /\ UNCHANGED <<journal, pc>>
    BY <1>0, <1>1, <2>1 DEF Land, Fork, Settle, Fault
  <2>4. CASE (\E possible \in BOOLEAN : Land(t, possible)) \/ Fork(t)
    <3>1. PICK st \in Statuses : tx' = [tx EXCEPT ![t].status = st] /\ Goes(tx[t].status, st)
      BY <2>4 DEF Land, Fork, Goes, Statuses
    <3>2. tx' = [tx EXCEPT ![t].status = st, ![t].life = tx[t].life]
      BY <2>2, <3>1
    <3>. QED
      BY <2>1, <2>3, <3>1, <3>2
  <2>5. CASE Settle(t)
    <3>1. PICK st \in Statuses : /\ tx' = [tx EXCEPT ![t].life = 0, ![t].status = st]
                                 /\ Goes(tx[t].status, st)
      <4>1. tx[t].status \in {"processed", "failing"}
        BY <2>5 DEF Settle
      <4>. DEFINE st == IF tx[t].status = "processed" THEN "confirmed" ELSE "failed"
      <4>2. st \in Statuses /\ Goes(tx[t].status, st)
        BY <4>1 DEF Goes, Statuses
      <4>3. tx' = [tx EXCEPT ![t].life = 0, ![t].status = st]
        BY <2>5, <2>0 DEF Settle, Txs
      <4>. QED
        BY <4>2, <4>3
    <3>2. tx' = [tx EXCEPT ![t].status = st, ![t].life = 0]
      BY <3>1, <2>0 DEF Txs
    <3>. QED
      BY <2>1, <2>3, <3>1, <3>2
  <2>. QED
    BY <1>1, <2>4, <2>5
<1>2. ASSUME NEW t \in DOMAIN tx, (\E possible \in BOOLEAN : Land(t, possible)) \/ Fork(t) \/ Settle(t)
      PROVE  /\ EngineTypeOK' /\ JournalNames' /\ TxKept /\ UNCHANGED journal
             /\ DOMAIN tx' = DOMAIN tx
             /\ \A u \in DOMAIN tx : Goes(tx[u].status, tx'[u].status) /\ tx'[u].step = tx[u].step
             /\ \A s \in Steps : AtPlace(s) => AtPlace(s)'
             /\ pc' \in {pc, "idle"}
  <2>1. PICK st \in Statuses, lf \in 0..Life :
                /\ tx' = [tx EXCEPT ![t].status = st, ![t].life = lf] /\ Goes(tx[t].status, st)
                /\ UNCHANGED <<journal, pc>> /\ balance' \in Int /\ faults' \in 0..MaxFaults
    BY <1>1, <1>2
  <2>2. /\ EngineTypeOK' /\ JournalNames' /\ TxKept /\ DOMAIN tx' = DOMAIN tx
        /\ \A u \in DOMAIN tx : u # t => tx'[u] = tx[u]
        /\ tx'[t].status = st /\ tx'[t].step = tx[t].step
        /\ \A s \in Steps : AtPlace(s) => AtPlace(s)'
    BY <2>1, OneGoes
  <2>3. \A u \in DOMAIN tx : Goes(tx[u].status, tx'[u].status) /\ tx'[u].step = tx[u].step
    BY <2>1, <2>2 DEF Goes
  <2>. QED
    BY <2>1, <2>2, <2>3
<1>3. CASE Tick
  <2>1. /\ DOMAIN tx' = DOMAIN tx /\ tx' = [t \in DOMAIN tx |-> tx'[t]]
        /\ UNCHANGED <<journal, balance, pc, faults>>
        /\ \A t \in DOMAIN tx : tx'[t] = [tx[t] EXCEPT !.life = IF @ = 0 THEN 0 ELSE @ - 1]
    BY <1>3 DEF Tick
  <2>2. ASSUME NEW t \in DOMAIN tx
        PROVE tx'[t] \in Txs /\ tx'[t].step = tx[t].step /\ tx'[t].status = tx[t].status
    <3>1. tx[t] \in Txs /\ tx[t].life \in 0..Life /\ Life \in Nat
      BY TxTyped DEF Txs, ResumableAssumption
    <3>. QED
      BY <2>1, <3>1 DEF Txs
  <2>3. tx' \in Seq(Txs) /\ journal' \in [Steps -> Seq(DOMAIN tx')] /\ JournalNames'
    BY <2>1, <2>2, TxChanges
  <2>4. EngineTypeOK'
    BY <2>1, <2>3 DEF EngineTypeOK, Txs
  <2>5. ASSUME NEW s \in Steps, AtPlace(s) PROVE AtPlace(s)'
    <3>1. ASSUME pc = "send" PROVE Previous(s)'.status = "signed"
      <4>1. journal[s] # <<>> /\ Previous(s).status = "signed"
        BY <2>5, <3>1 DEF AtPlace
      <4>. QED
        BY <2>1, <2>2, <4>1, LastAttempt DEF Previous
    <3>. QED
      BY <2>1, <2>5, <3>1 DEF AtPlace
  <2>. QED
    BY <2>1, <2>2, <2>3, <2>4, <2>5 DEF TxKept, Confirmed, Goes
<1>4. CASE Stop
  <2>1. UNCHANGED <<journal, tx, balance>> /\ pc' = "idle" /\ faults' \in 0..MaxFaults
    BY <1>0, <1>4 DEF Stop, Fault, ToIdle
  <2>2. EngineTypeOK' /\ JournalNames' /\ TxKept
    BY <2>1 DEF EngineTypeOK, JournalNames, TxKept, Confirmed
  <2>. QED
    BY <2>1, <2>2 DEF AtPlace, Goes
<1>. QED
  BY <1>2, <1>3, <1>4 DEF Cluster

-----------------------------------------------------------------------------
(* The engine where a failure that a block reported stays one.             *)

\* Every attempt is in the journal of its step, whose last one is the newest.
Journaled ==
  \A t \in DOMAIN tx : /\ journal[tx[t].step] # <<>> /\ t <= Last(journal[tx[t].step])
                       /\ \E i \in DOMAIN journal[tx[t].step] : journal[tx[t].step][i] = t

\* What another attempt was made after has failed, or is a repeatable success.
Superseded ==
  \A t, u \in DOMAIN tx : t < u /\ tx[t].step = tx[u].step =>
    HasErr(tx[t]) \/ (tx[t].step \in Repeatable /\ Confirmed(tx[t]))

\* A process that may sign has seen the last attempt fail, unless it may repeat.
AtSign(s) ==
  pc \in {"recheck", "sign"} =>
    \/ journal[s] = <<>>
    \/ HasErr(Previous(s))
    \/ s \in Repeatable /\ Confirmed(Previous(s))

Exact(s) == Journaled /\ Superseded /\ AtSign(s)

LEMMA ExactSame ==
  ASSUME UNCHANGED <<journal, tx>>, Journaled, Superseded
  PROVE  Journaled' /\ Superseded'
BY DEF Journaled, Superseded, HasErr, Confirmed

LEMMA EngineExact ==
  ASSUME ResumableAssumption, EngineTypeOK, JournalNames, NEW s \in Steps, AtPlace(s), Exact(s),
         NEW done, NEW simulates, NEW initial, NEW maxSpend,
         Engine(s, done, simulates, initial, maxSpend)
  PROVE  Exact(s)'
<1>1. CASE CheckStep(s, done) \/ ReadStatus(s, done) \/ ReadHeight(s) \/ ReadFinalStatus(s, done)
           \/ Recheck(s, done) \/ Confirm(s, done)
  <2>1. UNCHANGED <<journal, tx>>
    BY <1>1 DEF CheckStep, ReadStatus, ReadHeight, ReadFinalStatus, Recheck, Confirm
  <2>2. AtSign(s)'
    BY <1>1, <2>1 DEF CheckStep, ReadStatus, ReadHeight, ReadFinalStatus, Recheck, Confirm,
                      AfterConfirmed, ToIdle, Exact, AtSign, HasErr, Confirmed, Previous
  <2>. QED
    BY <2>1, <2>2, ExactSame DEF Exact
<1>2. CASE Resend(s) \/ Send(s)
  <2>1. /\ UNCHANGED journal /\ DOMAIN tx' = DOMAIN tx /\ pc' = "confirm"
        /\ \A t \in DOMAIN tx : /\ tx'[t] # tx[t] => tx[t].status = "signed" /\ tx'[t].status = "sent"
                                /\ tx'[t].step = tx[t].step
    BY <1>2, GivenAway
  <2>2. Journaled' /\ AtSign(s)'
    BY <2>1 DEF Exact, Journaled, AtSign
  <2>3. ASSUME NEW t \in DOMAIN tx, NEW u \in DOMAIN tx, t < u, tx'[t].step = tx'[u].step
        PROVE  HasErr(tx'[t]) \/ (tx'[t].step \in Repeatable /\ Confirmed(tx'[t]))
    <3>1. HasErr(tx[t]) \/ (tx[t].step \in Repeatable /\ Confirmed(tx[t]))
      BY <2>1, <2>3 DEF Exact, Superseded
    <3>2. tx'[t] = tx[t]
      BY <2>1, <3>1 DEF HasErr, Confirmed
    <3>. QED
      BY <3>1, <3>2
  <2>4. Superseded'
    BY <2>1, <2>3 DEF Superseded
  <2>. QED
    BY <2>2, <2>4 DEF Exact
<1>3. CASE Sign(s, simulates, initial, maxSpend)
  <2>1. pc = "sign" /\ UNCHANGED <<balance, faults>> /\ pc' \in {"send", "idle"}
    BY <1>3 DEF Sign, ToIdle
  <2>2. CASE pc' = "idle"
    <3>1. UNCHANGED <<journal, tx>>
      BY <1>3, <2>2 DEF Sign, ToIdle
    <3>. QED
      BY <2>2, <3>1, ExactSame DEF Exact, AtSign
  <2>3. CASE pc' = "send"
    <3>. DEFINE m == Len(tx) + 1
    <3>1. /\ tx' = Append(tx, [step |-> s, status |-> "signed", life |-> Life])
          /\ journal' = [journal EXCEPT ![s] = Append(@, Len(tx) + 1)]
      BY <1>3, <2>3 DEF Sign, ToIdle
    <3>2. /\ DOMAIN tx' = DOMAIN tx \cup {m}
          /\ \A t \in DOMAIN tx : tx'[t] = tx[t]
          /\ tx'[m].step = s
          /\ journal'[s] # <<>> /\ Last(journal'[s]) = m
          /\ Len(journal'[s]) \in DOMAIN journal'[s] /\ journal'[s][Len(journal'[s])] = m
          /\ \A i \in DOMAIN journal[s] : i \in DOMAIN journal'[s] /\ journal'[s][i] = journal[s][i]
          /\ \A u \in Steps : u # s => journal'[u] = journal[u]
      BY <2>1, <2>3, <3>1, NewAttempt DEF Places
    <3>3. \A t \in DOMAIN tx : t \in Nat /\ t < m /\ tx[t].step \in Steps
      <4>1. DOMAIN tx = 1..Len(tx) /\ Len(tx) \in Nat
        BY DEF EngineTypeOK
      <4>2. \A t \in DOMAIN tx : tx[t].step \in Steps
        BY TxTyped DEF Txs
      <4>. QED
        BY <4>1, <4>2
    <3>4. Journaled'
      <4>. SUFFICES ASSUME NEW t \in DOMAIN tx'
                    PROVE  /\ journal'[tx'[t].step] # <<>> /\ t <= Last(journal'[tx'[t].step])
                           /\ \E i \in DOMAIN journal'[tx'[t].step] : journal'[tx'[t].step][i] = t
        BY DEF Journaled
      <4>1. CASE t = m
        <5>1. m \in Nat
          BY DEF EngineTypeOK
        <5>. QED
          BY <3>2, <4>1, <5>1
      <4>2. CASE t # m
        <5>1. t \in DOMAIN tx /\ tx'[t] = tx[t] /\ tx[t].step \in Steps /\ t < m /\ t \in Nat
          BY <3>2, <3>3, <4>2
        <5>2. PICK i \in DOMAIN journal[tx[t].step] : journal[tx[t].step][i] = t
          BY <5>1 DEF Exact, Journaled
        <5>3. CASE tx[t].step = s
          <6>1. i \in DOMAIN journal'[s] /\ journal'[s][i] = t
            BY <3>2, <5>2, <5>3
          <6>2. t <= Last(journal'[s])
            BY <3>2, <5>1 DEF EngineTypeOK
          <6>3. tx'[t].step = s
            BY <5>1, <5>3
          <6>4. journal'[s] # <<>>
            BY <3>2
          <6>. QED
            BY <6>1, <6>2, <6>3, <6>4, Zenon
        <5>4. CASE tx[t].step # s
          <6>1. journal'[tx[t].step] = journal[tx[t].step]
            BY <3>2, <5>1, <5>4
          <6>2. journal[tx[t].step] # <<>> /\ t <= Last(journal[tx[t].step])
            BY <5>1 DEF Exact, Journaled
          <6>3. tx'[t].step = tx[t].step
            BY <5>1
          <6>. QED
            BY <5>2, <6>1, <6>2, <6>3, Zenon
        <5>. QED
          BY <5>3, <5>4
      <4>. QED
        BY <4>1, <4>2
    <3>5. Superseded'
      <4>. SUFFICES ASSUME NEW t \in DOMAIN tx', NEW u \in DOMAIN tx', t < u, tx'[t].step = tx'[u].step
                    PROVE  HasErr(tx'[t]) \/ (tx'[t].step \in Repeatable /\ Confirmed(tx'[t]))
        BY DEF Superseded
      <4>0. t # m
        BY <3>2, <3>3 DEF EngineTypeOK
      <4>1. t \in DOMAIN tx /\ tx'[t] = tx[t]
        BY <3>2, <4>0
      <4>2. CASE u # m
        BY <3>2, <4>1, <4>2 DEF Exact, Superseded
      <4>3. CASE u = m
        <5>1. tx[t].step = s
          BY <3>2, <4>1, <4>3
        <5>2. journal[s] # <<>> /\ t <= Last(journal[s])
          BY <4>1, <5>1 DEF Exact, Journaled
        <5>3. /\ Last(journal[s]) \in DOMAIN tx /\ Previous(s) = tx[Last(journal[s])]
              /\ tx[Last(journal[s])].step = s
          BY <5>2, LastAttempt
        <5>4. HasErr(Previous(s)) \/ (s \in Repeatable /\ Confirmed(Previous(s)))
          BY <2>1, <5>2 DEF Exact, AtSign
        <5>5. CASE t = Last(journal[s])
          BY <4>1, <5>1, <5>3, <5>4, <5>5
        <5>6. CASE t # Last(journal[s])
          <6>1. t < Last(journal[s])
            BY <3>3, <4>1, <5>2, <5>3, <5>6
          <6>. QED
            BY <4>1, <5>1, <5>3, <6>1 DEF Exact, Superseded
        <5>. QED
          BY <5>5, <5>6
      <4>. QED
        BY <4>2, <4>3
    <3>. QED
      BY <2>3, <3>4, <3>5 DEF Exact, AtSign
  <2>. QED
    BY <2>1, <2>2, <2>3
<1>. QED
  BY <1>1, <1>2, <1>3 DEF Engine

LEMMA ClusterExact ==
  ASSUME ResumableAssumption, ForkedErrors = FALSE, EngineTypeOK, JournalNames, Journaled, Superseded,
         Cluster
  PROVE  /\ Journaled' /\ Superseded'
         /\ \A s \in Steps : AtSign(s) => AtSign(s)'
<1>1. /\ UNCHANGED journal /\ DOMAIN tx' = DOMAIN tx /\ pc' \in {pc, "idle"}
      /\ \A t \in DOMAIN tx : Goes(tx[t].status, tx'[t].status) /\ tx'[t].step = tx[t].step
  BY ClusterBasic
<1>2. \A t \in DOMAIN tx : /\ HasErr(tx[t]) => HasErr(tx'[t])
                           /\ Confirmed(tx[t]) => Confirmed(tx'[t])
  BY <1>1 DEF HasErr, Confirmed, Goes
<1>3. Journaled'
  BY <1>1 DEF Journaled
<1>4. Superseded'
  BY <1>1, <1>2 DEF Superseded
<1>5. ASSUME NEW s \in Steps, AtSign(s) PROVE AtSign(s)'
  <2>1. ASSUME journal[s] # <<>> PROVE Last(journal[s]) \in DOMAIN tx
    BY <2>1, LastAttempt
  <2>. QED
    BY <1>1, <1>2, <1>5, <2>1 DEF AtSign, Previous
<1>. QED
  BY <1>3, <1>4, <1>5

\* What the engine promises.
LEMMA ExactSays ==
  ASSUME EngineTypeOK, Journaled, Superseded
  PROVE  StepTakesEffectOnce /\ OneLiveAttempt /\ SentIsJournaled
<1>0. \A t \in DOMAIN tx : t \in Nat
  BY DEF EngineTypeOK
<1>1. StepTakesEffectOnce
  BY <1>0 DEF Superseded, StepTakesEffectOnce, Landed, HasErr
<1>2. OneLiveAttempt
  BY DEF Superseded, OneLiveAttempt, HasErr, Confirmed
<1>3. SentIsJournaled
  BY DEF Journaled, SentIsJournaled
<1>. QED
  BY <1>1, <1>2, <1>3

-----------------------------------------------------------------------------
(* The plans.  A step has one place, in one of the two plans.              *)

Modes == {"bootstrap", "expand"}
KindSet == {"mint", "policy", "observe", "series"}

\* The steps of a sequence of assets.
Body(assets) == [i \in 1..(4 * Len(assets)) |-> <<Kinds[1 + ((i - 1) % 4)], assets[1 + ((i - 1) \div 4)]>>]

LEMMA KindsFact ==
  /\ \A r \in 0..3 : Kinds[1 + r] \in KindSet
  /\ \A k \in KindSet : \E r \in 0..3 : Kinds[1 + r] = k
  /\ \A r, q \in 0..3 : Kinds[1 + r] = Kinds[1 + q] => r = q
<1>1. Kinds[1] = "mint" /\ Kinds[2] = "policy" /\ Kinds[3] = "observe" /\ Kinds[4] = "series"
  BY DEF Kinds
<1>2. \A r \in 0..3 : r = 0 \/ r = 1 \/ r = 2 \/ r = 3
  OBVIOUS
<1>3. 1 + 0 = 1 /\ 1 + 1 = 2 /\ 1 + 2 = 3 /\ 1 + 3 = 4
  OBVIOUS
<1>. QED
  BY <1>1, <1>2, <1>3 DEF KindSet

\* A sequence that holds each element of A once.
OneEach(q, A) ==
  /\ q \in Seq(A) /\ (\A a \in A : \E i \in DOMAIN q : q[i] = a)
  /\ \A i, j \in DOMAIN q : q[i] = q[j] => i = j

LEMMA BodyFact ==
  ASSUME NEW A, NEW q, OneEach(q, A)
  PROVE  OneEach(Body(q), KindSet \X A)
<1>. DEFINE n == 4 * Len(q)  K(i) == (i - 1) % 4  J(i) == 1 + ((i - 1) \div 4)
<1>0. /\ q \in Seq(A) /\ Len(q) \in Nat /\ n \in Nat /\ DOMAIN q = 1..Len(q)
      /\ \A a \in A : \E i \in DOMAIN q : q[i] = a
      /\ \A i, j \in DOMAIN q : q[i] = q[j] => i = j
  BY DEF OneEach
<1>1. \A i \in 1..n : /\ K(i) \in 0..3 /\ J(i) \in 1..Len(q)
                      /\ i = 4 * (J(i) - 1) + K(i) + 1
  BY <1>0
<1>2. \A i \in 1..n : Body(q)[i] = <<Kinds[1 + K(i)], q[J(i)]>>
  BY DEF Body
<1>3. DOMAIN Body(q) = 1..n
  BY DEF Body
<1>. HIDE DEF K, J
<1>4. \A i \in 1..n : Body(q)[i] \in KindSet \X A
  <2>. SUFFICES ASSUME NEW i \in 1..n PROVE Body(q)[i] \in KindSet \X A
    OBVIOUS
  <2>1. K(i) \in 0..3 /\ J(i) \in DOMAIN q
    BY <1>0, <1>1
  <2>2. Kinds[1 + K(i)] \in KindSet /\ q[J(i)] \in A
    BY <1>0, <2>1, KindsFact
  <2>3. Body(q)[i] = <<Kinds[1 + K(i)], q[J(i)]>>
    BY <1>2
  <2>. DEFINE k == Kinds[1 + K(i)]  a == q[J(i)]  P == KindSet \X A  b == Body(q)[i]
  <2>4. k \in KindSet /\ a \in A /\ b = <<k, a>>
    BY <2>2, <2>3
  <2>. HIDE DEF k, a, b
  <2>5. <<k, a>> \in P
    BY <2>4
  <2>. HIDE DEF P
  <2>6. b \in P
    BY <2>4, <2>5
  <2>. QED
    BY <2>6 DEF b, P
<1>5. Body(q) \in [1..n -> KindSet \X A]
  BY <1>4 DEF Body
<1>6. Body(q) \in Seq(KindSet \X A)
  <2>1. n \in Nat
    BY <1>0
  <2>. HIDE DEF n
  <2>. QED
    BY <1>5, <2>1, SeqDef
<1>7. ASSUME NEW s \in KindSet \X A PROVE \E i \in DOMAIN Body(q) : Body(q)[i] = s
  <2>1. PICK k \in KindSet, a \in A : s = <<k, a>>
    OBVIOUS
  <2>2. PICK r \in 0..3 : Kinds[1 + r] = k
    BY KindsFact
  <2>3. PICK j \in 1..Len(q) : q[j] = a
    BY <1>0
  <2>. DEFINE i == 4 * (j - 1) + r + 1
  <2>4. i \in 1..n /\ K(i) = r /\ J(i) = j
    BY <1>0 DEF K, J
  <2>5. Body(q)[i] = s
    BY <1>2, <2>1, <2>2, <2>3, <2>4
  <2>. QED
    BY <1>3, <2>4, <2>5
<1>8. ASSUME NEW i \in 1..n, NEW j \in 1..n, Body(q)[i] = Body(q)[j] PROVE i = j
  <2>0. /\ K(i) \in 0..3 /\ K(j) \in 0..3 /\ J(i) \in DOMAIN q /\ J(j) \in DOMAIN q
        /\ i = 4 * (J(i) - 1) + K(i) + 1 /\ j = 4 * (J(j) - 1) + K(j) + 1
    BY <1>0, <1>1
  <2>1. Kinds[1 + K(i)] = Kinds[1 + K(j)] /\ q[J(i)] = q[J(j)]
    BY <1>2, <1>8
  <2>2. K(i) = K(j)
    BY <2>0, <2>1, KindsFact
  <2>3. J(i) = J(j)
    BY <1>0, <2>0, <2>1
  <2>. QED
    BY <2>0, <2>2, <2>3
<1>. QED
  BY <1>3, <1>6, <1>7, <1>8 DEF OneEach

LEMMA BodiesFact ==
  ASSUME BootstrapAssumption
  PROVE  /\ OneEach(Body(Legacy), KindSet \X LegacyAssets)
         /\ OneEach(Body(Added), KindSet \X AddedAssets)
<1>1. OneEach(Legacy, LegacyAssets) /\ OneEach(Added, AddedAssets)
  BY DEF BootstrapAssumption, OneEach, LegacyAssets, AddedAssets
<1>. QED
  BY <1>1, BodyFact

LEMMA PlanFact ==
  ASSUME BootstrapAssumption
  PROVE  /\ \A m \in Modes : /\ Plan(m) \in Seq(Steps)
                             /\ \A i, j \in DOMAIN Plan(m) : Plan(m)[i] = Plan(m)[j] => i = j
         /\ PlanSteps("bootstrap") = {Fund} \cup (KindSet \X LegacyAssets)
         /\ PlanSteps("expand") = KindSet \X AddedAssets
         /\ PlanSteps("bootstrap") \cap PlanSteps("expand") = {}
         /\ Steps = PlanSteps("bootstrap") \cup PlanSteps("expand")
<1>. DEFINE L == Body(Legacy)  A == Body(Added)
<1>0. /\ L \in Seq(KindSet \X LegacyAssets) /\ A \in Seq(KindSet \X AddedAssets)
      /\ \A s \in KindSet \X LegacyAssets : \E i \in DOMAIN L : L[i] = s
      /\ \A s \in KindSet \X AddedAssets : \E i \in DOMAIN A : A[i] = s
      /\ \A i, j \in DOMAIN L : L[i] = L[j] => i = j
      /\ \A i, j \in DOMAIN A : A[i] = A[j] => i = j
  BY BodiesFact DEF OneEach
<1>1. Plan("bootstrap") = <<Fund>> \o L /\ Plan("expand") = <<>> \o A
  BY DEF Plan, Body
<1>2. Steps = {Fund} \cup (KindSet \X Assets) /\ LegacyAssets \cap AddedAssets = {}
  BY DEF BootstrapAssumption, KindSet
<1>3. Fund \notin KindSet \X Assets /\ Assets = LegacyAssets \cup AddedAssets
  BY DEF Fund, KindSet, Assets
<1>. HIDE DEF L, A
<1>4. <<>> \o A = A
  BY <1>0
<1>5. /\ <<Fund>> \o L \in Seq({Fund} \cup (KindSet \X LegacyAssets))
      /\ DOMAIN (<<Fund>> \o L) = 1..(Len(L) + 1) /\ Len(L) \in Nat /\ DOMAIN L = 1..Len(L)
      /\ (<<Fund>> \o L)[1] = Fund
      /\ \A i \in DOMAIN L : (<<Fund>> \o L)[i + 1] = L[i]
  <2>1. L \in Seq({Fund} \cup (KindSet \X LegacyAssets)) /\ <<Fund>> \in Seq({Fund} \cup (KindSet \X LegacyAssets))
    BY <1>0, Widened
  <2>. QED
    BY <2>1
<1>6. \A i \in 1..(Len(L) + 1) : i = 1 \/ (i - 1 \in DOMAIN L /\ (<<Fund>> \o L)[i] = L[i - 1])
  BY <1>5
<1>7. PlanSteps("bootstrap") = {Fund} \cup (KindSet \X LegacyAssets)
  <2>1. ASSUME NEW s \in PlanSteps("bootstrap") PROVE s \in {Fund} \cup (KindSet \X LegacyAssets)
    <3>0. PICK i \in DOMAIN Plan("bootstrap") : s = Plan("bootstrap")[i]
      BY <2>1, Zenon DEF PlanSteps
    <3>1. i \in 1..(Len(L) + 1) /\ s = (<<Fund>> \o L)[i]
      BY <1>1, <1>5, <3>0, Zenon
    <3>2. CASE i = 1
      BY <1>5, <3>1, <3>2
    <3>3. CASE i # 1
      <4>1. i - 1 \in DOMAIN L /\ s = L[i - 1]
        BY <1>6, <3>1, <3>3
      <4>. QED
        BY <1>0, <4>1
    <3>. QED
      BY <3>2, <3>3
  <2>2. Fund \in PlanSteps("bootstrap")
    <3>1. 1 \in DOMAIN (<<Fund>> \o L)
      BY <1>5
    <3>. QED
      BY <1>1, <1>5, <3>1 DEF PlanSteps
  <2>3. ASSUME NEW s \in KindSet \X LegacyAssets PROVE s \in PlanSteps("bootstrap")
    <3>1. PICK i \in DOMAIN L : L[i] = s
      BY <1>0
    <3>2. i + 1 \in DOMAIN (<<Fund>> \o L) /\ (<<Fund>> \o L)[i + 1] = s
      BY <1>5, <3>1
    <3>. QED
      BY <1>1, <3>2 DEF PlanSteps
  <2>. QED
    BY <2>1, <2>2, <2>3
<1>8. PlanSteps("expand") = KindSet \X AddedAssets
  <2>1. \A i \in DOMAIN A : A[i] \in KindSet \X AddedAssets
    BY <1>0
  <2>. QED
    BY <1>0, <1>1, <1>4, <2>1 DEF PlanSteps
<1>9. \A i, j \in DOMAIN Plan("bootstrap") : Plan("bootstrap")[i] = Plan("bootstrap")[j] => i = j
  <2>1. \A i \in DOMAIN L : L[i] # Fund
    BY <1>0, <1>3
  <2>2. ASSUME NEW i \in 1..(Len(L) + 1), NEW j \in 1..(Len(L) + 1), (<<Fund>> \o L)[i] = (<<Fund>> \o L)[j]
        PROVE  i = j
    <3>0. \A k \in 1..(Len(L) + 1) : (<<Fund>> \o L)[k] = Fund => k = 1
      <4>. SUFFICES ASSUME NEW k \in 1..(Len(L) + 1), k # 1 PROVE (<<Fund>> \o L)[k] # Fund
        OBVIOUS
      <4>1. k - 1 \in DOMAIN L /\ (<<Fund>> \o L)[k] = L[k - 1]
        BY <1>6
      <4>. QED
        BY <2>1, <4>1, Zenon
    <3>1. CASE i = 1 \/ j = 1
      BY <1>5, <2>2, <3>0, <3>1, Zenon
    <3>2. CASE i # 1 /\ j # 1
      <4>1. i - 1 \in DOMAIN L /\ j - 1 \in DOMAIN L /\ L[i - 1] = L[j - 1]
        BY <1>6, <2>2, <3>2
      <4>2. i - 1 = j - 1
        BY <1>0, <4>1
      <4>. QED
        BY <4>2
    <3>. QED
      BY <3>1, <3>2
  <2>. QED
    BY <1>1, <1>5, <2>2
<1>10. \A i, j \in DOMAIN Plan("expand") : Plan("expand")[i] = Plan("expand")[j] => i = j
  BY <1>0, <1>1, <1>4
<1>11. Plan("bootstrap") \in Seq(Steps)
  <2>1. {Fund} \cup (KindSet \X LegacyAssets) \subseteq Steps
    BY <1>2, <1>3
  <2>2. <<Fund>> \o L \in Seq({Fund} \cup (KindSet \X LegacyAssets))
    BY <1>5
  <2>3. <<Fund>> \o L \in Seq(Steps)
    <3>. DEFINE S == {Fund} \cup (KindSet \X LegacyAssets)  q == <<Fund>> \o L
    <3>1. S \subseteq Steps /\ q \in Seq(S)
      BY <2>1, <2>2
    <3>. HIDE DEF S, q
    <3>2. q \in Seq(Steps)
      BY <3>1, Widened
    <3>. QED
      BY <3>2 DEF q
  <2>. QED
    BY <1>1, <2>3
<1>12. Plan("expand") \in Seq(Steps)
  <2>1. KindSet \X AddedAssets \subseteq Steps
    BY <1>2, <1>3
  <2>. QED
    BY <1>0, <1>1, <1>4, <2>1, Widened
<1>13. /\ PlanSteps("bootstrap") \cap PlanSteps("expand") = {}
       /\ Steps = PlanSteps("bootstrap") \cup PlanSteps("expand")
  BY <1>2, <1>3, <1>7, <1>8
<1>. QED
  BY <1>7, <1>8, <1>9, <1>10, <1>11, <1>12, <1>13 DEF Modes

-----------------------------------------------------------------------------
(* The tool, whatever the cluster drops and although state.json may be     *)
(* lost.  A run reaches a position of its plan over steps that are on      *)
(* chain, or that may be repeated.                                         *)

InStep == {"status", "height", "final", "resend", "recheck", "sign", "send", "confirm", "next"}

Settled(s) == s \in Repeatable \/ OnChain(s)

\* A run stands at a step of its plan, over the ones before it.
Positions ==
  /\ pc \in InStep => at <= Len(Plan(mode)) /\ AtPlace(Step)
  /\ pc \in {"signers", "state", "baseline"} => at = 1
  /\ pc \in InStep \cup {"check"} => \A i \in 1..(at - 1) : Settled(Plan(mode)[i])
  /\ pc = "next" => Settled(Step)

\* A manifest is written over a finished plan.
Published ==
  /\ manifest # "none" => \A s \in PlanSteps("bootstrap") : Settled(s)
  /\ manifest = "all" => \A s \in PlanSteps("expand") : Settled(s)

\* The authorities are funded by the funding step; the second command runs only
\* where the first has published.
Evidence ==
  /\ ~low => OnChain(Fund)
  /\ Published
  /\ pc # "idle" /\ mode = "expand" => manifest # "none"

ToolInv == TypeOK /\ JournalNames /\ Positions /\ Evidence

LEMMA KeptSettled ==
  ASSUME TxKept
  PROVE  \A s : (OnChain(s) => OnChain(s)') /\ (Settled(s) => Settled(s)')
<1>1. ASSUME NEW s, OnChain(s) PROVE OnChain(s)'
  <2>1. PICK t \in DOMAIN tx : tx[t].step = s /\ Confirmed(tx[t])
    BY <1>1 DEF OnChain
  <2>2. t \in DOMAIN tx' /\ tx'[t].step = s /\ Confirmed(tx'[t])
    BY <2>1 DEF TxKept
  <2>3. Confirmed(tx'[t]) = Confirmed(tx[t])'
    BY DEF Confirmed
  <2>. QED
    BY <2>2 DEF OnChain, Confirmed
<1>. QED
  BY <1>1 DEF Settled

LEMMA KeptManifest ==
  ASSUME TxKept, Published, manifest' = manifest
  PROVE  Published'
<1>1. PlanSteps("bootstrap")' = PlanSteps("bootstrap") /\ PlanSteps("expand")' = PlanSteps("expand")
  BY DEF PlanSteps, Plan
<1>. QED
  BY <1>1, KeptSettled DEF Published

LEMMA PublishedIsReal ==
  ASSUME BootstrapAssumption, Published
  PROVE  ManifestIsReal
<1>1. \A a \in Assets, k \in {"mint", "policy", "series"} : <<k, a>> \notin Repeatable
  BY DEF BootstrapAssumption
<1>2. /\ \A a \in LegacyAssets, k \in {"mint", "policy", "series"} : <<k, a>> \in PlanSteps("bootstrap") /\ a \in Assets
      /\ \A a \in AddedAssets, k \in {"mint", "policy", "series"} : <<k, a>> \in PlanSteps("expand") /\ a \in Assets
  BY PlanFact DEF KindSet, Assets
<1>. QED
  BY <1>1, <1>2 DEF Published, Settled, ManifestIsReal

LEMMA StepInPlan ==
  ASSUME BootstrapAssumption, TypeOK, at <= Len(Plan(mode))
  PROVE  /\ Step \in Steps /\ Step \in PlanSteps(mode) /\ at \in DOMAIN Plan(mode) /\ mode \in Modes
         /\ Len(Plan(mode)) \in Nat /\ at \in Nat \ {0}
<1>1. mode \in Modes /\ at \in 1..(Len(Plan(mode)) + 1)
  BY DEF TypeOK, Modes
<1>2. Plan(mode) \in Seq(Steps)
  BY <1>1, PlanFact
<1>3. at \in DOMAIN Plan(mode) /\ Len(Plan(mode)) \in Nat /\ at \in Nat \ {0}
  BY <1>1, <1>2
<1>. QED
  BY <1>1, <1>2, <1>3 DEF Step, PlanSteps

\* A check that holds is of a step that is settled.
LEMMA HoldsSettles ==
  ASSUME BootstrapAssumption, EngineTypeOK, JournalNames, ~low => OnChain(Fund), NEW s \in Steps, Holds(s)
  PROVE  Settled(s)
<1>1. CASE s = Fund
  <2>1. PersistedStepConfirmed(Fund) \/ ~low
    BY <1>1 DEF Holds
  <2>2. ASSUME PersistedStepConfirmed(Fund) PROVE OnChain(Fund)
    <3>1. journal[s] # <<>> /\ Confirmed(Previous(s))
      BY <1>1, <2>2 DEF PersistedStepConfirmed
    <3>2. Last(journal[s]) \in DOMAIN tx /\ Previous(s) = tx[Last(journal[s])] /\ Previous(s).step = s
      BY <3>1, LastAttempt
    <3>. QED
      BY <1>1, <3>1, <3>2 DEF OnChain
  <2>. QED
    BY <1>1, <2>1, <2>2 DEF Settled
<1>2. CASE s # Fund
  <2>1. s \in KindSet \X Assets
    BY <1>2 DEF BootstrapAssumption, KindSet
  <2>2. CASE s[1] = "observe"
    <3>1. s \in {"observe"} \X Assets
      BY <2>1, <2>2
    <3>. QED
      BY <3>1 DEF Settled, BootstrapAssumption
  <2>3. CASE s[1] # "observe"
    BY <2>1, <2>3 DEF Holds, Settled, KindSet
  <2>. QED
    BY <2>2, <2>3
<1>. QED
  BY <1>1, <1>2

LEMMA InitTools == ASSUME BootstrapAssumption, ResumableAssumption, Init PROVE ToolInv
<1>1. EngineTypeOK /\ JournalNames
  <2>1. tx \in Seq([step : Steps, status : Statuses, life : 0..Life]) /\ DOMAIN tx = {}
    BY DEF Init, InitEngine
  <2>2. journal \in [Steps -> Seq(DOMAIN tx)] /\ \A s \in Steps : DOMAIN journal[s] = {}
    BY DEF Init, InitEngine
  <2>. QED
    BY <2>1, <2>2 DEF Init, InitEngine, EngineTypeOK, JournalNames, ResumableAssumption
<1>2. Plan("bootstrap") \in Seq(Steps) /\ 1 \in 1..(Len(Plan("bootstrap")) + 1)
  <2>1. Plan("bootstrap") \in Seq(Steps)
    BY PlanFact DEF Modes
  <2>. QED
    BY <2>1
<1>3. TypeOK
  BY <1>1, <1>2 DEF Init, InitTool, TypeOK, NoState, NoBaseline
<1>. QED
  BY <1>1, <1>3 DEF Init, InitTool, InitEngine, ToolInv, Positions, Evidence, Published, InStep

\* RunStep is a step of the engine at the plan's position.
LEMMA RunStepEngine ==
  ASSUME BootstrapAssumption, TypeOK, RunStep
  PROVE  \E s \in Steps, done \in BOOLEAN, simulates \in BOOLEAN :
            /\ s = Step /\ Engine(s, done, simulates, Initial, Ceiling)
            /\ (done => Holds(s)) /\ (simulates => Possible(s))
            /\ at <= Len(Plan(mode)) /\ UNCHANGED <<diskVars, mode, at, worldVars>>
<1>1. at <= Len(Plan(mode)) /\ UNCHANGED <<diskVars, mode, at, worldVars>>
  BY DEF RunStep
<1>2. PICK s \in Steps : s = Step
  BY <1>1, StepInPlan
<1>3. PICK done \in BOOLEAN : done <=> Holds(s)
  OBVIOUS
<1>4. PICK simulates \in BOOLEAN : simulates <=> Possible(s)
  OBVIOUS
<1>5. \/ CheckStep(s, Holds(s)) \/ ReadStatus(s, Holds(s)) \/ ReadHeight(s) \/ ReadFinalStatus(s, Holds(s))
      \/ Resend(s) \/ Recheck(s, Holds(s)) \/ Sign(s, Possible(s), Initial, Ceiling) \/ Send(s)
      \/ Confirm(s, Holds(s))
  BY <1>2, Zenon DEF RunStep
<1>6. Engine(s, done, simulates, Initial, Ceiling)
  <2>1. /\ CheckStep(s, Holds(s)) => CheckStep(s, done)
        /\ ReadStatus(s, Holds(s)) => ReadStatus(s, done)
        /\ ReadFinalStatus(s, Holds(s)) => ReadFinalStatus(s, done)
        /\ Recheck(s, Holds(s)) => Recheck(s, done)
        /\ Confirm(s, Holds(s)) => Confirm(s, done)
    BY <1>3, Zenon DEF CheckStep, ReadStatus, ReadFinalStatus, Recheck, Confirm, AfterConfirmed
  <2>2. Sign(s, Possible(s), Initial, Ceiling) => Sign(s, simulates, Initial, Ceiling)
    BY <1>4, Zenon DEF Sign
  <2>. QED
    BY <1>5, <2>1, <2>2, Zenon DEF Engine
<1>. QED
  BY <1>1, <1>2, <1>3, <1>4, <1>6, Zenon

LEMMA RunStepTool ==
  ASSUME BootstrapAssumption, ResumableAssumption, ToolInv, RunStep
  PROVE  ToolInv' /\ TxKept
<1>1. PICK s \in Steps, done \in BOOLEAN, simulates \in BOOLEAN :
            /\ s = Step /\ Engine(s, done, simulates, Initial, Ceiling)
            /\ (done => Holds(s)) /\ (simulates => Possible(s))
            /\ at <= Len(Plan(mode)) /\ UNCHANGED <<diskVars, mode, at, worldVars>>
  BY RunStepEngine DEF ToolInv
<1>2. EngineTypeOK /\ JournalNames /\ AtPlace(s) /\ (~low => OnChain(Fund))
  <2>1. pc \in InStep \/ pc = "check"
    BY <1>1 DEF Engine, CheckStep, ReadStatus, ReadHeight, ReadFinalStatus, Resend, Recheck, Sign, Send,
                Confirm, InStep
  <2>2. AtPlace(s)
    BY <1>1, <2>1 DEF ToolInv, Positions, AtPlace
  <2>. QED
    BY <2>2 DEF ToolInv, TypeOK, Evidence
<1>3. /\ EngineTypeOK' /\ JournalNames' /\ TxKept /\ AtPlace(s)'
      /\ pc \in {"check", "status", "height", "final", "resend", "recheck", "sign", "send", "confirm"}
      /\ pc' \in {"idle", "status", "height", "final", "resend", "recheck", "sign", "send", "confirm", "next"}
      /\ pc' = "next" => done
  BY <1>1, <1>2, EngineBasic
<1>4. Step' = s /\ mode' = mode /\ at' = at /\ Plan(mode)' = Plan(mode)
  BY <1>1 DEF Step, Plan
<1>5. TypeOK'
  BY <1>1, <1>3, <1>4 DEF ToolInv, TypeOK, diskVars, worldVars
<1>6. Positions'
  <2>1. pc' \in InStep => (at <= Len(Plan(mode)))' /\ AtPlace(Step)'
    BY <1>1, <1>3, <1>4 DEF AtPlace, Previous
  <2>2. \A i \in 1..(at - 1) : Settled(Plan(mode)[i])'
    <3>1. \A i \in 1..(at - 1) : Settled(Plan(mode)[i])
      BY <1>3 DEF ToolInv, Positions, InStep
    <3>. QED
      BY <1>3, <1>4, <3>1, KeptSettled
  <2>3. pc' = "next" => Settled(Step)'
    <3>1. pc' = "next" => Settled(s)
      BY <1>1, <1>2, <1>3, HoldsSettles
    <3>. QED
      BY <1>3, <1>4, <3>1, KeptSettled
  <2>. QED
    BY <1>3, <1>4, <2>1, <2>2, <2>3 DEF Positions, InStep
<1>7. Evidence'
  BY <1>1, <1>2, <1>3, <1>4, KeptSettled, KeptManifest DEF ToolInv, Evidence, diskVars, worldVars
<1>. QED
  BY <1>3, <1>5, <1>6, <1>7 DEF ToolInv

\* What the world does is a step of the cluster that leaves the tool's files.
LEMMA WorldCluster ==
  ASSUME \/ \E t \in DOMAIN tx : TxLands(t) \/ TxForks(t) \/ TxSettles(t)
         \/ BlocksPass \/ ToolStops
  PROVE  Cluster /\ UNCHANGED <<diskVars, mode, at>>
<1>1. ASSUME NEW t \in DOMAIN tx, TxLands(t) PROVE Cluster /\ UNCHANGED <<diskVars, mode, at>>
  <2>1. PICK possible \in BOOLEAN : possible <=> Possible(tx[t].step)
    OBVIOUS
  <2>2. Land(t, possible)
    BY <1>1, <2>1, Zenon DEF TxLands, Land
  <2>. QED
    BY <1>1, <2>2, Zenon DEF TxLands, Cluster
<1>2. ASSUME NEW t \in DOMAIN tx, TxForks(t) \/ TxSettles(t) PROVE Cluster /\ UNCHANGED <<diskVars, mode, at>>
  BY <1>2, Zenon DEF TxForks, TxSettles, Cluster
<1>3. CASE BlocksPass \/ ToolStops
  BY <1>3, Zenon DEF BlocksPass, ToolStops, Cluster
<1>. QED
  BY <1>1, <1>2, <1>3

LEMMA WorldTool ==
  ASSUME BootstrapAssumption, ResumableAssumption, ToolInv, World
  PROVE  ToolInv' /\ TxKept
<1>0. EngineTypeOK /\ JournalNames /\ low \in BOOLEAN /\ fresh \in [Assets -> BOOLEAN]
  BY DEF ToolInv, TypeOK
<1>1. CASE \/ \E t \in DOMAIN tx : TxLands(t) \/ TxForks(t) \/ TxSettles(t)
           \/ BlocksPass \/ ToolStops
  <2>1. Cluster /\ UNCHANGED <<diskVars, mode, at>>
    BY <1>1, WorldCluster
  <2>2. /\ EngineTypeOK' /\ JournalNames' /\ TxKept
        /\ \A s \in Steps : AtPlace(s) => AtPlace(s)'
        /\ pc' \in {pc, "idle"}
    BY <1>0, <2>1, ClusterBasic
  <2>3. /\ UNCHANGED <<signer, making, saved, manifest, mode, at>>
        /\ Step' = Step /\ Plan(mode)' = Plan(mode)
    BY <2>1 DEF diskVars, Step, Plan
  <2>4. fresh' \in [Assets -> BOOLEAN] /\ low' \in BOOLEAN /\ (~low' => OnChain(Fund)')
    <3>1. ASSUME NEW t \in DOMAIN tx, TxSettles(t)
          PROVE  fresh' \in [Assets -> BOOLEAN] /\ low' \in BOOLEAN /\ (~low' => OnChain(Fund)')
      <4>1. fresh' \in [Assets -> BOOLEAN] /\ low' \in BOOLEAN
        BY <1>0, <3>1 DEF TxSettles
      <4>2. CASE tx[t].status = "processed" /\ tx[t].step = Fund
        <5>0. tx[t] \in Txs
          BY <1>0, TxTyped
        <5>1. t \in DOMAIN tx' /\ tx'[t].status = "confirmed" /\ tx'[t].step = Fund
          BY <3>1, <4>2, <5>0 DEF TxSettles, Settle, Txs
        <5>. QED
          BY <4>1, <5>1 DEF OnChain, Confirmed
      <4>3. CASE ~ (tx[t].status = "processed" /\ tx[t].step = Fund)
        <5>1. low' = low
          BY <3>1, <4>3 DEF TxSettles
        <5>. QED
          BY <2>2, <4>1, <5>1, KeptSettled DEF ToolInv, Evidence
      <4>. QED
        BY <4>2, <4>3
    <3>2. CASE (\E t \in DOMAIN tx : TxLands(t) \/ TxForks(t)) \/ BlocksPass \/ ToolStops
      <4>1. UNCHANGED <<fresh, low>>
        BY <3>2 DEF TxLands, TxForks, BlocksPass, ToolStops, worldVars
      <4>. QED
        BY <1>0, <2>2, <4>1, KeptSettled DEF ToolInv, Evidence
    <3>. QED
      BY <1>1, <3>1, <3>2
  <2>5. TypeOK'
    BY <2>2, <2>3, <2>4 DEF ToolInv, TypeOK
  <2>6. Positions'
    <3>1. CASE pc' = "idle"
      BY <3>1 DEF Positions, InStep
    <3>2. CASE pc' = pc
      <4>1. pc \in InStep => AtPlace(Step)'
        <5>. SUFFICES ASSUME pc \in InStep PROVE AtPlace(Step)'
          OBVIOUS
        <5>1. at <= Len(Plan(mode)) /\ AtPlace(Step)
          BY DEF ToolInv, Positions
        <5>2. PICK s \in Steps : s = Step
          BY <5>1, StepInPlan DEF ToolInv
        <5>3. AtPlace(s)'
          BY <2>2, <5>1, <5>2
        <5>. QED
          BY <2>3, <5>2, <5>3 DEF AtPlace, Previous
      <4>2. ASSUME pc \in InStep \cup {"check"} PROVE \A i \in 1..(at - 1) : Settled(Plan(mode)[i])'
        <5>1. \A i \in 1..(at - 1) : Settled(Plan(mode)[i])
          BY <4>2 DEF ToolInv, Positions
        <5>. QED
          BY <2>2, <2>3, <5>1, KeptSettled
      <4>3. pc = "next" => Settled(Step)'
        BY <2>2, <2>3, KeptSettled DEF ToolInv, Positions
      <4>. QED
        BY <2>3, <3>2, <4>1, <4>2, <4>3 DEF ToolInv, Positions
    <3>. QED
      BY <2>2, <3>1, <3>2
  <2>7. Evidence'
    BY <2>2, <2>3, <2>4, KeptManifest DEF ToolInv, Evidence
  <2>. QED
    BY <2>2, <2>5, <2>6, <2>7 DEF ToolInv
<1>2. CASE AuthoritySpends \/ \E a \in Assets : ObservationExpires(a)
  <2>0. faults \in 0..MaxFaults /\ MaxFaults \in Nat
    BY <1>0 DEF EngineTypeOK, ResumableAssumption
  <2>1. /\ UNCHANGED <<journal, tx, balance, pc, signer, making, saved, manifest, mode, at>>
        /\ fresh' \in [Assets -> BOOLEAN] /\ low' \in BOOLEAN /\ (~low' => ~low)
        /\ faults' \in 0..MaxFaults
    <3>1. CASE AuthoritySpends
      BY <1>0, <2>0, <3>1 DEF AuthoritySpends, engineVars, diskVars
    <3>2. ASSUME NEW a \in Assets, ObservationExpires(a)
          PROVE  /\ UNCHANGED <<journal, tx, balance, pc, signer, making, saved, manifest, mode, at, low>>
                 /\ fresh' \in [Assets -> BOOLEAN] /\ faults' \in 0..MaxFaults
      BY <1>0, <2>0, <3>2 DEF ObservationExpires, Fault, diskVars
    <3>. QED
      BY <1>0, <1>2, <3>1, <3>2
  <2>2. EngineTypeOK' /\ JournalNames' /\ TxKept
    BY <1>0, <2>1 DEF EngineTypeOK, JournalNames, TxKept, Confirmed
  <2>3. TypeOK'
    BY <2>1, <2>2 DEF ToolInv, TypeOK
  <2>4. \A s : OnChain(s)' <=> OnChain(s)
    BY <2>1 DEF OnChain, Confirmed
  <2>5. Positions'
    <3>1. Step' = Step /\ Plan(mode)' = Plan(mode) /\ (AtPlace(Step)' <=> AtPlace(Step))
      BY <2>1 DEF Step, Plan, AtPlace, Previous
    <3>2. \A s : Settled(s)' <=> Settled(s)
      BY <2>4 DEF Settled
    <3>. QED
      BY <2>1, <3>1, <3>2 DEF ToolInv, Positions
  <2>6. Evidence'
    BY <2>1, <2>2, <2>4, KeptManifest DEF ToolInv, Evidence
  <2>. QED
    BY <2>2, <2>3, <2>5, <2>6 DEF ToolInv
<1>3. CASE StateLost
  <2>1. /\ UNCHANGED <<tx, balance, pc, signer, making, manifest, mode, at, fresh, low>>
        /\ pc = "idle" /\ saved' = NoState /\ journal' = [s \in Steps |-> <<>>]
        /\ faults' \in 0..MaxFaults
    BY <1>0, <1>3 DEF StateLost, Fault, EngineTypeOK, ResumableAssumption, worldVars
  <2>2. journal' \in [Steps -> Seq(DOMAIN tx')] /\ \A s \in Steps : DOMAIN journal'[s] = {}
    BY <2>1
  <2>3. EngineTypeOK' /\ JournalNames' /\ TxKept
    BY <1>0, <2>1, <2>2 DEF EngineTypeOK, JournalNames, TxKept, Confirmed
  <2>4. TypeOK'
    BY <2>1, <2>3 DEF ToolInv, TypeOK, NoState, NoBaseline
  <2>5. Positions' /\ Evidence'
    BY <2>1 DEF ToolInv, Positions, Evidence, OnChain, Published, Settled, InStep
  <2>. QED
    BY <2>3, <2>4, <2>5 DEF ToolInv
<1>. QED
  BY <1>1, <1>2, <1>3 DEF World

\* The commands up to their first step.
LEMMA PrepareTool ==
  ASSUME BootstrapAssumption, ResumableAssumption, ToolInv,
         \/ \E m \in Modes : Run(m)
         \/ \E n \in Needed : WriteSecret(n) \/ WritePublic(n)
         \/ SignerMissing \/ SignersLoaded \/ LoadState \/ TakeBaseline \/ BeginExpansion
  PROVE  ToolInv' /\ TxKept
<1>0. /\ EngineTypeOK /\ JournalNames /\ TypeOK /\ balance \in Int /\ saved \in [exists : BOOLEAN, initial : Int, expansion : Int]
      /\ manifest \in {"none", "legacy", "all"} /\ mode \in {"bootstrap", "expand"}
  BY DEF ToolInv, TypeOK, EngineTypeOK
<1>1. /\ UNCHANGED <<journal, tx, balance, faults, manifest, fresh, low>>
      /\ pc' \in {"idle", "signers", "state", "baseline", "check"}
      /\ pc \in {"idle", "signers", "state", "baseline"}
  BY DEF Run, WriteSecret, WritePublic, SignerMissing, SignersLoaded, LoadState, TakeBaseline, BeginExpansion,
         ToIdle, engineVars, diskVars, worldVars
<1>2. EngineTypeOK' /\ JournalNames' /\ TxKept
  BY <1>0, <1>1, QuietStep DEF Places
<1>3. (at' = 1 /\ mode' \in {"bootstrap", "expand"}) \/ UNCHANGED <<at, mode>>
  BY DEF Run, WriteSecret, WritePublic, SignerMissing, SignersLoaded, LoadState, TakeBaseline, BeginExpansion, Modes
<1>4. pc' # "idle" => at' = 1
  BY <1>1 DEF Run, WriteSecret, WritePublic, SignerMissing, SignersLoaded, LoadState, TakeBaseline, BeginExpansion,
         ToIdle, engineVars, ToolInv, Positions
<1>5. at' \in 1..(Len(Plan(mode)') + 1)
  <2>1. CASE at' = 1 /\ mode' \in {"bootstrap", "expand"}
    <3>1. \A m \in Modes : Len(Plan(m)) \in Nat
      BY PlanFact
    <3>2. PICK m \in Modes : m = mode'
      BY <2>1 DEF Modes
    <3>3. Plan(mode)' = Plan(m)
      BY <3>2 DEF Plan
    <3>. QED
      BY <2>1, <3>1, <3>2, <3>3
  <2>2. CASE UNCHANGED <<at, mode>>
    <3>1. Plan(mode)' = Plan(mode)
      BY <2>2 DEF Plan
    <3>. QED
      BY <1>0, <2>2, <3>1 DEF TypeOK
  <2>. QED
    BY <1>3, <2>1, <2>2
<1>6. saved' \in [exists : BOOLEAN, initial : Int, expansion : Int]
  <2>1. CASE LoadState
    <3>1. saved' = saved \/ saved' = [exists |-> TRUE, initial |-> 1, expansion |-> 1]
      BY <2>1 DEF LoadState, NoState, NoBaseline
    <3>2. [exists |-> TRUE, initial |-> 1, expansion |-> 1] \in [exists : BOOLEAN, initial : Int, expansion : Int]
      OBVIOUS
    <3>. QED
      BY <1>0, <3>1, <3>2, Zenon
  <2>2. CASE TakeBaseline
    BY <1>0, <2>2 DEF TakeBaseline
  <2>3. CASE BeginExpansion
    BY <1>0, <2>3 DEF BeginExpansion
  <2>4. CASE ~ (LoadState \/ TakeBaseline \/ BeginExpansion)
    <3>1. saved' = saved
      BY <2>4 DEF Run, WriteSecret, WritePublic, SignerMissing, SignersLoaded, diskVars
    <3>. QED
      BY <1>0, <3>1
  <2>. QED
    BY <2>1, <2>2, <2>3, <2>4
<1>7. /\ signer' \in [{"faucet", "attestor"} \cup Assets -> {"none", "secret", "both"}]
      /\ making' \subseteq {n \in DOMAIN signer' : signer'[n] = "secret"}
  <2>0. /\ signer \in [{"faucet", "attestor"} \cup Assets -> {"none", "secret", "both"}]
        /\ making \subseteq {n \in DOMAIN signer : signer[n] = "secret"}
    BY <1>0 DEF TypeOK
  <2>1. ASSUME NEW n \in Needed, WriteSecret(n) \/ WritePublic(n)
        PROVE  /\ signer' \in [{"faucet", "attestor"} \cup Assets -> {"none", "secret", "both"}]
               /\ making' \subseteq {k \in DOMAIN signer' : signer'[k] = "secret"}
    <3>1. n \in {"faucet", "attestor"} \cup Assets
      BY <2>1 DEF Needed, Assets
    <3>. QED
      BY <2>0, <2>1, <3>1 DEF WriteSecret, WritePublic
  <2>2. CASE \/ \E m \in Modes : Run(m)
             \/ SignerMissing \/ SignersLoaded \/ LoadState \/ TakeBaseline \/ BeginExpansion
    <3>1. signer' = signer /\ making' \in {making, {}}
      BY <2>2 DEF Run, SignerMissing, SignersLoaded, LoadState, TakeBaseline, BeginExpansion, diskVars
    <3>. QED
      BY <2>0, <3>1
  <2>. QED
    BY <2>1, <2>2
<1>8. TypeOK'
  BY <1>0, <1>1, <1>2, <1>3, <1>5, <1>6, <1>7 DEF TypeOK
<1>9. Positions'
  BY <1>1, <1>4 DEF Positions, InStep
<1>10. Evidence'
  <2>1. pc' # "idle" /\ mode' = "expand" => manifest # "none"
    BY <1>1 DEF Run, WriteSecret, WritePublic, SignerMissing, SignersLoaded, LoadState, TakeBaseline, BeginExpansion,
         ToIdle, engineVars, ToolInv, Evidence
  <2>2. \A s : OnChain(s)' <=> OnChain(s)
    BY <1>1 DEF OnChain, Confirmed
  <2>. QED
    BY <1>1, <1>2, <2>1, <2>2, KeptManifest DEF ToolInv, Evidence
<1>. QED
  BY <1>2, <1>8, <1>9, <1>10 DEF ToolInv

\* From a finished step to the next, and to the manifest.
LEMMA ProgressTool ==
  ASSUME BootstrapAssumption, ResumableAssumption, ToolInv, NextStep \/ WriteManifest
  PROVE  ToolInv' /\ TxKept
<1>0. EngineTypeOK /\ JournalNames /\ TypeOK /\ mode \in Modes
  BY DEF ToolInv, TypeOK, Modes
<1>1. /\ UNCHANGED <<journal, tx, balance, faults, signer, making, saved, mode, fresh, low>>
      /\ pc' \in {"idle", "check"} /\ pc \in {"next", "check"}
  BY DEF NextStep, WriteManifest, ToIdle, diskVars, worldVars
<1>2. EngineTypeOK' /\ JournalNames' /\ TxKept
  BY <1>0, <1>1, QuietStep DEF Places
<1>3. Plan(mode)' = Plan(mode) /\ Len(Plan(mode)) \in Nat /\ at \in 1..(Len(Plan(mode)) + 1)
      /\ DOMAIN Plan(mode) = 1..Len(Plan(mode))
  <2>1. Plan(mode) \in Seq(Steps)
    BY <1>0, PlanFact
  <2>2. Plan(mode)' = Plan(mode)
    BY <1>1 DEF Plan
  <2>3. at \in 1..(Len(Plan(mode)) + 1)
    BY <1>0 DEF TypeOK
  <2>. QED
    BY <2>1, <2>2, <2>3
<1>4. \A s : (OnChain(s)' <=> OnChain(s)) /\ (Settled(s)' <=> Settled(s))
  BY <1>1 DEF OnChain, Confirmed, Settled
<1>5. CASE NextStep
  <2>1. pc = "next" /\ pc' = "check" /\ at' = at + 1 /\ UNCHANGED manifest
    BY <1>5 DEF NextStep, diskVars
  <2>2. at <= Len(Plan(mode)) /\ Settled(Plan(mode)[at]) /\ \A i \in 1..(at - 1) : Settled(Plan(mode)[i])
    BY <2>1 DEF ToolInv, Positions, InStep, Step
  <2>3. \A i \in 1..(at' - 1) : Settled(Plan(mode)[i])
    BY <1>3, <2>1, <2>2
  <2>4. TypeOK'
    BY <1>0, <1>1, <1>2, <1>3, <2>1, <2>2 DEF TypeOK
  <2>5. Positions'
    BY <1>3, <1>4, <2>1, <2>3 DEF Positions, InStep
  <2>6. Evidence'
    BY <1>1, <1>4, <2>1 DEF ToolInv, Evidence, Published
  <2>. QED
    BY <1>2, <2>4, <2>5, <2>6 DEF ToolInv
<1>6. CASE WriteManifest
  <2>1. pc = "check" /\ at > Len(Plan(mode)) /\ pc' = "idle" /\ UNCHANGED at
    BY <1>6 DEF WriteManifest, ToIdle
  <2>2. \A i \in DOMAIN Plan(mode) : Settled(Plan(mode)[i])
    <3>1. \A i \in 1..(at - 1) : Settled(Plan(mode)[i])
      BY <2>1 DEF ToolInv, Positions
    <3>2. \A i \in 1..Len(Plan(mode)) : i \in 1..(at - 1)
      BY <1>3, <2>1
    <3>. QED
      BY <1>3, <3>1, <3>2
  <2>3. \A s \in PlanSteps(mode) : Settled(s)
    BY <2>2 DEF PlanSteps
  <2>7. /\ manifest' = manifest \/ (mode = "bootstrap" /\ manifest' = "legacy") \/ (mode = "expand" /\ manifest' = "all")
        /\ mode = "expand" => manifest # "none"
    BY <1>0, <1>6, <2>1 DEF WriteManifest, ToolInv, Evidence, Modes
  <2>8. Published
    BY DEF ToolInv, Evidence
  <2>9. Published'
    <3>1. PlanSteps("bootstrap")' = PlanSteps("bootstrap") /\ PlanSteps("expand")' = PlanSteps("expand")
      BY DEF PlanSteps, Plan
    <3>. QED
      BY <1>4, <2>3, <2>7, <2>8, <3>1 DEF Published
  <2>10. TypeOK'
    BY <1>0, <1>1, <1>2, <1>3, <2>1, <2>7 DEF TypeOK
  <2>11. Positions' /\ Evidence'
    BY <1>1, <1>4, <2>1, <2>9 DEF Positions, InStep, ToolInv, Evidence
  <2>. QED
    BY <1>2, <2>10, <2>11 DEF ToolInv
<1>. QED
  BY <1>5, <1>6

LEMMA ToolStep ==
  ASSUME BootstrapAssumption, ResumableAssumption, ToolInv, [Next]_vars
  PROVE  ToolInv'
<1>1. CASE Next
  BY <1>1, RunStepTool, WorldTool, PrepareTool, ProgressTool DEF Next, Tool, Modes
<1>2. CASE UNCHANGED vars
  <2>1. /\ UNCHANGED <<journal, tx, balance, pc, faults, signer, making, saved, manifest, mode, at, fresh, low>>
    BY <1>2 DEF vars, engineVars
  <2>2. /\ \A s : (OnChain(s)' <=> OnChain(s)) /\ (Settled(s)' <=> Settled(s))
        /\ Step' = Step /\ Plan(mode)' = Plan(mode) /\ (AtPlace(Step)' <=> AtPlace(Step))
    BY <2>1 DEF OnChain, Settled, AtPlace, Previous, Step, Plan, Confirmed
  <2>3. TypeOK' /\ JournalNames'
    BY <2>1, <2>2 DEF ToolInv, TypeOK, EngineTypeOK, JournalNames
  <2>4. Positions' /\ Evidence'
    BY <2>1, <2>2 DEF ToolInv, Positions, Evidence, Published
  <2>. QED
    BY <2>3, <2>4 DEF ToolInv
<1>. QED
  BY <1>1, <1>2

-----------------------------------------------------------------------------
(* What the runs add up to, where state.json is kept and a failure that a  *)
(* block reported stays one.                                               *)

\* What state.json says of the balances: the first is taken before anything is
\* sent, the second before anything of the expansion is.
Accounted ==
  /\ saved.initial \in {0, NoBaseline}
  /\ ~saved.exists => saved = NoState
  /\ saved.initial = NoBaseline => tx = <<>> /\ balance = 0
  /\ saved.expansion # NoBaseline => -saved.expansion <= BootstrapCeiling
  /\ saved.expansion = NoBaseline => \A t \in DOMAIN tx : tx[t].step \notin PlanSteps("expand")

\* A run at its steps counts from the balance of its own command.
Counting ==
  /\ pc \in InStep \cup {"check"} => saved.initial = 0 /\ (mode = "bootstrap" <=> saved.expansion = NoBaseline)
  /\ pc = "baseline" => mode = "bootstrap" /\ saved.exists /\ saved.expansion = NoBaseline
  /\ pc # "idle" /\ mode = "expand" => saved.initial = 0

\* Nothing of a step is signed before what precedes it in its plan is settled.
InTurn ==
  \A m \in Modes : \A j \in DOMAIN Plan(m) : (\E t \in DOMAIN tx : tx[t].step = Plan(m)[j]) =>
    \A i \in 1..(j - 1) : Settled(Plan(m)[i])

\* An attempt of which the admin may still have to pay, or get back, the cost.
Pending(t) == tx[t].status \in {"signed", "sent", "processed"} /\ tx[t].step \notin Repeatable

Limit == IF saved.expansion = NoBaseline THEN BootstrapCeiling ELSE BootstrapCeiling + ExpansionCeiling

\* There is one at most, and the limit has room for it.
Budget ==
  /\ balance <= 0 /\ -balance <= Limit
  /\ \A t \in DOMAIN tx : Pending(t) =>
       IF tx[t].status = "processed" THEN balance + Cost[tx[t].step] <= 0
       ELSE Cost[tx[t].step] - balance <= Limit
  /\ \A t, u \in DOMAIN tx : Pending(t) /\ Pending(u) => t = u

ExactInv == ToolInv /\ Journaled /\ Superseded /\ AtSign(Step)

SpendInv == ExactInv /\ Accounted /\ Counting /\ InTurn /\ Budget

\* Steps of the tool outside the engine, and of the world outside the cluster.
Elsewhere ==
  \/ \E m \in Modes : Run(m)
  \/ \E n \in Needed : WriteSecret(n) \/ WritePublic(n)
  \/ SignerMissing \/ SignersLoaded \/ LoadState \/ TakeBaseline \/ BeginExpansion
  \/ NextStep \/ WriteManifest
  \/ AuthoritySpends \/ \E a \in Assets : ObservationExpires(a)

LEMMA NextCases ==
  ASSUME StateCanBeLost = FALSE, Next
  PROVE  \/ RunStep
         \/ \/ \E t \in DOMAIN tx : TxLands(t) \/ TxForks(t) \/ TxSettles(t)
            \/ BlocksPass \/ ToolStops
         \/ Elsewhere
BY DEF Next, Tool, World, Elsewhere, StateLost, Modes

LEMMA ElsewhereQuiet ==
  ASSUME Elsewhere
  PROVE  /\ UNCHANGED <<journal, tx, balance>>
         /\ \/ UNCHANGED <<pc, mode, at>>
            \/ pc' \in {"idle", "signers", "state", "baseline", "check"}
BY DEF Elsewhere, Run, WriteSecret, WritePublic, SignerMissing, SignersLoaded, LoadState, TakeBaseline, BeginExpansion,
       NextStep, WriteManifest, AuthoritySpends, ObservationExpires, ToIdle, engineVars

LEMMA ExactStep ==
  ASSUME BootstrapAssumption, ResumableAssumption, ForkedErrors = FALSE, StateCanBeLost = FALSE,
         ExactInv, [Next]_vars
  PROVE  ExactInv'
<1>1. ToolInv'
  BY ToolStep DEF ExactInv
<1>2. CASE RunStep
  <2>1. PICK s \in Steps, done \in BOOLEAN, simulates \in BOOLEAN :
            /\ s = Step /\ Engine(s, done, simulates, Initial, Ceiling)
            /\ (done => Holds(s)) /\ (simulates => Possible(s))
            /\ at <= Len(Plan(mode)) /\ UNCHANGED <<diskVars, mode, at, worldVars>>
    BY <1>2, RunStepEngine DEF ExactInv, ToolInv
  <2>2. EngineTypeOK /\ JournalNames /\ AtPlace(s) /\ Exact(s)
    <3>1. pc \in InStep \/ pc = "check"
      BY <2>1 DEF Engine, CheckStep, ReadStatus, ReadHeight, ReadFinalStatus, Resend, Recheck, Sign, Send,
                  Confirm, InStep
    <3>2. AtPlace(s)
      BY <2>1, <3>1 DEF ExactInv, ToolInv, Positions, AtPlace
    <3>3. AtSign(s)
      BY <2>1 DEF ExactInv
    <3>. QED
      BY <3>2, <3>3 DEF ExactInv, ToolInv, TypeOK, Exact
  <2>3. Exact(s)'
    BY <2>1, <2>2, EngineExact
  <2>4. Step' = s
    BY <2>1 DEF Step, Plan
  <2>5. AtSign(Step)'
    BY <2>3, <2>4 DEF Exact, AtSign, Previous
  <2>. QED
    BY <1>1, <2>3, <2>5 DEF ExactInv, Exact
<1>3. CASE \/ \E t \in DOMAIN tx : TxLands(t) \/ TxForks(t) \/ TxSettles(t)
           \/ BlocksPass \/ ToolStops
  <2>1. Cluster /\ UNCHANGED <<mode, at>>
    BY <1>3, WorldCluster
  <2>2. EngineTypeOK /\ JournalNames /\ Journaled /\ Superseded
    BY DEF ExactInv, ToolInv, TypeOK
  <2>3. /\ Journaled' /\ Superseded'
        /\ \A s \in Steps : AtSign(s) => AtSign(s)'
    BY <2>1, <2>2, ClusterExact
  <2>4. AtSign(Step)'
    <3>1. CASE at <= Len(Plan(mode))
      <4>1. PICK s \in Steps : s = Step
        BY <3>1, StepInPlan DEF ExactInv, ToolInv
      <4>2. Step' = s
        BY <2>1, <4>1 DEF Step, Plan
      <4>3. AtSign(s)'
        BY <2>3, <4>1 DEF ExactInv
      <4>. QED
        BY <4>2, <4>3 DEF AtSign, Previous
    <3>2. CASE ~ (at <= Len(Plan(mode)))
      <4>1. pc \notin InStep
        BY <3>2 DEF ExactInv, ToolInv, Positions
      <4>2. pc' \in {pc, "idle"}
        BY <2>1, <2>2, ClusterBasic
      <4>. QED
        BY <4>1, <4>2 DEF AtSign, InStep
    <3>. QED
      BY <3>1, <3>2
  <2>. QED
    BY <1>1, <2>3, <2>4 DEF ExactInv
<1>4. CASE Elsewhere \/ UNCHANGED vars
  <2>1. /\ UNCHANGED <<journal, tx>>
        /\ \/ UNCHANGED <<pc, mode, at>>
           \/ pc' \in {"idle", "signers", "state", "baseline", "check"}
    BY <1>4, ElsewhereQuiet DEF vars, engineVars
  <2>2. Journaled' /\ Superseded'
    BY <2>1, ExactSame DEF ExactInv
  <2>3. AtSign(Step)'
    <3>1. CASE UNCHANGED <<pc, mode, at>>
      <4>1. Step' = Step
        BY <3>1 DEF Step, Plan
      <4>. QED
        BY <2>1, <3>1, <4>1 DEF ExactInv, AtSign, Previous, HasErr, Confirmed
    <3>2. CASE pc' \in {"idle", "signers", "state", "baseline", "check"}
      BY <3>2 DEF AtSign
    <3>. QED
      BY <2>1, <3>1, <3>2
  <2>. QED
    BY <1>1, <2>2, <2>3 DEF ExactInv
<1>. QED
  BY <1>2, <1>3, <1>4, NextCases

LEMMA Costs ==
  ASSUME BootstrapAssumption, ResumableAssumption
  PROVE  /\ \A s \in Steps : Cost[s] \in Nat /\ Fee[s] \in Nat /\ Fee[s] <= Cost[s]
         /\ \A s \in Repeatable : s \in Steps /\ Cost[s] = 0
         /\ Limit \in Int /\ BootstrapCeiling \in Nat /\ ExpansionCeiling \in Nat
BY DEF BootstrapAssumption, ResumableAssumption, Limit

LEMMA TxNumbers == ASSUME EngineTypeOK PROVE \A n \in DOMAIN tx : n \in Nat
BY DEF EngineTypeOK

\* A step that is confirmed and not repeatable has nothing pending.
LEMMA NothingPending ==
  ASSUME EngineTypeOK, Superseded, NEW s, s \notin Repeatable, OnChain(s), NEW t \in DOMAIN tx, tx[t].step = s
  PROVE  ~Pending(t)
<1>1. PICK u \in DOMAIN tx : tx[u].step = s /\ Confirmed(tx[u])
  BY DEF OnChain
<1>2. t \in Nat /\ u \in Nat
  BY DEF EngineTypeOK
<1>3. CASE t < u
  BY <1>1, <1>3 DEF Superseded, HasErr, Pending
<1>4. CASE u < t
  BY <1>1, <1>4 DEF Superseded, HasErr, Confirmed
<1>5. CASE t = u
  BY <1>1, <1>5 DEF Confirmed, Pending
<1>. QED
  BY <1>2, <1>3, <1>4, <1>5

\* Where a costly attempt is signed nothing is pending.
LEMMA SignedAlone ==
  ASSUME BootstrapAssumption, ResumableAssumption, SpendInv, pc = "sign", Step \notin Repeatable,
         NEW t \in DOMAIN tx
  PROVE  ~Pending(t)
<1>0. /\ EngineTypeOK /\ TypeOK /\ JournalNames /\ Journaled /\ Superseded /\ at <= Len(Plan(mode))
      /\ AtSign(Step) /\ InTurn /\ Counting /\ Accounted /\ Published
      /\ \A i \in 1..(at - 1) : Settled(Plan(mode)[i])
      /\ mode = "expand" => manifest # "none"
  BY DEF SpendInv, ExactInv, ToolInv, TypeOK, Positions, Evidence, InStep
<1>1. PICK s \in Steps : s = Step
  BY <1>0, StepInPlan
<1>2. s = Plan(mode)[at] /\ at \in DOMAIN Plan(mode) /\ mode \in Modes /\ at \in Nat \ {0}
  BY <1>0, <1>1, StepInPlan DEF Step
<1>3. tx[t].step \in Steps /\ t \in Nat
  BY <1>0, TxTyped DEF Txs, EngineTypeOK
<1>4. ASSUME OnChain(s) PROVE FALSE
  <2>1. PICK u \in DOMAIN tx : tx[u].step = s /\ Confirmed(tx[u])
    BY <1>4 DEF OnChain
  <2>2. journal[s] # <<>> /\ u <= Last(journal[s])
    BY <1>0, <2>1 DEF Journaled
  <2>3. /\ Last(journal[s]) \in DOMAIN tx /\ Previous(s) = tx[Last(journal[s])]
        /\ tx[Last(journal[s])].step = s
    BY <1>0, <2>2, LastAttempt
  <2>4. HasErr(Previous(s))
    BY <1>0, <1>1, <2>2 DEF AtSign
  <2>5. u # Last(journal[s]) /\ u \in Nat /\ Last(journal[s]) \in Nat
    <3>1. \A n \in DOMAIN tx : n \in Nat
      BY <1>0, TxNumbers
    <3>2. u # Last(journal[s])
      BY <2>1, <2>3, <2>4 DEF HasErr, Confirmed
    <3>. QED
      BY <2>1, <2>3, <3>1, <3>2
  <2>6. u < Last(journal[s])
    BY <2>2, <2>5
  <2>. QED
    BY <1>0, <1>1, <2>1, <2>3, <2>6 DEF Superseded, HasErr, Confirmed
<1>5. CASE tx[t].step = s
  <2>1. journal[s] # <<>> /\ t <= Last(journal[s])
    BY <1>0, <1>5 DEF Journaled
  <2>2. /\ Last(journal[s]) \in DOMAIN tx /\ Previous(s) = tx[Last(journal[s])]
        /\ tx[Last(journal[s])].step = s
    BY <1>0, <2>1, LastAttempt
  <2>3. HasErr(Previous(s))
    BY <1>0, <1>1, <2>1 DEF AtSign
  <2>4. CASE t = Last(journal[s])
    BY <2>2, <2>3, <2>4 DEF HasErr, Pending
  <2>5. CASE t # Last(journal[s])
    <3>1. t < Last(journal[s])
      BY <1>0, <1>3, <2>1, <2>2, <2>5 DEF EngineTypeOK
    <3>. QED
      BY <1>0, <1>1, <1>5, <2>2, <3>1 DEF Superseded, HasErr, Pending
  <2>. QED
    BY <2>4, <2>5
<1>6. CASE tx[t].step \in PlanSteps(mode) /\ tx[t].step # s
  <2>1. PICK j \in DOMAIN Plan(mode) : Plan(mode)[j] = tx[t].step
    BY <1>6 DEF PlanSteps
  <2>2. j \in Nat \ {0} /\ j # at
    <3>1. Plan(mode) \in Seq(Steps)
      BY <1>2, PlanFact
    <3>. QED
      BY <1>2, <1>6, <2>1, <3>1
  <2>3. CASE j < at
    <3>1. Settled(tx[t].step)
      BY <1>0, <1>2, <2>1, <2>2, <2>3
    <3>. QED
      BY <1>0, <3>1, NothingPending DEF Settled, Pending
  <2>4. CASE at < j
    <3>1. at \in 1..(j - 1)
      BY <1>2, <2>2, <2>4
    <3>2. Settled(Plan(mode)[at])
      BY <1>0, <1>2, <2>1, <3>1 DEF InTurn
    <3>. QED
      BY <1>1, <1>2, <1>4, <3>2 DEF Settled
  <2>. QED
    BY <1>2, <2>2, <2>3, <2>4
<1>7. CASE tx[t].step \notin PlanSteps(mode)
  <2>1. Steps = PlanSteps("bootstrap") \cup PlanSteps("expand")
    BY PlanFact
  <2>2. CASE mode = "bootstrap"
    <3>1. saved.expansion = NoBaseline
      BY <1>0, <2>2 DEF Counting, InStep
    <3>. QED
      BY <1>0, <1>3, <1>7, <2>1, <2>2, <3>1 DEF Accounted
  <2>3. CASE mode = "expand"
    <3>1. Settled(tx[t].step)
      BY <1>0, <1>3, <1>7, <2>1, <2>3 DEF Published
    <3>. QED
      BY <1>0, <3>1, NothingPending DEF Settled, Pending
  <2>. QED
    BY <1>2, <2>2, <2>3 DEF Modes
<1>. QED
  BY <1>5, <1>6, <1>7

\* One transaction moves on the chain, and with it the balance.
LEMMA BudgetMoves ==
  ASSUME BootstrapAssumption, ResumableAssumption, EngineTypeOK, Budget, saved' = saved,
         NEW t \in DOMAIN tx, DOMAIN tx' = DOMAIN tx,
         \A u \in DOMAIN tx : u # t => tx'[u] = tx[u], tx'[t].step = tx[t].step,
         \/ /\ tx[t].status = "sent" /\ tx'[t].status = "processed"
            /\ balance' = balance - Cost[tx[t].step]
         \/ /\ tx[t].status = "sent" /\ tx'[t].status = "failing"
            /\ balance' = balance - Fee[tx[t].step]
         \/ /\ tx[t].status = "processed" /\ tx'[t].status = "sent"
            /\ balance' = balance + Cost[tx[t].step]
         \/ /\ tx[t].status \in {"processed", "failing"} /\ tx'[t].status \in {"confirmed", "failed"}
            /\ balance' = balance
  PROVE  Budget'
<1>. DEFINE c == Cost[tx[t].step]  f == Fee[tx[t].step]
<1>0. tx[t].step \in Steps /\ balance \in Int
  BY TxTyped DEF Txs, EngineTypeOK
<1>1. /\ c \in Nat /\ f \in Nat /\ f <= c /\ (tx[t].step \in Repeatable => c = 0)
      /\ Limit \in Int
  BY <1>0, Costs
<1>2. Limit' = Limit
  BY DEF Limit
<1>3. ASSUME NEW u \in DOMAIN tx, u # t
      PROVE  /\ (Pending(u)' <=> Pending(u)) /\ tx'[u] = tx[u] /\ (Pending(t) => ~Pending(u))
  BY <1>3 DEF Pending, Budget
<1>4. /\ Pending(t)' => Pending(t)
      /\ Pending(t) <=> tx[t].status \in {"sent", "processed"} /\ tx[t].step \notin Repeatable
  BY DEF Pending
<1>5. \A u \in DOMAIN tx, v \in DOMAIN tx : Pending(u)' /\ Pending(v)' => u = v
  BY <1>3, <1>4 DEF Budget
<1>6. CASE ~Pending(t)
  <2>1. ~Pending(t)' /\ balance' = balance
    <3>1. CASE tx[t].step \in Repeatable
      <4>1. c = 0 /\ f = 0 /\ balance' \in {balance, balance - c, balance - f, balance + c}
        BY <1>1, <3>1
      <4>. QED
        BY <1>0, <1>4, <1>6, <4>1
    <3>2. CASE tx[t].step \notin Repeatable
      <4>1. tx[t].status = "failing"
        BY <1>4, <1>6, <3>2
      <4>. QED
        BY <1>4, <1>6, <4>1
    <3>. QED
      BY <3>1, <3>2
  <2>2. \A u \in DOMAIN tx : Pending(u)' => Pending(u) /\ tx'[u] = tx[u]
    BY <1>3, <2>1
  <2>. QED
    BY <1>2, <1>5, <2>1, <2>2 DEF Budget
<1>7. CASE Pending(t)
  <2>1. \A u \in DOMAIN tx : Pending(u)' => u = t
    BY <1>3, <1>7
  <2>2. balance <= 0 /\ -balance <= Limit
    BY DEF Budget
  <2>3. IF tx[t].status = "processed" THEN balance + c <= 0 ELSE c - balance <= Limit
    BY <1>7 DEF Budget
  <2>4. /\ balance' <= 0 /\ -balance' <= Limit
        /\ tx'[t].status = "processed" => balance' + c <= 0
        /\ tx'[t].status = "sent" => c - balance' <= Limit
    BY <1>0, <1>1, <2>2, <2>3
  <2>5. Pending(t)' => tx'[t].status \in {"processed", "sent"}
    BY DEF Pending
  <2>. QED
    BY <1>2, <1>5, <2>1, <2>4, <2>5 DEF Budget
<1>. QED
  BY <1>6, <1>7

\* Steps that leave the positions in the plans and the files alone.
LEMMA SameTxs ==
  ASSUME TxKept, DOMAIN tx' = DOMAIN tx, \A t \in DOMAIN tx : tx'[t].step = tx[t].step, InTurn
  PROVE  InTurn'
<1>1. \A m \in Modes : Plan(m)' = Plan(m)
  BY DEF Plan
<1>. QED
  BY <1>1, KeptSettled DEF InTurn

\* Nothing is sent, and nothing charged: a transaction is given away or expires.
LEMMA BudgetSame ==
  ASSUME Budget, saved' = saved, balance' = balance, DOMAIN tx' = DOMAIN tx,
         \A t \in DOMAIN tx : /\ tx'[t].step = tx[t].step
                              /\ \/ tx'[t].status = tx[t].status
                                 \/ tx[t].status = "signed" /\ tx'[t].status = "sent"
  PROVE  Budget'
<1>1. Limit' = Limit
  BY DEF Limit
<1>2. \A t \in DOMAIN tx : /\ Pending(t)' => Pending(t)
                           /\ tx'[t].status = "processed" <=> tx[t].status = "processed"
  BY DEF Pending
<1>. QED
  BY <1>1, <1>2 DEF Budget

LEMMA RunStepSpend ==
  ASSUME BootstrapAssumption, ResumableAssumption, ForkedErrors = FALSE, StateCanBeLost = FALSE,
         SpendInv, RunStep
  PROVE  Accounted' /\ Counting' /\ InTurn' /\ Budget'
<1>0. PICK s \in Steps, done \in BOOLEAN, simulates \in BOOLEAN :
            /\ s = Step /\ Engine(s, done, simulates, Initial, Ceiling)
            /\ (done => Holds(s)) /\ (simulates => Possible(s))
            /\ at <= Len(Plan(mode)) /\ UNCHANGED <<diskVars, mode, at, worldVars>>
  BY RunStepEngine DEF SpendInv, ExactInv, ToolInv
<1>1. EngineTypeOK /\ JournalNames /\ AtPlace(s) /\ TypeOK
  <2>1. pc \in InStep \/ pc = "check"
    BY <1>0 DEF Engine, CheckStep, ReadStatus, ReadHeight, ReadFinalStatus, Resend, Recheck, Sign, Send,
                Confirm, InStep
  <2>2. AtPlace(s)
    BY <1>0, <2>1 DEF SpendInv, ExactInv, ToolInv, Positions, AtPlace
  <2>. QED
    BY <2>2 DEF SpendInv, ExactInv, ToolInv, TypeOK
<1>2. /\ TxKept /\ balance' = balance /\ saved' = saved /\ mode' = mode /\ at' = at
      /\ pc \in InStep \cup {"check"} /\ pc' \in InStep \cup {"idle"}
  BY <1>0, <1>1, EngineBasic DEF diskVars, InStep
<1>3. /\ saved.initial = 0 /\ (mode = "bootstrap" <=> saved.expansion = NoBaseline)
      /\ saved.initial \in {0, NoBaseline} /\ (~saved.exists => saved = NoState) /\ InTurn /\ Budget
      /\ saved.expansion # NoBaseline => -saved.expansion <= BootstrapCeiling
      /\ saved.expansion = NoBaseline => \A t \in DOMAIN tx : tx[t].step \notin PlanSteps("expand")
  BY <1>2 DEF SpendInv, Accounted, Counting
<1>4. Counting'
  BY <1>2, <1>3 DEF Counting, InStep
<1>5. saved.initial # NoBaseline
  BY <1>3 DEF NoBaseline
<1>6. ASSUME DOMAIN tx' = DOMAIN tx,
             \A t \in DOMAIN tx : /\ tx'[t].step = tx[t].step
                                  /\ \/ tx'[t].status = tx[t].status
                                     \/ tx[t].status = "signed" /\ tx'[t].status = "sent"
      PROVE  Accounted' /\ InTurn' /\ Budget'
  <2>1. PlanSteps("expand")' = PlanSteps("expand") /\ NoState' = NoState
    BY DEF PlanSteps, Plan, NoState
  <2>2. Accounted'
    BY <1>2, <1>3, <1>5, <1>6, <2>1 DEF Accounted
  <2>. QED
    BY <1>2, <1>3, <1>6, <2>2, SameTxs, BudgetSame
<1>7. CASE Resend(s) \/ Send(s)
  BY <1>1, <1>4, <1>6, <1>7, GivenAway
<1>8. CASE UNCHANGED tx
  BY <1>4, <1>6, <1>8
<1>9. CASE Sign(s, simulates, Initial, Ceiling) /\ ~UNCHANGED tx
  <2>0. PICK m : m = Len(tx) + 1
    OBVIOUS
  <2>1. /\ pc = "sign" /\ pc' = "send" /\ WithinBudget(s, Initial, Ceiling)
        /\ tx' = Append(tx, [step |-> s, status |-> "signed", life |-> Life])
        /\ journal' = [journal EXCEPT ![s] = Append(@, Len(tx) + 1)]
        /\ UNCHANGED <<balance, faults>>
    BY <1>9 DEF Sign
  <2>2. /\ DOMAIN tx' = DOMAIN tx \cup {m}
        /\ \A t \in DOMAIN tx : tx'[t] = tx[t]
        /\ tx'[m].step = s /\ tx'[m].status = "signed"
    BY <1>1, <2>0, <2>1, NewAttempt DEF Places
  <2>3. mode \in Modes /\ at \in DOMAIN Plan(mode) /\ s = Plan(mode)[at] /\ s \in PlanSteps(mode)
        /\ \A k \in Modes : Plan(k)' = Plan(k)
    BY <1>0, <1>1, StepInPlan DEF Step, Plan
  <2>4. Accounted'
    <3>1. saved.expansion = NoBaseline => s \notin PlanSteps("expand")
      BY <1>3, <2>3, PlanFact DEF Modes
    <3>2. saved.expansion = NoBaseline => \A t \in DOMAIN tx' : tx'[t].step \notin PlanSteps("expand")
      BY <1>3, <2>2, <3>1
    <3>3. PlanSteps("expand")' = PlanSteps("expand") /\ NoState' = NoState
      BY DEF PlanSteps, Plan, NoState
    <3>. QED
      BY <1>2, <1>3, <1>5, <3>2, <3>3 DEF Accounted
  <2>5. InTurn'
    <3>. SUFFICES ASSUME NEW k \in Modes, NEW j \in DOMAIN Plan(k), NEW t \in DOMAIN tx',
                         tx'[t].step = Plan(k)[j], NEW i \in 1..(j - 1)
                  PROVE  Settled(Plan(k)[i])'
      BY <2>3, Zenon DEF InTurn
    <3>1. Settled(Plan(k)[i])
      <4>1. CASE t \in DOMAIN tx
        BY <1>3, <2>2, <4>1 DEF InTurn
      <4>2. CASE t = m
        <5>1. Plan(k)[j] = s
          BY <2>2, <4>2
        <5>2. s \in PlanSteps(k)
          BY <5>1 DEF PlanSteps
        <5>3. k = mode
          BY <2>3, <5>2, PlanFact DEF Modes
        <5>4. j = at
          BY <2>3, <5>1, <5>3, PlanFact
        <5>. QED
          BY <2>1, <5>3, <5>4 DEF SpendInv, ExactInv, ToolInv, Positions, InStep
      <4>. QED
        BY <2>2, <4>1, <4>2
    <3>. QED
      BY <1>2, <2>3, <3>1, KeptSettled
  <2>6. Budget'
    <3>1. balance \in Int /\ Limit' = Limit /\ Limit \in Int /\ Cost[s] \in Nat
      BY <1>1, <1>2, Costs DEF EngineTypeOK, Limit
    <3>2. \A t \in DOMAIN tx : (Pending(t)' <=> Pending(t)) /\ tx'[t] = tx[t]
      BY <2>2 DEF Pending
    <3>3. CASE s \in Repeatable
      <4>1. ~Pending(m)'
        BY <2>2, <3>3 DEF Pending
      <4>. QED
        BY <1>2, <1>3, <2>2, <3>1, <3>2, <4>1 DEF Budget
    <3>4. CASE s \notin Repeatable
      <4>1. \A t \in DOMAIN tx : ~Pending(t)'
        BY <1>0, <2>1, <3>2, <3>4, SignedAlone
      <4>2. Cost[s] - balance <= Limit
        <5>1. Initial - (balance - Cost[s]) <= Ceiling
          BY <2>1 DEF WithinBudget
        <5>2. CASE mode = "bootstrap"
          <6>1. Initial = 0 /\ Ceiling = BootstrapCeiling /\ Limit = BootstrapCeiling
            BY <1>3, <5>2 DEF Initial, Ceiling, Limit
          <6>. QED
            BY <3>1, <5>1, <6>1, Costs
        <5>3. CASE mode = "expand"
          <6>1. /\ Initial = saved.expansion /\ Ceiling = ExpansionCeiling
                /\ Limit = BootstrapCeiling + ExpansionCeiling
            BY <1>3, <5>3 DEF Initial, Ceiling, Limit
          <6>2. -saved.expansion <= BootstrapCeiling /\ saved.expansion \in Int
            BY <1>1, <1>3, <5>3 DEF TypeOK
          <6>. QED
            BY <3>1, <5>1, <6>1, <6>2, Costs
        <5>. QED
          BY <2>3, <5>2, <5>3 DEF Modes
      <4>3. \A t \in DOMAIN tx' : Pending(t)' => t = m
        BY <2>2, <4>1
      <4>. QED
        BY <1>2, <1>3, <2>2, <3>1, <4>2, <4>3 DEF Budget
    <3>. QED
      BY <3>3, <3>4
  <2>. QED
    BY <1>4, <2>4, <2>5, <2>6
<1>10. Resend(s) \/ Send(s) \/ UNCHANGED tx \/ Sign(s, simulates, Initial, Ceiling)
  BY <1>0 DEF Engine, CheckStep, ReadStatus, ReadHeight, ReadFinalStatus, Recheck, Confirm
<1>. QED
  BY <1>7, <1>8, <1>9, <1>10

LEMMA WorldSpend ==
  ASSUME BootstrapAssumption, ResumableAssumption, ForkedErrors = FALSE, StateCanBeLost = FALSE,
         SpendInv,
         \/ \E t \in DOMAIN tx : TxLands(t) \/ TxForks(t) \/ TxSettles(t)
         \/ BlocksPass \/ ToolStops
  PROVE  Accounted' /\ Counting' /\ InTurn' /\ Budget'
<1>0. EngineTypeOK /\ JournalNames /\ Accounted /\ Counting /\ InTurn /\ Budget
  BY DEF SpendInv, ExactInv, ToolInv, TypeOK
<1>1. Cluster /\ UNCHANGED <<saved, mode, at>>
  BY WorldCluster DEF diskVars
<1>2. /\ TxKept /\ DOMAIN tx' = DOMAIN tx /\ pc' \in {pc, "idle"}
      /\ \A t \in DOMAIN tx : tx'[t].step = tx[t].step
  BY <1>0, <1>1, ClusterBasic
<1>3. Counting'
  BY <1>0, <1>1, <1>2 DEF Counting, InStep
<1>4. InTurn'
  BY <1>0, <1>2, SameTxs
<1>5. PlanSteps("expand")' = PlanSteps("expand") /\ NoState' = NoState
  BY DEF PlanSteps, Plan, NoState
<1>6. tx = <<>> \/ saved.initial # NoBaseline
  BY <1>0 DEF Accounted
<1>7. ASSUME NEW t \in DOMAIN tx, TxLands(t) \/ TxForks(t) \/ TxSettles(t)
      PROVE  Accounted' /\ Budget'
  <2>1. saved.initial # NoBaseline
    BY <1>6
  <2>2. Accounted'
    BY <1>0, <1>1, <1>2, <1>5, <2>1 DEF Accounted
  <2>3. tx[t] \in Txs
    BY <1>0, TxTyped
  <2>4. \A u \in DOMAIN tx : u # t => tx'[u] = tx[u]
    BY <1>7 DEF TxLands, TxForks, TxSettles, Land, Fork, Settle
  <2>5. \/ /\ tx[t].status = "sent" /\ tx'[t].status = "processed"
           /\ balance' = balance - Cost[tx[t].step]
        \/ /\ tx[t].status = "sent" /\ tx'[t].status = "failing"
           /\ balance' = balance - Fee[tx[t].step]
        \/ /\ tx[t].status = "processed" /\ tx'[t].status = "sent"
           /\ balance' = balance + Cost[tx[t].step]
        \/ /\ tx[t].status \in {"processed", "failing"} /\ tx'[t].status \in {"confirmed", "failed"}
           /\ balance' = balance
    <3>1. CASE TxLands(t)
      BY <2>3, <3>1 DEF TxLands, Land, Txs
    <3>2. CASE TxForks(t)
      BY <2>3, <3>2 DEF TxForks, Fork, Txs
    <3>3. CASE TxSettles(t)
      BY <2>3, <3>3 DEF TxSettles, Settle, Txs
    <3>. QED
      BY <1>7, <3>1, <3>2, <3>3
  <2>6. Budget'
    BY <1>0, <1>1, <1>2, <2>4, <2>5, BudgetMoves
  <2>. QED
    BY <2>2, <2>6
<1>8. CASE BlocksPass \/ ToolStops
  <2>1. /\ balance' = balance /\ (tx = <<>> => tx' = <<>>)
        /\ \A t \in DOMAIN tx : tx'[t].status = tx[t].status
    <3>1. CASE BlocksPass
      <4>1. \A t \in DOMAIN tx : tx'[t] = [tx[t] EXCEPT !.life = IF @ = 0 THEN 0 ELSE @ - 1]
        BY <3>1 DEF BlocksPass, Tick
      <4>2. \A t \in DOMAIN tx : tx'[t].status = tx[t].status
        BY <1>0, <4>1, TxTyped DEF Txs
      <4>3. tx # <<>>
        BY <3>1 DEF BlocksPass, Tick
      <4>. QED
        BY <3>1, <4>2, <4>3 DEF BlocksPass, Tick
    <3>2. CASE ToolStops
      BY <3>2 DEF ToolStops, Stop
    <3>. QED
      BY <1>8, <3>1, <3>2
  <2>2. Accounted'
    BY <1>0, <1>1, <1>2, <1>5, <2>1 DEF Accounted
  <2>3. Budget'
    BY <1>0, <1>1, <1>2, <2>1, BudgetSame
  <2>. QED
    BY <1>3, <1>4, <2>2, <2>3
<1>9. Accounted' /\ Budget'
  BY <1>7, <1>8
<1>. QED
  BY <1>3, <1>4, <1>9

LEMMA ElsewhereSpend ==
  ASSUME BootstrapAssumption, ResumableAssumption, SpendInv, Elsewhere
  PROVE  Accounted' /\ Counting' /\ InTurn' /\ Budget'
<1>0. /\ EngineTypeOK /\ TypeOK /\ Accounted /\ Counting /\ InTurn /\ Budget /\ balance \in Int
      /\ saved \in [exists : BOOLEAN, initial : Int, expansion : Int]
      /\ mode \in {"bootstrap", "expand"}
  BY DEF SpendInv, ExactInv, ToolInv, TypeOK, EngineTypeOK
<1>1. UNCHANGED <<journal, tx, balance>>
  BY ElsewhereQuiet
<1>2. PlanSteps("expand")' = PlanSteps("expand") /\ NoState' = NoState /\ \A m \in Modes : Plan(m)' = Plan(m)
  BY DEF PlanSteps, Plan, NoState
<1>3. InTurn'
  BY <1>0, <1>1, SameTxs DEF TxKept
<1>4. ASSUME UNCHANGED saved PROVE Accounted' /\ Budget'
  BY <1>0, <1>1, <1>2, <1>4, BudgetSame DEF Accounted
<1>5. CASE LoadState
  <2>1. /\ pc = "state" /\ mode = "bootstrap" /\ UNCHANGED mode
        /\ \/ saved.exists /\ UNCHANGED saved
           \/ ~saved.exists /\ saved' = [NoState EXCEPT !.exists = TRUE]
        /\ pc' = "idle" \/ (pc' = "baseline" /\ saved'.expansion = NoBaseline)
    BY <1>5 DEF LoadState, NoState
  <2>2. CASE saved.exists /\ UNCHANGED saved
    BY <1>3, <1>4, <2>1, <2>2 DEF Counting, InStep
  <2>3. CASE ~saved.exists /\ saved' = [NoState EXCEPT !.exists = TRUE]
    <3>1. /\ saved.initial = NoBaseline /\ saved.expansion = NoBaseline
          /\ saved'.initial = NoBaseline /\ saved'.expansion = NoBaseline /\ saved'.exists
      BY <1>0, <2>3 DEF Accounted, NoState
    <3>2. Accounted'
      BY <1>0, <1>1, <1>2, <3>1 DEF Accounted
    <3>3. Budget'
      BY <1>0, <1>1, <3>1 DEF Budget, Limit, Pending
    <3>4. Counting'
      BY <2>1, <3>1 DEF Counting, InStep
    <3>. QED
      BY <1>3, <3>2, <3>3, <3>4
  <2>. QED
    BY <2>1, <2>2, <2>3
<1>6. CASE TakeBaseline
  <2>1. /\ pc = "baseline" /\ pc' = "check" /\ UNCHANGED mode
        /\ saved' = [saved EXCEPT !.initial = IF @ = NoBaseline THEN balance ELSE @]
    BY <1>6 DEF TakeBaseline
  <2>2. mode = "bootstrap" /\ saved.expansion = NoBaseline /\ saved.exists
    BY <1>0, <2>1 DEF Counting
  <2>3. saved'.initial = 0 /\ saved'.expansion = NoBaseline /\ saved'.exists
    BY <1>0, <2>1, <2>2 DEF Accounted
  <2>4. Accounted'
    BY <1>0, <1>1, <1>2, <2>2, <2>3 DEF Accounted, NoBaseline
  <2>5. Budget'
    BY <1>0, <1>1, <2>2, <2>3 DEF Budget, Limit, Pending
  <2>6. Counting'
    BY <2>1, <2>2, <2>3 DEF Counting, InStep
  <2>. QED
    BY <1>3, <2>4, <2>5, <2>6
<1>7. CASE BeginExpansion
  <2>1. /\ pc = "state" /\ mode = "expand" /\ UNCHANGED mode
        /\ \/ pc' = "idle" /\ UNCHANGED saved
           \/ pc' = "check" /\ saved.expansion # NoBaseline /\ UNCHANGED saved
           \/ /\ pc' = "check" /\ saved.expansion = NoBaseline
              /\ saved' = [saved EXCEPT !.expansion = balance]
    BY <1>7 DEF BeginExpansion, ToIdle
  <2>2. saved.initial = 0
    BY <1>0, <2>1 DEF Counting
  <2>3. CASE UNCHANGED saved /\ (pc' = "idle" \/ (pc' = "check" /\ saved.expansion # NoBaseline))
    <3>1. Counting'
      BY <2>1, <2>2, <2>3 DEF Counting, InStep
    <3>. QED
      BY <1>3, <1>4, <2>3, <3>1
  <2>4. CASE pc' = "check" /\ saved.expansion = NoBaseline /\ saved' = [saved EXCEPT !.expansion = balance]
    <3>1. /\ saved'.initial = 0 /\ saved'.expansion = balance /\ saved'.exists = saved.exists
          /\ balance # NoBaseline /\ saved.exists
      BY <1>0, <2>2, <2>4 DEF Accounted, Budget, NoState, NoBaseline
    <3>2. -balance <= BootstrapCeiling
      BY <2>4, <1>0 DEF Budget, Limit
    <3>3. Accounted'
      BY <1>0, <1>1, <3>1, <3>2 DEF Accounted, NoBaseline
    <3>4. Limit' = BootstrapCeiling + ExpansionCeiling /\ Limit = BootstrapCeiling
      BY <2>4, <3>1 DEF Limit, NoBaseline
    <3>5. Budget'
      <4>1. BootstrapCeiling \in Nat /\ ExpansionCeiling \in Nat
        BY Costs
      <4>2. \A t \in DOMAIN tx : (Pending(t)' <=> Pending(t)) /\ tx[t].step \in Steps /\ Cost[tx[t].step] \in Nat
        BY <1>0, <1>1, TxTyped, Costs DEF Pending, Txs
      <4>. QED
        BY <1>0, <1>1, <3>4, <4>1, <4>2 DEF Budget
    <3>6. Counting'
      BY <2>1, <2>4, <3>1 DEF Counting, InStep, NoBaseline
    <3>. QED
      BY <1>3, <3>3, <3>5, <3>6
  <2>. QED
    BY <2>1, <2>3, <2>4
<1>8. CASE \E m \in Modes : Run(m)
  <2>1. PICK m \in Modes : Run(m)
    BY <1>8
  <2>2. /\ pc' = "signers" /\ mode' = m /\ UNCHANGED saved
        /\ m = "expand" => saved.initial # NoBaseline
    BY <2>1 DEF Run
  <2>3. Counting'
    BY <1>0, <2>2 DEF Counting, InStep, Accounted
  <2>. QED
    BY <1>3, <1>4, <2>2, <2>3
<1>9. CASE ~ (LoadState \/ TakeBaseline \/ BeginExpansion \/ \E m \in Modes : Run(m))
  <2>1. UNCHANGED <<saved, mode>> /\ \/ pc' \in {pc, "idle"}
                                     \/ pc = "signers" /\ pc' = "state"
                                     \/ pc = "next" /\ pc' = "check"
    BY <1>9 DEF Elsewhere, WriteSecret, WritePublic, SignerMissing, SignersLoaded, NextStep, WriteManifest,
                AuthoritySpends, ObservationExpires, ToIdle, engineVars, diskVars
  <2>2. Counting'
    BY <1>0, <2>1 DEF Counting, InStep
  <2>. QED
    BY <1>3, <1>4, <2>1, <2>2
<1>. QED
  BY <1>5, <1>6, <1>7, <1>8, <1>9

LEMMA SpendStep ==
  ASSUME BootstrapAssumption, ResumableAssumption, ForkedErrors = FALSE, StateCanBeLost = FALSE,
         SpendInv, [Next]_vars
  PROVE  SpendInv'
<1>1. ExactInv'
  BY ExactStep DEF SpendInv
<1>2. CASE Next
  BY <1>1, <1>2, NextCases, RunStepSpend, WorldSpend, ElsewhereSpend DEF SpendInv
<1>3. CASE UNCHANGED vars
  <2>1. UNCHANGED <<journal, tx, balance, pc, saved, mode, at>>
    BY <1>3 DEF vars, engineVars
  <2>2. Accounted' /\ Counting' /\ Budget'
    BY <2>1 DEF SpendInv, Accounted, Counting, Budget, Pending, Limit, NoState, PlanSteps, Plan
  <2>3. InTurn'
    BY <2>1, SameTxs DEF SpendInv, TxKept
  <2>. QED
    BY <1>1, <2>2, <2>3 DEF SpendInv
<1>. QED
  BY <1>2, <1>3

LEMMA SpendInit ==
  ASSUME BootstrapAssumption, ResumableAssumption, Init
  PROVE  SpendInv
<1>1. ToolInv
  BY InitTools
<1>2. tx = <<>> /\ DOMAIN tx = {} /\ balance = 0 /\ pc = "idle" /\ saved = NoState
  BY DEF Init, InitEngine, InitTool
<1>3. Journaled /\ Superseded /\ AtSign(Step)
  BY <1>2 DEF Journaled, Superseded, AtSign
<1>4. Accounted /\ Counting /\ InTurn /\ Budget
  <2>1. 0 <= Limit
    BY <1>2, Costs DEF Limit, NoState
  <2>. QED
    BY <1>2, <2>1 DEF Accounted, Counting, InTurn, Budget, NoState, NoBaseline, InStep
<1>. QED
  BY <1>1, <1>3, <1>4 DEF SpendInv, ExactInv

-----------------------------------------------------------------------------
(* The theorems.                                                           *)

\* What the tool's invariants say.
LEMMA SpendSays ==
  ASSUME BootstrapAssumption, ResumableAssumption, SpendInv
  PROVE  TypeOK /\ StepTakesEffectOnce /\ OneLiveAttempt /\ SentIsJournaled /\ SpendWithinCeiling
<1>1. TypeOK /\ EngineTypeOK /\ Journaled /\ Superseded /\ Budget
  BY DEF SpendInv, ExactInv, ToolInv, TypeOK
<1>2. StepTakesEffectOnce /\ OneLiveAttempt /\ SentIsJournaled
  BY <1>1, ExactSays
<1>3. SpendWithinCeiling
  BY <1>1 DEF Budget, Limit, SpendWithinCeiling
<1>. QED
  BY <1>1, <1>2, <1>3

\* The manifest names what is on chain, whatever the cluster drops and even if
\* state.json is lost: a run comes to WriteManifest over steps it has seen to hold.
THEOREM ManifestStaysReal ==
  ASSUME BootstrapAssumption
  PROVE  Spec => []ManifestIsReal
<1>1. Init => ToolInv
  BY InitTools, ResumableAssumption
<1>2. ToolInv /\ [Next]_vars => ToolInv'
  BY ToolStep, ResumableAssumption
<1>3. ToolInv => ManifestIsReal
  BY PublishedIsReal DEF ToolInv, Evidence
<1>. QED
  BY <1>1, <1>2, <1>3, PTL DEF Spec

\* A step takes effect once, its attempts follow one another, the next run finds
\* what was sent, and the admin pays within the ceilings, where blocks that
\* reported a failure are kept and state.json is.
THEOREM NothingIsPaidTwice ==
  ASSUME BootstrapAssumption, ForkedErrors = FALSE, StateCanBeLost = FALSE
  PROVE  Spec => [](TypeOK /\ StepTakesEffectOnce /\ OneLiveAttempt /\ SentIsJournaled /\ SpendWithinCeiling)
<1>1. Init => SpendInv
  BY SpendInit, ResumableAssumption
<1>2. SpendInv /\ [Next]_vars => SpendInv'
  BY SpendStep, ResumableAssumption
<1>3. SpendInv => TypeOK /\ StepTakesEffectOnce /\ OneLiveAttempt /\ SentIsJournaled /\ SpendWithinCeiling
  BY SpendSays, ResumableAssumption
<1>. QED
  BY <1>1, <1>2, <1>3, PTL DEF Spec

=============================================================================
