------------------------ MODULE HostedSessionsProofs ------------------------
(***************************************************************************)
(* Theorems about HostedSessions for any number of handlers, visitors and  *)
(* sessions: sandboxes are counted, one to a visitor, capacity returns,    *)
(* and what reaches a sandbox was charged.  Then the service, of which the *)
(* broker is one part, and what is proved of its browsers.                 *)
(***************************************************************************)
EXTENDS HostedSessions, FiniteSetTheorems, TLAPS

\* A create call for the session may still reach the provider.
Open(id) ==
  \/ creating[id] # None
  \/ \E p \in Handlers : h[p].pc = "create" /\ h[p].id = id

\* The sandbox is gone, or never came, and none can come any more.
Dead(id) == ~Live(id) /\ ~Open(id)

Gone == {"stopped", "missing", "deleted"}

\* What a record says of the provider is so, or is too careful.
RecordOK(id, rec) ==
  /\ rec \in Records /\ id \in drawn
  /\ rec.created <= now /\ rec.tomb >= Expires(rec) + Tombstone
  /\ rec.pexp # None => rec.pexp <= Expires(rec) + CreateLatency
  /\ rec.pstat \in Gone => Dead(id)
  /\ rec.launched => /\ ~Open(id) /\ rec.pstat # None /\ rec.pexp # None
                     /\ boxes[id].st # "missing" => rec.pexp = boxes[id].exp
  /\ rec.status = "expired" /\ Future(Expires(rec)) => rec.launched \/ Dead(id)
  /\ rec.runtime => rec.launched /\ meters[id] # None
  /\ Open(id) => /\ now <= rec.created + MaxDuration + CreateLatency
                 /\ \/ rec.status = "starting" /\ rec.pstat = None
                    \/ rec.status = "failed" /\ rec.pstat = "unknown"

RecordsOK == \A id \in Ids : sessions[id] # None => RecordOK(id, sessions[id])

\* A sandbox belongs to a record while it lives, and its timeout is the end of
\* the session, late by no more than its create call was under way.
Window(id, exp) ==
  sessions[id] # None => /\ Expires(sessions[id]) <= exp
                         /\ exp <= Expires(sessions[id]) + CreateLatency

BoxOK(id) ==
  /\ boxes[id].st # "missing" => ~Open(id) /\ id \in drawn /\ Window(id, boxes[id].exp)
  /\ Live(id) => sessions[id] # None /\ now <= boxes[id].exp
  /\ boxes[id].up => boxes[id].st # "missing" /\ (sessions[id] # None => sessions[id].launched)

CreateOK(id) ==
  creating[id] # None =>
    /\ sessions[id] # None /\ boxes[id].st = "missing"
    /\ creating[id].since <= sessions[id].created + MaxDuration
    /\ creating[id].since <= now /\ now <= creating[id].since + CreateLatency
    /\ creating[id].since + creating[id].timeout = Expires(sessions[id])

BoxesOK == \A id \in Ids : BoxOK(id) /\ CreateOK(id)

\* What a handler remembers of its session, by where it stands.
Creation == {"create", "created", "createUnknown", "fence"}
Early == {"create", "created", "createUnknown", "recGet", "poll"}
Expiry == {"expireClose", "expireStop", "expireUpdate"}
Charged == {"proxyGet", "proxyMeter", "proxyLedger", "proxyMeterAgain", "send"}
Proxying == Charged \cup {"charge", "proxyPending", "proxyClose", "proxyEnd"}
Launched == Proxying \cup {"launch", "launchUnknown", "probe", "meter", "publish"}
Remembering == {"create", "recGet", "poll", "probe", "meter", "launch", "charge"}

\* A view of the provider that is written to the record: a sandbox that was
\* seen live has its timeout, one that was seen gone is gone.
ViewOK(id, view) ==
  /\ view.st \in Gone => Dead(id)
  /\ view.st \in ProviderLive \cup {"stopped"} =>
       /\ view.exp # None /\ Window(id, view.exp)
       /\ boxes[id].st # "missing" => view.exp = boxes[id].exp
  /\ view.st = "unknown" => view.exp = None

HandlerOK(x) ==
  LET id == x.id  rec == sessions[id] IN
  /\ x.pc = "idle" => x = Idle
  /\ x.pc # "idle" =>
       /\ id \in drawn /\ x.key \in Keys
       /\ x.since <= now /\ now <= x.since + MaxDuration
       /\ x.pc \in Remembering => x.rec # None
       /\ x.rec # None /\ rec # None => /\ x.rec.created = rec.created
                                        /\ x.rec.launched => rec.launched
       /\ x.pc \notin Early => ~Open(id)
       /\ x.pc = "create" => /\ rec # None /\ creating[id] = None /\ boxes[id].st = "missing"
                             /\ x.since <= rec.created
       /\ x.pc \in Creation => (rec # None => ~rec.launched)
       /\ x.pc \in {"recGet", "poll"} => (Open(id) => x.rec.pstat \in {None, "unknown"})
       /\ x.pc \in Launched => (rec # None => rec.launched)
       /\ x.pc = "publish" \/ x.pc \in Charged => meters[id] # None
       /\ x.pc \in Expiry => (rec # None => ~Future(Expires(rec)))
       /\ x.pc \in {"recClose", "recTerminal"} => Terminal(x.view.st)
       /\ x.pc \in {"recUpdate", "fence", "proxyPending"} => x.view.st \in ProviderLive
       /\ x.pc \in {"expireUpdate", "failUpdate", "resetUpdate"} => x.view.st # "missing"
       /\ x.pc \in {"recClose", "recTerminal", "recUpdate", "fence", "proxyPending", "proxyClose",
                    "proxyEnd", "expireUpdate", "timeoutUpdate", "failUpdate", "resetUpdate"}
            => ViewOK(id, x.view)

HandlersOK ==
  /\ \A p \in Handlers : HandlerOK(h[p])
  /\ \A p, q \in Handlers : h[p].pc \in Creation /\ h[q].pc \in Creation /\ h[p].id = h[q].id => p = q

\* The sandboxes inside their session's lifetime, or that can still come.
Occupied == {id \in Ids : /\ sessions[id] # None /\ Future(Expires(sessions[id]))
                          /\ Live(id) \/ Open(id)}

OccupiedOK ==
  /\ Cardinality(Occupied) <= Active
  /\ \A id \in Occupied : latest[sessions[id].key] = id

\* Every request under way to a sandbox is one the meter counted.
ChargedTo(id) == {p \in Handlers : h[p].pc \in Charged /\ h[p].id = id}
MutatingOn(id) == {p \in Handlers : h[p].pc \in Charged /\ h[p].id = id /\ h[p].mutation}

MetersOK ==
  \A id \in Ids :
    IF meters[id] = None THEN sent[id].requests = 0 /\ sent[id].mutations = 0
    ELSE /\ sent[id].requests + Cardinality(ChargedTo(id)) <= meters[id].forwarded
         /\ meters[id].forwarded <= RequestsTotal
         /\ sent[id].mutations + Cardinality(MutatingOn(id)) <= meters[id].mutations
         /\ meters[id].mutations <= MutationsTotal

Inv == TypeOK /\ RecordsOK /\ BoxesOK /\ HandlersOK /\ OccupiedOK /\ MetersOK

-----------------------------------------------------------------------------
(* Records.                                                                *)

\* The later of two tombstones.
LEMMA MaxOfTwo ==
  ASSUME NEW a \in Nat, NEW b \in Nat
  PROVE  Max({a, b}) \in Nat /\ Max({a, b}) >= a /\ Max({a, b}) >= b
  <1>1. \E x \in {a, b} : \A y \in {a, b} : x >= y
    <2>1. CASE a >= b
      BY <2>1
    <2>2. CASE b >= a
      BY <2>2
    <2> QED BY <2>1, <2>2
  <1> QED BY <1>1 DEF Max

\* r is rec after the provider reported st and exp.
SeenAs(r, rec, st, exp) ==
  /\ r \in Records
  /\ r.key = rec.key /\ r.status = rec.status /\ r.created = rec.created
  /\ r.launched = rec.launched /\ r.runtime = rec.runtime /\ r.timedOut = rec.timedOut
  /\ r.pstat = st
  /\ r.pexp = (IF exp = None THEN rec.pexp ELSE exp)
  /\ r.tomb >= rec.tomb

\* What Observe keeps and what it writes.
LEMMA ObserveFields ==
  ASSUME NEW rec \in Records, NEW st \in ProviderStatuses, NEW exp \in Nat \cup {None}
  PROVE  SeenAs(Observe(rec, st, exp), rec, st, exp)
  <1> DEFINE tomb == IF exp = None THEN rec.tomb ELSE Max({rec.tomb, exp + Tombstone})
             pexp == IF exp = None THEN rec.pexp ELSE exp
             r == Observe(rec, st, exp)
  <1>1. rec.tomb \in Nat /\ rec.pexp \in Nat \cup {None}
    BY DEF Records
  <1>2. tomb \in Nat /\ tomb >= rec.tomb
    BY <1>1, MaxOfTwo, TimingAssumption
  <1>3. pexp \in Nat \cup {None}
    BY <1>1
  <1>4. r = [rec EXCEPT !.pstat = st, !.pexp = pexp, !.tomb = tomb]
    BY DEF Observe
  <1> HIDE DEF tomb, pexp, r
  <1>5. r = [key |-> rec.key, status |-> rec.status, created |-> rec.created, tomb |-> tomb,
             launched |-> rec.launched, pstat |-> st, pexp |-> pexp, runtime |-> rec.runtime,
             timedOut |-> rec.timedOut]
    BY <1>4 DEF Records
  <1>6. r \in Records
    BY <1>2, <1>3, <1>5 DEF Records
  <1>7. /\ r.key = rec.key /\ r.status = rec.status /\ r.created = rec.created
        /\ r.launched = rec.launched /\ r.runtime = rec.runtime /\ r.timedOut = rec.timedOut
        /\ r.pstat = st /\ r.pexp = pexp /\ r.tomb = tomb
    BY <1>5
  <1>8. SeenAs(r, rec, st, exp)
    BY <1>2, <1>6, <1>7 DEF SeenAs, pexp
  <1> QED BY <1>8 DEF r

\* Changing the status alone.
LEMMA StatusFields ==
  ASSUME NEW rec \in Records, NEW status \in Statuses, NEW timedOut \in BOOLEAN
  PROVE  LET r == [rec EXCEPT !.status = status, !.timedOut = timedOut]
         IN  /\ r \in Records /\ r.key = rec.key /\ r.status = status /\ r.created = rec.created
             /\ r.tomb = rec.tomb /\ r.launched = rec.launched /\ r.pstat = rec.pstat
             /\ r.pexp = rec.pexp /\ r.runtime = rec.runtime
  <1> DEFINE r == [rec EXCEPT !.status = status, !.timedOut = timedOut]
  <1>0. r = [rec EXCEPT !.status = status, !.timedOut = timedOut]
    OBVIOUS
  <1> HIDE DEF r
  <1>1. r = [key |-> rec.key, status |-> status, created |-> rec.created, tomb |-> rec.tomb,
             launched |-> rec.launched, pstat |-> rec.pstat, pexp |-> rec.pexp,
             runtime |-> rec.runtime, timedOut |-> timedOut]
    BY <1>0 DEF Records
  <1>2. r \in Records
    BY <1>1 DEF Records
  <1> QED BY <1>1, <1>2 DEF r

\* The clock takes a record through normalizeLedger.
LEMMA Normalized ==
  ASSUME now \in Nat, NEW id, NEW rec, rec # None, RecordOK(id, rec)
  PROVE  /\ NormalizeRecord(rec) # None =>
              /\ RecordOK(id, NormalizeRecord(rec))
              /\ NormalizeRecord(rec).created = rec.created
              /\ NormalizeRecord(rec).key = rec.key
              /\ NormalizeRecord(rec).launched = rec.launched
              /\ NormalizeRecord(rec).status \in {rec.status, "expired", "failed"}
         /\ now < rec.tomb => NormalizeRecord(rec) # None
  <1> DEFINE aged == IF ~Future(Expires(rec)) /\ rec.status # "expired"
                       THEN [rec EXCEPT !.status = "expired", !.timedOut = FALSE]
                     ELSE IF rec.status = "starting" /\ ~Future(rec.created + Provisioning)
                       THEN [rec EXCEPT !.status = "failed", !.timedOut = TRUE]
                     ELSE rec
  <1> USE TimingAssumption
  <1>1. rec \in Records /\ rec.created \in Nat /\ rec.tomb \in Nat /\ rec.status \in Statuses
    BY DEF RecordOK, Records
  <1>2. /\ aged \in Records /\ aged.key = rec.key /\ aged.created = rec.created
        /\ aged.tomb = rec.tomb /\ aged.launched = rec.launched /\ aged.pstat = rec.pstat
        /\ aged.pexp = rec.pexp /\ aged.runtime = rec.runtime
        /\ \/ aged = rec
           \/ aged.status = "expired" /\ ~Future(Expires(rec))
           \/ aged.status = "failed" /\ ~Future(rec.created + Provisioning)
              /\ rec.status = "starting"
    <2> DEFINE E == [rec EXCEPT !.status = "expired", !.timedOut = FALSE]
               F == [rec EXCEPT !.status = "failed", !.timedOut = TRUE]
    <2>1. /\ E \in Records /\ E.key = rec.key /\ E.created = rec.created /\ E.tomb = rec.tomb
          /\ E.launched = rec.launched /\ E.pstat = rec.pstat /\ E.pexp = rec.pexp
          /\ E.runtime = rec.runtime /\ E.status = "expired"
      BY ZenonT(90), <1>1, StatusFields DEF Statuses
    <2>2. /\ F \in Records /\ F.key = rec.key /\ F.created = rec.created /\ F.tomb = rec.tomb
          /\ F.launched = rec.launched /\ F.pstat = rec.pstat /\ F.pexp = rec.pexp
          /\ F.runtime = rec.runtime /\ F.status = "failed"
      BY ZenonT(90), <1>1, StatusFields DEF Statuses
    <2>3. \/ aged = E /\ ~Future(Expires(rec))
          \/ aged = F /\ ~Future(rec.created + Provisioning) /\ rec.status = "starting"
          \/ aged = rec
      OBVIOUS
    <2> HIDE DEF aged, E, F
    <2> QED BY SMTT(60), <1>1, <2>1, <2>2, <2>3
  <1>3. NormalizeRecord(rec) = IF ~Future(aged.tomb) /\ ~HoldsCapacity(aged) THEN None ELSE aged
    BY DEF NormalizeRecord
  <1> HIDE DEF aged
  <1>4. RecordOK(id, aged)
    <2>1. CASE aged = rec
      BY <2>1
    <2>2. CASE aged.status = "expired" /\ ~Future(Expires(rec))
      <3>1. Expires(aged) = Expires(rec)
        BY <1>2 DEF Expires
      <3>2. ~Open(id)
        BY <1>1, <2>2 DEF RecordOK, Future, Expires
      <3> QED BY <1>1, <1>2, <2>2, <3>1, <3>2 DEF RecordOK
    <2>3. CASE aged.status = "failed" /\ ~Future(rec.created + Provisioning)
      <3>1. Expires(aged) = Expires(rec)
        BY <1>2 DEF Expires
      <3>2. ~Open(id)
        BY <1>1, <2>3 DEF RecordOK, Future, Expires
      <3> QED BY <1>1, <1>2, <2>3, <3>1, <3>2 DEF RecordOK
    <2> QED BY <1>2, <2>1, <2>2, <2>3
  <1>5. aged # None
    BY <1>2, NoneAssumption
  <1>6. now < rec.tomb => Future(aged.tomb)
    BY <1>2 DEF Future
  <1> QED BY <1>2, <1>3, <1>4, <1>5, <1>6

-----------------------------------------------------------------------------
(* The normalized ledger of a state that satisfies the invariant.          *)

\* Every open create call, and every live sandbox, is of a session whose record
\* is kept.
LEMMA TombAhead ==
  ASSUME Inv, NEW id \in Ids, Live(id) \/ Open(id)
  PROVE  /\ sessions[id] # None /\ RecordOK(id, sessions[id])
         /\ now < sessions[id].tomb
         /\ now <= Expires(sessions[id]) + CreateLatency
         /\ Open(id) => Future(Expires(sessions[id])) /\ now < sessions[id].created + Provisioning
  <1> USE TimingAssumption
  <1>1. BoxOK(id) /\ CreateOK(id) /\ now \in Nat
    BY DEF Inv, BoxesOK, TypeOK
  <1>2. sessions[id] # None =>
          /\ RecordOK(id, sessions[id])
          /\ sessions[id].created \in Nat /\ sessions[id].tomb \in Nat
          /\ sessions[id].tomb >= Expires(sessions[id]) + Tombstone
    BY DEF Inv, RecordsOK, RecordOK, Records
  <1>3. CASE Live(id)
    <2>1. boxes[id].st # "missing"
      BY <1>3 DEF Live, ProviderLive
    <2>2. ~Open(id) /\ Window(id, boxes[id].exp) /\ sessions[id] # None /\ now <= boxes[id].exp
      BY <1>1, <1>3, <2>1 DEF BoxOK
    <2>3. boxes[id].exp \in Nat
      BY DEF Inv, TypeOK, Boxes
    <2> QED BY <1>1, <1>2, <2>2, <2>3 DEF Window, Expires
  <1>4. CASE creating[id] # None
    <2>1. creating[id].since \in Nat
      BY <1>4 DEF Inv, TypeOK, Creates
    <2> QED BY <1>1, <1>2, <1>4, <2>1 DEF CreateOK, Expires, Future
  <1>5. CASE \E p \in Handlers : h[p].pc = "create" /\ h[p].id = id
    <2>1. PICK p \in Handlers : h[p].pc = "create" /\ h[p].id = id
      BY <1>5
    <2>2. HandlerOK(h[p]) /\ h[p].since \in Nat
      BY DEF Inv, HandlersOK, TypeOK, HandlerStates
    <2>3. /\ sessions[id] # None /\ h[p].since <= sessions[id].created
          /\ now <= h[p].since + MaxDuration
      BY <2>1, <2>2 DEF HandlerOK
    <2> QED BY <1>1, <1>2, <2>2, <2>3 DEF Expires, Future
  <1> QED BY <1>3, <1>4, <1>5 DEF Open

\* What every transaction reads.
LEMMA LedgerFacts ==
  ASSUME Inv, NEW id \in Ids
  PROVE  /\ Ledger[id] # None =>
              /\ sessions[id] # None
              /\ RecordOK(id, Ledger[id]) /\ Ledger[id] \in Records
              /\ Ledger[id].created = sessions[id].created
              /\ Ledger[id].key = sessions[id].key
              /\ Ledger[id].launched = sessions[id].launched
              /\ Ledger[id].status \in {sessions[id].status, "expired", "failed"}
         /\ Live(id) \/ Open(id) => Ledger[id] # None
  <1>1. Ledger[id] = NormalizeRecord(sessions[id])
    BY DEF Ledger
  <1>2. CASE sessions[id] = None
    BY <1>1, <1>2, TombAhead DEF NormalizeRecord
  <1>3. CASE sessions[id] # None
    <2>1. now \in Nat /\ RecordOK(id, sessions[id])
      BY <1>3 DEF Inv, TypeOK, RecordsOK
    <2>2. Live(id) \/ Open(id) => now < sessions[id].tomb
      BY TombAhead
    <2>3. Ledger[id] # None => Ledger[id] \in Records
      BY <1>1, <1>3, <2>1, Normalized DEF RecordOK
    <2> QED BY <1>1, <1>3, <2>1, <2>2, <2>3, Normalized
  <1> QED BY <1>2, <1>3

\* The latest session of a visitor is one the normalized ledger still has.
LEMMA LatestFacts ==
  ASSUME Inv, NEW k \in Keys
  PROVE  /\ Latest[k] \in Ids \cup {None}
         /\ Latest[k] # None => Latest[k] = latest[k] /\ Ledger[Latest[k]] # None
         /\ \A id \in Ids : latest[k] = id /\ Ledger[id] # None => Latest[k] = id
  BY DEF Inv, TypeOK, Latest

-----------------------------------------------------------------------------
(* What stays true of one session while others are worked on.              *)

Evolves(id) ==
  /\ sessions'[id] # None => /\ sessions[id] # None
                             /\ sessions'[id].created = sessions[id].created
                             /\ sessions'[id].key = sessions[id].key
                             /\ sessions[id].launched => sessions'[id].launched
  /\ sessions[id] # None /\ (Live(id) \/ Open(id)) => sessions'[id] # None
  /\ Open(id)' => Open(id)
  /\ Live(id)' => Live(id) \/ Open(id)
  /\ boxes'[id].st # "missing" =>
       Open(id) \/ (boxes[id].st # "missing" /\ boxes'[id].exp = boxes[id].exp)
  /\ meters[id] # None => meters'[id] # None

\* A record that was right stays right while its session evolves.
LEMMA RecordCarries ==
  ASSUME NEW id, NEW rec, RecordOK(id, rec), Evolves(id), drawn \subseteq drawn',
         now \in Nat, now' \in Nat, now <= now',
         Open(id)' => now' <= rec.created + MaxDuration + CreateLatency
  PROVE  RecordOK(id, rec)'
  <1> USE TimingAssumption
  <1>1. rec \in Records /\ rec.created \in Nat
    BY DEF RecordOK, Records
  <1>2. Dead(id) => Dead(id)'
    BY DEF Dead, Evolves
  <1>3. Future(Expires(rec))' => Future(Expires(rec))
    BY <1>1 DEF Future, Expires
  <1>4. (rec.pexp # None => rec.pexp <= Expires(rec) + CreateLatency)'
    BY DEF RecordOK, Expires
  <1>5. rec.launched => /\ ~Open(id)' /\ rec.pstat # None /\ rec.pexp # None
                        /\ boxes'[id].st # "missing" => rec.pexp = boxes'[id].exp
    BY DEF RecordOK, Evolves
  <1>6. rec.created <= now' /\ rec.tomb >= Expires(rec) + Tombstone /\ id \in drawn'
    BY <1>1 DEF RecordOK
  <1>7. Open(id)' => /\ now' <= rec.created + MaxDuration + CreateLatency
                     /\ \/ rec.status = "starting" /\ rec.pstat = None
                        \/ rec.status = "failed" /\ rec.pstat = "unknown"
    BY DEF RecordOK, Evolves
  <1>8. rec.runtime => rec.launched /\ meters'[id] # None
    BY DEF RecordOK, Evolves
  <1>9. rec.pstat \in Gone => Dead(id)'
    BY <1>2 DEF RecordOK
  <1>10. rec.status = "expired" /\ Future(Expires(rec))' => rec.launched \/ Dead(id)'
    BY <1>2, <1>3 DEF RecordOK
  <1> HIDE DEF Dead, Open
  <1> QED BY <1>1, <1>4, <1>5, <1>6, <1>7, <1>8, <1>9, <1>10 DEF RecordOK, Expires

\* So does a view of the provider that a handler holds.
LEMMA ViewCarries ==
  ASSUME NEW id, NEW view, ViewOK(id, view), Evolves(id), ~Open(id)
  PROVE  ViewOK(id, view)'
  <1>1. Dead(id) => Dead(id)'
    BY DEF Dead, Evolves
  <1>2. Window(id, view.exp) => Window(id, view.exp)'
    BY DEF Window, Evolves, Expires
  <1>3. boxes'[id].st # "missing" => boxes[id].st # "missing" /\ boxes'[id].exp = boxes[id].exp
    BY DEF Evolves
  <1> QED BY <1>1, <1>2, <1>3 DEF ViewOK

\* So does what a handler remembers.
LEMMA HandlerCarries ==
  ASSUME NEW x, HandlerOK(x), x \in HandlerStates, drawn \subseteq drawn',
         now \in Nat, now' \in Nat, now <= now',
         TypeOK,
         x.pc # "idle" => now' <= x.since + MaxDuration /\ Evolves(x.id),
         x.pc \in Creation /\ sessions'[x.id] # None =>
           sessions'[x.id].launched = sessions[x.id].launched,
         x.pc = "create" => /\ sessions'[x.id] # None /\ boxes'[x.id] = boxes[x.id]
                            /\ creating'[x.id] = creating[x.id]
  PROVE  HandlerOK(x)'
  <1> USE TimingAssumption
  <1>1. CASE x.pc = "idle"
    BY <1>1 DEF HandlerOK, Creation, Early, Expiry, Charged, Proxying, Launched, Remembering
  <1>2. CASE x.pc # "idle"
    <2> DEFINE id == x.id
    <2>1. Evolves(id) /\ id \in Ids /\ x.since \in Nat
      BY <1>2 DEF HandlerOK, TypeOK, HandlerStates
    <2>2. /\ id \in drawn' /\ x.key \in Keys
          /\ x.since <= now' /\ now' <= x.since + MaxDuration
          /\ x.pc \in Remembering => x.rec # None
      BY <1>2, <2>1 DEF HandlerOK
    <2>3. x.rec # None /\ sessions'[id] # None => /\ x.rec.created = sessions'[id].created
                                                  /\ x.rec.launched => sessions'[id].launched
      BY <1>2, <2>1 DEF HandlerOK, Evolves
    <2>4. /\ x.pc \notin Early => ~Open(id)'
          /\ x.pc \in {"recGet", "poll"} => (Open(id)' => x.rec.pstat \in {None, "unknown"})
      BY <1>2, <2>1 DEF HandlerOK, Evolves
    <2>5. x.pc = "create" => /\ sessions'[id] # None /\ creating'[id] = None
                             /\ boxes'[id].st = "missing" /\ x.since <= sessions'[id].created
      <3> SUFFICES ASSUME x.pc = "create"
                   PROVE  /\ sessions'[id] # None /\ creating'[id] = None
                          /\ boxes'[id].st = "missing" /\ x.since <= sessions'[id].created
        OBVIOUS
      <3>1. /\ sessions[id] # None /\ creating[id] = None
            /\ boxes[id].st = "missing" /\ x.since <= sessions[id].created
        BY <1>2 DEF HandlerOK
      <3> QED BY <2>1, <3>1 DEF Evolves
    <2>6. /\ x.pc \in Creation => (sessions'[id] # None => ~sessions'[id].launched)
          /\ x.pc \in Launched => (sessions'[id] # None => sessions'[id].launched)
          /\ x.pc = "publish" \/ x.pc \in Charged => meters'[id] # None
      BY <1>2, <2>1 DEF HandlerOK, Evolves
    <2>7. x.pc \in Expiry => (sessions'[id] # None => ~Future(Expires(sessions[id]))')
      <3> SUFFICES ASSUME x.pc \in Expiry, sessions'[id] # None
                   PROVE  ~(sessions'[id].created + Lifetime > now')
        BY DEF Future, Expires
      <3>1. sessions[id] # None /\ sessions'[id].created = sessions[id].created
        BY <2>1 DEF Evolves
      <3>2. sessions[id].created \in Nat
        BY <2>1, <3>1 DEF TypeOK, Records
      <3>3. ~(sessions[id].created + Lifetime > now)
        BY <1>2, <3>1 DEF HandlerOK, Future, Expires
      <3> QED BY <3>1, <3>2, <3>3
    <2>8. x.pc \in {"recClose", "recTerminal", "recUpdate", "fence", "proxyPending", "proxyClose",
                    "proxyEnd", "expireUpdate", "timeoutUpdate", "failUpdate", "resetUpdate"}
            => ViewOK(id, x.view)'
      <3> SUFFICES ASSUME x.pc \in {"recClose", "recTerminal", "recUpdate", "fence", "proxyPending",
                                    "proxyClose", "proxyEnd", "expireUpdate", "timeoutUpdate",
                                    "failUpdate", "resetUpdate"}
                   PROVE  ViewOK(id, x.view)'
        OBVIOUS
      <3>1. ViewOK(id, x.view) /\ ~Open(id)
        BY <1>2 DEF HandlerOK, Early
      <3> QED BY <2>1, <3>1, ViewCarries
    <2>9. /\ x.pc \in {"recClose", "recTerminal"} => Terminal(x.view.st)
          /\ x.pc \in {"recUpdate", "fence", "proxyPending"} => x.view.st \in ProviderLive
          /\ x.pc \in {"expireUpdate", "failUpdate", "resetUpdate"} => x.view.st # "missing"
      BY <1>2 DEF HandlerOK
    <2> QED
      BY <1>2, <2>2, <2>3, <2>4, <2>5, <2>6, <2>7, <2>8, <2>9 DEF HandlerOK, Terminal
  <1> QED BY <1>1, <1>2


-----------------------------------------------------------------------------
(* The parts of the invariant across a step.                               *)

\* A handler that the step leaves where it is, and one that takes it.
Waits(q) ==
  /\ h'[q] = h[q]
  /\ h[q].pc # "idle" => now' <= h[q].since + MaxDuration /\ \A id : id = h[q].id => Evolves(id)
  /\ h[q].pc \in Creation /\ sessions'[h[q].id] # None =>
       sessions'[h[q].id].launched = sessions[h[q].id].launched
  /\ h[q].pc = "create" => /\ sessions'[h[q].id] # None /\ boxes'[h[q].id] = boxes[h[q].id]
                           /\ creating'[h[q].id] = creating[h[q].id]

Moves(p) ==
  /\ HandlerOK(h[p])'
  /\ h'[p].pc \in Creation => \/ h[p].pc \in Creation /\ h'[p].id = h[p].id
                              \/ h'[p].id \notin drawn

\* The handlers after a step in which at most one of them moves.
LEMMA HandlersCarry ==
  ASSUME Inv, NEW S, \A p, q \in S : p = q,
         drawn \subseteq drawn', now' \in Nat, now <= now',
         \A q \in Handlers \ S : Waits(q),
         \A p \in Handlers \cap S : Moves(p)
  PROVE  HandlersOK'
  <1>1. \A p \in Handlers : HandlerOK(h[p]) /\ h[p] \in HandlerStates
    BY DEF Inv, HandlersOK, TypeOK
  <1>2. TypeOK /\ now \in Nat
    BY DEF Inv, TypeOK
  <1>3. ASSUME NEW q \in Handlers PROVE HandlerOK(h[q])'
    <2>1. CASE q \in S
      BY <2>1 DEF Moves
    <2>2. CASE q \notin S
      <3>1. Waits(q)
        BY <2>2
      <3>2. \A x \in HandlerStates :
              /\ HandlerOK(x)
              /\ x.pc # "idle" => now' <= x.since + MaxDuration /\ Evolves(x.id)
              /\ x.pc \in Creation /\ sessions'[x.id] # None =>
                   sessions'[x.id].launched = sessions[x.id].launched
              /\ x.pc = "create" => /\ sessions'[x.id] # None /\ boxes'[x.id] = boxes[x.id]
                                    /\ creating'[x.id] = creating[x.id]
              => HandlerOK(x)'
        BY <1>2, HandlerCarries
      <3>3. h[q] \in HandlerStates /\ HandlerOK(h[q])
        BY <1>1
      <3> QED BY <3>1, <3>2, <3>3 DEF Waits
    <2> QED BY <2>1, <2>2
  <1>4. ASSUME NEW p \in Handlers, NEW q \in Handlers,
               h'[p].pc \in Creation, h'[q].pc \in Creation, h'[p].id = h'[q].id, p # q
        PROVE  FALSE
    <2>1. ASSUME NEW g \in Handlers, h'[g].pc \in Creation
          PROVE  \/ h[g].pc \in Creation /\ h'[g].id = h[g].id /\ h[g].id \in drawn
                 \/ h'[g].id \notin drawn /\ g \in S
      <3>1. h[g].pc \in Creation => h[g].id \in drawn
        BY <1>1 DEF HandlerOK, Creation
      <3>2. CASE g \in S
        BY <2>1, <3>1, <3>2 DEF Moves
      <3>3. CASE g \notin S
        BY <2>1, <3>1, <3>3 DEF Waits
      <3> QED BY <3>2, <3>3
    <2>2. h[p].pc \in Creation /\ h[q].pc \in Creation /\ h[p].id = h[q].id
      BY <1>4, <2>1
    <2> QED BY <1>4, <2>2 DEF Inv, HandlersOK
  <1> QED BY <1>3, <1>4 DEF HandlersOK

\* The sandboxes after a step that leaves the provider alone.
LEMMA BoxesCarry ==
  ASSUME Inv, UNCHANGED <<now, boxes, creating, drawn>>, \A id \in Ids : Evolves(id)
  PROVE  BoxesOK'
  <1> SUFFICES ASSUME NEW id \in Ids PROVE BoxOK(id)' /\ CreateOK(id)'
    BY DEF BoxesOK
  <1>1. BoxOK(id) /\ CreateOK(id) /\ Evolves(id)
    BY DEF Inv, BoxesOK
  <1>2. Window(id, boxes[id].exp) => Window(id, boxes[id].exp)'
    BY <1>1 DEF Window, Evolves, Expires
  <1>3. Live(id)' = Live(id)
    BY DEF Live
  <1>4. BoxOK(id)'
    BY <1>1, <1>2, <1>3 DEF BoxOK, Evolves
  <1>5. CreateOK(id)'
    <2> SUFFICES ASSUME creating[id] # None PROVE CreateOK(id)'
      BY DEF CreateOK
    <2>1. Open(id) /\ sessions[id] # None
      BY <1>1 DEF Open, CreateOK
    <2>2. sessions'[id] # None /\ sessions'[id].created = sessions[id].created
      BY <1>1, <2>1 DEF Evolves
    <2> QED BY <1>1, <2>2 DEF CreateOK, Expires
  <1> QED BY <1>4, <1>5

\* No more sandboxes are occupied after a step that opens none.
LEMMA OccupiedCarries ==
  ASSUME Inv, TypeOK', now <= now', \A id \in Ids : Evolves(id),
         \A id \in Ids : sessions'[id] # None /\ latest[sessions[id].key] = id =>
                           latest'[sessions'[id].key] = id
  PROVE  OccupiedOK'
  <1>1. Occupied' \subseteq Occupied
    <2> SUFFICES ASSUME NEW id \in Ids, sessions'[id] # None, Future(Expires(sessions[id]))',
                        (Live(id) \/ Open(id))'
                 PROVE  id \in Occupied
      BY DEF Occupied
    <2>1. sessions[id] # None /\ sessions'[id].created = sessions[id].created
      BY DEF Evolves
    <2>2. Live(id) \/ Open(id)
      BY DEF Evolves
    <2>3. now \in Nat /\ now' \in Nat /\ sessions[id].created \in Nat /\ Lifetime \in Nat
      BY <2>1, TimingAssumption DEF Inv, TypeOK, Records
    <2>4. Future(Expires(sessions[id]))
      BY <2>1, <2>3 DEF Future, Expires
    <2> QED BY <2>1, <2>2, <2>4 DEF Occupied
  <1>2. IsFiniteSet(Occupied) /\ Cardinality(Occupied) \in Nat
    <2>1. Occupied \subseteq Ids
      BY DEF Occupied
    <2> QED BY <2>1, NoneAssumption, FS_Subset, FS_CardinalityType
  <1>3. Cardinality(Occupied') <= Cardinality(Occupied) /\ Cardinality(Occupied') \in Nat
    BY <1>1, <1>2, FS_Subset, FS_CardinalityType
  <1>4. Cardinality(Occupied') <= Active
    BY <1>2, <1>3, TimingAssumption DEF Inv, OccupiedOK
  <1>5. \A id \in Occupied' : latest'[sessions'[id].key] = id
    BY <1>1 DEF Inv, OccupiedOK, Occupied
  <1> QED BY <1>4, <1>5 DEF OccupiedOK

\* Nothing that was not charged is counted as under way.
LEMMA MetersCarry ==
  ASSUME Inv, TypeOK', UNCHANGED sent,
         \A id \in Ids : \/ meters'[id] = meters[id]
                         \/ /\ meters[id] # None /\ meters'[id] # None
                            /\ meters'[id].forwarded = meters[id].forwarded
                            /\ meters'[id].mutations = meters[id].mutations,
         \A q \in Handlers : h'[q].pc \in Charged =>
           h[q].pc \in Charged /\ h'[q].id = h[q].id /\ h'[q].mutation = h[q].mutation
  PROVE  MetersOK'
  <1> SUFFICES ASSUME NEW id \in Ids
               PROVE  IF meters'[id] = None THEN sent'[id].requests = 0 /\ sent'[id].mutations = 0
                      ELSE /\ sent'[id].requests + Cardinality(ChargedTo(id)') <= meters'[id].forwarded
                           /\ meters'[id].forwarded <= RequestsTotal
                           /\ sent'[id].mutations + Cardinality(MutatingOn(id)') <= meters'[id].mutations
                           /\ meters'[id].mutations <= MutationsTotal
    BY DEF MetersOK
  <1>1. ChargedTo(id)' \subseteq ChargedTo(id) /\ MutatingOn(id)' \subseteq MutatingOn(id)
    BY DEF ChargedTo, MutatingOn
  <1>2. ChargedTo(id) \subseteq Handlers /\ MutatingOn(id) \subseteq Handlers
    BY DEF ChargedTo, MutatingOn
  <1>3. IsFiniteSet(ChargedTo(id)) /\ IsFiniteSet(MutatingOn(id))
    BY <1>2, NoneAssumption, FS_Subset
  <1>4. /\ Cardinality(ChargedTo(id)) \in Nat /\ Cardinality(MutatingOn(id)) \in Nat
        /\ Cardinality(ChargedTo(id)') \in Nat /\ Cardinality(MutatingOn(id)') \in Nat
        /\ Cardinality(ChargedTo(id)') <= Cardinality(ChargedTo(id))
        /\ Cardinality(MutatingOn(id)') <= Cardinality(MutatingOn(id))
    BY <1>1, <1>3, FS_Subset, FS_CardinalityType
  <1>5. sent[id].requests \in Nat /\ sent[id].mutations \in Nat
    BY DEF Inv, TypeOK
  <1>6. meters[id] # None => meters[id].forwarded \in Nat /\ meters[id].mutations \in Nat
    BY DEF Inv, TypeOK, Meters
  <1>7. IF meters[id] = None THEN sent[id].requests = 0 /\ sent[id].mutations = 0
        ELSE /\ sent[id].requests + Cardinality(ChargedTo(id)) <= meters[id].forwarded
             /\ meters[id].forwarded <= RequestsTotal
             /\ sent[id].mutations + Cardinality(MutatingOn(id)) <= meters[id].mutations
             /\ meters[id].mutations <= MutationsTotal
    BY DEF Inv, MetersOK
  <1> HIDE DEF ChargedTo, MutatingOn
  <1> QED BY <1>4, <1>5, <1>6, <1>7

\* Only the handler that takes the step can open a creation.
LEMMA OpenShrinks ==
  ASSUME Inv, NEW p \in Handlers, h' = [h EXCEPT ![p] = h'[p]], h'[p].pc # "create",
         UNCHANGED creating
  PROVE  \A id : Open(id)' => Open(id)
  BY DEF Inv, TypeOK, Open


-----------------------------------------------------------------------------
(* Steps that leave the provider and the clock alone.                      *)

\* What such a step may write to the ledger.
Written(id) ==
  /\ sessions'[id] # None => /\ sessions[id] # None
                             /\ RecordOK(id, sessions'[id])
                             /\ sessions'[id].created = sessions[id].created
                             /\ sessions'[id].key = sessions[id].key
                             /\ sessions[id].launched => sessions'[id].launched
  /\ sessions[id] # None /\ (Live(id) \/ Open(id)) => sessions'[id] # None

\* A step of one handler that leaves the provider and the clock alone, and
\* writes records only as a session may evolve, keeps the invariant.
LEMMA QuietInv ==
  ASSUME Inv, NEW p \in Handlers, UNCHANGED <<now, boxes, creating, drawn>>,
         h' = [h EXCEPT ![p] = h'[p]], h'[p] \in HandlerStates, h'[p].pc # "create",
         h'[p].pc \in Creation => h[p].pc \in Creation /\ h'[p].id = h[p].id,
         HandlerOK(h[p])',
         sessions' = [id \in Ids |-> sessions'[id]], \A id \in Ids : Written(id),
         \A q \in Handlers \ {p} : h[q].pc \in Creation /\ sessions'[h[q].id] # None =>
           sessions'[h[q].id].launched = sessions[h[q].id].launched,
         latest' \in [Keys -> Ids \cup {None}],
         \A id \in Ids : sessions'[id] # None /\ latest[sessions[id].key] = id =>
                           latest'[sessions'[id].key] = id,
         meters' \in [Ids -> Meters \cup {None}],
         \A id \in Ids : meters[id] # None => meters'[id] # None,
         sent' \in [Ids -> [requests : Nat, mutations : Nat]],
         TypeOK' => MetersOK'
  PROVE  Inv'
  <1>1. TypeOK /\ now \in Nat /\ now' \in Nat /\ now <= now'
    BY DEF Inv, TypeOK
  <1>2. TypeOK'
    <2>1. \A id \in Ids : sessions'[id] # None => sessions'[id] \in Records
      BY DEF Written, RecordOK
    <2>2. sessions' \in [Ids -> Records \cup {None}]
      BY <2>1
    <2>3. h' \in [Handlers -> HandlerStates]
      BY <1>1 DEF TypeOK
    <2> QED BY <1>1, <2>2, <2>3 DEF TypeOK
  <1>3. \A id : Open(id)' => Open(id)
    BY OpenShrinks
  <1>4. \A id : Live(id)' = Live(id)
    BY DEF Live
  <1>5. \A id \in Ids : Evolves(id)
    BY <1>3, <1>4 DEF Written, Evolves
  <1>6. RecordsOK'
    <2> SUFFICES ASSUME NEW id \in Ids, sessions'[id] # None PROVE RecordOK(id, sessions[id])'
      BY DEF RecordsOK
    <2>1. \A rec : RecordOK(id, rec)
                   /\ (Open(id)' => now' <= rec.created + MaxDuration + CreateLatency)
                   => RecordOK(id, rec)'
      BY <1>1, <1>5, RecordCarries
    <2>2. RecordOK(id, sessions'[id])
      BY DEF Written
    <2>3. Open(id)' => now' <= sessions'[id].created + MaxDuration + CreateLatency
      BY <1>3, <2>2 DEF RecordOK
    <2> QED BY <2>1, <2>2, <2>3
  <1>7. BoxesOK'
    BY <1>5, BoxesCarry
  <1>8. HandlersOK'
    <2>1. ASSUME NEW q \in Handlers \ {p} PROVE Waits(q)
      <3>1. HandlerOK(h[q]) /\ h[q] \in HandlerStates /\ h'[q] = h[q]
        BY <1>1 DEF Inv, HandlersOK, TypeOK
      <3>2. h[q].pc # "idle" => h[q].id \in Ids /\ now <= h[q].since + MaxDuration
        BY <1>1, <3>1 DEF HandlerOK, TypeOK
      <3>3. h[q].pc = "create" => sessions'[h[q].id] # None
        <4> SUFFICES ASSUME h[q].pc = "create" PROVE sessions'[h[q].id] # None
          OBVIOUS
        <4>1. Open(h[q].id) /\ sessions[h[q].id] # None
          BY <3>1 DEF Open, HandlerOK
        <4> QED BY <3>2, <4>1 DEF Written
      <3> QED BY <1>5, <3>1, <3>2, <3>3 DEF Waits
    <2>2. Moves(p)
      BY DEF Moves
    <2> DEFINE S == {p}
    <2>3. /\ \A q, g \in S : q = g
          /\ \A q \in Handlers \ S : Waits(q)
          /\ \A q \in Handlers \cap S : Moves(q)
          /\ drawn \subseteq drawn'
      BY <2>1, <2>2
    <2> HIDE DEF S
    <2> QED BY <1>1, <2>3, HandlersCarry
  <1>9. OccupiedOK'
    BY <1>1, <1>2, <1>5, OccupiedCarries
  <1> QED BY <1>2, <1>6, <1>7, <1>8, <1>9 DEF Inv

\* A step that leaves the records alone.
LEMMA RecordsKept ==
  ASSUME Inv, UNCHANGED ledger
  PROVE  /\ sessions' = [id \in Ids |-> sessions'[id]] /\ \A id \in Ids : Written(id)
         /\ latest' \in [Keys -> Ids \cup {None}]
         /\ \A id \in Ids : sessions'[id] # None /\ latest[sessions[id].key] = id =>
                              latest'[sessions'[id].key] = id
         /\ \A q \in Handlers : h[q].pc \in Creation /\ sessions'[h[q].id] # None =>
              sessions'[h[q].id].launched = sessions[h[q].id].launched
  BY DEF Inv, TypeOK, ledger, Written, RecordsOK

\* A handler that only looks: the new handler fits the state it looked at.
LEMMA LookInv ==
  ASSUME Inv, NEW p \in Handlers, UNCHANGED <<now, ledger, meters, boxes, creating, sent>>,
         h' = [h EXCEPT ![p] = h'[p]], h'[p] \in HandlerStates, h'[p].pc # "create",
         h'[p].pc \in Creation => h[p].pc \in Creation /\ h'[p].id = h[p].id,
         h'[p].pc \in Charged =>
           h[p].pc \in Charged /\ h'[p].id = h[p].id /\ h'[p].mutation = h[p].mutation,
         HandlerOK(h'[p])
  PROVE  Inv'
  <1>1. TypeOK /\ now \in Nat /\ now' = now /\ drawn' = drawn
    BY DEF Inv, TypeOK, ledger
  <1>2. \A id : Open(id)' => Open(id)
    BY OpenShrinks
  <1>3. \A id : Evolves(id)
    BY <1>2 DEF Evolves, ledger, Live
  <1>4. HandlerOK(h[p])'
    <2>1. \A x \in HandlerStates :
            /\ HandlerOK(x)
            /\ x.pc # "idle" => now' <= x.since + MaxDuration /\ Evolves(x.id)
            /\ x.pc \in Creation /\ sessions'[x.id] # None =>
                 sessions'[x.id].launched = sessions[x.id].launched
            /\ x.pc = "create" => /\ sessions'[x.id] # None /\ boxes'[x.id] = boxes[x.id]
                                  /\ creating'[x.id] = creating[x.id]
            => HandlerOK(x)'
      BY <1>1, HandlerCarries
    <2>2. h'[p].pc # "idle" => now <= h'[p].since + MaxDuration
      BY DEF HandlerOK
    <2> QED BY <1>1, <1>3, <2>1, <2>2 DEF ledger
  <1>5. \A q \in Handlers : h'[q].pc \in Charged =>
           h[q].pc \in Charged /\ h'[q].id = h[q].id /\ h'[q].mutation = h[q].mutation
    BY <1>1 DEF TypeOK
  <1>6. TypeOK' => MetersOK'
    BY <1>5, MetersCarry
  <1>7. /\ meters' \in [Ids -> Meters \cup {None}]
        /\ \A id \in Ids : meters[id] # None => meters'[id] # None
        /\ sent' \in [Ids -> [requests : Nat, mutations : Nat]]
    BY <1>1 DEF TypeOK
  <1> QED BY <1>1, <1>4, <1>6, <1>7, RecordsKept, QuietInv

\* A transaction on the record of the handler's own session.
LEMMA UpdateInv ==
  ASSUME Inv, NEW p \in Handlers, NEW id \in Ids, NEW rec, Update(id, rec), Ledger[id] # None,
         RecordOK(id, rec), rec.created = Ledger[id].created, rec.key = Ledger[id].key,
         Ledger[id].launched => rec.launched,
         h[p].id = id, h[p].pc = "fence" \/ rec.launched = Ledger[id].launched,
         UNCHANGED <<now, meters, boxes, creating, sent>>,
         h' = [h EXCEPT ![p] = h'[p]], h'[p] \in HandlerStates,
         h'[p].pc \notin Creation, h'[p].pc \notin Charged,
         HandlerOK(h[p])'
  PROVE  Inv'
  <1>1. TypeOK /\ \A g \in Ids : sessions'[g] = IF g = id THEN rec ELSE Ledger[g]
    BY DEF Inv, Update, Ledger
  <1>2. rec # None /\ rec \in Records
    BY NoneAssumption DEF RecordOK
  <1>3. sessions' = [g \in Ids |-> sessions'[g]] /\ latest' = Latest /\ drawn' = drawn
    BY DEF Update, Ledger
  <1>4. ASSUME NEW g \in Ids PROVE Written(g)
    <2>1. CASE g = id
      <3>1. /\ sessions[id] # None /\ Ledger[id].created = sessions[id].created
            /\ Ledger[id].key = sessions[id].key /\ Ledger[id].launched = sessions[id].launched
        BY LedgerFacts
      <3>2. sessions'[id] = rec
        BY <1>1
      <3> QED BY <1>2, <2>1, <3>1, <3>2 DEF Written
    <2>2. CASE g # id
      <3>1. sessions'[g] = Ledger[g]
        BY <1>1, <2>2
      <3> QED BY <3>1, LedgerFacts DEF Written
    <2> QED BY <2>1, <2>2
  <1>5. ASSUME NEW q \in Handlers \ {p}, h[q].pc \in Creation, sessions'[h[q].id] # None
        PROVE  sessions'[h[q].id].launched = sessions[h[q].id].launched
    <2>1. h[q].id \in Ids
      BY <1>5 DEF Inv, HandlersOK, HandlerOK, TypeOK, Creation
    <2>2. CASE h[q].id = id
      <3>1. h[p].pc # "fence"
        BY <1>5, <2>2 DEF Inv, HandlersOK, Creation
      <3>2. rec.launched = sessions[id].launched
        BY <3>1, LedgerFacts
      <3> QED BY <1>1, <2>2, <3>2
    <2>3. CASE h[q].id # id
      BY <1>1, <1>5, <2>1, <2>3, LedgerFacts
    <2> QED BY <2>2, <2>3
  <1>6. latest' \in [Keys -> Ids \cup {None}]
    <2>1. Latest = [k \in Keys |-> Latest[k]]
      BY DEF Latest
    <2> QED BY <1>3, <2>1, LatestFacts
  <1>7. ASSUME NEW g \in Ids, sessions'[g] # None, latest[sessions[g].key] = g
        PROVE  latest'[sessions'[g].key] = g
    <2>1. sessions[g] # None /\ sessions'[g].key = sessions[g].key /\ sessions[g].key \in Keys
      BY <1>1, <1>4, <1>7 DEF Written, TypeOK, Records
    <2>2. Ledger[g] # None
      BY <1>1, <1>7
    <2> QED BY <1>3, <1>7, <2>1, <2>2, LatestFacts
  <1>8. TypeOK' => MetersOK'
    <2>1. \A q \in Handlers : h'[q].pc \in Charged =>
             h[q].pc \in Charged /\ h'[q].id = h[q].id /\ h'[q].mutation = h[q].mutation
      BY <1>1 DEF TypeOK
    <2> QED BY <2>1, MetersCarry
  <1>9. /\ meters' \in [Ids -> Meters \cup {None}]
        /\ \A g \in Ids : meters[g] # None => meters'[g] # None
        /\ sent' \in [Ids -> [requests : Nat, mutations : Nat]]
        /\ h'[p].pc # "create"
    BY <1>1 DEF TypeOK, Creation
  <1> QED BY <1>3, <1>4, <1>5, <1>6, <1>7, <1>8, <1>9, QuietInv


-----------------------------------------------------------------------------
(* The handlers' own steps.                                                *)

\* A handler that rests remembers nothing.
LEMMA IdleOK == Idle \in HandlerStates /\ HandlerOK(Idle) /\ HandlerOK(Idle)'
  <1>1. Idle \in HandlerStates
    BY DEF Idle, HandlerStates, NoBox, Views, ProviderStatuses, Places
  <1>2. Idle.pc = "idle"
    BY DEF Idle
  <1>3. HandlerOK(Idle)
    BY <1>2 DEF HandlerOK, Creation, Early, Expiry, Charged, Proxying, Launched, Remembering
  <1>4. HandlerOK(Idle)'
    BY <1>2 DEF HandlerOK, Creation, Early, Expiry, Charged, Proxying, Launched, Remembering, Idle, NoBox
  <1> QED BY <1>1, <1>3, <1>4

\* What is known of a handler that stands somewhere.
LEMMA HandlerFacts ==
  ASSUME Inv, NEW p \in Handlers
  PROVE  /\ h[p] \in HandlerStates /\ HandlerOK(h[p])
         /\ h[p].pc # "idle" => h[p].id \in Ids
         /\ h[p].since \in Nat /\ h[p].rec \in Records \cup {None} /\ h[p].view \in Views
         /\ h[p].mutation \in BOOLEAN /\ h[p].op \in {"none", "current", "start", "proxy"}
  BY DEF Inv, HandlersOK, TypeOK, HandlerOK, HandlerStates

\* The handler after Done, Step, StepSeen and Return, field by field.
LEMMA DoneFields ==
  ASSUME Inv, NEW p \in Handlers, Done(p)
  PROVE  h'[p] = Idle /\ h' = [h EXCEPT ![p] = h'[p]] /\ h'[p] \in HandlerStates
         /\ h'[p].pc = "idle"
  <1>1. h'[p] = Idle /\ h' = [h EXCEPT ![p] = h'[p]]
    BY DEF Inv, TypeOK, Done
  <1> QED BY <1>1, IdleOK DEF Idle

\* A step to another place changes the place only.
LEMMA StepFields ==
  ASSUME Inv, NEW p \in Handlers, NEW pc \in Places, Step(p, pc)
  PROVE  /\ h' = [h EXCEPT ![p] = h'[p]] /\ h'[p] \in HandlerStates /\ h'[p].pc = pc
         /\ h'[p].op = h[p].op /\ h'[p].since = h[p].since /\ h'[p].id = h[p].id
         /\ h'[p].key = h[p].key /\ h'[p].rec = h[p].rec /\ h'[p].view = h[p].view
         /\ h'[p].mutation = h[p].mutation
  <1>1. h[p] \in HandlerStates /\ h \in [Handlers -> HandlerStates]
    BY DEF Inv, TypeOK
  <1>2. h'[p] = [h[p] EXCEPT !.pc = pc] /\ h' = [h EXCEPT ![p] = h'[p]]
    BY <1>1 DEF Step
  <1>3. h'[p] = [op |-> h[p].op, since |-> h[p].since, pc |-> pc, id |-> h[p].id, key |-> h[p].key,
                 rec |-> h[p].rec, view |-> h[p].view, mutation |-> h[p].mutation]
    BY <1>1, <1>2 DEF HandlerStates
  <1> QED BY <1>1, <1>2, <1>3 DEF HandlerStates

\* A step with a view of the provider changes the place and the view.
LEMMA SeenFields ==
  ASSUME Inv, NEW p \in Handlers, NEW pc \in Places, NEW view \in Views, StepSeen(p, pc, view)
  PROVE  /\ h' = [h EXCEPT ![p] = h'[p]] /\ h'[p] \in HandlerStates /\ h'[p].pc = pc
         /\ h'[p].op = h[p].op /\ h'[p].since = h[p].since /\ h'[p].id = h[p].id
         /\ h'[p].key = h[p].key /\ h'[p].rec = h[p].rec /\ h'[p].view = view
         /\ h'[p].mutation = h[p].mutation
  <1>1. h[p] \in HandlerStates /\ h \in [Handlers -> HandlerStates]
    BY DEF Inv, TypeOK
  <1>2. h'[p] = [h[p] EXCEPT !.pc = pc, !.view = view] /\ h' = [h EXCEPT ![p] = h'[p]]
    BY <1>1 DEF StepSeen
  <1>3. h'[p] = [op |-> h[p].op, since |-> h[p].since, pc |-> pc, id |-> h[p].id, key |-> h[p].key,
                 rec |-> h[p].rec, view |-> view, mutation |-> h[p].mutation]
    BY <1>1, <1>2 DEF HandlerStates
  <1> QED BY <1>1, <1>2, <1>3 DEF HandlerStates

\* A record that reconcile returns is polled again by start, or answers.
LEMMA ReturnFields ==
  ASSUME Inv, NEW p \in Handlers, NEW rec \in Records, Return(p, rec)
  PROVE  /\ h' = [h EXCEPT ![p] = h'[p]] /\ h'[p] \in HandlerStates
         /\ \/ h'[p] = Idle
            \/ /\ h'[p].pc = "poll" /\ h'[p].rec = rec
               /\ h'[p].since = h[p].since /\ h'[p].id = h[p].id /\ h'[p].key = h[p].key
  <1>1. h[p] \in HandlerStates /\ h \in [Handlers -> HandlerStates]
    BY DEF Inv, TypeOK
  <1>2. h' = [h EXCEPT ![p] = h'[p]]
    BY <1>1 DEF Return
  <1>3. CASE h[p].op = "start"
    <2>1. h'[p] = [h[p] EXCEPT !.pc = "poll", !.rec = rec, !.view = NoBox]
      BY <1>1, <1>3 DEF Return
    <2>2. h'[p] = [op |-> h[p].op, since |-> h[p].since, pc |-> "poll", id |-> h[p].id,
                   key |-> h[p].key, rec |-> rec, view |-> NoBox, mutation |-> h[p].mutation]
      BY <1>1, <2>1 DEF HandlerStates
    <2>3. NoBox \in Views /\ "poll" \in Places
      BY DEF NoBox, Views, ProviderStatuses, Places
    <2> QED BY <1>1, <1>2, <2>2, <2>3 DEF HandlerStates
  <1>4. CASE h[p].op # "start"
    BY <1>1, <1>2, <1>4, IdleOK DEF Return
  <1> QED BY <1>3, <1>4

\* A handler that starts on a session.
LEMMA EnterFields ==
  ASSUME Inv, NEW p \in Handlers, NEW x \in HandlerStates, h' = [h EXCEPT ![p] = x]
  PROVE  h'[p] = x /\ h' = [h EXCEPT ![p] = h'[p]] /\ h'[p] \in HandlerStates
  BY DEF Inv, TypeOK

\* Stop, and every other end of a handler that changes nothing else.
LEMMA DoneInv ==
  ASSUME Inv, NEW p \in Handlers, Done(p), UNCHANGED <<now, ledger, meters, boxes, creating, sent>>
  PROVE  Inv'
  <1>1. h'[p] = Idle /\ h' = [h EXCEPT ![p] = h'[p]] /\ h'[p] \in HandlerStates /\ h'[p].pc = "idle"
    BY DoneFields
  <1>2. h'[p].pc # "create" /\ h'[p].pc \notin Creation /\ h'[p].pc \notin Charged
    BY <1>1 DEF Creation, Charged
  <1> QED BY <1>1, <1>2, IdleOK, LookInv

\* The record a reader hands on: of the handler's session, and not older than
\* what the create call did.
ReaderOK(id, rec) ==
  /\ rec \in Records
  /\ sessions[id] # None => /\ rec.created = sessions[id].created
                            /\ rec.launched => sessions[id].launched
  /\ Open(id) => rec.pstat \in {None, "unknown"}

\* A poll that goes on, or an answer.
LEMMA ReturnInv ==
  ASSUME Inv, NEW p \in Handlers, NEW rec, h[p].pc # "idle", ReaderOK(h[p].id, rec), Return(p, rec),
         UNCHANGED <<now, ledger, meters, boxes, creating, sent>>
  PROVE  Inv'
  <1>1. /\ rec \in Records /\ rec # None
        /\ h' = [h EXCEPT ![p] = h'[p]] /\ h'[p] \in HandlerStates
        /\ \/ h'[p] = Idle
           \/ /\ h'[p].pc = "poll" /\ h'[p].rec = rec
              /\ h'[p].since = h[p].since /\ h'[p].id = h[p].id /\ h'[p].key = h[p].key
    BY ReturnFields, NoneAssumption DEF ReaderOK
  <1>2. CASE h'[p] = Idle
    BY <1>1, <1>2, IdleOK, LookInv DEF Idle, Creation, Charged
  <1>3. CASE h'[p] # Idle
    <2>1. HandlerOK(h[p])
      BY HandlerFacts
    <2>2. HandlerOK(h'[p])
      BY <1>1, <1>3, <2>1 DEF HandlerOK, Creation, Early, Expiry, Charged, Proxying, Launched, Remembering, ReaderOK
    <2>3. h'[p].pc # "create" /\ h'[p].pc \notin Creation /\ h'[p].pc \notin Charged
      BY <1>1, <1>3 DEF Creation, Charged
    <2> QED BY <1>1, <2>2, <2>3, LookInv
  <1> QED BY <1>2, <1>3


\* What a request reads of the visitor's session.
LEMMA ReadFacts ==
  ASSUME Inv, NEW id \in Ids, Ledger[id] # None
  PROVE  /\ Ledger[id] \in Records /\ RecordOK(id, Ledger[id]) /\ ReaderOK(id, Ledger[id])
         /\ sessions[id] # None /\ id \in drawn /\ sessions[id] \in Records
         /\ Ledger[id].created = sessions[id].created
         /\ Ledger[id].launched = sessions[id].launched
         /\ ~Future(Expires(Ledger[id])) => ~Open(id) /\ ~Future(Expires(sessions[id]))
         /\ Ledger[id].pstat \notin {None, "unknown"} => ~Open(id)
         /\ Open(id) => Ledger[id].status \in {"starting", "failed"}
         /\ Open(id) /\ Ledger[id].status = "failed" =>
              Ledger[id].pstat = "unknown" /\ HoldsCapacity(Ledger[id])
  <1>1. /\ sessions[id] # None
        /\ RecordOK(id, Ledger[id]) /\ Ledger[id] \in Records
        /\ Ledger[id].created = sessions[id].created
        /\ Ledger[id].launched = sessions[id].launched
    BY LedgerFacts
  <1>2. Open(id) => Future(Expires(sessions[id]))
    BY TombAhead
  <1>3. Expires(Ledger[id]) = Expires(sessions[id])
    BY <1>1 DEF Expires
  <1>4. Open(id) => \/ Ledger[id].status = "starting" /\ Ledger[id].pstat = None
                    \/ Ledger[id].status = "failed" /\ Ledger[id].pstat = "unknown"
    BY <1>1 DEF RecordOK
  <1>5. Open(id) /\ Ledger[id].status = "failed" => HoldsCapacity(Ledger[id])
    BY <1>2, <1>3, <1>4 DEF HoldsCapacity
  <1>6. id \in drawn /\ sessions[id] \in Records
    BY <1>1 DEF RecordOK, Inv, TypeOK
  <1> QED BY <1>1, <1>2, <1>3, <1>4, <1>5, <1>6, NoneAssumption DEF ReaderOK, ProviderStatuses

\* The current session of a visitor is a record of the normalized ledger.
LEMMA CurrentFacts ==
  ASSUME Inv, NEW k \in Keys, Current(k) # None
  PROVE  /\ Latest[k] \in Ids /\ Current(k) = Ledger[Latest[k]] /\ Ledger[Latest[k]] # None
  BY LatestFacts DEF Current

\* A request for the current session.
LEMMA AskCurrentInv ==
  ASSUME Inv, NEW p \in Handlers, NEW k \in Keys, AskCurrent(p, k)
  PROVE  Inv'
  <1> DEFINE id == Latest[k]
             rec == Current(k)
  <1>1. rec # None /\ id \in Ids /\ rec = Ledger[id] /\ Ledger[id] # None
    BY CurrentFacts DEF AskCurrent
  <1>2. /\ rec \in Records /\ ReaderOK(id, rec) /\ sessions[id] # None /\ id \in drawn
        /\ rec.created = sessions[id].created /\ rec.launched = sessions[id].launched
        /\ ~Future(Expires(rec)) => ~Open(id) /\ ~Future(Expires(sessions[id]))
        /\ rec.pstat \notin {None, "unknown"} => ~Open(id)
    BY <1>1, ReadFacts
  <1>3. PICK pc \in {"expireClose", "timeoutStop", "recGet"} :
          /\ pc = "expireClose" <=> ~Future(Expires(rec))
          /\ pc = "timeoutStop" <=> /\ Future(Expires(rec))
                                    /\ rec.status = "failed" /\ rec.timedOut
                                    /\ rec.pstat \notin {None, "unknown"}
          /\ h' = [h EXCEPT ![p] = [Idle EXCEPT !.since = now, !.op = "current", !.pc = pc, !.id = id,
                                                !.key = k, !.rec = rec]]
    BY DEF AskCurrent
  <1> HIDE DEF id, rec
  <1> DEFINE x == [Idle EXCEPT !.since = now, !.op = "current", !.pc = pc, !.id = id, !.key = k,
                               !.rec = rec]
  <1>4. h' = [h EXCEPT ![p] = x] /\ x = [Idle EXCEPT !.since = now, !.op = "current", !.pc = pc, !.id = id, !.key = k,
                               !.rec = rec]
    BY <1>3, Zenon
  <1> HIDE DEF x
  <1>4a. x = [op |-> "current", since |-> now, pc |-> pc, id |-> id, key |-> k,
             rec |-> rec, view |-> NoBox, mutation |-> FALSE]
    BY <1>4 DEF Idle
  <1>4b. NoBox \in Views
    BY DEF NoBox, Views, ProviderStatuses
  <1>5. now \in Nat /\ pc \in Places
    BY DEF Inv, TypeOK, Places
  <1>6. /\ h' = [h EXCEPT ![p] = h'[p]] /\ h'[p] \in HandlerStates /\ h'[p].pc = pc
        /\ h'[p].since = now /\ h'[p].id = id /\ h'[p].key = k /\ h'[p].rec = rec
    <2>1. x \in HandlerStates
      BY <1>1, <1>2, <1>4a, <1>4b, <1>5 DEF HandlerStates
    <2>2. h'[p] = x /\ h' = [h EXCEPT ![p] = h'[p]]
      BY <1>4, <2>1, EnterFields
    <2> QED BY <1>4a, <2>1, <2>2
  <1>7. HandlerOK(h'[p])
    BY <1>1, <1>2, <1>3, <1>5, <1>6, TimingAssumption DEF HandlerOK, Creation, Early, Expiry, Charged, Proxying, Launched, Remembering, ReaderOK
  <1>8. h'[p].pc # "create" /\ h'[p].pc \notin Creation /\ h'[p].pc \notin Charged
    BY <1>6 DEF Creation, Charged
  <1> QED BY <1>6, <1>7, <1>8, LookInv DEF AskCurrent

\* A start that finds a session.
LEMMA ReserveExistingInv ==
  ASSUME Inv, NEW p \in Handlers, NEW k \in Keys, ReserveExisting(p, k)
  PROVE  Inv'
  <1> DEFINE id == Latest[k]
             rec == Current(k)
  <1>1. rec # None /\ id \in Ids /\ rec = Ledger[id] /\ Ledger[id] # None
    BY CurrentFacts DEF ReserveExisting
  <1>2. /\ rec \in Records /\ ReaderOK(id, rec) /\ sessions[id] # None /\ id \in drawn
        /\ rec.created = sessions[id].created /\ rec.launched = sessions[id].launched
    BY <1>1, ReadFacts
  <1>3. h' = [h EXCEPT ![p] = [Idle EXCEPT !.op = "current", !.since = Since(p), !.pc = "recGet",
                                           !.id = id, !.key = k, !.rec = rec]]
    BY DEF ReserveExisting
  <1> HIDE DEF id, rec
  <1> DEFINE x == [Idle EXCEPT !.op = "current", !.since = Since(p), !.pc = "recGet", !.id = id,
                               !.key = k, !.rec = rec]
  <1>4. h' = [h EXCEPT ![p] = x] /\ x = [Idle EXCEPT !.op = "current", !.since = Since(p), !.pc = "recGet", !.id = id,
                               !.key = k, !.rec = rec]
    BY <1>3, Zenon
  <1> HIDE DEF x
  <1>4a. x = [op |-> "current", since |-> Since(p), pc |-> "recGet", id |-> id, key |-> k,
             rec |-> rec, view |-> NoBox, mutation |-> FALSE]
    BY <1>4 DEF Idle
  <1>4b. NoBox \in Views
    BY DEF NoBox, Views, ProviderStatuses
  <1>5. /\ Since(p) \in Nat /\ "recGet" \in Places /\ now \in Nat
        /\ Since(p) <= now /\ now <= Since(p) + MaxDuration
    BY HandlerFacts, TimingAssumption DEF Inv, TypeOK, Places, Since, HandlerOK, At
  <1>6. /\ h' = [h EXCEPT ![p] = h'[p]] /\ h'[p] \in HandlerStates /\ h'[p].pc = "recGet"
        /\ h'[p].since = Since(p) /\ h'[p].id = id /\ h'[p].key = k /\ h'[p].rec = rec
    <2>1. x \in HandlerStates
      BY <1>1, <1>2, <1>4a, <1>4b, <1>5 DEF HandlerStates
    <2>2. h'[p] = x /\ h' = [h EXCEPT ![p] = h'[p]]
      BY <1>4, <2>1, EnterFields
    <2> QED BY <1>4a, <2>1, <2>2
  <1>7. HandlerOK(h'[p])
    BY <1>1, <1>2, <1>5, <1>6 DEF HandlerOK, Creation, Early, Expiry, Charged, Proxying, Launched, Remembering, ReaderOK
  <1>8. h'[p].pc # "create" /\ h'[p].pc \notin Creation /\ h'[p].pc \notin Charged
    BY <1>6 DEF Creation, Charged
  <1> QED BY <1>6, <1>7, <1>8, LookInv DEF ReserveExisting

\* A reset that finds its session, or another one.
LEMMA AskResetInv ==
  ASSUME Inv, NEW p \in Handlers, NEW k \in Keys, AskReset(p, k)
  PROVE  Inv'
  <1> DEFINE id == Latest[k]
             rec == Current(k)
  <1>1. rec # None /\ id \in Ids /\ rec = Ledger[id] /\ Ledger[id] # None /\ Resettable(rec)
    BY CurrentFacts DEF AskReset
  <1>2. /\ rec \in Records /\ sessions[id] # None /\ id \in drawn
        /\ rec.created = sessions[id].created /\ rec.launched = sessions[id].launched
        /\ Open(id) => rec.status \in {"starting", "failed"}
        /\ Open(id) /\ rec.status = "failed" => rec.pstat = "unknown" /\ HoldsCapacity(rec)
    BY <1>1, ReadFacts
  <1>3. ~Open(id)
    BY <1>1, <1>2 DEF Resettable
  <1>4. h' = [h EXCEPT ![p] = [Idle EXCEPT !.since = now, !.op = "start", !.pc = "resetClose",
                                           !.id = id, !.key = k, !.rec = rec]]
    BY DEF AskReset
  <1> HIDE DEF id, rec
  <1> DEFINE x == [Idle EXCEPT !.since = now, !.op = "start", !.pc = "resetClose", !.id = id,
                               !.key = k, !.rec = rec]
  <1>5. h' = [h EXCEPT ![p] = x] /\ x = [Idle EXCEPT !.since = now, !.op = "start", !.pc = "resetClose", !.id = id,
                               !.key = k, !.rec = rec]
    BY <1>4, Zenon
  <1> HIDE DEF x
  <1>5a. x = [op |-> "start", since |-> now, pc |-> "resetClose", id |-> id, key |-> k,
             rec |-> rec, view |-> NoBox, mutation |-> FALSE]
    BY <1>5 DEF Idle
  <1>5b. NoBox \in Views
    BY DEF NoBox, Views, ProviderStatuses
  <1>6. now \in Nat /\ "resetClose" \in Places
    BY DEF Inv, TypeOK, Places
  <1>7. /\ h' = [h EXCEPT ![p] = h'[p]] /\ h'[p] \in HandlerStates /\ h'[p].pc = "resetClose"
        /\ h'[p].since = now /\ h'[p].id = id /\ h'[p].key = k /\ h'[p].rec = rec
    <2>1. x \in HandlerStates
      BY <1>1, <1>2, <1>5a, <1>5b, <1>6 DEF HandlerStates
    <2>2. h'[p] = x /\ h' = [h EXCEPT ![p] = h'[p]]
      BY <1>5, <2>1, EnterFields
    <2> QED BY <1>5a, <2>1, <2>2
  <1>8. HandlerOK(h'[p])
    BY <1>1, <1>2, <1>3, <1>6, <1>7, TimingAssumption DEF HandlerOK, Creation, Early, Expiry, Charged, Proxying, Launched, Remembering
  <1>9. h'[p].pc # "create" /\ h'[p].pc \notin Creation /\ h'[p].pc \notin Charged
    BY <1>7 DEF Creation, Charged
  <1> QED BY <1>7, <1>8, <1>9, LookInv DEF AskReset

\* A request to a sandbox.
LEMMA AskProxyInv ==
  ASSUME Inv, NEW p \in Handlers, NEW k \in Keys, NEW id \in Ids, NEW mutation \in BOOLEAN,
         AskProxy(p, k, id, mutation)
  PROVE  Inv'
  <1> DEFINE rec == Ledger[id]
  <1>1. rec # None
    BY DEF AskProxy
  <1>2. /\ rec \in Records /\ sessions[id] # None /\ id \in drawn /\ RecordOK(id, rec)
        /\ rec.created = sessions[id].created /\ rec.launched = sessions[id].launched
        /\ ~Future(Expires(rec)) => ~Open(id) /\ ~Future(Expires(sessions[id]))
    BY <1>1, ReadFacts
  <1>3. PICK pc \in {"charge", "expireStop"} :
          /\ pc = "charge" <=> Forwardable(id, k)
          /\ pc = "expireStop" => ~Future(Expires(rec))
          /\ h' = [h EXCEPT ![p] = [Idle EXCEPT !.since = now, !.op = "proxy", !.pc = pc, !.id = id,
                                                !.key = k, !.rec = rec, !.mutation = mutation]]
    BY DEF AskProxy
  <1>4. Forwardable(id, k) => rec.launched /\ ~Open(id)
    BY <1>2 DEF Forwardable, RecordOK
  <1> HIDE DEF rec
  <1> DEFINE x == [Idle EXCEPT !.since = now, !.op = "proxy", !.pc = pc, !.id = id, !.key = k,
                               !.rec = rec, !.mutation = mutation]
  <1>5. h' = [h EXCEPT ![p] = x] /\ x = [Idle EXCEPT !.since = now, !.op = "proxy", !.pc = pc, !.id = id, !.key = k,
                               !.rec = rec, !.mutation = mutation]
    BY <1>3, Zenon
  <1> HIDE DEF x
  <1>5a. x = [op |-> "proxy", since |-> now, pc |-> pc, id |-> id, key |-> k,
             rec |-> rec, view |-> NoBox, mutation |-> mutation]
    BY <1>5 DEF Idle
  <1>5b. NoBox \in Views
    BY DEF NoBox, Views, ProviderStatuses
  <1>6. now \in Nat /\ pc \in Places
    BY DEF Inv, TypeOK, Places
  <1>7. /\ h' = [h EXCEPT ![p] = h'[p]] /\ h'[p] \in HandlerStates /\ h'[p].pc = pc
        /\ h'[p].since = now /\ h'[p].id = id /\ h'[p].key = k /\ h'[p].rec = rec
    <2>1. x \in HandlerStates
      BY <1>1, <1>2, <1>5a, <1>5b, <1>6 DEF HandlerStates
    <2>2. h'[p] = x /\ h' = [h EXCEPT ![p] = h'[p]]
      BY <1>5, <2>1, EnterFields
    <2> QED BY <1>5a, <2>1, <2>2
  <1>8. HandlerOK(h'[p])
    BY <1>1, <1>2, <1>3, <1>4, <1>6, <1>7, TimingAssumption DEF HandlerOK, Creation, Early, Expiry, Charged, Proxying, Launched, Remembering
  <1>9. h'[p].pc # "create" /\ h'[p].pc \notin Creation /\ h'[p].pc \notin Charged
    BY <1>7 DEF Creation, Charged
  <1> QED BY <1>7, <1>8, <1>9, LookInv DEF AskProxy


-----------------------------------------------------------------------------
(* Handlers that look at the provider or at the ledger and go on.          *)

\* What a look at the provider shows once no create call is open.
LEMMA BoxView ==
  ASSUME Inv, NEW id \in Ids
  PROVE  /\ boxes[id] \in Views /\ boxes[id].st \in ProviderLive \cup {"stopped", "missing"}
         /\ boxes[id].exp \in Nat
         /\ boxes[id].st # "missing" => ~Open(id)
         /\ ~Open(id) => ViewOK(id, boxes[id])
  <1>1. /\ boxes[id] \in Boxes /\ boxes[id].st \in ProviderLive \cup {"stopped", "missing"}
        /\ boxes[id].exp \in Nat
    BY DEF Inv, TypeOK, Boxes
  <1>2. boxes[id] \in Views
    BY <1>1 DEF Boxes, Views, ProviderStatuses
  <1>3. boxes[id].st # "missing" => ~Open(id) /\ Window(id, boxes[id].exp)
    BY DEF Inv, BoxesOK, BoxOK
  <1>4. ~Open(id) => ViewOK(id, boxes[id])
    BY <1>1, <1>3, NoneAssumption DEF ViewOK, Dead, Live, ProviderLive, Gone
  <1> QED BY <1>1, <1>2, <1>3, <1>4

\* Reconcile looks at the provider.
LEMMA ReconcileGetInv ==
  ASSUME Inv, NEW p \in Handlers, ReconcileGet(p)
  PROVE  Inv'
  <1> DEFINE id == h[p].id
             rec == h[p].rec
             view == boxes[id]
             unseen == view.st = "missing" /\ rec.pstat \in {None, "unknown"}
             running == view.st = "running" /\ Future(view.exp)
  <1>1. h[p].pc \in {"recGet", "poll"} /\ UNCHANGED <<now, ledger, meters, boxes, creating, sent>>
    BY DEF ReconcileGet, At
  <1>2. \/ unseen /\ Return(p, rec)
        \/ Terminal(view.st) /\ ~unseen /\ StepSeen(p, "recClose", view)
        \/ ~Terminal(view.st) /\ StepSeen(p, "recUpdate", view)
        \/ ~Terminal(view.st) /\ ((rec.launched /\ Step(p, "probe")) \/ Return(p, rec))
        \/ running /\ Step(p, "failClose")
    BY DEF ReconcileGet
  <1>3. /\ h[p].pc # "idle" /\ id \in Ids /\ h[p].rec \in Records /\ HandlerOK(h[p])
        /\ ReaderOK(id, rec)
    BY <1>1, HandlerFacts DEF HandlerOK, Creation, Early, Expiry, Charged, Proxying, Launched, Remembering, ReaderOK
  <1>4. /\ view \in Views /\ view.st \in ProviderLive \cup {"stopped", "missing"}
        /\ view.st # "missing" => ~Open(id)
        /\ ~Open(id) => ViewOK(id, view)
    BY <1>3, BoxView
  <1>5. CASE Return(p, rec)
    BY <1>1, <1>3, <1>5, ReturnInv
  <1>6. CASE Terminal(view.st) /\ ~unseen /\ StepSeen(p, "recClose", view)
    <2>1. ~Open(id)
      BY <1>1, <1>3, <1>4, <1>6 DEF ReaderOK
    <2>2. ViewOK(id, view)
      BY SMTT(60), <1>4, <2>1
    <2> HIDE DEF view
    <2>3. /\ h' = [h EXCEPT ![p] = h'[p]] /\ h'[p] \in HandlerStates /\ h'[p].pc = "recClose"
          /\ h'[p].since = h[p].since /\ h'[p].id = id
          /\ h'[p].key = h[p].key /\ h'[p].rec = h[p].rec /\ h'[p].view = view
      BY <1>4, <1>6, SeenFields DEF Places
    <2>4. HandlerOK(h'[p])
      BY <1>1, <1>3, <1>6, <2>1, <2>2, <2>3 DEF HandlerOK, Creation, Early, Expiry, Charged, Proxying, Launched, Remembering
    <2> QED BY <1>1, <2>3, <2>4, LookInv DEF Creation, Charged
  <1>7. CASE ~Terminal(view.st) /\ StepSeen(p, "recUpdate", view)
    <2>1. ~Open(id) /\ view.st \in ProviderLive
      BY <1>4, <1>7 DEF Terminal
    <2>2. ViewOK(id, view)
      BY <1>4, <2>1
    <2> HIDE DEF view
    <2>3. /\ h' = [h EXCEPT ![p] = h'[p]] /\ h'[p] \in HandlerStates /\ h'[p].pc = "recUpdate"
          /\ h'[p].since = h[p].since /\ h'[p].id = id
          /\ h'[p].key = h[p].key /\ h'[p].rec = h[p].rec /\ h'[p].view = view
      BY <1>4, <1>7, SeenFields DEF Places
    <2>4. HandlerOK(h'[p])
      BY <1>1, <1>3, <2>1, <2>2, <2>3 DEF HandlerOK, Creation, Early, Expiry, Charged, Proxying, Launched, Remembering
    <2> QED BY <1>1, <2>3, <2>4, LookInv DEF Creation, Charged
  <1>8. CASE ~Terminal(view.st) /\ rec.launched /\ Step(p, "probe")
    <2>1. ~Open(id)
      BY SMTT(60), <1>4, <1>8 DEF Terminal
    <2> HIDE DEF view
    <2>2. /\ h' = [h EXCEPT ![p] = h'[p]] /\ h'[p] \in HandlerStates /\ h'[p].pc = "probe"
          /\ h'[p].since = h[p].since /\ h'[p].id = id
          /\ h'[p].key = h[p].key /\ h'[p].rec = h[p].rec
      BY <1>8, StepFields DEF Places
    <2>3. HandlerOK(h'[p])
      BY <1>1, <1>3, <1>8, <2>1, <2>2 DEF HandlerOK, Creation, Early, Expiry, Charged, Proxying, Launched, Remembering
    <2> QED BY <1>1, <2>2, <2>3, LookInv DEF Creation, Charged
  <1>9. CASE running /\ Step(p, "failClose")
    <2>1. ~Open(id)
      BY SMTT(60), <1>4, <1>9
    <2> HIDE DEF view
    <2>2. /\ h' = [h EXCEPT ![p] = h'[p]] /\ h'[p] \in HandlerStates /\ h'[p].pc = "failClose"
          /\ h'[p].since = h[p].since /\ h'[p].id = id
          /\ h'[p].key = h[p].key /\ h'[p].rec = h[p].rec
      BY <1>9, StepFields DEF Places
    <2>3. HandlerOK(h'[p])
      BY <1>1, <1>3, <2>1, <2>2 DEF HandlerOK, Creation, Early, Expiry, Charged, Proxying, Launched, Remembering
    <2> QED BY <1>1, <2>2, <2>3, LookInv DEF Creation, Charged
  <1> QED BY <1>2, <1>5, <1>6, <1>7, <1>8, <1>9

\* The health of a launched sandbox is asked for.
LEMMA ProbeHealthInv ==
  ASSUME Inv, NEW p \in Handlers, ProbeHealth(p)
  PROVE  Inv'
  <1>1. h[p].pc = "probe" /\ UNCHANGED <<now, ledger, meters, boxes, creating, sent>>
    BY DEF ProbeHealth, At
  <1>2. /\ h[p].pc # "idle" /\ HandlerOK(h[p]) /\ ReaderOK(h[p].id, h[p].rec) /\ ~Open(h[p].id)
    BY <1>1, HandlerFacts DEF HandlerOK, Creation, Early, Expiry, Charged, Proxying, Launched, Remembering, ReaderOK
  <1>3. CASE Return(p, h[p].rec)
    BY <1>1, <1>2, <1>3, ReturnInv
  <1>4. CASE Step(p, "meter")
    <2>1. /\ h' = [h EXCEPT ![p] = h'[p]] /\ h'[p] \in HandlerStates /\ h'[p].pc = "meter"
          /\ h'[p].since = h[p].since /\ h'[p].id = h[p].id
          /\ h'[p].key = h[p].key /\ h'[p].rec = h[p].rec
      BY <1>4, StepFields DEF Places
    <2>2. HandlerOK(h'[p])
      BY <1>1, <1>2, <2>1 DEF HandlerOK, Creation, Early, Expiry, Charged, Proxying, Launched, Remembering
    <2> QED BY <1>1, <2>1, <2>2, LookInv DEF Creation, Charged
  <1> QED BY <1>3, <1>4 DEF ProbeHealth

\* A create call that was answered.
LEMMA CreateOkInv ==
  ASSUME Inv, NEW p \in Handlers, CreateOk(p)
  PROVE  Inv'
  <1> DEFINE view == boxes[h[p].id]
  <1>1. /\ h[p].pc = "created" /\ view.st = "running" /\ StepSeen(p, "fence", view)
        /\ UNCHANGED <<now, ledger, meters, boxes, creating, sent>>
    BY DEF CreateOk, At
  <1>2. HandlerOK(h[p]) /\ h[p].id \in Ids
    BY <1>1, HandlerFacts
  <1>3. view \in Views /\ ~Open(h[p].id) /\ ViewOK(h[p].id, view) /\ view.st \in ProviderLive
    BY SMTT(60), <1>1, <1>2, BoxView DEF ProviderLive
  <1> HIDE DEF view
  <1>4. /\ h' = [h EXCEPT ![p] = h'[p]] /\ h'[p] \in HandlerStates /\ h'[p].pc = "fence"
        /\ h'[p].since = h[p].since /\ h'[p].id = h[p].id
        /\ h'[p].key = h[p].key /\ h'[p].rec = h[p].rec /\ h'[p].view = view
    BY <1>1, <1>3, SeenFields DEF Places
  <1>5. HandlerOK(h'[p])
    BY <1>1, <1>2, <1>3, <1>4 DEF HandlerOK, Creation, Early, Expiry, Charged, Proxying, Launched, Remembering
  <1> QED BY <1>1, <1>4, <1>5, LookInv DEF Creation, Charged

\* A create call that failed.
LEMMA CreateFailsInv ==
  ASSUME Inv, NEW p \in Handlers, CreateFails(p)
  PROVE  Inv'
  <1>1. /\ h[p].pc = "created" /\ Step(p, "createUnknown")
        /\ UNCHANGED <<now, ledger, meters, boxes, creating, sent>>
    BY DEF CreateFails, At
  <1>2. HandlerOK(h[p])
    BY HandlerFacts
  <1>3. /\ h' = [h EXCEPT ![p] = h'[p]] /\ h'[p] \in HandlerStates /\ h'[p].pc = "createUnknown"
        /\ h'[p].since = h[p].since /\ h'[p].id = h[p].id
        /\ h'[p].key = h[p].key /\ h'[p].rec = h[p].rec
    BY <1>1, StepFields DEF Places
  <1>4. HandlerOK(h'[p])
    BY <1>1, <1>2, <1>3 DEF HandlerOK, Creation, Early, Expiry, Charged, Proxying, Launched, Remembering
  <1> QED BY <1>1, <1>3, <1>4, LookInv DEF Creation, Charged

\* A reset that begins a new session.
LEMMA RestartInv ==
  ASSUME Inv, NEW p \in Handlers, Restart(p)
  PROVE  Inv'
  <1>1. /\ h[p].pc = "restart" /\ (Step(p, "reserve") \/ Done(p))
        /\ UNCHANGED <<now, ledger, meters, boxes, creating, sent>>
    BY DEF Restart, At
  <1>2. HandlerOK(h[p])
    BY HandlerFacts
  <1>3. CASE Step(p, "reserve")
    <2>1. /\ h' = [h EXCEPT ![p] = h'[p]] /\ h'[p] \in HandlerStates /\ h'[p].pc = "reserve"
          /\ h'[p].since = h[p].since /\ h'[p].id = h[p].id
          /\ h'[p].key = h[p].key /\ h'[p].rec = h[p].rec
      BY <1>3, StepFields DEF Places
    <2>2. HandlerOK(h'[p])
      BY <1>1, <1>2, <2>1 DEF HandlerOK, Creation, Early, Expiry, Charged, Proxying, Launched, Remembering
    <2> QED BY <1>1, <2>1, <2>2, LookInv DEF Creation, Charged
  <1>4. CASE Done(p)
    BY <1>1, <1>4, DoneInv
  <1> QED BY <1>1, <1>3, <1>4

\* The steps of a proxied request between its charge and its forward.
LEMMA ProxyLooksInv ==
  ASSUME Inv, NEW p \in Handlers, ProxyMeter(p) \/ ProxyLedger(p) \/ ProxyMeterAgain(p)
  PROVE  Inv'
  <1>1. /\ h[p].pc \in {"proxyMeter", "proxyLedger", "proxyMeterAgain"}
        /\ UNCHANGED <<now, ledger, meters, boxes, creating, sent>>
        /\ \/ Step(p, "proxyLedger")
           \/ Step(p, "proxyMeterAgain")
           \/ Step(p, "send")
    BY DEF ProxyMeter, ProxyLedger, ProxyMeterAgain, At
  <1>2. PICK pc \in {"proxyLedger", "proxyMeterAgain", "send"} : Step(p, pc)
    BY <1>1
  <1>3. HandlerOK(h[p])
    BY HandlerFacts
  <1>4. /\ h' = [h EXCEPT ![p] = h'[p]] /\ h'[p] \in HandlerStates /\ h'[p].pc = pc
        /\ h'[p].since = h[p].since /\ h'[p].id = h[p].id
        /\ h'[p].key = h[p].key /\ h'[p].rec = h[p].rec /\ h'[p].mutation = h[p].mutation
    BY <1>2, StepFields DEF Places
  <1>5. HandlerOK(h'[p])
    BY <1>1, <1>3, <1>4 DEF HandlerOK, Creation, Early, Expiry, Charged, Proxying, Launched, Remembering
  <1> QED BY <1>1, <1>4, <1>5, LookInv DEF Creation, Charged

\* The proxy looks at the provider.
LEMMA ProxyGetInv ==
  ASSUME Inv, NEW p \in Handlers, ProxyGet(p)
  PROVE  Inv'
  <1> DEFINE view == boxes[h[p].id]
  <1>1. /\ h[p].pc = "proxyGet" /\ UNCHANGED <<now, ledger, meters, boxes, creating, sent>>
        /\ \/ view.st = "pending" /\ StepSeen(p, "proxyPending", view)
           \/ StepSeen(p, "proxyMeter", view)
           \/ StepSeen(p, "proxyClose", view)
    BY DEF ProxyGet, At
  <1>2. PICK pc \in {"proxyPending", "proxyMeter", "proxyClose"} :
          StepSeen(p, pc, view) /\ (pc = "proxyPending" => view.st = "pending")
    BY <1>1
  <1>3. HandlerOK(h[p]) /\ h[p].id \in Ids
    BY <1>1, HandlerFacts
  <1>4. view \in Views /\ ~Open(h[p].id) /\ ViewOK(h[p].id, view)
    BY SMTT(60), <1>1, <1>3, BoxView DEF HandlerOK, Creation, Early, Expiry, Charged, Proxying, Launched, Remembering
  <1> HIDE DEF view
  <1>5. /\ h' = [h EXCEPT ![p] = h'[p]] /\ h'[p] \in HandlerStates /\ h'[p].pc = pc
        /\ h'[p].since = h[p].since /\ h'[p].id = h[p].id /\ h'[p].mutation = h[p].mutation
        /\ h'[p].key = h[p].key /\ h'[p].rec = h[p].rec /\ h'[p].view = view
    BY <1>2, <1>4, SeenFields DEF Places
  <1>6. HandlerOK(h'[p])
    BY <1>1, <1>2, <1>3, <1>4, <1>5 DEF HandlerOK, Creation, Early, Expiry, Charged, Proxying, Launched, Remembering, ProviderLive
  <1> QED BY <1>1, <1>5, <1>6, LookInv DEF Creation, Charged


-----------------------------------------------------------------------------
(* Transactions.                                                           *)

\* Changing the status and what is known of the provider.
Marked(rec, status, timedOut, st) ==
  [rec EXCEPT !.status = status, !.timedOut = timedOut, !.pstat = st]

\* r is rec with another status and another provider status.
MarkedAs(r, rec, status, st) ==
  /\ r \in Records /\ r.status = status /\ r.pstat = st
  /\ r.key = rec.key /\ r.created = rec.created /\ r.tomb = rec.tomb
  /\ r.launched = rec.launched /\ r.pexp = rec.pexp /\ r.runtime = rec.runtime

\* A record that is marked keeps its other fields.
LEMMA MarkFields ==
  ASSUME NEW rec \in Records, NEW status \in Statuses, NEW timedOut \in BOOLEAN,
         NEW st \in ProviderStatuses
  PROVE  MarkedAs(Marked(rec, status, timedOut, st), rec, status, st)
  <1> DEFINE r == Marked(rec, status, timedOut, st)
  <1>0. r = [rec EXCEPT !.status = status, !.timedOut = timedOut, !.pstat = st]
    BY DEF Marked
  <1> HIDE DEF r
  <1>1. r = [key |-> rec.key, status |-> status, created |-> rec.created, tomb |-> rec.tomb,
             launched |-> rec.launched, pstat |-> st, pexp |-> rec.pexp,
             runtime |-> rec.runtime, timedOut |-> timedOut]
    BY <1>0 DEF Records
  <1>2. r \in Records
    BY <1>1 DEF Records
  <1>3. MarkedAs(r, rec, status, st)
    BY <1>1, <1>2 DEF MarkedAs
  <1> QED BY <1>3 DEF r

\* A record that a transaction may write once no create call is open.
LEMMA WriteOK ==
  ASSUME Inv, NEW id \in Ids, Ledger[id] # None, ~Open(id), NEW rec \in Records,
         rec.created = Ledger[id].created, rec.tomb >= Ledger[id].tomb,
         rec.launched = Ledger[id].launched, rec.runtime => rec.launched /\ meters[id] # None,
         rec.pstat # None \/ rec.pstat = Ledger[id].pstat,
         \/ rec.pexp = Ledger[id].pexp
         \/ /\ rec.pexp \in Nat /\ Window(id, rec.pexp)
            /\ boxes[id].st # "missing" => rec.pexp = boxes[id].exp,
         rec.pstat \in Gone => Dead(id),
         rec.status = "expired" /\ Future(Expires(rec)) => rec.launched \/ Dead(id)
  PROVE  RecordOK(id, rec)
  <1> USE TimingAssumption, NoneAssumption
  <1>1. /\ RecordOK(id, Ledger[id]) /\ Ledger[id] \in Records /\ sessions[id] # None
        /\ Ledger[id].created = sessions[id].created
    BY ReadFacts
  <1>2. rec.created \in Nat /\ rec.tomb \in Nat /\ Ledger[id].tomb \in Nat
    BY <1>1 DEF Records
  <1>3. Expires(rec) = Expires(Ledger[id]) /\ Expires(rec) = Expires(sessions[id])
    BY <1>1 DEF Expires
  <1>4. Expires(rec) \in Nat
    BY <1>2 DEF Expires
  <1>5. id \in drawn /\ rec.created <= now /\ rec.tomb >= Expires(rec) + Tombstone
    BY <1>1, <1>2, <1>3, <1>4 DEF RecordOK
  <1>6. rec.pexp # None => rec.pexp <= Expires(rec) + CreateLatency
    BY <1>1, <1>3 DEF RecordOK, Window
  <1>7. rec.launched => /\ rec.pstat # None /\ rec.pexp # None
                        /\ boxes[id].st # "missing" => rec.pexp = boxes[id].exp
    BY <1>1 DEF RecordOK
  <1> QED BY <1>5, <1>6, <1>7 DEF RecordOK

\* What is observed of the provider may be written.
LEMMA ObserveOK ==
  ASSUME Inv, NEW id \in Ids, Ledger[id] # None, ~Open(id), NEW rec \in Records,
         rec.created = Ledger[id].created, rec.tomb = Ledger[id].tomb,
         rec.launched = Ledger[id].launched, rec.runtime = Ledger[id].runtime,
         rec.pexp = Ledger[id].pexp, rec.key = Ledger[id].key,
         rec.status = "expired" /\ Future(Expires(rec)) => rec.launched \/ Dead(id),
         NEW view \in Views, ViewOK(id, view), NEW exp \in {None, view.exp},
         exp # None => view.st \in ProviderLive \cup {"stopped"}
  PROVE  LET r == Observe(rec, view.st, exp)
         IN  /\ RecordOK(id, r) /\ r \in Records /\ r.created = Ledger[id].created
             /\ r.key = Ledger[id].key /\ r.launched = Ledger[id].launched
             /\ r.status = rec.status /\ r.pstat = view.st
  <1> DEFINE r == Observe(rec, view.st, exp)
  <1>1. view.st \in ProviderStatuses /\ exp \in Nat \cup {None}
    BY DEF Views
  <1>2. /\ r \in Records /\ r.key = rec.key /\ r.status = rec.status /\ r.created = rec.created
        /\ r.launched = rec.launched /\ r.runtime = rec.runtime /\ r.pstat = view.st
        /\ r.pexp = (IF exp = None THEN rec.pexp ELSE exp) /\ r.tomb >= rec.tomb
    <2>1. SeenAs(r, rec, view.st, exp)
      BY <1>1, ObserveFields
    <2> HIDE DEF r
    <2> QED BY <2>1 DEF SeenAs
  <1> HIDE DEF r
  <1>3. r.runtime => r.launched /\ meters[id] # None
    BY <1>2, ReadFacts DEF RecordOK
  <1>4. r.pstat # None
    BY <1>1, <1>2, NoneAssumption
  <1>5. \/ r.pexp = Ledger[id].pexp
        \/ /\ r.pexp \in Nat /\ Window(id, r.pexp)
           /\ boxes[id].st # "missing" => r.pexp = boxes[id].exp
    BY <1>1, <1>2 DEF ViewOK
  <1>6. r.pstat \in Gone => Dead(id)
    BY <1>2 DEF ViewOK
  <1>7. r.status = "expired" /\ Future(Expires(r)) => r.launched \/ Dead(id)
    BY <1>2 DEF Expires
  <1>8. RecordOK(id, r)
    BY <1>2, <1>3, <1>4, <1>5, <1>6, <1>7, WriteOK
  <1> QED BY <1>2, <1>8 DEF r

\* A transaction that ends the request.
LEMMA UpdateDone ==
  ASSUME Inv, NEW p \in Handlers, h[p].pc # "idle", NEW rec, Update(h[p].id, rec),
         Ledger[h[p].id] # None, RecordOK(h[p].id, rec), rec.created = Ledger[h[p].id].created,
         rec.key = Ledger[h[p].id].key, rec.launched = Ledger[h[p].id].launched,
         UNCHANGED <<now, meters, boxes, creating, sent>>, Done(p)
  PROVE  Inv'
  <1>1. /\ h'[p] = Idle /\ h' = [h EXCEPT ![p] = h'[p]] /\ h'[p] \in HandlerStates
        /\ h'[p].pc = "idle"
    BY DoneFields
  <1>2. h'[p].pc \notin Creation /\ h'[p].pc \notin Charged
    BY <1>1 DEF Creation, Charged
  <1>3. HandlerOK(h[p])'
    BY <1>1, IdleOK
  <1>4. h[p].id \in Ids
    BY HandlerFacts
  <1> QED BY <1>1, <1>2, <1>3, <1>4, UpdateInv

\* The state after a transaction, seen from the session it was about.
LEMMA UpdateFacts ==
  ASSUME Inv, NEW id \in Ids, NEW rec, Update(id, rec), UNCHANGED <<boxes, creating>>,
         NEW p \in Handlers, h' = [h EXCEPT ![p] = h'[p]], h'[p].pc # "create"
  PROVE  sessions'[id] = rec /\ drawn' = drawn /\ (Open(id)' => Open(id))
  <1>1. sessions'[id] = rec /\ drawn' = drawn
    BY DEF Update, Ledger
  <1> QED BY <1>1, OpenShrinks

\* A transaction of reconcile, which hands its record on.
LEMMA UpdateReturn ==
  ASSUME Inv, NEW p \in Handlers, h[p].pc # "idle", NEW id \in Ids, h[p].id = id,
         NEW rec, Update(id, rec), Ledger[id] # None, RecordOK(id, rec),
         rec.created = Ledger[id].created, rec.key = Ledger[id].key,
         rec.launched = Ledger[id].launched, ~Open(id), UNCHANGED <<now, meters, boxes, creating, sent>>, Return(p, rec)
  PROVE  Inv'
  <1>1. rec \in Records /\ rec # None
    BY NoneAssumption DEF RecordOK
  <1>2. /\ h' = [h EXCEPT ![p] = h'[p]] /\ h'[p] \in HandlerStates
        /\ \/ h'[p] = Idle
           \/ /\ h'[p].pc = "poll" /\ h'[p].rec = rec
              /\ h'[p].since = h[p].since /\ h'[p].id = id /\ h'[p].key = h[p].key
    BY <1>1, ReturnFields
  <1>3. h'[p].pc \in {"idle", "poll"}
    BY <1>2 DEF Idle
  <1>4. sessions'[id] = rec /\ drawn' = drawn /\ ~Open(id)'
    BY <1>1, <1>2, <1>3, UpdateFacts
  <1>5. HandlerOK(h[p])'
    <2>1. CASE h'[p] = Idle
      BY <2>1, IdleOK
    <2>2. CASE h'[p] # Idle
      <3>1. HandlerOK(h[p])
        BY HandlerFacts
      <3>2. /\ h'[p].id \in drawn' /\ h'[p].key \in Keys
            /\ h'[p].since <= now' /\ now' <= h'[p].since + MaxDuration
        BY <1>2, <1>4, <2>2, <3>1 DEF HandlerOK
      <3>3. h'[p].pc = "poll" /\ h'[p].rec = rec /\ sessions'[id] = rec /\ ~Open(id)' /\ h'[p].id = id
        BY <1>2, <1>4, <2>2
      <3> QED BY <1>1, <3>2, <3>3 DEF HandlerOK, Creation, Early, Expiry, Charged, Proxying, Launched, Remembering
    <2> QED BY <2>1, <2>2
  <1>6. h'[p].pc \notin Creation /\ h'[p].pc \notin Charged
    BY <1>3 DEF Creation, Charged
  <1> QED BY <1>1, <1>2, <1>5, <1>6, UpdateInv


\* What a handler has when it writes to its session's record.
LEMMA WriterFacts ==
  ASSUME Inv, NEW p \in Handlers, h[p].pc # "idle", Ledger[h[p].id] # None
  PROVE  /\ h[p].id \in Ids /\ Ledger[h[p].id] \in Records /\ RecordOK(h[p].id, Ledger[h[p].id])
         /\ Ledger[h[p].id].status \in Statuses
         /\ Ledger[h[p].id].runtime => Ledger[h[p].id].launched /\ meters[h[p].id] # None
         /\ Ledger[h[p].id].tomb \in Nat
         /\ Ledger[h[p].id].created = sessions[h[p].id].created
         /\ Ledger[h[p].id].launched = sessions[h[p].id].launched /\ sessions[h[p].id] # None
         /\ Expires(Ledger[h[p].id]) = Expires(sessions[h[p].id])
         /\ h[p].view \in Views /\ HandlerOK(h[p])
         /\ h[p].view.st \in ProviderStatuses /\ h[p].view.exp \in Nat \cup {None}
         /\ h[p].pc \notin Early => ~Open(h[p].id)
  <1>1. h[p].id \in Ids /\ h[p].view \in Views /\ HandlerOK(h[p])
    BY HandlerFacts
  <1>2. /\ Ledger[h[p].id] \in Records /\ RecordOK(h[p].id, Ledger[h[p].id])
        /\ Ledger[h[p].id].created = sessions[h[p].id].created
        /\ Ledger[h[p].id].launched = sessions[h[p].id].launched /\ sessions[h[p].id] # None
    BY <1>1, ReadFacts
  <1>3. Expires(Ledger[h[p].id]) = Expires(sessions[h[p].id])
    BY <1>2 DEF Expires
  <1>4. h[p].pc \notin Early => ~Open(h[p].id)
    BY <1>1 DEF HandlerOK
  <1>5. Ledger[h[p].id].status \in Statuses /\ Ledger[h[p].id].tomb \in Nat
    BY <1>2 DEF Records
  <1>6. h[p].view.st \in ProviderStatuses /\ h[p].view.exp \in Nat \cup {None}
    BY <1>1 DEF Views
  <1>7. Ledger[h[p].id].runtime => Ledger[h[p].id].launched /\ meters[h[p].id] # None
    BY <1>2 DEF RecordOK
  <1> QED BY <1>1, <1>2, <1>3, <1>4, <1>5, <1>6, <1>7

\* A transaction that only marks the record, and ends the request or goes on.
LEMMA MarkOK ==
  ASSUME Inv, NEW id \in Ids, Ledger[id] # None, ~Open(id), NEW status \in Statuses,
         NEW st \in ProviderStatuses, st \in Gone => Dead(id),
         status = "expired" => Ledger[id].launched \/ Dead(id) \/ ~Future(Expires(Ledger[id]))
  PROVE  LET r == [Ledger[id] EXCEPT !.status = status, !.timedOut = FALSE, !.pstat = st]
         IN  /\ RecordOK(id, r) /\ r \in Records /\ r.created = Ledger[id].created
             /\ r.key = Ledger[id].key /\ r.launched = Ledger[id].launched
  <1> DEFINE r == [Ledger[id] EXCEPT !.status = status, !.timedOut = FALSE, !.pstat = st]
  <1>1. Ledger[id] \in Records /\ RecordOK(id, Ledger[id])
    BY ReadFacts
  <1>2. /\ r \in Records /\ r.key = Ledger[id].key /\ r.status = status
        /\ r.created = Ledger[id].created /\ r.tomb = Ledger[id].tomb
        /\ r.launched = Ledger[id].launched /\ r.pstat = st
        /\ r.pexp = Ledger[id].pexp /\ r.runtime = Ledger[id].runtime
    <2> DEFINE rec == Ledger[id]
    <2>1. rec \in Records /\ r = Marked(rec, status, FALSE, st)
      BY <1>1 DEF Marked
    <2> HIDE DEF r, rec
    <2>2. /\ r \in Records /\ r.key = rec.key /\ r.status = status /\ r.created = rec.created
          /\ r.tomb = rec.tomb /\ r.launched = rec.launched /\ r.pstat = st
          /\ r.pexp = rec.pexp /\ r.runtime = rec.runtime
      <3>1. MarkedAs(r, rec, status, st)
        BY <2>1, MarkFields
      <3> QED BY <3>1 DEF MarkedAs
    <2> QED BY <2>2 DEF rec
  <1> HIDE DEF r
  <1>3. /\ r.runtime => r.launched /\ meters[id] # None
        /\ r.pstat # None /\ r.tomb >= Ledger[id].tomb
    BY <1>1, <1>2, NoneAssumption DEF RecordOK, Records
  <1>4. r.status = "expired" /\ Future(Expires(r)) => r.launched \/ Dead(id)
    BY <1>2 DEF Expires
  <1>5. RecordOK(id, r)
    BY <1>2, <1>3, <1>4, WriteOK
  <1> QED BY <1>2, <1>5 DEF r

\* An expired session is recorded.
LEMMA ExpireUpdateInv ==
  ASSUME Inv, NEW p \in Handlers, ExpireUpdate(p)
  PROVE  Inv'
  <1> DEFINE id == h[p].id
             status == IF Deleted(p) THEN "expired" ELSE "failed"
             base == [Ledger[id] EXCEPT !.status = status, !.timedOut = FALSE]
  <1>1. /\ h[p].pc = "expireUpdate" /\ Ledger[id] # None
        /\ Update(id, Observe(base, h[p].view.st, SeenExp(p)))
        /\ Done(p) /\ UNCHANGED <<now, meters, boxes, creating, sent>>
    BY DEF ExpireUpdate, At
  <1>2. /\ id \in Ids /\ Ledger[id] \in Records /\ h[p].view \in Views /\ ~Open(id)
        /\ Expires(Ledger[id]) = Expires(sessions[id]) /\ sessions[id] # None /\ HandlerOK(h[p])
    BY <1>1, WriterFacts DEF Early
  <1>3. ~Future(Expires(Ledger[id])) /\ ViewOK(id, h[p].view) /\ h[p].view.st # "missing"
    BY <1>1, <1>2 DEF HandlerOK, Expiry
  <1>4. status \in Statuses
    BY DEF Statuses
  <1>5. /\ base \in Records /\ base.key = Ledger[id].key /\ base.created = Ledger[id].created
        /\ base.tomb = Ledger[id].tomb /\ base.launched = Ledger[id].launched
        /\ base.pexp = Ledger[id].pexp /\ base.runtime = Ledger[id].runtime
    BY ZenonT(90), <1>2, <1>4, StatusFields
  <1>6. ~Future(Expires(base))
    BY <1>3, <1>5 DEF Expires
  <1>7. /\ SeenExp(p) \in {None, h[p].view.exp}
        /\ SeenExp(p) # None => h[p].view.st \in ProviderLive \cup {"stopped"}
    BY <1>2, <1>3 DEF SeenExp, Deleted, ViewOK, Views, ProviderStatuses
  <1> HIDE DEF base, id
  <1> DEFINE r == Observe(base, h[p].view.st, SeenExp(p))
  <1>8. /\ RecordOK(id, r) /\ r.created = Ledger[id].created
        /\ r.key = Ledger[id].key /\ r.launched = Ledger[id].launched
    BY <1>1, <1>2, <1>3, <1>5, <1>6, <1>7, ObserveOK
  <1> HIDE DEF r
  <1>9. Update(id, r)
    BY <1>1 DEF r
  <1> QED BY <1>1, <1>8, <1>9, UpdateDone DEF id

\* A session that did not come up in time is recorded.
LEMMA TimeoutUpdateInv ==
  ASSUME Inv, NEW p \in Handlers, TimeoutUpdate(p)
  PROVE  Inv'
  <1> DEFINE id == h[p].id
             st == IF Deleted(p) THEN "deleted" ELSE "unknown"
             r == [Ledger[id] EXCEPT !.pstat = st]
  <1>1. /\ h[p].pc = "timeoutUpdate" /\ Ledger[id] # None /\ Update(id, r)
        /\ Done(p) /\ UNCHANGED <<now, meters, boxes, creating, sent>>
    BY DEF TimeoutUpdate, At
  <1>2. /\ id \in Ids /\ Ledger[id] \in Records /\ RecordOK(id, Ledger[id]) /\ ~Open(id)
        /\ HandlerOK(h[p]) /\ Ledger[id].status \in Statuses /\ Ledger[id].tomb \in Nat
        /\ Ledger[id].runtime => Ledger[id].launched /\ meters[id] # None
    BY <1>1, WriterFacts DEF Early
  <1>3. st \in ProviderStatuses /\ (st \in Gone => Dead(id))
    BY <1>1, <1>2 DEF HandlerOK, ViewOK, Deleted, Gone, ProviderStatuses
  <1> HIDE DEF id
  <1>4. r = [Ledger[id] EXCEPT !.status = Ledger[id].status, !.timedOut = Ledger[id].timedOut,
                               !.pstat = st]
    BY <1>2 DEF Records
  <1> HIDE DEF st
  <1>5. /\ r \in Records /\ r.key = Ledger[id].key /\ r.status = Ledger[id].status
        /\ r.created = Ledger[id].created /\ r.tomb = Ledger[id].tomb
        /\ r.launched = Ledger[id].launched /\ r.pstat = st
        /\ r.pexp = Ledger[id].pexp /\ r.runtime = Ledger[id].runtime
    <2> DEFINE rec == Ledger[id]
    <2>1. /\ rec \in Records /\ rec.status \in Statuses /\ rec.timedOut \in BOOLEAN
          /\ r = Marked(rec, rec.status, rec.timedOut, st)
      BY <1>2, <1>4 DEF Records, Marked
    <2> HIDE DEF r, rec
    <2>2. /\ r \in Records /\ r.key = rec.key /\ r.status = rec.status /\ r.created = rec.created
          /\ r.tomb = rec.tomb /\ r.launched = rec.launched /\ r.pstat = st
          /\ r.pexp = rec.pexp /\ r.runtime = rec.runtime
      <3>1. MarkedAs(r, rec, rec.status, st)
        BY <1>3, <2>1, MarkFields
      <3> QED BY <3>1 DEF MarkedAs
    <2> QED BY <2>2 DEF rec
  <1> HIDE DEF r
  <1>6. /\ r.status = "expired" /\ Future(Expires(r)) => r.launched \/ Dead(id)
        /\ r.pstat # None
    BY <1>2, <1>3, <1>5, NoneAssumption DEF RecordOK, Expires
  <1>7. RecordOK(id, r)
    BY <1>1, <1>2, <1>3, <1>5, <1>6, WriteOK
  <1> QED BY <1>1, <1>5, <1>7, UpdateDone DEF id

\* A sandbox that ended is recorded.
LEMMA ReconcileTerminalInv ==
  ASSUME Inv, NEW p \in Handlers, ReconcileTerminal(p)
  PROVE  Inv'
  <1> DEFINE id == h[p].id
             r == [Ledger[id] EXCEPT !.status = "failed", !.timedOut = FALSE, !.pstat = h[p].view.st]
  <1>1. /\ h[p].pc = "recTerminal" /\ Ledger[id] # None /\ Update(id, r) /\ Return(p, r)
        /\ UNCHANGED <<now, meters, boxes, creating, sent>>
    BY DEF ReconcileTerminal, At
  <1>2. id \in Ids /\ ~Open(id) /\ HandlerOK(h[p]) /\ h[p].view.st \in ProviderStatuses
    BY <1>1, WriterFacts DEF Early
  <1>3. h[p].view.st \in Gone => Dead(id)
    BY SMTT(60), <1>1, <1>2 DEF HandlerOK, ViewOK
  <1>4. /\ RecordOK(id, r) /\ r.created = Ledger[id].created
        /\ r.key = Ledger[id].key /\ r.launched = Ledger[id].launched
    BY <1>1, <1>2, <1>3, MarkOK DEF Statuses
  <1> HIDE DEF r
  <1> QED BY <1>1, <1>2, <1>4, UpdateReturn

\* The same, by the proxy.
LEMMA ProxyEndInv ==
  ASSUME Inv, NEW p \in Handlers, ProxyEnd(p)
  PROVE  Inv'
  <1> DEFINE id == h[p].id
             status == IF Terminal(h[p].view.st) THEN "failed" ELSE "expired"
             r == [Ledger[id] EXCEPT !.status = status, !.timedOut = FALSE, !.pstat = h[p].view.st]
  <1>1. /\ h[p].pc = "proxyEnd" /\ Ledger[id] # None /\ Update(id, r) /\ Done(p)
        /\ UNCHANGED <<now, meters, boxes, creating, sent>>
    BY DEF ProxyEnd, At
  <1>2. /\ id \in Ids /\ ~Open(id) /\ HandlerOK(h[p]) /\ h[p].view.st \in ProviderStatuses
        /\ Ledger[id].launched = sessions[id].launched /\ sessions[id] # None
    BY <1>1, WriterFacts DEF Early
  <1>3. (h[p].view.st \in Gone => Dead(id)) /\ Ledger[id].launched
    BY <1>1, <1>2 DEF HandlerOK, ViewOK, Launched, Proxying
  <1>4. status \in Statuses
    BY DEF Statuses
  <1> HIDE DEF status
  <1>5. /\ RecordOK(id, r) /\ r.created = Ledger[id].created
        /\ r.key = Ledger[id].key /\ r.launched = Ledger[id].launched
    <2>1. PICK st \in ProviderStatuses : st = h[p].view.st
      BY <1>2
    <2>2. st \in Gone => Dead(id)
      BY <1>3, <2>1
    <2> HIDE DEF id
    <2> QED BY ZenonT(90), <1>1, <1>2, <1>3, <1>4, <2>1, <2>2, MarkOK
  <1> HIDE DEF r
  <1> QED BY <1>1, <1>5, UpdateDone

\* A launch whose outcome is unknown is recorded as failed.
LEMMA LaunchUnknownInv ==
  ASSUME Inv, NEW p \in Handlers, LaunchUnknown(p)
  PROVE  Inv'
  <1> DEFINE id == h[p].id
             r == [Ledger[id] EXCEPT !.status = "failed", !.timedOut = FALSE, !.pstat = "running"]
  <1>1. /\ h[p].pc = "launchUnknown" /\ Ledger[id] # None /\ Update(id, r) /\ Done(p)
        /\ UNCHANGED <<now, meters, boxes, creating, sent>>
    BY DEF LaunchUnknown, At
  <1>2. id \in Ids /\ ~Open(id)
    BY SMTT(60), <1>1, WriterFacts DEF Early
  <1>3. /\ RecordOK(id, r) /\ r.created = Ledger[id].created
        /\ r.key = Ledger[id].key /\ r.launched = Ledger[id].launched
    BY ZenonT(90), <1>1, <1>2, MarkOK DEF Statuses, Gone, ProviderStatuses, ProviderLive
  <1> HIDE DEF r
  <1> QED BY <1>1, <1>3, UpdateDone


\* A sandbox that is still pending is recorded by the proxy.
LEMMA ProxyPendingInv ==
  ASSUME Inv, NEW p \in Handlers, ProxyPending(p)
  PROVE  Inv'
  <1> DEFINE id == h[p].id
             r == Observe(Ledger[id], h[p].view.st, h[p].view.exp)
  <1>1. /\ h[p].pc = "proxyPending" /\ Ledger[id] # None /\ Update(id, r)
        /\ Done(p) /\ UNCHANGED <<now, meters, boxes, creating, sent>>
    BY DEF ProxyPending, At
  <1>2. /\ id \in Ids /\ Ledger[id] \in Records /\ h[p].view \in Views /\ ~Open(id)
        /\ HandlerOK(h[p]) /\ RecordOK(id, Ledger[id])
    BY <1>1, WriterFacts DEF Early
  <1>3. ViewOK(id, h[p].view) /\ h[p].view.st \in ProviderLive
    BY <1>1, <1>2 DEF HandlerOK
  <1>4. Ledger[id].status = "expired" /\ Future(Expires(Ledger[id])) =>
          Ledger[id].launched \/ Dead(id)
    BY <1>2 DEF RecordOK
  <1> HIDE DEF id
  <1>5. /\ RecordOK(id, r) /\ r.created = Ledger[id].created
        /\ r.key = Ledger[id].key /\ r.launched = Ledger[id].launched
    BY <1>1, <1>2, <1>3, <1>4, ObserveOK
  <1> HIDE DEF r
  <1> QED BY <1>1, <1>5, UpdateDone DEF id

\* What the provider reports of a live sandbox is recorded.
LEMMA ReconcileUpdateInv ==
  ASSUME Inv, NEW p \in Handlers, ReconcileUpdate(p)
  PROVE  Inv'
  <1>0. PICK id : id = h[p].id
    OBVIOUS
  <1> DEFINE r == Observe(Ledger[id], h[p].view.st, h[p].view.exp)
  <1>1. /\ h[p].pc = "recUpdate" /\ Ledger[id] # None /\ Update(id, r)
        /\ UNCHANGED <<now, meters, boxes, creating, sent>>
        /\ \/ Return(p, r)
           \/ r.launched /\ h' = [h EXCEPT ![p].pc = "probe", ![p].rec = r, ![p].view = NoBox]
    BY ZenonT(90), <1>0 DEF ReconcileUpdate, At
  <1>2. /\ id \in Ids /\ Ledger[id] \in Records /\ h[p].view \in Views /\ ~Open(id)
        /\ HandlerOK(h[p]) /\ RecordOK(id, Ledger[id])
    BY SMTT(60), <1>0, <1>1, WriterFacts DEF Early
  <1>3. ViewOK(id, h[p].view) /\ h[p].view.st \in ProviderLive
    BY <1>0, <1>1, <1>2 DEF HandlerOK
  <1>4. Ledger[id].status = "expired" /\ Future(Expires(Ledger[id])) =>
          Ledger[id].launched \/ Dead(id)
    BY SMTT(60), <1>2 DEF RecordOK
  <1>5. /\ RecordOK(id, r) /\ r.created = Ledger[id].created /\ r \in Records
        /\ r.key = Ledger[id].key /\ r.launched = Ledger[id].launched
    BY <1>1, <1>2, <1>3, <1>4, ObserveOK
  <1> HIDE DEF r
  <1>6. CASE Return(p, r)
    BY <1>0, <1>1, <1>2, <1>5, <1>6, UpdateReturn
  <1>7. CASE r.launched /\ h' = [h EXCEPT ![p].pc = "probe", ![p].rec = r, ![p].view = NoBox]
    <2>1. h[p] \in HandlerStates /\ h \in [Handlers -> HandlerStates]
      BY DEF Inv, TypeOK
    <2>2. h' = [h EXCEPT ![p] = [h[p] EXCEPT !.pc = "probe", !.rec = r, !.view = NoBox]]
      BY <1>7
    <2>3. h'[p] = [h[p] EXCEPT !.pc = "probe", !.rec = r, !.view = NoBox] /\ h' = [h EXCEPT ![p] = h'[p]]
      BY <2>1, <2>2
    <2>4. h'[p] = [op |-> h[p].op, since |-> h[p].since, pc |-> "probe", id |-> h[p].id,
                   key |-> h[p].key, rec |-> r, view |-> NoBox, mutation |-> h[p].mutation]
      BY <2>1, <2>3 DEF HandlerStates
    <2>5. NoBox \in Views /\ "probe" \in Places
      BY DEF NoBox, Views, ProviderStatuses, Places
    <2>6. /\ h'[p] \in HandlerStates /\ h'[p].pc = "probe" /\ h'[p].rec = r
          /\ h'[p].since = h[p].since /\ h'[p].id = id /\ h'[p].key = h[p].key
      BY <1>0, <1>5, <2>1, <2>4, <2>5 DEF HandlerStates
    <2>7. sessions'[id] = r /\ drawn' = drawn /\ ~Open(id)'
      BY <1>1, <1>2, <2>3, <2>6, UpdateFacts
    <2>8. r # None
      BY <1>5, NoneAssumption
    <2>9. /\ id \in drawn' /\ h'[p].key \in Keys
          /\ h'[p].since <= now' /\ now' <= h'[p].since + MaxDuration
      BY <1>0, <1>1, <1>2, <2>6, <2>7 DEF HandlerOK
    <2>10. HandlerOK(h[p])'
      BY <1>7, <2>6, <2>7, <2>8, <2>9 DEF HandlerOK, Creation, Early, Expiry, Charged, Proxying, Launched, Remembering
    <2>11. h'[p].pc \notin Creation /\ h'[p].pc \notin Charged
      BY <2>6 DEF Creation, Charged
    <2> QED BY ZenonT(90), <1>0, <1>1, <1>2, <1>5, <2>3, <2>6, <2>10, <2>11, UpdateInv
  <1> QED BY <1>1, <1>6, <1>7

\* What the fenced transition to ready writes.
Published(rec) == [rec EXCEPT !.status = "ready", !.runtime = TRUE, !.timedOut = FALSE]

\* A record that is published keeps its other fields.
LEMMA PublishFields ==
  ASSUME NEW rec \in Records
  PROVE  LET r == Published(rec)
         IN  /\ r \in Records /\ r.key = rec.key /\ r.status = "ready" /\ r.created = rec.created
             /\ r.tomb = rec.tomb /\ r.launched = rec.launched /\ r.pstat = rec.pstat
             /\ r.pexp = rec.pexp
  <1> DEFINE r == Published(rec)
  <1>0. r = [rec EXCEPT !.status = "ready", !.runtime = TRUE, !.timedOut = FALSE]
    BY DEF Published
  <1> HIDE DEF r
  <1>1. r = [key |-> rec.key, status |-> "ready", created |-> rec.created, tomb |-> rec.tomb,
             launched |-> rec.launched, pstat |-> rec.pstat, pexp |-> rec.pexp,
             runtime |-> TRUE, timedOut |-> FALSE]
    BY <1>0 DEF Records
  <1>2. r \in Records
    BY <1>1 DEF Records, Statuses
  <1> QED BY <1>1, <1>2 DEF r

\* The fenced transition to ready: only of a launched, metered sandbox.
LEMMA PublishReadyInv ==
  ASSUME Inv, NEW p \in Handlers, PublishReady(p)
  PROVE  Inv'
  <1>0. PICK id : id = h[p].id
    OBVIOUS
  <1>1. PICK r : /\ r = Ledger[id] \/ r = Published(Ledger[id])
                 /\ Update(id, r) /\ Return(p, r)
    BY <1>0, Zenon DEF PublishReady, Published
  <1>2. /\ h[p].pc = "publish" /\ Ledger[id] # None
        /\ UNCHANGED <<now, meters, boxes, creating, sent>>
    BY <1>0 DEF PublishReady, At
  <1>3. /\ id \in Ids /\ Ledger[id] \in Records /\ ~Open(id) /\ HandlerOK(h[p])
        /\ RecordOK(id, Ledger[id]) /\ Ledger[id].launched = sessions[id].launched
        /\ sessions[id] # None /\ Ledger[id].tomb \in Nat
    BY <1>0, <1>2, WriterFacts DEF Early
  <1>4. Ledger[id].launched /\ meters[id] # None
    BY <1>0, <1>2, <1>3 DEF HandlerOK, Launched
  <1>5. /\ RecordOK(id, r) /\ r.created = Ledger[id].created
        /\ r.key = Ledger[id].key /\ r.launched = Ledger[id].launched
    <2>1. CASE r = Ledger[id]
      BY <1>3, <2>1
    <2>2. CASE r = Published(Ledger[id])
      <3>1. /\ r \in Records /\ r.key = Ledger[id].key /\ r.status = "ready"
            /\ r.created = Ledger[id].created /\ r.tomb = Ledger[id].tomb
            /\ r.launched = Ledger[id].launched /\ r.pstat = Ledger[id].pstat
            /\ r.pexp = Ledger[id].pexp
        BY <1>3, <2>2, PublishFields
      <3>2. r.tomb >= Ledger[id].tomb /\ (r.pstat \in Gone => Dead(id))
        BY <1>3, <3>1 DEF RecordOK
      <3>3. RecordOK(id, r)
        BY <1>2, <1>3, <1>4, <3>1, <3>2, WriteOK
      <3> QED BY <3>1, <3>3
    <2> QED BY <1>1, <2>1, <2>2
  <1> QED BY <1>0, <1>1, <1>2, <1>3, <1>5, UpdateReturn

\* A session that failed, its sandbox stopped or not.
LEMMA FailClosedInv ==
  ASSUME Inv, NEW p \in Handlers, FailClosed(p)
  PROVE  Inv'
  <1> DEFINE id == h[p].id
             base == [Ledger[id] EXCEPT !.status = "failed", !.timedOut = FALSE]
             o == Observe(base, h[p].view.st, SeenExp(p))
  <1>1. /\ h[p].pc = "failUpdate" /\ Ledger[id] # None
        /\ Update(id, o) \/ Update(id, Ledger[id])
        /\ Done(p) /\ UNCHANGED <<now, meters, boxes, creating, sent>>
    BY DEF FailClosed, At
  <1>2. /\ id \in Ids /\ Ledger[id] \in Records /\ h[p].view \in Views /\ ~Open(id)
        /\ HandlerOK(h[p]) /\ RecordOK(id, Ledger[id])
    BY <1>1, WriterFacts DEF Early
  <1>3. ViewOK(id, h[p].view) /\ h[p].view.st # "missing"
    BY <1>1, <1>2 DEF HandlerOK
  <1>4. /\ base \in Records /\ base.key = Ledger[id].key /\ base.created = Ledger[id].created
        /\ base.tomb = Ledger[id].tomb /\ base.launched = Ledger[id].launched
        /\ base.pexp = Ledger[id].pexp /\ base.runtime = Ledger[id].runtime
        /\ base.status = "failed"
    <2>1. "failed" \in Statuses
      BY DEF Statuses
    <2> QED BY <1>2, <2>1, StatusFields
  <1>5. /\ SeenExp(p) \in {None, h[p].view.exp}
        /\ SeenExp(p) # None => h[p].view.st \in ProviderLive \cup {"stopped"}
    BY <1>2, <1>3 DEF SeenExp, Deleted, ViewOK, Views, ProviderStatuses
  <1> HIDE DEF base, id
  <1>6. /\ RecordOK(id, o) /\ o.created = Ledger[id].created
        /\ o.key = Ledger[id].key /\ o.launched = Ledger[id].launched
    BY <1>1, <1>2, <1>3, <1>4, <1>5, ObserveOK
  <1> HIDE DEF o
  <1> QED BY <1>1, <1>2, <1>6, UpdateDone DEF id

\* A create call whose outcome is unknown: the record keeps its capacity
\* until the sandbox was seen, or can no longer come.
LEMMA CreateUnknownInv ==
  ASSUME Inv, NEW p \in Handlers, CreateUnknown(p)
  PROVE  Inv'
  <1> DEFINE id == h[p].id
             base == [Ledger[id] EXCEPT !.status = "failed", !.timedOut = FALSE, !.pexp = None]
             unseen == Observe(base, "unknown", None)
             seen == Observe(base, boxes[id].st, boxes[id].exp)
  <1> USE NoneAssumption
  <1>1. /\ h[p].pc = "createUnknown" /\ Ledger[id] # None
        /\ Update(id, unseen) \/ (boxes[id].st # "missing" /\ Update(id, seen))
        /\ Done(p) /\ UNCHANGED <<now, meters, boxes, creating, sent>>
    BY SMTT(60) DEF CreateUnknown, At
  <1>2. /\ id \in Ids /\ Ledger[id] \in Records /\ HandlerOK(h[p]) /\ RecordOK(id, Ledger[id])
        /\ Ledger[id].launched = sessions[id].launched /\ sessions[id] # None
        /\ Ledger[id].tomb \in Nat /\ Ledger[id].created = sessions[id].created
    BY <1>1, WriterFacts
  <1>3. ~Ledger[id].launched /\ ~Ledger[id].runtime
    BY <1>1, <1>2 DEF HandlerOK, Creation, RecordOK
  <1>4. /\ base \in Records /\ base.key = Ledger[id].key /\ base.created = Ledger[id].created
        /\ base.tomb = Ledger[id].tomb /\ base.launched = Ledger[id].launched
        /\ base.pexp = None /\ base.runtime = Ledger[id].runtime /\ base.status = "failed"
    <2> DEFINE rec == Ledger[id]
    <2>1. rec \in Records /\ base = [rec EXCEPT !.status = "failed", !.timedOut = FALSE, !.pexp = None]
      BY <1>2
    <2> HIDE DEF base, rec
    <2>2. base = [key |-> rec.key, status |-> "failed", created |-> rec.created,
                  tomb |-> rec.tomb, launched |-> rec.launched, pstat |-> rec.pstat,
                  pexp |-> None, runtime |-> rec.runtime, timedOut |-> FALSE]
      BY <2>1 DEF Records
    <2>3. base \in Records
      BY <2>1, <2>2 DEF Records, Statuses
    <2> QED BY <2>2, <2>3 DEF rec
  <1> HIDE DEF base
  <1>5. /\ RecordOK(id, unseen) /\ unseen.created = Ledger[id].created
        /\ unseen.key = Ledger[id].key /\ unseen.launched = Ledger[id].launched
    <2>0. base \in Records /\ "unknown" \in ProviderStatuses /\ None \in Nat \cup {None}
      BY <1>4 DEF ProviderStatuses
    <2>1. /\ unseen \in Records /\ unseen.key = base.key /\ unseen.status = base.status
          /\ unseen.created = base.created /\ unseen.launched = base.launched
          /\ unseen.runtime = base.runtime /\ unseen.pstat = "unknown"
          /\ unseen.pexp = base.pexp /\ unseen.tomb >= base.tomb
      <3>1. SeenAs(unseen, base, "unknown", None)
        BY <2>0, ObserveFields
      <3> HIDE DEF unseen
      <3> QED BY <3>1 DEF SeenAs
    <2> HIDE DEF unseen, id
    <2>2. unseen.created \in Nat /\ unseen.tomb \in Nat /\ Expires(unseen) = Expires(Ledger[id])
      BY <1>4, <2>1 DEF Records, Expires
    <2>3. Expires(unseen) \in Nat
      BY <2>2, TimingAssumption DEF Expires
    <2>4. unseen.tomb >= Expires(unseen) + Tombstone
      BY <1>2, <1>4, <2>1, <2>2, <2>3, TimingAssumption DEF RecordOK
    <2>5. /\ id \in drawn /\ unseen.created <= now /\ ~unseen.launched /\ ~unseen.runtime
          /\ Open(id) => now <= unseen.created + MaxDuration + CreateLatency
          /\ unseen.pexp = None /\ unseen.pstat = "unknown" /\ unseen.status = "failed"
      BY <1>2, <1>3, <1>4, <2>1 DEF RecordOK
    <2>6. RecordOK(id, unseen)
      BY <2>1, <2>4, <2>5 DEF RecordOK, Gone
    <2> QED BY <1>4, <2>1, <2>6
  <1>6. boxes[id].st # "missing" =>
          /\ RecordOK(id, seen) /\ seen.created = Ledger[id].created
          /\ seen.key = Ledger[id].key /\ seen.launched = Ledger[id].launched
    <2> SUFFICES ASSUME boxes[id].st # "missing"
                 PROVE  /\ RecordOK(id, seen) /\ seen.created = Ledger[id].created
                        /\ seen.key = Ledger[id].key /\ seen.launched = Ledger[id].launched
      OBVIOUS
    <2>1. /\ boxes[id] \in Views /\ ~Open(id) /\ ViewOK(id, boxes[id]) /\ boxes[id].exp \in Nat
          /\ boxes[id].st \in ProviderLive \cup {"stopped", "missing"}
      BY <1>2, BoxView
    <2>2. boxes[id].st \in ProviderStatuses
      BY <2>1 DEF ProviderStatuses
    <2>3. /\ seen \in Records /\ seen.key = base.key /\ seen.status = base.status
          /\ seen.created = base.created /\ seen.launched = base.launched
          /\ seen.runtime = base.runtime /\ seen.pstat = boxes[id].st
          /\ seen.pexp = (IF boxes[id].exp = None THEN base.pexp ELSE boxes[id].exp)
          /\ seen.tomb >= base.tomb
      <3>1. base \in Records /\ boxes[id].exp \in Nat \cup {None}
        BY <1>4, <2>1
      <3>2. SeenAs(seen, base, boxes[id].st, boxes[id].exp)
        BY <2>2, <3>1, ObserveFields
      <3> HIDE DEF seen
      <3> QED BY <3>2 DEF SeenAs
    <2> HIDE DEF seen, id
    <2>4. /\ seen.pexp = boxes[id].exp /\ Window(id, boxes[id].exp)
          /\ seen.pstat # None /\ (seen.pstat \in Gone => Dead(id))
      BY <2>1, <2>2, <2>3 DEF ViewOK
    <2>5. RecordOK(id, seen)
      BY <1>1, <1>2, <1>3, <1>4, <2>1, <2>3, <2>4, WriteOK
    <2> QED BY <1>4, <2>3, <2>5
  <1> HIDE DEF seen, unseen
  <1> QED BY <1>1, <1>5, <1>6, UpdateDone


\* A transaction of reset, which goes on.
LEMMA UpdateStep ==
  ASSUME Inv, NEW p \in Handlers, h[p].pc # "idle", NEW id \in Ids, h[p].id = id,
         NEW rec, Update(id, rec), Ledger[id] # None, RecordOK(id, rec),
         rec.created = Ledger[id].created, rec.key = Ledger[id].key,
         rec.launched = Ledger[id].launched, ~Open(id),
         UNCHANGED <<now, meters, boxes, creating, sent>>,
         NEW pc \in {"resetStop", "restart"}, Step(p, pc)
  PROVE  Inv'
  <1>1. /\ h' = [h EXCEPT ![p] = h'[p]] /\ h'[p] \in HandlerStates /\ h'[p].pc = pc
        /\ h'[p].since = h[p].since /\ h'[p].id = id
        /\ h'[p].key = h[p].key /\ h'[p].rec = h[p].rec
    BY StepFields DEF Places
  <1>2. sessions'[id] = rec /\ drawn' = drawn /\ ~Open(id)'
    BY <1>1, UpdateFacts
  <1>3. /\ Ledger[id].created = sessions[id].created
        /\ Ledger[id].launched = sessions[id].launched /\ sessions[id] # None /\ HandlerOK(h[p])
    BY WriterFacts
  <1>4. HandlerOK(h[p])'
    BY <1>1, <1>2, <1>3 DEF HandlerOK, Creation, Early, Expiry, Charged, Proxying, Launched, Remembering
  <1>5. h'[p].pc \notin Creation /\ h'[p].pc \notin Charged
    BY <1>1 DEF Creation, Charged
  <1> QED BY SMTT(60), <1>1, <1>4, <1>5, UpdateInv

\* A reset marks its session before it stops the sandbox.
LEMMA ResetMarkInv ==
  ASSUME Inv, NEW p \in Handlers, ResetMark(p)
  PROVE  Inv'
  <1>0. PICK id : id = h[p].id
    OBVIOUS
  <1> DEFINE r == [Ledger[id] EXCEPT !.status = "resetting", !.timedOut = FALSE]
  <1>1. /\ h[p].pc = "resetMark" /\ Ledger[id] # None /\ Update(id, r) /\ Step(p, "resetStop")
        /\ UNCHANGED <<now, meters, boxes, creating, sent>>
    BY <1>0 DEF ResetMark, At
  <1>2. /\ id \in Ids /\ Ledger[id] \in Records /\ ~Open(id) /\ RecordOK(id, Ledger[id])
        /\ Ledger[id].tomb \in Nat /\ "resetting" \in Statuses
    BY <1>0, <1>1, WriterFacts DEF Early, Statuses
  <1>3. /\ r \in Records /\ r.key = Ledger[id].key /\ r.status = "resetting"
        /\ r.created = Ledger[id].created /\ r.tomb = Ledger[id].tomb
        /\ r.launched = Ledger[id].launched /\ r.pstat = Ledger[id].pstat
        /\ r.pexp = Ledger[id].pexp /\ r.runtime = Ledger[id].runtime
    BY <1>2, StatusFields
  <1> HIDE DEF r
  <1>4. RecordOK(id, r)
    <2>1. /\ r.tomb >= Ledger[id].tomb /\ (r.runtime => r.launched /\ meters[id] # None)
          /\ r.pstat \in Gone => Dead(id)
      BY <1>2, <1>3 DEF RecordOK
    <2> QED BY <1>1, <1>2, <1>3, <2>1, WriteOK
  <1> QED BY <1>0, <1>1, <1>2, <1>3, <1>4, UpdateStep

\* A reset records the end of the session.
LEMMA ResetUpdateInv ==
  ASSUME Inv, NEW p \in Handlers, ResetUpdate(p)
  PROVE  Inv'
  <1>0. PICK id : id = h[p].id
    OBVIOUS
  <1> DEFINE r == [Ledger[id] EXCEPT !.status = "expired", !.timedOut = FALSE, !.pstat = "deleted"]
             base == [Ledger[id] EXCEPT !.status = "failed", !.timedOut = FALSE]
             o == Observe(base, h[p].view.st, SeenExp(p))
  <1>1. /\ h[p].pc = "resetUpdate" /\ Ledger[id] # None
        /\ UNCHANGED <<now, meters, boxes, creating, sent>>
        /\ \/ Deleted(p) /\ Update(id, r) /\ Step(p, "restart")
           \/ Update(id, o) /\ Done(p)
    BY <1>0 DEF ResetUpdate, At
  <1>2. /\ id \in Ids /\ Ledger[id] \in Records /\ h[p].view \in Views /\ ~Open(id)
        /\ HandlerOK(h[p]) /\ RecordOK(id, Ledger[id])
    BY <1>0, <1>1, WriterFacts DEF Early
  <1>3. ViewOK(id, h[p].view) /\ h[p].view.st # "missing"
    BY <1>0, <1>1, <1>2 DEF HandlerOK
  <1>4. CASE Deleted(p) /\ Update(id, r) /\ Step(p, "restart")
    <2>1. Dead(id)
      BY <1>3, <1>4 DEF Deleted, ViewOK, Gone
    <2>2. "expired" \in Statuses /\ "deleted" \in ProviderStatuses
      BY DEF Statuses, ProviderStatuses
    <2>3. /\ RecordOK(id, r) /\ r.created = Ledger[id].created
          /\ r.key = Ledger[id].key /\ r.launched = Ledger[id].launched
      BY <1>1, <1>2, <2>1, <2>2, MarkOK
    <2> HIDE DEF r
    <2> QED BY <1>0, <1>1, <1>2, <1>4, <2>3, UpdateStep
  <1>5. CASE Update(id, o) /\ Done(p)
    <2>1. /\ base \in Records /\ base.key = Ledger[id].key /\ base.created = Ledger[id].created
          /\ base.tomb = Ledger[id].tomb /\ base.launched = Ledger[id].launched
          /\ base.pexp = Ledger[id].pexp /\ base.runtime = Ledger[id].runtime
          /\ base.status = "failed"
      <3>1. "failed" \in Statuses
        BY DEF Statuses
      <3> QED BY <1>2, <3>1, StatusFields
    <2>2. /\ SeenExp(p) \in {None, h[p].view.exp}
          /\ SeenExp(p) # None => h[p].view.st \in ProviderLive \cup {"stopped"}
      BY <1>2, <1>3 DEF SeenExp, Deleted, ViewOK, Views, ProviderStatuses
    <2> HIDE DEF base
    <2>3. /\ RecordOK(id, o) /\ o.created = Ledger[id].created
          /\ o.key = Ledger[id].key /\ o.launched = Ledger[id].launched
      BY <1>1, <1>2, <1>3, <2>1, <2>2, ObserveOK
    <2> HIDE DEF o
    <2> QED BY <1>0, <1>1, <1>5, <2>3, UpdateDone
  <1> QED BY <1>1, <1>4, <1>5

\* What the launch fence writes when it applies.
LaunchMarked(rec) == [rec EXCEPT !.launched = TRUE]

\* A record that is marked as launched keeps its other fields.
LEMMA LaunchFields ==
  ASSUME NEW rec \in Records
  PROVE  LET r == LaunchMarked(rec)
         IN  /\ r \in Records /\ r.key = rec.key /\ r.status = rec.status /\ r.created = rec.created
             /\ r.tomb = rec.tomb /\ r.launched /\ r.pstat = rec.pstat
             /\ r.pexp = rec.pexp /\ r.runtime = rec.runtime
  <1> DEFINE r == LaunchMarked(rec)
  <1>0. r = [rec EXCEPT !.launched = TRUE]
    BY DEF LaunchMarked
  <1> HIDE DEF r
  <1>1. r = [key |-> rec.key, status |-> rec.status, created |-> rec.created, tomb |-> rec.tomb,
             launched |-> TRUE, pstat |-> rec.pstat, pexp |-> rec.pexp,
             runtime |-> rec.runtime, timedOut |-> rec.timedOut]
    BY <1>0 DEF Records
  <1>2. r \in Records
    BY <1>1 DEF Records
  <1> QED BY <1>1, <1>2 DEF r

\* The launch fence: one handler only passes it, while its session is starting.
LEMMA LaunchFenceInv ==
  ASSUME Inv, NEW p \in Handlers, LaunchFence(p)
  PROVE  Inv'
  <1>0. PICK id : id = h[p].id
    OBVIOUS
  <1> DEFINE o == Observe(Ledger[id], h[p].view.st, h[p].view.exp)
  <1>1. /\ h[p].pc = "fence" /\ Ledger[id] # None
        /\ UNCHANGED <<now, meters, boxes, creating, sent>>
    BY <1>0 DEF LaunchFence, At
  <1>2. PICK r, pc : /\ \/ pc = "launch" /\ r = LaunchMarked(o)
                        \/ pc = "dropStop" /\ r = Ledger[id]
                     /\ Update(id, r) /\ h' = [h EXCEPT ![p].pc = pc, ![p].rec = r]
    BY <1>0, Zenon DEF LaunchFence, LaunchMarked
  <1>3. /\ id \in Ids /\ Ledger[id] \in Records /\ h[p].view \in Views /\ ~Open(id)
        /\ HandlerOK(h[p]) /\ RecordOK(id, Ledger[id]) /\ Ledger[id].tomb \in Nat
        /\ Ledger[id].launched = sessions[id].launched /\ sessions[id] # None
        /\ Ledger[id].created = sessions[id].created
    BY <1>0, <1>1, WriterFacts DEF Early
  <1>4. ViewOK(id, h[p].view) /\ h[p].view.st \in ProviderLive
    BY <1>0, <1>1, <1>3 DEF HandlerOK
  <1>5. Ledger[id].status = "expired" /\ Future(Expires(Ledger[id])) =>
          Ledger[id].launched \/ Dead(id)
    BY <1>3 DEF RecordOK
  <1>6. /\ RecordOK(id, o) /\ o.created = Ledger[id].created /\ o \in Records
        /\ o.key = Ledger[id].key /\ o.launched = Ledger[id].launched
        /\ o.pstat = h[p].view.st /\ o.status = Ledger[id].status
    BY <1>1, <1>3, <1>4, <1>5, ObserveOK
  <1>7. /\ h[p].view.exp \in Nat /\ o.pexp = h[p].view.exp
        /\ boxes[id].st # "missing" => h[p].view.exp = boxes[id].exp
    <2>1. /\ h[p].view.exp # None /\ h[p].view.exp \in Nat \cup {None}
          /\ h[p].view.st \in ProviderStatuses
          /\ boxes[id].st # "missing" => h[p].view.exp = boxes[id].exp
      BY <1>3, <1>4 DEF ViewOK, Views
    <2>2. o.pexp = (IF h[p].view.exp = None THEN Ledger[id].pexp ELSE h[p].view.exp)
      <3>1. SeenAs(o, Ledger[id], h[p].view.st, h[p].view.exp)
        BY <1>3, <2>1, ObserveFields
      <3> HIDE DEF o
      <3> QED BY <3>1 DEF SeenAs
    <2> QED BY <2>1, <2>2
  <1> HIDE DEF o
  <1>8. /\ RecordOK(id, r) /\ r.created = Ledger[id].created /\ r \in Records
        /\ r.key = Ledger[id].key /\ (Ledger[id].launched => r.launched)
        /\ pc = "launch" => r.launched
    <2>1. CASE r = Ledger[id] /\ pc = "dropStop"
      BY <1>3, <2>1
    <2>2. CASE r = LaunchMarked(o) /\ pc = "launch"
      <3>1. /\ r \in Records /\ r.key = o.key /\ r.status = o.status /\ r.created = o.created
            /\ r.tomb = o.tomb /\ r.launched /\ r.pstat = o.pstat
            /\ r.pexp = o.pexp /\ r.runtime = o.runtime
        BY <1>6, <2>2, LaunchFields
      <3>2. Expires(r) = Expires(o)
        BY <3>1 DEF Expires
      <3>3. r.launched => /\ ~Open(id) /\ r.pstat # None /\ r.pexp # None
                          /\ boxes[id].st # "missing" => r.pexp = boxes[id].exp
        BY <1>3, <1>4, <1>6, <1>7, <3>1, NoneAssumption DEF ProviderStatuses
      <3>4. RecordOK(id, r)
        BY <1>3, <1>6, <3>1, <3>2, <3>3 DEF RecordOK
      <3> QED BY <1>6, <3>1, <3>4
    <2> QED BY <1>2, <2>1, <2>2
  <1>9. /\ h' = [h EXCEPT ![p] = h'[p]] /\ h'[p] \in HandlerStates /\ h'[p].pc = pc
        /\ h'[p].since = h[p].since /\ h'[p].id = id /\ h'[p].key = h[p].key /\ h'[p].rec = r
    <2>1. h[p] \in HandlerStates /\ h \in [Handlers -> HandlerStates]
      BY DEF Inv, TypeOK
    <2>2. h' = [h EXCEPT ![p] = [h[p] EXCEPT !.pc = pc, !.rec = r]]
      BY <1>2
    <2>3. h'[p] = [h[p] EXCEPT !.pc = pc, !.rec = r] /\ h' = [h EXCEPT ![p] = h'[p]]
      BY <2>1, <2>2
    <2>4. h'[p] = [op |-> h[p].op, since |-> h[p].since, pc |-> pc, id |-> h[p].id,
                   key |-> h[p].key, rec |-> r, view |-> h[p].view, mutation |-> h[p].mutation]
      BY <2>1, <2>3 DEF HandlerStates
    <2>5. pc \in Places
      BY <1>2 DEF Places
    <2> QED BY <1>0, <1>8, <2>1, <2>3, <2>4, <2>5 DEF HandlerStates
  <1>10. pc \in {"launch", "dropStop"} /\ r # None
    BY <1>2, <1>8, NoneAssumption
  <1>11. sessions'[id] = r /\ drawn' = drawn /\ ~Open(id)'
    <2>1. h' = [h EXCEPT ![p] = h'[p]] /\ h'[p].pc # "create"
      BY <1>9, <1>10
    <2>2. Update(id, r) /\ UNCHANGED <<boxes, creating>>
      BY <1>1, <1>2
    <2> QED BY <1>3, <2>1, <2>2, UpdateFacts
  <1>12. /\ id \in drawn' /\ h'[p].key \in Keys
         /\ h'[p].since <= now' /\ now' <= h'[p].since + MaxDuration
    BY <1>0, <1>1, <1>3, <1>9, <1>11 DEF HandlerOK
  <1>13. HandlerOK(h[p])'
    BY <1>8, <1>9, <1>10, <1>11, <1>12 DEF HandlerOK, Creation, Early, Expiry, Charged, Proxying, Launched, Remembering
  <1>14. h'[p].pc \notin Creation /\ h'[p].pc \notin Charged
    BY <1>9, <1>10 DEF Creation, Charged
  <1> QED BY <1>0, <1>1, <1>2, <1>3, <1>8, <1>9, <1>13, <1>14, UpdateInv



-----------------------------------------------------------------------------
(* Meters.                                                                 *)

\* A step that changes a meter, or what was forwarded.
LEMMA MeterInv ==
  ASSUME Inv, NEW p \in Handlers, UNCHANGED <<now, ledger, boxes, creating>>,
         h' = [h EXCEPT ![p] = h'[p]], h'[p] \in HandlerStates, h'[p].pc \notin Creation,
         HandlerOK(h'[p]) \/ HandlerOK(h[p])',
         meters' \in [Ids -> Meters \cup {None}],
         \A id \in Ids : meters[id] # None => meters'[id] # None,
         sent' \in [Ids -> [requests : Nat, mutations : Nat]],
         TypeOK' => MetersOK'
  PROVE  Inv'
  <1>1. TypeOK /\ now \in Nat /\ now' = now /\ drawn' = drawn
    BY DEF Inv, TypeOK, ledger
  <1>2. h'[p].pc # "create"
    BY DEF Creation
  <1>3. \A id : Open(id)' => Open(id)
    BY <1>2, OpenShrinks
  <1>4. \A id \in Ids : Evolves(id)
    BY <1>3 DEF Evolves, ledger, Live
  <1>5. HandlerOK(h[p])'
    <2> SUFFICES ASSUME HandlerOK(h'[p]) PROVE HandlerOK(h[p])'
      OBVIOUS
    <2>1. \A x \in HandlerStates :
            /\ HandlerOK(x)
            /\ x.pc # "idle" => now' <= x.since + MaxDuration /\ Evolves(x.id)
            /\ x.pc \in Creation /\ sessions'[x.id] # None =>
                 sessions'[x.id].launched = sessions[x.id].launched
            /\ x.pc = "create" => /\ sessions'[x.id] # None /\ boxes'[x.id] = boxes[x.id]
                                  /\ creating'[x.id] = creating[x.id]
            => HandlerOK(x)'
      BY <1>1, HandlerCarries
    <2>2. h'[p].pc # "idle" => now <= h'[p].since + MaxDuration /\ h'[p].id \in Ids
      BY <1>1 DEF HandlerOK, TypeOK
    <2>3. PICK x \in HandlerStates : x = h'[p]
      OBVIOUS
    <2>4. x.pc # "idle" => now' <= x.since + MaxDuration /\ Evolves(x.id)
      BY <1>1, <1>4, <2>2, <2>3
    <2>5. HandlerOK(x)'
      BY <1>1, <1>2, <2>1, <2>3, <2>4 DEF ledger
    <2> QED BY <2>3, <2>5
  <1> QED BY <1>1, <1>2, <1>5, RecordsKept, QuietInv

\* The requests under way to a sandbox are finitely many.
LEMMA ChargedFinite ==
  ASSUME NEW id
  PROVE  /\ IsFiniteSet(ChargedTo(id)) /\ Cardinality(ChargedTo(id)) \in Nat
         /\ IsFiniteSet(MutatingOn(id)) /\ Cardinality(MutatingOn(id)) \in Nat
  <1>1. ChargedTo(id) \subseteq Handlers /\ MutatingOn(id) \subseteq Handlers
    BY DEF ChargedTo, MutatingOn
  <1> QED BY <1>1, NoneAssumption, FS_Subset, FS_CardinalityType

\* Closing a meter, or leaving it.
LEMMA CloseInv ==
  ASSUME Inv, NEW p \in Handlers, NEW next, Step(p, next),
         UNCHANGED <<now, ledger, boxes, creating, sent>>,
         <<h[p].pc, next>> \in {<<"expireClose", "expireStop">>, <<"recClose", "recTerminal">>,
                                <<"resetClose", "resetMark">>, <<"proxyClose", "proxyEnd">>,
                                <<"failClose", "failStop">>},
         \/ UNCHANGED meters
         \/ /\ meters[h[p].id] # None
            /\ meters' = [meters EXCEPT ![h[p].id].open = FALSE]
  PROVE  Inv'
  <1> DEFINE id == h[p].id
  <1>1. \/ h[p].pc = "expireClose" /\ next = "expireStop"
        \/ h[p].pc = "recClose" /\ next = "recTerminal"
        \/ h[p].pc = "resetClose" /\ next = "resetMark"
        \/ h[p].pc = "proxyClose" /\ next = "proxyEnd"
        \/ h[p].pc = "failClose" /\ next = "failStop"
    OBVIOUS
  <1>2. HandlerOK(h[p]) /\ id \in Ids
    BY <1>1, HandlerFacts
  <1>3. /\ h' = [h EXCEPT ![p] = h'[p]] /\ h'[p] \in HandlerStates /\ h'[p].pc = next
        /\ h'[p].since = h[p].since /\ h'[p].id = id /\ h'[p].key = h[p].key
        /\ h'[p].rec = h[p].rec /\ h'[p].view = h[p].view
    <2>1. next \in Places
      BY <1>1 DEF Places
    <2> QED BY <2>1, StepFields
  <1>4. HandlerOK(h'[p])
    BY <1>1, <1>2, <1>3 DEF HandlerOK, Creation, Early, Expiry, Charged, Proxying, Launched, Remembering
  <1>5. h'[p].pc \notin Creation /\ h'[p].pc \notin Charged
    BY <1>1, <1>3 DEF Creation, Charged
  <1>6. /\ meters' \in [Ids -> Meters \cup {None}]
        /\ \A g \in Ids : \/ meters'[g] = meters[g]
                          \/ /\ meters[g] # None /\ meters'[g] # None
                             /\ meters'[g].forwarded = meters[g].forwarded
                             /\ meters'[g].mutations = meters[g].mutations
    <2>1. meters \in [Ids -> Meters \cup {None}]
      BY DEF Inv, TypeOK
    <2>2. CASE UNCHANGED meters
      BY <2>1, <2>2
    <2>3. CASE meters[id] # None /\ meters' = [meters EXCEPT ![id].open = FALSE]
      <3>1. meters[id] \in Meters
        BY <1>2, <2>1, <2>3
      <3>2. meters'[id] = [open |-> FALSE, forwarded |-> meters[id].forwarded,
                           mutations |-> meters[id].mutations]
        BY <1>2, <2>1, <2>3, <3>1 DEF Meters
      <3>3. /\ meters'[id] \in Meters /\ meters'[id].forwarded = meters[id].forwarded
            /\ meters'[id].mutations = meters[id].mutations
        BY <3>1, <3>2 DEF Meters
      <3> HIDE DEF id
      <3>4. \A g \in Ids \ {id} : meters'[g] = meters[g]
        BY <2>1, <2>3
      <3>5. meters' = [g \in Ids |-> meters'[g]]
        BY <2>1, <2>3
      <3>6. meters' \in [Ids -> Meters \cup {None}]
        BY <2>1, <3>3, <3>4, <3>5
      <3>7. /\ meters'[id] # None /\ meters'[id].forwarded = meters[id].forwarded
            /\ meters'[id].mutations = meters[id].mutations
        BY <3>3, NoneAssumption
      <3> QED BY <2>3, <3>4, <3>6, <3>7
    <2> QED BY <2>2, <2>3
  <1>7. TypeOK' => MetersOK'
    <2>1. \A q \in Handlers : h'[q].pc \in Charged =>
             h[q].pc \in Charged /\ h'[q].id = h[q].id /\ h'[q].mutation = h[q].mutation
      BY SMTT(60), <1>3, <1>5 DEF Inv, TypeOK
    <2> QED BY <1>6, <2>1, MetersCarry
  <1>8. sent' \in [Ids -> [requests : Nat, mutations : Nat]]
    BY DEF Inv, TypeOK
  <1> QED BY <1>3, <1>4, <1>5, <1>6, <1>7, <1>8, MeterInv

\* Closing a meter.
LEMMA CloseMeterInv ==
  ASSUME Inv, NEW p \in Handlers,
         \/ CloseMeter(p, "expireClose", "expireStop") \/ CloseMeter(p, "recClose", "recTerminal")
         \/ CloseMeter(p, "resetClose", "resetMark") \/ CloseMeter(p, "proxyClose", "proxyEnd")
         \/ FailCloseMeter(p)
  PROVE  Inv'
  BY CloseInv DEF CloseMeter, FailCloseMeter, At

\* A meter begins at nothing, or goes on as it was found.
LEMMA InitializeMeterInv ==
  ASSUME Inv, NEW p \in Handlers, InitializeMeter(p)
  PROVE  Inv'
  <1>0. PICK id : id = h[p].id
    OBVIOUS
  <1> DEFINE fresh == [open |-> TRUE, forwarded |-> 0, mutations |-> 0]
  <1>1. /\ h[p].pc = "meter" /\ UNCHANGED <<now, ledger, boxes, creating, sent>>
        /\ meters' = IF meters[id] = None THEN [meters EXCEPT ![id] = fresh] ELSE meters
        /\ Step(p, "publish") \/ Return(p, h[p].rec)
    BY <1>0 DEF InitializeMeter, At
  <1>2. /\ HandlerOK(h[p]) /\ id \in Ids /\ h[p].rec \in Records
        /\ meters \in [Ids -> Meters \cup {None}]
    BY <1>0, <1>1, HandlerFacts DEF HandlerOK, Remembering, Inv, TypeOK
  <1>3. fresh \in Meters /\ fresh # None
    <2>1. fresh \in Meters
      BY DEF Meters
    <2> QED BY <2>1, NoneAssumption
  <1>4. /\ meters' \in [Ids -> Meters \cup {None}]
        /\ \A g \in Ids : meters'[g] = IF g = id /\ meters[id] = None THEN fresh ELSE meters[g]
        /\ \A g \in Ids : meters[g] # None => meters'[g] # None
        /\ meters'[id] # None
    BY <1>1, <1>2, <1>3
  <1> HIDE DEF fresh
  <1>5. /\ h' = [h EXCEPT ![p] = h'[p]] /\ h'[p] \in HandlerStates
        /\ \/ h'[p] = Idle
           \/ /\ h'[p].pc \in {"publish", "poll"} /\ h'[p].rec = h[p].rec
              /\ h'[p].since = h[p].since /\ h'[p].id = id /\ h'[p].key = h[p].key
    <2>1. CASE Step(p, "publish")
      BY <1>0, <2>1, StepFields DEF Places
    <2>2. CASE Return(p, h[p].rec)
      BY <1>0, <1>2, <2>2, ReturnFields
    <2> QED BY <1>1, <2>1, <2>2
  <1>6. h'[p].pc \in {"idle", "publish", "poll"}
    BY <1>5 DEF Idle
  <1>7. h'[p].pc \notin Creation /\ h'[p].pc \notin Charged /\ h'[p].pc # "create"
    BY <1>6 DEF Creation, Charged
  <1>8. HandlerOK(h[p])'
    <2>1. CASE h'[p] = Idle
      BY <2>1, IdleOK
    <2>2. CASE h'[p] # Idle
      <3>1. ~Open(id)'
        BY <1>0, <1>1, <1>2, <1>5, <1>7, OpenShrinks DEF HandlerOK, Early
      <3>2. sessions' = sessions /\ drawn' = drawn /\ now' = now
        BY <1>1 DEF ledger
      <3>3. /\ h'[p].pc \in {"publish", "poll"} /\ h'[p].rec = h[p].rec /\ h'[p].rec # None
            /\ h'[p].since = h[p].since /\ h'[p].id = id /\ h'[p].key = h[p].key
        BY <1>2, <1>5, <2>2, NoneAssumption
      <3> QED BY <1>0, <1>1, <1>2, <1>4, <3>1, <3>2, <3>3 DEF HandlerOK, Creation, Early, Expiry, Charged, Proxying, Launched, Remembering
    <2> QED BY <2>1, <2>2
  <1>9. TypeOK' => MetersOK'
    <2> SUFFICES ASSUME TypeOK' PROVE MetersOK'
      OBVIOUS
    <2>1. \A q \in Handlers : h'[q].pc \in Charged =>
             h[q].pc \in Charged /\ h'[q].id = h[q].id /\ h'[q].mutation = h[q].mutation
      BY <1>5, <1>7 DEF Inv, TypeOK
    <2> SUFFICES ASSUME NEW g \in Ids
                 PROVE  IF meters'[g] = None THEN sent'[g].requests = 0 /\ sent'[g].mutations = 0
                        ELSE /\ sent'[g].requests + Cardinality(ChargedTo(g)') <= meters'[g].forwarded
                             /\ meters'[g].forwarded <= RequestsTotal
                             /\ sent'[g].mutations + Cardinality(MutatingOn(g)') <= meters'[g].mutations
                             /\ meters'[g].mutations <= MutationsTotal
      BY DEF MetersOK
    <2>2. ChargedTo(g)' \subseteq ChargedTo(g) /\ MutatingOn(g)' \subseteq MutatingOn(g)
      BY <2>1 DEF ChargedTo, MutatingOn
    <2>3. CASE meters'[g] = meters[g]
      <3>1. /\ Cardinality(ChargedTo(g)') <= Cardinality(ChargedTo(g))
            /\ Cardinality(MutatingOn(g)') <= Cardinality(MutatingOn(g))
            /\ Cardinality(ChargedTo(g)) \in Nat /\ Cardinality(ChargedTo(g)') \in Nat
            /\ Cardinality(MutatingOn(g)) \in Nat /\ Cardinality(MutatingOn(g)') \in Nat
        BY <2>2, ChargedFinite, FS_Subset, FS_CardinalityType
      <3>2. IF meters[g] = None THEN sent[g].requests = 0 /\ sent[g].mutations = 0
            ELSE /\ sent[g].requests + Cardinality(ChargedTo(g)) <= meters[g].forwarded
                 /\ meters[g].forwarded <= RequestsTotal
                 /\ sent[g].mutations + Cardinality(MutatingOn(g)) <= meters[g].mutations
                 /\ meters[g].mutations <= MutationsTotal
        BY DEF Inv, MetersOK
      <3>3. sent'[g] = sent[g] /\ sent[g].requests \in Nat /\ sent[g].mutations \in Nat
        BY <1>1 DEF Inv, TypeOK
      <3>4. meters[g] # None => meters[g].forwarded \in Nat /\ meters[g].mutations \in Nat
        BY DEF Inv, TypeOK, Meters
      <3> HIDE DEF ChargedTo, MutatingOn
      <3> QED BY <2>3, <3>1, <3>2, <3>3, <3>4
    <2>4. CASE meters'[g] # meters[g]
      <3>1. meters[g] = None /\ meters'[g] = fresh
        BY <1>4, <2>4
      <3>2. ChargedTo(g) = {} /\ MutatingOn(g) = {}
        BY <3>1, HandlerFacts DEF ChargedTo, MutatingOn, HandlerOK, Charged
      <3>3. Cardinality(ChargedTo(g)') = 0 /\ Cardinality(MutatingOn(g)') = 0
        BY <2>2, <3>2, FS_EmptySet
      <3>4. sent'[g].requests = 0 /\ sent'[g].mutations = 0
        BY <1>1, <3>1 DEF Inv, MetersOK
      <3> QED BY <3>1, <3>3, <3>4, <1>3, TimingAssumption DEF fresh
    <2> QED BY <2>3, <2>4
  <1>10. sent' \in [Ids -> [requests : Nat, mutations : Nat]]
    BY <1>1 DEF Inv, TypeOK
  <1> QED BY <1>1, <1>4, <1>5, <1>7, <1>8, <1>9, <1>10, MeterInv


\* One more, one less.
LEMMA OneMore ==
  ASSUME NEW S, NEW T, NEW p, IsFiniteSet(S), T \subseteq S \cup {p}
  PROVE  /\ IsFiniteSet(T) /\ Cardinality(T) \in Nat /\ Cardinality(S) \in Nat
         /\ Cardinality(T) <= Cardinality(S) + 1
  <1>1. /\ IsFiniteSet(S \cup {p}) /\ Cardinality(S) \in Nat
        /\ Cardinality(S \cup {p}) <= Cardinality(S) + 1
    BY FS_AddElement, FS_CardinalityType
  <1> QED BY <1>1, FS_Subset, FS_CardinalityType

\* A set without one of its members is smaller.
LEMMA OneLess ==
  ASSUME NEW S, NEW T, NEW p \in S, IsFiniteSet(S), T \subseteq S \ {p}
  PROVE  /\ IsFiniteSet(T) /\ Cardinality(T) \in Nat /\ Cardinality(S) \in Nat
         /\ Cardinality(T) + 1 <= Cardinality(S)
  <1>1. /\ IsFiniteSet(S \ {p}) /\ Cardinality(S \ {p}) = Cardinality(S) - 1
        /\ Cardinality(S) \in Nat /\ Cardinality(S \ {p}) \in Nat
    BY FS_RemoveElement, FS_CardinalityType
  <1> QED BY <1>1, FS_Subset, FS_CardinalityType

\* A charge counts a request before it is sent.
LEMMA ChargeInv ==
  ASSUME Inv, NEW p \in Handlers, Charge(p)
  PROVE  Inv'
  <1>0. PICK id : id = h[p].id
    OBVIOUS
  <1>0a. PICK cost : cost = IF h[p].mutation THEN 1 ELSE 0
    OBVIOUS
  <1>1. /\ h[p].pc = "charge" /\ meters[id] # None
        /\ UNCHANGED <<now, ledger, boxes, creating, sent>>
    BY <1>0 DEF Charge, At, MeterOpen
  <1>2. /\ HandlerOK(h[p]) /\ id \in Ids /\ h[p].rec \in Records
        /\ meters \in [Ids -> Meters \cup {None}] /\ meters[id] \in Meters
    BY <1>0, <1>1, HandlerFacts DEF HandlerOK, Remembering, Inv, TypeOK
  <1>3. CASE Step(p, "expireStop") /\ ~Future(Expires(h[p].rec)) /\ UNCHANGED meters
    <2>1. /\ h' = [h EXCEPT ![p] = h'[p]] /\ h'[p] \in HandlerStates /\ h'[p].pc = "expireStop"
          /\ h'[p].since = h[p].since /\ h'[p].id = id /\ h'[p].key = h[p].key
          /\ h'[p].rec = h[p].rec
      BY <1>0, <1>3, StepFields DEF Places
    <2>2. h[p].rec # None
      BY <1>2, NoneAssumption
    <2>3. HandlerOK(h'[p])
      BY ZenonT(90), <1>0, <1>1, <1>2, <1>3, <2>1, <2>2
         DEF HandlerOK, Creation, Early, Expiry, Charged, Proxying, Launched, Remembering, Expires
    <2>4. h'[p].pc \notin Creation /\ h'[p].pc \notin Charged /\ h'[p].pc # "create"
      BY <2>1 DEF Creation, Charged
    <2> QED BY SMTT(60), <1>1, <1>3, <2>1, <2>3, <2>4, LookInv
  <1>4. CASE /\ WithinBudget(meters[id], cost) /\ Step(p, "proxyGet")
             /\ meters' = [meters EXCEPT ![id].forwarded = @ + 1, ![id].mutations = @ + cost]
    <2>1. /\ h' = [h EXCEPT ![p] = h'[p]] /\ h'[p] \in HandlerStates /\ h'[p].pc = "proxyGet"
          /\ h'[p].since = h[p].since /\ h'[p].id = id /\ h'[p].key = h[p].key
          /\ h'[p].rec = h[p].rec /\ h'[p].mutation = h[p].mutation
      BY <1>0, <1>4, StepFields DEF Places
    <2>2. HandlerOK(h'[p])
      BY <1>0, <1>1, <1>2, <2>1 DEF HandlerOK, Creation, Early, Expiry, Charged, Proxying, Launched, Remembering
    <2>3. h'[p].pc \notin Creation
      BY <2>1 DEF Creation
    <2>4. cost \in {0, 1} /\ meters[id].forwarded \in Nat /\ meters[id].mutations \in Nat
      BY <1>0a, <1>2 DEF Meters
    <2>5. /\ meters'[id] \in Meters /\ meters'[id].forwarded = meters[id].forwarded + 1
          /\ meters'[id].mutations = meters[id].mutations + cost
      <3>1. meters'[id] = [open |-> meters[id].open, forwarded |-> meters[id].forwarded + 1,
                           mutations |-> meters[id].mutations + cost]
        BY <1>2, <1>4 DEF Meters
      <3> QED BY <1>2, <2>4, <3>1 DEF Meters
    <2>6. \A g \in Ids \ {id} : meters'[g] = meters[g]
      BY <1>2, <1>4
    <2>7. /\ meters' \in [Ids -> Meters \cup {None}] /\ meters'[id] # None
          /\ \A g \in Ids : meters[g] # None => meters'[g] # None
      <3>1. meters' = [g \in Ids |-> meters'[g]]
        BY <1>2, <1>4
      <3>2. meters'[id] # None
        BY <2>5, NoneAssumption
      <3> QED BY <1>2, <2>5, <2>6, <3>1, <3>2
    <2>8. ASSUME NEW g \in Ids
          PROVE  IF meters'[g] = None THEN sent'[g].requests = 0 /\ sent'[g].mutations = 0
                 ELSE /\ sent'[g].requests + Cardinality(ChargedTo(g)') <= meters'[g].forwarded
                      /\ meters'[g].forwarded <= RequestsTotal
                      /\ sent'[g].mutations + Cardinality(MutatingOn(g)') <= meters'[g].mutations
                      /\ meters'[g].mutations <= MutationsTotal
      <3>0. \A q \in Handlers : h'[q] = IF q = p THEN h'[p] ELSE h[q]
        BY <2>1 DEF Inv, TypeOK
      <3>1. /\ ChargedTo(g)' \subseteq ChargedTo(g) \cup (IF g = id THEN {p} ELSE {})
            /\ MutatingOn(g)' \subseteq MutatingOn(g) \cup (IF g = id /\ h[p].mutation THEN {p} ELSE {})
        BY <2>1, <3>0 DEF ChargedTo, MutatingOn
      <3>2. IF meters[g] = None THEN sent[g].requests = 0 /\ sent[g].mutations = 0
            ELSE /\ sent[g].requests + Cardinality(ChargedTo(g)) <= meters[g].forwarded
                 /\ meters[g].forwarded <= RequestsTotal
                 /\ sent[g].mutations + Cardinality(MutatingOn(g)) <= meters[g].mutations
                 /\ meters[g].mutations <= MutationsTotal
        BY DEF Inv, MetersOK
      <3>3. sent'[g] = sent[g] /\ sent[g].requests \in Nat /\ sent[g].mutations \in Nat
        BY <1>1 DEF Inv, TypeOK
      <3>4. /\ Cardinality(ChargedTo(g)) \in Nat /\ Cardinality(ChargedTo(g)') \in Nat
            /\ Cardinality(ChargedTo(g)') <= Cardinality(ChargedTo(g)) + (IF g = id THEN 1 ELSE 0)
        <4>1. CASE g = id
          BY <3>1, <4>1, ChargedFinite, OneMore
        <4>2. CASE g # id
          BY <3>1, <4>2, ChargedFinite, FS_Subset, FS_CardinalityType
        <4> QED BY <4>1, <4>2
      <3>5. /\ Cardinality(MutatingOn(g)) \in Nat /\ Cardinality(MutatingOn(g)') \in Nat
            /\ Cardinality(MutatingOn(g)') <= Cardinality(MutatingOn(g)) + (IF g = id THEN cost ELSE 0)
        <4>1. CASE g = id /\ h[p].mutation
          BY <1>0a, <3>1, <4>1, ChargedFinite, OneMore
        <4>2. CASE ~(g = id /\ h[p].mutation)
          <5>1. MutatingOn(g)' \subseteq MutatingOn(g)
            BY <3>1, <4>2
          <5>2. /\ Cardinality(MutatingOn(g)) \in Nat /\ Cardinality(MutatingOn(g)') \in Nat
                /\ Cardinality(MutatingOn(g)') <= Cardinality(MutatingOn(g))
            BY <5>1, ChargedFinite, FS_Subset, FS_CardinalityType
          <5> QED BY <2>4, <5>2
        <4> QED BY <4>1, <4>2
      <3>6. meters[g] # None => meters[g].forwarded \in Nat /\ meters[g].mutations \in Nat
        BY DEF Inv, TypeOK, Meters
      <3> HIDE DEF ChargedTo, MutatingOn
      <3>7. CASE g = id
        <4>1. meters[id].forwarded < RequestsTotal /\ meters[id].mutations + cost <= MutationsTotal
          BY <1>4 DEF WithinBudget
        <4> QED BY <1>1, <2>4, <2>5, <2>7, <3>2, <3>3, <3>4, <3>5, <3>7, <4>1, TimingAssumption
      <3>8. CASE g # id
        BY <2>6, <3>2, <3>3, <3>4, <3>5, <3>6, <3>8
      <3> QED BY <3>7, <3>8
    <2>9. TypeOK' => MetersOK'
      BY <2>8 DEF MetersOK
    <2>10. sent' \in [Ids -> [requests : Nat, mutations : Nat]]
      BY <1>1 DEF Inv, TypeOK
    <2> QED BY <1>1, <2>1, <2>2, <2>3, <2>7, <2>9, <2>10, MeterInv
  <1>5. \/ Step(p, "expireStop") /\ ~Future(Expires(h[p].rec)) /\ UNCHANGED meters
        \/ /\ WithinBudget(meters[id], cost) /\ Step(p, "proxyGet")
           /\ meters' = [meters EXCEPT ![id].forwarded = @ + 1, ![id].mutations = @ + cost]
    BY <1>0, <1>0a DEF Charge
  <1> QED BY <1>3, <1>4, <1>5


\* A request that is sent was counted.
LEMMA ForwardInv ==
  ASSUME Inv, NEW p \in Handlers, Forward(p)
  PROVE  Inv'
  <1>0. PICK id : id = h[p].id
    OBVIOUS
  <1>0a. PICK cost : cost = IF h[p].mutation THEN 1 ELSE 0
    OBVIOUS
  <1>1. /\ h[p].pc = "send" /\ UNCHANGED <<now, ledger, meters, boxes, creating>>
        /\ \/ /\ sent' = [sent EXCEPT ![id].requests = @ + 1, ![id].mutations = @ + cost]
              /\ Done(p) \/ Step(p, "failClose")
           \/ Done(p) /\ UNCHANGED sent
    BY SMTT(60), <1>0, <1>0a DEF Forward, At
  <1>2. /\ HandlerOK(h[p]) /\ id \in Ids /\ ~Open(id) /\ meters[id] # None
        /\ sent \in [Ids -> [requests : Nat, mutations : Nat]]
        /\ meters \in [Ids -> Meters \cup {None}]
    BY <1>0, <1>1, HandlerFacts DEF HandlerOK, Early, Charged, Inv, TypeOK
  <1>3. CASE Done(p) /\ UNCHANGED sent
    BY <1>1, <1>3, DoneInv
  <1>4. CASE /\ sent' = [sent EXCEPT ![id].requests = @ + 1, ![id].mutations = @ + cost]
             /\ Done(p) \/ Step(p, "failClose")
    <2>1. /\ h' = [h EXCEPT ![p] = h'[p]] /\ h'[p] \in HandlerStates
          /\ h'[p].pc \in {"idle", "failClose"} /\ HandlerOK(h'[p])
      <3>1. CASE Done(p)
        BY <3>1, DoneFields, IdleOK
      <3>2. CASE Step(p, "failClose")
        <4>1. /\ h' = [h EXCEPT ![p] = h'[p]] /\ h'[p] \in HandlerStates /\ h'[p].pc = "failClose"
              /\ h'[p].since = h[p].since /\ h'[p].id = id /\ h'[p].key = h[p].key
              /\ h'[p].rec = h[p].rec
          BY <1>0, <3>2, StepFields DEF Places
        <4>2. HandlerOK(h'[p])
          BY <1>0, <1>1, <1>2, <4>1 DEF HandlerOK, Creation, Early, Expiry, Charged, Proxying, Launched, Remembering
        <4> QED BY <4>1, <4>2
      <3> QED BY <1>4, <3>1, <3>2
    <2>2. h'[p].pc \notin Creation /\ h'[p].pc \notin Charged
      BY <2>1 DEF Creation, Charged
    <2>3. cost \in {0, 1} /\ sent[id].requests \in Nat /\ sent[id].mutations \in Nat
      BY <1>0a, <1>2
    <2>4. /\ sent'[id].requests = sent[id].requests + 1
          /\ sent'[id].mutations = sent[id].mutations + cost
          /\ sent'[id] \in [requests : Nat, mutations : Nat]
      <3>1. sent'[id] = [requests |-> sent[id].requests + 1, mutations |-> sent[id].mutations + cost]
        BY <1>2, <1>4
      <3> QED BY <2>3, <3>1
    <2>5. \A g \in Ids \ {id} : sent'[g] = sent[g]
      BY <1>2, <1>4
    <2>6. sent' \in [Ids -> [requests : Nat, mutations : Nat]]
      <3>1. sent' = [g \in Ids |-> sent'[g]]
        BY <1>2, <1>4
      <3>2. \A g \in Ids : sent'[g] \in [requests : Nat, mutations : Nat]
        BY <1>2, <2>4, <2>5
      <3> QED BY <3>1, <3>2
    <2>7. ASSUME NEW g \in Ids
          PROVE  IF meters'[g] = None THEN sent'[g].requests = 0 /\ sent'[g].mutations = 0
                 ELSE /\ sent'[g].requests + Cardinality(ChargedTo(g)') <= meters'[g].forwarded
                      /\ meters'[g].forwarded <= RequestsTotal
                      /\ sent'[g].mutations + Cardinality(MutatingOn(g)') <= meters'[g].mutations
                      /\ meters'[g].mutations <= MutationsTotal
      <3>0. \A q \in Handlers : h'[q] = IF q = p THEN h'[p] ELSE h[q]
        BY <2>1 DEF Inv, TypeOK
      <3>1. /\ ChargedTo(g)' \subseteq ChargedTo(g) \ {p}
            /\ MutatingOn(g)' \subseteq MutatingOn(g) \ {p}
        BY <2>2, <3>0 DEF ChargedTo, MutatingOn
      <3>2. IF meters[g] = None THEN sent[g].requests = 0 /\ sent[g].mutations = 0
            ELSE /\ sent[g].requests + Cardinality(ChargedTo(g)) <= meters[g].forwarded
                 /\ meters[g].forwarded <= RequestsTotal
                 /\ sent[g].mutations + Cardinality(MutatingOn(g)) <= meters[g].mutations
                 /\ meters[g].mutations <= MutationsTotal
        BY DEF Inv, MetersOK
      <3>3. sent[g].requests \in Nat /\ sent[g].mutations \in Nat
        BY <1>2
      <3>4. meters[g] # None => meters[g].forwarded \in Nat /\ meters[g].mutations \in Nat
        BY DEF Inv, TypeOK, Meters
      <3>5. meters' = meters
        BY <1>1
      <3>6. /\ Cardinality(ChargedTo(g)) \in Nat /\ Cardinality(ChargedTo(g)') \in Nat
            /\ Cardinality(MutatingOn(g)) \in Nat /\ Cardinality(MutatingOn(g)') \in Nat
            /\ Cardinality(ChargedTo(g)') <= Cardinality(ChargedTo(g))
            /\ Cardinality(MutatingOn(g)') <= Cardinality(MutatingOn(g))
        BY <3>1, ChargedFinite, FS_Subset, FS_CardinalityType
      <3>7. CASE g = id
        <4>1. p \in ChargedTo(g) /\ (h[p].mutation => p \in MutatingOn(g))
          BY <1>0, <1>1, <3>7 DEF ChargedTo, MutatingOn, Charged
        <4>2. Cardinality(ChargedTo(g)') + 1 <= Cardinality(ChargedTo(g))
          BY <3>1, <4>1, ChargedFinite, OneLess
        <4>3. Cardinality(MutatingOn(g)') + cost <= Cardinality(MutatingOn(g))
          <5>1. CASE h[p].mutation
            BY <1>0a, <3>1, <4>1, <5>1, ChargedFinite, OneLess
          <5>2. CASE ~h[p].mutation
            BY <1>0a, <3>6, <5>2
          <5> QED BY <5>1, <5>2
        <4> HIDE DEF ChargedTo, MutatingOn
        <4> QED BY <1>2, <2>3, <2>4, <3>2, <3>3, <3>4, <3>5, <3>6, <3>7, <4>2, <4>3
      <3>8. CASE g # id
        <4> HIDE DEF ChargedTo, MutatingOn
        <4> QED BY <2>5, <3>2, <3>3, <3>4, <3>5, <3>6, <3>8
      <3> QED BY <3>7, <3>8
    <2>8. TypeOK' => MetersOK'
      BY <2>7 DEF MetersOK
    <2>9. \A g \in Ids : meters[g] # None => meters'[g] # None
      BY <1>1
    <2> QED BY <1>1, <1>2, <2>1, <2>2, <2>6, <2>8, <2>9, MeterInv
  <1> QED BY <1>1, <1>3, <1>4



-----------------------------------------------------------------------------
(* The provider's sandboxes.                                               *)

\* A step of the provider, with or without a handler: the records stay.
LEMMA ProviderInv ==
  ASSUME Inv, UNCHANGED <<now, ledger, meters, sent>>,
         NEW S, \A p, q \in S : p = q,
         \A g \in Ids : Evolves(g),
         boxes' \in [Ids -> Boxes], creating' \in [Ids -> Creates \cup {None}],
         h' \in [Handlers -> HandlerStates], BoxesOK',
         \A q \in Handlers \ S :
           /\ h'[q] = h[q]
           /\ h[q].pc = "create" => /\ boxes'[h[q].id] = boxes[h[q].id]
                                    /\ creating'[h[q].id] = creating[h[q].id],
         \A p \in Handlers \cap S : Moves(p),
         \A q \in Handlers : h'[q].pc \in Charged =>
           h[q].pc \in Charged /\ h'[q].id = h[q].id /\ h'[q].mutation = h[q].mutation
  PROVE  Inv'
  <1>1. /\ TypeOK /\ now \in Nat /\ now' = now /\ now' \in Nat /\ now <= now'
        /\ drawn' = drawn /\ drawn \subseteq drawn' /\ sessions' = sessions /\ latest' = latest
    BY DEF Inv, TypeOK, ledger
  <1>2. TypeOK'
    BY <1>1 DEF TypeOK
  <1>3. RecordsOK'
    <2> SUFFICES ASSUME NEW id \in Ids, sessions'[id] # None PROVE RecordOK(id, sessions[id])'
      BY DEF RecordsOK
    <2>1. RecordOK(id, sessions[id]) /\ Evolves(id)
      BY <1>1 DEF Inv, RecordsOK
    <2>2. \A rec : RecordOK(id, rec)
                   /\ (Open(id)' => now' <= rec.created + MaxDuration + CreateLatency)
                   => RecordOK(id, rec)'
      BY <1>1, <2>1, RecordCarries
    <2>3. Open(id)' => now' <= sessions[id].created + MaxDuration + CreateLatency
      BY <1>1, <2>1 DEF RecordOK, Evolves
    <2> QED BY <1>1, <2>1, <2>2, <2>3
  <1>4. HandlersOK'
    <2>1. ASSUME NEW q \in Handlers \ S PROVE Waits(q)
      <3>1. HandlerOK(h[q]) /\ h'[q] = h[q]
        BY DEF Inv, HandlersOK
      <3>2. h[q].pc # "idle" => now <= h[q].since + MaxDuration /\ h[q].id \in Ids
        BY <1>1, <3>1 DEF HandlerOK, TypeOK
      <3>3. h[q].pc = "create" => sessions'[h[q].id] # None
        BY <1>1, <3>1 DEF HandlerOK
      <3> QED BY <1>1, <3>1, <3>2, <3>3 DEF Waits
    <2> QED BY <1>1, <2>1, HandlersCarry
  <1>5. OccupiedOK'
    BY <1>1, <1>2, OccupiedCarries
  <1>6. MetersOK'
    BY <1>2, MetersCarry
  <1> QED BY <1>2, <1>3, <1>4, <1>5, <1>6 DEF Inv

\* The part about one sandbox, when a step leaves it or changes it in place.
LEMMA BoxKept ==
  ASSUME Inv, UNCHANGED <<now, ledger>>, NEW id \in Ids, Open(id)' => Open(id),
         boxes'[id].st \in {boxes[id].st, "missing"} \/ Live(id),
         boxes'[id].st # "missing" => boxes'[id].exp = boxes[id].exp,
         boxes'[id].up => boxes[id].up /\ boxes'[id].st # "missing",
         creating'[id] \in {creating[id], None}, creating[id] # None => boxes'[id] = boxes[id]
  PROVE  \/ BoxOK(id)' /\ CreateOK(id)' /\ Evolves(id)
         \/ meters'[id] # meters[id]
  <1> SUFFICES ASSUME meters'[id] = meters[id]
               PROVE  BoxOK(id)' /\ CreateOK(id)' /\ Evolves(id)
    OBVIOUS
  <1>1. BoxOK(id) /\ CreateOK(id)
    BY DEF Inv, BoxesOK
  <1>2. /\ sessions' = sessions /\ drawn' = drawn /\ now' = now
    BY DEF ledger
  <1>3. boxes'[id].st # "missing" => boxes[id].st # "missing"
    BY DEF Live, ProviderLive
  <1>4. Live(id)' => Live(id)
    BY DEF Live, ProviderLive
  <1>5. BoxOK(id)'
    <2>1. boxes'[id].st # "missing" => ~Open(id)' /\ id \in drawn' /\ Window(id, boxes[id].exp)'
      BY <1>1, <1>2, <1>3 DEF BoxOK, Window
    <2>2. Live(id)' => boxes'[id].st # "missing"
      BY DEF Live, ProviderLive
    <2>3. Live(id)' => sessions'[id] # None /\ now' <= boxes'[id].exp
      BY <1>1, <1>2, <1>4, <2>2 DEF BoxOK
    <2>4. boxes'[id].up => boxes'[id].st # "missing" /\ (sessions'[id] # None => sessions'[id].launched)
      BY <1>1, <1>2 DEF BoxOK
    <2> QED BY <2>1, <2>3, <2>4 DEF BoxOK
  <1>6. CreateOK(id)'
    BY <1>1, <1>2 DEF CreateOK
  <1>7. Evolves(id)
    BY <1>2, <1>3, <1>4 DEF Evolves
  <1> QED BY <1>5, <1>6, <1>7

\* A stop of a sandbox, whether or not it takes effect.
LEMMA StopSandboxInv ==
  ASSUME Inv, NEW p \in Handlers, NEW pc, NEW next, StopSandbox(p, pc, next),
         <<pc, next>> \in {<<"expireStop", "expireUpdate">>, <<"timeoutStop", "timeoutUpdate">>,
                           <<"failStop", "failUpdate">>, <<"dropStop", "dropped">>,
                           <<"resetStop", "resetUpdate">>}
  PROVE  Inv'
  <1>0. PICK id : id = h[p].id
    OBVIOUS
  <1> DEFINE deleted == [NoBox EXCEPT !.st = "deleted"]
             unknown == [NoBox EXCEPT !.st = "unknown", !.exp = None]
             stopping == [boxes EXCEPT ![id].st = "stopping"]
  <1>1. PICK view :
          /\ h' = [h EXCEPT ![p].pc = next, ![p].view = view, ![p].rec = None]
          /\ h[p].pc = pc /\ UNCHANGED <<now, ledger, meters, creating, sent>>
          /\ \/ boxes' = [boxes EXCEPT ![id] = NoBox] /\ view = deleted
             \/ /\ boxes[id].st # "missing"
                /\ boxes' = boxes \/ (Live(id) /\ boxes' = stopping)
                /\ view = boxes'[id] \/ view = unknown
    BY <1>0, Zenon DEF StopSandbox, At
  <1>2. /\ pc # "idle" /\ pc \notin Early /\ next \notin Creation /\ next \notin Charged
        /\ next \in Places /\ next # "create" /\ next \notin Early /\ next \notin Remembering
        /\ next # "idle"
        /\ next \notin {"recGet", "poll", "publish"} /\ next \notin Launched
        /\ next \notin {"recClose", "recTerminal", "recUpdate", "fence", "proxyPending"}
        /\ next \in Expiry => pc \in Expiry
    BY SMTT(60) DEF Early, Creation, Charged, Places, Remembering, Launched, Proxying, Expiry
  <1>3. HandlerOK(h[p]) /\ id \in Ids /\ ~Open(id) /\ creating[id] = None
    BY <1>0, <1>1, <1>2, HandlerFacts DEF HandlerOK, Open
  <1>4. /\ boxes \in [Ids -> Boxes] /\ boxes[id] \in Boxes /\ boxes[id].exp \in Nat
        /\ boxes[id].st \in ProviderLive \cup {"stopped", "missing"} /\ BoxOK(id)
    BY <1>3 DEF Inv, TypeOK, Boxes, BoxesOK
  <1>5. /\ deleted = [st |-> "deleted", exp |-> 0, up |-> FALSE]
        /\ unknown = [st |-> "unknown", exp |-> None, up |-> FALSE]
    <2>1. /\ deleted = [NoBox EXCEPT !.st = "deleted"]
          /\ unknown = [NoBox EXCEPT !.st = "unknown", !.exp = None]
      OBVIOUS
    <2> HIDE DEF deleted, unknown
    <2>2. deleted = [st |-> "deleted", exp |-> 0, up |-> FALSE]
      BY <2>1 DEF NoBox
    <2>3. unknown = [st |-> "unknown", exp |-> None, up |-> FALSE]
      BY <2>1 DEF NoBox
    <2> QED BY <2>2, <2>3
  <1>6. /\ boxes' \in [Ids -> Boxes] /\ boxes'[id] \in Boxes
        /\ \A g \in Ids \ {id} : boxes'[g] = boxes[g]
        /\ \/ boxes'[id].st = "missing" /\ ~boxes'[id].up /\ view = deleted
           \/ /\ boxes[id].st # "missing" /\ boxes'[id].exp = boxes[id].exp
              /\ boxes'[id].up = boxes[id].up
              /\ boxes'[id].st = boxes[id].st \/ (Live(id) /\ boxes'[id].st = "stopping")
              /\ view = boxes'[id] \/ view = unknown
    <2>1. CASE boxes' = [boxes EXCEPT ![id] = NoBox] /\ view = deleted
      <3>1. boxes'[id] = NoBox /\ \A g \in Ids \ {id} : boxes'[g] = boxes[g]
        BY <1>3, <1>4, <2>1
      <3>2. NoBox \in Boxes /\ NoBox.st = "missing" /\ ~NoBox.up
        BY DEF NoBox, Boxes
      <3>3. boxes' \in [Ids -> Boxes]
        BY <1>4, <2>1, <3>2
      <3> QED BY <2>1, <3>1, <3>2, <3>3
    <2>2. CASE boxes' = boxes /\ boxes[id].st # "missing" /\ (view = boxes'[id] \/ view = unknown)
      <3> HIDE DEF unknown
      <3> QED BY <1>4, <2>2
    <2>3. CASE Live(id) /\ boxes' = stopping
      <3>1. boxes[id].st # "missing"
        BY <2>3 DEF Live, ProviderLive
      <3>2. boxes'[id] = [st |-> "stopping", exp |-> boxes[id].exp, up |-> boxes[id].up]
        BY <1>3, <1>4, <2>3 DEF Boxes
      <3>3. boxes'[id] \in Boxes
        BY <1>4, <3>2 DEF Boxes, ProviderLive
      <3>4. /\ \A g \in Ids \ {id} : boxes'[g] = boxes[g]
            /\ boxes' = [g \in Ids |-> boxes'[g]]
        BY <1>4, <2>3
      <3>5. boxes' \in [Ids -> Boxes]
        BY <1>4, <3>3, <3>4
      <3>6. view = boxes'[id] \/ view = unknown
        <4>1. boxes' # [boxes EXCEPT ![id] = NoBox]
          BY <1>3, <1>4, <3>2 DEF NoBox
        <4> QED BY <1>1, <4>1
      <3>7. /\ boxes'[id].exp = boxes[id].exp /\ boxes'[id].up = boxes[id].up
            /\ boxes'[id].st = "stopping"
        BY <3>2
      <3> QED BY <2>3, <3>1, <3>3, <3>4, <3>5, <3>6, <3>7
    <2> QED BY <1>1, <2>1, <2>2, <2>3
  <1> HIDE DEF deleted, unknown, stopping
  <1>7. view \in Views
    <2>1. deleted \in Views /\ unknown \in Views
      BY <1>5 DEF Views, ProviderStatuses
    <2>2. boxes'[id] \in Views
      BY <1>6 DEF Boxes, Views, ProviderStatuses
    <2> QED BY <1>6, <2>1, <2>2
  <1>8. /\ h' = [h EXCEPT ![p] = h'[p]] /\ h'[p] \in HandlerStates /\ h'[p].pc = next
        /\ h'[p].since = h[p].since /\ h'[p].id = id /\ h'[p].key = h[p].key
        /\ h'[p].rec = None /\ h'[p].view = view
    <2>1. h[p] \in HandlerStates /\ h \in [Handlers -> HandlerStates]
      BY DEF Inv, TypeOK
    <2>2. h' = [h EXCEPT ![p] = [h[p] EXCEPT !.pc = next, !.view = view, !.rec = None]]
      BY <1>1
    <2>3. /\ h'[p] = [h[p] EXCEPT !.pc = next, !.view = view, !.rec = None]
          /\ h' = [h EXCEPT ![p] = h'[p]]
      BY <2>1, <2>2
    <2>4. h'[p] = [op |-> h[p].op, since |-> h[p].since, pc |-> next, id |-> h[p].id,
                   key |-> h[p].key, rec |-> None, view |-> view, mutation |-> h[p].mutation]
      BY <2>1, <2>3 DEF HandlerStates
    <2> QED BY <1>0, <1>2, <1>7, <2>1, <2>3, <2>4 DEF HandlerStates
  <1>9. \A g : Open(g)' => Open(g)
    BY <1>1, <1>2, <1>8, OpenShrinks
  <1>10. \A g \in Ids : BoxOK(g)' /\ CreateOK(g)' /\ Evolves(g)
    <2> TAKE g \in Ids
    <2>1. Open(g)' => Open(g)
      BY <1>9
    <2>2. creating'[g] = creating[g] /\ meters'[g] = meters[g]
      BY <1>1
    <2>3. CASE g = id
      BY <1>1, <1>3, <1>4, <1>6, <2>1, <2>2, <2>3, BoxKept DEF BoxOK
    <2>4. CASE g # id
      <3>1. boxes'[g] = boxes[g] /\ BoxOK(g)
        BY <1>6, <2>4 DEF Inv, BoxesOK
      <3> QED BY <1>1, <2>1, <2>2, <3>1, BoxKept DEF BoxOK
    <2> QED BY <2>3, <2>4
  <1>11. ViewOK(id, view)'
    <2>1. ~Open(id)' /\ sessions' = sessions
      BY <1>1, <1>3, <1>9 DEF ledger
    <2>2. CASE view = deleted
      BY <1>5, <1>6, <2>1, <2>2 DEF ViewOK, Dead, Live, ProviderLive, Gone
    <2>3. CASE view = unknown
      BY <1>5, <2>3 DEF ViewOK, Gone, ProviderLive
    <2>4. CASE view = boxes'[id] /\ boxes[id].st # "missing"
      <3>1. boxes'[id].exp = boxes[id].exp /\ boxes'[id].st # "missing"
            /\ boxes'[id].st \in ProviderLive \cup {"stopped"}
        BY <1>4, <1>5, <1>6, <2>4 DEF ProviderLive
      <3>2. Window(id, boxes[id].exp)
        BY <1>4, <2>4 DEF BoxOK
      <3>3. Window(id, view.exp)'
        BY SMTT(60), <2>1, <2>4, <3>1, <3>2 DEF Window
      <3> QED BY <1>4, <2>1, <2>4, <3>1, <3>3, NoneAssumption
              DEF ViewOK, Dead, Live, ProviderLive, Gone
    <2> QED BY <1>6, <2>2, <2>3, <2>4
  <1>12. HandlerOK(h[p])'
    <2>1. sessions' = sessions /\ drawn' = drawn /\ now' = now /\ ~Open(id)'
      BY <1>1, <1>3, <1>9 DEF ledger
    <2>2. next \in {"expireUpdate", "failUpdate", "resetUpdate"} => view.st # "missing"
      BY <1>4, <1>5, <1>6
    <2>3. next \in Expiry => (sessions[id] # None => ~Future(Expires(sessions[id])))
      BY <1>0, <1>1, <1>2, <1>3 DEF HandlerOK
    <2>4. next \in Expiry => (sessions[id] # None => ~Future(Expires(sessions[id])))'
      BY <2>1, <2>3 DEF Future, Expires
    <2> QED BY <1>0, <1>1, <1>2, <1>3, <1>8, <1>11, <2>1, <2>2, <2>4 DEF HandlerOK
  <1>13. Moves(p)
    BY <1>2, <1>8, <1>12 DEF Moves
  <1> DEFINE S == {p}
  <1>14. /\ \A q, g \in S : q = g
         /\ \A q \in Handlers \cap S : Moves(q)
         /\ \A q \in Handlers \ S :
              /\ h'[q] = h[q]
              /\ h[q].pc = "create" => /\ boxes'[h[q].id] = boxes[h[q].id]
                                       /\ creating'[h[q].id] = creating[h[q].id]
    <2>1. ASSUME NEW q \in Handlers \ {p}, h[q].pc = "create" PROVE h[q].id \in Ids \ {id}
      <3>1. h[q].id \in Ids /\ Open(h[q].id)
        BY <2>1, HandlerFacts DEF Open
      <3> QED BY <1>3, <3>1
    <2>2. \A q \in Handlers \ {p} : h'[q] = h[q]
      BY <1>8 DEF Inv, TypeOK
    <2> QED BY <1>1, <1>6, <1>13, <2>1, <2>2
  <1>15. \A q \in Handlers : h'[q].pc \in Charged =>
           h[q].pc \in Charged /\ h'[q].id = h[q].id /\ h'[q].mutation = h[q].mutation
    BY <1>2, <1>8 DEF Inv, TypeOK
  <1>16. creating' \in [Ids -> Creates \cup {None}] /\ h' \in [Handlers -> HandlerStates]
    BY <1>1, <1>8 DEF Inv, TypeOK
  <1>17. BoxesOK'
    BY <1>10 DEF BoxesOK
  <1> HIDE DEF S
  <1> QED BY <1>1, <1>6, <1>10, <1>14, <1>15, <1>16, <1>17, ProviderInv


\* The handler that takes the step, and those that do not.
LEMMA OneMoves ==
  ASSUME Inv, NEW p \in Handlers, NEW id \in Ids, Moves(p), h' = [h EXCEPT ![p] = h'[p]],
         h'[p].pc \notin Charged, h'[p] \in HandlerStates,
         \A q \in Handlers \ {p} : h[q].pc = "create" => h[q].id # id,
         \A g \in Ids \ {id} : boxes'[g] = boxes[g] /\ creating'[g] = creating[g]
  PROVE  \E S : /\ \A q, g \in S : q = g
                /\ \A q \in Handlers \cap S : Moves(q)
                /\ \A q \in Handlers \ S :
                     /\ h'[q] = h[q]
                     /\ h[q].pc = "create" => /\ boxes'[h[q].id] = boxes[h[q].id]
                                              /\ creating'[h[q].id] = creating[h[q].id]
                /\ \A q \in Handlers : h'[q].pc \in Charged =>
                     h[q].pc \in Charged /\ h'[q].id = h[q].id /\ h'[q].mutation = h[q].mutation
                /\ h' \in [Handlers -> HandlerStates]
  <1> DEFINE S == {p}
  <1>1. \A q \in Handlers \ {p} : h'[q] = h[q]
    BY DEF Inv, TypeOK
  <1>2. ASSUME NEW q \in Handlers \ {p}, h[q].pc = "create" PROVE h[q].id \in Ids \ {id}
    BY <1>2, HandlerFacts
  <1>3. /\ \A q, g \in S : q = g
        /\ \A q \in Handlers \cap S : Moves(q)
        /\ \A q \in Handlers \ S :
             /\ h'[q] = h[q]
             /\ h[q].pc = "create" => /\ boxes'[h[q].id] = boxes[h[q].id]
                                      /\ creating'[h[q].id] = creating[h[q].id]
    BY <1>1, <1>2
  <1>4. \A q \in Handlers : h'[q].pc \in Charged =>
           h[q].pc \in Charged /\ h'[q].id = h[q].id /\ h'[q].mutation = h[q].mutation
    BY <1>1
  <1>5. h' \in [Handlers -> HandlerStates]
    BY DEF Inv, TypeOK
  <1> HIDE DEF S
  <1> QED BY SMTT(60), <1>3, <1>4, <1>5

\* The launch of the runtime in a sandbox.
LEMMA LaunchInv ==
  ASSUME Inv, NEW p \in Handlers, Launch(p)
  PROVE  Inv'
  <1>0. PICK id : id = h[p].id
    OBVIOUS
  <1>1. PICK started \in BOOLEAN, next \in {"poll", "launchUnknown"} :
          /\ h[p].pc = "launch" /\ UNCHANGED <<now, ledger, meters, creating, sent>>
          /\ started => boxes[id].st = "running"
          /\ boxes' = [boxes EXCEPT ![id].up = @ \/ started]
          /\ Step(p, next)
    BY <1>0 DEF Launch, At
  <1>2. /\ HandlerOK(h[p]) /\ id \in Ids /\ ~Open(id) /\ h[p].rec # None
        /\ sessions[id] # None => sessions[id].launched
    BY <1>0, <1>1, HandlerFacts DEF HandlerOK, Creation, Early, Expiry, Charged, Proxying, Launched, Remembering
  <1>3. /\ h' = [h EXCEPT ![p] = h'[p]] /\ h'[p] \in HandlerStates /\ h'[p].pc = next
        /\ h'[p].since = h[p].since /\ h'[p].id = id /\ h'[p].key = h[p].key
        /\ h'[p].rec = h[p].rec
    BY <1>0, <1>1, StepFields DEF Places
  <1>4. next \notin Creation /\ next \notin Charged /\ next # "create"
    BY DEF Creation, Charged
  <1>5. \A g : Open(g)' => Open(g)
    BY <1>1, <1>3, <1>4, OpenShrinks
  <1>6. /\ boxes \in [Ids -> Boxes] /\ boxes[id] \in Boxes /\ BoxOK(id)
        /\ creating \in [Ids -> Creates \cup {None}]
    BY <1>2 DEF Inv, TypeOK, BoxesOK
  <1>7. /\ boxes'[id] \in Boxes /\ boxes'[id].st = boxes[id].st /\ boxes'[id].exp = boxes[id].exp
        /\ boxes'[id].up => boxes[id].up \/ boxes[id].st # "missing"
    <2>1. boxes'[id] = [st |-> boxes[id].st, exp |-> boxes[id].exp, up |-> boxes[id].up \/ started]
      BY <1>1, <1>2, <1>6 DEF Boxes
    <2>2. boxes'[id] \in Boxes
      BY <1>6, <2>1 DEF Boxes
    <2>3. boxes'[id].up = (boxes[id].up \/ started)
      BY <2>1
    <2>4. boxes'[id].st = boxes[id].st /\ boxes'[id].exp = boxes[id].exp
      BY <2>1
    <2> QED BY <1>1, <2>2, <2>3, <2>4
  <1>8. boxes' \in [Ids -> Boxes] /\ \A g \in Ids \ {id} : boxes'[g] = boxes[g]
    <2>1. \A g \in Ids \ {id} : boxes'[g] = boxes[g]
      BY <1>1, <1>6
    <2>2. boxes' = [g \in Ids |-> boxes'[g]]
      BY <1>1, <1>6
    <2> QED BY <1>6, <1>7, <2>1, <2>2
  <1>9. /\ sessions' = sessions /\ drawn' = drawn /\ now' = now /\ creating' = creating
        /\ meters' = meters
    BY <1>1 DEF ledger
  <1>10. \A g \in Ids : BoxOK(g)' /\ CreateOK(g)' /\ Evolves(g)
    <2> TAKE g \in Ids
    <2>1. BoxOK(g) /\ CreateOK(g) /\ (Open(g)' => Open(g))
      BY <1>5 DEF Inv, BoxesOK
    <2>2. boxes'[g].st = boxes[g].st /\ boxes'[g].exp = boxes[g].exp
      BY <1>7, <1>8
    <2>3. Live(g)' = Live(g)
      BY <2>2 DEF Live
    <2>4. boxes'[g].up => boxes'[g].st # "missing" /\ (sessions[g] # None => sessions[g].launched)
      <3>1. CASE g = id
        BY <1>2, <1>7, <2>1, <2>2, <3>1 DEF BoxOK
      <3>2. CASE g # id
        BY <1>8, <2>1, <3>2 DEF BoxOK
      <3> QED BY <3>1, <3>2
    <2>5. BoxOK(g)'
      BY <1>9, <2>1, <2>2, <2>3, <2>4 DEF BoxOK, Window
    <2>6. CreateOK(g)'
      BY <1>9, <2>1, <2>2 DEF CreateOK
    <2>7. Evolves(g)
      BY <1>9, <2>1, <2>2, <2>3 DEF Evolves
    <2> QED BY <2>5, <2>6, <2>7
  <1>11. HandlerOK(h[p])'
    <2>1. ~Open(id)'
      BY <1>2, <1>5
    <2> QED BY <1>0, <1>1, <1>2, <1>3, <1>9, <2>1 DEF HandlerOK, Creation, Early, Expiry, Charged, Proxying, Launched, Remembering
  <1>12. Moves(p)
    BY <1>3, <1>4, <1>11 DEF Moves
  <1>13. \A q \in Handlers \ {p} : h[q].pc = "create" => h[q].id # id
    BY <1>2 DEF Open
  <1>14. /\ \A g \in Ids \ {id} : boxes'[g] = boxes[g] /\ creating'[g] = creating[g]
         /\ h'[p].pc \notin Charged
    BY <1>3, <1>4, <1>8, <1>9
  <1>15. PICK S : /\ \A q, g \in S : q = g
                  /\ \A q \in Handlers \cap S : Moves(q)
                  /\ \A q \in Handlers \ S :
                       /\ h'[q] = h[q]
                       /\ h[q].pc = "create" => /\ boxes'[h[q].id] = boxes[h[q].id]
                                                /\ creating'[h[q].id] = creating[h[q].id]
                  /\ \A q \in Handlers : h'[q].pc \in Charged =>
                       h[q].pc \in Charged /\ h'[q].id = h[q].id /\ h'[q].mutation = h[q].mutation
                  /\ h' \in [Handlers -> HandlerStates]
    BY <1>2, <1>3, <1>12, <1>13, <1>14, OneMoves
  <1>16. BoxesOK' /\ creating' \in [Ids -> Creates \cup {None}]
    BY <1>6, <1>9, <1>10 DEF BoxesOK
  <1> QED BY <1>1, <1>8, <1>10, <1>15, <1>16, ProviderInv

\* A create call leaves for the provider.
LEMMA CreateCallInv ==
  ASSUME Inv, NEW p \in Handlers, CreateCall(p)
  PROVE  Inv'
  <1> USE NoneAssumption, TimingAssumption
  <1>0. PICK id : id = h[p].id
    OBVIOUS
  <1> DEFINE left == Expires(h[p].rec) - now
             call == [since |-> now, timeout |-> left]
  <1>1. PICK next \in {"created", "createUnknown"} :
          /\ h[p].pc = "create" /\ UNCHANGED <<now, ledger, meters, boxes, sent>>
          /\ Step(p, next)
          /\ \/ left > 0 /\ creating' = [creating EXCEPT ![id] = call]
             \/ creating' = creating
    BY SMTT(60), <1>0 DEF CreateCall, At
  <1>2. /\ HandlerOK(h[p]) /\ id \in Ids /\ h[p].rec \in Records /\ h[p].rec # None
        /\ now \in Nat /\ h[p].since \in Nat /\ Open(id)
    BY <1>0, <1>1, HandlerFacts DEF HandlerOK, Remembering, Inv, TypeOK, Open
  <1>3. /\ sessions[id] # None /\ boxes[id].st = "missing" /\ creating[id] = None
        /\ h[p].rec.created = sessions[id].created /\ ~sessions[id].launched
        /\ h[p].since <= sessions[id].created /\ now <= h[p].since + MaxDuration
        /\ h[p].since <= now
    BY <1>0, <1>1, <1>2 DEF HandlerOK, Creation
  <1>4. sessions[id].created \in Nat /\ Expires(h[p].rec) = Expires(sessions[id])
    BY SMTT(60), <1>2, <1>3 DEF Inv, TypeOK, Records, Expires
  <1>5. /\ h' = [h EXCEPT ![p] = h'[p]] /\ h'[p] \in HandlerStates /\ h'[p].pc = next
        /\ h'[p].since = h[p].since /\ h'[p].id = id /\ h'[p].key = h[p].key
        /\ h'[p].rec = h[p].rec
    BY <1>0, <1>1, StepFields DEF Places
  <1>6. next \in Creation /\ next \notin Charged /\ next # "create"
    BY DEF Creation, Charged
  <1>7. /\ sessions' = sessions /\ drawn' = drawn /\ now' = now /\ boxes' = boxes
        /\ meters' = meters /\ creating \in [Ids -> Creates \cup {None}]
        /\ boxes \in [Ids -> Boxes] /\ h \in [Handlers -> HandlerStates]
    BY <1>1 DEF ledger, Inv, TypeOK
  <1>8. left > 0 => call \in Creates /\ call.since = now /\ call.timeout = left
    BY <1>2, <1>4 DEF Creates, Expires
  <1>9. /\ creating' \in [Ids -> Creates \cup {None}]
        /\ \A g \in Ids \ {id} : creating'[g] = creating[g]
        /\ creating'[id] = None \/ (left > 0 /\ creating'[id] = call)
    BY <1>1, <1>2, <1>3, <1>7, <1>8
  <1>10. \A g \in Ids : Open(g)' => Open(g)
    <2> SUFFICES ASSUME NEW g \in Ids, Open(g)' PROVE Open(g)
      OBVIOUS
    <2>1. CASE g = id
      BY <1>2, <2>1
    <2>2. CASE g # id
      <3>1. \A q \in Handlers : h'[q] = IF q = p THEN h'[p] ELSE h[q]
        BY <1>5, <1>7
      <3> QED BY <1>5, <1>6, <1>9, <2>2, <3>1 DEF Open
    <2> QED BY <2>1, <2>2
  <1>11. \A g \in Ids : BoxOK(g)' /\ CreateOK(g)' /\ Evolves(g)
    <2> TAKE g \in Ids
    <2>1. BoxOK(g) /\ CreateOK(g) /\ (Open(g)' => Open(g)) /\ Live(g)' = Live(g)
      BY <1>7, <1>10 DEF Inv, BoxesOK, Live
    <2>2. BoxOK(g)'
      BY <1>7, <2>1 DEF BoxOK, Window
    <2>3. CreateOK(g)'
      <3>1. CASE creating'[g] = creating[g]
        BY <1>7, <2>1, <3>1 DEF CreateOK
      <3>2. CASE creating'[g] # creating[g]
        <4>1. g = id /\ left > 0 /\ creating'[g] = call
          BY <1>3, <1>9, <3>2
        <4>2. /\ creating'[g].since = now
              /\ creating'[g].since + creating'[g].timeout = Expires(sessions[id])
          <5>1. Expires(sessions[id]) \in Nat
            BY <1>4 DEF Expires
          <5>2. creating'[g].since = now /\ creating'[g].timeout = Expires(sessions[id]) - now
            BY <1>4, <1>8, <4>1
          <5> QED BY <1>2, <5>1, <5>2
        <4> HIDE DEF call, left
        <4>3. /\ now <= sessions[id].created + MaxDuration /\ now <= now + CreateLatency
          BY <1>2, <1>3, <1>4
        <4>4. creating'[g].since <= sessions[id].created + MaxDuration
          BY <4>2, <4>3
        <4> QED BY <1>2, <1>3, <1>7, <4>1, <4>2, <4>3, <4>4 DEF CreateOK, Expires
      <3> QED BY <3>1, <3>2
    <2>4. Evolves(g)
      BY <1>7, <2>1 DEF Evolves
    <2> QED BY <2>2, <2>3, <2>4
  <1>12. HandlerOK(h[p])'
    BY <1>0, <1>1, <1>2, <1>3, <1>5, <1>7 DEF HandlerOK, Creation, Early, Expiry, Charged, Proxying, Launched, Remembering
  <1>13. Moves(p)
    BY <1>0, <1>1, <1>5, <1>12 DEF Moves, Creation
  <1>14. \A q \in Handlers \ {p} : h[q].pc = "create" => h[q].id # id
    BY <1>0, <1>1 DEF Inv, HandlersOK, Creation
  <1>15. /\ \A g \in Ids \ {id} : boxes'[g] = boxes[g] /\ creating'[g] = creating[g]
         /\ h'[p].pc \notin Charged
    BY <1>5, <1>6, <1>7, <1>9
  <1>16. PICK S : /\ \A q, g \in S : q = g
                  /\ \A q \in Handlers \cap S : Moves(q)
                  /\ \A q \in Handlers \ S :
                       /\ h'[q] = h[q]
                       /\ h[q].pc = "create" => /\ boxes'[h[q].id] = boxes[h[q].id]
                                                /\ creating'[h[q].id] = creating[h[q].id]
                  /\ \A q \in Handlers : h'[q].pc \in Charged =>
                       h[q].pc \in Charged /\ h'[q].id = h[q].id /\ h'[q].mutation = h[q].mutation
                  /\ h' \in [Handlers -> HandlerStates]
    BY <1>2, <1>5, <1>13, <1>14, <1>15, OneMoves
  <1>17. BoxesOK' /\ boxes' \in [Ids -> Boxes]
    BY <1>7, <1>11 DEF BoxesOK
  <1> QED BY <1>1, <1>9, <1>11, <1>16, <1>17, ProviderInv


\* The provider moves on its own.
LEMMA ProviderMovesInv ==
  ASSUME Inv, UNCHANGED <<now, ledger, meters, h, sent>>,
         boxes' \in [Ids -> Boxes], creating' \in [Ids -> Creates \cup {None}],
         \A id \in Ids : BoxOK(id)' /\ CreateOK(id)' /\ Evolves(id),
         \A q \in Handlers : h[q].pc = "create" => /\ boxes'[h[q].id] = boxes[h[q].id]
                                                   /\ creating'[h[q].id] = creating[h[q].id]
  PROVE  Inv'
  <1> DEFINE S == {}
  <1>1. /\ \A q, g \in S : q = g
        /\ \A q \in Handlers \cap S : Moves(q)
        /\ \A q \in Handlers \ S :
             /\ h'[q] = h[q]
             /\ h[q].pc = "create" => /\ boxes'[h[q].id] = boxes[h[q].id]
                                      /\ creating'[h[q].id] = creating[h[q].id]
    OBVIOUS
  <1>2. \A q \in Handlers : h'[q].pc \in Charged =>
           h[q].pc \in Charged /\ h'[q].id = h[q].id /\ h'[q].mutation = h[q].mutation
    OBVIOUS
  <1>3. BoxesOK' /\ h' \in [Handlers -> HandlerStates]
    BY DEF BoxesOK, Inv, TypeOK
  <1> HIDE DEF S
  <1> QED BY <1>1, <1>2, <1>3, ProviderInv

\* A create call takes effect: the sandbox is the one its record holds capacity for.
LEMMA CreateArrivesInv ==
  ASSUME Inv, NEW id \in Ids, CreateArrives(id)
  PROVE  Inv'
  <1> USE NoneAssumption, TimingAssumption
  <1> DEFINE box == [st |-> "pending", exp |-> now + creating[id].timeout, up |-> FALSE]
  <1>1. /\ creating[id] # None /\ UNCHANGED <<now, ledger, meters, h, sent>>
        /\ boxes' = [boxes EXCEPT ![id] = box] /\ creating' = [creating EXCEPT ![id] = None]
    BY DEF CreateArrives
  <1>2. /\ boxes \in [Ids -> Boxes] /\ creating \in [Ids -> Creates \cup {None}] /\ now \in Nat
        /\ sessions' = sessions /\ drawn' = drawn /\ now' = now /\ h' = h /\ meters' = meters
    BY <1>1 DEF Inv, TypeOK, ledger
  <1>3. /\ creating[id].since \in Nat /\ creating[id].timeout \in Nat
    BY <1>1, <1>2 DEF Creates
  <1>4. /\ sessions[id] # None /\ boxes[id].st = "missing" /\ BoxOK(id)
        /\ creating[id].since <= now /\ now <= creating[id].since + CreateLatency
        /\ creating[id].since + creating[id].timeout = Expires(sessions[id])
    BY <1>1 DEF Inv, BoxesOK, CreateOK
  <1>5. sessions[id].created \in Nat /\ id \in drawn
    BY <1>2, <1>4 DEF Inv, TypeOK, Records, RecordsOK, RecordOK
  <1>6. \A q \in Handlers : h[q].pc = "create" => h[q].id # id
    BY <1>1, HandlerFacts DEF HandlerOK
  <1>7. /\ boxes'[id] = box /\ creating'[id] = None
        /\ \A g \in Ids \ {id} : boxes'[g] = boxes[g] /\ creating'[g] = creating[g]
    BY <1>1, <1>2
  <1>8. box \in Boxes /\ box.st = "pending" /\ box.exp = now + creating[id].timeout /\ ~box.up
    BY <1>2, <1>3 DEF Boxes, ProviderLive
  <1> HIDE DEF box
  <1>9. boxes' \in [Ids -> Boxes] /\ creating' \in [Ids -> Creates \cup {None}]
    BY <1>1, <1>2, <1>8
  <1>10. \A g \in Ids : BoxOK(g)' /\ CreateOK(g)' /\ Evolves(g)
    <2> TAKE g \in Ids
    <2>1. BoxOK(g) /\ CreateOK(g)
      BY DEF Inv, BoxesOK
    <2>2. CASE g = id
      <3>1. ~Open(id)'
        BY <1>2, <1>6, <1>7 DEF Open
      <3>2. Window(id, box.exp) /\ now <= box.exp
        BY <1>2, <1>3, <1>4, <1>5, <1>8 DEF Window, Expires
      <3>3. Window(id, boxes[id].exp)'
        BY <1>2, <1>7, <3>2 DEF Window
      <3>4. BoxOK(id)'
        BY <1>2, <1>4, <1>5, <1>7, <1>8, <3>1, <3>2, <3>3 DEF BoxOK
      <3>5. CreateOK(id)' /\ Open(id)
        BY <1>1, <1>7 DEF CreateOK, Open
      <3>6. Evolves(id)
        BY <1>2, <3>1, <3>5 DEF Evolves
      <3> QED BY <2>2, <3>4, <3>5, <3>6
    <2>3. CASE g # id
      <3>1. boxes'[g] = boxes[g] /\ creating'[g] = creating[g]
        BY <1>7, <2>3
      <3>2. (Open(g)' => Open(g)) /\ Live(g)' = Live(g)
        BY <1>2, <3>1 DEF Open, Live
      <3> QED BY <1>1, <1>2, <2>1, <3>1, <3>2, BoxKept DEF BoxOK
    <2> QED BY <2>2, <2>3
  <1>11. \A q \in Handlers : h[q].pc = "create" => /\ boxes'[h[q].id] = boxes[h[q].id]
                                                   /\ creating'[h[q].id] = creating[h[q].id]
    BY <1>6, <1>7, HandlerFacts
  <1> QED BY <1>1, <1>9, <1>10, <1>11, ProviderMovesInv

\* A create call comes to nothing.
LEMMA CreateLostInv ==
  ASSUME Inv, NEW id \in Ids, CreateLost(id)
  PROVE  Inv'
  <1>1. /\ creating[id] # None /\ UNCHANGED <<now, ledger, meters, boxes, h, sent>>
        /\ creating' = [creating EXCEPT ![id] = None]
    BY DEF CreateLost
  <1>2. /\ boxes \in [Ids -> Boxes] /\ creating \in [Ids -> Creates \cup {None}]
        /\ sessions' = sessions /\ drawn' = drawn /\ now' = now /\ h' = h /\ meters' = meters
        /\ boxes' = boxes
    BY <1>1 DEF Inv, TypeOK, ledger
  <1>3. \A g \in Ids : creating'[g] \in {creating[g], None} /\ (g # id => creating'[g] = creating[g])
    BY <1>1, <1>2
  <1>4. \A g \in Ids : BoxOK(g)' /\ CreateOK(g)' /\ Evolves(g)
    <2> TAKE g \in Ids
    <2>1. (Open(g)' => Open(g)) /\ BoxOK(g)
      BY <1>2, <1>3 DEF Open, Inv, BoxesOK
    <2> QED BY <1>1, <1>2, <1>3, <2>1, BoxKept DEF BoxOK
  <1>5. \A q \in Handlers : h[q].pc = "create" => h[q].id \in Ids \ {id}
    BY <1>1, HandlerFacts DEF HandlerOK
  <1>6. boxes' \in [Ids -> Boxes] /\ creating' \in [Ids -> Creates \cup {None}]
    BY <1>1, <1>2
  <1> QED BY <1>1, <1>2, <1>3, <1>4, <1>5, <1>6, ProviderMovesInv

\* A sandbox comes up, is snapshotted, stops or reaches its timeout.
LEMMA SandboxMovesInv ==
  ASSUME Inv, NEW id \in Ids, SandboxMoves(id)
  PROVE  Inv'
  <1>1. PICK st \in {"pending", "running", "stopped"} :
          /\ Live(id) /\ boxes' = [boxes EXCEPT ![id].st = st]
          /\ UNCHANGED <<now, ledger, meters, creating, h, sent>>
    BY DEF SandboxMoves, Live
  <1>2. /\ boxes \in [Ids -> Boxes] /\ creating \in [Ids -> Creates \cup {None}]
        /\ sessions' = sessions /\ drawn' = drawn /\ now' = now /\ h' = h /\ meters' = meters
        /\ creating' = creating
    BY <1>1 DEF Inv, TypeOK, ledger
  <1>3. /\ boxes'[id] = [st |-> st, exp |-> boxes[id].exp, up |-> boxes[id].up]
        /\ \A g \in Ids \ {id} : boxes'[g] = boxes[g]
    BY <1>1, <1>2 DEF Boxes
  <1>4. /\ boxes'[id].st = st /\ boxes'[id].exp = boxes[id].exp /\ boxes'[id].up = boxes[id].up
        /\ boxes'[id] \in Boxes
    <2>1. boxes[id] \in Boxes
      BY <1>2
    <2> QED BY <1>3, <2>1 DEF Boxes, ProviderLive
  <1>5. boxes' \in [Ids -> Boxes]
    BY <1>1, <1>2, <1>3, <1>4
  <1>6. \A g \in Ids : (Open(g)' => Open(g)) /\ (g = id => ~Open(g))
    <2>1. ~Open(id)
      BY <1>1 DEF Inv, BoxesOK, BoxOK, Live, ProviderLive
    <2> QED BY <1>2, <2>1 DEF Open
  <1>7. \A g \in Ids : BoxOK(g)' /\ CreateOK(g)' /\ Evolves(g)
    <2> TAKE g \in Ids
    <2>1. BoxOK(g) /\ (g = id => creating[g] = None)
      BY <1>6 DEF Inv, BoxesOK, Open
    <2>2. CASE g = id
      BY <1>1, <1>2, <1>4, <1>6, <2>1, <2>2, BoxKept
    <2>3. CASE g # id
      BY <1>1, <1>2, <1>3, <1>6, <2>1, <2>3, BoxKept DEF BoxOK
    <2> QED BY <2>2, <2>3
  <1>8. \A q \in Handlers : h[q].pc = "create" => h[q].id \in Ids \ {id}
    BY <1>6, HandlerFacts DEF Open
  <1> QED BY <1>1, <1>2, <1>3, <1>5, <1>7, <1>8, ProviderMovesInv

\* The clock, which waits for no handler longer than a function may run.
LEMMA TickInv ==
  ASSUME Inv, Tick
  PROVE  Inv'
  <1> USE TimingAssumption
  <1>1. /\ now' = now + 1 /\ now < MaxTime /\ UNCHANGED <<ledger, meters, boxes, creating, h, sent>>
        /\ \A p \in Handlers : h[p].pc # "idle" => now < h[p].since + MaxDuration
        /\ \A id \in Ids : /\ creating[id] # None => now < creating[id].since + CreateLatency
                           /\ Live(id) => now < boxes[id].exp
    BY DEF Tick, At, Live
  <1>2. /\ TypeOK /\ now \in Nat /\ now' \in Nat /\ now <= now' /\ now' \in 0..MaxTime
        /\ sessions' = sessions /\ drawn' = drawn /\ h' = h /\ latest' = latest
        /\ drawn \subseteq drawn'
    BY <1>1 DEF Inv, TypeOK, ledger
  <1>3. TypeOK'
    BY <1>1, <1>2 DEF TypeOK
  <1>4. \A id : Open(id)' = Open(id) /\ Live(id)' = Live(id)
    BY <1>1 DEF Open, Live
  <1>5. \A id : Evolves(id)
    BY <1>1, <1>2, <1>4 DEF Evolves
  <1>6. \A id \in Ids : Open(id) =>
          sessions[id] # None /\ now' <= sessions[id].created + MaxDuration + CreateLatency
    <2> SUFFICES ASSUME NEW id \in Ids, Open(id)
                 PROVE  /\ sessions[id] # None
                        /\ now' <= sessions[id].created + MaxDuration + CreateLatency
      OBVIOUS
    <2>1. sessions[id] # None /\ sessions[id].created \in Nat
      BY TombAhead DEF RecordOK, Records
    <2>2. CASE creating[id] # None
      <3>1. creating[id].since \in Nat
        BY <1>2, <2>2 DEF TypeOK, Creates
      <3>2. creating[id].since <= sessions[id].created + MaxDuration
        BY <2>2 DEF Inv, BoxesOK, CreateOK
      <3> QED BY <1>1, <1>2, <2>1, <2>2, <3>1, <3>2
    <2>3. CASE \E p \in Handlers : h[p].pc = "create" /\ h[p].id = id
      <3>1. PICK p \in Handlers : h[p].pc = "create" /\ h[p].id = id
        BY <2>3
      <3>2. h[p].since <= sessions[id].created /\ h[p].since \in Nat
        BY <3>1, HandlerFacts DEF HandlerOK
      <3> QED BY <1>1, <1>2, <2>1, <3>1, <3>2
    <2> QED BY <2>2, <2>3 DEF Open
  <1>7. RecordsOK'
    <2> SUFFICES ASSUME NEW id \in Ids, sessions'[id] # None PROVE RecordOK(id, sessions[id])'
      BY DEF RecordsOK
    <2>1. RecordOK(id, sessions[id])
      BY <1>2 DEF Inv, RecordsOK
    <2>2. \A rec : RecordOK(id, rec)
                   /\ (Open(id)' => now' <= rec.created + MaxDuration + CreateLatency)
                   => RecordOK(id, rec)'
      BY <1>2, <1>5, RecordCarries
    <2> QED BY <1>2, <1>4, <1>6, <2>1, <2>2
  <1>8. BoxesOK'
    <2> SUFFICES ASSUME NEW id \in Ids PROVE BoxOK(id)' /\ CreateOK(id)'
      BY DEF BoxesOK
    <2>1. BoxOK(id) /\ CreateOK(id)
      BY DEF Inv, BoxesOK
    <2>2. boxes[id].exp \in Nat /\ (creating[id] # None => creating[id].since \in Nat)
      BY <1>2 DEF TypeOK, Boxes, Creates
    <2>3. BoxOK(id)'
      BY <1>1, <1>2, <1>4, <2>1, <2>2 DEF BoxOK, Window
    <2>4. CreateOK(id)'
      BY <1>1, <1>2, <2>1, <2>2 DEF CreateOK
    <2> QED BY <2>3, <2>4
  <1>9. HandlersOK'
    <2>1. ASSUME NEW q \in Handlers PROVE Waits(q)
      <3>1. HandlerOK(h[q]) /\ h[q].since \in Nat
        BY HandlerFacts
      <3>2. h[q].pc # "idle" => now' <= h[q].since + MaxDuration
        BY <1>1, <1>2, <3>1
      <3>3. h[q].pc = "create" => sessions[h[q].id] # None
        BY <3>1 DEF HandlerOK
      <3> QED BY <1>1, <1>2, <1>5, <3>2, <3>3 DEF Waits
    <2> DEFINE S == {}
    <2>2. /\ \A q, g \in S : q = g
          /\ \A q \in Handlers \ S : Waits(q)
          /\ \A q \in Handlers \cap S : Moves(q)
      BY <2>1
    <2> HIDE DEF S
    <2> QED BY <1>2, <2>2, HandlersCarry
  <1>10. OccupiedOK'
    BY <1>2, <1>3, <1>5, OccupiedCarries
  <1>11. MetersOK'
    BY <1>1, <1>3, MetersCarry
  <1> QED BY <1>3, <1>7, <1>8, <1>9, <1>10, <1>11 DEF Inv


\* A session id that was never drawn belongs to nothing.
LEMMA FreshFacts ==
  ASSUME Inv, NEW id \in Ids, id \notin drawn
  PROVE  /\ sessions[id] = None /\ boxes[id].st = "missing" /\ ~boxes[id].up /\ creating[id] = None
         /\ ~Open(id) /\ ~Live(id)
         /\ \A q \in Handlers : h[q].pc # "idle" => h[q].id \in Ids \ {id}
  <1>1. sessions[id] = None
    BY DEF Inv, RecordsOK, RecordOK
  <1>2. boxes[id].st = "missing" /\ ~boxes[id].up
    BY DEF Inv, BoxesOK, BoxOK
  <1>3. creating[id] = None
    BY <1>1 DEF Inv, BoxesOK, CreateOK
  <1>4. \A q \in Handlers : h[q].pc # "idle" => h[q].id \in Ids \ {id}
    BY HandlerFacts DEF HandlerOK
  <1>5. ~Open(id)
    BY <1>3, <1>4 DEF Open
  <1>6. ~Live(id)
    BY <1>2 DEF Live, ProviderLive
  <1> QED BY <1>1, <1>2, <1>3, <1>4, <1>5, <1>6

\* A sandbox inside its session's lifetime is counted by every record that is
\* right about it.
LEMMA OccupiedHolds ==
  ASSUME Inv, NEW id \in Ids, id \in Occupied, NEW rec, RecordOK(id, rec),
         rec.created = sessions[id].created
  PROVE  HoldsCapacity(rec)
  <1> USE NoneAssumption, TimingAssumption
  <1>1. /\ sessions[id] # None /\ Future(Expires(sessions[id])) /\ ~Dead(id)
        /\ Live(id) \/ Open(id)
    BY DEF Occupied, Dead
  <1>2. sessions[id].created \in Nat /\ now \in Nat
    BY <1>1 DEF Inv, TypeOK, Records
  <1>3. Future(Expires(rec)) /\ Expires(rec) = Expires(sessions[id])
    BY <1>1 DEF Expires
  <1>4. /\ rec.status \in Statuses /\ rec.pstat \in ProviderStatuses \cup {None}
        /\ rec.pexp \in Nat \cup {None}
    BY DEF RecordOK, Records
  <1>5. rec.pstat \notin {"stopped", "missing", "deleted"}
    BY <1>1 DEF RecordOK, Gone
  <1>6. CASE rec.status # "expired"
    BY <1>3, <1>4, <1>5, <1>6 DEF HoldsCapacity, Statuses
  <1>7. CASE rec.status = "expired"
    <2>1. rec.launched
      BY <1>1, <1>3, <1>7 DEF RecordOK
    <2>2. /\ ~Open(id) /\ rec.pstat # None /\ rec.pexp # None
          /\ boxes[id].st # "missing" => rec.pexp = boxes[id].exp
      BY <2>1 DEF RecordOK
    <2>3. boxes[id].st # "missing"
      BY <1>1, <2>2 DEF Live, ProviderLive
    <2>4. Window(id, boxes[id].exp)
      BY <1>1, <2>3 DEF Inv, BoxesOK, BoxOK
    <2>5. Expires(sessions[id]) <= rec.pexp /\ Expires(sessions[id]) \in Nat /\ rec.pexp \in Nat
      BY <1>1, <1>2, <1>4, <2>2, <2>3, <2>4 DEF Window, Expires
    <2>6. Future(rec.pexp)
      BY <1>1, <1>2, <2>5 DEF Future
    <2>7. rec.pstat \in ProviderLive \cup {"unknown"}
      BY <1>4, <1>5, <2>2 DEF ProviderStatuses
    <2> QED BY <2>2, <2>6, <2>7 DEF HoldsCapacity
  <1> QED BY <1>6, <1>7

\* ... so the transaction that admits another counts it, and finds it as its
\* visitor's current session.
LEMMA OccupiedCounts ==
  ASSUME Inv, NEW id \in Ids, id \in Occupied
  PROVE  /\ Ledger[id] # None /\ HoldsCapacity(Ledger[id]) /\ id \in HeldCapacity
         /\ sessions[id] # None /\ sessions[id].key \in Keys
         /\ Latest[sessions[id].key] = id /\ Current(sessions[id].key) = Ledger[id]
  <1>1. sessions[id] # None /\ (Live(id) \/ Open(id))
    BY DEF Occupied
  <1>2. /\ Ledger[id] # None /\ RecordOK(id, Ledger[id]) /\ Ledger[id].created = sessions[id].created
    BY <1>1, LedgerFacts
  <1>3. sessions[id].key \in Keys
    BY <1>1 DEF Inv, TypeOK, Records
  <1>4. HoldsCapacity(Ledger[id])
    BY <1>2, OccupiedHolds
  <1>5. latest[sessions[id].key] = id
    BY DEF Inv, OccupiedOK
  <1>6. Latest[sessions[id].key] = id
    BY <1>2, <1>3, <1>5, LatestFacts
  <1>7. id # None
    BY NoneAssumption
  <1> QED BY <1>1, <1>2, <1>3, <1>4, <1>6, <1>7 DEF Current, HeldCapacity

\* A new record starts without a sandbox.
LEMMA NewRecordOK ==
  ASSUME Inv, NEW k \in Keys
  PROVE  /\ NewRecord(k) \in Records /\ NewRecord(k) # None
         /\ NewRecord(k).key = k /\ NewRecord(k).status = "starting"
         /\ NewRecord(k).created = now /\ NewRecord(k).tomb = now + Lifetime + Tombstone
         /\ NewRecord(k).launched = FALSE /\ NewRecord(k).runtime = FALSE
         /\ NewRecord(k).pstat = None /\ NewRecord(k).pexp = None
  <1>1. now \in Nat /\ now + Lifetime + Tombstone \in Nat
    BY TimingAssumption DEF Inv, TypeOK
  <1>2. NewRecord(k) \in Records
    BY <1>1 DEF NewRecord, Records, Statuses
  <1> QED BY <1>2, NoneAssumption DEF NewRecord


\* A start is admitted only while the others leave room, and to a visitor whose
\* last sandbox of the kind no longer counts.
LEMMA ReserveOccupied ==
  ASSUME Inv, TypeOK', NEW k \in Keys, NEW id \in Ids, id \notin drawn, now' = now,
         Cardinality(HeldCapacity) < Active,
         ~(Current(k) # None /\ HoldsCapacity(Current(k))),
         sessions' = [Ledger EXCEPT ![id] = NewRecord(k)], latest' = [Latest EXCEPT ![k] = id],
         \A g \in Ids \ {id} : Evolves(g)
  PROVE  OccupiedOK'
  <1>1. /\ sessions'[id] = NewRecord(k) /\ NewRecord(k).key = k
        /\ \A g \in Ids \ {id} : sessions'[g] = Ledger[g]
    BY NewRecordOK DEF Ledger
  <1>2. /\ latest'[k] = id
        /\ \A j \in Keys \ {k} : latest'[j] = Latest[j]
    BY DEF Latest
  <1>3. ASSUME NEW g \in Ids \ {id}, g \in Occupied'
        PROVE  g \in Occupied /\ g \in HeldCapacity /\ latest'[sessions'[g].key] = g
    <2>1. /\ sessions'[g] # None /\ Future(Expires(sessions[g]))' /\ (Live(g) \/ Open(g))'
          /\ Evolves(g)
      BY <1>3 DEF Occupied
    <2>2. /\ sessions[g] # None /\ sessions'[g].created = sessions[g].created
          /\ sessions'[g].key = sessions[g].key /\ (Live(g) \/ Open(g))
      BY <2>1 DEF Evolves
    <2>3. g \in Occupied
      BY <2>1, <2>2 DEF Occupied, Future, Expires
    <2>4. /\ g \in HeldCapacity /\ HoldsCapacity(Ledger[g]) /\ Ledger[g] # None
          /\ sessions[g].key \in Keys /\ Latest[sessions[g].key] = g
          /\ Current(sessions[g].key) = Ledger[g]
      BY <2>3, OccupiedCounts
    <2>5. sessions[g].key # k
      BY <2>4
    <2> QED BY <1>2, <2>2, <2>3, <2>4, <2>5
  <1>4. Occupied' \subseteq HeldCapacity \cup {id}
    BY <1>3 DEF Occupied
  <1>5. /\ IsFiniteSet(HeldCapacity) /\ Cardinality(HeldCapacity) \in Nat
    <2>1. HeldCapacity \subseteq Ids
      BY DEF HeldCapacity
    <2> QED BY <2>1, NoneAssumption, FS_Subset, FS_CardinalityType
  <1>6. /\ IsFiniteSet(HeldCapacity \cup {id})
        /\ Cardinality(HeldCapacity \cup {id}) <= Cardinality(HeldCapacity) + 1
        /\ Cardinality(HeldCapacity \cup {id}) \in Nat
    <2>1. IsFiniteSet(HeldCapacity \cup {id})
      BY <1>5, FS_AddElement
    <2>2. Cardinality(HeldCapacity \cup {id}) =
            IF id \in HeldCapacity THEN Cardinality(HeldCapacity) ELSE Cardinality(HeldCapacity) + 1
      BY <1>5, FS_AddElement
    <2> QED BY <1>5, <2>1, <2>2, FS_CardinalityType
  <1>7. Cardinality(Occupied') <= Cardinality(HeldCapacity \cup {id}) /\ Cardinality(Occupied') \in Nat
    BY <1>4, <1>6, FS_Subset, FS_CardinalityType
  <1>8. Active \in Nat
    BY TimingAssumption
  <1>9. Cardinality(Occupied') <= Active
    BY <1>5, <1>6, <1>7, <1>8
  <1>10. \A g \in Occupied' : latest'[sessions'[g].key] = g
    <2> TAKE g \in Occupied'
    <2>1. g \in Ids
      BY DEF Occupied
    <2> QED BY <1>1, <1>2, <1>3, <2>1
  <1> QED BY <1>9, <1>10 DEF OccupiedOK

\* A reservation: capacity that is counted free holds no sandbox, not even one
\* that is still to come.
LEMMA ReserveInv ==
  ASSUME Inv, NEW p \in Handlers, NEW k \in Keys, Reserve(p, k)
  PROVE  Inv'
  <1> USE TimingAssumption, NoneAssumption
  <1> DEFINE rec == NewRecord(k)
  <1>1. PICK id \in Ids :
          /\ id \notin drawn /\ drawn' = drawn \cup {id}
          /\ sessions' = [Ledger EXCEPT ![id] = rec]
          /\ latest' = [Latest EXCEPT ![k] = id]
          /\ h' = [h EXCEPT ![p] = [Idle EXCEPT !.op = "start", !.since = Since(p), !.pc = "create",
                                                !.id = id, !.key = k, !.rec = rec]]
    BY DEF Reserve
  <1>2. /\ UNCHANGED <<now, meters, boxes, creating, sent>>
        /\ Cardinality(HeldCapacity) < Active
        /\ ~(Current(k) # None /\ HoldsCapacity(Current(k)))
        /\ h[p].pc = "idle" \/ h[p].pc = "reserve"
    BY DEF Reserve, Admitted, Starting, At
  <1>3. /\ rec \in Records /\ rec # None /\ rec.key = k /\ rec.status = "starting"
        /\ rec.created = now /\ rec.tomb = now + Lifetime + Tombstone /\ rec.launched = FALSE
        /\ rec.runtime = FALSE /\ rec.pstat = None /\ rec.pexp = None
    BY NewRecordOK
  <1> HIDE DEF rec
  <1>4. /\ sessions[id] = None /\ boxes[id].st = "missing" /\ ~boxes[id].up /\ creating[id] = None
        /\ ~Open(id) /\ ~Live(id)
        /\ \A q \in Handlers : h[q].pc # "idle" => h[q].id \in Ids \ {id}
    BY <1>1, FreshFacts
  <1>5. /\ TypeOK /\ now \in Nat /\ now' = now /\ drawn \subseteq drawn' /\ id \in drawn'
        /\ meters' = meters /\ boxes' = boxes /\ creating' = creating /\ sent' = sent
        /\ boxes \in [Ids -> Boxes] /\ h \in [Handlers -> HandlerStates]
    BY <1>1, <1>2 DEF Inv, TypeOK
  <1>6. sessions'[id] = rec /\ \A g \in Ids \ {id} : sessions'[g] = Ledger[g]
    BY <1>1 DEF Ledger
  <1>7. /\ Since(p) \in Nat /\ Since(p) <= now /\ now <= Since(p) + MaxDuration
    BY <1>2, <1>5, HandlerFacts DEF Since, HandlerOK, At
  <1> DEFINE x == [Idle EXCEPT !.op = "start", !.since = Since(p), !.pc = "create", !.id = id,
                               !.key = k, !.rec = rec]
  <1>8. h' = [h EXCEPT ![p] = x] /\ x = [Idle EXCEPT !.op = "start", !.since = Since(p), !.pc = "create", !.id = id,
                               !.key = k, !.rec = rec]
    BY <1>1, Zenon
  <1> HIDE DEF x
  <1>9. x = [op |-> "start", since |-> Since(p), pc |-> "create", id |-> id, key |-> k,
             rec |-> rec, view |-> NoBox, mutation |-> FALSE]
    BY <1>8 DEF Idle
  <1>10. /\ h' = [h EXCEPT ![p] = h'[p]] /\ h'[p] \in HandlerStates /\ h'[p].pc = "create"
         /\ h'[p].since = Since(p) /\ h'[p].id = id /\ h'[p].key = k /\ h'[p].rec = rec
    <2>1. NoBox \in Views
      BY DEF NoBox, Views, ProviderStatuses
    <2>2. x \in HandlerStates
      BY <1>3, <1>7, <1>9, <2>1 DEF HandlerStates, Places
    <2>3. h'[p] = x /\ h' = [h EXCEPT ![p] = h'[p]]
      BY <1>8, <2>2, EnterFields
    <2> QED BY <1>9, <2>2, <2>3
  <1>11. \A q \in Handlers \ {p} : h'[q] = h[q]
    BY <1>5, <1>10
  <1>12. \A g \in Ids \ {id} : (Open(g)' => Open(g)) /\ Live(g)' = Live(g)
    BY <1>5, <1>10, <1>11 DEF Open, Live
  <1>13. \A g \in Ids \ {id} : Evolves(g)
    <2> TAKE g \in Ids \ {id}
    <2>1. /\ Ledger[g] # None => /\ sessions[g] # None
                                 /\ Ledger[g].created = sessions[g].created
                                 /\ Ledger[g].key = sessions[g].key
                                 /\ Ledger[g].launched = sessions[g].launched
          /\ Live(g) \/ Open(g) => Ledger[g] # None
      BY LedgerFacts
    <2>2. sessions'[g] = Ledger[g]
      BY <1>6
    <2> QED BY <1>5, <1>12, <2>1, <2>2 DEF Evolves
  <1>14. TypeOK'
    <2>1. \A g \in Ids : sessions'[g] \in Records \cup {None}
      BY <1>3, <1>6, LedgerFacts
    <2>2. sessions' = [g \in Ids |-> sessions'[g]]
      BY <1>1 DEF Ledger
    <2>3. latest' \in [Keys -> Ids \cup {None}]
      BY <1>1, LatestFacts DEF Latest
    <2>4. sessions' \in [Ids -> Records \cup {None}]
      BY <2>1, <2>2
    <2>5. h' \in [Handlers -> HandlerStates]
      BY <1>5, <1>10
    <2>6. drawn' \in SUBSET Ids
      BY <1>1, <1>5 DEF TypeOK
    <2> QED BY <1>5, <2>3, <2>4, <2>5, <2>6 DEF TypeOK
  <1>15. RecordsOK'
    <2> SUFFICES ASSUME NEW g \in Ids, sessions'[g] # None PROVE RecordOK(g, sessions[g])'
      BY DEF RecordsOK
    <2>1. CASE g = id
      <3>1. ~Live(id)'
        BY <1>4, <1>5 DEF Live
      <3>2. /\ rec.created <= now /\ rec.tomb >= Expires(rec) + Tombstone /\ rec.pstat \notin Gone
            /\ now <= rec.created + MaxDuration + CreateLatency
        BY <1>3, <1>5 DEF Expires, Gone, ProviderStatuses
      <3> QED BY <1>3, <1>5, <1>6, <2>1, <3>1, <3>2 DEF RecordOK, Expires
    <2>2. CASE g # id
      <3>1. sessions'[g] = Ledger[g] /\ RecordOK(g, Ledger[g])
        BY <1>6, <2>2, LedgerFacts
      <3>2. \A r : RecordOK(g, r) /\ (Open(g)' => now' <= r.created + MaxDuration + CreateLatency)
                     => RecordOK(g, r)'
        BY <1>5, <1>13, <2>2, RecordCarries
      <3>3. Open(g)' => now' <= Ledger[g].created + MaxDuration + CreateLatency
        BY <1>5, <1>12, <2>2, <3>1 DEF RecordOK
      <3> QED BY <3>1, <3>2, <3>3
    <2> QED BY <2>1, <2>2
  <1>16. BoxesOK'
    <2> SUFFICES ASSUME NEW g \in Ids PROVE BoxOK(g)' /\ CreateOK(g)'
      BY DEF BoxesOK
    <2>1. CASE g = id
      <3>1. boxes'[id].st = "missing" /\ ~boxes'[id].up /\ creating'[id] = None /\ ~Live(id)'
        BY <1>4, <1>5 DEF Live
      <3> QED BY <2>1, <3>1 DEF BoxOK, CreateOK
    <2>2. CASE g # id
      <3>1. BoxOK(g) /\ CreateOK(g) /\ Evolves(g) /\ (Open(g)' => Open(g)) /\ Live(g)' = Live(g)
        BY <1>12, <1>13, <2>2 DEF Inv, BoxesOK
      <3>2. Window(g, boxes[g].exp) => Window(g, boxes[g].exp)'
        BY <1>5, <3>1 DEF Window, Evolves, Expires
      <3>3. BoxOK(g)'
        <4> HIDE DEF Open, Live, Window
        <4> QED BY <1>5, <3>1, <3>2 DEF BoxOK, Evolves
      <3>4. CreateOK(g)'
        <4> SUFFICES ASSUME creating[g] # None PROVE CreateOK(g)'
          BY <1>5 DEF CreateOK
        <4>1. Open(g) /\ sessions[g] # None
          BY <3>1 DEF Open, CreateOK
        <4>2. sessions'[g] # None /\ sessions'[g].created = sessions[g].created
          BY <3>1, <4>1 DEF Evolves
        <4> QED BY <1>5, <3>1, <4>2 DEF CreateOK, Expires
      <3> QED BY <3>3, <3>4
    <2> QED BY <2>1, <2>2
  <1>17. HandlersOK'
    <2>1. ASSUME NEW q \in Handlers \ {p} PROVE Waits(q)
      <3>1. HandlerOK(h[q]) /\ h[q] \in HandlerStates /\ h'[q] = h[q]
        BY <1>11, HandlerFacts
      <3>2. h[q].pc # "idle" => h[q].id \in Ids \ {id} /\ now <= h[q].since + MaxDuration
        BY <1>4, <3>1 DEF HandlerOK
      <3>3. h[q].pc \in Creation => h[q].pc # "idle"
        BY DEF Creation
      <3>4. h[q].pc \in Creation /\ sessions'[h[q].id] # None =>
              sessions'[h[q].id].launched = sessions[h[q].id].launched
        BY <1>6, <3>2, <3>3, LedgerFacts
      <3>5. h[q].pc = "create" => sessions'[h[q].id] # None
        <4> SUFFICES ASSUME h[q].pc = "create" PROVE sessions'[h[q].id] # None
          OBVIOUS
        <4>1. Open(h[q].id) /\ sessions[h[q].id] # None
          BY <3>1 DEF Open, HandlerOK
        <4> QED BY <1>13, <3>2, <4>1 DEF Evolves
      <3> QED BY <1>5, <1>13, <3>1, <3>2, <3>4, <3>5 DEF Waits
    <2>2. HandlerOK(h[p])'
      BY <1>3, <1>4, <1>5, <1>6, <1>7, <1>10 DEF HandlerOK, Creation, Early, Expiry, Charged, Proxying, Launched, Remembering
    <2>3. Moves(p)
      BY <1>1, <1>10, <2>2 DEF Moves
    <2> DEFINE S == {p}
    <2>4. /\ \A q, g \in S : q = g
          /\ \A q \in Handlers \ S : Waits(q)
          /\ \A q \in Handlers \cap S : Moves(q)
      BY <2>1, <2>3
    <2> HIDE DEF S
    <2>5. now' \in Nat /\ now <= now' /\ drawn \subseteq drawn'
      BY <1>5
    <2> QED BY <2>4, <2>5, HandlersCarry
  <1>18. OccupiedOK'
    BY <1>1, <1>2, <1>5, <1>13, <1>14, ReserveOccupied DEF rec
  <1>19. MetersOK'
    <2>1. \A q \in Handlers : h'[q].pc \in Charged =>
             h[q].pc \in Charged /\ h'[q].id = h[q].id /\ h'[q].mutation = h[q].mutation
      BY <1>10, <1>11 DEF Charged
    <2> QED BY <1>5, <1>14, <2>1, MetersCarry
  <1> QED BY <1>14, <1>15, <1>16, <1>17, <1>18, <1>19 DEF Inv


-----------------------------------------------------------------------------
(* The invariant.                                                          *)

\* At the start there is nothing.
LEMMA InitInv == Init => Inv
  <1> SUFFICES ASSUME Init PROVE Inv
    OBVIOUS
  <1> USE NoneAssumption, TimingAssumption
  <1>1. /\ now = 0 /\ drawn = {} /\ \A k \in Keys : latest[k] = None
        /\ \A id \in Ids : sessions[id] = None /\ meters[id] = None /\ creating[id] = None
                           /\ boxes[id] = NoBox /\ sent[id] = [requests |-> 0, mutations |-> 0]
        /\ \A p \in Handlers : h[p] = Idle
    BY DEF Init
  <1>2. /\ Idle \in HandlerStates /\ HandlerOK(Idle) /\ Idle.pc = "idle"
    BY IdleOK DEF Idle
  <1>3. NoBox \in Boxes /\ NoBox.st = "missing" /\ ~NoBox.up
    BY DEF NoBox, Boxes
  <1>4. TypeOK
    <2>1. now \in 0..MaxTime /\ drawn \in SUBSET Ids
      BY <1>1
    <2>2. /\ sessions \in [Ids -> Records \cup {None}] /\ latest \in [Keys -> Ids \cup {None}]
          /\ meters \in [Ids -> Meters \cup {None}] /\ creating \in [Ids -> Creates \cup {None}]
      BY DEF Init
    <2>3. boxes \in [Ids -> Boxes] /\ h \in [Handlers -> HandlerStates]
      BY <1>2, <1>3 DEF Init
    <2>4. sent \in [Ids -> [requests : Nat, mutations : Nat]]
      BY DEF Init
    <2> QED BY <2>1, <2>2, <2>3, <2>4 DEF TypeOK
  <1>5. RecordsOK
    BY <1>1 DEF RecordsOK
  <1>6. BoxesOK
    BY <1>1, <1>3 DEF BoxesOK, BoxOK, CreateOK, Live, ProviderLive
  <1>7. HandlersOK
    BY <1>1, <1>2 DEF HandlersOK, Creation
  <1>8. OccupiedOK
    <2>1. Occupied = {}
      BY <1>1 DEF Occupied
    <2> QED BY <2>1, FS_EmptySet DEF OccupiedOK
  <1>9. MetersOK
    BY <1>1 DEF MetersOK
  <1> QED BY <1>4, <1>5, <1>6, <1>7, <1>8, <1>9 DEF Inv

\* Every step of a handler keeps the invariant.
LEMMA HandlerStepInv ==
  ASSUME Inv, NEW p \in Handlers, HandlerStep(p)
  PROVE  Inv'
  <1>1. CASE \/ CloseMeter(p, "expireClose", "expireStop") \/ CloseMeter(p, "recClose", "recTerminal")
             \/ CloseMeter(p, "resetClose", "resetMark") \/ CloseMeter(p, "proxyClose", "proxyEnd")
             \/ FailCloseMeter(p)
    BY <1>1, CloseMeterInv
  <1>2. CASE \/ StopSandbox(p, "expireStop", "expireUpdate")
             \/ StopSandbox(p, "timeoutStop", "timeoutUpdate")
             \/ StopSandbox(p, "failStop", "failUpdate") \/ StopSandbox(p, "dropStop", "dropped")
             \/ StopSandbox(p, "resetStop", "resetUpdate")
    BY <1>2, StopSandboxInv
  <1>3. CASE ExpireUpdate(p)
    BY <1>3, ExpireUpdateInv
  <1>4. CASE TimeoutUpdate(p)
    BY <1>4, TimeoutUpdateInv
  <1>5. CASE ReconcileGet(p)
    BY <1>5, ReconcileGetInv
  <1>6. CASE ReconcileTerminal(p)
    BY <1>6, ReconcileTerminalInv
  <1>7. CASE ReconcileUpdate(p)
    BY <1>7, ReconcileUpdateInv
  <1>8. CASE ProbeHealth(p)
    BY <1>8, ProbeHealthInv
  <1>9. CASE InitializeMeter(p)
    BY <1>9, InitializeMeterInv
  <1>10. CASE PublishReady(p)
    BY <1>10, PublishReadyInv
  <1>11. CASE FailClosed(p)
    BY <1>11, FailClosedInv
  <1>12. CASE CreateCall(p)
    BY <1>12, CreateCallInv
  <1>13. CASE CreateOk(p)
    BY <1>13, CreateOkInv
  <1>14. CASE CreateFails(p)
    BY <1>14, CreateFailsInv
  <1>15. CASE CreateUnknown(p)
    BY <1>15, CreateUnknownInv
  <1>16. CASE LaunchFence(p)
    BY <1>16, LaunchFenceInv
  <1>17. CASE Launch(p)
    BY <1>17, LaunchInv
  <1>18. CASE LaunchUnknown(p)
    BY <1>18, LaunchUnknownInv
  <1>19. CASE ResetMark(p)
    BY <1>19, ResetMarkInv
  <1>20. CASE ResetUpdate(p)
    BY <1>20, ResetUpdateInv
  <1>21. CASE Restart(p)
    BY <1>21, RestartInv
  <1>22. CASE Charge(p)
    BY <1>22, ChargeInv
  <1>23. CASE ProxyGet(p)
    BY <1>23, ProxyGetInv
  <1>24. CASE ProxyPending(p)
    BY <1>24, ProxyPendingInv
  <1>25. CASE ProxyEnd(p)
    BY <1>25, ProxyEndInv
  <1>26. CASE Forward(p)
    BY <1>26, ForwardInv
  <1>27. CASE ProxyMeter(p) \/ ProxyLedger(p) \/ ProxyMeterAgain(p)
    BY <1>27, ProxyLooksInv
  <1> QED BY <1>1, <1>2, <1>3, <1>4, <1>5, <1>6, <1>7, <1>8, <1>9, <1>10, <1>11, <1>12, <1>13,
           <1>14, <1>15, <1>16, <1>17, <1>18, <1>19, <1>20, <1>21, <1>22, <1>23, <1>24, <1>25,
           <1>26, <1>27 DEF HandlerStep

\* Every step keeps the invariant.
LEMMA NextInv == Inv /\ [Next]_vars => Inv'
  <1> SUFFICES ASSUME Inv, [Next]_vars PROVE Inv'
    OBVIOUS
  <1>1. CASE UNCHANGED vars
    <2>1. UNCHANGED <<now, ledger, meters, boxes, creating, h, sent>>
      BY <1>1 DEF vars, ledger
    <2>2. /\ boxes' \in [Ids -> Boxes] /\ creating' \in [Ids -> Creates \cup {None}]
          /\ now' = now /\ sessions' = sessions /\ drawn' = drawn
      BY <2>1 DEF Inv, TypeOK, ledger
    <2>3. \A id \in Ids : BoxOK(id)' /\ CreateOK(id)' /\ Evolves(id)
      <3> TAKE id \in Ids
      <3>1. BoxOK(id) /\ (Open(id)' => Open(id))
        BY <2>1 DEF Inv, BoxesOK, Open
      <3> QED BY <2>1, <3>1, BoxKept DEF BoxOK
    <2> QED BY <2>1, <2>2, <2>3, ProviderMovesInv
  <1>2. ASSUME NEW p \in Handlers, NEW k \in Keys,
               \/ AskCurrent(p, k) \/ Reserve(p, k) \/ ReserveExisting(p, k) \/ AskReset(p, k)
               \/ \E id \in Ids, mutation \in BOOLEAN : AskProxy(p, k, id, mutation)
        PROVE  Inv'
    BY <1>2, AskCurrentInv, ReserveInv, ReserveExistingInv, AskResetInv, AskProxyInv
  <1>3. ASSUME NEW p \in Handlers, HandlerStep(p) PROVE Inv'
    BY <1>3, HandlerStepInv
  <1>4. ASSUME NEW p \in Handlers, Stop(p) PROVE Inv'
    BY <1>4, DoneInv DEF Stop
  <1>5. ASSUME NEW id \in Ids, CreateArrives(id) \/ CreateLost(id) \/ SandboxMoves(id) PROVE Inv'
    BY <1>5, CreateArrivesInv, CreateLostInv, SandboxMovesInv
  <1>6. CASE Tick
    BY <1>6, TickInv
  <1> QED BY <1>1, <1>2, <1>3, <1>4, <1>5, <1>6 DEF Next

\* The invariant holds in every reachable state: every record says of the
\* provider what is so or is too careful, every handler remembers of its
\* session what still holds when it acts on it, and requests under way are
\* among those the meter counted.
THEOREM Invariance == Spec => []Inv
  <1> QED BY InitInv, NextInv, PTL DEF Spec


-----------------------------------------------------------------------------
(* What the invariant means for the sandboxes.                             *)

\* A sandbox that lives holds the capacity of its session.
LEMMA InvLiveIsCounted == Inv => LiveIsCounted
  <1> SUFFICES ASSUME Inv, NEW id \in Ids, Live(id) \/ creating[id] # None
               PROVE  \/ HasRecord(id) /\ HoldsCapacity(sessions[id])
                      \/ /\ HasRecord(id) /\ ~Future(Expires(sessions[id]))
                         /\ now <= Expires(sessions[id]) + CreateLatency
    BY DEF LiveIsCounted
  <1>1. Live(id) \/ Open(id)
    BY DEF Open
  <1>2. /\ sessions[id] # None /\ RecordOK(id, sessions[id])
        /\ now <= Expires(sessions[id]) + CreateLatency
    BY <1>1, TombAhead
  <1>3. CASE Future(Expires(sessions[id]))
    <2>1. id \in Occupied
      BY <1>1, <1>2, <1>3 DEF Occupied
    <2> QED BY <1>2, <2>1, OccupiedHolds DEF HasRecord
  <1> QED BY <1>2, <1>3 DEF HasRecord

\* There are no more of them than the limit, and one to a visitor.
LEMMA InvWithinCapacity == Inv => LiveWithinCapacity /\ OneSandboxPerVisitor
  <1> SUFFICES ASSUME Inv PROVE LiveWithinCapacity /\ OneSandboxPerVisitor
    OBVIOUS
  <1>1. IsFiniteSet(Occupied) /\ Cardinality(Occupied) \in Nat /\ Cardinality(Occupied) <= Active
    <2>1. Occupied \subseteq Ids
      BY DEF Occupied
    <2> QED BY <2>1, NoneAssumption, FS_Subset, FS_CardinalityType DEF Inv, OccupiedOK
  <1> DEFINE Within == {id \in Ids : Live(id) /\ HasRecord(id) /\ Future(Expires(sessions[id]))}
             Own(k) == {id \in Ids : /\ Live(id) /\ HasRecord(id) /\ sessions[id].key = k
                                     /\ Future(Expires(sessions[id]))}
  <1>2. Within \subseteq Occupied
    BY DEF Occupied, HasRecord
  <1>3. Cardinality(Within) <= Active
    <2> HIDE DEF Within
    <2>1. Cardinality(Within) <= Cardinality(Occupied) /\ Cardinality(Within) \in Nat
      BY <1>1, <1>2, FS_Subset, FS_CardinalityType
    <2> QED BY <1>1, <2>1, TimingAssumption
  <1>4. ASSUME NEW k \in Keys PROVE Cardinality(Own(k)) <= 1
    <2>1. ASSUME NEW id \in Ids, id \in Own(k) PROVE id = latest[k]
      <3>1. id \in Occupied /\ sessions[id].key = k
        BY <2>1 DEF Occupied, HasRecord
      <3> QED BY <3>1 DEF Inv, OccupiedOK
    <2>2. Own(k) \subseteq Ids
      OBVIOUS
    <2> HIDE DEF Own
    <2>3. IsFiniteSet({latest[k]}) /\ Cardinality({latest[k]}) = 1
      BY FS_Singleton
    <2>4. Own(k) \subseteq {latest[k]}
      BY <2>1, <2>2
    <2> QED BY <2>3, <2>4, FS_Subset, FS_CardinalityType
  <1> QED BY <1>3, <1>4 DEF LiveWithinCapacity, OneSandboxPerVisitor

\* A session past its end, and past any late create call, holds no capacity.
LEMMA InvCapacityReturned == Inv => CapacityReturned
  <1> SUFFICES ASSUME Inv, NEW id \in Ids, HasRecord(id), HoldsCapacity(sessions[id])
               PROVE  now < Expires(sessions[id]) + CreateLatency
    BY DEF CapacityReturned
  <1>1. /\ sessions[id] \in Records
        /\ sessions[id].pexp # None => sessions[id].pexp <= Expires(sessions[id]) + CreateLatency
    BY DEF Inv, RecordsOK, RecordOK, HasRecord
  <1>2. sessions[id].created \in Nat /\ sessions[id].pexp \in Nat \cup {None} /\ now \in Nat
    BY <1>1 DEF Records, Inv, TypeOK
  <1>3. CASE sessions[id].pexp # None /\ Future(sessions[id].pexp)
    BY <1>1, <1>2, <1>3, TimingAssumption DEF Future, Expires
  <1>4. CASE Future(Expires(sessions[id]))
    <2>1. CreateLatency \in Nat
      BY TimingAssumption
    <2>2. CreateLatency # 0 \/ CreateLatency = 0
      OBVIOUS
    <2> QED BY <1>2, <1>4, <2>1, TimingAssumption DEF Future, Expires
  <1> QED BY <1>3, <1>4 DEF HoldsCapacity

\* A runtime that is up was recorded as launched.
LEMMA InvLaunchIsRecorded == Inv => LaunchIsRecorded
  BY DEF Inv, BoxesOK, BoxOK, LaunchIsRecorded, HasRecord

\* However start, reset, expiry, failed stops and stale updates interleave, for
\* any number of visitors, handlers and sessions and any durations in the order
\* the code's are: a sandbox that runs or may still come is counted, there are
\* no more than the limit and no two of one visitor, capacity comes back, and
\* no gateway runs whose launch was not recorded.
THEOREM SandboxesAreCounted == Spec => []SandboxesCounted
  <1>1. Inv => SandboxesCounted
    BY InvLiveIsCounted, InvWithinCapacity, InvCapacityReturned, InvLaunchIsRecorded
       DEF SandboxesCounted, Inv
  <1> QED BY <1>1, Invariance, PTL

\* What reached a sandbox was charged first and within the budget, and a ready
\* session has its meter, whichever handlers die between the two.
THEOREM RequestsAreCharged == Spec => []ForwardsAreCharged
  <1>1. ASSUME Inv, NEW id \in Ids, sent[id].requests > 0
        PROVE  /\ meters[id] # None
               /\ sent[id].requests <= meters[id].forwarded /\ meters[id].forwarded <= RequestsTotal
               /\ sent[id].mutations <= meters[id].mutations /\ meters[id].mutations <= MutationsTotal
    <2>1. ChargedTo(id) \subseteq Handlers /\ MutatingOn(id) \subseteq Handlers
      BY DEF ChargedTo, MutatingOn
    <2>2. Cardinality(ChargedTo(id)) \in Nat /\ Cardinality(MutatingOn(id)) \in Nat
      BY <2>1, NoneAssumption, FS_Subset, FS_CardinalityType
    <2>3. IF meters[id] = None THEN sent[id].requests = 0 /\ sent[id].mutations = 0
          ELSE /\ sent[id].requests + Cardinality(ChargedTo(id)) <= meters[id].forwarded
               /\ meters[id].forwarded <= RequestsTotal
               /\ sent[id].mutations + Cardinality(MutatingOn(id)) <= meters[id].mutations
               /\ meters[id].mutations <= MutationsTotal
      BY <1>1 DEF Inv, MetersOK
    <2>4. /\ sent[id].requests \in Nat /\ sent[id].mutations \in Nat
          /\ meters[id] # None => meters[id].forwarded \in Nat /\ meters[id].mutations \in Nat
      BY <1>1 DEF Inv, TypeOK, Meters
    <2>5. meters[id] # None
      BY <1>1, <2>3, <2>4
    <2> HIDE DEF ChargedTo, MutatingOn
    <2> QED BY <2>2, <2>3, <2>4, <2>5
  <1>2. Inv => ReadyIsMetered
    BY DEF Inv, RecordsOK, RecordOK, ReadyIsMetered, HasRecord
  <1>3. Inv => ForwardsAreCharged
    BY <1>1, <1>2 DEF ForwardsAreCharged, BudgetBoundsForwards
  <1> QED BY <1>3, Invariance, PTL

-----------------------------------------------------------------------------
(* What a step never does.                                                 *)

\* A record that a transaction may write: ready only if it was, or if it was
\* still starting.
NotRevived(id, rec) == rec.status = "ready" => Ledger[id].status \in {"starting", "ready"}

\* A transaction on one record revives none, if not its own.
LEMMA UpdateRevivesNone ==
  ASSUME Inv, NEW id \in Ids, NEW rec, Update(id, rec), Ledger[id] # None, NotRevived(id, rec)
  PROVE  NoResurrection
  <1> SUFFICES ASSUME NEW g \in Ids, sessions'[g] # None, sessions'[g].status = "ready"
               PROVE  sessions[g].status \in {"starting", "ready"}
    BY DEF NoResurrection
  <1>1. sessions'[g] = IF g = id THEN rec ELSE Ledger[g]
    BY DEF Update, Ledger
  <1>2. Ledger[g] # None /\ Ledger[g].status \in {"starting", "ready"}
    BY <1>1 DEF NotRevived
  <1> QED BY <1>2, LedgerFacts

\* The status of a record that is marked.
LEMMA MarkedStatus ==
  ASSUME NEW rec \in Records, NEW status, NEW b
  PROVE  [rec EXCEPT !.status = status, !.timedOut = b].status = status
  BY DEF Records

\* An observation of the provider leaves the status.
LEMMA ObservedStatus ==
  ASSUME NEW rec \in Records, NEW st, NEW exp
  PROVE  Observe(rec, st, exp).status = rec.status
  BY DEF Observe, Records

\* A step that leaves the ledger alone revives none.
LEMMA SessionsKept == UNCHANGED sessions => NoResurrection
  BY DEF NoResurrection

\* A step that leaves the meters alone opens none.
LEMMA MetersKept ==
  ASSUME Inv, UNCHANGED meters
  PROVE  MeterOnlyCloses
  BY DEF Inv, TypeOK, Meters, MeterOnlyCloses

\* A record of the normalized ledger is a record.
LEMMA LedgerTyped ==
  ASSUME Inv, NEW id \in Ids, Ledger[id] # None
  PROVE  Ledger[id] \in Records
  BY LedgerFacts

\* A reservation takes an id that was never drawn.
LEMMA ReserveRevivesNone ==
  ASSUME Inv, NEW p \in Handlers, NEW k \in Keys, Reserve(p, k)
  PROVE  NoResurrection
  <1>1. PICK id \in Ids : id \notin drawn /\ sessions' = [Ledger EXCEPT ![id] = NewRecord(k)]
    BY DEF Reserve
  <1>2. sessions[id] = None
    BY <1>1, FreshFacts
  <1>3. \A g \in Ids \ {id} : sessions'[g] = Ledger[g]
    BY <1>1 DEF Ledger
  <1> QED BY <1>2, <1>3, LedgerFacts DEF NoResurrection, HasRecord


\* Every transaction of a handler on its session's record.
LEMMA WritersReviveNone ==
  ASSUME Inv, NEW p \in Handlers,
         \/ ExpireUpdate(p) \/ TimeoutUpdate(p) \/ ReconcileTerminal(p) \/ ReconcileUpdate(p)
         \/ PublishReady(p) \/ FailClosed(p) \/ CreateUnknown(p) \/ LaunchFence(p)
         \/ LaunchUnknown(p) \/ ResetMark(p) \/ ResetUpdate(p) \/ ProxyPending(p) \/ ProxyEnd(p)
  PROVE  NoResurrection /\ UNCHANGED meters
  <1>0. PICK id : id = h[p].id
    BY SMTT(60)
  <1> DEFINE r == Ledger[id]
  <1>1. h[p].pc # "idle" /\ r # None /\ UNCHANGED meters
    BY <1>0 DEF ExpireUpdate, TimeoutUpdate, ReconcileTerminal, ReconcileUpdate, PublishReady, FailClosed,
           CreateUnknown, LaunchFence, LaunchUnknown, ResetMark, ResetUpdate, ProxyPending, ProxyEnd, At
  <1> SUFFICES NoResurrection
    BY <1>1
  <1>2. id \in Ids /\ r \in Records
    BY <1>0, <1>1, HandlerFacts, LedgerTyped
  <1>3. \A st, exp : Observe(r, st, exp).status = r.status
    BY <1>2, ObservedStatus
  <1>4. ASSUME NEW status \in {"failed", "expired", "resetting"}, NEW rec, Update(id, rec),
               rec.status = status
        PROVE  NoResurrection
    BY <1>1, <1>2, <1>4, UpdateRevivesNone DEF NotRevived
  <1>5. ASSUME NEW rec, Update(id, rec), rec.status = r.status PROVE NoResurrection
    BY <1>1, <1>2, <1>5, UpdateRevivesNone DEF NotRevived
  <1>6. \A status, b : [r EXCEPT !.status = status, !.timedOut = b].status = status
    BY <1>2, MarkedStatus
  <1>7. \A status \in Statuses : \A st, exp :
          Observe([r EXCEPT !.status = status, !.timedOut = FALSE], st, exp).status = status
    <2> TAKE status \in Statuses
    <2> TAKE st, exp
    <2> DEFINE marked == [r EXCEPT !.status = status, !.timedOut = FALSE]
    <2>1. marked \in Records /\ marked.status = status
      BY <1>2, StatusFields
    <2> HIDE DEF marked
    <2> QED BY <2>1, ObservedStatus DEF marked
  <1>8. /\ "failed" \in Statuses /\ "expired" \in Statuses /\ "resetting" \in Statuses
    BY DEF Statuses
  <1> HIDE DEF r
  <1>9. CASE ExpireUpdate(p)
    <2> DEFINE status == IF Deleted(p) THEN "expired" ELSE "failed"
               rec == Observe([r EXCEPT !.status = status, !.timedOut = FALSE], h[p].view.st, SeenExp(p))
    <2>1. Update(id, rec)
      BY <1>0, <1>9 DEF ExpireUpdate, r
    <2>2. status \in Statuses /\ status \in {"failed", "expired"}
      BY DEF Statuses
    <2> HIDE DEF status
    <2>3. rec.status = status
      BY <1>7, <2>2
    <2> HIDE DEF rec
    <2> QED BY <1>4, <2>1, <2>2, <2>3
  <1>10. CASE TimeoutUpdate(p)
    <2>1. PICK st : Update(id, [r EXCEPT !.pstat = st])
      BY <1>0, <1>10 DEF TimeoutUpdate, r
    <2>2. [r EXCEPT !.pstat = st].status = r.status
      BY <1>2 DEF r, Records
    <2> QED BY <1>5, <2>1, <2>2
  <1>11. CASE ReconcileTerminal(p)
    <2>1. PICK st : Update(id, [r EXCEPT !.status = "failed", !.timedOut = FALSE, !.pstat = st])
      BY <1>0, <1>11 DEF ReconcileTerminal, r
    <2>2. [r EXCEPT !.status = "failed", !.timedOut = FALSE, !.pstat = st].status = "failed"
      BY <1>2 DEF r, Records
    <2> QED BY <1>4, <2>1, <2>2
  <1>12. CASE ReconcileUpdate(p)
    <2>1. Update(id, Observe(r, h[p].view.st, h[p].view.exp))
      BY <1>0, <1>12 DEF ReconcileUpdate, r
    <2> QED BY SMTT(60), <1>3, <1>5, <2>1
  <1>13. CASE PublishReady(p)
    <2> DEFINE ready == [r EXCEPT !.status = "ready", !.runtime = TRUE, !.timedOut = FALSE]
    <2>1. Update(id, IF Fenced(id, {"starting"}) THEN ready ELSE r)
      BY <1>0, <1>13 DEF PublishReady, r
    <2>2. CASE Fenced(id, {"starting"})
      <3>1. r.status = "starting" /\ Update(id, ready)
        BY <2>1, <2>2 DEF Fenced, r
      <3> QED BY <1>1, <1>2, <3>1, UpdateRevivesNone DEF NotRevived, r
    <2>3. CASE ~Fenced(id, {"starting"})
      <3>1. Update(id, r)
        BY <2>1, <2>3
      <3> QED BY <1>5, <3>1
    <2> QED BY <2>2, <2>3
  <1>14. CASE FailClosed(p)
    <2> DEFINE failed == Observe([r EXCEPT !.status = "failed", !.timedOut = FALSE], h[p].view.st, SeenExp(p))
    <2>1. Update(id, IF Fenced(id, {"ready", "starting"}) THEN failed ELSE r)
      BY <1>0, <1>14 DEF FailClosed, r
    <2>2. failed.status = "failed"
      BY <1>7, <1>8
    <2> HIDE DEF failed
    <2>3. CASE Fenced(id, {"ready", "starting"})
      BY <1>4, <2>1, <2>2, <2>3
    <2>4. CASE ~Fenced(id, {"ready", "starting"})
      BY <1>5, <2>1, <2>4
    <2> QED BY <2>3, <2>4
  <1>15. CASE CreateUnknown(p)
    <2> DEFINE base == [r EXCEPT !.status = "failed", !.timedOut = FALSE, !.pexp = None]
    <2>1. \E st, exp : Update(id, Observe(base, st, exp))
      BY <1>0, <1>15 DEF CreateUnknown, r
    <2>2. \A st, exp : Observe(base, st, exp).status = "failed"
      BY <1>2 DEF Observe, Records, r
    <2> HIDE DEF base
    <2> QED BY <1>4, <2>1, <2>2
  <1>16. CASE LaunchFence(p)
    <2> DEFINE launched == [Observe(r, h[p].view.st, h[p].view.exp) EXCEPT !.launched = TRUE]
    <2>1. Update(id, IF Fenced(id, {"starting"}) THEN launched ELSE r)
      BY <1>0, <1>16 DEF LaunchFence, r
    <2>2. launched.status = r.status
      BY <1>2 DEF Observe, Records, r
    <2> HIDE DEF launched
    <2> QED BY <1>5, <2>1, <2>2
  <1>17. CASE LaunchUnknown(p)
    <2>1. Update(id, [r EXCEPT !.status = "failed", !.timedOut = FALSE, !.pstat = "running"])
      BY <1>0, <1>17 DEF LaunchUnknown, r
    <2>2. [r EXCEPT !.status = "failed", !.timedOut = FALSE, !.pstat = "running"].status = "failed"
      BY <1>2 DEF r, Records
    <2> QED BY <1>4, <2>1, <2>2
  <1>18. CASE ResetMark(p)
    <2>1. Update(id, [r EXCEPT !.status = "resetting", !.timedOut = FALSE])
      BY <1>0, <1>18 DEF ResetMark, r
    <2> QED BY <1>4, <1>6, <2>1 DEF r
  <1>19. CASE ResetUpdate(p)
    <2>1. \/ Update(id, [r EXCEPT !.status = "expired", !.timedOut = FALSE, !.pstat = "deleted"])
          \/ Update(id, Observe([r EXCEPT !.status = "failed", !.timedOut = FALSE], h[p].view.st, SeenExp(p)))
      BY <1>0, <1>19 DEF ResetUpdate, r
    <2>2. [r EXCEPT !.status = "expired", !.timedOut = FALSE, !.pstat = "deleted"].status = "expired"
      BY <1>2 DEF r, Records
    <2> QED BY <1>4, <1>7, <1>8, <2>1, <2>2
  <1>20. CASE ProxyPending(p)
    <2>1. Update(id, Observe(r, h[p].view.st, h[p].view.exp))
      BY <1>0, <1>20 DEF ProxyPending, r
    <2> QED BY <1>3, <1>5, <2>1
  <1>21. CASE ProxyEnd(p)
    <2> DEFINE status == IF Terminal(h[p].view.st) THEN "failed" ELSE "expired"
    <2>1. Update(id, [r EXCEPT !.status = status, !.timedOut = FALSE, !.pstat = h[p].view.st])
      BY <1>0, <1>21 DEF ProxyEnd, r
    <2>2. [r EXCEPT !.status = status, !.timedOut = FALSE, !.pstat = h[p].view.st].status = status
      BY <1>2 DEF r, Records
    <2>3. status \in {"failed", "expired"}
      OBVIOUS
    <2> HIDE DEF status
    <2> QED BY <1>4, <2>1, <2>2, <2>3
  <1> QED BY <1>9, <1>10, <1>11, <1>12, <1>13, <1>14, <1>15, <1>16, <1>17, <1>18, <1>19, <1>20, <1>21

\* What a handler does to the meter of its session.
LEMMA MeterStepsClose ==
  ASSUME Inv, NEW p \in Handlers,
         \/ \E pc, next : CloseMeter(p, pc, next)
         \/ FailCloseMeter(p) \/ InitializeMeter(p) \/ Charge(p)
  PROVE  MeterOnlyCloses /\ UNCHANGED sessions
  <1>0. PICK id : id = h[p].id
    OBVIOUS
  <1>0a. PICK cost : cost = IF h[p].mutation THEN 1 ELSE 0
    OBVIOUS
  <1>1. UNCHANGED sessions
    BY SMTT(60) DEF CloseMeter, FailCloseMeter, InitializeMeter, Charge, ledger
  <1>2. \/ UNCHANGED meters
        \/ meters[id] # None /\ meters' = [meters EXCEPT ![id].open = FALSE]
        \/ /\ meters[id] = None
           /\ meters' = [meters EXCEPT ![id] = [open |-> TRUE, forwarded |-> 0, mutations |-> 0]]
        \/ /\ meters[id] # None
           /\ meters' = [meters EXCEPT ![id].forwarded = @ + 1, ![id].mutations = @ + cost]
    BY <1>0, <1>0a DEF CloseMeter, FailCloseMeter, InitializeMeter, Charge, MeterOpen
  <1>3. meters \in [Ids -> Meters \cup {None}] /\ None \notin Meters
    BY NoneAssumption DEF Inv, TypeOK
  <1>4. ASSUME NEW g \in Ids, meters[g] # None
        PROVE  /\ meters'[g] # None /\ (meters'[g].open => meters[g].open)
               /\ meters'[g].forwarded >= meters[g].forwarded
    <2>1. meters[g] \in Meters /\ meters[g].forwarded \in Nat
      BY <1>3, <1>4 DEF Meters
    <2>2. CASE meters'[g] = meters[g]
      BY <1>4, <2>1, <2>2
    <2>3. CASE g = id /\ meters' = [meters EXCEPT ![id].open = FALSE]
      <3>1. meters'[g] = [meters[g] EXCEPT !.open = FALSE]
        BY <1>3, <2>3
      <3>2. meters'[g] = [open |-> FALSE, forwarded |-> meters[g].forwarded,
                          mutations |-> meters[g].mutations]
        BY <2>1, <3>1 DEF Meters
      <3>3. meters'[g] \in Meters
        BY <2>1, <3>2 DEF Meters
      <3>4. ~meters'[g].open /\ meters'[g].forwarded = meters[g].forwarded
        BY <3>2
      <3> QED BY <1>3, <2>1, <3>3, <3>4
    <2>4. CASE g = id /\ meters' = [meters EXCEPT ![id].forwarded = @ + 1, ![id].mutations = @ + cost]
      <3>1. meters'[g] = [meters[g] EXCEPT !.forwarded = @ + 1, !.mutations = @ + cost]
        BY <1>3, <2>4
      <3>2. meters'[g] = [open |-> meters[g].open, forwarded |-> meters[g].forwarded + 1,
                          mutations |-> meters[g].mutations + cost]
        BY <2>1, <3>1 DEF Meters
      <3>3. meters'[g] \in Meters
        BY <1>0a, <2>1, <3>2 DEF Meters
      <3>4. meters'[g].open = meters[g].open /\ meters'[g].forwarded = meters[g].forwarded + 1
        BY <3>2
      <3> QED BY <1>3, <2>1, <3>3, <3>4
    <2> QED BY <1>2, <1>3, <1>4, <2>2, <2>3, <2>4
  <1> QED BY <1>1, <1>4 DEF MeterOnlyCloses

\* What was reset, failed or expired is never ready again, and a closed meter
\* stays closed and keeps its count: no order of unfenced updates, late answers
\* and dying handlers hands out a second budget.
THEOREM NothingEverReopens == Spec => NothingReopens
  <1>1. ASSUME Inv, [Next]_vars PROVE NoResurrection /\ MeterOnlyCloses
    <2>1. CASE UNCHANGED <<sessions, meters>>
      BY <1>1, <2>1, SessionsKept, MetersKept
    <2>2. ASSUME NEW p \in Handlers, NEW k \in Keys, Reserve(p, k)
          PROVE  NoResurrection /\ MeterOnlyCloses
      BY ZenonT(90), <1>1, <2>2, ReserveRevivesNone, MetersKept DEF Reserve
    <2>3. ASSUME NEW p \in Handlers, NEW k \in Keys,
                 \/ AskCurrent(p, k) \/ ReserveExisting(p, k) \/ AskReset(p, k)
                 \/ \E id \in Ids, mutation \in BOOLEAN : AskProxy(p, k, id, mutation)
          PROVE  UNCHANGED <<sessions, meters>>
      BY <2>3 DEF AskCurrent, ReserveExisting, AskReset, AskProxy, ledger
    <2>4. ASSUME NEW p \in Handlers, HandlerStep(p) PROVE NoResurrection /\ MeterOnlyCloses
      <3>1. CASE \/ ExpireUpdate(p) \/ TimeoutUpdate(p) \/ ReconcileTerminal(p) \/ ReconcileUpdate(p)
                 \/ PublishReady(p) \/ FailClosed(p) \/ CreateUnknown(p) \/ LaunchFence(p)
                 \/ LaunchUnknown(p) \/ ResetMark(p) \/ ResetUpdate(p) \/ ProxyPending(p) \/ ProxyEnd(p)
        BY <1>1, <3>1, WritersReviveNone, MetersKept
      <3>2. CASE \/ \E pc, next : CloseMeter(p, pc, next)
                 \/ FailCloseMeter(p) \/ InitializeMeter(p) \/ Charge(p)
        BY <1>1, <3>2, MeterStepsClose, SessionsKept
      <3>3. CASE \/ \E pc, next : StopSandbox(p, pc, next)
                 \/ ReconcileGet(p) \/ ProbeHealth(p) \/ CreateCall(p) \/ CreateOk(p) \/ CreateFails(p)
                 \/ Launch(p) \/ Restart(p) \/ ProxyGet(p) \/ ProxyMeter(p) \/ ProxyLedger(p)
                 \/ ProxyMeterAgain(p) \/ Forward(p)
        <4>1. UNCHANGED <<sessions, meters>>
          BY <3>3 DEF StopSandbox, ReconcileGet, ProbeHealth, CreateCall, CreateOk, CreateFails, Launch,
               Restart, ProxyGet, ProxyMeter, ProxyLedger, ProxyMeterAgain, Forward, ledger
        <4> QED BY ZenonT(90), <2>1, <4>1
      <3> QED BY <2>4, <3>1, <3>2, <3>3 DEF HandlerStep
    <2>5. ASSUME NEW p \in Handlers, Stop(p) PROVE UNCHANGED <<sessions, meters>>
      BY <2>5 DEF Stop, ledger
    <2>6. ASSUME NEW id \in Ids, CreateArrives(id) \/ CreateLost(id) \/ SandboxMoves(id)
          PROVE  UNCHANGED <<sessions, meters>>
      BY <2>6 DEF CreateArrives, CreateLost, SandboxMoves, ledger
    <2>7. CASE Tick
      BY <2>1, <2>7 DEF Tick, ledger
    <2>8. CASE UNCHANGED vars
      BY <2>1, <2>8 DEF vars
    <2> QED BY <1>1, <2>1, <2>2, <2>3, <2>4, <2>5, <2>6, <2>7, <2>8 DEF Next
  <1>2. Inv /\ [Next]_vars => [NoResurrection /\ MeterOnlyCloses]_vars
    BY <1>1
  <1> QED BY <1>2, Invariance, PTL DEF Spec, NothingReopens

-----------------------------------------------------------------------------
(* The service: the broker and the edge in front of it (VisitorEdge).  A   *)
(* behaviour is of one part: two visitors who race for one sandbox, one    *)
(* visitor who resets while another request runs, one who uses a sandbox,  *)
(* or the tabs of one browser: one, two of the same sandbox, or one of a   *)
(* sandbox and one of the devnet wallet.                                   *)

CONSTANTS v1, v2, t1, t2

VARIABLES part, jar, issued, wire, told, known, sandboxes, funded

edgeVars == <<jar, issued, wire, told, known, sandboxes, funded>>

\* One visitor only: the others are at their daily limit.
Resets == INSTANCE HostedSessions WITH
  DailyLimit <- [c \in {"global", v1, v2} |-> IF c = v2 THEN 0 ELSE 2],
  Requests <- {"start", "reset", "mutate"}, MaxTime <- 2, MaxAsks <- 3, Snapshots <- FALSE

\* One session only.
Use == INSTANCE HostedSessions WITH
  DailyLimit <- [c \in {"global", v1, v2} |-> IF c = v2 THEN 0 ELSE 1],
  Requests <- {"start", "mutate", "read"}, CreateLatency <- 0,
  MaxDuration <- 1, MaxTime <- 3, MaxAsks <- 3, Snapshots <- FALSE

Tab == INSTANCE VisitorEdgeProofs WITH
  Tabs <- {t1}, PageOf <- [t \in {t1} |-> "wallet"],
  Flaws <- {"none", "route", "foreign", "method", "noorigin", "header", "type", "large", "json", "fields"},
  MaxCookies <- 3, MaxSandboxes <- 3

Kindred == INSTANCE VisitorEdgeProofs WITH
  Tabs <- {t1, t2}, PageOf <- [t \in {t1, t2} |-> "wallet"],
  Flaws <- {"none"}, MaxCookies <- 2, MaxSandboxes <- 2

Devnet == INSTANCE VisitorEdgeProofs WITH
  Tabs <- {t1, t2}, PageOf <- [t \in {t1, t2} |-> IF t = t1 THEN "wallet" ELSE "devnet"],
  Flaws <- {"none", "fields"}, MaxCookies <- 2, MaxSandboxes <- 2

ASSUME EdgeInstances == Tab!EdgeAssumption /\ Kindred!EdgeAssumption /\ Devnet!EdgeAssumption

ServiceInit ==
  \/ part = "race" /\ Init /\ Tab!Init
  \/ part = "resets" /\ Resets!Init /\ Tab!Init
  \/ part = "use" /\ Use!Init /\ Tab!Init
  \/ part = "tab" /\ Tab!Init /\ Init
  \/ part \in {"kindred", "devnet"} /\ Kindred!Init /\ Init

ServiceNext ==
  /\ \/ /\ UNCHANGED edgeVars
        /\ (part = "race" /\ Next) \/ (part = "resets" /\ Resets!Next) \/ (part = "use" /\ Use!Next)
     \/ /\ UNCHANGED vars
        /\ \/ part = "tab" /\ Tab!Next
           \/ part = "kindred" /\ Kindred!Next
           \/ part = "devnet" /\ Devnet!Next
  /\ UNCHANGED part

allVars == <<vars, edgeVars, part>>

ServiceSpec == ServiceInit /\ [][ServiceNext]_allVars

\* A browser with one tab that was told of a live sandbox is still its visitor,
\* whatever cookies late answers set.  One with two tabs may not be: of two first
\* requests, sent before the browser had a cookie, the later answer replaces the
\* identity that the earlier one gave.  Nothing else replaces it.
VisitorIsKept ==
  /\ [](part = "tab" => Tab!TypeOK /\ Tab!ReloadReconnects)
  /\ [][/\ part = "kindred" => Kindred!OnlyFirstRequestsReplace
        /\ part = "devnet" => Devnet!OnlyFirstRequestsReplace]_allVars

\* A refused request changes nothing, a page never reaches the sandbox that
\* replaced its own, and a page with its manifest is known to the faucet.
AnswersAreMeant ==
  [][CASE part = "tab" -> Tab!FlawChangesNothing /\ Tab!NeverReplacement
       [] part = "kindred" -> Kindred!NeverReplacement
       [] part = "devnet" -> Devnet!FaucetKnowsVisitor /\ Devnet!FlawChangesNothing
       [] OTHER -> TRUE]_allVars

-----------------------------------------------------------------------------
(* Each browser keeps the invariant of VisitorEdgeProofs; that of the lone *)
(* tab includes whose visitor it is.                                       *)

BrowsersInv ==
  /\ part = "tab" => Tab!EdgeInv
  /\ part = "kindred" => Kindred!EdgeInv
  /\ part = "devnet" => Devnet!EdgeInv

LEMMA BrowsersInit == ServiceInit => BrowsersInv
  <1> SUFFICES ASSUME ServiceInit PROVE BrowsersInv
    OBVIOUS
  <1>1. part = "tab" => Tab!EdgeInv
    BY EdgeInstances, Tab!EdgeInit DEF ServiceInit
  <1>2. part = "kindred" => Kindred!EdgeInv
    BY EdgeInstances, Kindred!EdgeInit DEF ServiceInit
  <1>3. part = "devnet" => Devnet!EdgeInv
    <2>1. Kindred!Init => Devnet!Init
      BY DEF Kindred!Init, Devnet!Init, Kindred!Idle, Devnet!Idle, Kindred!Nobody, Devnet!Nobody
    <2> QED BY <2>1, EdgeInstances, Devnet!EdgeInit DEF ServiceInit
  <1> QED BY <1>1, <1>2, <1>3 DEF BrowsersInv

\* A step is a step of its browser.
LEMMA BrowserSteps ==
  ASSUME [ServiceNext]_allVars
  PROVE  /\ UNCHANGED part
         /\ part = "tab" => [Tab!Next]_(Tab!vars)
         /\ part = "kindred" => [Kindred!Next]_(Kindred!vars)
         /\ part = "devnet" => [Devnet!Next]_(Devnet!vars)
  <1>1. CASE UNCHANGED allVars
    BY <1>1 DEF allVars, edgeVars, Tab!vars, Kindred!vars, Devnet!vars
  <1>2. CASE ServiceNext
    BY <1>2 DEF ServiceNext
  <1> QED BY <1>1, <1>2

LEMMA BrowsersStep == BrowsersInv /\ [ServiceNext]_allVars => BrowsersInv'
  <1> SUFFICES ASSUME BrowsersInv, [ServiceNext]_allVars PROVE BrowsersInv'
    OBVIOUS
  <1>1. CASE part = "tab"
    BY <1>1, BrowserSteps, EdgeInstances, Tab!EdgeStep DEF BrowsersInv
  <1>2. CASE part = "kindred"
    BY <1>2, BrowserSteps, EdgeInstances, Kindred!EdgeStep DEF BrowsersInv
  <1>3. CASE part = "devnet"
    BY <1>3, BrowserSteps, EdgeInstances, Devnet!EdgeStep DEF BrowsersInv
  <1> QED BY <1>1, <1>2, <1>3, BrowserSteps DEF BrowsersInv

LEMMA BrowsersInvariance == ServiceSpec => []BrowsersInv
  BY BrowsersInit, BrowsersStep, PTL DEF ServiceSpec

\* readVisitorCookie and issueVisitorCookie: whatever answers are lost or come
\* late, a browser's only tab, once told of a live sandbox, still has its
\* visitor's cookie; where two tabs share the cookie, it is replaced by the
\* answer to a request sent before there was one and by nothing else.
THEOREM VisitorStays == ServiceSpec => VisitorIsKept
  <1> DEFINE Kept == part = "tab" => Tab!TypeOK /\ Tab!ReloadReconnects
             Replaces == /\ part = "kindred" => Kindred!OnlyFirstRequestsReplace
                         /\ part = "devnet" => Devnet!OnlyFirstRequestsReplace
  <1>1. BrowsersInv => Kept
    <2>1. Tab!OneTab
      BY DEF Tab!OneTab
    <2> QED BY <2>1, Tab!EdgeTypes, Tab!EdgeReconnects DEF BrowsersInv
  <1>2. BrowsersInv /\ [ServiceNext]_allVars => [Replaces]_allVars
    <2> SUFFICES ASSUME BrowsersInv, [ServiceNext]_allVars PROVE Replaces
      OBVIOUS
    <2>1. ASSUME part = "kindred" PROVE Kindred!OnlyFirstRequestsReplace
      BY <2>1, BrowserSteps, EdgeInstances, Kindred!EdgeReplaces DEF BrowsersInv
    <2>2. ASSUME part = "devnet" PROVE Devnet!OnlyFirstRequestsReplace
      BY <2>2, BrowserSteps, EdgeInstances, Devnet!EdgeReplaces DEF BrowsersInv
    <2> QED BY <2>1, <2>2
  <1> QED BY <1>1, <1>2, BrowsersInvariance, PTL DEF ServiceSpec, VisitorIsKept

\* The handlers' answers, to every tab: a refused request starts, stops and
\* grants nothing, a call is answered by the sandbox its page was told of or not
\* at all, and the faucet knows every app that has its manifest.
THEOREM AnswersStayMeant == ServiceSpec => AnswersAreMeant
  <1> DEFINE Means == CASE part = "tab" -> Tab!FlawChangesNothing /\ Tab!NeverReplacement
                        [] part = "kindred" -> Kindred!NeverReplacement
                        [] part = "devnet" -> Devnet!FaucetKnowsVisitor /\ Devnet!FlawChangesNothing
                        [] OTHER -> TRUE
  <1>1. BrowsersInv /\ [ServiceNext]_allVars => [Means]_allVars
    <2> SUFFICES ASSUME BrowsersInv, [ServiceNext]_allVars PROVE Means
      OBVIOUS
    <2>1. CASE part = "tab"
      <3>1. Tab!FlawChangesNothing /\ Tab!NeverReplacement
        BY <2>1, BrowserSteps, EdgeInstances, Tab!EdgeRefusals, Tab!EdgeCalls DEF BrowsersInv
      <3> QED BY <2>1, <3>1
    <2>2. CASE part = "kindred"
      <3>1. Kindred!NeverReplacement
        BY <2>2, BrowserSteps, EdgeInstances, Kindred!EdgeCalls DEF BrowsersInv
      <3> QED BY <2>2, <3>1
    <2>3. CASE part = "devnet"
      <3>1. Devnet!FaucetKnowsVisitor /\ Devnet!FlawChangesNothing
        BY <2>3, BrowserSteps, EdgeInstances, Devnet!EdgeFaucet, Devnet!EdgeRefusals DEF BrowsersInv
      <3> QED BY <2>3, <3>1
    <2>4. CASE part \notin {"tab", "kindred", "devnet"}
      BY <2>4
    <2> QED BY <2>1, <2>2, <2>3, <2>4
  <1> QED BY <1>1, BrowsersInvariance, PTL DEF ServiceSpec, AnswersAreMeant

=============================================================================
