---------------------------- MODULE SessionGate ----------------------------
(***************************************************************************)
(* The page that stands before the hosted wallet sandbox                   *)
(* (apps/web/src/hosted/session.tsx): it reads the visitor's session from  *)
(* the broker, starts or resets it, polls it while it starts, and shows    *)
(* the wallet page when it is ready.  Every read and mutation is in flight *)
(* for a while: the broker looks at it at one moment (Serve), the page     *)
(* hears of it at a later one, and in between both move on.  The wallet    *)
(* page's own requests to its sandbox are in flight too; one answered 410  *)
(* calls expire of the gate (sandbox-main.tsx:15).                         *)
(*                                                                         *)
(* The broker is the one of module HostedSessions, reduced to what the     *)
(* gate reads: the visitor's current session and its status.  Session ids  *)
(* are numbered in the order the broker makes them.                        *)
(***************************************************************************)
EXTENDS Integers, FiniteSets

CONSTANTS
    MaxSessions,     \* bound: sessions the broker makes
    MaxReads         \* bound: requests of the gate in flight at once

\* What the instances of this module satisfy.
GateAssumption ==
    /\ MaxSessions \in Nat \ {0}
    /\ MaxReads \in Nat \ {0}

Ids == 0 .. MaxSessions          \* 0 is "no session yet"
Statuses == {"none", "starting", "ready", "expired", "failed"}
Sessions == [id: Ids, status: Statuses]
Unread == [id |-> 0, status |-> "unread"]     \* the page has no session yet

\* What an answer of the broker can be: not looked at yet, lost or refused,
\* or the session it held when it looked.
Unserved == [id |-> -1, status |-> "unserved"]
Failed == [id |-> -1, status |-> "error"]
Answers == Sessions \cup {Unserved, Failed}

VARIABLES
    broker,      \* the broker's session of this visitor
    session,     \* the gate's copy
    loading,     \* the gate waits for a read it made visible
    mutating,    \* the gate waits for a start or a reset
    asked,       \* the gate made its first read
    requests,    \* the gate's requests in flight
    poll,        \* the polling effect: "off", "timer" or "reading"
    overdue,     \* POLL_DEADLINE_MS passed since the session was first starting
    pages        \* requests of a wallet page in flight: the sessions they name

vars == <<broker, session, loading, mutating, asked, requests, poll,
          overdue, pages>>

Has(status) == session.status = status

\* A request carries whether it is the latest one (its generation is still
\* requestGeneration) and, for a poll, whether the effect that asked for it
\* still runs (its variable active).
Requests == [kind: {"read", "poll", "change", "reconcile"}, latest: BOOLEAN,
             active: BOOLEAN, expected: Ids, answer: Answers]

TypeOK ==
    /\ broker \in Sessions
    /\ session \in Sessions \cup {Unread}
    /\ loading \in BOOLEAN /\ mutating \in BOOLEAN /\ overdue \in BOOLEAN
    /\ asked \in BOOLEAN
    /\ requests \subseteq Requests
    /\ Cardinality({r \in requests : r.latest}) <= 1
    /\ poll \in {"off", "timer", "reading"}
    /\ pages \subseteq Ids

-----------------------------------------------------------------------------
(* The broker, outside the page. *)

\* A sandbox finishes starting, fails, or runs out of time.
BrokerMoves ==
    /\ \/ /\ broker.status = "starting"
          /\ broker' = [broker EXCEPT !.status = "ready"]
       \/ /\ broker.status = "starting"
          /\ broker' = [broker EXCEPT !.status = "failed"]
       \/ /\ broker.status = "ready"
          /\ broker' = [broker EXCEPT !.status = "expired"]
    /\ UNCHANGED <<session, loading, mutating, asked, requests, poll, overdue, pages>>

\* The broker makes a new session for the visitor, which may be ready within
\* the time it waits for it.
Fresh == {[id |-> broker.id + 1, status |-> st] : st \in {"starting", "ready"}}

\* The visitor resets the sandbox from another tab of the same browser.
OtherTab ==
    /\ broker.id \in 1 .. (MaxSessions - 1)
    /\ broker' \in Fresh
    /\ UNCHANGED <<session, loading, mutating, asked, requests, poll, overdue, pages>>

\* What the broker's session can be once it has looked at a change (start and
\* reset of broker.ts): a start takes the live session or makes one; a reset
\* must name the current session, which is not starting, and makes a new one
\* or fails to stop the old.
Outcomes(r) ==
    IF r.kind # "change" \/ (r.expected = 0 /\ broker.status \in {"starting", "ready"})
      THEN {broker}
      ELSE IF broker.id = MaxSessions \/ (r.expected # 0 /\ (r.expected # broker.id \/ broker.status = "starting"))
      THEN {}
      ELSE Fresh \cup (IF r.expected = 0 THEN {} ELSE {[broker EXCEPT !.status = "failed"]})

\* The broker looks at a request; any answer may be lost after it did its part.
Serve ==
    \E r \in requests :
      /\ r.answer = Unserved
      /\ \/ /\ Outcomes(r) = {}
            /\ broker' = broker
            /\ requests' = (requests \ {r}) \cup {[r EXCEPT !.answer = Failed]}
         \/ \E next \in Outcomes(r), lost \in BOOLEAN :
               /\ broker' = next
               /\ requests' = (requests \ {r}) \cup
                     {[r EXCEPT !.answer = IF lost THEN Failed ELSE next]}
      /\ UNCHANGED <<session, loading, mutating, asked, poll, overdue, pages>>

\* The request, or the page's wait for it, fails before the broker looks.
Lost ==
    /\ \E r \in requests :
          /\ r.answer = Unserved
          /\ requests' = (requests \ {r}) \cup {[r EXCEPT !.answer = Failed]}
    /\ UNCHANGED <<broker, session, loading, mutating, asked, poll, overdue, pages>>

-----------------------------------------------------------------------------
(* The gate. *)

\* A request takes the next generation.
Ask(kind, expected) ==
    /\ Cardinality(requests) < MaxReads
    /\ asked' = TRUE
    /\ requests' = {[r EXCEPT !.latest = FALSE] : r \in requests} \cup
                   {[kind |-> kind, latest |-> TRUE, active |-> TRUE,
                     expected |-> expected, answer |-> Unserved]}

Current(r) == r.latest

\* Once the answer is accepted: the session is shown, the page is not loading,
\* and the clock of the polling deadline runs from the first "starting".
Accept(next) ==
    /\ session' = next
    /\ loading' = FALSE
    /\ overdue' = (next.status = "starting" /\ overdue)

\* The polling effect starts anew when the shown session's id or status, or
\* the epoch, changes; the effect before is cleaned up.
Repoll(next, rest) ==
    /\ poll' = IF next.status = "starting" THEN "timer" ELSE "off"
    /\ requests' = {[r EXCEPT !.active = FALSE] : r \in rest}

\* The first read of the page, and the visitor's "Check progress".
Initial ==
    /\ loading /\ ~asked
    /\ Ask("read", 0)
    /\ UNCHANGED <<broker, session, loading, mutating, poll, overdue, pages>>

Refresh ==
    /\ Has("starting") /\ ~loading
    /\ loading' = TRUE
    /\ Ask("read", 0)
    /\ UNCHANGED <<broker, session, mutating, poll, overdue, pages>>

\* Such a read is answered: an answer overtaken by a later request is ignored.
ReadAnswered ==
    \E r \in requests :
      /\ r.kind = "read" /\ r.answer # Unserved
      /\ IF ~Current(r)
           THEN /\ requests' = requests \ {r}
                /\ UNCHANGED <<session, loading, overdue, poll>>
           ELSE IF r.answer = Failed
           THEN /\ loading' = FALSE
                /\ requests' = requests \ {r}
                /\ UNCHANGED <<session, overdue, poll>>
           ELSE /\ Accept(r.answer)
                /\ Repoll(r.answer, requests \ {r})
      /\ UNCHANGED <<broker, mutating, asked, pages>>

\* A poll two seconds after the last: it gives up once the deadline passed.
PollFires ==
    /\ poll = "timer"
    /\ IF overdue
         THEN /\ poll' = "off"
              /\ UNCHANGED <<asked, requests>>
         ELSE /\ poll' = "reading"
              /\ Ask("poll", 0)
    /\ UNCHANGED <<broker, session, loading, mutating, overdue, pages>>

\* A poll is answered.  One of an effect that was cleaned up is ignored; one
\* overtaken by a later request ends the polling without another word; after
\* one that failed the next is set, and loading stays as it is.
PollAnswered ==
    \E r \in requests :
      /\ r.kind = "poll" /\ r.answer # Unserved
      /\ IF ~r.active \/ ~Current(r)
           THEN /\ poll' = IF r.active THEN "off" ELSE poll
                /\ requests' = requests \ {r}
                /\ UNCHANGED <<session, loading, overdue>>
           ELSE IF r.answer = Failed
           THEN /\ poll' = "timer"
                /\ requests' = requests \ {r}
                /\ UNCHANGED <<session, loading, overdue>>
           ELSE /\ Accept(r.answer)
                /\ IF r.answer = session
                     THEN poll' = "timer" /\ requests' = requests \ {r}
                     ELSE Repoll(r.answer, requests \ {r})
      /\ UNCHANGED <<broker, mutating, asked, pages>>

\* Ninety seconds have passed since the session was first seen starting.
Overdue ==
    /\ Has("starting") /\ ~overdue
    /\ overdue' = TRUE
    /\ UNCHANGED <<broker, session, loading, mutating, asked, requests, poll, pages>>

\* The timer of a ready session: it is shown as expired.
Expiry ==
    /\ Has("ready")
    /\ session.id = broker.id => broker.status = "expired"
    /\ session' = [session EXCEPT !.status = "expired"]
    /\ UNCHANGED <<broker, loading, mutating, asked, requests, poll, overdue, pages>>

\* The visitor starts a first session or resets the one shown, from the gate
\* or from the wallet page.
StartOrReset ==
    /\ ~mutating
    /\ Has("ready") \/ (~loading /\ ~Has("starting"))
    /\ mutating' = TRUE
    /\ Ask("change", session.id)
    /\ UNCHANGED <<broker, session, loading, poll, overdue, pages>>

Changed(next, expected) ==
    /\ expected # 0 => next.id # expected
    /\ next.status \in {"starting", "ready"}

\* The change is answered; if it failed its outcome is read once, under the
\* same generation.
ChangeAnswered ==
    \E r \in requests :
      /\ r.kind = "change" /\ r.answer # Unserved
      /\ IF ~Current(r)
           THEN /\ requests' = requests \ {r}
                /\ UNCHANGED <<session, loading, overdue, poll, mutating>>
           ELSE IF r.answer = Failed
           THEN /\ requests' = (requests \ {r}) \cup
                      {[r EXCEPT !.kind = "reconcile", !.answer = Unserved]}
                /\ UNCHANGED <<session, loading, overdue, poll, mutating>>
           ELSE /\ Accept(r.answer)
                /\ Repoll(r.answer, requests \ {r})
                /\ mutating' = FALSE
      /\ UNCHANGED <<broker, asked, pages>>

ReconcileAnswered ==
    \E r \in requests :
      /\ r.kind = "reconcile" /\ r.answer # Unserved
      /\ mutating' = IF Current(r) THEN FALSE ELSE mutating
      /\ IF Current(r) /\ r.answer # Failed /\ Changed(r.answer, r.expected)
           THEN /\ Accept(r.answer)
                /\ Repoll(r.answer, requests \ {r})
           ELSE /\ requests' = requests \ {r}
                /\ UNCHANGED <<session, loading, overdue, poll>>
      /\ UNCHANGED <<broker, asked, pages>>

-----------------------------------------------------------------------------
(* The wallet page of a ready session. *)

PageAsks ==
    /\ Has("ready")
    /\ pages' = pages \cup {session.id}
    /\ UNCHANGED <<broker, session, loading, mutating, asked, requests, poll, overdue>>

\* A request of the wallet page of session id was answered 410: expire marks
\* the session the gate shows.
Expire(id) ==
    /\ session' = [session EXCEPT !.status = "expired"]
    /\ poll' = "off"
    /\ requests' = {[r EXCEPT !.active = FALSE] : r \in requests}

\* A page's request is answered: 410 if the broker no longer serves its
\* session.
PageAnswered ==
    \E id \in pages :
      /\ pages' = pages \ {id}
      /\ IF broker.id = id /\ broker.status = "ready"
           THEN UNCHANGED <<session, requests, poll>>
           ELSE Expire(id)
      /\ UNCHANGED <<broker, loading, mutating, asked, overdue>>

-----------------------------------------------------------------------------
Init ==
    /\ broker \in {[id |-> 0, status |-> "none"], [id |-> 1, status |-> "starting"],
                   [id |-> 1, status |-> "ready"]}
    /\ session = Unread
    /\ loading = TRUE
    /\ mutating = FALSE
    /\ asked = FALSE
    /\ requests = {}
    /\ poll = "off"
    /\ overdue = FALSE
    /\ pages = {}

Page ==
    \/ Initial \/ Refresh \/ ReadAnswered
    \/ PollFires \/ PollAnswered \/ Overdue \/ Expiry
    \/ StartOrReset \/ ChangeAnswered \/ ReconcileAnswered
    \/ PageAsks \/ PageAnswered

Next == BrokerMoves \/ OtherTab \/ Serve \/ Lost \/ Page

\* An answer is there for each of the gate's waits.
Answered == ReadAnswered \/ PollAnswered \/ ChangeAnswered \/ ReconcileAnswered
Spec == Init /\ [][Next]_vars

-----------------------------------------------------------------------------
(* Properties. *)

\* While a start or a reset is pending (the button says "Requesting..."), its
\* request or the read that reconciles it is in flight and is the latest one:
\* nothing else of the gate takes a generation meanwhile, which would leave
\* mutating set for good (the finally of startOrReset).
MutatingIsBacked ==
    mutating => \E r \in requests : r.kind \in {"change", "reconcile"} /\ Current(r)

\* The session the gate shows never goes back to one the broker replaced
\* before: a late answer of an earlier read, poll or reset is not accepted.
ShownForward ==
    session.id <= session'.id

\* A reset whose answer was lost is not taken for done because the session to
\* be replaced is still there: what is accepted after a reset of session s is
\* a later session, or the old one reported as stopped (startOrReset).
ResetIsNotMistaken ==
    mutating /\ ~mutating' /\ session # session' /\ session.id # 0
      => session'.id # session.id \/ session'.status = "failed"

\* The session shown is not marked expired while the broker still runs its
\* sandbox, with one exception that the code has: a wallet page's request to an
\* earlier sandbox, answered 410 late, marks whichever session is shown by then
\* (expire compares no ids).
ExpiresForCause ==
    session.status # "expired" /\ session'.status = "expired"
    /\ session'.id = broker.id /\ broker.status \in {"starting", "ready"}
      => \E id \in pages \ pages' : id < session.id

\* A start or a reset has given the page back.
ChangeOver == ~mutating
=============================================================================
