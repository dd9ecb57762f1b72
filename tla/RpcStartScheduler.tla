------------------------- MODULE RpcStartScheduler -------------------------
(***************************************************************************)
(* The client side of the public RPC endpoint in the hosted devnet         *)
(* service.  All calls of a process share one scheduler that spaces their  *)
(* starts, keeps a bounded first-in-first-out queue of calls with          *)
(* deadlines, and holds everything back while the endpoint asked for a     *)
(* pause.  It owns a single timer: whatever changes the queue or the pause *)
(* must leave that timer set for the next thing to happen, or calls wait   *)
(* for good.  Timers may fire late, by any amount.                         *)
(***************************************************************************)
EXTENDS Integers, Sequences, FiniteSets, SequencesExt, FiniteSetsExt

CONSTANTS
  Calls,           \* RPC calls of this process
  Interval,        \* RPC_MIN_START_INTERVAL_MS
  MaxQueue,        \* RPC_MAX_QUEUE
  Timeouts,        \* timeoutMs of boundedRpcFetch
  RetryAfters,     \* pauses the endpoint asks for: 0 is "now", MaxDelay + 1 invalid
  MaxDelay,        \* MAX_TIMER_DELAY_MS
  MaxTime,         \* bound on the clock; no call begins that could outlast it
  None

\* What the instances of this module satisfy.
SchedulerAssumption ==
  /\ Interval \in Nat \ {0} /\ MaxQueue \in Nat \ {0} /\ Timeouts \subseteq Nat \ {0}
  /\ MaxDelay \in Nat /\ RetryAfters \subseteq Nat
  /\ MaxTime \in Nat
  /\ None \notin Nat

VARIABLES
  now,
  queue, nextStartAt, cooldownUntil, closed, timer,   \* the scheduler
  call,        \* where each call is
  deadline,    \* and how long it may take
  lastStart    \* history: when a call was last started

sched == <<queue, nextStartAt, cooldownUntil, closed, timer>>
vars == <<now, sched, call, deadline, lastStart>>

Settled == {"answered", "timeout", "aborted", "full", "backoff", "failed"}

Init ==
  /\ now = 0
  /\ queue = <<>>
  /\ nextStartAt = 0 /\ cooldownUntil = 0
  /\ closed = FALSE
  /\ timer = None
  /\ call = [c \in Calls |-> "idle"]
  /\ deadline = [c \in Calls |-> 0]
  /\ lastStart = None

\* The calls of q behind its first calls that could not start before t.
StartableFrom(q, dl, t) ==
  LET keep == {i \in DOMAIN q : dl[q[i]] > t}
  IN IF keep = {} THEN <<>> ELSE SubSeq(q, Min(keep), Len(q))

EarliestDeadline(q, dl) == Min({dl[q[i]] : i \in DOMAIN q})

\* Mutant: the timer is set for the next start, whoever runs out before it.
WakeAtStart(q, dl, t) == IF q = <<>> THEN None ELSE t

\* When the timer must fire for a queue whose first call may start at t.
WakeAt(q, dl, t) == IF q = <<>> THEN None ELSE Min({t, EarliestDeadline(q, dl)})

\* Mutant: the pause is forgotten once the spacing allows a start.
StartAtIgnoringPause(next, cool) == Max({now, next})

StartAt(next, cool) == Max({now, next, cool})

\* pump on a queue, with the calls' states st and deadlines dl: drop what ran
\* out of time, then what cannot start in time, start at most one call, and set
\* the timer for the rest.  The interval is positive, so a start ends the turn.
Pump(q, st, dl, next, cool) ==
  LET live  == SelectSeq(q, LAMBDA c : dl[c] > now)
      at    == StartAt(next, cool)
      ahead == StartableFrom(live, dl, at)
      go    == ahead # <<>> /\ at = now
      rest  == IF go THEN StartableFrom(Tail(ahead), dl, now + Interval) ELSE ahead
      gone  == Range(q) \ Range(rest)
      begun == IF go THEN {Head(ahead)} ELSE {}
  IN /\ queue' = rest
     /\ timer' = WakeAt(rest, dl, IF go THEN now + Interval ELSE at)
     /\ nextStartAt' = IF go THEN now + Interval ELSE next
     /\ lastStart' = IF go THEN now ELSE lastStart
     /\ call' = [c \in Calls |-> IF c \in begun THEN "fetch"
                                 ELSE IF c \in gone THEN "timeout" ELSE st[c]]

\* boundedRpcFetch begins: refused at once, or queued with its deadline.
Acquire(c, timeout) ==
  /\ call[c] = "idle"
  /\ now + timeout <= MaxTime
  /\ deadline' = [deadline EXCEPT ![c] = now + timeout]
  /\ IF closed \/ Len(queue) >= MaxQueue
       THEN /\ call' = [call EXCEPT ![c] = IF closed THEN "backoff" ELSE "full"]
            /\ UNCHANGED <<sched, lastStart>>
       ELSE /\ Pump(Append(queue, c), [call EXCEPT ![c] = "waiting"], deadline',
                    nextStartAt, cooldownUntil)
            /\ UNCHANGED <<cooldownUntil, closed>>
  /\ UNCHANGED now

\* The caller's signal fires while the call waits: it leaves the queue wherever it is.
Abort(c) ==
  /\ call[c] = "waiting"
  /\ Pump(Remove(queue, c), [call EXCEPT ![c] = "aborted"], deadline, nextStartAt, cooldownUntil)
  /\ UNCHANGED <<now, cooldownUntil, closed, deadline>>

TimerFires ==
  /\ timer # None /\ timer <= now
  /\ Pump(queue, call, deadline, nextStartAt, cooldownUntil)
  /\ UNCHANGED <<now, cooldownUntil, closed, deadline>>

\* The request is out: it is answered, fails, is aborted or runs into its
\* deadline, whose timer may be late.  Only a 429 to a read looks at the pause
\* the endpoint asks for.
FetchEnds(c) ==
  /\ call[c] = "fetch"
  /\ \E end \in {"answered", "failed", "aborted"} : call' = [call EXCEPT ![c] = end]
  /\ UNCHANGED <<now, sched, deadline, lastStart>>

FetchTimesOut(c) ==
  /\ call[c] = "fetch" /\ now >= deadline[c]
  /\ call' = [call EXCEPT ![c] = "timeout"]
  /\ UNCHANGED <<now, sched, deadline, lastStart>>

\* failClosed: a pause that cannot be honoured ends every waiting call, and
\* this process makes no further one.
FailClosed(c) ==
  /\ closed' = TRUE
  /\ timer' = None
  /\ queue' = <<>>
  /\ call' = [d \in Calls |-> IF d = c THEN "failed" ELSE IF d \in Range(queue) THEN "backoff" ELSE call[d]]
  /\ UNCHANGED <<nextStartAt, cooldownUntil, lastStart>>

Cooldown(ms) == Max({cooldownUntil, now + ms})

RateLimited(c, ms) ==
  /\ call[c] = "fetch"
  /\ IF ms > MaxDelay THEN FailClosed(c)
     ELSE IF ms = 0 \/ closed
       THEN /\ call' = [call EXCEPT ![c] = "failed"]
            /\ cooldownUntil' = IF ms = 0 THEN cooldownUntil ELSE Cooldown(ms)
            /\ UNCHANGED <<queue, nextStartAt, closed, timer, lastStart>>
     ELSE /\ cooldownUntil' = Cooldown(ms)
          /\ Pump(queue, [call EXCEPT ![c] = "failed"], deadline, nextStartAt, cooldownUntil')
          /\ UNCHANGED closed
  /\ UNCHANGED <<now, deadline>>

Tick ==
  /\ now < MaxTime
  /\ now' = now + 1
  /\ UNCHANGED <<sched, call, deadline, lastStart>>

Next ==
  \/ \E c \in Calls : \/ Abort(c)
                      \/ \E timeout \in Timeouts : Acquire(c, timeout)
                      \/ FetchEnds(c) \/ FetchTimesOut(c)
                      \/ \E ms \in RetryAfters : RateLimited(c, ms)
  \/ TimerFires
  \/ Tick

Spec == Init /\ [][Next]_vars

-----------------------------------------------------------------------------

TypeOK ==
  /\ now \in 0..MaxTime
  /\ queue \in Seq(Calls) /\ Len(queue) <= MaxQueue
  /\ nextStartAt \in Nat /\ cooldownUntil \in Nat
  /\ closed \in BOOLEAN
  /\ timer \in Nat \cup {None}
  /\ call \in [Calls -> {"idle", "waiting", "fetch"} \cup Settled]
  /\ deadline \in [Calls -> Nat]
  /\ lastStart \in Nat \cup {None}

\* The queue holds exactly the calls that wait, each once.
QueueIsWaiting ==
  /\ Range(queue) = {c \in Calls : call[c] = "waiting"}
  /\ Cardinality(Range(queue)) = Len(queue)

\* No wake-up is lost: while a call waits, the timer is set, no later than the
\* call's own deadline and no later than the next time a call may start.
WakeUpIsSet ==
  queue # <<>> =>
    /\ timer # None
    /\ \A i \in DOMAIN queue : timer <= deadline[queue[i]]
    /\ timer <= Max({now, nextStartAt, cooldownUntil})

\* A new start keeps its distance from the one before, also across pauses,
\* aborts and late timers, and never falls into a pause or past its deadline.
StartsSpaced ==
  \A c \in Calls : call[c] # "fetch" /\ call'[c] = "fetch" =>
    /\ lastStart # None => now >= lastStart + Interval
    /\ now >= cooldownUntil
    /\ now < deadline'[c]
    /\ \A d \in Calls \ {c} : call'[d] = "fetch" => call[d] = "fetch"

\* Calls start in the order they came: one that starts leaves no call behind
\* that was queued before it.
StartsInOrder ==
  \A c \in Calls : call[c] = "waiting" /\ call'[c] = "fetch" =>
    \A i, j \in DOMAIN queue : queue[j] = c /\ i < j => call'[queue[i]] # "waiting"

\* A pause the endpoint asked for is never cut short.
PauseOnlyGrows == cooldownUntil' >= cooldownUntil /\ (closed => closed')

\* Every call that was made has ended: answered, refused, aborted or timed out.
\* No call is made twice, so that this comes again and again says that each ends.
AllSettled == \A c \in Calls : call[c] \in {"idle"} \cup Settled

=============================================================================
