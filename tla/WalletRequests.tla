--------------------------- MODULE WalletRequests ---------------------------
(***************************************************************************)
(* How the wallet page talks to the public devnet endpoint                 *)
(* (apps/web/src/wallet/runtime.ts): RequestScheduler, two slots whose     *)
(* starts are spaced and held back while the endpoint asks for a pause,    *)
(* and createBoundedRpcFetch, which takes a slot for each of up to four    *)
(* tries of a call under one deadline.  A slot is given back by a closure; *)
(* the scheduler's only timer must be set whenever a slot is free and a    *)
(* call waits, or the page's reads stop.                                   *)
(***************************************************************************)
EXTENDS Integers, Sequences, FiniteSets, SequencesExt, FiniteSetsExt

CONSTANTS
  Calls,           \* RPC calls of the page
  Limit,           \* limit: 2
  Interval,        \* minimumStartIntervalMs: 400
  Attempts,        \* 4
  Timeout,         \* timeoutMs
  RetryAfters,     \* pauses a 429 or 503 asks for
  BaseDelay,       \* 250: the pause without a retry-after header
  MaxTime,         \* bound on the clock; no call begins that could outlast it
  None

\* What the instances of this module satisfy.
RequestsAssumption ==
  /\ {Limit, Interval, Attempts, Timeout} \subseteq Nat \ {0}
  /\ RetryAfters \subseteq Nat /\ BaseDelay \in Nat
  /\ None \notin Nat

VARIABLES
  now,
  queue, active, nextStartAt, cooldownUntil, timer,   \* the scheduler
  call,        \* where each createBoundedRpcFetch stands
  lastStart    \* history: when a slot was last taken

slots == <<queue, active, nextStartAt, timer, lastStart>>
vars == <<now, slots, cooldownUntil, call>>

Idle == [pc |-> "idle", attempt |-> 0, deadline |-> 0, wake |-> 0]
Ended == {"answered", "failed"}
Holding(c) == call[c].pc \in {"fetch", "drain"}

Init ==
  /\ now = 0
  /\ queue = <<>> /\ active = 0
  /\ nextStartAt = 0 /\ cooldownUntil = 0
  /\ timer = None
  /\ call = [c \in Calls |-> Idle]
  /\ lastStart = None

-----------------------------------------------------------------------------
(* The scheduler.                                                          *)

\* Mutant: the pause is forgotten once the spacing allows a start.
StartAtIgnoringPause(next, cool) == Max({now, next})

StartAt(next, cool) == Max({now, next, cool})

\* The timer an advance leaves behind.
TimerAfter(rest, act, next, cool, went) ==
  IF act < Limit /\ rest # <<>> THEN Max({now, next, cool}) ELSE None

\* advance on a queue with act slots taken and the calls in state st.  The
\* interval is positive, so one call starts at most.  An aborted call is never
\* met in the queue: its listener took it out.
Advance(q, act, cool, st) ==
  LET goes == act < Limit /\ q # <<>> /\ StartAt(nextStartAt, cool) = now
      rest == IF goes THEN Tail(q) ELSE q
      taken == IF goes THEN act + 1 ELSE act
      next == IF goes THEN now + Interval ELSE nextStartAt
  IN  /\ queue' = rest
      /\ active' = taken
      /\ nextStartAt' = next
      /\ timer' = TimerAfter(rest, taken, next, cool, goes)
      /\ lastStart' = IF goes THEN now ELSE lastStart
      /\ call' = IF goes THEN [st EXCEPT ![Head(q)].pc = "fetch"] ELSE st

\* The timer's callback.
TimerFires ==
  /\ timer # None /\ timer <= now
  /\ Advance(queue, active, cooldownUntil, call)
  /\ UNCHANGED <<now, cooldownUntil>>

\* acquire by a call in state st.
Acquire(c, st) ==
  /\ Advance(Append(queue, c), active, cooldownUntil, [st EXCEPT ![c].pc = "wait"])
  /\ UNCHANGED <<now, cooldownUntil>>

\* The closure of releaseOnce, called by c, which ends in the state st.
Release(c, st) ==
  /\ Advance(queue, active - 1, cooldownUntil, st)
  /\ UNCHANGED <<now, cooldownUntil>>

-----------------------------------------------------------------------------
(* createBoundedRpcFetch.                                                  *)

Begin(c) ==
  /\ call[c].pc = "idle"
  /\ now + Timeout <= MaxTime
  /\ Acquire(c, [call EXCEPT ![c].deadline = now + Timeout])

\* An answer that is not to be tried again, or no answer: the slot goes back.
FetchEnds(c) ==
  /\ call[c].pc = "fetch"
  /\ \E end \in Ended : Release(c, [call EXCEPT ![c].pc = end])

MayRetry(c) == call[c].attempt + 1 < Attempts

\* defer
Deferred(ms) == IF ms = 0 THEN cooldownUntil ELSE Max({cooldownUntil, now + ms})

\* retryDelayMs: the header's pause, or 250 ms doubled with every try.
RetryDelays(c) == RetryAfters \union {BaseDelay * 2^call[c].attempt}

\* A 429 or 503: everybody is held back.  It is the answer of the last try; of
\* the others the body is read first, with the slot still taken.
Transient(c, ms) ==
  /\ call[c].pc = "fetch"
  /\ ms \in RetryDelays(c)
  /\ cooldownUntil' = Deferred(ms)
  /\ IF MayRetry(c)
       THEN LET st == [call EXCEPT ![c].pc = "drain", ![c].wake = ms]
            IN  IF ms > 0 THEN Advance(queue, active, cooldownUntil', st)
                ELSE call' = st /\ UNCHANGED slots
       ELSE Advance(queue, active - 1, cooldownUntil', [call EXCEPT ![c].pc = "answered"])
  /\ UNCHANGED now

\* The body has been read or given up: the slot goes back, the backoff begins.
Drained(c) ==
  /\ call[c].pc = "drain"
  /\ Release(c, [call EXCEPT ![c].pc = "delay", ![c].wake = now + @])

\* abortableDelay ends: the next try queues behind everybody.
DelayOver(c) ==
  /\ call[c].pc = "delay" /\ call[c].wake <= now
  /\ Acquire(c, [call EXCEPT ![c].attempt = @ + 1])

\* The signal, from the caller or from the deadline: a waiting call leaves the
\* queue, one that holds a slot gives it back, a backoff is cut short.
Abort(c) ==
  /\ call[c].pc \in {"wait", "fetch", "drain", "delay"}
  /\ LET st == [call EXCEPT ![c].pc = "failed"]
     IN  CASE call[c].pc = "wait" ->
               /\ Advance(Remove(queue, c), active, cooldownUntil, st)
               /\ UNCHANGED <<now, cooldownUntil>>
           [] Holding(c) -> Release(c, st)
           [] OTHER -> call' = st /\ UNCHANGED <<now, slots, cooldownUntil>>

TimesOut(c) == now >= call[c].deadline /\ Abort(c)

Tick ==
  /\ now < MaxTime
  /\ now' = now + 1
  /\ UNCHANGED <<slots, cooldownUntil, call>>

Next ==
  \/ TimerFires
  \/ \E c \in Calls : \/ Begin(c) \/ FetchEnds(c) \/ Drained(c) \/ DelayOver(c) \/ Abort(c)
                      \/ \E ms \in RetryDelays(c) : Transient(c, ms)
  \/ Tick

Spec == Init /\ [][Next]_vars

-----------------------------------------------------------------------------
(* Properties.                                                             *)

TypeOK ==
  /\ now \in 0..MaxTime
  /\ queue \in Seq(Calls)
  /\ timer \in Nat \union {None}
  /\ \A c \in Calls : /\ call[c].pc \in {"idle", "wait", "fetch", "drain", "delay"} \union Ended
                      /\ call[c].attempt \in 0..(Attempts - 1)

\* A slot is taken exactly while a try runs: released once, by whichever of
\* answer, failure, drained body and deadline comes, so that slots neither
\* leak nor multiply; and the queue holds the calls that wait, each once.
SlotsExact ==
  /\ active = Cardinality({c \in Calls : Holding(c)})
  /\ active <= Limit
  /\ Range(queue) = {c \in Calls : call[c].pc = "wait"}
  /\ Len(queue) = Cardinality(Range(queue))

\* No wake-up is lost: with a slot free and a call waiting the timer is set,
\* for no later than a start is allowed.
WakeUpIsSet ==
  (queue # <<>> /\ active < Limit) => /\ timer # None
                                      /\ timer <= Max({now, nextStartAt, cooldownUntil})

\* A try starts outside every pause anybody was told of, and at its distance
\* from the one before, across retries, aborts and late timers.
StartsSpaced ==
  \A c \in Calls : (call[c].pc # "fetch" /\ call'[c].pc = "fetch") =>
    /\ now >= cooldownUntil'
    /\ lastStart # None => now >= lastStart + Interval

\* A pause is never cut short by a shorter one.
PauseOnlyGrows == cooldownUntil' >= cooldownUntil

\* Every call that was made was answered or failed, for good.
AllEnded == \A c \in Calls : call[c].pc \in {"idle"} \cup Ended

=============================================================================
