-------------------------------- MODULE MCWeb --------------------------------
(***************************************************************************)
(* The web application: the wallet page (WalletApp) and the queue of its   *)
(* RPC calls (WalletRequests), the gate of a hosted session (SessionGate)  *)
(* and the guided tour (GuidedTour).  A behaviour is of one part.          *)
(***************************************************************************)
EXTENDS WalletApp

CONSTANTS a1, a2, s1, s2, c1, c2, c3

VARIABLES
  part,
  now, queue, running, nextStartAt, cooldownUntil, timer, call, lastStart,
  broker, session, waiting, mutating, asked, requests, poll, overdue, pages,
  tourBroker, runtimes, tourSession, flags, asks, making, view, viewReads, act, late, losses, blame

callVars == <<now, queue, running, nextStartAt, cooldownUntil, timer, call, lastStart>>
gateVars == <<broker, session, waiting, mutating, asked, requests, poll, overdue, pages>>
tourVars == <<tourBroker, runtimes, tourSession, flags, asks, making, view, viewReads, act, late,
              losses, blame>>
all == <<vars, callVars, gateVars, tourVars, part>>

\* The private sandbox, with the wallet's panels.
Panel == INSTANCE WalletApp WITH
  Accounts <- {a1, a2}, Series <- {s1}, Panels <- {"inventory"}, Http <- TRUE, MaxEpoch <- 1,
  MaxEvents <- 2

\* One series, whose wallet may change.
PageEnds == INSTANCE WalletApp WITH
  Accounts <- {a1, a2}, Series <- {s1}, MaxEpoch <- 1

\* Three calls over two slots.
Slots == INSTANCE WalletRequests WITH
  Calls <- {c1, c2, c3}, Limit <- 2, Interval <- 1, Attempts <- 1, Timeout <- 2,
  RetryAfters <- {0}, BaseDelay <- 1, MaxTime <- 5, active <- running

\* One slot, and a pause that may outlast a deadline.
Calls == INSTANCE WalletRequests WITH
  Calls <- {c1, c2}, Limit <- 1, Interval <- 1, Attempts <- 2, Timeout <- 3,
  RetryAfters <- {2}, BaseDelay <- 1, MaxTime <- 4, active <- running

Gate == INSTANCE SessionGate WITH MaxSessions <- 2, MaxReads <- 2, loading <- waiting

\* Two sandboxes, one after the other, and another tab.
Tour == INSTANCE GuidedTour WITH
  MaxId <- 2, MaxRev <- 1, MaxReads <- 1, MaxLost <- 0, Delays <- FALSE, OtherTab <- TRUE,
  Starts <- {"ready"}, broker <- tourBroker, runtime <- runtimes,
  session <- tourSession, op <- making, reads <- viewReads

\* One runtime with several steps, read in any order.
View == INSTANCE GuidedTour WITH
  MaxId <- 1, MaxRev <- 2, MaxReads <- 2, MaxLost <- 0, Delays <- FALSE, OtherTab <- FALSE,
  Starts <- {"ready"}, broker <- tourBroker, runtime <- runtimes,
  session <- tourSession, op <- making, reads <- viewReads

\* Requests that arrive late.
TourEnds == INSTANCE GuidedTour WITH
  MaxId <- 2, MaxRev <- 1, MaxReads <- 1, MaxLost <- 1, Delays <- TRUE, OtherTab <- FALSE,
  Starts <- {"expired"}, broker <- tourBroker, runtime <- runtimes,
  session <- tourSession, op <- making, reads <- viewReads

ASSUME PartsAssumption ==
  /\ Slots!RequestsAssumption /\ Calls!RequestsAssumption
  /\ Gate!GateAssumption
  /\ Tour!TourAssumption /\ View!TourAssumption /\ TourEnds!TourAssumption

MCInit ==
  /\ part \in {"page", "panels", "pageEnds", "slots", "calls", "gate",
               "tour", "view", "tourEnds"}
  /\ CASE part = "panels" -> Panel!Init
       [] part = "page" -> Init
       [] OTHER -> PageEnds!Init
  /\ IF part = "slots" THEN Slots!Init ELSE Calls!Init
  /\ part # "gate" => broker = [id |-> 0, status |-> "none"]
  /\ Gate!Init
  /\ CASE part = "tour" -> Tour!Init
       [] part = "view" -> View!Init
       [] OTHER -> TourEnds!Init

MCNext ==
  \/ /\ \/ part = "page" /\ Next
        \/ part = "panels" /\ Panel!Next
        \/ part = "pageEnds" /\ PageEnds!Next
     /\ UNCHANGED <<part, callVars, gateVars, tourVars>>
  \/ /\ \/ part = "slots" /\ Slots!Next
        \/ part = "calls" /\ Calls!Next
     /\ UNCHANGED <<part, vars, gateVars, tourVars>>
  \/ /\ part = "gate" /\ Gate!Next
     /\ UNCHANGED <<part, vars, callVars, tourVars>>
  \/ /\ \/ part = "tour" /\ Tour!Next
        \/ part = "view" /\ View!Next
        \/ part = "tourEnds" /\ TourEnds!Next
     /\ UNCHANGED <<part, vars, callVars, gateVars>>

\* An operation's awaits end: requests are bounded by RPC_TIMEOUT_MS and the
\* confirmation by its deadline.  The wallet's prompt is the visitor's.
PageFairness ==
  /\ WF_vars(part = "pageEnds" /\ PageEnds!Operation)
  /\ WF_vars(part = "pageEnds" /\ PageEnds!AwaitedAnswers)
  /\ WF_vars(part = "pageEnds" /\ PageEnds!Render)

\* The clock runs, and the deadline's timer fires and aborts the call.
CallFairness ==
  /\ WF_callVars(part = "calls" /\ Calls!Tick)
  /\ \A c \in {c1, c2} : WF_callVars(part = "calls" /\ Calls!TimesOut(c))

\* Requests are answered or time out, and the poll's timer fires: fetch has a
\* deadline and the browser runs its timers.
GateFairness ==
  /\ WF_gateVars(part = "gate" /\ (Gate!Serve \/ Gate!Lost))
  /\ WF_gateVars(part = "gate" /\ Gate!Answered)
  /\ WF_gateVars(part = "gate" /\ Gate!Initial)
  /\ WF_gateVars(part = "gate" /\ Gate!PollFires)

\* The same of the tour.  A wait that is over as often as it is looked at ends.
TourFairness ==
  /\ WF_tourVars(part = "tourEnds" /\ (TourEnds!InitAnswered \/ TourEnds!OpInitial
                                         \/ TourEnds!OpChecked \/ TourEnds!OpPosted))
  /\ SF_tourVars(part = "tourEnds" /\ TourEnds!OpWaits /\ making'.pc = "idle")
  /\ WF_tourVars(part = "tourEnds" /\ TourEnds!OpWaits)
  /\ \A who \in TourEnds!Who : WF_tourVars(part = "tourEnds" /\ TourEnds!ServeSession(who))
  /\ WF_tourVars(part = "tourEnds" /\ (TourEnds!ServeActRead \/ TourEnds!ServeAction))
  /\ WF_tourVars(part = "tourEnds" /\ (TourEnds!Ensured \/ TourEnds!ResetEnds
                   \/ TourEnds!FirstRead \/ TourEnds!Mutated \/ TourEnds!Confirmed \/ TourEnds!Reread))

MCSpec ==
  /\ MCInit /\ [][MCNext]_all
  /\ PageFairness /\ CallFairness /\ GateFairness /\ TourFairness

\* What holds of the steps of each part.
ScreenMovesForward ==
  /\ part = "slots" => Slots!StartsSpaced /\ Slots!PauseOnlyGrows
  /\ part = "gate" => Gate!ShownForward /\ Gate!ResetIsNotMistaken /\ Gate!ExpiresForCause
  /\ part = "view" => View!NeverBackInTime

\* Of answers that arrive late, twice or out of order: an action goes to the
\* wallet, series and chain on screen, a quote is not older than the page's own
\* actions, a session or a revision once shown is not followed by an earlier one,
\* a step taken is not offered again, and no call takes a slot it does not have.
\* What the wallet sandbox's page shows of its session's end is not always true: a
\* late 410 of an earlier sandbox expires the session shown, whichever it is, while
\* its sandbox runs (session.tsx:182, sandbox-main.tsx:15), against
\* spec/guided-lazy-entry.md:9.  That is the one such cause (ExpiresForCause); the
\* guided tour compares the ids and has none (ReplacementStaysUp).
PagesStayTrue ==
  /\ [](/\ part = "page" => /\ TypeOK /\ SubmittedInContext /\ LandedOnVerifiedChain
                            /\ QuotesSeeOwnActions /\ LoadingIsBacked
        /\ part = "panels" => Panel!SubmittedInContext /\ Panel!PanelsAreOwn
        /\ part = "slots" => Slots!TypeOK /\ Slots!SlotsExact /\ Slots!WakeUpIsSet
        /\ part = "gate" => Gate!TypeOK /\ Gate!MutatingIsBacked
        /\ part = "tour" => Tour!TypeOK /\ Tour!ReplacementStaysUp /\ Tour!OnePollOwner
        /\ part = "view" => View!NeverOfferedTwice)
  /\ [][ScreenMovesForward]_all

\* These waits end, whatever is lost, superseded or replaced: an operation of the
\* wallet page, each queued RPC call, the gate's start or reset, the tour's
\* preparation of a sandbox and its action.  A state without the wait comes again
\* and again; part never changes.  Not promised, since the code can leave them
\* open, are the inventory read of the wallet page (WalletApp.tsx:437-459), the
\* loading state of a "Check progress" that a poll overtook
\* (session.tsx:121-134, 166-170) and the pending state of the tour, which its
\* ended action leaves set when the click came before the first read of a busy
\* runtime (GuidedDemosApp.tsx:355, 367).
WaitsEnd ==
  /\ []<>(/\ part = "pageEnds" => PageEnds!OperationOver
          /\ part = "calls" => Calls!AllEnded
          /\ part = "gate" => Gate!ChangeOver
          /\ part = "tourEnds" => TourEnds!ActionOver)
  /\ []<>(part = "tourEnds" => TourEnds!OperationOver)
=============================================================================
