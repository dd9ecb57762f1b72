---------------------------- MODULE VisitorEdge ----------------------------
(***************************************************************************)
(* The visitor's identity at the edge of the hosted services: the request  *)
(* handlers of the session broker (hosted-broker/src/http.ts, security.ts) *)
(* and of the devnet service (hosted-devnet/src/http.ts), and the browser  *)
(* whose tabs call them.  Whoever calls without a cookie is given a fresh  *)
(* one with the answer, all tabs share one jar, and what an answer sets    *)
(* replaces what the jar holds, however late the answer comes.             *)
(*                                                                         *)
(* A request may carry one flaw, for which it is refused.  Behind the      *)
(* handlers the broker is reduced to the sandboxes it made for each        *)
(* visitor (module HostedSessions has its races) and the faucet to the     *)
(* visitors it served (FaucetJournal).  Cookies and sandboxes are numbered *)
(* in the order they are made; 0 is none.                                  *)
(***************************************************************************)
EXTENDS Integers, Sequences, FiniteSets

CONSTANTS
  Tabs,
  PageOf,          \* Tabs -> {"wallet", "guided", "devnet"}
  Flaws,           \* what may be wrong with a request
  MaxCookies,      \* bound: cookies issued
  MaxSandboxes     \* bound: sandboxes made

\* What the instances of this module satisfy.
EdgeAssumption ==
  /\ PageOf \in [Tabs -> {"wallet", "guided", "devnet"}]
  /\ MaxCookies \in Nat /\ MaxSandboxes \in Nat

VARIABLES
  jar,         \* the browser's cookie
  issued,      \* cookies issued so far
  wire,        \* Tabs -> the tab's request, waiting to be handled or heard of
  told,        \* Tabs -> the sandbox the tab's page was told of
  known,       \* the tabs that have their session or manifest
  sandboxes,   \* the sandboxes made: whose, of which kind, whether live
  funded       \* visitors whose faucet request was taken

vars == <<jar, issued, wire, told, known, sandboxes, funded>>

Nobody == 0
Idle == [stage |-> "idle"]
NoAnswer == [status |-> 0, cookie |-> Nobody, sandbox |-> Nobody]

Init ==
  /\ jar = Nobody /\ issued = 0
  /\ wire = [t \in Tabs |-> Idle]
  /\ told = [t \in Tabs |-> Nobody] /\ known = {}
  /\ sandboxes = <<>> /\ funded = {}

-----------------------------------------------------------------------------
(* The browser.                                                            *)

Request(verb, sandbox, flaw) ==
  [stage |-> "sent", verb |-> verb, cookie |-> jar, sandbox |-> sandbox, flaw |-> flaw, answer |-> NoAnswer]

\* A page reads first.  The sandbox pages may start without having heard
\* (the read may have failed); they reset what they know and call it.  The
\* wallet app needs the manifest, with which it asks for a grant.
Offers(t) ==
  IF PageOf[t] = "devnet" THEN {"manifest"} \union (IF t \in known THEN {"faucet"} ELSE {})
  ELSE {"read"} \union (IF told[t] = Nobody THEN {"start"} ELSE {"reset", "call"})

Send(t, verb, flaw) ==
  /\ wire[t] = Idle /\ verb \in Offers(t)
  /\ wire' = [wire EXCEPT ![t] = Request(verb, told[t], flaw)]
  /\ UNCHANGED <<jar, issued, told, known, sandboxes, funded>>

\* The browser keeps the cookie, the page what it was told.
Deliver(t) ==
  /\ wire[t].stage = "answered"
  /\ LET r == wire[t]
         a == r.answer
     IN  /\ jar' = IF a.cookie # Nobody THEN a.cookie ELSE jar
         /\ told' = IF a.status \in {200, 202} /\ r.verb \in {"read", "start", "reset"}
                    THEN [told EXCEPT ![t] = a.sandbox] ELSE told
         /\ known' = IF a.status = 200 /\ r.verb \in {"read", "manifest"} THEN known \union {t} ELSE known
  /\ wire' = [wire EXCEPT ![t] = Idle]
  /\ UNCHANGED <<issued, sandboxes, funded>>

\* The request or its answer is lost, or the page stopped waiting.
Lose(t) ==
  /\ wire[t] # Idle
  /\ wire' = [wire EXCEPT ![t] = Idle]
  /\ UNCHANGED <<jar, issued, told, known, sandboxes, funded>>

-----------------------------------------------------------------------------
(* The handlers.                                                           *)

Verbs == {"read", "start", "reset", "call", "manifest", "faucet"}
Reads == {"read", "manifest"}

\* Flaws found before a visitor is looked for.
Early(verb) == {"route", "foreign", "method"} \union (IF verb \in {"call", "faucet"} THEN {"noorigin"} ELSE {})

\* What a mutation's origin and body can be refused for.
BodyFlaws == {"noorigin", "type", "large", "json", "fields"}

\* Flaws only a mutation can have; the session header is the session's.
Late(verb) == IF verb \in Reads THEN {}
              ELSE BodyFlaws \union (IF verb \in {"start", "reset"} THEN {"header"} ELSE {})

Flawed(r) == r.flaw \in Early(r.verb) \union Late(r.verb)

Refusal(flaw) ==
  CASE flaw = "route" -> 404 [] flaw = "method" -> 405 [] flaw = "type" -> 415
    [] flaw = "large" -> 413 [] flaw \in {"json", "fields"} -> 400 [] OTHER -> 403

\* Mutant: every answer sets a cookie.
IssuesAlways(r) == r.verb \in {"read", "start", "reset", "manifest"} /\ r.flaw \notin Early(r.verb)

\* readVisitorCookie, issueVisitorCookie
Issues(r) ==
  /\ r.cookie = Nobody
  /\ r.verb \in {"read", "start", "reset", "manifest"} /\ r.flaw \notin Early(r.verb)

Fresh(r) == IF Issues(r) THEN issued + 1 ELSE Nobody
Visitor(r) == IF Issues(r) THEN issued + 1 ELSE r.cookie

\* The sandboxes of a visitor and kind, and the latest one.
Own(visitor, kind) == {i \in 1..Len(sandboxes) : sandboxes[i].visitor = visitor /\ sandboxes[i].kind = kind}
Latest(visitor, kind) ==
  IF Own(visitor, kind) = {} THEN Nobody
  ELSE CHOOSE i \in Own(visitor, kind) : \A j \in Own(visitor, kind) : j <= i

Answer(t, status, sandbox) ==
  /\ wire' = [wire EXCEPT ![t].stage = "answered",
                          ![t].answer = [status |-> status, cookie |-> Fresh(wire[t]), sandbox |-> sandbox]]
  /\ issued' = IF Issues(wire[t]) THEN issued + 1 ELSE issued
  /\ UNCHANGED <<jar, told, known>>

\* A request of this kind is there; the bound on cookies holds.
Arrived(t, verb) ==
  /\ wire[t].stage = "sent" /\ wire[t].verb = verb
  /\ Issues(wire[t]) => issued < MaxCookies

Refuse(t) ==
  /\ \E verb \in Verbs : Arrived(t, verb)
  /\ Flawed(wire[t])
  /\ Answer(t, Refusal(wire[t].flaw), Nobody)
  /\ UNCHANGED <<sandboxes, funded>>

\* The broker's failures: full, busy or out of quota.
Unavailable(t) ==
  /\ \E verb \in Verbs \ {"manifest"} : Arrived(t, verb)
  /\ ~ Flawed(wire[t])
  /\ \E status \in {429, 503} : Answer(t, status, Nobody)
  /\ UNCHANGED <<sandboxes, funded>>

Current(t) ==
  /\ Arrived(t, "read") /\ ~ Flawed(wire[t])
  /\ Answer(t, 200, Latest(Visitor(wire[t]), PageOf[t]))
  /\ UNCHANGED <<sandboxes, funded>>

\* broker.start: the one there is, if it is live.
Start(t) ==
  /\ Arrived(t, "start") /\ ~ Flawed(wire[t])
  /\ LET v == Visitor(wire[t])
         latest == Latest(v, PageOf[t])
     IN  IF latest # Nobody /\ sandboxes[latest].live
           THEN Answer(t, 200, latest) /\ UNCHANGED sandboxes
           ELSE /\ Len(sandboxes) < MaxSandboxes
                /\ sandboxes' = Append(sandboxes, [visitor |-> v, kind |-> PageOf[t], live |-> TRUE])
                /\ Answer(t, 202, Len(sandboxes) + 1)
  /\ UNCHANGED funded

\* broker.reset: of the latest one only.
Reset(t) ==
  /\ Arrived(t, "reset") /\ ~ Flawed(wire[t])
  /\ LET v == Visitor(wire[t])
         latest == Latest(v, PageOf[t])
     IN  IF latest # wire[t].sandbox
           THEN Answer(t, 409, Nobody) /\ UNCHANGED sandboxes
           ELSE /\ Len(sandboxes) < MaxSandboxes
                /\ sandboxes' = Append([sandboxes EXCEPT ![latest].live = FALSE],
                                       [visitor |-> v, kind |-> PageOf[t], live |-> TRUE])
                /\ Answer(t, 202, Len(sandboxes) + 1)
  /\ UNCHANGED funded

\* Mutant: a call is for the sandbox the visitor has now.
ReachedNow(r, kind) == Latest(r.cookie, kind)

\* The sandbox a call names, if it is the visitor's.
Reached(r, kind) == IF r.cookie # Nobody /\ sandboxes[r.sandbox].visitor = r.cookie THEN r.sandbox ELSE Nobody

Call(t) ==
  /\ Arrived(t, "call") /\ ~ Flawed(wire[t])
  /\ LET s == Reached(wire[t], PageOf[t])
     IN  CASE s = Nobody -> Answer(t, 404, Nobody)
           [] ~ sandboxes[s].live -> Answer(t, 410, Nobody)
           [] OTHER -> Answer(t, 200, s)
  /\ UNCHANGED <<sandboxes, funded>>

Manifest(t) ==
  /\ Arrived(t, "manifest") /\ ~ Flawed(wire[t])
  /\ Answer(t, 200, Nobody)
  /\ UNCHANGED <<sandboxes, funded>>

Faucet(t) ==
  /\ Arrived(t, "faucet") /\ ~ Flawed(wire[t])
  /\ IF wire[t].cookie = Nobody
       THEN Answer(t, 401, Nobody) /\ UNCHANGED funded
       ELSE /\ \E status \in {200, 202, 409} : Answer(t, status, Nobody)
            /\ funded' = funded \union {wire[t].cookie}
  /\ UNCHANGED sandboxes

\* A sandbox's lifetime ends.
Expire(i) ==
  /\ i \in 1..Len(sandboxes) /\ sandboxes[i].live
  /\ sandboxes' = [sandboxes EXCEPT ![i].live = FALSE]
  /\ UNCHANGED <<jar, issued, wire, told, known, funded>>

Next ==
  \/ \E t \in Tabs :
       \/ \E verb \in Offers(t), flaw \in Flaws : Send(t, verb, flaw)
       \/ Deliver(t) \/ Lose(t)
       \/ Refuse(t) \/ Unavailable(t)
       \/ Current(t) \/ Start(t) \/ Reset(t) \/ Call(t) \/ Manifest(t) \/ Faucet(t)
  \/ \E i \in 1..MaxSandboxes : Expire(i)

Spec == Init /\ [][Next]_vars

-----------------------------------------------------------------------------
(* Properties.                                                             *)

TypeOK ==
  /\ jar \in 0..issued /\ issued \in 0..MaxCookies
  /\ known \subseteq Tabs /\ funded \subseteq 1..issued
  /\ told \in [Tabs -> 0..Len(sandboxes)]
  /\ sandboxes \in Seq([visitor : 1..issued, kind : {"wallet", "guided"}, live : BOOLEAN])
  /\ \A t \in Tabs : wire[t] = Idle \/ (wire[t].stage \in {"sent", "answered"} /\ wire[t].verb \in Verbs)

\* A request the handlers should not take changes nothing but the jar: no
\* sandbox is started or stopped for it and no grant is made.
FlawChangesNothing ==
  \A t \in Tabs :
    (wire[t].stage = "sent" /\ wire'[t].stage = "answered" /\ wire[t].flaw \in Early(wire[t].verb) \union Late(wire[t].verb))
    => UNCHANGED <<sandboxes, funded>> /\ wire'[t].answer.status >= 400

\* A browser that was told of a live sandbox is still its visitor: reading
\* again, by a reload, finds it.  This is so of a browser with one tab.  Where
\* two tabs both ask before the browser has a cookie, each is given one of its
\* own, and the later answer takes from the browser what the earlier gave it.
ReloadReconnects ==
  \A t \in Tabs : (told[t] # Nobody /\ sandboxes[told[t]].live) => sandboxes[told[t]].visitor = jar

\* That is the only way to lose an identity, with any number of tabs: what
\* replaces one is the answer to a request sent before the browser had any.
OnlyFirstRequestsReplace ==
  (jar # Nobody /\ jar' # jar) =>
    \E t \in Tabs : /\ wire[t].stage = "answered" /\ wire[t].cookie = Nobody
                   /\ wire[t].answer.cookie = jar'

\* A page that has its manifest is known to the faucet.
FaucetKnowsVisitor ==
  \A t \in Tabs : (wire[t].stage = "sent" /\ wire'[t].stage = "answered") => wire'[t].answer.status # 401

\* A page of a sandbox never reaches the one that replaced it: what answers a
\* call is live and the one the page was told of when it called.
NeverReplacement ==
  \A t \in Tabs :
    (wire[t].stage = "sent" /\ wire[t].verb = "call" /\ wire'[t].stage = "answered" /\ wire'[t].answer.status = 200)
    => /\ wire'[t].answer.sandbox = told[t]
       /\ sandboxes[told[t]].live

=============================================================================
