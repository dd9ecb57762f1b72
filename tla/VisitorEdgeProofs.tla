------------------------- MODULE VisitorEdgeProofs -------------------------
(***************************************************************************)
(* What holds of the edge for every number of tabs, cookies and sandboxes: *)
(* a refused request changes nothing, a page reaches its own sandbox or    *)
(* none, the faucet knows whoever has a manifest, and a browser with one   *)
(* tab stays the visitor of the sandbox it was told of.                    *)
(***************************************************************************)
EXTENDS VisitorEdge, WellFoundedInduction, TLAPS

USE DEF Nobody

-----------------------------------------------------------------------------
(* The inductive invariant.                                                *)

\* What is on the wire and in the lists.
Answers == [status : Nat, cookie : 0..issued, sandbox : 0..Len(sandboxes)]
Asked == [stage : {"sent", "answered"}, verb : Verbs, cookie : 0..issued,
          sandbox : 0..Len(sandboxes), flaw : Flaws, answer : Answers]
Boxes == [visitor : 1..issued, kind : {"wallet", "guided"}, live : BOOLEAN]
Typed ==
  /\ issued \in 0..MaxCookies /\ jar \in 0..issued
  /\ known \subseteq Tabs /\ funded \subseteq 1..issued
  /\ sandboxes \in Seq(Boxes)
  /\ told \in [Tabs -> 0..Len(sandboxes)]
  /\ DOMAIN wire = Tabs /\ \A t \in Tabs : wire[t] = Idle \/ wire[t] \in Asked

\* A request is about the sandbox its page was told of, and of its page's kind.
Meant(t) ==
  wire[t] # Idle =>
    /\ wire[t].sandbox = told[t]
    /\ wire[t].verb \in {"reset", "call"} => told[t] # Nobody
    /\ wire[t].verb \in {"read", "start", "reset", "call"} <=> PageOf[t] # "devnet"

\* Whoever has a manifest, or is about to, has a cookie or is about to, and a
\* cookie is given to who had none.
Recognised(t) ==
  wire[t] # Idle =>
    /\ wire[t].cookie # Nobody => jar # Nobody
    /\ wire[t].verb = "faucet" => wire[t].cookie # Nobody
    /\ wire[t].stage = "answered" /\ wire[t].answer.status = 200 /\ wire[t].verb \in Reads
         => wire[t].answer.cookie # Nobody \/ jar # Nobody
    /\ wire[t].stage = "answered" /\ wire[t].answer.cookie # Nobody => wire[t].cookie = Nobody

\* A lone tab's request has the browser's cookie, and what it is told of is its
\* visitor's: the browser's, or the one the answer makes of it.
Belongs(t) ==
  /\ told[t] # Nobody => sandboxes[told[t]].visitor = jar
  /\ wire[t] # Idle => wire[t].cookie = jar
  /\ wire[t] # Idle /\ wire[t].stage = "answered" =>
       LET a == wire[t].answer
       IN  /\ a.cookie # Nobody => jar = Nobody
           /\ a.sandbox # Nobody =>
                sandboxes[a.sandbox].visitor = IF a.cookie # Nobody THEN a.cookie ELSE jar

OneTab == \A t, u \in Tabs : t = u

EdgeInv ==
  /\ Typed
  /\ \A t \in Tabs : Meant(t) /\ Recognised(t)
  /\ known # {} => jar # Nobody
  /\ OneTab => \A t \in Tabs : Belongs(t)

-----------------------------------------------------------------------------
(* Lists of sandboxes.                                                     *)

\* A list that grows.
LEMMA Appended ==
  ASSUME NEW S, NEW s \in Seq(S), NEW e \in S
  PROVE  /\ Append(s, e) \in Seq(S) /\ Len(Append(s, e)) = Len(s) + 1
         /\ \A i \in 1..Len(s) : Append(s, e)[i] = s[i]
         /\ Append(s, e)[Len(s) + 1] = e
  OBVIOUS

\* A list one of whose elements changes.
LEMMA Replaced ==
  ASSUME NEW S, NEW s \in Seq(S), NEW i \in 1..Len(s), NEW e \in S
  PROVE  /\ [s EXCEPT ![i] = e] \in Seq(S) /\ Len([s EXCEPT ![i] = e]) = Len(s)
         /\ \A j \in 1..Len(s) : [s EXCEPT ![i] = e][j] = IF j = i THEN e ELSE s[j]
  OBVIOUS

\* A list of things of a kind is one of things of a wider kind.
LEMMA Widened ==
  ASSUME NEW S, NEW T, S \subseteq T, NEW s \in Seq(S)
  PROVE  s \in Seq(T)
  OBVIOUS

\* A set of numbers up to n that is not empty has a greatest one.
LEMMA Greatest ==
  ASSUME NEW n \in Nat, NEW S \in SUBSET (1..n), S # {}
  PROVE  \E i \in S : \A j \in S : j <= i
  <1> DEFINE T == {n - i : i \in S}
  <1>1. ASSUME NEW i \in S PROVE n - i \in Nat /\ i \in Nat
    OBVIOUS
  <1>2. T \subseteq Nat
    BY <1>1
  <1>3. T # {}
    <2>1. PICK i \in S : TRUE
      OBVIOUS
    <2>2. n - i \in T
      BY <2>1
    <2> QED BY <2>2
  <1>4. \A i \in S : n - i \in T
    OBVIOUS
  <1>5. \A x \in T : \E i \in S : x = n - i
    OBVIOUS
  <1> HIDE DEF T
  <1>6. PICK x \in T : \A y \in T : ~ (<<y, x>> \in OpToRel(<, Nat))
    BY <1>2, <1>3, NatLessThanWellFounded, WFMin
  <1>7. PICK i \in S : x = n - i
    BY <1>5
  <1>8. ASSUME NEW j \in S PROVE j <= i
    <2>1. n - j \in T
      BY <1>4
    <2>2. ~ (n - j < n - i)
      BY <1>1, <1>2, <1>6, <1>7, <2>1 DEF OpToRel
    <2> QED BY <1>1, <2>2
  <1> QED BY <1>8

\* A visitor's latest sandbox is one of theirs.
LEMMA LatestIsOwn ==
  ASSUME Typed, NEW visitor, NEW kind, Latest(visitor, kind) # Nobody
  PROVE  Latest(visitor, kind) \in Own(visitor, kind)
  <1> DEFINE S == Own(visitor, kind)
  <1>1. Len(sandboxes) \in Nat
    BY DEF Typed
  <1>2. S \in SUBSET (1..Len(sandboxes)) /\ S # {}
    BY DEF Own, Latest
  <1> HIDE DEF S
  <1>3. \E i \in S : \A j \in S : j <= i
    BY <1>1, <1>2, Greatest
  <1> QED BY <1>2, <1>3 DEF Latest, S

-----------------------------------------------------------------------------
(* The handlers.  Nine of them answer, and all the invariant needs to know *)
(* of an answer is what it says.                                           *)

\* The list of sandboxes after a step: what there was keeps its visitor.
Grows ==
  /\ sandboxes' \in Seq(Boxes')
  /\ Len(sandboxes) <= Len(sandboxes')
  /\ \A i \in 1..Len(sandboxes) : sandboxes'[i].visitor = sandboxes[i].visitor

\* What a handler does: it answers a request, of its visitor's sandbox if of
\* any, and a flawed one with a refusal only.
Handles(t, status, box) ==
  /\ wire[t].stage = "sent"
  /\ Answer(t, status, box)
  /\ issued' <= MaxCookies
  /\ status \in Nat
  /\ box \in 0..Len(sandboxes')
  /\ box # Nobody => sandboxes'[box].visitor = Visitor(wire[t])
  /\ status = 200 /\ wire[t].verb \in Reads => wire[t].cookie # Nobody \/ Issues(wire[t])
  /\ status = 401 => wire[t].verb = "faucet" /\ wire[t].cookie = Nobody
  /\ status = 200 /\ wire[t].verb = "call" =>
       box # Nobody /\ box = wire[t].sandbox /\ sandboxes[box].live
  /\ Flawed(wire[t]) => UNCHANGED <<sandboxes, funded>> /\ status >= 400
  /\ funded' \subseteq 1..issued'
  /\ Grows

\* The request that arrives, its visitor and the cookies after the answer.
LEMMA ArrivedSays ==
  ASSUME EdgeAssumption, EdgeInv, NEW t \in Tabs, NEW verb, Arrived(t, verb),
         NEW status, NEW box, Answer(t, status, box)
  PROVE  /\ wire[t] \in Asked /\ wire[t] # Idle /\ wire[t].stage = "sent" /\ wire[t].verb = verb
         /\ wire[t].cookie \in 0..issued /\ wire[t].sandbox \in 0..Len(sandboxes)
         /\ issued \in Nat /\ issued' \in issued..(issued + 1) /\ issued' <= MaxCookies
         /\ Visitor(wire[t]) \in 0..issued' /\ Fresh(wire[t]) \in 0..issued'
         /\ Boxes \subseteq Boxes' /\ funded \subseteq 1..issued'
         /\ Issues(wire[t]) \in BOOLEAN
         /\ ~Flawed(wire[t]) /\ verb \in {"read", "start", "reset", "manifest"} =>
              /\ Visitor(wire[t]) # Nobody
              /\ wire[t].cookie # Nobody \/ Issues(wire[t])
         /\ ~Issues(wire[t]) => Visitor(wire[t]) = wire[t].cookie
  <1>1. wire[t] \in Asked /\ wire[t] # Idle /\ wire[t].stage = "sent" /\ wire[t].verb = verb
    BY DEF Arrived, EdgeInv, Typed, Idle
  <1>2. /\ wire[t].cookie \in 0..issued /\ wire[t].sandbox \in 0..Len(sandboxes)
        /\ issued \in Nat /\ issued <= MaxCookies /\ MaxCookies \in Nat
    BY <1>1 DEF Asked, EdgeInv, Typed, EdgeAssumption
  <1>3. issued' = IF Issues(wire[t]) THEN issued + 1 ELSE issued
    BY DEF Answer
  <1>4. Issues(wire[t]) \in BOOLEAN /\ (Issues(wire[t]) => issued < MaxCookies)
    BY DEF Issues, Arrived
  <1>5. issued' \in issued..(issued + 1) /\ issued' <= MaxCookies
    BY <1>2, <1>3, <1>4
  <1>6. Visitor(wire[t]) \in 0..issued' /\ Fresh(wire[t]) \in 0..issued'
    BY <1>2, <1>3, <1>4 DEF Visitor, Fresh
  <1>7. 1..issued \subseteq 1..issued'
    BY <1>2, <1>5
  <1>8. Boxes \subseteq Boxes'
    BY <1>7 DEF Boxes
  <1>9. funded \subseteq 1..issued'
    BY <1>7 DEF EdgeInv, Typed
  <1>10. ASSUME ~Flawed(wire[t]), verb \in {"read", "start", "reset", "manifest"}
         PROVE  Visitor(wire[t]) # Nobody /\ (wire[t].cookie # Nobody \/ Issues(wire[t]))
    BY <1>1, <1>2, <1>10 DEF Visitor, Issues, Flawed
  <1>11. ~Issues(wire[t]) => Visitor(wire[t]) = wire[t].cookie
    BY DEF Visitor
  <1> QED BY <1>1, <1>2, <1>4, <1>5, <1>6, <1>8, <1>9, <1>10, <1>11

\* A list that stays.
LEMMA Stays ==
  ASSUME EdgeInv, Boxes \subseteq Boxes', UNCHANGED sandboxes
  PROVE  Grows
  <1>1. sandboxes \in Seq(Boxes)
    BY DEF EdgeInv, Typed
  <1>2. sandboxes \in Seq(Boxes')
    BY <1>1, Widened
  <1> QED BY <1>1, <1>2 DEF Grows

\* Answers without a sandbox.
LEMMA HandlesPlainly ==
  ASSUME EdgeAssumption, EdgeInv, NEW t \in Tabs, Refuse(t) \/ Unavailable(t) \/ Manifest(t) \/ Faucet(t)
  PROVE  \E status, box : Handles(t, status, box)
  <1>1. CASE Refuse(t)
    <2>1. PICK verb \in Verbs : Arrived(t, verb)
      BY <1>1 DEF Refuse
    <2> DEFINE status == Refusal(wire[t].flaw)
    <2>2. Answer(t, status, Nobody) /\ UNCHANGED <<sandboxes, funded>> /\ Flawed(wire[t])
      BY <1>1 DEF Refuse
    <2>3. status \in Nat /\ status >= 400 /\ status # 401
      BY DEF Refusal
    <2> HIDE DEF status
    <2>4. Handles(t, status, Nobody)
      <3>1. Len(sandboxes') \in Nat /\ Grows
        BY <2>1, <2>2, ArrivedSays, Stays DEF EdgeInv, Typed
      <3> QED BY <2>1, <2>2, <2>3, <3>1, ArrivedSays DEF Handles
    <2> QED BY <2>4
  <1>2. CASE Unavailable(t)
    <2>1. PICK verb \in Verbs : Arrived(t, verb)
      BY <1>2 DEF Unavailable
    <2>2. PICK status \in {429, 503} : Answer(t, status, Nobody)
      BY <1>2 DEF Unavailable
    <2>3. UNCHANGED <<sandboxes, funded>> /\ ~Flawed(wire[t])
      BY <1>2 DEF Unavailable
    <2>4. Handles(t, status, Nobody)
      <3>1. Len(sandboxes') \in Nat /\ Grows
        BY <2>1, <2>2, <2>3, ArrivedSays, Stays DEF EdgeInv, Typed
      <3> QED BY <2>1, <2>2, <2>3, <3>1, ArrivedSays DEF Handles
    <2> QED BY <2>4
  <1>3. CASE Manifest(t)
    <2>1. Arrived(t, "manifest") /\ Answer(t, 200, Nobody) /\ UNCHANGED <<sandboxes, funded>>
          /\ ~Flawed(wire[t])
      BY <1>3 DEF Manifest
    <2>2. Len(sandboxes') \in Nat /\ Grows
      BY <2>1, ArrivedSays, Stays DEF EdgeInv, Typed
    <2>3. Handles(t, 200, Nobody)
      BY <2>1, <2>2, ArrivedSays DEF Handles
    <2> QED BY <2>3
  <1>4. CASE Faucet(t)
    <2>1. Arrived(t, "faucet") /\ UNCHANGED sandboxes /\ ~Flawed(wire[t])
      BY <1>4 DEF Faucet
    <2>2. CASE wire[t].cookie = Nobody
      <3>1. Answer(t, 401, Nobody) /\ UNCHANGED funded
        BY <1>4, <2>2 DEF Faucet
      <3>2. Len(sandboxes') \in Nat /\ Grows
        BY <2>1, <3>1, ArrivedSays, Stays DEF EdgeInv, Typed
      <3>3. Handles(t, 401, Nobody)
        BY <2>1, <2>2, <3>1, <3>2, ArrivedSays DEF Handles
      <3> QED BY <3>3
    <2>3. CASE wire[t].cookie # Nobody
      <3>1. PICK status \in {200, 202, 409} : Answer(t, status, Nobody)
        BY <1>4, <2>3 DEF Faucet
      <3>2. funded' = funded \union {wire[t].cookie}
        BY <1>4, <2>3 DEF Faucet
      <3>3. Len(sandboxes') \in Nat /\ Grows
        BY SMTT(60), <2>1, <3>1, ArrivedSays, Stays DEF EdgeInv, Typed
      <3>4. wire[t].cookie \in 1..issued'
        BY <2>1, <2>3, <3>1, ArrivedSays
      <3>5. funded' \subseteq 1..issued'
        BY <2>1, <3>1, <3>2, <3>4, ArrivedSays
      <3>6. Handles(t, status, Nobody)
        BY <2>1, <3>1, <3>3, <3>5, ArrivedSays DEF Handles, Reads
      <3> QED BY <3>6
    <2> QED BY <2>2, <2>3
  <1> QED BY <1>1, <1>2, <1>3, <1>4

\* Answers about a sandbox there is.
LEMMA HandlesOwn ==
  ASSUME EdgeAssumption, EdgeInv, NEW t \in Tabs, Current(t) \/ Call(t)
  PROVE  \E status, box : Handles(t, status, box)
  <1>1. CASE Current(t)
    <2> DEFINE box == Latest(Visitor(wire[t]), PageOf[t])
    <2>1. Arrived(t, "read") /\ Answer(t, 200, box) /\ UNCHANGED <<sandboxes, funded>>
          /\ ~Flawed(wire[t])
      BY <1>1 DEF Current
    <2>2. Len(sandboxes') \in Nat /\ Grows
      BY <2>1, ArrivedSays, Stays DEF EdgeInv, Typed
    <2>3. /\ box \in 0..Len(sandboxes')
          /\ box # Nobody => sandboxes'[box].visitor = Visitor(wire[t])
      <3>1. CASE box = Nobody
        BY <2>2, <3>1
      <3>2. CASE box # Nobody
        BY <2>1, <2>2, <3>2, LatestIsOwn DEF Own, EdgeInv
      <3> QED BY <3>1, <3>2
    <2> HIDE DEF box
    <2>4. Handles(t, 200, box)
      BY <2>1, <2>2, <2>3, ArrivedSays DEF Handles
    <2> QED BY <2>4
  <1>2. CASE Call(t)
    <2> DEFINE s == Reached(wire[t], PageOf[t])
    <2>1. Arrived(t, "call") /\ UNCHANGED <<sandboxes, funded>> /\ ~Flawed(wire[t])
      BY <1>2 DEF Call
    <2>2. \/ Answer(t, 404, Nobody)
          \/ Answer(t, 410, Nobody)
          \/ s # Nobody /\ sandboxes[s].live /\ Answer(t, 200, s)
      BY <1>2 DEF Call
    <2>3. s # Nobody => s = wire[t].sandbox /\ wire[t].cookie # Nobody
                        /\ sandboxes[s].visitor = wire[t].cookie
      BY DEF Reached
    <2> HIDE DEF s
    <2>4. ASSUME NEW status \in {404, 410}, Answer(t, status, Nobody)
          PROVE  Handles(t, status, Nobody)
      <3>1. Len(sandboxes') \in Nat /\ Grows
        BY <2>1, <2>4, ArrivedSays, Stays DEF EdgeInv, Typed
      <3> QED BY <2>1, <2>4, <3>1, ArrivedSays DEF Handles
    <2>5. ASSUME s # Nobody, sandboxes[s].live, Answer(t, 200, s)
          PROVE  Handles(t, 200, s)
      <3>1. Len(sandboxes') \in Nat /\ Grows
        BY <2>1, <2>5, ArrivedSays, Stays DEF EdgeInv, Typed
      <3>2. Visitor(wire[t]) = wire[t].cookie
        BY <2>3, <2>5 DEF Visitor, Issues
      <3> QED BY <2>1, <2>3, <2>5, <3>1, <3>2, ArrivedSays DEF Handles, Reads
    <2> QED BY <2>2, <2>4, <2>5
  <1> QED BY <1>1, <1>2

\* A new sandbox at the end of the list, or of the list without a live one.
LEMMA BoxAdded ==
  ASSUME NEW old, old \in Seq(Boxes'), Len(old) = Len(sandboxes), Len(sandboxes) \in Nat,
         \A i \in 1..Len(sandboxes) : old[i].visitor = sandboxes[i].visitor,
         NEW v \in 1..issued', NEW kind \in {"wallet", "guided"},
         sandboxes' = Append(old, [visitor |-> v, kind |-> kind, live |-> TRUE])
  PROVE  /\ Grows
         /\ Len(sandboxes) + 1 \in 0..Len(sandboxes')
         /\ sandboxes'[Len(sandboxes) + 1].visitor = v
  <1> DEFINE e == [visitor |-> v, kind |-> kind, live |-> TRUE]
  <1>1. e \in Boxes' /\ e.visitor = v
    BY DEF Boxes
  <1> HIDE DEF e
  <1>2. /\ Append(old, e) \in Seq(Boxes') /\ Len(Append(old, e)) = Len(old) + 1
        /\ \A i \in 1..Len(old) : Append(old, e)[i] = old[i]
        /\ Append(old, e)[Len(old) + 1] = e
    BY <1>1, Appended
  <1>3. sandboxes' = Append(old, e)
    BY DEF e
  <1> QED BY <1>1, <1>2, <1>3 DEF Grows

\* Answers about a new sandbox, or the one there is.
LEMMA HandlesNew ==
  ASSUME EdgeAssumption, EdgeInv, NEW t \in Tabs, Start(t) \/ Reset(t)
  PROVE  \E status, box : Handles(t, status, box)
  <1> DEFINE v == Visitor(wire[t])
             latest == Latest(v, PageOf[t])
  <1>1. PICK verb \in {"start", "reset"} : Arrived(t, verb)
    BY DEF Start, Reset
  <1>2. UNCHANGED funded /\ ~Flawed(wire[t])
    BY DEF Start, Reset
  <1>3. Len(sandboxes) \in Nat /\ sandboxes \in Seq(Boxes)
    BY DEF EdgeInv, Typed
  <1>4. latest # Nobody => latest \in 1..Len(sandboxes) /\ sandboxes[latest].visitor = v
    BY LatestIsOwn DEF Own, EdgeInv
  <1>5. ASSUME NEW status \in {200, 409}, NEW box \in {Nobody, latest}, Answer(t, status, box),
               UNCHANGED sandboxes
        PROVE  Handles(t, status, box)
    <2>1. Grows
      BY <1>1, <1>5, ArrivedSays, Stays
    <2> HIDE DEF latest
    <2>2. box \in 0..Len(sandboxes') /\ (box # Nobody => sandboxes'[box].visitor = v)
      BY <1>3, <1>4, <1>5
    <2> QED BY <1>1, <1>2, <1>5, <2>1, <2>2, ArrivedSays DEF Handles, Reads
  <1>6. ASSUME NEW old, old \in Seq(Boxes), Len(old) = Len(sandboxes),
               \A i \in 1..Len(sandboxes) : old[i].visitor = sandboxes[i].visitor,
               sandboxes' = Append(old, [visitor |-> v, kind |-> PageOf[t], live |-> TRUE]),
               Answer(t, 202, Len(sandboxes) + 1)
        PROVE  Handles(t, 202, Len(sandboxes) + 1)
    <2>1. v \in 1..issued' /\ Boxes \subseteq Boxes'
      BY <1>1, <1>2, <1>6, ArrivedSays
    <2>2. old \in Seq(Boxes')
      BY <1>6, <2>1, Widened
    <2>3. PageOf[t] \in {"wallet", "guided"}
      BY <1>1, <1>6, ArrivedSays DEF EdgeInv, Meant, EdgeAssumption
    <2> DEFINE w == v
               kind == PageOf[t]
    <2> HIDE DEF w, kind
    <2>4. w \in 1..issued' /\ kind \in {"wallet", "guided"}
          /\ sandboxes' = Append(old, [visitor |-> w, kind |-> kind, live |-> TRUE])
      BY <1>6, <2>1, <2>3 DEF w, kind
    <2>5. /\ Grows
          /\ Len(sandboxes) + 1 \in 0..Len(sandboxes')
          /\ sandboxes'[Len(sandboxes) + 1].visitor = w
      BY <1>3, <1>6, <2>2, <2>4, BoxAdded
    <2> QED BY <1>1, <1>2, <1>6, <2>5, ArrivedSays DEF Handles, Reads, w
  <1>7. CASE Start(t)
    <2>1. CASE latest # Nobody /\ sandboxes[latest].live
      <3>1. Answer(t, 200, latest) /\ UNCHANGED sandboxes
        BY <1>7, <2>1 DEF Start
      <3> QED BY <1>5, <3>1
    <2>2. CASE ~(latest # Nobody /\ sandboxes[latest].live)
      <3>1. /\ sandboxes' = Append(sandboxes, [visitor |-> v, kind |-> PageOf[t], live |-> TRUE])
            /\ Answer(t, 202, Len(sandboxes) + 1)
        BY <1>7, <2>2 DEF Start
      <3> QED BY <1>3, <1>6, <3>1
    <2> QED BY <2>1, <2>2
  <1>8. CASE Reset(t)
    <2>1. CASE latest # wire[t].sandbox
      <3>1. Answer(t, 409, Nobody) /\ UNCHANGED sandboxes
        BY <1>8, <2>1 DEF Reset
      <3> QED BY <1>5, <3>1
    <2>2. CASE latest = wire[t].sandbox
      <3> DEFINE gone == [sandboxes[latest] EXCEPT !.live = FALSE]
                 old == [sandboxes EXCEPT ![latest] = gone]
      <3>1. /\ sandboxes' = Append(old, [visitor |-> v, kind |-> PageOf[t], live |-> TRUE])
            /\ Answer(t, 202, Len(sandboxes) + 1) /\ Arrived(t, "reset")
        BY <1>8, <2>2 DEF Reset
      <3>2. wire[t] # Idle /\ wire[t].verb = "reset"
        BY <3>1, ArrivedSays
      <3>3. latest # Nobody
        BY <2>2, <3>2 DEF EdgeInv, Meant
      <3>4. latest \in 1..Len(sandboxes) /\ sandboxes[latest] \in Boxes
        BY <1>3, <1>4, <3>3
      <3>5. gone \in Boxes /\ gone.visitor = sandboxes[latest].visitor
        BY <3>4 DEF Boxes
      <3> HIDE DEF gone, latest
      <3>6. old \in Seq(Boxes) /\ Len(old) = Len(sandboxes)
            /\ \A i \in 1..Len(sandboxes) : old[i] = IF i = latest THEN gone ELSE sandboxes[i]
        BY <1>3, <3>4, <3>5, Replaced
      <3>7. \A i \in 1..Len(sandboxes) : old[i].visitor = sandboxes[i].visitor
        BY <3>5, <3>6
      <3> HIDE DEF old
      <3> QED BY <1>6, <3>1, <3>6, <3>7
    <2> QED BY <2>1, <2>2
  <1> QED BY <1>7, <1>8

\* What answers does to a request, and to nothing else.
LEMMA Answered ==
  ASSUME EdgeInv, NEW t \in Tabs, NEW status, NEW box, wire[t].stage = "sent", Answer(t, status, box)
  PROVE  /\ DOMAIN wire' = Tabs /\ \A u \in Tabs \ {t} : wire'[u] = wire[u]
         /\ wire[t] \in Asked
         /\ wire'[t] = [stage |-> "answered", verb |-> wire[t].verb, cookie |-> wire[t].cookie,
                        sandbox |-> wire[t].sandbox, flaw |-> wire[t].flaw,
                        answer |-> [status |-> status, cookie |-> Fresh(wire[t]), sandbox |-> box]]
         /\ UNCHANGED <<jar, told, known>>
  <1>1. wire[t] \in Asked /\ DOMAIN wire = Tabs
    BY DEF EdgeInv, Typed, Idle
  <1>2. wire' = [wire EXCEPT ![t].stage = "answered",
                             ![t].answer = [status |-> status, cookie |-> Fresh(wire[t]), sandbox |-> box]]
    BY DEF Answer
  <1> DEFINE a == [status |-> status, cookie |-> Fresh(wire[t]), sandbox |-> box]
  <1>3. wire'[t] = [wire[t] EXCEPT !.stage = "answered", !.answer = a]
    BY <1>1, <1>2
  <1> HIDE DEF a
  <1>4. wire'[t] = [stage |-> "answered", verb |-> wire[t].verb, cookie |-> wire[t].cookie,
                    sandbox |-> wire[t].sandbox, flaw |-> wire[t].flaw, answer |-> a]
    BY <1>1, <1>3 DEF Asked
  <1> QED BY <1>1, <1>2, <1>4 DEF Answer, a

-----------------------------------------------------------------------------
(* Every step keeps the invariant.                                         *)

\* What a request may say does not shrink.
LEMMA AskedWidens ==
  ASSUME issued \in Nat, issued' \in Nat, issued <= issued',
         Len(sandboxes) \in Nat, Len(sandboxes') \in Nat, Len(sandboxes) <= Len(sandboxes')
  PROVE  Asked \subseteq Asked' /\ Answers \subseteq Answers'
  <1>1. 0..issued \subseteq 0..issued' /\ 0..Len(sandboxes) \subseteq 0..Len(sandboxes')
    OBVIOUS
  <1>2. Answers \subseteq Answers'
    BY <1>1 DEF Answers
  <1> QED BY <1>1, <1>2 DEF Asked

\* A handler's answer.
LEMMA HandledInv ==
  ASSUME EdgeAssumption, EdgeInv, NEW t \in Tabs, NEW status, NEW box, Handles(t, status, box)
  PROVE  EdgeInv'
  <1> DEFINE r == wire[t]
             a == [status |-> status, cookie |-> Fresh(r), sandbox |-> box]
  <1>1. /\ DOMAIN wire' = Tabs /\ \A u \in Tabs \ {t} : wire'[u] = wire[u]
        /\ r \in Asked /\ r # Idle
        /\ wire'[t] = [stage |-> "answered", verb |-> r.verb, cookie |-> r.cookie,
                       sandbox |-> r.sandbox, flaw |-> r.flaw, answer |-> a]
        /\ UNCHANGED <<jar, told, known>>
    BY Answered DEF Handles, Idle
  <1>2. /\ issued \in Nat /\ jar \in 0..issued /\ known \subseteq Tabs
        /\ sandboxes \in Seq(Boxes) /\ Len(sandboxes) \in Nat
        /\ told \in [Tabs -> 0..Len(sandboxes)]
        /\ \A u \in Tabs : wire[u] = Idle \/ wire[u] \in Asked
    BY DEF EdgeInv, Typed
  <1>3. /\ r.verb \in Verbs /\ r.cookie \in 0..issued /\ r.sandbox \in 0..Len(sandboxes)
        /\ r.flaw \in Flaws
    BY <1>1 DEF Asked
  <1>4. issued' = IF Issues(r) THEN issued + 1 ELSE issued
    BY DEF Handles, Answer
  <1>5. issued' \in Nat /\ issued <= issued' /\ issued' <= MaxCookies /\ MaxCookies \in Nat
        /\ Fresh(r) \in 0..issued'
    BY <1>2, <1>4 DEF Handles, EdgeAssumption, Fresh
  <1>6. Grows /\ Len(sandboxes') \in Nat
    BY DEF Handles, Grows
  <1>7. Asked \subseteq Asked'
    BY <1>2, <1>5, <1>6, AskedWidens DEF Grows
  <1>8. a \in Answers' /\ a.status = status /\ a.cookie = Fresh(r) /\ a.sandbox = box
    BY <1>5 DEF Handles, Answers
  <1> HIDE DEF a
  <1>9. wire'[t] \in Asked'
    BY <1>1, <1>2, <1>3, <1>5, <1>6, <1>8 DEF Asked, Grows
  <1>10. Typed'
    <2>1. told' \in [Tabs -> 0..Len(sandboxes')]
      BY <1>1, <1>2, <1>6 DEF Grows
    <2>2. \A u \in Tabs : wire'[u] = Idle \/ wire'[u] \in Asked'
      BY <1>1, <1>2, <1>7, <1>9
    <2>3. issued' \in 0..MaxCookies /\ jar' \in 0..issued' /\ known' \subseteq Tabs
          /\ funded' \subseteq 1..issued' /\ sandboxes' \in Seq(Boxes')
      BY <1>1, <1>2, <1>5, <1>6 DEF Grows, Handles
    <2> QED BY <1>1, <2>1, <2>2, <2>3 DEF Typed, Idle
  <1>11. /\ wire'[t].stage = "answered" /\ wire'[t].verb = r.verb /\ wire'[t].cookie = r.cookie
         /\ wire'[t].sandbox = r.sandbox /\ wire'[t].answer = a
    BY <1>1
  <1> HIDE DEF r
  <1>12. ASSUME NEW u \in Tabs PROVE Meant(u)' /\ Recognised(u)'
    <2>1. Meant(u) /\ Recognised(u)
      BY DEF EdgeInv
    <2>2. CASE u # t
      <3>1. wire'[u] = wire[u] /\ jar' = jar /\ told' = told
        BY <1>1, <2>2
      <3> QED BY <2>1, <3>1 DEF Meant, Recognised, Idle
    <2>3. CASE u = t
      <3>1. Meant(u)'
        BY <1>1, <1>11, <2>1, <2>3 DEF Meant, r, Idle
      <3>2. Recognised(u)'
        <4>1. /\ r.cookie # Nobody => jar # Nobody
              /\ r.verb = "faucet" => r.cookie # Nobody
          BY <1>1, <2>1, <2>3 DEF Recognised, r
        <4>2. status = 200 /\ r.verb \in Reads => Fresh(r) # Nobody \/ jar # Nobody
          BY <1>2, <4>1 DEF Handles, Fresh, r
        <4>3. Fresh(r) # Nobody => r.cookie = Nobody
          BY DEF Fresh, Issues
        <4> QED BY <1>1, <1>8, <1>11, <2>3, <4>1, <4>2, <4>3 DEF Recognised
      <3> QED BY <3>1, <3>2
    <2> QED BY <2>2, <2>3
  <1>13. ASSUME OneTab PROVE \A u \in Tabs : Belongs(u)'
    <2>1. \A u \in Tabs : u = t
      BY <1>13 DEF OneTab
    <2>2. Belongs(t)
      BY <1>13 DEF EdgeInv
    <2>3. r.cookie = jar
      BY <1>1, <2>2 DEF Belongs, r
    <2>4. told'[t] # Nobody => sandboxes'[told'[t]].visitor = jar'
      BY <1>1, <1>2, <1>6, <2>2 DEF Belongs, Grows
    <2>5. a.cookie # Nobody => jar' = Nobody
      BY <1>1, <1>8, <2>3 DEF Fresh, Issues
    <2>6. a.sandbox # Nobody =>
            sandboxes'[a.sandbox].visitor = IF a.cookie # Nobody THEN a.cookie ELSE jar'
      <3>1. Visitor(r) = IF Fresh(r) # Nobody THEN Fresh(r) ELSE jar
        BY <1>2, <2>3 DEF Visitor, Fresh
      <3>2. box # Nobody => sandboxes'[box].visitor = Visitor(r)
        BY DEF Handles, r
      <3> QED BY <1>1, <1>8, <3>1, <3>2
    <2>7. Belongs(t)'
      BY <1>1, <1>11, <2>3, <2>4, <2>5, <2>6 DEF Belongs
    <2> QED BY <2>1, <2>7
  <1> QED BY <1>1, <1>10, <1>12, <1>13 DEF EdgeInv, OneTab

\* A request sent.
LEMMA SendInv ==
  ASSUME EdgeAssumption, EdgeInv, NEW t \in Tabs, NEW verb, NEW flaw \in Flaws, Send(t, verb, flaw)
  PROVE  EdgeInv'
  <1> DEFINE r == [stage |-> "sent", verb |-> verb, cookie |-> jar, sandbox |-> told[t],
                   flaw |-> flaw, answer |-> NoAnswer]
  <1>1. /\ wire[t] = Idle /\ verb \in Offers(t) /\ wire' = [wire EXCEPT ![t] = r]
        /\ UNCHANGED <<jar, issued, told, known, sandboxes, funded>>
    BY DEF Send, Request
  <1>2. /\ Typed /\ jar \in 0..issued /\ told[t] \in 0..Len(sandboxes) /\ DOMAIN wire = Tabs
        /\ issued \in Nat /\ Len(sandboxes) \in Nat
    BY DEF EdgeInv, Typed
  <1>3. /\ verb \in Verbs
        /\ verb \in {"read", "start", "reset", "call"} <=> PageOf[t] # "devnet"
        /\ verb \in {"reset", "call"} => told[t] # Nobody
        /\ verb = "faucet" => t \in known
    BY <1>1 DEF Offers, Verbs
  <1>4. /\ r.stage = "sent" /\ r.verb = verb /\ r.cookie = jar /\ r.sandbox = told[t]
        /\ r \in Asked /\ r # Idle
    BY <1>2, <1>3 DEF Asked, Answers, NoAnswer, Idle
  <1>5. /\ DOMAIN wire' = Tabs /\ wire'[t] = r /\ \A u \in Tabs \ {t} : wire'[u] = wire[u]
    BY <1>1, <1>2
  <1> HIDE DEF r
  <1>6. Typed'
    <2>1. Asked' = Asked /\ Boxes' = Boxes
      BY <1>1 DEF Asked, Answers, Boxes
    <2>2. \A u \in Tabs : wire'[u] = Idle \/ wire'[u] \in Asked'
      BY <1>2, <1>4, <1>5, <2>1 DEF Typed
    <2> QED BY <1>1, <1>2, <1>5, <2>1, <2>2 DEF Typed, Idle
  <1>7. ASSUME NEW u \in Tabs PROVE Meant(u)' /\ Recognised(u)'
    <2>1. Meant(u) /\ Recognised(u) /\ (known # {} => jar # Nobody)
      BY DEF EdgeInv
    <2>2. CASE u # t
      BY <1>1, <1>5, <2>1, <2>2 DEF Meant, Recognised, Idle
    <2>3. CASE u = t
      BY <1>1, <1>3, <1>4, <1>5, <2>1, <2>3 DEF Meant, Recognised, Idle
    <2> QED BY <2>2, <2>3
  <1>8. ASSUME OneTab, NEW u \in Tabs PROVE Belongs(u)'
    <2>1. u = t /\ Belongs(t)
      BY <1>8 DEF OneTab, EdgeInv
    <2> QED BY <1>1, <1>4, <1>5, <2>1 DEF Belongs
  <1> QED BY <1>1, <1>6, <1>7, <1>8 DEF EdgeInv, OneTab

\* A request that is over, with or without its answer heard.
LEMMA OverInv ==
  ASSUME EdgeAssumption, EdgeInv, NEW t \in Tabs, Deliver(t) \/ Lose(t)
  PROVE  EdgeInv'
  <1> DEFINE r == wire[t]
             a == r.answer
  <1>1. /\ r # Idle /\ wire' = [wire EXCEPT ![t] = Idle]
        /\ UNCHANGED <<issued, sandboxes, funded>>
    BY DEF Deliver, Lose, Idle
  <1>2. /\ Typed /\ issued \in Nat /\ Len(sandboxes) \in Nat /\ DOMAIN wire = Tabs
        /\ jar \in 0..issued /\ told \in [Tabs -> 0..Len(sandboxes)] /\ known \subseteq Tabs
        /\ r \in Asked /\ a \in Answers
    BY <1>1 DEF EdgeInv, Typed, Asked
  <1>3. DOMAIN wire' = Tabs /\ wire'[t] = Idle /\ \A u \in Tabs \ {t} : wire'[u] = wire[u]
    BY <1>1, <1>2
  <1>4. \/ UNCHANGED <<jar, told, known>>
        \/ /\ r.stage = "answered"
           /\ jar' = IF a.cookie # Nobody THEN a.cookie ELSE jar
           /\ told' \in {told, [told EXCEPT ![t] = a.sandbox]}
           /\ known' = IF a.status = 200 /\ r.verb \in Reads THEN known \union {t} ELSE known
    BY DEF Deliver, Lose, Reads
  <1>5. a.cookie \in 0..issued /\ a.sandbox \in 0..Len(sandboxes)
    BY <1>2 DEF Answers
  <1>6. /\ jar' \in 0..issued /\ told' \in [Tabs -> 0..Len(sandboxes)] /\ known' \subseteq Tabs
        /\ jar # Nobody => jar' # Nobody
        /\ \A u \in Tabs \ {t} : told'[u] = told[u]
    BY <1>2, <1>4, <1>5
  <1>7. Typed'
    <2>1. Asked' = Asked /\ Boxes' = Boxes
      BY <1>1 DEF Asked, Answers, Boxes
    <2>2. \A u \in Tabs : wire'[u] = Idle \/ wire'[u] \in Asked'
      BY <1>2, <1>3, <2>1 DEF Typed
    <2> QED BY <1>1, <1>2, <1>3, <1>6, <2>1, <2>2 DEF Typed, Idle
  <1>8. ASSUME NEW u \in Tabs PROVE Meant(u)' /\ Recognised(u)'
    <2>1. Meant(u) /\ Recognised(u)
      BY DEF EdgeInv
    <2>2. CASE u # t
      BY <1>3, <1>6, <2>1, <2>2 DEF Meant, Recognised, Idle
    <2>3. CASE u = t
      BY <1>3, <2>3 DEF Meant, Recognised, Idle
    <2> QED BY <2>2, <2>3
  <1>9. known' # {} => jar' # Nobody
    <2>1. /\ known # {} => jar # Nobody
          /\ r.stage = "answered" /\ a.status = 200 /\ r.verb \in Reads
               => a.cookie # Nobody \/ jar # Nobody
      BY <1>1 DEF EdgeInv, Recognised
    <2> QED BY <1>4, <1>6, <2>1
  <1>10. ASSUME OneTab, NEW u \in Tabs PROVE Belongs(u)'
    <2>1. u = t /\ Belongs(t)
      BY <1>10 DEF OneTab, EdgeInv
    <2>2. told'[t] # Nobody => sandboxes'[told'[t]].visitor = jar'
      <3>1. CASE UNCHANGED <<jar, told, known>>
        BY <1>1, <2>1, <3>1 DEF Belongs
      <3>2. CASE r.stage = "answered" /\ jar' = (IF a.cookie # Nobody THEN a.cookie ELSE jar)
        <4>1. /\ a.cookie # Nobody => jar = Nobody
              /\ a.sandbox # Nobody => sandboxes[a.sandbox].visitor = jar'
              /\ told[t] # Nobody => sandboxes[told[t]].visitor = jar
          BY <1>1, <2>1, <3>2 DEF Belongs
        <4>2. told[t] # Nobody => sandboxes[told[t]].visitor # Nobody
          <5>1. told[t] # Nobody => sandboxes[told[t]] \in Boxes
            BY <1>2 DEF Typed
          <5> QED BY <1>2, <5>1 DEF Boxes
        <4>3. told'[t] = told[t] \/ told'[t] = a.sandbox
          BY <1>2, <1>4
        <4> QED BY <1>1, <3>2, <4>1, <4>2, <4>3
      <3> QED BY <1>4, <3>1, <3>2
    <2> QED BY <1>3, <2>1, <2>2 DEF Belongs, Idle
  <1> QED BY <1>7, <1>8, <1>9, <1>10 DEF EdgeInv, OneTab

\* A sandbox's end changes nobody's visitor.
LEMMA ExpireInv ==
  ASSUME EdgeInv, NEW i, Expire(i)
  PROVE  EdgeInv'
  <1> DEFINE gone == [sandboxes[i] EXCEPT !.live = FALSE]
  <1>1. /\ i \in 1..Len(sandboxes) /\ sandboxes' = [sandboxes EXCEPT ![i] = gone]
        /\ UNCHANGED <<jar, issued, wire, told, known, funded>>
    BY DEF Expire
  <1>2. Typed /\ sandboxes \in Seq(Boxes) /\ Len(sandboxes) \in Nat /\ sandboxes[i] \in Boxes
        /\ told \in [Tabs -> 0..Len(sandboxes)]
    BY <1>1 DEF EdgeInv, Typed
  <1>3. gone \in Boxes /\ gone.visitor = sandboxes[i].visitor
    BY <1>2 DEF Boxes
  <1> HIDE DEF gone
  <1>4. /\ sandboxes' \in Seq(Boxes) /\ Len(sandboxes') = Len(sandboxes)
        /\ \A j \in 1..Len(sandboxes) : sandboxes'[j].visitor = sandboxes[j].visitor
    BY <1>1, <1>2, <1>3, Replaced
  <1>5. Asked' = Asked /\ Boxes' = Boxes
    BY <1>1, <1>4 DEF Asked, Answers, Boxes
  <1>6. Typed'
    BY <1>1, <1>2, <1>4, <1>5 DEF Typed, Idle
  <1>7. ASSUME NEW u \in Tabs PROVE Meant(u)' /\ Recognised(u)'
    BY <1>1 DEF EdgeInv, Meant, Recognised, Idle
  <1>8. ASSUME OneTab, NEW u \in Tabs PROVE Belongs(u)'
    <2>1. Belongs(u) /\ (wire[u] = Idle \/ wire[u] \in Asked)
      BY <1>2, <1>8 DEF EdgeInv, Typed
    <2>2. told'[u] # Nobody => sandboxes'[told'[u]].visitor = jar'
      BY <1>1, <1>2, <1>4, <2>1 DEF Belongs
    <2>3. ASSUME wire[u] # Idle, wire[u].answer.sandbox # Nobody
          PROVE  sandboxes'[wire[u].answer.sandbox].visitor = sandboxes[wire[u].answer.sandbox].visitor
      <3>1. wire[u].answer \in Answers
        BY <2>1, <2>3 DEF Asked
      <3>2. wire[u].answer.sandbox \in 1..Len(sandboxes)
        BY <1>2, <2>3, <3>1 DEF Answers
      <3> QED BY <1>4, <3>2
    <2> QED BY <1>1, <2>1, <2>2, <2>3 DEF Belongs, Idle
  <1> QED BY <1>1, <1>6, <1>7, <1>8 DEF EdgeInv, OneTab

\* Which handler answered is told by Handles alone.
LEMMA HandlerActions ==
  ASSUME EdgeAssumption, EdgeInv, NEW t \in Tabs,
         \/ Refuse(t) \/ Unavailable(t) \/ Current(t) \/ Start(t) \/ Reset(t) \/ Call(t)
         \/ Manifest(t) \/ Faucet(t)
  PROVE  \E status, box : Handles(t, status, box)
  BY HandlesPlainly, HandlesOwn, HandlesNew

\* The initial state.
LEMMA EdgeInit == EdgeAssumption /\ Init => EdgeInv
  <1> SUFFICES ASSUME EdgeAssumption, Init PROVE EdgeInv
    OBVIOUS
  <1>1. sandboxes = <<>> /\ Len(sandboxes) = 0 /\ sandboxes \in Seq(Boxes)
    BY DEF Init
  <1>2. Typed
    BY <1>1 DEF Init, Typed, EdgeAssumption
  <1>3. \A t \in Tabs : Meant(t) /\ Recognised(t) /\ Belongs(t)
    BY DEF Init, Meant, Recognised, Belongs
  <1> QED BY <1>2, <1>3 DEF EdgeInv, Init

\* A step.
LEMMA EdgeStep == EdgeAssumption /\ EdgeInv /\ [Next]_vars => EdgeInv'
  <1> SUFFICES ASSUME EdgeAssumption, EdgeInv, [Next]_vars PROVE EdgeInv'
    OBVIOUS
  <1>1. CASE UNCHANGED vars
    BY <1>1 DEF vars, EdgeInv, Typed, Meant, Recognised, Belongs, OneTab, Asked, Answers, Boxes, Idle
  <1>2. ASSUME NEW t \in Tabs,
               \/ Refuse(t) \/ Unavailable(t) \/ Current(t) \/ Start(t) \/ Reset(t) \/ Call(t)
               \/ Manifest(t) \/ Faucet(t)
        PROVE  EdgeInv'
    BY <1>2, HandlerActions, HandledInv
  <1> QED BY <1>1, <1>2, SendInv, OverInv, ExpireInv DEF Next

-----------------------------------------------------------------------------
(* What the invariant says of states and steps.                            *)

\* The lists and the wire are well formed.
LEMMA EdgeTypes == EdgeInv => TypeOK
  BY DEF EdgeInv, Typed, TypeOK, Asked, Boxes

\* A lone tab is the visitor of what it was told of.
LEMMA EdgeReconnects == EdgeInv /\ OneTab => ReloadReconnects
  BY DEF EdgeInv, Belongs, ReloadReconnects

\* Who makes a tab's request an answered one, and what it is then.
LEMMA OnlyHandlers ==
  ASSUME EdgeAssumption, EdgeInv, [Next]_vars, NEW t \in Tabs,
         wire[t].stage = "sent", wire'[t].stage = "answered"
  PROVE  \E status, box :
           /\ Handles(t, status, box)
           /\ wire'[t].answer.status = status /\ wire'[t].answer.sandbox = box
  <1>1. CASE UNCHANGED vars
    BY <1>1 DEF vars
  <1>2. ASSUME NEW u \in Tabs,
               \/ Refuse(u) \/ Unavailable(u) \/ Current(u) \/ Start(u) \/ Reset(u) \/ Call(u)
               \/ Manifest(u) \/ Faucet(u)
        PROVE  \E status, box :
                 /\ Handles(t, status, box)
                 /\ wire'[t].answer.status = status /\ wire'[t].answer.sandbox = box
    <2>1. PICK status, box : Handles(u, status, box)
      BY <1>2, HandlerActions
    <2>2. /\ \A w \in Tabs \ {u} : wire'[w] = wire[w]
          /\ wire'[u] = [stage |-> "answered", verb |-> wire[u].verb, cookie |-> wire[u].cookie,
                         sandbox |-> wire[u].sandbox, flaw |-> wire[u].flaw,
                         answer |-> [status |-> status, cookie |-> Fresh(wire[u]), sandbox |-> box]]
      <3>1. wire[u].stage = "sent" /\ Answer(u, status, box)
        BY <2>1 DEF Handles
      <3> QED BY <3>1, Answered
    <2>3. t = u
      BY <2>2
    <2>4. wire'[t].answer.status = status /\ wire'[t].answer.sandbox = box
      BY <2>2, <2>3
    <2> QED BY <2>1, <2>3, <2>4
  <1>3. ASSUME NEW u \in Tabs, NEW verb, NEW flaw \in Flaws, Send(u, verb, flaw)
        PROVE  FALSE
    BY <1>3 DEF Send, Request, Idle, EdgeInv, Typed
  <1>4. ASSUME NEW u \in Tabs, Deliver(u) \/ Lose(u) PROVE FALSE
    BY <1>4 DEF Deliver, Lose, Idle, EdgeInv, Typed
  <1>5. ASSUME NEW i, Expire(i) PROVE FALSE
    BY <1>5 DEF Expire
  <1> QED BY <1>1, <1>2, <1>3, <1>4, <1>5 DEF Next

\* A refused request changes nothing.
LEMMA EdgeRefusals == EdgeAssumption /\ EdgeInv /\ [Next]_vars => FlawChangesNothing
  <1> SUFFICES ASSUME EdgeAssumption, EdgeInv, [Next]_vars, NEW t \in Tabs,
                      wire[t].stage = "sent", wire'[t].stage = "answered",
                      wire[t].flaw \in Early(wire[t].verb) \union Late(wire[t].verb)
               PROVE  UNCHANGED <<sandboxes, funded>> /\ wire'[t].answer.status >= 400
    BY DEF FlawChangesNothing
  <1> QED BY OnlyHandlers DEF Handles, Flawed

\* The faucet knows whoever asks it.
LEMMA EdgeFaucet == EdgeAssumption /\ EdgeInv /\ [Next]_vars => FaucetKnowsVisitor
  <1> SUFFICES ASSUME EdgeAssumption, EdgeInv, [Next]_vars, NEW t \in Tabs,
                      wire[t].stage = "sent", wire'[t].stage = "answered"
               PROVE  wire'[t].answer.status # 401
    BY DEF FaucetKnowsVisitor
  <1>1. wire[t].verb = "faucet" => wire[t].cookie # Nobody
    BY DEF EdgeInv, Recognised, Idle
  <1> QED BY <1>1, OnlyHandlers DEF Handles

\* A call is answered by the sandbox its page was told of.
LEMMA EdgeCalls == EdgeAssumption /\ EdgeInv /\ [Next]_vars => NeverReplacement
  <1> SUFFICES ASSUME EdgeAssumption, EdgeInv, [Next]_vars, NEW t \in Tabs,
                      wire[t].stage = "sent", wire[t].verb = "call",
                      wire'[t].stage = "answered", wire'[t].answer.status = 200
               PROVE  wire'[t].answer.sandbox = told[t] /\ sandboxes[told[t]].live
    BY DEF NeverReplacement
  <1>1. wire[t].sandbox = told[t]
    BY DEF EdgeInv, Meant, Idle
  <1> QED BY <1>1, OnlyHandlers DEF Handles

\* An identity is replaced by the answer to a first request only.
LEMMA EdgeReplaces == EdgeAssumption /\ EdgeInv /\ [Next]_vars => OnlyFirstRequestsReplace
  <1> SUFFICES ASSUME EdgeAssumption, EdgeInv, [Next]_vars, jar # Nobody, jar' # jar
               PROVE  \E t \in Tabs : /\ wire[t].stage = "answered" /\ wire[t].cookie = Nobody
                                     /\ wire[t].answer.cookie = jar'
    BY DEF OnlyFirstRequestsReplace
  <1>1. PICK t \in Tabs : Deliver(t)
    <2>1. ~ UNCHANGED vars
      BY DEF vars
    <2>2. ASSUME NEW u \in Tabs, NEW verb, NEW flaw, Send(u, verb, flaw) PROVE jar' = jar
      BY <2>2 DEF Send
    <2>3. \A u \in Tabs : Lose(u) => jar' = jar
      BY DEF Lose
    <2>4. \A i : Expire(i) => jar' = jar
      BY DEF Expire
    <2>5. ASSUME NEW u \in Tabs,
                 \/ Refuse(u) \/ Unavailable(u) \/ Current(u) \/ Start(u) \/ Reset(u) \/ Call(u)
                 \/ Manifest(u) \/ Faucet(u)
          PROVE  jar' = jar
      BY <2>5, HandlerActions DEF Handles, Answer
    <2> QED BY <2>1, <2>2, <2>3, <2>4, <2>5 DEF Next
  <1>2. wire[t].stage = "answered" /\ wire[t].answer.cookie # Nobody /\ jar' = wire[t].answer.cookie
    BY <1>1 DEF Deliver
  <1>3. wire[t].cookie = Nobody
    BY <1>2 DEF EdgeInv, Recognised, Idle
  <1> QED BY <1>2, <1>3

\* The request handlers and the browser, for any number of tabs, pages, cookies
\* and sandboxes: what is refused changes nothing, what is reached is what the
\* page was told of, the faucet never asks an app with a manifest who it is, and
\* only the answer to a first request replaces the browser's identity.
THEOREM EdgeIsTrue ==
  ASSUME EdgeAssumption
  PROVE  Spec => []TypeOK /\ [][FlawChangesNothing /\ NeverReplacement /\ FaucetKnowsVisitor
                                /\ OnlyFirstRequestsReplace]_vars
  <1>1. Init => EdgeInv
    BY EdgeInit
  <1>2. EdgeInv /\ [Next]_vars => EdgeInv'
    BY EdgeStep
  <1>3. EdgeInv /\ [Next]_vars
          => [FlawChangesNothing /\ NeverReplacement /\ FaucetKnowsVisitor
                /\ OnlyFirstRequestsReplace]_vars
    BY EdgeRefusals, EdgeCalls, EdgeFaucet, EdgeReplaces
  <1> QED BY <1>1, <1>2, <1>3, EdgeTypes, PTL DEF Spec

\* readVisitorCookie and issueVisitorCookie, for a browser with one tab: no
\* answer, however late, takes its live sandbox from it.
THEOREM LoneTabIsKept ==
  ASSUME EdgeAssumption, OneTab
  PROVE  Spec => []ReloadReconnects
  <1>1. Init => EdgeInv
    BY EdgeInit
  <1>2. EdgeInv /\ [Next]_vars => EdgeInv'
    BY EdgeStep
  <1>3. EdgeInv => ReloadReconnects
    BY EdgeReconnects
  <1> QED BY <1>1, <1>2, <1>3, PTL DEF Spec

=============================================================================
