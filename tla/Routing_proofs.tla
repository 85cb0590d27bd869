---------------------------- MODULE Routing_proofs ----------------------------
(***************************************************************************)
(* Proofs about Routing, for every set of agents, chats, users and events, *)
(* every set-up of the installation and every number of restarts.          *)
(***************************************************************************)
EXTENDS Routing, FiniteSetTheorems, SequenceTheorems,
        WellFoundedInduction, TLAPS

-----------------------------------------------------------------------------
(* The inductive invariant.                                                *)

WiringOf(e, a) == wiring[ChatOf[e]][a]

Wired(e, a) == a \in agents /\ WiringOf(e, a) # Unwired

\* Agent groups are only ever added, one at a time.
AgentsFit == FirstAgents \subseteq agents /\ IsFiniteSet(agents)

\* What a call has read of its chat still holds of the agents it has to visit,
\* unless ncl has changed it since.
CallsKnow ==
  \A c \in calls : c.stage \in {"looked", "looping"} =>
    /\ c.policy = "public" =>
         policy[ChatOf[c.event]] = "public" \/ c.event \in outdated
    /\ \A a \in c.todo :
         /\ a \in agents /\ c.wires[a] # Unwired
         /\ c.wires[a] = WiringOf(c.event, a) \/ c.event \in outdated \cap excused

\* No two sessions have one agent, chat and thread.
NoTwins ==
  \A i, j \in 1 .. Len(sessions) : sessions[i] = sessions[j] => i = j

\* A row lies with its agent, in the session the mode it was routed by names.
RowsFit ==
  \A r \in rows :
    /\ sessions[r.session].agent = r.agent
    /\ r.mode # "agent-shared" =>
         sessions[r.session] = [agent |-> r.agent, chat |-> ChatOf[r.event],
                                thread |-> SessionThread(r.mode, r.event)]

\* Event and agent are the key of a row of a session.
RowsKeyed ==
  \A r1, r2 \in rows :
    r1.event = r2.event /\ r1.agent = r2.agent /\ r1.session = r2.session => r1 = r2

\* Agent a would take event e, or keep it, if it came from a member.
Welcome(e, a) ==
  Wired(e, a) /\ (Engages(WiringOf(e, a), a, e) \/ WiringOf(e, a).keep)

\* Who asks the approver about a sender is welcome but for that sender, unless
\* the agent has been rewired since.
AsksFit ==
  /\ \A k \in asks : k.agent # NoAgent => Welcome(k.event, k.agent) \/ k.event \in excused
  /\ \A r \in senderCard : /\ Welcome(r.event, r.agent) \/ r.event \in excused
                           /\ r.sender = SenderOf[r.event]
  /\ \A c \in Chat : channelCard[c] # NoRow => ChatOf[channelCard[c].event] = c

\* Only existing agents are offered to the approver.
Offered(o) == o[1] = "connect" => o[2] \in agents

OffersKnown ==
  /\ \A k \in asks : \A i \in DOMAIN k.offers : Offered(k.offers[i])
  /\ \A c \in Chat : channelCard[c] # NoRow =>
       \A i \in DOMAIN channelCard[c].offers : Offered(channelCard[c].offers[i])
  /\ \A t \in clicks : Offered(t.value)

Settled(e, a) == Reached(e, a) \/ e \in Refused \cup excused

\* A replay that nothing has cut is for an agent that would take the message of
\* a member; its sender is one; and it has that agent to visit, or has done so.
ReplaysFit ==
  \A c \in calls : c.for # NoAgent =>
    \/ c.event \in excused
    \/ /\ Welcome(c.event, c.for) /\ CanAccess(SenderOf[c.event], c.for)
       /\ c.stage \in {"looked", "looping"} =>
            c.for \in c.todo \/ Settled(c.event, c.for)

Inv == /\ TypeOK /\ AgentsFit /\ CallsKnow /\ NoTwins /\ RowsFit /\ RowsKeyed
       /\ AsksFit /\ OffersKnown /\ ReplaysFit /\ ApprovedArrives

-----------------------------------------------------------------------------
(* Numbers and sets.                                                       *)

\* A set of numbers up to n has a greatest one.
LEMMA Greatest ==
  ASSUME NEW n \in Nat, NEW T \in SUBSET (1 .. n), T # {}
  PROVE  \E x \in T : \A y \in T : y <= x
<1> DEFINE R == OpToRel(<, Nat)
           M == {n - i : i \in T}
<1>1. IsWellFoundedOn(R, Nat)
  BY NatLessThanWellFounded
<1>2. \A x, y \in Nat : y < x => <<y, x>> \in R
  BY DEF OpToRel
<1>3. M # {} /\ M \in SUBSET Nat
  <2>1. PICK i \in T : TRUE
    OBVIOUS
  <2>2. n - i \in M
    OBVIOUS
  <2>3. \A j \in T : n - j \in Nat
    OBVIOUS
  <2> QED
    BY <2>2, <2>3
<1> HIDE DEF R
<1>4. PICK d \in M : \A e \in M : ~(<<e, d>> \in R)
  BY <1>1, <1>3, WFMin
<1>5. \A e \in M : ~(e < d)
  BY <1>2, <1>3, <1>4
<1>6. PICK x \in T : d = n - x
  OBVIOUS
<1>7. \A y \in T : ~(n - y < n - x)
  BY <1>5, <1>6
<1>8. \A y \in T : y <= x
  BY <1>7
<1> QED
  BY <1>8

\* In a finite set of numbers there is one with any number of smaller ones.
LEMMA Nth ==
  ASSUME NEW S \in SUBSET Nat, IsFiniteSet(S), NEW i \in 1 .. Cardinality(S)
  PROVE  \E a \in S : Cardinality({b \in S : b < a}) = i - 1
<1> DEFINE Below(a) == {b \in S : b < a}
           n == Cardinality(S)
           T == 0 .. n - 1
           f == [a \in S |-> Cardinality(Below(a))]
<1>1. n \in Nat
  BY FS_CardinalityType
<1>2. ASSUME NEW a \in S
      PROVE  IsFiniteSet(Below(a)) /\ Cardinality(Below(a)) \in T
  <2>1. IsFiniteSet(S \ {a}) /\ Cardinality(S \ {a}) = n - 1
    BY FS_RemoveElement
  <2>2. Below(a) \in SUBSET (S \ {a})
    OBVIOUS
  <2>3. IsFiniteSet(Below(a)) /\ Cardinality(Below(a)) <= n - 1
    BY <2>1, <2>2, FS_Subset
  <2>4. Cardinality(Below(a)) \in Nat
    BY <2>3, FS_CardinalityType
  <2> QED
    BY <1>1, <2>3, <2>4
<1>3. ASSUME NEW a \in S, NEW c \in S, a < c
      PROVE  Cardinality(Below(a)) # Cardinality(Below(c))
  <2>1. Below(a) \in SUBSET Below(c) /\ a \in Below(c) /\ a \notin Below(a)
    <3>1. a \in Nat /\ c \in Nat /\ \A b \in S : b \in Nat
      OBVIOUS
    <3>2. \A b \in S : b < a => b < c
      BY <1>3, <3>1
    <3>3. ~(a < a)
      BY <3>1
    <3> QED
      BY <1>3, <3>2, <3>3, Zenon
  <2>2. IsFiniteSet(Below(c))
    BY <1>2
  <2> HIDE DEF Below
  <2> QED
    BY <2>1, <2>2, FS_Subset
<1>4. f \in Injection(S, T)
  <2>1. f \in [S -> T]
    BY <1>2
  <2>2. ASSUME NEW a \in S, NEW c \in S, f[a] = f[c] PROVE a = c
    <3>1. ~(a < c) /\ ~(c < a)
      BY <1>3, <2>2
    <3> QED
      BY <3>1
  <2> HIDE DEF f
  <2> QED
    BY <2>1, <2>2 DEF Injection, IsInjective
<1>5. IsFiniteSet(T) /\ Cardinality(T) = n
  <2>1. n # 0 /\ 0 \in Int /\ n - 1 \in Int /\ ~(0 > n - 1) /\ n - 1 - 0 + 1 = n
    BY <1>1
  <2> HIDE DEF n
  <2> QED
    BY <2>1, FS_Interval
<1>6. f \in Surjection(S, T)
  BY <1>4, <1>5, FS_Injection
<1>7. i - 1 \in T
  BY <1>1
<1>8. PICK a \in S : f[a] = i - 1
  BY <1>6, <1>7 DEF Surjection
<1> QED
  BY <1>8

\* The button texts of the cards: only agents of the installation are offered.
LEMMA OffersTyped ==
  ASSUME TypeOK, AgentsFit
  PROVE  /\ AllOffers \in Seq(Offer) /\ \A i \in DOMAIN AllOffers : Offered(AllOffers[i])
         /\ agents # {} => /\ FirstOffers \in Seq(Offer)
                           /\ \A i \in DOMAIN FirstOffers : Offered(FirstOffers[i])
         /\ SenderOffers \in Seq(Offer)
         /\ \A i \in DOMAIN SenderOffers : Offered(SenderOffers[i])
<1>1. /\ agents \in SUBSET Agent /\ agents \in SUBSET Nat /\ IsFiniteSet(agents)
      /\ Cardinality(agents) \in Nat
  BY RoutingAssumption, FS_CardinalityType DEF TypeOK, AgentsFit
<1>2. /\ \A a \in agents : <<"connect", a>> \in Offer /\ Offered(<<"connect", a>>)
      /\ \A o \in {"choose", "new", "reject", "approve", "deny"} :
           <<o, NoAgent>> \in Offer /\ Offered(<<o, NoAgent>>)
  BY <1>1 DEF Offer, Offered
<1>3. AllOffers \in Seq(Offer) /\ \A i \in DOMAIN AllOffers : Offered(AllOffers[i])
  <2> DEFINE n == Cardinality(agents)
             nth(i) == CHOOSE a \in agents : Cardinality({b \in agents : b < a}) = i - 1
             offer(i) == IF i <= n THEN <<"connect", nth(i)>> ELSE <<"reject", NoAgent>>
  <2>1. ASSUME NEW i \in 1 .. n PROVE nth(i) \in agents
    <3>1. \E a \in agents : Cardinality({b \in agents : b < a}) = i - 1
      BY <1>1, Nth
    <3> QED
      BY <3>1
  <2>2. AllOffers = [i \in 1 .. n + 1 |-> offer(i)]
    BY DEF AllOffers
  <2> HIDE DEF nth
  <2>3. \A i \in 1 .. n + 1 : offer(i) \in Offer /\ Offered(offer(i))
    <3> SUFFICES ASSUME NEW i \in 1 .. n + 1
                 PROVE  offer(i) \in Offer /\ Offered(offer(i))
      OBVIOUS
    <3>1. CASE i <= n
      <4>1. nth(i) \in agents
        BY <1>1, <2>1, <3>1
      <4>2. offer(i) = <<"connect", nth(i)>>
        BY <3>1
      <4> QED
        BY <1>2, <4>1, <4>2
    <3>2. CASE ~(i <= n)
      BY <1>2, <3>2
    <3> QED
      BY <3>1, <3>2
  <2> HIDE DEF offer
  <2>4. AllOffers \in [1 .. n + 1 -> Offer]
    BY <2>2, <2>3
  <2>5. \A i \in 1 .. n + 1 : Offered(AllOffers[i])
    BY <2>2, <2>3 DEF Offered
  <2>6. n + 1 \in Nat
    BY <1>1
  <2> HIDE DEF n
  <2> QED
    BY <2>4, <2>5, <2>6
<1>4. ASSUME agents # {}
      PROVE  /\ FirstOffers \in Seq(Offer)
             /\ \A i \in DOMAIN FirstOffers : Offered(FirstOffers[i])
  <2> DEFINE o == IF Cardinality(agents) = 1 THEN <<"connect", CHOOSE a \in agents : TRUE>>
                                             ELSE <<"choose", NoAgent>>
  <2>1. o \in Offer /\ Offered(o)
    BY <1>2, <1>4
  <2> DEFINE rest == <<<<"new", NoAgent>>, <<"reject", NoAgent>>>>
  <2>2. FirstOffers = <<o>> \o rest
    <3>1. CASE Cardinality(agents) = 1
      BY <3>1 DEF FirstOffers
    <3>2. CASE Cardinality(agents) # 1
      BY <3>2 DEF FirstOffers
    <3> QED
      BY <3>1, <3>2
  <2> HIDE DEF o
  <2>3. <<o>> \in Seq(Offer) /\ Len(<<o>>) = 1 /\ <<o>>[1] = o
    BY <2>1
  <2>4. /\ rest \in Seq(Offer) /\ Len(rest) = 2
        /\ \A i \in 1 .. 2 : Offered(rest[i])
    <3>1. rest[1] = <<"new", NoAgent>> /\ rest[2] = <<"reject", NoAgent>>
      OBVIOUS
    <3> QED
      BY <1>2, <3>1
  <2> HIDE DEF rest
  <2>5. /\ FirstOffers \in Seq(Offer) /\ Len(FirstOffers) = 3
        /\ FirstOffers[1] = o /\ FirstOffers[2] = rest[1] /\ FirstOffers[3] = rest[2]
    BY <2>2, <2>3, <2>4, ConcatProperties
  <2>6. \A i \in 1 .. 3 : Offered(FirstOffers[i])
    BY <2>1, <2>4, <2>5
  <2> QED
    BY <2>5, <2>6
<1>5. /\ SenderOffers \in Seq(Offer)
      /\ \A i \in DOMAIN SenderOffers : Offered(SenderOffers[i])
  BY <1>2 DEF SenderOffers
<1> QED
  BY <1>3, <1>4, <1>5

-----------------------------------------------------------------------------
(* What the steps are made of.                                             *)

\* A wiring that exists has a mode.
LEMMA Wirings ==
  /\ Unwired \notin Wiring
  /\ \A e \in Event : /\ ApprovedWiring(e) \in Wiring /\ ApprovedWiring(e).keep
                      /\ ApprovedWiring(e) # Unwired
  /\ LET w == [mode |-> "mention", known |-> FALSE, keep |-> FALSE, session |-> "shared"]
     IN  w \in Wiring /\ w # Unwired
<1>1. TRUE \in BOOLEAN /\ FALSE \in BOOLEAN
  OBVIOUS
<1>2. ASSUME NEW m \in {"mention", "sticky", "pattern", "always"},
             NEW k \in BOOLEAN, NEW p \in BOOLEAN
      PROVE  [mode |-> m, known |-> k, keep |-> p, session |-> "shared"] \in Wiring
  BY DEF Wiring
<1>3. \A w \in Wiring : w # Unwired
  <2>1. \A w \in Wiring : w.mode # "none"
    BY DEF Wiring
  <2>2. Unwired.mode = "none"
    BY DEF Unwired
  <2> QED
    BY <2>1, <2>2
<1>4. ASSUME NEW e \in Event
      PROVE  ApprovedWiring(e) \in Wiring /\ ApprovedWiring(e).keep
  BY <1>1, <1>2 DEF ApprovedWiring
<1> QED
  BY <1>1, <1>2, <1>3, <1>4

\* A call that begins.
LEMMA NewCall ==
  ASSUME NEW e \in Event, NEW a \in Agent \cup {NoAgent}
  PROVE  /\ CallOf(e, a) \in Call
         /\ CallOf(e, a).event = e /\ CallOf(e, a).for = a /\ CallOf(e, a).stage = "called"
<1>1. FALSE \in BOOLEAN /\ {} \in SUBSET Agent /\ "unknown" \in Policy \cup {"unknown"}
  OBVIOUS
<1>2. [b \in Agent |-> Unwired] \in [Agent -> Wiring \cup {Unwired}]
  OBVIOUS
<1> QED
  BY <1>1, <1>2 DEF CallOf, Call

\* One turn of the loop, in its parts.
Allowed(c, a) ==
  Engages(c.wires[a], a, c.event) /\ AccessOk(c, a) /\ ScopeOk(c, a)

Taken(c, a) ==
  Allowed(c, a) \/ (c.wires[a].keep /\ ~Engages(c.wires[a], a, c.event))

Rest(c, a) ==
  [c EXCEPT !.stage = "looping", !.todo = @ \ {a}, !.hits = @ \/ Taken(c, a)]

\* What a call keeps through a turn of the loop.
LEMMA RestCall ==
  ASSUME NEW c \in Call, NEW a
  PROVE  /\ Rest(c, a) \in Call
         /\ Rest(c, a).event = c.event /\ Rest(c, a).for = c.for
         /\ Rest(c, a).stage = "looping" /\ Rest(c, a).policy = c.policy
         /\ Rest(c, a).todo = c.todo \ {a} /\ Rest(c, a).wires = c.wires
<1> DEFINE h == c.hits \/ Taken(c, a)
<1>1. h \in BOOLEAN
  OBVIOUS
<1>2. Rest(c, a) = [c EXCEPT !.stage = "looping", !.todo = @ \ {a}, !.hits = h]
  BY DEF Rest
<1> HIDE DEF h
<1> QED
  BY <1>1, <1>2 DEF Call

\* Where deliverToAgent puts the message: in a session of the agent, and of the
\* chat and thread the wiring names; a session is created only if there is none.
LEMMA Delivered ==
  ASSUME TypeOK, NEW c \in Call, NEW a \in c.todo,
         DeliverTo(c, a, Allowed(c, a), Rest(c, a))
  PROVE  /\ sessions' \in Seq(Session) /\ Len(sessions) <= Len(sessions')
         /\ \A j \in 1 .. Len(sessions) : /\ j \in 1 .. Len(sessions')
                                          /\ sessions'[j] = sessions[j]
         /\ NoTwins => NoTwins'
         /\ \E i \in 1 .. Len(sessions') :
              /\ sessions'[i].agent = a
              /\ c.wires[a].session # "agent-shared" =>
                   sessions'[i] = [agent |-> a, chat |-> ChatOf[c.event],
                                   thread |-> SessionThread(c.wires[a].session, c.event)]
              /\ \/ /\ c.event \in Refused
                    /\ calls' = (calls \ {c}) \cup IF c.event \in Denied THEN {}
                                                  ELSE {Rest(c, a)}
                    /\ UNCHANGED <<rows, excused>>
                 \/ /\ ~\E r \in rows : r.event = c.event /\ r.agent = a /\ r.session = i
                    /\ rows' = rows \cup {[event |-> c.event, agent |-> a, session |-> i,
                                           trigger |-> Allowed(c, a),
                                           mode |-> c.wires[a].session]}
                    /\ calls' = (calls \ {c}) \cup {Rest(c, a)}
                    /\ UNCHANGED excused
                 \/ /\ \E r \in rows : r.event = c.event /\ r.agent = a /\ r.session = i
                    /\ calls' = calls \ {c}
                    /\ excused' = IF c.for # a THEN excused \cup {c.event} ELSE excused
                    /\ UNCHANGED rows
<1> DEFINE e == c.event
           m == c.wires[a].session
           key == [agent |-> a, chat |-> ChatOf[e], thread |-> SessionThread(m, e)]
           reuse == Reusable(m, a, e)
           fresh == Append(sessions, key)
<1>1. e \in Event /\ a \in Agent
  BY DEF Call
<1>2. key \in Session
  <2>1. ChatOf[e] \in Chat /\ SessionThread(m, e) \in Nat
    BY <1>1, RoutingAssumption DEF SessionThread, Thread
  <2> QED
    BY <1>1, <2>1 DEF Session
<1>3. sessions \in Seq(Session) /\ Len(sessions) \in Nat
  BY DEF TypeOK
<1>4. EffectiveMode(m, ChatOf[e]) = "agent-shared" <=> m = "agent-shared"
  BY DEF EffectiveMode
<1>5. /\ reuse \subseteq 1 .. Len(sessions)
      /\ \A i \in reuse : /\ sessions[i].agent = a
                          /\ m # "agent-shared" => sessions[i] = key
  <2>1. CASE m = "agent-shared"
    <3>1. reuse = {i \in DOMAIN sessions :
                     /\ sessions[i].agent = a
                     /\ \A j \in DOMAIN sessions : sessions[j].agent = a => j <= i}
      BY <1>4, <2>1 DEF Reusable
    <3> QED
      BY <1>3, <2>1, <3>1
  <2>2. CASE m # "agent-shared"
    <3>1. reuse = {i \in DOMAIN sessions : sessions[i] = key}
      BY <1>4, <2>2 DEF Reusable, FindSession
    <3> QED
      BY <1>3, <3>1
  <2> QED
    BY <2>1, <2>2
<1>6. reuse = {} => \A j \in 1 .. Len(sessions) : sessions[j] # key
  <2>1. CASE m = "agent-shared"
    <3> DEFINE T == {i \in 1 .. Len(sessions) : sessions[i].agent = a}
    <3>1. reuse = {i \in 1 .. Len(sessions) : /\ sessions[i].agent = a
                                              /\ \A j \in T : j <= i}
      BY <1>3, <1>4, <2>1 DEF Reusable
    <3>2. T # {} => reuse # {}
      <4> SUFFICES ASSUME T # {} PROVE reuse # {}
        OBVIOUS
      <4>1. T \in SUBSET (1 .. Len(sessions))
        OBVIOUS
      <4> HIDE DEF T
      <4>2. PICK x \in T : \A y \in T : y <= x
        BY <1>3, <4>1, Greatest
      <4> QED
        BY <3>1, <4>1, <4>2 DEF T
    <3>3. \A j \in 1 .. Len(sessions) : sessions[j] = key => j \in T
      OBVIOUS
    <3> QED
      BY <3>2, <3>3
  <2>2. CASE m # "agent-shared"
    BY <1>3, <1>4, <2>2 DEF Reusable, FindSession
  <2> QED
    BY <2>1, <2>2
<1>7. /\ fresh \in Seq(Session) /\ Len(fresh) = Len(sessions) + 1
      /\ \A j \in 1 .. Len(sessions) : fresh[j] = sessions[j]
      /\ fresh[Len(sessions) + 1] = key
  BY <1>2, <1>3, AppendProperties
<1>8. sessions' = IF reuse = {} THEN fresh ELSE sessions
  BY DEF DeliverTo
<1>9. PICK i \in IF reuse = {} THEN {Len(fresh)} ELSE reuse :
        \/ /\ e \in Refused
           /\ calls' = (calls \ {c}) \cup IF e \in Denied THEN {} ELSE {Rest(c, a)}
           /\ UNCHANGED <<rows, excused>>
        \/ /\ ~\E r \in rows : r.event = e /\ r.agent = a /\ r.session = i
           /\ rows' = rows \cup {[event |-> e, agent |-> a, session |-> i,
                                  trigger |-> Allowed(c, a), mode |-> m]}
           /\ calls' = (calls \ {c}) \cup {Rest(c, a)}
           /\ UNCHANGED excused
        \/ /\ \E r \in rows : r.event = e /\ r.agent = a /\ r.session = i
           /\ calls' = calls \ {c}
           /\ excused' = IF c.for # a THEN excused \cup {e} ELSE excused
           /\ UNCHANGED rows
  BY DEF DeliverTo
<1>10. key.agent = a
  OBVIOUS
<1> HIDE DEF key, reuse, fresh
<1>11. /\ i \in 1 .. Len(sessions') /\ sessions'[i].agent = a
       /\ m # "agent-shared" => sessions'[i] = key
  <2>1. CASE reuse = {}
    BY <1>3, <1>7, <1>8, <1>9, <1>10, <2>1
  <2>2. CASE reuse # {}
    BY <1>5, <1>8, <1>9, <2>2
  <2> QED
    BY <2>1, <2>2
<1>12. /\ sessions' \in Seq(Session) /\ Len(sessions) <= Len(sessions')
       /\ \A j \in 1 .. Len(sessions) : /\ j \in 1 .. Len(sessions')
                                        /\ sessions'[j] = sessions[j]
  BY <1>3, <1>7, <1>8
<1>13. ASSUME NoTwins PROVE NoTwins'
  <2>1. CASE reuse = {}
    <3> SUFFICES ASSUME NEW j \in 1 .. Len(fresh), NEW k \in 1 .. Len(fresh),
                        fresh[j] = fresh[k]
                 PROVE  j = k
      BY <1>8, <2>1 DEF NoTwins
    <3>1. CASE j \in 1 .. Len(sessions) /\ k \in 1 .. Len(sessions)
      BY <1>7, <1>13, <3>1 DEF NoTwins
    <3>2. CASE j = Len(sessions) + 1 \/ k = Len(sessions) + 1
      BY <1>3, <1>6, <1>7, <2>1, <3>2
    <3> QED
      BY <1>3, <1>7, <3>1, <3>2
  <2>2. CASE reuse # {}
    BY <1>8, <1>13, <2>2 DEF NoTwins
  <2> QED
    BY <2>1, <2>2
<1> QED
  BY <1>9, <1>11, <1>12, <1>13 DEF key

\* The agent a call visits, and what comes of it.
LEMMA Visited ==
  ASSUME TypeOK, NEW c \in calls, Visit(c)
  PROVE  \E a \in c.todo :
           /\ asks' = asks \cup Asked(c, a)
           /\ dropped' \in {dropped, dropped \cup {c.event}}
           /\ \/ /\ Taken(c, a)
                 /\ DeliverTo(c, a, Allowed(c, a), Rest(c, a))
              \/ /\ ~Taken(c, a)
                 /\ calls' = (calls \ {c}) \cup {Rest(c, a)}
                 /\ UNCHANGED <<sessions, rows, excused>>
  BY Zenon DEF Visit, Taken, Allowed, Rest

\* What a turn of the loop leaves alone.
LEMMA VisitFrame ==
  ASSUME NEW c, Visit(c)
  PROVE  /\ c.stage \in {"looked", "looping"}
         /\ UNCHANGED <<agents, policy, denied, wiring, members, cardVars, naming, clicks,
                        issued, screen, arrived, restarts, granted, outdated>>
  BY DEF Visit

-----------------------------------------------------------------------------
(* Types.                                                                  *)

DbTyped ==
  /\ agents \subseteq Agent
  /\ policy \in [Chat -> Policy \cup {"unknown"}]
  /\ denied \subseteq Chat
  /\ wiring \in [Chat -> [Agent -> Wiring \cup {Unwired}]]
  /\ members \subseteq User \X Agent
  /\ dropped \subseteq Event

SessionsTyped == sessions \in Seq(Session) /\ rows \subseteq Row

CardsTyped ==
  /\ senderCard \subseteq SenderRow
  /\ channelCard \in [Chat -> ChannelRow \cup {NoRow}]
  /\ naming \in [Owner -> Chat \cup {NoChat}]
  /\ issued \in Nat

WorkTyped == calls \subseteq Call /\ asks \subseteq Ask

ScreenTyped == clicks \subseteq Click /\ screen \subseteq Card

RestTyped ==
  /\ restarts \in Nat /\ arrived \subseteq Event /\ excused \subseteq Event
  /\ outdated \subseteq Event
  /\ granted \subseteq Event \X Agent

\* Together they are the type.
LEMMA TypeParts ==
  /\ TypeOK <=> /\ DbTyped /\ SessionsTyped /\ CardsTyped /\ WorkTyped /\ ScreenTyped
                /\ RestTyped
  /\ TypeOK' <=> /\ DbTyped' /\ SessionsTyped' /\ CardsTyped' /\ WorkTyped'
                 /\ ScreenTyped' /\ RestTyped'
  BY DEF TypeOK, DbTyped, SessionsTyped, CardsTyped, WorkTyped, ScreenTyped, RestTyped

\* A row of the pending channels has an event of its own.
LEMMA PendingChannel ==
  ASSUME TypeOK, NEW c \in Chat, channelCard[c] # NoRow
  PROVE  /\ channelCard[c] \in ChannelRow /\ channelCard[c].event \in Event
         /\ SenderOf[channelCard[c].event] \in User /\ channelCard[c].approver \in Owner
         /\ channelCard[c].offers \in Seq(Offer)
<1>1. channelCard[c] \in ChannelRow
  BY DEF TypeOK
<1> QED
  BY <1>1, RoutingAssumption DEF ChannelRow

\* The request handleUnknownSender makes.
LEMMA AskedTyped ==
  ASSUME TypeOK, AgentsFit, NEW c \in Call, NEW a \in c.todo
  PROVE  Asked(c, a) \subseteq Ask
<1>1. SenderOffers \in Seq(Offer) /\ c.event \in Event /\ a \in Agent \cup {NoAgent}
  BY OffersTyped DEF Call
<1> QED
  BY <1>1 DEF Asked, Ask

\* A tap, as its type.
LEMMA ClickTyped ==
  ASSUME TypeOK, NEW t \in clicks
  PROVE  /\ t.card \in Card /\ t.card.chat \in Chat
         /\ t.value[1] = "connect" => t.value[2] \in Agent
<1>1. t \in Click /\ t.card \in Card
  BY DEF TypeOK, Click
<1>2. t.card.chat \in Chat
  BY <1>1 DEF Card
<1>3. t.value \in Offer \cup {<<"index", NoAgent>>}
  BY <1>1 DEF Click
<1>4. t.value[1] = "connect" => t.value[2] \in Agent
  BY <1>3 DEF Offer
<1> QED
  BY <1>1, <1>2, <1>4

\* What the answer to a card comes to: a sender is let in, an agent is wired to
\* a channel, or nobody is granted anything.
LEMMA Answered ==
  ASSUME TypeOK, AgentsFit, NEW t \in clicks, Dispatch(t)
  PROVE  /\ UNCHANGED <<agents, policy, sessions, dropped, rows, asks, issued, arrived,
                        restarts, outdated>>
         /\ clicks' = clicks \ {t} /\ denied' \subseteq Chat
         /\ naming' \in [Owner -> Chat \cup {NoChat}] /\ screen' \subseteq Card
         /\ \/ /\ UNCHANGED <<wiring, channelCard, excused>>
               /\ \E r \in senderCard :
                    /\ senderCard' = senderCard \ {r}
                    /\ members' = members \cup {<<r.sender, r.agent>>}
                    /\ calls' = calls \cup {CallOf(r.event, r.agent)}
                    /\ granted' = granted \cup {<<r.event, r.agent>>}
            \/ LET chat == t.card.chat
                   a == t.value[2]
                   e == channelCard[chat].event
               IN  /\ t.value[1] = "connect" /\ channelCard[chat] # NoRow
                   /\ wiring[chat][a] = Unwired /\ UNCHANGED senderCard
                   /\ wiring' = [wiring EXCEPT ![chat][a] = ApprovedWiring(e)]
                   /\ members' = members \cup Joined(e, a)
                   /\ excused' = excused \cup Nameless(e)
                   /\ channelCard' = [channelCard EXCEPT ![chat] = NoRow]
                   /\ calls' = calls \cup {CallOf(e, a)}
                   /\ granted' = granted \cup {<<e, a>>}
            \/ /\ UNCHANGED <<wiring, members, calls, granted, excused>>
               /\ senderCard' \subseteq senderCard
               /\ \/ UNCHANGED channelCard
                  \/ channelCard' = [channelCard EXCEPT ![t.card.chat] = NoRow]
                  \/ /\ channelCard[t.card.chat] # NoRow
                     /\ channelCard' =
                          [channelCard EXCEPT ![t.card.chat].offers = AllOffers]
<1>0. /\ t.card.chat \in Chat /\ denied \subseteq Chat /\ screen \subseteq Card
      /\ naming \in [Owner -> Chat \cup {NoChat}]
  BY ClickTyped DEF TypeOK
<1>1. /\ UNCHANGED <<agents, policy, sessions, dropped, rows, asks, issued, arrived,
                     restarts, outdated>>
      /\ clicks' = clicks \ {t}
  BY DEF Dispatch
<1>2. CASE SenderAnswer(t)
  BY <1>0, <1>1, <1>2 DEF SenderAnswer
<1>3. CASE Unclaimed(t)
  BY <1>0, <1>1, <1>3 DEF Unclaimed, cardVars
<1>4. CASE ChannelAnswer(t)
  <2> DEFINE chat == t.card.chat
             row == channelCard[chat]
  <2>1. row # NoRow /\ row.approver \in Owner /\ UNCHANGED senderCard
    BY <1>0, <1>4, PendingChannel DEF ChannelAnswer, Connect
  <2>2. CASE /\ denied' = denied \cup {chat}
             /\ channelCard' = [channelCard EXCEPT ![chat] = NoRow]
             /\ screen' = screen \ {t.card}
             /\ UNCHANGED naming
             /\ UNCHANGED <<wiring, members, calls, granted, senderCard, excused>>
    BY <1>0, <1>1, <2>1, <2>2
  <2>3. CASE /\ channelCard' = [channelCard EXCEPT ![chat].offers = AllOffers]
             /\ \E s \in Shown([id |-> 0, chat |-> chat, offers |-> AllOffers]) :
                  screen' = (screen \ {t.card}) \cup s
             /\ UNCHANGED <<denied, naming>>
             /\ UNCHANGED <<wiring, members, calls, granted, senderCard, excused>>
    <3>1. [id |-> 0, chat |-> chat, offers |-> AllOffers] \in Card
      BY <1>0, OffersTyped DEF Card
    <3>2. screen' \subseteq Card
      BY <1>0, <2>3, <3>1 DEF Shown
    <3> QED
      BY <1>0, <1>1, <2>1, <2>3, <3>2
  <2>4. CASE /\ \E asked \in {chat, NoChat} :
                  naming' = [naming EXCEPT ![row.approver] = asked]
             /\ screen' = screen \ {t.card}
             /\ UNCHANGED <<denied, channelCard>>
             /\ UNCHANGED <<wiring, members, calls, granted, senderCard, excused>>
    <3>1. naming' \in [Owner -> Chat \cup {NoChat}]
      BY <1>0, <2>1, <2>4
    <3> QED
      BY <1>0, <1>1, <2>1, <2>4, <3>1
  <2>5. CASE t.value[1] = "connect" /\ Connect(t, t.value[2])
    BY <1>0, <1>1, <2>1, <2>5 DEF Connect
  <2> QED
    BY <1>4, <2>2, <2>3, <2>4, <2>5 DEF ChannelAnswer
<1> QED
  BY <1>2, <1>3, <1>4 DEF Dispatch

\* Types.
LEMMA TypeStep ==
  ASSUME TypeOK, AgentsFit, [Next]_vars
  PROVE  TypeOK'
<1> USE DEF dbVars, cardVars, memVars, histVars
<1>0. /\ DbTyped /\ SessionsTyped /\ CardsTyped /\ WorkTyped /\ ScreenTyped /\ RestTyped
      /\ \A c \in calls : c \in Call /\ c.event \in Event /\ ChatOf[c.event] \in Chat
                          /\ SenderOf[c.event] \in User
  BY TypeParts, RoutingAssumption DEF WorkTyped, Call
<1>1. ASSUME NEW e \in Event, Arrive(e) PROVE TypeOK'
  <2>1. DbTyped'
    BY <1>0, <1>1 DEF DbTyped, Arrive
  <2>2. SessionsTyped'
    BY <1>0, <1>1 DEF SessionsTyped, Arrive, Row
  <2>3. CardsTyped'
    BY <1>0, <1>1 DEF CardsTyped, Arrive
  <2>4. WorkTyped'
    BY <1>0, <1>1, NewCall DEF Arrive, WorkTyped
  <2>5. ScreenTyped'
    BY <1>0, <1>1 DEF ScreenTyped, Arrive
  <2>6. RestTyped'
    BY <1>0, <1>1 DEF RestTyped, Arrive
  <2> QED
    BY <2>1, <2>2, <2>3, <2>4, <2>5, <2>6, TypeParts
<1>2. ASSUME NEW c \in calls, Pass(c) PROVE TypeOK'
  <2>1. DbTyped'
    BY <1>0, <1>2 DEF DbTyped, Pass
  <2>2. SessionsTyped'
    BY <1>0, <1>2 DEF SessionsTyped, Pass, Row
  <2>3. CardsTyped'
    BY <1>0, <1>2 DEF CardsTyped, Pass
  <2>4. WorkTyped'
    <3>1. [c EXCEPT !.stage = "passed"] \in Call
      BY <1>0 DEF Call
    <3> QED
      BY <1>0, <1>2, <3>1 DEF Pass, WorkTyped
  <2>5. ScreenTyped'
    BY <1>0, <1>2 DEF ScreenTyped, Pass
  <2>6. RestTyped'
    BY <1>0, <1>2 DEF RestTyped, Pass
  <2> QED
    BY <2>1, <2>2, <2>3, <2>4, <2>5, <2>6, TypeParts
<1>3. ASSUME NEW c \in calls, LookUp(c) PROVE TypeOK'
  <2>1. DbTyped'
    BY <1>0, <1>3, Zenon DEF DbTyped, LookUp
  <2>2. SessionsTyped'
    BY <1>0, <1>3, Zenon DEF SessionsTyped, LookUp, Row
  <2>3. CardsTyped'
    BY <1>0, <1>3, Zenon DEF CardsTyped, LookUp
  <2>4. WorkTyped'
    <3>1. /\ policy[ChatOf[c.event]] \in Policy \cup {"unknown"}
          /\ wiring[ChatOf[c.event]] \in [Agent -> Wiring \cup {Unwired}]
      BY <1>0 DEF DbTyped
    <3>2. {a \in agents : wiring[ChatOf[c.event]][a] # Unwired} \in SUBSET Agent
      BY <1>0 DEF DbTyped
    <3>3. [c EXCEPT !.stage = "looked", !.policy = policy[ChatOf[c.event]],
                    !.wires = wiring[ChatOf[c.event]],
                    !.todo = {a \in agents : wiring[ChatOf[c.event]][a] # Unwired}] \in Call
      BY <1>0, <3>1, <3>2, Zenon DEF Call
    <3> QED
      BY <1>0, <1>3, <3>3, Zenon DEF LookUp, WorkTyped
  <2>5. ScreenTyped'
    BY <1>0, <1>3, Zenon DEF ScreenTyped, LookUp
  <2>6. RestTyped'
    BY <1>0, <1>3, Zenon DEF RestTyped, LookUp
  <2> QED
    BY <2>1, <2>2, <2>3, <2>4, <2>5, <2>6, TypeParts
<1>4. ASSUME NEW c \in calls, Finish(c) PROVE TypeOK'
  <2>1. DbTyped'
    BY <1>0, <1>4 DEF DbTyped, Finish
  <2>2. SessionsTyped'
    BY <1>0, <1>4 DEF SessionsTyped, Finish, Row
  <2>3. CardsTyped'
    BY <1>0, <1>4 DEF CardsTyped, Finish
  <2>4. WorkTyped'
    BY <1>0, <1>4 DEF WorkTyped, Finish
  <2>5. ScreenTyped'
    BY <1>0, <1>4 DEF ScreenTyped, Finish
  <2>6. RestTyped'
    BY <1>0, <1>4 DEF RestTyped, Finish
  <2> QED
    BY <2>1, <2>2, <2>3, <2>4, <2>5, <2>6, TypeParts
<1>5. ASSUME NEW c \in calls, Capture(c) PROVE TypeOK'
  <2> DEFINE ch == naming[SenderOf[c.event]]
             e == channelCard[ch].event
             Named(a) == /\ agents' = agents \cup {a}
                         /\ wiring' = [wiring EXCEPT ![ch][a] = ApprovedWiring(e)]
                         /\ members' = members \cup Joined(e, a)
                         /\ granted' = granted \cup {<<e, a>>}
                         /\ calls' = (calls \ {c}) \cup {CallOf(e, a)}
  <2>1. ch \in Chat
    BY <1>0, <1>5 DEF Capture, Captures, CardsTyped
  <2>2. channelCard[ch] # NoRow => e \in Event /\ SenderOf[e] \in User
    BY <2>1, PendingChannel
  <2>3. \/ /\ calls' = calls \ {c}
           /\ UNCHANGED <<agents, wiring, members, channelCard, granted>>
        \/ /\ channelCard[ch] # NoRow
           /\ \E a \in Agent \ agents : Named(a)
           /\ channelCard' = [channelCard EXCEPT ![ch] = NoRow]
    BY <1>5, Zenon DEF Capture
  <2>10. \/ excused' = excused \cup {c.event}
         \/ /\ channelCard[ch] # NoRow
            /\ excused' = excused \cup {c.event} \cup Nameless(e)
    BY <1>5, Zenon DEF Capture
  <2> HIDE DEF ch, e
  <2>4. DbTyped'
    <3>1. CASE UNCHANGED <<agents, wiring, members, channelCard, granted>>
      BY <1>0, <1>5, <3>1 DEF DbTyped, Capture
    <3>2. CASE channelCard[ch] # NoRow /\ \E a \in Agent \ agents : Named(a)
      <4>1. PICK a \in Agent \ agents : Named(a)
        BY <3>2
      <4>2. agents' \subseteq Agent /\ members' \subseteq User \X Agent
        <5>1. Joined(e, a) \subseteq User \X Agent
          BY <2>2, <3>2 DEF Joined
        <5> QED
          BY <1>0, <4>1, <5>1 DEF DbTyped
      <4>3. wiring' \in [Chat -> [Agent -> Wiring \cup {Unwired}]]
        BY <1>0, <2>1, <2>2, <3>2, <4>1, Wirings DEF DbTyped
      <4> QED
        BY <1>0, <1>5, <4>2, <4>3 DEF DbTyped, Capture
    <3> QED
      BY <2>3, <3>1, <3>2
  <2>5. SessionsTyped'
    BY <1>0, <1>5 DEF SessionsTyped, Capture, Row
  <2>6. CardsTyped'
    <3>1. channelCard' \in {channelCard, [channelCard EXCEPT ![ch] = NoRow]}
      BY <2>3
    <3>2. channelCard' \in [Chat -> ChannelRow \cup {NoRow}]
      BY <1>0, <3>1 DEF CardsTyped
    <3>3. naming' \in [Owner -> Chat \cup {NoChat}]
      BY <1>0, <1>5, Zenon DEF CardsTyped, Capture
    <3> QED
      BY <1>0, <1>5, <3>2, <3>3 DEF CardsTyped, Capture
  <2>7. WorkTyped'
    <3>1. \A a \in Agent : channelCard[ch] # NoRow => CallOf(e, a) \in Call
      BY <2>2, NewCall
    <3>2. calls' \subseteq Call
      BY <1>0, <2>3, <3>1 DEF WorkTyped
    <3> QED
      BY <1>0, <1>5, <3>2 DEF WorkTyped, Capture
  <2>8. ScreenTyped'
    BY <1>0, <1>5 DEF ScreenTyped, Capture
  <2>9. RestTyped'
    <3>1. granted' \subseteq Event \X Agent
      BY <1>0, <2>2, <2>3 DEF RestTyped
    <3>2. excused' \subseteq Event
      BY <1>0, <2>2, <2>10 DEF RestTyped, Nameless
    <3> QED
      BY <1>0, <1>5, <3>1, <3>2 DEF RestTyped, Capture
  <2> QED
    BY <2>4, <2>5, <2>6, <2>7, <2>8, <2>9, TypeParts
<1>6. ASSUME NEW c \in calls, Unrouted(c) PROVE TypeOK'
  <2>1. \/ /\ calls' = calls \ {c} /\ UNCHANGED <<policy, wiring, asks>>
        \/ \E a \in Agent :
             /\ policy' = [policy EXCEPT ![ChatOf[c.event]] = "public"]
             /\ wiring' = [wiring EXCEPT ![ChatOf[c.event]][a] =
                  [mode |-> "mention", known |-> FALSE, keep |-> FALSE,
                   session |-> "shared"]]
             /\ calls' = (calls \ {c}) \cup {CallOf(c.event, NoAgent)}
             /\ UNCHANGED asks
        \/ /\ policy' = [policy EXCEPT ![ChatOf[c.event]] =
                           IF @ = "unknown" THEN "request_approval" ELSE @]
           /\ \/ asks' = asks
              \/ /\ agents # {}
                 /\ asks' = asks \cup {[event |-> c.event, agent |-> NoAgent,
                                        offers |-> FirstOffers]}
           /\ calls' = calls \ {c} /\ UNCHANGED wiring
    BY <1>6, RoutingAssumption DEF Unrouted, AutoWire, RequestChannel
  <2>2. DbTyped'
    <3>1. policy' \in [Chat -> Policy \cup {"unknown"}]
      BY <1>0, <2>1 DEF DbTyped, Policy
    <3>2. wiring' \in [Chat -> [Agent -> Wiring \cup {Unwired}]]
      <4>1. CASE wiring' = wiring
        BY <1>0, <4>1 DEF DbTyped
      <4>2. ASSUME NEW a \in Agent,
                   wiring' = [wiring EXCEPT ![ChatOf[c.event]][a] =
                     [mode |-> "mention", known |-> FALSE, keep |-> FALSE,
                      session |-> "shared"]]
            PROVE  wiring' \in [Chat -> [Agent -> Wiring \cup {Unwired}]]
        BY <1>0, <4>2, Wirings DEF DbTyped
      <4> QED
        BY <2>1, <4>1, <4>2
    <3>3. dropped' \subseteq Event
      BY <1>0, <1>6 DEF DbTyped, Unrouted
    <3> QED
      BY <1>0, <1>6, <3>1, <3>2, <3>3 DEF DbTyped, Unrouted
  <2>3. SessionsTyped'
    BY <1>0, <1>6 DEF SessionsTyped, Unrouted, Row
  <2>4. CardsTyped'
    BY <1>0, <1>6 DEF CardsTyped, Unrouted
  <2>5. WorkTyped'
    <3>1. CallOf(c.event, NoAgent) \in Call
      BY <1>0, NewCall
    <3>2. calls' \subseteq Call
      BY <1>0, <2>1, <3>1 DEF WorkTyped
    <3>3. asks' \subseteq Ask
      <4>1. agents # {} =>
              [event |-> c.event, agent |-> NoAgent, offers |-> FirstOffers] \in Ask
        BY <1>0, OffersTyped DEF Ask
      <4>2. \/ asks' = asks
            \/ /\ agents # {}
               /\ asks' = asks \cup {[event |-> c.event, agent |-> NoAgent,
                                      offers |-> FirstOffers]}
        BY <2>1
      <4> QED
        BY <1>0, <4>1, <4>2 DEF WorkTyped
    <3> QED
      BY <3>2, <3>3 DEF WorkTyped
  <2>6. ScreenTyped'
    BY <1>0, <1>6 DEF ScreenTyped, Unrouted
  <2>7. RestTyped'
    BY <1>0, <1>6 DEF RestTyped, Unrouted
  <2> QED
    BY <2>2, <2>3, <2>4, <2>5, <2>6, <2>7, TypeParts
<1>7. ASSUME NEW c \in calls, Visit(c) PROVE TypeOK'
  <2>1. PICK a \in c.todo :
          /\ a \in Agent
          /\ asks' = asks \cup Asked(c, a)
          /\ dropped' \in {dropped, dropped \cup {c.event}}
          /\ \/ /\ Taken(c, a)
                /\ DeliverTo(c, a, Allowed(c, a), Rest(c, a))
             \/ /\ ~Taken(c, a)
                /\ calls' = (calls \ {c}) \cup {Rest(c, a)}
                /\ UNCHANGED <<sessions, rows, excused>>
    BY <1>0, <1>7, Visited DEF Call
  <2>2. UNCHANGED <<agents, policy, denied, wiring, members, cardVars, naming, clicks,
                    issued, screen, arrived, restarts, granted>>
    BY <1>7, VisitFrame
  <2>9. UNCHANGED outdated
    BY <1>7, VisitFrame
  <2>3. DbTyped'
    BY <1>0, <2>1, <2>2 DEF DbTyped
  <2>4. SessionsTyped'
    <3>1. CASE UNCHANGED <<sessions, rows>>
      BY <1>0, <3>1 DEF SessionsTyped, Row
    <3>2. CASE DeliverTo(c, a, Allowed(c, a), Rest(c, a))
      <4>1. PICK i \in 1 .. Len(sessions') :
              \/ rows' = rows
              \/ rows' = rows \cup {[event |-> c.event, agent |-> a, session |-> i,
                                    trigger |-> Allowed(c, a),
                                    mode |-> c.wires[a].session]}
        BY <1>0, <2>1, <3>2, Delivered
      <4>2. /\ sessions' \in Seq(Session) /\ Len(sessions) <= Len(sessions')
        BY <1>0, <2>1, <3>2, Delivered
      <4>6. Len(sessions) \in Nat /\ Len(sessions') \in Nat
        BY <1>0, <4>2 DEF SessionsTyped
      <4>3. Allowed(c, a) \in BOOLEAN
        BY Zenon DEF Allowed, AccessOk
      <4>7. c.wires[a].session \in {w.session : w \in Wiring \cup {Unwired}}
        BY <1>0, <2>1 DEF Call
      <4> HIDE DEF Allowed
      <4>4. [event |-> c.event, agent |-> a, session |-> i, trigger |-> Allowed(c, a),
             mode |-> c.wires[a].session] \in Row'
        BY <1>0, <2>1, <4>3, <4>7 DEF Row
      <4>5. rows \subseteq Row'
        BY <1>0, <4>2, <4>6 DEF SessionsTyped, Row
      <4> QED
        BY <4>1, <4>2, <4>4, <4>5 DEF SessionsTyped
    <3> QED
      BY <2>1, <3>1, <3>2
  <2>5. CardsTyped'
    BY <1>0, <2>2 DEF CardsTyped
  <2>6. WorkTyped'
    <3>1. Rest(c, a) \in Call
      BY <1>0, RestCall
    <3>2. calls' \subseteq Call
      <4>1. calls' \in {calls \ {c}, (calls \ {c}) \cup {Rest(c, a)}}
        BY <1>0, <2>1, Delivered
      <4> QED
        BY <1>0, <3>1, <4>1 DEF WorkTyped
    <3> QED
      BY <1>0, <2>1, <3>2, AskedTyped DEF WorkTyped
  <2>7. ScreenTyped'
    BY <1>0, <2>2 DEF ScreenTyped
  <2>8. RestTyped'
    <3>1. excused' \subseteq Event
      <4>1. excused' \in {excused, excused \cup {c.event}}
        BY <1>0, <2>1, Delivered
      <4> QED
        BY <1>0, <4>1 DEF RestTyped
    <3> QED
      BY <1>0, <2>2, <2>9, <3>1 DEF RestTyped
  <2> QED
    BY <2>3, <2>4, <2>5, <2>6, <2>7, <2>8, TypeParts
<1>8. ASSUME NEW k \in asks, AskSettles(k) PROVE TypeOK'
  <2>1. /\ k.event \in Event /\ ChatOf[k.event] \in Chat /\ SenderOf[k.event] \in User
        /\ k.agent # NoAgent => k.agent \in Agent
        /\ k.offers \in Seq(Offer)
    BY <1>0, RoutingAssumption DEF WorkTyped, Ask
  <2>2. DbTyped'
    <3>1. policy' \in [Chat -> Policy \cup {"unknown"}]
      BY <1>0, <1>8, RoutingAssumption DEF DbTyped, Policy, AskSettles, ReachApprover
    <3> QED
      BY <1>0, <1>8, <3>1 DEF DbTyped, AskSettles
  <2>3. SessionsTyped'
    BY <1>0, <1>8 DEF SessionsTyped, AskSettles, Row
  <2>4. CardsTyped'
    <3>1. CASE UNCHANGED <<policy, cardVars, screen, issued>>
      BY <1>0, <1>8, <3>1 DEF CardsTyped, AskSettles
    <3>2. ASSUME NEW o \in Owner, k.agent = NoAgent, ChannelAsk(k, o) PROVE CardsTyped'
      <4>1. [event |-> k.event, approver |-> o, offers |-> k.offers] \in ChannelRow
        BY <2>1 DEF ChannelRow
      <4> QED
        BY <1>0, <1>8, <2>1, <3>2, <4>1 DEF CardsTyped, AskSettles, ChannelAsk
    <3>3. ASSUME k.agent # NoAgent, SenderAsk(k) PROVE CardsTyped'
      <4>1. [id |-> issued, event |-> k.event, chat |-> ChatOf[k.event],
             sender |-> SenderOf[k.event], agent |-> k.agent] \in SenderRow
        BY <1>0, <2>1, <3>3 DEF SenderRow, CardsTyped
      <4>2. /\ senderCard' \subseteq SenderRow /\ issued' \in Nat
            /\ channelCard' = channelCard
        BY <1>0, <3>3, <4>1 DEF CardsTyped, SenderAsk
      <4> QED
        BY <1>0, <1>8, <4>2 DEF CardsTyped, AskSettles
    <3> QED
      BY <1>8, <3>1, <3>2, <3>3 DEF AskSettles
  <2>5. WorkTyped'
    BY <1>0, <1>8 DEF WorkTyped, AskSettles
  <2>6. ScreenTyped'
    <3>1. /\ [id |-> 0, chat |-> ChatOf[k.event], offers |-> k.offers] \in Card
          /\ [id |-> issued, chat |-> ChatOf[k.event], offers |-> k.offers] \in Card
      BY <1>0, <2>1 DEF Card, CardsTyped
    <3>2. screen' \subseteq Card
      <4>1. CASE UNCHANGED <<policy, cardVars, screen, issued>>
        BY <1>0, <4>1 DEF ScreenTyped
      <4>2. ASSUME NEW o \in Owner, ChannelAsk(k, o) PROVE screen' \subseteq Card
        BY <1>0, <3>1, <4>2 DEF ScreenTyped, ChannelAsk, Shown
      <4>3. ASSUME SenderAsk(k) PROVE screen' \subseteq Card
        BY <1>0, <3>1, <4>3 DEF ScreenTyped, SenderAsk, Shown
      <4> QED
        BY <1>8, <4>1, <4>2, <4>3 DEF AskSettles
    <3> QED
      BY <1>0, <1>8, <3>2 DEF ScreenTyped, AskSettles
  <2>7. RestTyped'
    BY <1>0, <1>8 DEF RestTyped, AskSettles
  <2> QED
    BY <2>2, <2>3, <2>4, <2>5, <2>6, <2>7, TypeParts
<1>9. ASSUME NEW k \in screen, NEW i \in DOMAIN k.offers, Tap(k, i) PROVE TypeOK'
  <2>1. DbTyped'
    BY <1>0, <1>9 DEF DbTyped, Tap
  <2>2. SessionsTyped'
    BY <1>0, <1>9 DEF SessionsTyped, Tap, Row
  <2>3. CardsTyped'
    BY <1>0, <1>9 DEF CardsTyped, Tap
  <2>4. WorkTyped'
    BY <1>0, <1>9 DEF WorkTyped, Tap
  <2>5. ScreenTyped'
    <3>1. k \in Card /\ k.offers \in Seq(Offer) /\ k.offers[i] \in Offer
      BY <1>0 DEF ScreenTyped, Card
    <3>2. Rendered(k) \in Seq(Offer)
      <4>1. SenderOffers \in Seq(Offer) /\ <<>> \in Seq(Offer) /\ k.chat \in Chat
        BY <1>0, <3>1, OffersTyped DEF Card
      <4>2. channelCard[k.chat] # NoRow => channelCard[k.chat].offers \in Seq(Offer)
        BY <4>1, PendingChannel
      <4> QED
        BY <4>1, <4>2 DEF Rendered
    <3>3. Value(k, i) \in Offer \cup {<<"index", NoAgent>>}
      BY <3>2 DEF Value
    <3>4. [card |-> k, meant |-> k.offers[i], value |-> Value(k, i)] \in Click
      BY <3>1, <3>3 DEF Click
    <3> QED
      BY <1>0, <1>9, <3>4 DEF ScreenTyped, Tap
  <2>6. RestTyped'
    BY <1>0, <1>9 DEF RestTyped, Tap
  <2> QED
    BY <2>1, <2>2, <2>3, <2>4, <2>5, <2>6, TypeParts
<1>10. ASSUME NEW t \in clicks, Dispatch(t) PROVE TypeOK'
  <2> DEFINE chat == t.card.chat
             b == t.value[2]
             e == channelCard[chat].event
  <2>1. /\ UNCHANGED <<agents, policy, sessions, dropped, rows, asks, issued, arrived,
                       restarts, outdated>>
        /\ clicks' = clicks \ {t} /\ denied' \subseteq Chat
        /\ naming' \in [Owner -> Chat \cup {NoChat}] /\ screen' \subseteq Card
    BY <1>10, Answered
  <2>2. ASSUME NEW r \in senderCard, senderCard' = senderCard \ {r},
               members' = members \cup {<<r.sender, r.agent>>},
               calls' = calls \cup {CallOf(r.event, r.agent)},
               granted' = granted \cup {<<r.event, r.agent>>},
               UNCHANGED <<wiring, channelCard, excused>>
        PROVE  TypeOK'
    <3>1. r.sender \in User /\ r.agent \in Agent /\ r.event \in Event
      BY <1>0 DEF CardsTyped, SenderRow
    <3>2. CallOf(r.event, r.agent) \in Call
      BY <3>1, NewCall
    <3> QED
      BY <1>0, <2>1, <2>2, <3>1, <3>2, TypeParts
      DEF DbTyped, SessionsTyped, CardsTyped, WorkTyped, ScreenTyped, RestTyped, Row
  <2>3. ASSUME t.value[1] = "connect", channelCard[chat] # NoRow,
               UNCHANGED senderCard,
               wiring' = [wiring EXCEPT ![chat][b] = ApprovedWiring(e)],
               members' = members \cup Joined(e, b),
               excused' = excused \cup Nameless(e),
               channelCard' = [channelCard EXCEPT ![chat] = NoRow],
               calls' = calls \cup {CallOf(e, b)},
               granted' = granted \cup {<<e, b>>}
        PROVE  TypeOK'
    <3>1. b \in Agent /\ chat \in Chat
      BY <2>3, ClickTyped
    <3>2. e \in Event /\ SenderOf[e] \in User
      BY <2>3, <3>1, PendingChannel
    <3> HIDE DEF e, b, chat
    <3>3. CallOf(e, b) \in Call /\ ApprovedWiring(e) \in Wiring
      BY <3>1, <3>2, NewCall, Wirings
    <3>4. wiring' \in [Chat -> [Agent -> Wiring \cup {Unwired}]]
      BY <1>0, <2>3, <3>1, <3>3 DEF DbTyped
    <3>5. /\ members' \subseteq User \X Agent /\ granted' \subseteq Event \X Agent
          /\ excused' \subseteq Event
      <4>1. Joined(e, b) \subseteq User \X Agent /\ Nameless(e) \subseteq Event
        BY <3>1, <3>2 DEF Joined, Nameless
      <4> QED
        BY <1>0, <2>3, <3>1, <3>2, <4>1 DEF DbTyped, RestTyped
    <3>6. channelCard' \in [Chat -> ChannelRow \cup {NoRow}]
      BY <1>0, <2>3 DEF CardsTyped
    <3> QED
      BY <1>0, <2>1, <2>3, <3>3, <3>4, <3>5, <3>6, TypeParts
      DEF DbTyped, SessionsTyped, CardsTyped, WorkTyped, ScreenTyped, RestTyped, Row
  <2>4. ASSUME UNCHANGED <<wiring, members, calls, granted, excused>>,
               senderCard' \subseteq senderCard,
               \/ UNCHANGED channelCard
               \/ channelCard' = [channelCard EXCEPT ![chat] = NoRow]
               \/ /\ channelCard[chat] # NoRow
                  /\ channelCard' = [channelCard EXCEPT ![chat].offers = AllOffers]
        PROVE  TypeOK'
    <3>1. channelCard' \in [Chat -> ChannelRow \cup {NoRow}]
      <4>1. CASE \/ UNCHANGED channelCard
                 \/ channelCard' = [channelCard EXCEPT ![chat] = NoRow]
        BY <1>0, <4>1 DEF CardsTyped
      <4>2. CASE /\ channelCard[chat] # NoRow
                 /\ channelCard' = [channelCard EXCEPT ![chat].offers = AllOffers]
        <5>1. chat \in Chat /\ channelCard[chat] \in ChannelRow
          BY <4>2, ClickTyped, PendingChannel
        <5>2. [channelCard[chat] EXCEPT !.offers = AllOffers] \in ChannelRow
          BY <5>1, OffersTyped DEF ChannelRow
        <5> QED
          BY <1>0, <4>2, <5>1, <5>2 DEF CardsTyped
      <4> QED
        BY <2>4, <4>1, <4>2
    <3> QED
      BY <1>0, <2>1, <2>4, <3>1, TypeParts
      DEF DbTyped, SessionsTyped, CardsTyped, WorkTyped, ScreenTyped, RestTyped, Row
  <2> QED
    BY <1>10, <2>2, <2>3, <2>4, Answered
<1>11. ASSUME NEW m \in members, Revoke(m) PROVE TypeOK'
  <2>1. DbTyped'
    BY <1>0, <1>11 DEF DbTyped, Revoke
  <2>2. SessionsTyped'
    BY <1>0, <1>11 DEF SessionsTyped, Revoke, Row
  <2>3. CardsTyped'
    BY <1>0, <1>11 DEF CardsTyped, Revoke
  <2>4. WorkTyped'
    BY <1>0, <1>11 DEF WorkTyped, Revoke
  <2>5. ScreenTyped'
    BY <1>0, <1>11 DEF ScreenTyped, Revoke
  <2>6. RestTyped'
    <3>1. excused' \subseteq Event
      BY <1>0, <1>11 DEF RestTyped, Revoke
    <3> QED
      BY <1>0, <1>11, <3>1 DEF RestTyped, Revoke
  <2> QED
    BY <2>1, <2>2, <2>3, <2>4, <2>5, <2>6, TypeParts
<1>12. ASSUME Restart PROVE TypeOK'
  <2>1. DbTyped'
    BY <1>0, <1>12 DEF DbTyped, Restart
  <2>2. SessionsTyped'
    BY <1>0, <1>12 DEF SessionsTyped, Restart, Row
  <2>3. CardsTyped'
    <3>1. naming' \in [Owner -> Chat \cup {NoChat}]
      BY <1>12 DEF Restart
    <3> QED
      BY <1>0, <1>12, <3>1 DEF CardsTyped, Restart
  <2>4. WorkTyped'
    BY <1>0, <1>12 DEF WorkTyped, Restart
  <2>5. ScreenTyped'
    BY <1>0, <1>12 DEF ScreenTyped, Restart
  <2>6. RestTyped'
    <3>1. excused' \subseteq Event
      BY <1>0, <1>12 DEF RestTyped, Restart
    <3> QED
      BY <1>0, <1>12, <3>1 DEF RestTyped, Restart
  <2> QED
    BY <2>1, <2>2, <2>3, <2>4, <2>5, <2>6, TypeParts
<1>13. ASSUME NEW x \in Rewirings, Rewire(x[1], x[2], x[3]) PROVE TypeOK'
  <2>1. x[1] \in Chat /\ x[2] \in Agent /\ x[3] \in Wiring \cup {Unwired}
    BY RoutingAssumption
  <2>2. wiring' \in [Chat -> [Agent -> Wiring \cup {Unwired}]]
    BY <1>0, <1>13, <2>1 DEF DbTyped, Rewire
  <2>3. excused' \subseteq Event /\ outdated' \subseteq Event /\ restarts' \in Nat
    BY <1>0, <1>13 DEF RestTyped, Rewire, Pending, InLoop
  <2> QED
    BY <1>0, <1>13, <2>2, <2>3, TypeParts
    DEF DbTyped, SessionsTyped, CardsTyped, WorkTyped, ScreenTyped, RestTyped, Row, Rewire
<1>14. ASSUME NEW x \in Repolicies, Repolicy(x[1], x[2]) PROVE TypeOK'
  <2>1. x[1] \in Chat /\ x[2] \in Policy
    BY RoutingAssumption
  <2>2. policy' \in [Chat -> Policy \cup {"unknown"}]
    BY <1>0, <1>14, <2>1 DEF DbTyped, Repolicy
  <2>3. outdated' \subseteq Event /\ restarts' \in Nat
    BY <1>0, <1>14 DEF RestTyped, Repolicy, InLoop
  <2> QED
    BY <1>0, <1>14, <2>2, <2>3, TypeParts
    DEF DbTyped, SessionsTyped, CardsTyped, WorkTyped, ScreenTyped, RestTyped, Row, Repolicy
<1>15. CASE UNCHANGED vars
  BY <1>0, <1>15, TypeParts
  DEF DbTyped, SessionsTyped, CardsTyped, WorkTyped, ScreenTyped, RestTyped, Row, vars
<1> QED
  BY <1>1, <1>2, <1>3, <1>4, <1>5, <1>6, <1>7, <1>8, <1>9, <1>10, <1>11, <1>12, <1>13,
     <1>14, <1>15
  DEF Next

-----------------------------------------------------------------------------
(* What no step undoes.                                                    *)

\* Agent groups are added, never removed.
LEMMA AgentsGrow ==
  ASSUME TypeOK, AgentsFit, [Next]_vars
  PROVE  agents \subseteq agents' /\ AgentsFit'
<1>1. ASSUME NEW c \in calls, Capture(c) PROVE agents \subseteq agents' /\ AgentsFit'
  <2>1. agents' = agents \/ \E a \in Agent : agents' = agents \cup {a}
    BY <1>1 DEF Capture
  <2> QED
    BY <2>1, FS_AddElement DEF AgentsFit
<1>2. CASE UNCHANGED agents
  BY <1>2 DEF AgentsFit
<1> QED
  BY <1>1, <1>2, Zenon
  DEF Next, Arrive, Pass, Unrouted, LookUp, Visit, Finish, AskSettles, Tap, Dispatch,
      Revoke, Rewire, Repolicy, Restart, vars, dbVars

\* The wiring of an agent to a chat is changed by ncl only.
LEMMA WiringStays ==
  ASSUME TypeOK, AgentsFit, [Next]_vars, NEW c \in Chat, NEW a \in agents,
         wiring[c][a] # Unwired
  PROVE  wiring'[c][a] = wiring[c][a] \/ \E w : Rewire(c, a, w)
<1>0. wiring \in [Chat -> [Agent -> Wiring \cup {Unwired}]] /\ a \in Agent
  BY DEF TypeOK
<1>1. ASSUME NEW d \in calls, Capture(d) PROVE wiring'[c][a] = wiring[c][a]
  <2>1. \/ wiring' = wiring
        \/ \E b \in Agent \ agents :
             wiring' = [wiring EXCEPT ![naming[SenderOf[d.event]]][b] =
               ApprovedWiring(channelCard[naming[SenderOf[d.event]]].event)]
    BY <1>1, Zenon DEF Capture
  <2>2. ASSUME NEW x, NEW w, NEW b, b # a, wiring' = [wiring EXCEPT ![x][b] = w]
        PROVE  wiring'[c][a] = wiring[c][a]
    <3>1. wiring'[c] \in {wiring[c], [wiring[c] EXCEPT ![b] = w]}
      BY <1>0, <2>2
    <3> QED
      BY <1>0, <2>2, <3>1
  <2> QED
    BY <2>1, <2>2
<1>2. ASSUME NEW d \in calls, Unrouted(d) PROVE wiring'[c][a] = wiring[c][a]
  <2>1. /\ \A b \in agents : wiring[ChatOf[d.event]][b] = Unwired
        /\ \/ wiring' = wiring
           \/ \E b, w : wiring' = [wiring EXCEPT ![ChatOf[d.event]][b] = w]
    BY <1>2 DEF Unrouted, AutoWire, RequestChannel
  <2>2. c # ChatOf[d.event]
    BY <2>1
  <2>3. wiring'[c] = wiring[c]
    BY <1>0, <2>1, <2>2
  <2> QED
    BY <2>3
<1>3. ASSUME NEW t \in clicks, Dispatch(t) PROVE wiring'[c][a] = wiring[c][a]
  <2>1. \/ wiring' = wiring
        \/ /\ wiring[t.card.chat][t.value[2]] = Unwired
           /\ \E w : wiring' = [wiring EXCEPT ![t.card.chat][t.value[2]] = w]
    BY <1>3, Answered
  <2>2. ASSUME NEW d \in Chat, NEW b, NEW w, wiring[d][b] = Unwired,
               wiring' = [wiring EXCEPT ![d][b] = w]
        PROVE  wiring'[c][a] = wiring[c][a]
    <3>1. ~(c = d /\ a = b)
      BY <2>2
    <3> QED
      BY <1>0, <2>2, <3>1
  <2> QED
    BY <1>3, <2>1, <2>2, ClickTyped
<1>4. ASSUME NEW d, NEW b, NEW w, Rewire(d, b, w)
      PROVE  wiring'[c][a] = wiring[c][a] \/ Rewire(c, a, w)
  <2>1. CASE d = c /\ b = a
    BY <1>4, <2>1
  <2>2. CASE ~(d = c /\ b = a)
    <3>1. wiring' = [wiring EXCEPT ![d][b] = w]
      BY <1>4 DEF Rewire
    <3> QED
      BY <1>0, <2>2, <3>1
  <2> QED
    BY <2>1, <2>2
<1> QED
  BY <1>1, <1>2, <1>3, <1>4, Zenon
  DEF Next, Arrive, Pass, LookUp, Visit, Finish, AskSettles, Tap, Revoke, Repolicy,
      Restart, vars, dbVars

\* A public chat stays public, unless ncl changes that.
LEMMA PublicStays ==
  ASSUME TypeOK, [Next]_vars, NEW c \in Chat, policy[c] = "public"
  PROVE  policy'[c] = "public" \/ \E p : Repolicy(c, p)
<1>0. policy \in [Chat -> Policy \cup {"unknown"}]
  BY DEF TypeOK
<1>1. ASSUME NEW d \in calls, Unrouted(d) PROVE policy'[c] = "public"
  <2>1. \/ policy' = policy
        \/ policy' = [policy EXCEPT ![ChatOf[d.event]] = "public"]
        \/ policy' = [policy EXCEPT ![ChatOf[d.event]] =
                        IF @ = "unknown" THEN "request_approval" ELSE @]
    BY <1>1 DEF Unrouted, AutoWire, RequestChannel
  <2> QED
    BY <1>0, <2>1
<1>2. ASSUME NEW k \in asks, AskSettles(k) PROVE policy'[c] = "public"
  <2>1. \/ policy' = policy
        \/ \E o \in Owner : policy' = [policy EXCEPT ![DmOf[o]] =
                                         IF @ = "unknown" THEN "strict" ELSE @]
    BY <1>2 DEF AskSettles, ReachApprover
  <2> QED
    BY <1>0, <2>1
<1>3. ASSUME NEW d, NEW p, Repolicy(d, p) PROVE policy'[c] = "public" \/ Repolicy(c, p)
  BY <1>0, <1>3 DEF Repolicy
<1> QED
  BY <1>1, <1>2, <1>3, Zenon
  DEF Next, Arrive, Capture, Pass, LookUp, Visit, Finish, Tap, Dispatch, Revoke, Rewire,
      Restart, vars, dbVars

\* The agent a call visits, with what deliverToAgent does for it.
LEMMA VisitPlaces ==
  ASSUME TypeOK, NEW c \in calls, Visit(c)
  PROVE  /\ c \in Call
         /\ \E a \in c.todo :
              /\ asks' = asks \cup Asked(c, a)
              /\ \/ /\ ~Taken(c, a)
                    /\ calls' = (calls \ {c}) \cup {Rest(c, a)}
                    /\ UNCHANGED <<sessions, rows, excused>>
                 \/ /\ Taken(c, a) /\ DeliverTo(c, a, Allowed(c, a), Rest(c, a))
                    /\ \E i \in 1 .. Len(sessions') :
                         /\ sessions'[i].agent = a
                         /\ c.wires[a].session # "agent-shared" =>
                              sessions'[i] =
                                [agent |-> a, chat |-> ChatOf[c.event],
                                 thread |-> SessionThread(c.wires[a].session, c.event)]
                         /\ \/ /\ c.event \in Refused
                               /\ calls' = (calls \ {c}) \cup IF c.event \in Denied
                                                             THEN {} ELSE {Rest(c, a)}
                               /\ UNCHANGED <<rows, excused>>
                            \/ /\ ~\E r \in rows : /\ r.event = c.event /\ r.agent = a
                                                   /\ r.session = i
                               /\ rows' = rows \cup
                                    {[event |-> c.event, agent |-> a, session |-> i,
                                      trigger |-> Allowed(c, a),
                                      mode |-> c.wires[a].session]}
                               /\ calls' = (calls \ {c}) \cup {Rest(c, a)}
                               /\ UNCHANGED excused
                            \/ /\ \E r \in rows : /\ r.event = c.event /\ r.agent = a
                                                  /\ r.session = i
                               /\ calls' = calls \ {c}
                               /\ excused' = IF c.for # a THEN excused \cup {c.event}
                                                          ELSE excused
                               /\ UNCHANGED rows
<1>1. c \in Call
  BY DEF TypeOK
<1>2. PICK a \in c.todo :
        /\ asks' = asks \cup Asked(c, a)
        /\ \/ /\ Taken(c, a)
              /\ DeliverTo(c, a, Allowed(c, a), Rest(c, a))
           \/ /\ ~Taken(c, a)
              /\ calls' = (calls \ {c}) \cup {Rest(c, a)}
              /\ UNCHANGED <<sessions, rows, excused>>
  BY Visited
<1>3. CASE ~Taken(c, a)
  BY <1>1, <1>2, <1>3
<1>4. CASE DeliverTo(c, a, Allowed(c, a), Rest(c, a))
  <2>1. \E i \in 1 .. Len(sessions') :
          /\ sessions'[i].agent = a
          /\ c.wires[a].session # "agent-shared" =>
               sessions'[i] =
                 [agent |-> a, chat |-> ChatOf[c.event],
                  thread |-> SessionThread(c.wires[a].session, c.event)]
          /\ \/ /\ c.event \in Refused
                /\ calls' = (calls \ {c}) \cup IF c.event \in Denied THEN {}
                                              ELSE {Rest(c, a)}
                /\ UNCHANGED <<rows, excused>>
             \/ /\ ~\E r \in rows : r.event = c.event /\ r.agent = a /\ r.session = i
                /\ rows' = rows \cup {[event |-> c.event, agent |-> a, session |-> i,
                                       trigger |-> Allowed(c, a),
                                       mode |-> c.wires[a].session]}
                /\ calls' = (calls \ {c}) \cup {Rest(c, a)}
                /\ UNCHANGED excused
             \/ /\ \E r \in rows : r.event = c.event /\ r.agent = a /\ r.session = i
                /\ calls' = calls \ {c}
                /\ excused' = IF c.for # a THEN excused \cup {c.event} ELSE excused
                /\ UNCHANGED rows
    BY <1>1, <1>4, Delivered
  <2> QED
    BY <1>1, <1>2, <1>3, <1>4, <2>1
<1> QED
  BY <1>2, <1>3, <1>4

\* Sessions and rows are added, and keep their place; no session has a twin.
LEMMA SessionsGrow ==
  ASSUME TypeOK, [Next]_vars
  PROVE  /\ Len(sessions) <= Len(sessions')
         /\ \A j \in 1 .. Len(sessions) : /\ j \in 1 .. Len(sessions')
                                          /\ sessions'[j] = sessions[j]
         /\ NoTwins => NoTwins'
         /\ rows \subseteq rows'
<1>0. Len(sessions) \in Nat
  BY DEF TypeOK
<1>1. ASSUME NEW c \in calls, Visit(c)
      PROVE  /\ Len(sessions) <= Len(sessions')
             /\ \A j \in 1 .. Len(sessions) : /\ j \in 1 .. Len(sessions')
                                              /\ sessions'[j] = sessions[j]
             /\ NoTwins => NoTwins'
             /\ rows \subseteq rows'
  <2>1. PICK a \in c.todo :
          /\ c \in Call
          /\ \/ UNCHANGED <<sessions, rows>>
             \/ DeliverTo(c, a, Allowed(c, a), Rest(c, a)) /\ rows \subseteq rows'
    BY <1>1, VisitPlaces
  <2>2. CASE UNCHANGED <<sessions, rows>>
    BY <1>0, <2>2 DEF NoTwins
  <2>3. CASE DeliverTo(c, a, Allowed(c, a), Rest(c, a))
    <3>1. /\ Len(sessions) <= Len(sessions') /\ (NoTwins => NoTwins')
          /\ \A j \in 1 .. Len(sessions) : /\ j \in 1 .. Len(sessions')
                                           /\ sessions'[j] = sessions[j]
      BY <2>1, <2>3, Delivered
    <3>2. rows \subseteq rows'
      BY <2>1
    <3> QED
      BY <3>1, <3>2
  <2> QED
    BY <2>1, <2>2, <2>3
<1>2. CASE UNCHANGED <<sessions, rows>>
  BY <1>0, <1>2 DEF NoTwins
<1> QED
  BY <1>1, <1>2, Zenon
  DEF Next, Arrive, Capture, Pass, Unrouted, LookUp, Finish, AskSettles, Tap, Dispatch,
      Revoke, Rewire, Repolicy, Restart, vars, dbVars

\* What is excused or outdated stays so.
LEMMA ExcusedGrow ==
  ASSUME TypeOK, AgentsFit, [Next]_vars
  PROVE  excused \subseteq excused' /\ outdated \subseteq outdated'
<1>1. ASSUME NEW c \in calls, Visit(c)
      PROVE  excused \subseteq excused' /\ outdated \subseteq outdated'
  <2>1. excused' \in {excused, excused \cup {c.event}}
    BY <1>1, VisitPlaces
  <2> QED
    BY <1>1, <2>1, VisitFrame
<1>2. ASSUME NEW t \in clicks, Dispatch(t)
      PROVE  excused \subseteq excused' /\ outdated \subseteq outdated'
  BY <1>2, Answered
<1> QED
  BY <1>1, <1>2, Zenon
  DEF Next, Arrive, Capture, Pass, Unrouted, LookUp, Finish, AskSettles, Tap,
      Revoke, Rewire, Repolicy, Restart, vars, histVars

\* ncl rewires an agent between the turns of the loop: who is in the loop, or
\* on the way to that agent, is written down.
LEMMA Rewired ==
  ASSUME TypeOK, NEW c \in calls, NEW a, NEW w, Rewire(ChatOf[c.event], a, w)
  PROVE  /\ c.stage \in {"looked", "looping"} => c.event \in outdated'
         /\ c.for = a \/ a \in c.todo => c.event \in excused'
<1>1. c.event \in Event /\ c.stage \in {"passed", "looping"}
  BY DEF TypeOK, Call, Rewire, Idle
<1> QED
  BY <1>1 DEF Rewire, Pending, InLoop

\* An agent that would take a member's event goes on to do so unless it is
\* rewired: a session that makes a sticky wiring engage is never closed.
LEMMA WelcomeStays ==
  ASSUME TypeOK, AgentsFit, [Next]_vars, NEW e \in Event, NEW a, Welcome(e, a)
  PROVE  Welcome(e, a)' \/ \E w : Rewire(ChatOf[e], a, w)
<1>1. /\ a \in agents /\ ChatOf[e] \in Chat /\ wiring[ChatOf[e]][a] # Unwired
  BY RoutingAssumption DEF Welcome, Wired, WiringOf
<1>2. /\ \/ wiring'[ChatOf[e]][a] = wiring[ChatOf[e]][a]
         \/ \E w : Rewire(ChatOf[e], a, w)
      /\ a \in agents'
  BY <1>1, WiringStays, AgentsGrow
<1>3. \A c, t : FindSession(a, c, t) # {} => FindSession(a, c, t)' # {}
  <2>1. /\ sessions \in Seq(Session) /\ DOMAIN sessions = 1 .. Len(sessions)
        /\ sessions' \in Seq(Session) /\ DOMAIN sessions' = 1 .. Len(sessions')
    BY TypeStep DEF TypeOK
  <2>2. \A j \in DOMAIN sessions : j \in DOMAIN sessions' /\ sessions'[j] = sessions[j]
    BY <2>1, SessionsGrow
  <2> QED
    BY <2>2 DEF FindSession
<1>4. \A w : Engages(w, a, e) => Engages(w, a, e)'
  BY <1>3 DEF Engages
<1>5. CASE wiring'[ChatOf[e]][a] = wiring[ChatOf[e]][a]
  BY <1>1, <1>2, <1>4, <1>5 DEF Welcome, Wired, WiringOf
<1> QED
  BY <1>2, <1>5

\* Who is on the way to an agent stays welcome there, or is excused.
LEMMA PendingStays ==
  ASSUME TypeOK, AgentsFit, [Next]_vars, NEW e \in Event, NEW a,
         \/ \E c \in calls : c.event = e /\ (c.for = a \/ a \in c.todo)
         \/ \E k \in asks \cup senderCard : k.event = e /\ k.agent = a,
         Welcome(e, a) \/ e \in excused
  PROVE  Welcome(e, a)' \/ e \in excused'
<1>1. ASSUME NEW w, Rewire(ChatOf[e], a, w) PROVE e \in excused'
  BY <1>1 DEF Rewire, Pending
<1>2. CASE Welcome(e, a)
  BY <1>1, <1>2, WelcomeStays
<1>3. CASE e \in excused
  BY <1>3, ExcusedGrow
<1> QED
  BY <1>2, <1>3

-----------------------------------------------------------------------------
(* Sessions and rows.                                                      *)

\* Only the loop of routeInbound inserts a row, in the session of the wiring the
\* call has read, and under a key no row has; the wiring is still the agent's
\* unless ncl has changed it since.
LEMMA NewRow ==
  ASSUME TypeOK, CallsKnow, [Next]_vars, NEW r \in rows', r \notin rows
  PROVE  \E c \in calls : \E a \in c.todo :
           /\ Visit(c) /\ c \in Call /\ c.stage \in {"looked", "looping"}
           /\ c.wires[a] = WiringOf(c.event, a) \/ c.event \in outdated
           /\ Allowed(c, a) \in BOOLEAN
           /\ \E i \in 1 .. Len(sessions') :
                /\ r = [event |-> c.event, agent |-> a, session |-> i,
                        trigger |-> Allowed(c, a), mode |-> c.wires[a].session]
                /\ rows' = rows \cup {r}
                /\ ~\E s \in rows : s.event = c.event /\ s.agent = a /\ s.session = i
                /\ sessions'[i].agent = a
                /\ c.wires[a].session # "agent-shared" =>
                     sessions'[i] =
                       [agent |-> a, chat |-> ChatOf[c.event],
                        thread |-> SessionThread(c.wires[a].session, c.event)]
<1>1. PICK c \in calls : Visit(c)
  BY Zenon
  DEF Next, Arrive, Capture, Pass, Unrouted, LookUp, Finish, AskSettles,
      Tap, Dispatch, Revoke, Rewire, Repolicy, Restart, vars
<1>2. c \in Call /\ c.stage \in {"looked", "looping"}
  BY <1>1, VisitFrame DEF TypeOK
<1>3. PICK a \in c.todo : \E i \in 1 .. Len(sessions') :
        /\ sessions'[i].agent = a
        /\ c.wires[a].session # "agent-shared" =>
             sessions'[i] =
               [agent |-> a, chat |-> ChatOf[c.event],
                thread |-> SessionThread(c.wires[a].session, c.event)]
        /\ ~\E s \in rows : s.event = c.event /\ s.agent = a /\ s.session = i
        /\ rows' = rows \cup {[event |-> c.event, agent |-> a, session |-> i,
                               trigger |-> Allowed(c, a), mode |-> c.wires[a].session]}
  BY <1>1, VisitPlaces
<1>4. c.wires[a] = WiringOf(c.event, a) \/ c.event \in outdated
  BY <1>2 DEF CallsKnow
<1>5. Allowed(c, a) \in BOOLEAN
  BY Zenon DEF Allowed, AccessOk
<1>6. PICK i \in 1 .. Len(sessions') :
        /\ sessions'[i].agent = a
        /\ c.wires[a].session # "agent-shared" =>
             sessions'[i] =
               [agent |-> a, chat |-> ChatOf[c.event],
                thread |-> SessionThread(c.wires[a].session, c.event)]
        /\ ~\E s \in rows : s.event = c.event /\ s.agent = a /\ s.session = i
        /\ rows' = rows \cup {[event |-> c.event, agent |-> a, session |-> i,
                               trigger |-> Allowed(c, a), mode |-> c.wires[a].session]}
  BY <1>3
<1>7. r = [event |-> c.event, agent |-> a, session |-> i, trigger |-> Allowed(c, a),
           mode |-> c.wires[a].session]
  BY <1>6
<1> HIDE DEF Allowed
<1> QED
  BY <1>1, <1>2, <1>4, <1>5, <1>6, <1>7

\* Every step keeps each row where its mode says, and alone there.
LEMMA RowsStep ==
  ASSUME TypeOK, AgentsFit, CallsKnow, NoTwins, RowsFit, RowsKeyed, [Next]_vars
  PROVE  NoTwins' /\ RowsFit' /\ RowsKeyed'
<1>1. NoTwins'
  BY SessionsGrow
<1>2. ASSUME NEW r \in rows PROVE sessions'[r.session] = sessions[r.session]
  <2>1. r.session \in 1 .. Len(sessions)
    BY DEF TypeOK, Row
  <2> QED
    BY <2>1, SessionsGrow
<1>3. ASSUME NEW r \in rows', r \notin rows
      PROVE  /\ sessions'[r.session].agent = r.agent
             /\ r.mode # "agent-shared" =>
                  sessions'[r.session] =
                    [agent |-> r.agent, chat |-> ChatOf[r.event],
                     thread |-> SessionThread(r.mode, r.event)]
             /\ rows' = rows \cup {r}
             /\ ~\E s \in rows : s.event = r.event /\ s.agent = r.agent
                                 /\ s.session = r.session
  <2>0. PICK c \in calls : \E a \in c.todo : \E i \in 1 .. Len(sessions') :
          /\ r = [event |-> c.event, agent |-> a, session |-> i,
                  trigger |-> Allowed(c, a), mode |-> c.wires[a].session]
          /\ rows' = rows \cup {r}
          /\ ~\E s \in rows : s.event = c.event /\ s.agent = a /\ s.session = i
          /\ sessions'[i].agent = a
          /\ c.wires[a].session # "agent-shared" =>
               sessions'[i] =
                 [agent |-> a, chat |-> ChatOf[c.event],
                  thread |-> SessionThread(c.wires[a].session, c.event)]
    BY <1>3, NewRow
  <2>1. PICK a \in c.todo : \E i \in 1 .. Len(sessions') :
          /\ r = [event |-> c.event, agent |-> a, session |-> i,
                  trigger |-> Allowed(c, a), mode |-> c.wires[a].session]
          /\ rows' = rows \cup {r}
          /\ ~\E s \in rows : s.event = c.event /\ s.agent = a /\ s.session = i
          /\ sessions'[i].agent = a
          /\ c.wires[a].session # "agent-shared" =>
               sessions'[i] =
                 [agent |-> a, chat |-> ChatOf[c.event],
                  thread |-> SessionThread(c.wires[a].session, c.event)]
    BY <2>0
  <2> HIDE DEF Allowed
  <2>2. /\ r.event = c.event /\ r.agent = a /\ r.mode = c.wires[a].session
        /\ rows' = rows \cup {r}
        /\ ~\E s \in rows : s.event = c.event /\ s.agent = a /\ s.session = r.session
        /\ sessions'[r.session].agent = a
        /\ c.wires[a].session # "agent-shared" =>
             sessions'[r.session] =
               [agent |-> a, chat |-> ChatOf[c.event],
                thread |-> SessionThread(c.wires[a].session, c.event)]
    BY <2>1
  <2> QED
    BY <2>2
<1>4. RowsFit'
  <2> SUFFICES ASSUME NEW r \in rows'
               PROVE  /\ sessions'[r.session].agent = r.agent
                      /\ r.mode # "agent-shared" =>
                           sessions'[r.session] =
                             [agent |-> r.agent, chat |-> ChatOf[r.event],
                              thread |-> SessionThread(r.mode, r.event)]
    BY DEF RowsFit, SessionThread, EffectiveMode, Thread
  <2>1. CASE r \in rows
    BY <1>2, <2>1 DEF RowsFit
  <2>2. CASE r \notin rows
    BY <1>3, <2>2
  <2> QED
    BY <2>1, <2>2
<1>5. RowsKeyed'
  BY <1>3 DEF RowsKeyed
<1> QED
  BY <1>1, <1>4, <1>5

-----------------------------------------------------------------------------
(* The calls.                                                              *)

\* A call that begins is routed for everyone, or replayed for an agent that
\* would take it from a sender who is now a member, or is excused.
Begins(d) ==
  \E e \in Event : \E a \in Agent \cup {NoAgent} :
    /\ d = CallOf(e, a)
    /\ a # NoAgent => \/ e \in excused'
                      \/ Welcome(e, a)' /\ CanAccess(SenderOf[e], a)'

\* A new agent or a connected one is wired to the chat it replays an event of,
\* and the sender of the event, if it has one, becomes a member.
LEMMA ReplayWired ==
  ASSUME TypeOK, NEW ch \in Chat, NEW e \in Event, ChatOf[e] = ch, NEW a \in Agent,
         a \in agents', wiring' = [wiring EXCEPT ![ch][a] = ApprovedWiring(e)],
         members' = members \cup Joined(e, a), Nameless(e) \subseteq excused'
  PROVE  e \in excused' \/ (Welcome(e, a)' /\ CanAccess(SenderOf[e], a)')
<1>1. wiring'[ch][a] = ApprovedWiring(e)
  BY DEF TypeOK
<1>2. ApprovedWiring(e).keep /\ ApprovedWiring(e) # Unwired
  BY Wirings
<1>3. CASE SenderOf[e] = NoUser
  BY <1>3 DEF Nameless
<1>4. CASE SenderOf[e] # NoUser
  BY <1>1, <1>2, <1>4 DEF Welcome, Wired, WiringOf, CanAccess, Joined
<1> QED
  BY <1>3, <1>4

\* Where the calls of the next state come from.
LEMMA CallsNext ==
  ASSUME TypeOK, AgentsFit, AsksFit, OffersKnown, [Next]_vars, NEW d \in calls'
  PROVE  \/ d \in calls
         \/ Begins(d)
         \/ \E c \in calls : Pass(c) /\ d = [c EXCEPT !.stage = "passed"]
         \/ \E c \in calls :
              LookUp(c) /\ d = [c EXCEPT !.stage = "looked",
                                         !.policy = policy[ChatOf[c.event]],
                                         !.wires = wiring[ChatOf[c.event]],
                                         !.todo = {a \in agents :
                                           wiring[ChatOf[c.event]][a] # Unwired}]
         \/ \E c \in calls : Visit(c) /\ \E a \in c.todo : d = Rest(c, a)
<1> SUFFICES ASSUME d \notin calls
             PROVE  \/ Begins(d)
                    \/ \E c \in calls : Pass(c) /\ d = [c EXCEPT !.stage = "passed"]
                    \/ \E c \in calls :
                         LookUp(c) /\ d = [c EXCEPT !.stage = "looked",
                                         !.policy = policy[ChatOf[c.event]],
                                         !.wires = wiring[ChatOf[c.event]],
                                         !.todo = {a \in agents :
                                           wiring[ChatOf[c.event]][a] # Unwired}]
                    \/ \E c \in calls : Visit(c) /\ \E a \in c.todo : d = Rest(c, a)
  BY Zenon
<1>0. \A c \in calls : c.event \in Event /\ c \in Call
  BY DEF TypeOK, Call
<1>1. ASSUME NEW e \in Event, Arrive(e) PROVE Begins(d)
  BY <1>1 DEF Arrive, Begins
<1>2. ASSUME NEW c \in calls, Capture(c) PROVE Begins(d)
  <2>1. PICK ch \in Chat : ch = naming[SenderOf[c.event]]
    BY <1>2, Zenon DEF Capture, Captures, TypeOK
  <2>2. PICK a \in Agent \ agents :
          LET e == channelCard[ch].event IN
          /\ channelCard[ch] # NoRow /\ agents' = agents \cup {a}
          /\ wiring' = [wiring EXCEPT ![ch][a] = ApprovedWiring(e)]
          /\ members' = members \cup Joined(e, a) /\ Nameless(e) \subseteq excused'
          /\ calls' = (calls \ {c}) \cup {CallOf(e, a)}
    BY <1>2, <2>1, Zenon DEF Capture
  <2>3. PICK e \in Event : e = channelCard[ch].event
    BY <2>2, PendingChannel
  <2>4. ChatOf[e] = ch
    BY <2>2, <2>3 DEF AsksFit
  <2>5. e \in excused' \/ (Welcome(e, a)' /\ CanAccess(SenderOf[e], a)')
    BY <2>2, <2>3, <2>4, ReplayWired
  <2> QED
    BY <2>2, <2>3, <2>5 DEF Begins
<1>3. ASSUME NEW c \in calls, Unrouted(c) PROVE Begins(d)
  <2>1. d = CallOf(c.event, NoAgent)
    BY <1>3 DEF Unrouted, AutoWire, RequestChannel
  <2> QED
    BY <1>0, <2>1 DEF Begins
<1>4. ASSUME NEW t \in clicks, Dispatch(t) PROVE Begins(d)
  <2>1. ASSUME NEW r \in senderCard, UNCHANGED <<wiring, channelCard>>,
               members' = members \cup {<<r.sender, r.agent>>},
               calls' = calls \cup {CallOf(r.event, r.agent)}
        PROVE  Begins(d)
    <3>1. r.event \in Event /\ r.agent \in Agent /\ r.sender = SenderOf[r.event]
      BY DEF TypeOK, SenderRow, AsksFit
    <3>2. Welcome(r.event, r.agent)' \/ r.event \in excused'
      BY <3>1, PendingStays DEF AsksFit
    <3>3. CanAccess(SenderOf[r.event], r.agent)'
      BY <2>1, <3>1 DEF CanAccess
    <3> QED
      BY <2>1, <3>1, <3>2, <3>3 DEF Begins
  <2>2. ASSUME t.value[1] = "connect", channelCard[t.card.chat] # NoRow,
               wiring' = [wiring EXCEPT ![t.card.chat][t.value[2]] =
                            ApprovedWiring(channelCard[t.card.chat].event)],
               members' = members \cup
                 Joined(channelCard[t.card.chat].event, t.value[2]),
               Nameless(channelCard[t.card.chat].event) \subseteq excused',
               calls' = calls \cup {CallOf(channelCard[t.card.chat].event, t.value[2])},
               agents' = agents
        PROVE  Begins(d)
    <3>1. t.card.chat \in Chat /\ t.value[2] \in Agent /\ t.value[2] \in agents
      BY <2>2, ClickTyped DEF OffersKnown, Offered
    <3>2. PICK e \in Event : e = channelCard[t.card.chat].event
      BY <2>2, <3>1, PendingChannel
    <3>3. ChatOf[e] = t.card.chat
      BY <2>2, <3>1, <3>2 DEF AsksFit
    <3>4. \/ e \in excused'
          \/ Welcome(e, t.value[2])' /\ CanAccess(SenderOf[e], t.value[2])'
      BY <2>2, <3>1, <3>2, <3>3, ReplayWired
    <3> QED
      BY <2>2, <3>1, <3>2, <3>4 DEF Begins
  <2>3. \/ /\ UNCHANGED <<wiring, channelCard>>
           /\ \E r \in senderCard :
                /\ members' = members \cup {<<r.sender, r.agent>>}
                /\ calls' = calls \cup {CallOf(r.event, r.agent)}
        \/ LET chat == t.card.chat
               a == t.value[2]
               e == channelCard[chat].event
           IN  /\ t.value[1] = "connect" /\ channelCard[chat] # NoRow
               /\ wiring' = [wiring EXCEPT ![chat][a] = ApprovedWiring(e)]
               /\ members' = members \cup Joined(e, a)
               /\ Nameless(e) \subseteq excused'
               /\ calls' = calls \cup {CallOf(e, a)} /\ agents' = agents
        \/ UNCHANGED calls
    BY <1>4, Answered
  <2> QED
    BY <2>1, <2>2, <2>3
<1>5. ASSUME NEW c \in calls, Visit(c) PROVE \E a \in c.todo : d = Rest(c, a)
  <2>1. PICK a \in c.todo : calls' \in {calls \ {c}, (calls \ {c}) \cup {Rest(c, a)}}
    BY <1>5, VisitPlaces
  <2> QED
    BY <2>1
<1>6. ASSUME NEW c \in calls, Pass(c) PROVE d = [c EXCEPT !.stage = "passed"]
  BY <1>6 DEF Pass
<1>7. ASSUME NEW c \in calls, LookUp(c)
      PROVE  d = [c EXCEPT !.stage = "looked",
                           !.policy = policy[ChatOf[c.event]],
                           !.wires = wiring[ChatOf[c.event]],
                           !.todo = {a \in agents :
                             wiring[ChatOf[c.event]][a] # Unwired}]
  BY <1>7, Zenon DEF LookUp
<1>8. CASE calls' \subseteq calls
  BY <1>8, Zenon
<1> QED
  BY <1>1, <1>2, <1>3, <1>4, <1>5, <1>6, <1>7, <1>8, Zenon
  DEF Next, Finish, AskSettles, Tap, Revoke, Rewire, Repolicy, Restart, vars

\* A call knows its chat: what it read has not changed, but by ncl.
LEMMA CallsKnowStep ==
  ASSUME TypeOK, AgentsFit, CallsKnow, AsksFit, OffersKnown, [Next]_vars
  PROVE  CallsKnow'
<1> DEFINE Knows(d) ==
      /\ d.policy = "public" =>
           policy[ChatOf[d.event]] = "public" \/ d.event \in outdated
      /\ \A a \in d.todo :
           /\ a \in agents /\ d.wires[a] # Unwired
           /\ d.wires[a] = WiringOf(d.event, a) \/ d.event \in outdated \cap excused
<1> SUFFICES ASSUME NEW d \in calls', d.stage \in {"looked", "looping"}
             PROVE  Knows(d)'
  BY DEF CallsKnow
<1>0. \A c \in calls : c \in Call /\ c.event \in Event /\ ChatOf[c.event] \in Chat
  BY RoutingAssumption DEF TypeOK, Call
<1>1. CASE d \in calls
  <2>1. Knows(d) /\ ChatOf[d.event] \in Chat /\ d.event \in Event
    BY <1>0, <1>1 DEF CallsKnow
  <2>2. ASSUME d.policy = "public"
        PROVE  policy'[ChatOf[d.event]] = "public" \/ d.event \in outdated'
    <3>1. ASSUME NEW p, Repolicy(ChatOf[d.event], p) PROVE d.event \in outdated'
      BY <1>1, <2>1, <3>1 DEF Repolicy, Idle, InLoop
    <3>2. CASE d.event \in outdated
      BY <3>2, ExcusedGrow
    <3>3. CASE policy[ChatOf[d.event]] = "public"
      BY <2>1, <3>1, <3>3, PublicStays
    <3> QED
      BY <2>1, <2>2, <3>2, <3>3
  <2>3. ASSUME NEW a \in d.todo
        PROVE  /\ a \in agents' /\ d.wires[a] # Unwired
               /\ \/ d.wires[a] = wiring'[ChatOf[d.event]][a]
                  \/ d.event \in outdated' \cap excused'
    <3>1. a \in agents /\ a \in agents' /\ d.wires[a] # Unwired
      BY <2>1, AgentsGrow
    <3>2. ASSUME NEW w, Rewire(ChatOf[d.event], a, w)
          PROVE  d.event \in outdated' \cap excused'
      BY <1>1, <3>2, Rewired
    <3>3. CASE d.event \in outdated \cap excused
      BY <3>1, <3>3, ExcusedGrow
    <3>4. CASE d.wires[a] = wiring[ChatOf[d.event]][a]
      BY <2>1, <3>1, <3>2, <3>4, WiringStays
    <3> QED
      BY <2>1, <3>3, <3>4 DEF WiringOf
  <2> QED
    BY <2>2, <2>3 DEF WiringOf
<1>2. CASE Begins(d)
  <2>1. d.stage = "called"
    BY <1>2, NewCall DEF Begins
  <2> QED
    BY <2>1
<1>3. ASSUME NEW c \in calls, d = [c EXCEPT !.stage = "passed"] PROVE Knows(d)'
  BY <1>0, <1>3 DEF Call
<1>4. ASSUME NEW c \in calls, LookUp(c),
             d = [c EXCEPT !.stage = "looked",
                           !.policy = policy[ChatOf[c.event]],
                           !.wires = wiring[ChatOf[c.event]],
                           !.todo = {a \in agents :
                             wiring[ChatOf[c.event]][a] # Unwired}]
      PROVE  Knows(d)'
  <2>1. /\ d.event = c.event /\ d.policy = policy[ChatOf[c.event]]
        /\ d.wires = wiring[ChatOf[c.event]]
        /\ d.todo = {a \in agents : wiring[ChatOf[c.event]][a] # Unwired}
    BY <1>0, <1>4 DEF Call
  <2>2. UNCHANGED <<agents, policy, wiring>>
    BY <1>4, Zenon DEF LookUp, dbVars
  <2> QED
    BY <2>1, <2>2 DEF WiringOf
<1>5. ASSUME NEW c \in calls, Visit(c), NEW b \in c.todo, d = Rest(c, b) PROVE Knows(d)'
  <2>1. /\ d.event = c.event /\ d.policy = c.policy /\ d.wires = c.wires
        /\ d.todo \subseteq c.todo
    BY <1>0, <1>5, RestCall
  <2>2. Knows(c)
    BY <1>5, VisitFrame DEF CallsKnow
  <2>3. UNCHANGED <<agents, policy, wiring>> /\ excused \subseteq excused'
        /\ outdated \subseteq outdated'
    BY <1>5, VisitFrame, ExcusedGrow
  <2> QED
    BY <2>1, <2>2, <2>3 DEF WiringOf
<1> HIDE DEF Knows
<1> QED
  BY <1>1, <1>2, <1>3, <1>4, <1>5, CallsNext, Zenon

-----------------------------------------------------------------------------
(* The cards.                                                              *)

\* The host only asks about a sender for an agent that would take the message,
\* unless ncl rewires it.
LEMMA AsksFitStep ==
  ASSUME TypeOK, AgentsFit, CallsKnow, AsksFit, [Next]_vars
  PROVE  AsksFit'
<1>0. /\ \A k \in asks : k.event \in Event /\ ChatOf[k.event] \in Chat
      /\ \A r \in senderCard : r.event \in Event
      /\ channelCard \in [Chat -> ChannelRow \cup {NoRow}]
  BY RoutingAssumption DEF TypeOK, Ask, SenderRow
<1>1. ASSUME NEW k \in asks', k.agent # NoAgent
      PROVE  Welcome(k.event, k.agent)' \/ k.event \in excused'
  <2>1. CASE k \in asks
    BY <1>0, <1>1, <2>1, PendingStays DEF AsksFit
  <2>2. ASSUME NEW c \in calls, Visit(c)
        PROVE  Welcome(k.event, k.agent)' \/ k.event \in excused'
    <3>1. PICK a \in c.todo : asks' = asks \cup Asked(c, a) /\ c \in Call
      BY <2>2, VisitPlaces
    <3>2. CASE k \in asks
      BY <2>1, <3>2
    <3>3. CASE k \in Asked(c, a)
      <4>1. /\ k.event = c.event /\ k.agent = a /\ Engages(c.wires[a], a, c.event)
        BY <3>3 DEF Asked
      <4>2. /\ a \in agents /\ c.wires[a] # Unwired /\ c.event \in Event
            /\ c.wires[a] = WiringOf(c.event, a) \/ c.event \in excused
        BY <2>2, <3>1, VisitFrame DEF CallsKnow, Call
      <4>3. Welcome(c.event, a) \/ c.event \in excused
        BY <4>1, <4>2 DEF Welcome, Wired
      <4> QED
        BY <4>1, <4>2, <4>3, PendingStays
    <3> QED
      BY <3>1, <3>2, <3>3
  <2>3. ASSUME NEW c \in calls, Unrouted(c) PROVE k \in asks
    <3>1. \/ asks' = asks
          \/ asks' = asks \cup {[event |-> c.event, agent |-> NoAgent,
                                 offers |-> FirstOffers]}
      BY <2>3 DEF Unrouted, AutoWire, RequestChannel
    <3> QED
      BY <1>1, <3>1
  <2> QED
    BY <2>1, <2>2, <2>3, Zenon
    DEF Next, Arrive, Capture, Pass, LookUp, Finish, AskSettles, Tap, Dispatch, Revoke,
        Rewire, Repolicy, Restart, vars, memVars
<1>2. ASSUME NEW r \in senderCard'
      PROVE  /\ Welcome(r.event, r.agent)' \/ r.event \in excused'
             /\ r.sender = SenderOf[r.event]
  <2>1. CASE r \in senderCard
    BY <1>0, <2>1, PendingStays DEF AsksFit
  <2>2. ASSUME NEW k \in asks, AskSettles(k)
        PROVE  /\ Welcome(r.event, r.agent)' \/ r.event \in excused'
               /\ r.sender = SenderOf[r.event]
    <3>1. \/ r \in senderCard
          \/ /\ k.agent # NoAgent
             /\ r = [id |-> issued, event |-> k.event, chat |-> ChatOf[k.event],
                     sender |-> SenderOf[k.event], agent |-> k.agent]
      BY <2>2 DEF AskSettles, ChannelAsk, SenderAsk, cardVars
    <3>2. k.agent # NoAgent => Welcome(k.event, k.agent)' \/ k.event \in excused'
      BY <1>0, PendingStays DEF AsksFit
    <3> QED
      BY <2>1, <3>1, <3>2
  <2>3. ASSUME NEW t \in clicks, Dispatch(t) PROVE r \in senderCard
    BY <2>3, Answered
  <2> QED
    BY <2>1, <2>2, <2>3, Zenon
    DEF Next, Arrive, Capture, Pass, Unrouted, LookUp, Visit, Finish, Tap, Revoke,
        Rewire, Repolicy, Restart, vars, cardVars
<1>3. ASSUME NEW c \in Chat, channelCard'[c] # NoRow
      PROVE  ChatOf[channelCard'[c].event] = c
  <2>1. CASE channelCard'[c] = channelCard[c]
    BY <1>3, <2>1 DEF AsksFit
  <2>2. ASSUME NEW d \in calls, Capture(d) PROVE channelCard'[c] = channelCard[c]
    <3>1. \/ channelCard' = channelCard
          \/ channelCard' = [channelCard EXCEPT ![naming[SenderOf[d.event]]] = NoRow]
      BY <2>2, Zenon DEF Capture
    <3> QED
      BY <1>0, <1>3, <3>1
  <2>3. ASSUME NEW k \in asks, AskSettles(k) PROVE ChatOf[channelCard'[c].event] = c
    <3>1. \/ channelCard' = channelCard
          \/ \E o \in Owner : channelCard' = [channelCard EXCEPT ![ChatOf[k.event]] =
               [event |-> k.event, approver |-> o, offers |-> k.offers]]
      BY <2>3 DEF AskSettles, ChannelAsk, SenderAsk, cardVars
    <3>2. ASSUME NEW o \in Owner,
                 channelCard' = [channelCard EXCEPT ![ChatOf[k.event]] =
                   [event |-> k.event, approver |-> o, offers |-> k.offers]]
          PROVE  ChatOf[channelCard'[c].event] = c
      <4>1. CASE c = ChatOf[k.event]
        <5>1. channelCard'[c] =
                [event |-> k.event, approver |-> o, offers |-> k.offers]
          BY <1>0, <3>2, <4>1
        <5>2. channelCard'[c].event = k.event
          BY <5>1
        <5> QED
          BY <4>1, <5>2
      <4>2. CASE c # ChatOf[k.event]
        BY <1>0, <2>1, <3>2, <4>2
      <4> QED
        BY <4>1, <4>2
    <3> QED
      BY <2>1, <3>1, <3>2
  <2>4. ASSUME NEW t \in clicks, Dispatch(t) PROVE ChatOf[channelCard'[c].event] = c
    <3>1. \/ channelCard' = channelCard
          \/ channelCard' = [channelCard EXCEPT ![t.card.chat] = NoRow]
          \/ /\ channelCard[t.card.chat] # NoRow
             /\ channelCard' = [channelCard EXCEPT ![t.card.chat].offers = AllOffers]
      BY <2>4, Answered
    <3>2. CASE /\ c = t.card.chat /\ channelCard[c] # NoRow
               /\ channelCard' = [channelCard EXCEPT ![c].offers = AllOffers]
      <4>1. channelCard'[c] = [channelCard[c] EXCEPT !.offers = AllOffers]
        BY <1>0, <3>2
      <4>2. channelCard'[c].event = channelCard[c].event
        BY <3>2, <4>1, PendingChannel DEF ChannelRow
      <4> QED
        BY <3>2, <4>2 DEF AsksFit
    <3> QED
      BY <1>0, <1>3, <2>1, <3>1, <3>2
  <2> QED
    BY <2>1, <2>2, <2>3, <2>4, Zenon
    DEF Next, Arrive, Pass, Unrouted, LookUp, Visit, Finish, Tap, Revoke, Rewire,
        Repolicy, Restart, vars, cardVars
<1> QED
  BY <1>1, <1>2, <1>3 DEF AsksFit

\* A button never names an agent that does not exist.
LEMMA OffersKnownStep ==
  ASSUME TypeOK, AgentsFit, OffersKnown, [Next]_vars
  PROVE  OffersKnown'
<1> DEFINE Sound(q) == \A i \in DOMAIN q : Offered(q[i])
<1>0. /\ \A o : Offered(o) => Offered(o)'
      /\ \A k \in asks : Sound(k.offers)
      /\ channelCard \in [Chat -> ChannelRow \cup {NoRow}]
  BY AgentsGrow DEF Offered, OffersKnown, TypeOK
<1>1. ASSUME NEW k \in asks' PROVE Sound(k.offers)
  <2>1. CASE k \in asks
    BY <1>0, <2>1
  <2>2. ASSUME NEW c \in calls, Visit(c) PROVE Sound(k.offers)
    <3>1. PICK a \in c.todo : asks' = asks \cup Asked(c, a)
      BY <2>2, VisitPlaces
    <3>2. k \in Asked(c, a) => k.offers = SenderOffers
      BY DEF Asked
    <3> QED
      BY <1>1, <2>1, <3>1, <3>2, OffersTyped
  <2>3. ASSUME NEW c \in calls, Unrouted(c) PROVE Sound(k.offers)
    <3>0. \/ asks' = asks
          \/ /\ agents # {}
             /\ asks' = asks \cup {[event |-> c.event, agent |-> NoAgent,
                                    offers |-> FirstOffers]}
      BY <2>3 DEF Unrouted, AutoWire, RequestChannel
    <3>1. k \in asks \/ (agents # {} /\ k.offers = FirstOffers)
      BY <1>1, <3>0
    <3> QED
      BY <2>1, <3>1, OffersTyped
  <2> HIDE DEF Sound
  <2> QED
    BY <1>1, <2>1, <2>2, <2>3, Zenon
    DEF Next, Arrive, Capture, Pass, LookUp, Finish, AskSettles, Tap, Dispatch, Revoke,
        Rewire, Repolicy, Restart, vars, memVars
<1>2. ASSUME NEW c \in Chat, channelCard'[c] # NoRow
      PROVE  Sound(channelCard'[c].offers)
  <2>1. CASE channelCard'[c] = channelCard[c]
    BY <1>2, <2>1 DEF OffersKnown
  <2>2. ASSUME NEW d \in calls, Capture(d) PROVE channelCard'[c] = channelCard[c]
    <3>1. \/ channelCard' = channelCard
          \/ channelCard' = [channelCard EXCEPT ![naming[SenderOf[d.event]]] = NoRow]
      BY <2>2, Zenon DEF Capture
    <3> QED
      BY <1>0, <1>2, <3>1
  <2>3. ASSUME NEW k \in asks, AskSettles(k) PROVE Sound(channelCard'[c].offers)
    <3>1. \/ channelCard' = channelCard
          \/ \E o \in Owner : channelCard' = [channelCard EXCEPT ![ChatOf[k.event]] =
               [event |-> k.event, approver |-> o, offers |-> k.offers]]
      BY <2>3 DEF AskSettles, ChannelAsk, SenderAsk, cardVars
    <3>2. channelCard'[c] = channelCard[c] \/ channelCard'[c].offers = k.offers
      <4>1. ASSUME NEW o \in Owner,
                   channelCard' = [channelCard EXCEPT ![ChatOf[k.event]] =
                     [event |-> k.event, approver |-> o, offers |-> k.offers]]
            PROVE  channelCard'[c] = channelCard[c] \/ channelCard'[c].offers = k.offers
        <5>1. CASE c = ChatOf[k.event]
          <6>1. channelCard'[c] =
                  [event |-> k.event, approver |-> o, offers |-> k.offers]
            BY <1>0, <4>1, <5>1
          <6> QED
            BY <6>1
        <5>2. CASE c # ChatOf[k.event]
          BY <1>0, <4>1, <5>2
        <5> QED
          BY <5>1, <5>2
      <4> QED
        BY <3>1, <4>1
    <3> QED
      BY <1>0, <2>1, <3>2
  <2>4. ASSUME NEW t \in clicks, Dispatch(t) PROVE Sound(channelCard'[c].offers)
    <3>1. \/ channelCard' = channelCard
          \/ channelCard' = [channelCard EXCEPT ![t.card.chat] = NoRow]
          \/ /\ channelCard[t.card.chat] # NoRow
             /\ channelCard' = [channelCard EXCEPT ![t.card.chat].offers = AllOffers]
      BY <2>4, Answered
    <3>2. CASE /\ c = t.card.chat /\ channelCard[c] # NoRow
               /\ channelCard' = [channelCard EXCEPT ![c].offers = AllOffers]
      <4>1. channelCard'[c] = [channelCard[c] EXCEPT !.offers = AllOffers]
        BY <1>0, <3>2
      <4>2. channelCard'[c].offers = AllOffers
        BY <3>2, <4>1, PendingChannel DEF ChannelRow
      <4> QED
        BY <4>2, OffersTyped
    <3>3. channelCard'[c] = channelCard[c] \/ c = t.card.chat
      BY <1>0, <3>1
    <3> QED
      BY <1>0, <1>2, <2>1, <3>1, <3>2, <3>3
  <2> HIDE DEF Sound
  <2> QED
    BY <2>1, <2>2, <2>3, <2>4, Zenon
    DEF Next, Arrive, Pass, Unrouted, LookUp, Visit, Finish, Tap, Revoke, Rewire,
        Repolicy, Restart, vars, cardVars
<1>3. ASSUME NEW t \in clicks' PROVE Offered(t.value)
  <2>1. CASE t \in clicks
    BY <2>1 DEF OffersKnown
  <2>2. ASSUME NEW k \in screen, NEW i \in DOMAIN k.offers, Tap(k, i), t \notin clicks
        PROVE  Offered(t.value)
    <3>1. t.value = Value(k, i)
      BY <1>3, <2>2 DEF Tap
    <3>2. CASE i \notin DOMAIN Rendered(k)
      BY <3>1, <3>2 DEF Value, Offered
    <3>3. CASE i \in DOMAIN Rendered(k)
      <4>1. k.chat \in Chat
        BY DEF TypeOK, Card
      <4>2. \/ Rendered(k) = SenderOffers \/ Rendered(k) = <<>>
            \/ /\ channelCard[k.chat] # NoRow
               /\ Rendered(k) = channelCard[k.chat].offers
        BY DEF Rendered
      <4>3. Sound(Rendered(k))
        BY <3>3, <4>1, <4>2, OffersTyped DEF OffersKnown
      <4> QED
        BY <3>1, <3>3, <4>3 DEF Value
    <3> QED
      BY <3>2, <3>3
  <2> QED
    BY <1>3, <2>1, <2>2, Zenon
    DEF Next, Arrive, Capture, Pass, Unrouted, LookUp, Visit, Finish, AskSettles,
        Dispatch, Revoke, Rewire, Repolicy, Restart, vars, memVars
<1> QED
  BY <1>0, <1>1, <1>2, <1>3 DEF OffersKnown

-----------------------------------------------------------------------------
(* Replays.                                                                *)

\* Members are removed by `ncl members remove` only, which excuses the replays
\* of that agent.
LEMMA MembersStay ==
  ASSUME TypeOK, AgentsFit, [Next]_vars, NEW c \in calls,
         CanAccess(SenderOf[c.event], c.for)
  PROVE  c.event \in excused' \/ CanAccess(SenderOf[c.event], c.for)'
<1>1. ASSUME NEW m \in members, Revoke(m)
      PROVE  c.event \in excused' \/ CanAccess(SenderOf[c.event], c.for)'
  <2>1. CASE c.for = m[2]
    BY <1>1, <2>1 DEF Revoke
  <2>2. CASE c.for # m[2]
    <3>1. m # <<SenderOf[c.event], c.for>>
      BY <2>2
    <3> QED
      BY <1>1, <3>1 DEF Revoke, CanAccess
  <2> QED
    BY <2>1, <2>2
<1>2. CASE members \subseteq members'
  BY <1>2 DEF CanAccess
<1>3. ASSUME NEW t \in clicks, Dispatch(t) PROVE members \subseteq members'
  BY <1>3, Answered
<1>4. ASSUME NEW d \in calls, Capture(d) PROVE members \subseteq members'
  BY <1>4, Zenon DEF Capture
<1> QED
  BY <1>1, <1>2, <1>3, <1>4, Zenon
  DEF Next, Arrive, Pass, Unrouted, LookUp, Visit, Finish, AskSettles, Tap, Rewire,
      Repolicy, Restart, vars, dbVars

\* Nothing undoes the arrival of a message, or an excuse for it.
LEMMA SettledStays ==
  ASSUME TypeOK, AgentsFit, [Next]_vars, NEW e, NEW a, Settled(e, a)
  PROVE  Settled(e, a)'
BY SessionsGrow, ExcusedGrow DEF Settled, Reached

\* The loop hands a replayed message to the agent the approval was for.
LEMMA ReplayVisited ==
  ASSUME TypeOK, AgentsFit, CallsKnow, ReplaysFit, [Next]_vars, NEW c \in calls,
         Visit(c), c.for # NoAgent,
         NEW a \in c.todo, a = c.for, Rest(c, a) \in calls', Rest(c, a) \notin calls
  PROVE  Settled(c.event, a)'
<1>1. c \in Call /\ Rest(c, a).todo = c.todo \ {a}
  BY RestCall DEF TypeOK
<1>2. \/ c.event \in excused
      \/ /\ Welcome(c.event, a) /\ CanAccess(SenderOf[c.event], a)
         /\ c.wires[a] = WiringOf(c.event, a)
  BY VisitFrame DEF ReplaysFit, CallsKnow
<1>3. CASE c.event \in excused
  BY <1>3, SettledStays DEF Settled
<1>4. CASE /\ Welcome(c.event, a) /\ CanAccess(SenderOf[c.event], a)
           /\ c.wires[a] = WiringOf(c.event, a)
  <2>1. Taken(c, a)
    BY <1>4 DEF Welcome, Taken, Allowed, AccessOk, ScopeOk
  <2>2. PICK b \in c.todo :
          \/ ~Taken(c, b) /\ calls' = (calls \ {c}) \cup {Rest(c, b)}
          \/ /\ c.event \in Refused
             /\ calls' \in {calls \ {c}, (calls \ {c}) \cup {Rest(c, b)}}
          \/ \E i : /\ rows' = rows \cup {[event |-> c.event, agent |-> b,
                                           session |-> i,
                                           trigger |-> Allowed(c, b),
                                           mode |-> c.wires[b].session]}
                    /\ calls' = (calls \ {c}) \cup {Rest(c, b)}
          \/ calls' = calls \ {c}
    BY VisitPlaces
  <2>3. calls' = (calls \ {c}) \cup {Rest(c, b)} /\ Rest(c, a) = Rest(c, b)
    BY <2>2
  <2>4. a = b
    BY <1>1, <2>3, RestCall
  <2>5. \/ c.event \in Refused
        \/ \E i : rows' = rows \cup {[event |-> c.event, agent |-> a,
                                      session |-> i,
                                      trigger |-> Allowed(c, a),
                                      mode |-> c.wires[a].session]}
    BY <2>1, <2>2, <2>3, <2>4
  <2>6. CASE c.event \in Refused
    BY <2>6 DEF Settled
  <2>7. ASSUME NEW i,
               rows' = rows \cup {[event |-> c.event, agent |-> a,
                                   session |-> i,
                                   trigger |-> Allowed(c, a),
                                   mode |-> c.wires[a].session]}
        PROVE  Settled(c.event, a)'
    <3> DEFINE r == [event |-> c.event, agent |-> a, session |-> i,
                     trigger |-> Allowed(c, a), mode |-> c.wires[a].session]
    <3>1. r \in rows' /\ r.event = c.event /\ r.agent = a
      BY <2>7
    <3> HIDE DEF r
    <3> QED
      BY <3>1 DEF Settled, Reached
  <2> QED
    BY <2>5, <2>6, <2>7
<1> QED
  BY <1>2, <1>3, <1>4

\* A replay stays one the agent it is for would take.
LEMMA ReplaysFitStep ==
  ASSUME TypeOK, AgentsFit, CallsKnow, AsksFit, OffersKnown, ReplaysFit, [Next]_vars
  PROVE  ReplaysFit'
<1> DEFINE Fit(d) ==
      \/ d.event \in excused
      \/ /\ Welcome(d.event, d.for) /\ CanAccess(SenderOf[d.event], d.for)
         /\ d.stage \in {"looked", "looping"} =>
              d.for \in d.todo \/ Settled(d.event, d.for)
<1> SUFFICES ASSUME NEW d \in calls', d.for # NoAgent PROVE Fit(d)'
  BY DEF ReplaysFit
<1>0. \A c \in calls : c \in Call /\ c.event \in Event
  BY DEF TypeOK, Call
<1>1. ASSUME NEW c \in calls, c.for # NoAgent
      PROVE  /\ \/ c.event \in excused'
                \/ Welcome(c.event, c.for)' /\ CanAccess(SenderOf[c.event], c.for)'
             /\ Settled(c.event, c.for) => Settled(c.event, c.for)'
  <2>1. \/ c.event \in excused
        \/ Welcome(c.event, c.for) /\ CanAccess(SenderOf[c.event], c.for)
    BY <1>1 DEF ReplaysFit
  <2>2. CASE c.event \in excused
    BY <2>2, ExcusedGrow, SettledStays
  <2>3. CASE Welcome(c.event, c.for) /\ CanAccess(SenderOf[c.event], c.for)
    <3>1. Welcome(c.event, c.for)' \/ c.event \in excused'
      BY <1>0, <2>3, PendingStays
    <3> QED
      BY <2>3, <3>1, MembersStay, SettledStays
  <2> QED
    BY <2>1, <2>2, <2>3
<1>2. CASE d \in calls
  <2>1. \/ d.event \in excused
        \/ d.stage \in {"looked", "looping"} =>
             d.for \in d.todo \/ Settled(d.event, d.for)
    BY <1>2 DEF ReplaysFit
  <2> QED
    BY <1>1, <1>2, <2>1, ExcusedGrow
<1>3. CASE Begins(d)
  <2>1. PICK e \in Event, a \in Agent \cup {NoAgent} :
          /\ d = CallOf(e, a)
          /\ a # NoAgent => \/ e \in excused'
                            \/ Welcome(e, a)' /\ CanAccess(SenderOf[e], a)'
    BY <1>3 DEF Begins
  <2>2. d.event = e /\ d.for = a /\ d.stage = "called"
    BY <2>1, NewCall
  <2> QED
    BY <2>1, <2>2
<1>4. ASSUME NEW c \in calls, d = [c EXCEPT !.stage = "passed"] PROVE Fit(d)'
  <2>1. d.event = c.event /\ d.for = c.for /\ d.stage = "passed"
    BY <1>0, <1>4 DEF Call
  <2> QED
    BY <1>1, <2>1
<1>5. ASSUME NEW c \in calls,
             d = [c EXCEPT !.stage = "looked",
                           !.policy = policy[ChatOf[c.event]],
                           !.wires = wiring[ChatOf[c.event]],
                           !.todo = {a \in agents :
                             wiring[ChatOf[c.event]][a] # Unwired}]
      PROVE  Fit(d)'
  <2>1. /\ d.event = c.event /\ d.for = c.for
        /\ d.todo = {a \in agents : wiring[ChatOf[c.event]][a] # Unwired}
    BY <1>0, <1>5 DEF Call
  <2>2. d.for \in d.todo \/ c.event \in excused
    BY <2>1 DEF ReplaysFit, Welcome, Wired, WiringOf
  <2> QED
    BY <1>1, <2>1, <2>2, ExcusedGrow
<1>6. ASSUME NEW c \in calls, Visit(c), NEW b \in c.todo, d = Rest(c, b), d \notin calls
      PROVE  Fit(d)'
  <2>1. /\ d.event = c.event /\ d.for = c.for /\ d.todo = c.todo \ {b}
    BY <1>0, <1>6, RestCall
  <2>2. c.for \in c.todo \/ Settled(c.event, c.for)
    BY <1>6, <2>1, VisitFrame DEF ReplaysFit, Settled
  <2>3. CASE c.for = b
    <3>1. Settled(c.event, b)'
      BY <1>6, <2>1, <2>3, ReplayVisited
    <3> QED
      BY <1>1, <2>1, <2>3, <3>1
  <2>4. CASE c.for # b
    BY <1>1, <2>1, <2>2, <2>4
  <2> QED
    BY <2>3, <2>4
<1> HIDE DEF Fit
<1> QED
  BY <1>2, <1>3, <1>4, <1>5, <1>6, CallsNext, Zenon

\* A replay goes on, or its message has arrived or is excused.
LEMMA ReplayEnds ==
  ASSUME TypeOK, AgentsFit, ReplaysFit, [Next]_vars, NEW c \in calls, c.for # NoAgent
  PROVE  \/ \E d \in calls' : d.event = c.event /\ d.for = c.for
         \/ Settled(c.event, c.for)'
<1> DEFINE Goal == \/ \E d \in calls' : d.event = c.event /\ d.for = c.for
                   \/ Settled(c.event, c.for)'
<1>0. c \in Call
  BY DEF TypeOK
<1>1. CASE c \in calls'
  BY <1>1
<1>2. CASE c.event \in excused'
  BY <1>2 DEF Settled
<1>3. ASSUME NEW d \in calls, Capture(d) PROVE Goal
  BY <1>1, <1>2, <1>3, Zenon DEF Capture
<1>4. ASSUME NEW d \in calls, Pass(d) PROVE Goal
  <2>1. CASE c = d
    <3> DEFINE n == [c EXCEPT !.stage = "passed"]
    <3>1. n \in calls' /\ n.event = c.event /\ n.for = c.for
      BY <1>0, <1>4, <2>1 DEF Pass, Call
    <3> QED
      BY <3>1
  <2> QED
    BY <1>1, <1>4, <2>1 DEF Pass
<1>5. ASSUME NEW d \in calls, Unrouted(d) PROVE Goal
  <2>1. c # d \/ c.event \in excused'
    BY <1>5, ExcusedGrow DEF ReplaysFit, Welcome, Wired, WiringOf, Unrouted
  <2> QED
    BY <1>1, <1>2, <1>5, <2>1 DEF Unrouted, AutoWire, RequestChannel
<1>6. ASSUME NEW d \in calls, LookUp(d) PROVE Goal
  <2>1. CASE c = d
    <3> DEFINE n == [c EXCEPT !.stage = "looked", !.policy = policy[ChatOf[c.event]],
                              !.wires = wiring[ChatOf[c.event]],
                              !.todo = {a \in agents :
                                wiring[ChatOf[c.event]][a] # Unwired}]
    <3>1. n \in calls'
      BY <1>6, <2>1, Zenon DEF LookUp
    <3>2. n.event = c.event /\ n.for = c.for
      BY <1>0 DEF Call
    <3> HIDE DEF n
    <3> QED
      BY <3>1, <3>2
  <2> QED
    BY <1>1, <1>6, <2>1, Zenon DEF LookUp
<1>7. ASSUME NEW d \in calls, Visit(d) PROVE Goal
  <2>0. PICK a \in d.todo :
          \/ calls' = (calls \ {d}) \cup {Rest(d, a)}
          \/ d \in Call /\ DeliverTo(d, a, Allowed(d, a), Rest(d, a))
    BY <1>7, Visited DEF TypeOK
  <2>1. \/ calls' = (calls \ {d}) \cup {Rest(d, a)}
        \/ /\ \E r \in rows : r.event = d.event /\ r.agent = a
           /\ calls' = calls \ {d} /\ rows' = rows
           /\ excused' = IF d.for # a THEN excused \cup {d.event} ELSE excused
        \/ d.event \in Refused /\ calls' = calls \ {d}
    <3>1. CASE calls' = (calls \ {d}) \cup {Rest(d, a)}
      BY <3>1
    <3>2. CASE DeliverTo(d, a, Allowed(d, a), Rest(d, a))
      BY <3>2 DEF DeliverTo
    <3> QED
      BY <2>0, <3>1, <3>2
  <2>2. CASE c # d
    BY <1>1, <2>1, <2>2
  <2>3. CASE c = d /\ calls' = (calls \ {d}) \cup {Rest(d, a)}
    <3>1. Rest(c, a).event = c.event /\ Rest(c, a).for = c.for
      BY <1>0, RestCall
    <3> QED
      BY <2>3, <3>1
  <2>4. CASE c = d /\ c.for # a /\ excused' = excused \cup {d.event}
    BY <1>2, <2>4
  <2>5. CASE /\ c = d /\ c.for = a /\ rows' = rows
             /\ \E r \in rows : r.event = d.event /\ r.agent = a
    BY <2>5 DEF Settled, Reached
  <2>6. CASE c = d /\ d.event \in Refused
    BY <2>6 DEF Settled
  <2> QED
    BY <2>1, <2>2, <2>3, <2>4, <2>5, <2>6
<1>8. ASSUME NEW d \in calls, Finish(d) PROVE Goal
  <2>1. CASE c = d
    <3>1. Settled(c.event, c.for)
      BY <1>8, <2>1 DEF Finish, ReplaysFit, Settled
    <3> QED
      BY <3>1, SettledStays
  <2> QED
    BY <1>1, <1>8, <2>1 DEF Finish
<1>9. ASSUME NEW t \in clicks, Dispatch(t) PROVE Goal
  BY <1>1, <1>9, Answered
<1>10. CASE Restart
  BY <1>2, <1>10 DEF Restart
<1> HIDE DEF Goal
<1>11. c \in calls' => Goal
  BY DEF Goal
<1> QED
  BY <1>3, <1>4, <1>5, <1>6, <1>7, <1>8, <1>9, <1>10, <1>11
  DEF Goal, Next, Arrive, AskSettles, Tap, Revoke, Rewire, Repolicy, vars

\* An approval starts the replay it promises.
LEMMA GrantStarts ==
  ASSUME TypeOK, AgentsFit, [Next]_vars, NEW e \in Event, NEW a \in Agent,
         <<e, a>> \in granted', <<e, a>> \notin granted
  PROVE  \E d \in calls' : d.event = e /\ d.for = a
<1>1. CallOf(e, a).event = e /\ CallOf(e, a).for = a
  BY NewCall
<1>2. CASE CallOf(e, a) \in calls'
  BY <1>1, <1>2
<1>3. ASSUME NEW c \in calls, Capture(c) PROVE CallOf(e, a) \in calls'
  <2>1. \/ granted' = granted
        \/ \E x, y : granted' = granted \cup {<<x, y>>} /\ CallOf(x, y) \in calls'
    BY <1>3, Zenon DEF Capture
  <2> QED
    BY <2>1
<1>4. ASSUME NEW t \in clicks, Dispatch(t) PROVE CallOf(e, a) \in calls'
  <2>1. \/ granted' = granted
        \/ \E x, y : granted' = granted \cup {<<x, y>>} /\ CallOf(x, y) \in calls'
    BY <1>4, Answered
  <2> QED
    BY <2>1
<1> QED
  BY <1>2, <1>3, <1>4, Zenon
  DEF Next, Arrive, Pass, Unrouted, LookUp, Visit, Finish, AskSettles, Tap, Revoke, Rewire,
      Repolicy, Restart, vars, histVars

\* Every step keeps the promise of every approval.
LEMMA ArrivesStep ==
  ASSUME TypeOK, AgentsFit, ReplaysFit, ApprovedArrives, [Next]_vars
  PROVE  ApprovedArrives'
<1> SUFFICES ASSUME NEW e \in Event, NEW a \in Agent, <<e, a>> \in granted'
             PROVE  Replaying(e, a)' \/ Settled(e, a)'
  <2>1. granted' \subseteq Event \X Agent
    BY TypeStep DEF TypeOK
  <2> QED
    BY <2>1 DEF ApprovedArrives, Settled
<1>1. CASE <<e, a>> \notin granted
  BY <1>1, GrantStarts DEF Replaying
<1>2. CASE <<e, a>> \in granted
  <2>1. Replaying(e, a) \/ Settled(e, a)
    BY <1>2 DEF ApprovedArrives, Settled
  <2>2. CASE Settled(e, a)
    BY <2>2, SettledStays
  <2>3. CASE Replaying(e, a)
    <3>1. PICK c \in calls : c.event = e /\ c.for = a
      BY <2>3 DEF Replaying
    <3>2. c.for # NoAgent
      BY <3>1, RoutingAssumption
    <3>3. \/ \E d \in calls' : d.event = c.event /\ d.for = c.for
          \/ Settled(c.event, c.for)'
      BY <3>2, ReplayEnds
    <3> QED
      BY <3>1, <3>3 DEF Replaying
  <2> QED
    BY <2>1, <2>2, <2>3
<1> QED
  BY <1>1, <1>2

-----------------------------------------------------------------------------
(* The invariant holds.                                                    *)

\* At the start nothing has been routed, asked or approved.
LEMMA InvInit == Init => Inv
<1> SUFFICES ASSUME Init PROVE Inv
  OBVIOUS
<1>1. TypeOK
  <2>1. sessions \in Seq(Session) /\ rows \subseteq Row
    BY DEF Init
  <2>2. channelCard \in [Chat -> ChannelRow \cup {NoRow}]
    BY DEF Init
  <2>3. naming \in [Owner -> Chat \cup {NoChat}]
    BY DEF Init
  <2>4. /\ agents \subseteq Agent /\ policy \in [Chat -> Policy \cup {"unknown"}]
        /\ wiring \in [Chat -> [Agent -> Wiring \cup {Unwired}]]
    BY RoutingAssumption DEF Init
  <2>5. arrived \subseteq Event
    BY DEF Init
  <2> QED
    BY <2>1, <2>2, <2>3, <2>4, <2>5 DEF Init, TypeOK
<1>2. AgentsFit
  BY RoutingAssumption DEF Init, AgentsFit
<1>3. CallsKnow /\ RowsFit /\ RowsKeyed /\ ReplaysFit /\ ApprovedArrives
  BY DEF Init, CallsKnow, RowsFit, RowsKeyed, ReplaysFit, ApprovedArrives
<1>4. NoTwins
  <2>1. 1 .. Len(sessions) = {}
    BY DEF Init
  <2> QED
    BY <2>1 DEF NoTwins
<1>5. AsksFit /\ OffersKnown
  <2>1. \A c \in Chat : channelCard[c] = NoRow
    BY DEF Init
  <2> QED
    BY <2>1 DEF Init, AsksFit, OffersKnown
<1> QED
  BY <1>1, <1>2, <1>3, <1>4, <1>5 DEF Inv

\* Every step of the host keeps it.
LEMMA InvStep == Inv /\ [Next]_vars => Inv'
BY TypeStep, AgentsGrow, CallsKnowStep, RowsStep, AsksFitStep, OffersKnownStep,
   ReplaysFitStep, ArrivesStep DEF Inv

\* So it holds in every reachable state.
LEMMA InvAlways == Spec => []Inv
BY InvInit, InvStep, PTL DEF Spec

-----------------------------------------------------------------------------
(* The theorems.                                                           *)

\* Every variable keeps its type: in particular every row names a session that
\* exists, every tap a card and every call an agent of the installation.
THEOREM TypeCorrect == Spec => []TypeOK
<1>1. Inv => TypeOK
  BY DEF Inv
<1> QED
  BY <1>1, InvAlways, PTL

\* Fan-out never puts a message into another agent's session, nor, unless the
\* agent has one session over all chats, into that of another chat or of
\* another thread, whatever sessions are created while the call awaits.
THEOREM SessionsRight == Spec => []RightSession
<1>1. ASSUME TypeOK, RowsFit, NEW r \in rows
      PROVE  LET s == sessions[r.session] IN
             /\ s.agent = r.agent
             /\ \/ r.mode = "agent-shared"
                \/ s.chat = ChatOf[r.event] /\ s.thread \in {0, Thread(r.event)}
  <2>1. /\ sessions[r.session].agent = r.agent
        /\ r.mode # "agent-shared" =>
             sessions[r.session] = [agent |-> r.agent, chat |-> ChatOf[r.event],
                                    thread |-> SessionThread(r.mode, r.event)]
    BY <1>1 DEF RowsFit
  <2>2. SessionThread(r.mode, r.event) \in {0, Thread(r.event)}
    BY DEF SessionThread
  <2> QED
    BY <2>1, <2>2
<1>2. Inv => RightSession
  BY <1>1 DEF Inv, RightSession
<1> QED
  BY <1>2, InvAlways, PTL

\* However often approvals replay an event, an agent that has a session per chat
\* or per thread gets it once as long as ncl does not change that mode: both
\* copies would lie in the one session the mode names, where event and agent are
\* the key of a row.
THEOREM EventsSeenOnce == Spec => []SeenOnce
<1>1. ASSUME TypeOK, NoTwins, RowsFit, RowsKeyed,
             NEW r1 \in rows, NEW r2 \in rows, r1.event = r2.event, r1.agent = r2.agent,
             r1.mode = r2.mode, r1.mode # "agent-shared"
      PROVE  r1 = r2
  <2>1. r1.session \in 1 .. Len(sessions) /\ r2.session \in 1 .. Len(sessions)
    BY <1>1 DEF TypeOK, Row
  <2>2. sessions[r1.session] = sessions[r2.session]
    BY <1>1 DEF RowsFit
  <2>3. r1.session = r2.session
    BY <1>1, <2>1, <2>2 DEF NoTwins
  <2> QED
    BY <1>1, <2>3 DEF RowsKeyed
<1>2. Inv => SeenOnce
  BY <1>1 DEF Inv, SeenOnce
<1> QED
  BY <1>2, InvAlways, PTL

\* A message an approver has let through is being replayed, or has arrived, or
\* was held back or cut short by what ApprovedArrives lists, and by nothing else.
THEOREM ApprovalsArrive == Spec => []ApprovedArrives
<1>1. Inv => ApprovedArrives
  BY DEF Inv
<1> QED
  BY <1>1, InvAlways, PTL

\* No row wakes an agent for a sender who may not talk to it at that moment,
\* although the call read the chat's policy and wirings before it awaited: only
\* if ncl changed those while the message was in the loop.
THEOREM AdmittedOnly == Spec => OnlyTheAdmitted
<1>1. ASSUME Inv, [Next]_vars, NEW r \in rows', r \notin rows, r.trigger
      PROVE  \/ CanAccess(SenderOf[r.event], r.agent)
             \/ /\ policy[ChatOf[r.event]] = "public"
                /\ ~wiring[ChatOf[r.event]][r.agent].known
             \/ r.event \in outdated
  <2>0. TypeOK /\ CallsKnow
    BY <1>1 DEF Inv
  <2>1. PICK c \in calls : \E a \in c.todo :
          /\ Visit(c) /\ c \in Call /\ c.stage \in {"looked", "looping"}
          /\ c.wires[a] = WiringOf(c.event, a) \/ c.event \in outdated
          /\ Allowed(c, a) \in BOOLEAN
          /\ \E i \in 1 .. Len(sessions') :
               /\ r = [event |-> c.event, agent |-> a, session |-> i,
                       trigger |-> Allowed(c, a), mode |-> c.wires[a].session]
               /\ rows' = rows \cup {r}
               /\ ~\E s \in rows : s.event = c.event /\ s.agent = a /\ s.session = i
               /\ sessions'[i].agent = a
               /\ c.wires[a].session # "agent-shared" =>
                    sessions'[i] =
                      [agent |-> a, chat |-> ChatOf[c.event],
                       thread |-> SessionThread(c.wires[a].session, c.event)]
    BY <1>1, <2>0, NewRow
  <2>2. PICK a \in c.todo :
          /\ c.stage \in {"looked", "looping"}
          /\ c.wires[a] = WiringOf(c.event, a) \/ c.event \in outdated
          /\ Allowed(c, a) \in BOOLEAN
          /\ \E i \in 1 .. Len(sessions') :
               r = [event |-> c.event, agent |-> a, session |-> i,
                    trigger |-> Allowed(c, a), mode |-> c.wires[a].session]
    BY <2>1
  <2>3. r.event = c.event /\ r.agent = a /\ r.trigger = Allowed(c, a)
    <3> HIDE DEF Allowed
    <3> QED
      BY <2>2
  <2>4. Allowed(c, a)
    BY <1>1, <2>3, Zenon
  <2>5. AccessOk(c, a) /\ ScopeOk(c, a)
    BY <2>4 DEF Allowed
  <2>6. c.policy = "public" => policy[ChatOf[c.event]] = "public" \/ c.event \in outdated
    BY <2>0, <2>2 DEF CallsKnow
  <2> QED
    BY <2>2, <2>3, <2>5, <2>6 DEF AccessOk, ScopeOk, WiringOf
<1>2. Inv /\ [Next]_vars => [Admitted]_vars
  BY <1>1 DEF Admitted
<1> QED
  BY <1>2, InvAlways, PTL DEF Spec, OnlyTheAdmitted
=============================================================================
