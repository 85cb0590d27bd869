------------------------------- MODULE Routing -------------------------------
(***************************************************************************)
(* An inbound message on its way to the sessions of the agents wired to    *)
(* its chat (router.ts, session-manager.ts), and what stops it: the gates  *)
(* on its sender, the approval cards for unknown senders and unknown       *)
(* channels, and the reply that names a new agent (modules/permissions,    *)
(* approvals/primitive.ts, the button handler of chat-sdk-bridge.ts).      *)
(*                                                                         *)
(* The host is one thread.  A call of routeInbound is a record of `calls`; *)
(* a call in stage "called" or "looked" is what the thread is executing,   *)
(* so every other step waits for it (Idle).  Between agents the call       *)
(* awaits, with its wirings and its messaging group read before the loop.  *)
(***************************************************************************)
EXTENDS Naturals, FiniteSets, Sequences

CONSTANTS
  Agent,      \* agent groups, numbered so that the fan-out visits the highest first
  NoAgent,
  Chat,       \* messaging groups, by platform id
  NoChat,
  Group,      \* those that are not DMs
  Threaded,   \* those of a channel whose adapter supports threads
  User,
  NoUser,     \* the sender of an event that names none
  Owner,      \* users with owner or global admin role: the approvers
  DmOf,       \* [Owner -> Chat]
  Event,
  SenderOf, ChatOf, ThreadOf, \* functions on Event; thread 0 is null
  Mention,    \* events that mention the bot
  Matching,   \* events the engage_pattern of a "pattern" wiring matches
  Refused,    \* slash commands that gateCommand filters or denies
  Denied,     \* those it denies
  Blank,      \* events without text
  AutoAgent,  \* what DEFAULT_CHANNEL_AGENT_FOLDER may name when .env is read
  FirstAgents, FirstWiring, FirstPolicy, \* the installation's set-up
  Workload,   \* sets of events, one of which a behaviour is made of
  Rewirings,  \* <<chat, agent, wiring>> that `ncl wirings` may set, Unwired to delete
  Repolicies, \* <<chat, policy>> that `ncl messaging-groups update` may set
  MaxRestarts \* bound on host restarts and ncl commands

Wiring == [mode   : {"mention", "sticky", "pattern", "always"},
           known  : BOOLEAN,  \* sender_scope = 'known'
           keep   : BOOLEAN,  \* ignored_message_policy = 'accumulate'
           session: {"shared", "per-thread", "agent-shared"}]
Unwired == [mode |-> "none", known |-> FALSE, keep |-> FALSE, session |-> "none"]
Policy == {"public", "strict", "request_approval"}

ASSUME RoutingAssumption ==
  /\ Agent \subseteq Nat /\ NoAgent \notin Agent /\ NoChat \notin Chat
  /\ Group \subseteq Chat /\ Threaded \subseteq Chat
  /\ NoUser \in User /\ Owner \subseteq User \ {NoUser}
  /\ DmOf \in [Owner -> Chat \ Group]
  /\ SenderOf \in [Event -> User] /\ ChatOf \in [Event -> Chat]
  /\ ThreadOf \in [Event -> Nat]
  /\ Mention \subseteq Event /\ Matching \subseteq Event
  /\ Refused \subseteq Event /\ Denied \subseteq Refused /\ Blank \subseteq Event
  /\ FirstAgents \subseteq Agent /\ IsFiniteSet(FirstAgents)
  /\ AutoAgent \subseteq FirstAgents \cup {NoAgent}
  /\ FirstWiring \in [Chat -> [Agent -> Wiring \cup {Unwired}]]
  /\ FirstPolicy \in [Chat -> Policy \cup {"unknown"}]
  /\ Workload \subseteq SUBSET Event
  /\ Rewirings \subseteq Chat \X Agent \X (Wiring \cup {Unwired})
  /\ Repolicies \subseteq Chat \X Policy
  /\ MaxRestarts \in Nat

VARIABLES
  \* the central database
  agents,      \* agent_groups
  policy,      \* messaging_groups.unknown_sender_policy; "unknown" without a row
  denied,      \* chats with denied_at
  wiring,      \* messaging_group_agents
  members,     \* agent_group_members, pairs <<user, agent>>
  sessions,    \* sequence of [agent, chat, thread], oldest first
  senderCard,  \* pending_sender_approvals
  channelCard, \* pending_channel_approvals, by chat
  dropped,     \* events of dropped_messages
  \* the sessions' inbound databases
  rows,        \* messages_in; `mode` is history, the session_mode of the wiring used
  \* host memory
  calls,       \* routeInbound calls
  asks,        \* approval requests waiting for the approver's DM
  naming,      \* awaitingNameInput, by approver
  issued,      \* numbers the cards of senders, whose ids are never reused
  clicks,      \* taps the bridge has resolved and not yet dispatched
  \* the approver's screen
  screen,      \* cards with buttons
  \* bounds and history
  arrived, restarts,
  granted,     \* <<event, agent>> whose replay an approval has started
  excused,     \* events whose replay was cut, captured, broken off or rewired,
               \* or that come from nobody the gates can know
  outdated     \* events whose call went on after ncl changed its chat's settings

dbVars == <<agents, policy, denied, wiring, members, sessions, dropped>>
cardVars == <<senderCard, channelCard>>
memVars == <<asks, naming, clicks, issued>>
histVars == <<arrived, restarts, granted, excused, outdated>>
vars == <<dbVars, cardVars, rows, calls, memVars, screen, histVars>>

Session == [agent : Agent, chat : Chat, thread : Nat]
Row == [event : Event, agent : Agent, session : 1 .. Len(sessions), trigger : BOOLEAN,
        mode : {w.session : w \in Wiring \cup {Unwired}}]
SenderRow == [id : Nat, event : Event, chat : Chat, sender : User, agent : Agent]
Offer == {<<"connect", a>> : a \in Agent}
           \cup {<<o, NoAgent>> : o \in {"choose", "new", "reject", "approve", "deny"}}
ChannelRow == [event : Event, approver : Owner, offers : Seq(Offer)]
NoRow == [event |-> {}]
Call == [event : Event, for : Agent \cup {NoAgent},
         stage : {"called", "passed", "looked", "looping"}, hits : BOOLEAN,
         todo : SUBSET Agent, policy : Policy \cup {"unknown"},
         wires : [Agent -> Wiring \cup {Unwired}]]
Ask == [event : Event, agent : Agent \cup {NoAgent}, offers : Seq(Offer)]
Card == [id : Nat, chat : Chat, offers : Seq(Offer)]
Click == [card : Card, meant : Offer, value : Offer \cup {<<"index", NoAgent>>}]

Idle == \A c \in calls : c.stage \in {"passed", "looping"}

-----------------------------------------------------------------------------
(* Sessions.                                                               *)

\* The thread id the router uses: none where the adapter has no threads.
Thread(e) == IF ChatOf[e] \in Threaded THEN ThreadOf[e] ELSE 0

\* Mutant: the lookup is not scoped to the agent group.
FindSessionUnscoped(a, c, t) ==
  {i \in DOMAIN sessions : sessions[i].chat = c /\ sessions[i].thread = t}

\* Mutant: the lookup forgets the thread.
FindSessionAnyThread(a, c, t) ==
  {i \in DOMAIN sessions : sessions[i] = [agent |-> a, chat |-> c, thread |-> 0]}

\* findSessionForAgent: the sessions of a in chat c and thread t.
FindSession(a, c, t) ==
  {i \in DOMAIN sessions : sessions[i] = [agent |-> a, chat |-> c, thread |-> t]}

\* The mode deliverToAgent falls back to where the platform has threads.
EffectiveMode(mode, c) ==
  IF c \in Threaded \cap Group /\ mode # "agent-shared" THEN "per-thread" ELSE mode

SessionThread(mode, e) ==
  IF EffectiveMode(mode, ChatOf[e]) = "per-thread" THEN Thread(e) ELSE 0

\* The sessions resolveSession reuses: the newest of the agent, or the one of
\* its chat and thread.
Reusable(mode, a, e) ==
  IF EffectiveMode(mode, ChatOf[e]) = "agent-shared"
    THEN {i \in DOMAIN sessions :
            /\ sessions[i].agent = a
            /\ \A j \in DOMAIN sessions : sessions[j].agent = a => j <= i}
    ELSE FindSession(a, ChatOf[e], SessionThread(mode, e))

-----------------------------------------------------------------------------
(* Gates.                                                                  *)

\* Mutant: only roles count.
CanAccessByRole(u, a) == u \in Owner

\* canAccessAgentGroup.
CanAccess(u, a) == u \in Owner \/ <<u, a>> \in members

\* evaluateEngage.
Engages(w, a, e) ==
  \/ w.mode = "always"
  \/ w.mode = "pattern" /\ e \in Matching
  \/ w.mode \in {"mention", "sticky"} /\ e \in Mention
  \/ /\ w.mode = "sticky"
     /\ ChatOf[e] \in Group
     /\ FindSession(a, ChatOf[e], Thread(e)) # {}

\* Mutant: a sender is let through while the approver is being asked.
AccessMeanwhile(c, a) ==
  c.policy # "strict" \/ CanAccess(SenderOf[c.event], a)

\* The access gate, with the policy the call read.
AccessOk(c, a) == c.policy = "public" \/ CanAccess(SenderOf[c.event], a)

\* The sender-scope gate.
ScopeOk(c, a) == c.wires[a].known => CanAccess(SenderOf[c.event], a)

\* buildApprovalOptions for an approver who sees every agent group.
FirstOffers ==
  (IF Cardinality(agents) = 1
     THEN <<<<"connect", CHOOSE a \in agents : TRUE>>>>
     ELSE <<<<"choose", NoAgent>>>>)
  \o <<<<"new", NoAgent>>, <<"reject", NoAgent>>>>

SenderOffers == <<<<"approve", NoAgent>>, <<"deny", NoAgent>>>>

\* buildAgentSelectionOptions: one button for each agent group, then Cancel.
AllOffers ==
  LET nth(i) == CHOOSE a \in agents : Cardinality({b \in agents : b < a}) = i - 1
  IN [i \in 1 .. Cardinality(agents) + 1 |->
        IF i <= Cardinality(agents) THEN <<"connect", nth(i)>>
                                    ELSE <<"reject", NoAgent>>]

\* requestSenderApproval, up to its first await.
Asked(c, a) ==
  LET e == c.event IN
  IF /\ Engages(c.wires[a], a, e)
     /\ ~AccessOk(c, a)
     /\ c.policy = "request_approval" /\ SenderOf[e] # NoUser
     /\ ~\E r \in senderCard : r.chat = ChatOf[e] /\ r.sender = SenderOf[e]
     /\ Owner # {}
    THEN {[event |-> e, agent |-> a, offers |-> SenderOffers]}
    ELSE {}

-----------------------------------------------------------------------------
(* routeInbound.                                                           *)

\* A call of routeInbound for event e; `for` is the agent an approval replays
\* it for.
CallOf(e, for) ==
  [event |-> e, for |-> for, stage |-> "called", hits |-> FALSE,
   todo |-> {}, policy |-> "unknown", wires |-> [a \in Agent |-> Unwired]]

\* An adapter hands over a message.
Arrive(e) ==
  /\ Idle
  /\ e \notin arrived
  /\ arrived' = arrived \cup {e}
  /\ calls' = calls \cup {CallOf(e, NoAgent)}
  /\ UNCHANGED <<dbVars, cardVars, rows, memVars, screen, restarts, granted,
                 excused, outdated>>

\* Mutant: the mode of a group is left unset.
ApprovedWiringUnset(e) ==
  [mode |-> IF Thread(e) # 0 THEN "none" ELSE "always",
   known |-> TRUE, keep |-> TRUE, session |-> "shared"]

\* What the approval of a channel writes: the wiring, and the member if the
\* event has a sender; without one the event cannot pass its own wiring.
ApprovedWiring(e) ==
  [mode |-> IF Thread(e) # 0 THEN "sticky" ELSE "always",
   known |-> TRUE, keep |-> TRUE, session |-> "shared"]

Joined(e, a) == IF SenderOf[e] = NoUser THEN {} ELSE {<<SenderOf[e], a>>}

Nameless(e) == IF SenderOf[e] = NoUser THEN {e} ELSE {}

Captures(c) ==
  LET u == SenderOf[c.event] IN
  u \in Owner /\ naming[u] # NoChat /\ ChatOf[c.event] = DmOf[u]

\* The interceptor takes the approver's reply as the name of a new agent.
Capture(c) ==
  LET u == SenderOf[c.event]
      chat == naming[u] IN
  /\ c.stage = "called"
  /\ Captures(c)
  /\ naming' = [naming EXCEPT ![u] = NoChat]
  /\ \/ /\ c.event \in Blank \/ channelCard[chat] = NoRow
        /\ calls' = calls \ {c}
        /\ excused' = excused \cup {c.event}
        /\ UNCHANGED <<agents, wiring, members, channelCard, granted>>
     \/ /\ c.event \notin Blank /\ channelCard[chat] # NoRow
        /\ \E a \in Agent \ agents :
             LET e == channelCard[chat].event IN
             /\ \A b \in Agent \ agents : a <= b
             /\ agents' = agents \cup {a}
             /\ wiring' = [wiring EXCEPT ![chat][a] = ApprovedWiring(e)]
             /\ members' = members \cup Joined(e, a)
             /\ granted' = granted \cup {<<e, a>>}
             /\ excused' = excused \cup {c.event} \cup Nameless(e)
             /\ calls' = (calls \ {c}) \cup {CallOf(e, a)}
        /\ channelCard' = [channelCard EXCEPT ![chat] = NoRow]
  /\ UNCHANGED <<policy, denied, sessions, dropped, senderCard, rows, asks,
                 clicks, issued, screen, arrived, restarts, outdated>>

\* The interceptor lets it pass; its caller resumes after the await.
Pass(c) ==
  /\ c.stage = "called"
  /\ ~Captures(c)
  /\ calls' = (calls \ {c}) \cup {[c EXCEPT !.stage = "passed"]}
  /\ UNCHANGED <<dbVars, cardVars, rows, memVars, screen, histVars>>

\* tryAutoWireDefaultGroupChannel: the group is made public, wired to the agent
\* that .env names, and the message routed again.
AutoWire(c, a) ==
  LET chat == ChatOf[c.event] IN
  /\ policy' = [policy EXCEPT ![chat] = "public"]
  /\ wiring' = [wiring EXCEPT ![chat][a] =
       [mode |-> "mention", known |-> FALSE, keep |-> FALSE,
        session |-> "shared"]]
  /\ calls' = (calls \ {c}) \cup {CallOf(c.event, NoAgent)}
  /\ UNCHANGED asks

\* requestChannelApproval, up to its first await: nothing while a card is
\* pending.
RequestChannel(c) ==
  LET chat == ChatOf[c.event] IN
  /\ policy' = [policy EXCEPT ![chat] =
                  IF @ = "unknown" THEN "request_approval" ELSE @]
  /\ asks' = IF channelCard[chat] = NoRow /\ agents # {} /\ Owner # {}
               THEN asks \cup {[event |-> c.event, agent |-> NoAgent,
                                offers |-> FirstOffers]}
               ELSE asks
  /\ calls' = calls \ {c}
  /\ UNCHANGED wiring

\* A message of a chat without agents: ignored, or recorded as dropped and
\* handed to the channel-request gate.
Unrouted(c) ==
  LET e == c.event
      chat == ChatOf[e] IN
  /\ Idle /\ c.stage = "passed"
  /\ \A a \in agents : wiring[chat][a] = Unwired
  /\ \/ /\ e \notin Mention \/ chat \in denied
        /\ calls' = calls \ {c}
        /\ UNCHANGED <<policy, wiring, dropped, asks>>
     \/ /\ e \in Mention /\ chat \notin denied
        /\ dropped' = dropped \cup {e}
        /\ \E auto \in AutoAgent :
             IF chat \in Group /\ auto # NoAgent
               THEN AutoWire(c, auto) ELSE RequestChannel(c)
  /\ UNCHANGED <<agents, denied, members, sessions, cardVars, rows, naming,
                 clicks, issued, screen, histVars>>

\* The messaging group and its wirings are read once, before the loop.
LookUp(c) ==
  LET chat == ChatOf[c.event]
      wired == {a \in agents : wiring[chat][a] # Unwired} IN
  /\ Idle /\ c.stage = "passed" /\ wired # {}
  /\ calls' = (calls \ {c}) \cup
       {[c EXCEPT !.stage = "looked", !.policy = policy[chat],
                  !.wires = wiring[chat], !.todo = wired]}
  /\ UNCHANGED <<dbVars, cardVars, rows, memVars, screen, histVars>>

\* deliverToAgent: the session is found or created, then the command gate may
\* hold the message back, then it is inserted.  The insert is keyed by event
\* and agent: a second one into the same session throws, out of the loop.  So
\* does the answer to a denied command: writeOutboundDirect inserts it through
\* a connection that openOutboundDb has opened read-only.
DeliverTo(c, a, wake, rest) ==
  LET e == c.event
      mode == c.wires[a].session
      reuse == Reusable(mode, a, e)
      fresh == Append(sessions, [agent |-> a, chat |-> ChatOf[e],
                                 thread |-> SessionThread(mode, e)]) IN
  /\ sessions' = IF reuse = {} THEN fresh ELSE sessions
  /\ \E i \in IF reuse = {} THEN {Len(fresh)} ELSE reuse :
       \/ /\ e \in Refused
          /\ calls' = (calls \ {c}) \cup IF e \in Denied THEN {} ELSE {rest}
          /\ UNCHANGED <<rows, excused>>
       \/ /\ e \notin Refused
          /\ ~\E r \in rows : r.event = e /\ r.agent = a /\ r.session = i
          /\ rows' = rows \cup {[event |-> e, agent |-> a, session |-> i,
                                 trigger |-> wake, mode |-> mode]}
          /\ calls' = (calls \ {c}) \cup {rest}
          /\ UNCHANGED excused
       \/ /\ e \notin Refused
          /\ \E r \in rows : r.event = e /\ r.agent = a /\ r.session = i
          /\ calls' = calls \ {c}
          /\ excused' = IF c.for # a THEN excused \cup {e} ELSE excused
          /\ UNCHANGED rows

\* One turn of the loop: agent a engages, keeps what it ignores as context, or
\* does neither.
Visit(c) ==
  LET e == c.event IN
  /\ c.stage = "looked" \/ (Idle /\ c.stage = "looping")
  /\ \E a \in c.todo :
       LET w == c.wires[a]
           engages == Engages(w, a, e)
           allowed == engages /\ AccessOk(c, a) /\ ScopeOk(c, a)
           taken == allowed \/ (w.keep /\ ~engages)
           rest == [c EXCEPT !.stage = "looping", !.todo = @ \ {a},
                             !.hits = @ \/ taken] IN
       /\ \A b \in c.todo : b <= a
       /\ asks' = asks \cup Asked(c, a)
       /\ dropped' = IF engages /\ ~AccessOk(c, a)
                       THEN dropped \cup {e} ELSE dropped
       /\ \/ taken /\ DeliverTo(c, a, allowed, rest)
          \/ /\ ~taken
             /\ calls' = (calls \ {c}) \cup {rest}
             /\ UNCHANGED <<sessions, rows, excused>>
  /\ UNCHANGED <<agents, policy, denied, wiring, members, cardVars, naming,
                 clicks, issued, screen, arrived, restarts, granted, outdated>>

\* After the loop.
Finish(c) ==
  /\ Idle /\ c.stage = "looping" /\ c.todo = {}
  /\ calls' = calls \ {c}
  /\ dropped' = IF c.hits THEN dropped ELSE dropped \cup {c.event}
  /\ UNCHANGED <<agents, policy, denied, wiring, members, sessions, cardVars,
                 rows, memVars, screen, histVars>>

-----------------------------------------------------------------------------
(* Approval cards.                                                         *)

\* ensureUserDm: the approver's DM is found, or created as a strict chat.
ReachApprover(o) ==
  policy' = [policy EXCEPT ![DmOf[o]] = IF @ = "unknown" THEN "strict" ELSE @]

Shown(k) == {{}, {k}}

\* requestSenderApproval from there on: the insert throws when the sender has a
\* row in that chat by now; the card may not get out.
SenderAsk(k) ==
  LET row == [id |-> issued, event |-> k.event, chat |-> ChatOf[k.event],
              sender |-> SenderOf[k.event], agent |-> k.agent] IN
  /\ UNCHANGED channelCard
  /\ IF \E r \in senderCard : r.chat = row.chat /\ r.sender = row.sender
       THEN UNCHANGED <<senderCard, screen, issued>>
       ELSE /\ senderCard' = senderCard \cup {row}
            /\ issued' = issued + 1
            /\ \E s \in Shown([id |-> issued, chat |-> row.chat,
                               offers |-> k.offers]) : screen' = screen \cup s

\* requestChannelApproval from there on: the row is keyed by the chat.
ChannelAsk(k, o) ==
  LET chat == ChatOf[k.event] IN
  /\ UNCHANGED <<senderCard, issued>>
  /\ IF channelCard[chat] # NoRow
       THEN UNCHANGED <<channelCard, screen>>
       ELSE /\ channelCard' = [channelCard EXCEPT ![chat] =
                 [event |-> k.event, approver |-> o, offers |-> k.offers]]
            /\ \E s \in Shown([id |-> 0, chat |-> chat, offers |-> k.offers]) :
                 screen' = screen \cup s

\* A pending request goes on, unless no approver can be reached.
AskSettles(k) ==
  /\ Idle
  /\ asks' = asks \ {k}
  /\ \/ UNCHANGED <<policy, cardVars, screen, issued>>
     \/ \E o \in Owner :
          /\ ReachApprover(o)
          /\ IF k.agent = NoAgent THEN ChannelAsk(k, o) ELSE SenderAsk(k)
  /\ UNCHANGED <<agents, denied, wiring, members, sessions, dropped, rows, calls,
                 naming, clicks, histVars>>

\* getAskQuestionRender: the options of a card's row, as they are now.
Rendered(k) ==
  IF k.id # 0
    THEN IF \E r \in senderCard : r.id = k.id THEN SenderOffers ELSE <<>>
    ELSE IF channelCard[k.chat] # NoRow THEN channelCard[k.chat].offers ELSE <<>>

\* resolveSelectedOption: the index of a button is looked up in those options,
\* and stays an index when there are none.
Value(k, i) ==
  IF i \in DOMAIN Rendered(k) THEN Rendered(k)[i] ELSE <<"index", NoAgent>>

\* A tap: the value is resolved, then the edit of the card is awaited, with
\* its buttons still there.
Tap(k, i) ==
  /\ Idle
  /\ clicks' = clicks \cup {[card |-> k, meant |-> k.offers[i],
                             value |-> Value(k, i)]}
  /\ UNCHANGED <<dbVars, cardVars, rows, calls, asks, naming, issued, screen,
                 histVars>>

\* handleSenderApprovalResponse.
SenderAnswer(t) ==
  \E r \in senderCard :
    /\ r.id = t.card.id
    /\ senderCard' = senderCard \ {r}
    /\ IF t.value[1] = "approve"
         THEN /\ members' = members \cup {<<r.sender, r.agent>>}
              /\ calls' = calls \cup {CallOf(r.event, r.agent)}
              /\ granted' = granted \cup {<<r.event, r.agent>>}
         ELSE UNCHANGED <<members, calls, granted>>
    /\ UNCHANGED <<denied, wiring, channelCard, naming, excused>>
    /\ screen' = screen \ {t.card}

\* Wire the channel to the agent, make the sender a member, replay.  The
\* insert throws when the pair is wired already: the row stays.
Connect(t, a) ==
  LET chat == t.card.chat
      e == channelCard[chat].event IN
  /\ UNCHANGED <<denied, senderCard, naming>>
  /\ IF wiring[chat][a] # Unwired
       THEN UNCHANGED <<wiring, members, calls, granted, channelCard, excused>>
       ELSE /\ wiring' = [wiring EXCEPT ![chat][a] = ApprovedWiring(e)]
            /\ members' = members \cup Joined(e, a)
            /\ excused' = excused \cup Nameless(e)
            /\ channelCard' = [channelCard EXCEPT ![chat] = NoRow]
            /\ calls' = calls \cup {CallOf(e, a)}
            /\ granted' = granted \cup {<<e, a>>}
  /\ screen' = screen \ {t.card}

\* handleChannelApprovalResponse.
ChannelAnswer(t) ==
  LET chat == t.card.chat
      row == channelCard[chat]
      untouched == UNCHANGED <<wiring, members, calls, granted, senderCard, excused>> IN
  /\ t.card.id = 0 /\ row # NoRow
  /\ \/ /\ t.value[1] = "reject"
        /\ denied' = denied \cup {chat}
        /\ channelCard' = [channelCard EXCEPT ![chat] = NoRow]
        /\ screen' = screen \ {t.card}
        /\ UNCHANGED naming /\ untouched
     \/ /\ t.value[1] = "choose"
        /\ channelCard' = [channelCard EXCEPT ![chat].offers = AllOffers]
        /\ \E s \in Shown([id |-> 0, chat |-> chat, offers |-> AllOffers]) :
             screen' = (screen \ {t.card}) \cup s
        /\ UNCHANGED <<denied, naming>> /\ untouched
     \/ /\ t.value[1] = "new"
        /\ \E asked \in {chat, NoChat} :
             naming' = [naming EXCEPT ![row.approver] = asked]
        /\ screen' = screen \ {t.card}
        /\ UNCHANGED <<denied, channelCard>> /\ untouched
     \/ t.value[1] = "connect" /\ Connect(t, t.value[2])

\* The row of the card is gone, or the value is none the handler knows.
Unclaimed(t) ==
  /\ IF t.card.id # 0 THEN ~\E r \in senderCard : r.id = t.card.id
                      ELSE \/ channelCard[t.card.chat] = NoRow
                           \/ t.value[1] = "index"
  /\ screen' = screen \ {t.card}
  /\ UNCHANGED <<denied, wiring, members, cardVars, calls, granted, naming, excused>>

\* The edit is over, the answer dispatched to the handlers.
Dispatch(t) ==
  /\ Idle
  /\ clicks' = clicks \ {t}
  /\ SenderAnswer(t) \/ ChannelAnswer(t) \/ Unclaimed(t)
  /\ UNCHANGED <<agents, policy, sessions, dropped, rows, asks, issued, arrived,
                 restarts, outdated>>

-----------------------------------------------------------------------------
\* `ncl members remove`.
Revoke(m) ==
  /\ Idle /\ restarts < MaxRestarts
  /\ restarts' = restarts + 1
  /\ members' = members \ {m}
  /\ excused' = excused \cup {c.event : c \in {d \in calls : d.for = m[2]}}
  /\ UNCHANGED <<agents, policy, denied, wiring, sessions, dropped, cardVars,
                 rows, calls, memVars, screen, arrived, granted, outdated>>

InLoop(chat) ==
  {e \in Event : ChatOf[e] = chat /\ \E c \in calls : c.event = e /\ c.stage = "looping"}

\* Events of the chat that a call is to hand to agent a, or that a card may.
Pending(chat, a) ==
  {e \in Event :
     /\ ChatOf[e] = chat
     /\ \/ \E c \in calls : c.event = e /\ (c.for = a \/ a \in c.todo)
        \/ \E k \in asks \cup senderCard : k.event = e /\ k.agent = a}

\* `ncl wirings create`, `update` and `delete`.
Rewire(chat, a, w) ==
  /\ Idle /\ restarts < MaxRestarts
  /\ policy[chat] # "unknown" /\ a \in agents /\ wiring[chat][a] # w
  /\ restarts' = restarts + 1
  /\ wiring' = [wiring EXCEPT ![chat][a] = w]
  /\ excused' = excused \cup Pending(chat, a)
  /\ outdated' = outdated \cup InLoop(chat)
  /\ UNCHANGED <<agents, policy, denied, members, sessions, dropped, cardVars, rows,
                 calls, memVars, screen, arrived, granted>>

\* `ncl messaging-groups update --unknown-sender-policy`.
Repolicy(chat, p) ==
  /\ Idle /\ restarts < MaxRestarts
  /\ policy[chat] \notin {"unknown", p}
  /\ restarts' = restarts + 1
  /\ policy' = [policy EXCEPT ![chat] = p]
  /\ outdated' = outdated \cup InLoop(chat)
  /\ UNCHANGED <<agents, denied, wiring, members, sessions, dropped, cardVars, rows,
                 calls, memVars, screen, arrived, granted, excused>>

\* The process dies: what it has in memory is gone.
Restart ==
  /\ restarts < MaxRestarts
  /\ restarts' = restarts + 1
  /\ calls' = {} /\ asks' = {} /\ clicks' = {}
  /\ naming' = [o \in Owner |-> NoChat]
  /\ excused' = excused \cup {c.event : c \in calls}
  /\ UNCHANGED <<dbVars, cardVars, rows, issued, screen, arrived, granted,
                 outdated>>

Init ==
  /\ agents = FirstAgents /\ policy = FirstPolicy /\ wiring = FirstWiring
  /\ denied = {} /\ members = {} /\ sessions = <<>> /\ dropped = {}
  /\ senderCard = {} /\ channelCard = [c \in Chat |-> NoRow]
  /\ rows = {} /\ calls = {} /\ asks = {} /\ clicks = {} /\ screen = {}
  /\ naming = [o \in Owner |-> NoChat] /\ issued = 1
  /\ arrived \in {Event \ W : W \in Workload} /\ restarts = 0 /\ granted = {}
  /\ excused = {} /\ outdated = {}

Next ==
  \/ \E e \in Event : Arrive(e)
  \/ \E c \in calls : Capture(c)
  \/ \E c \in calls : Pass(c)
  \/ \E c \in calls : Unrouted(c)
  \/ \E c \in calls : LookUp(c)
  \/ \E c \in calls : Visit(c)
  \/ \E c \in calls : Finish(c)
  \/ \E k \in asks : AskSettles(k)
  \/ \E k \in screen : \E i \in DOMAIN k.offers : Tap(k, i)
  \/ \E t \in clicks : Dispatch(t)
  \/ \E m \in members : Revoke(m)
  \/ \E s \in Rewirings : Rewire(s[1], s[2], s[3])
  \/ \E s \in Repolicies : Repolicy(s[1], s[2])
  \/ Restart

Spec == Init /\ [][Next]_vars

-----------------------------------------------------------------------------
TypeOK ==
  /\ agents \subseteq Agent
  /\ policy \in [Chat -> Policy \cup {"unknown"}]
  /\ denied \subseteq Chat
  /\ wiring \in [Chat -> [Agent -> Wiring \cup {Unwired}]]
  /\ members \subseteq User \X Agent
  /\ sessions \in Seq(Session)
  /\ senderCard \subseteq SenderRow
  /\ channelCard \in [Chat -> ChannelRow \cup {NoRow}]
  /\ dropped \subseteq Event
  /\ rows \subseteq Row
  /\ naming \in [Owner -> Chat \cup {NoChat}]
  /\ calls \subseteq Call /\ asks \subseteq Ask
  /\ clicks \subseteq Click /\ screen \subseteq Card
  /\ issued \in Nat /\ restarts \in Nat
  /\ arrived \subseteq Event /\ excused \subseteq Event /\ outdated \subseteq Event
  /\ granted \subseteq Event \X Agent

\* A message lies in a session of the agent it was routed to, and, unless the
\* agent was wired for one session over all its chats, in a session of the
\* message's own chat and of its own thread or of none (session-manager.ts:
\* the lookup is scoped by agent group so that fan-out cannot reach another
\* agent's session).
RightSession ==
  \A r \in rows :
    LET s == sessions[r.session] IN
    /\ s.agent = r.agent
    /\ \/ r.mode = "agent-shared"
       \/ s.chat = ChatOf[r.event] /\ s.thread \in {0, Thread(r.event)}

\* However often an event is replayed, an agent gets it at most once under one
\* session mode, unless that is the one over all its chats: routing an event
\* again finds the session of the first time, where its key is taken.
SeenOnce ==
  \A r1, r2 \in rows :
    /\ r1.event = r2.event /\ r1.agent = r2.agent
    /\ r1.mode = r2.mode /\ r1.mode # "agent-shared"
    => r1 = r2

Replaying(e, a) == \E c \in calls : c.event = e /\ c.for = a

Reached(e, a) == \E r \in rows : r.event = e /\ r.agent = a

\* When the approver has let a message through to an agent and its replay is
\* over, the agent has the message, unless it is a slash command the gate
\* holds back, or the replay was cut by a restart or a revocation, taken as
\* the name of an agent, or broken off by another agent's copy, or ncl changed
\* the agent's wiring to the chat while the message was pending, or the message
\* names no sender: approving its channel makes nobody a member, and the new
\* wiring for known senders then refuses it.
ApprovedArrives ==
  \A g \in granted :
    \/ Replaying(g[1], g[2]) \/ Reached(g[1], g[2])
    \/ g[1] \in Refused \cup excused

\* The same without the last excuse: what permissions/index.ts:223 says of an
\* approval, "the second routing attempt clears the gate because the user is
\* now a member".
ApprovalReachesAgent ==
  \A g \in granted :
    \/ Replaying(g[1], g[2]) \/ Reached(g[1], g[2])
    \/ g[1] \in Refused \/ restarts > 0 \/ SenderOf[g[1]] \in Owner \cup {NoUser}

\* A message wakes an agent only when its sender may talk to that agent at that
\* very moment, whatever happened while the call awaited the agents before it;
\* a public chat admits everyone but past a wiring for known senders.  Members
\* are looked up at that moment, but not the policy and the wirings: only a
\* message that was in the loop when ncl changed those can slip through.
Admitted ==
  \A r \in rows' \ rows :
    r.trigger =>
      \/ CanAccess(SenderOf[r.event], r.agent)
      \/ /\ policy[ChatOf[r.event]] = "public"
         /\ ~wiring[ChatOf[r.event]][r.agent].known
      \/ r.event \in outdated

OnlyTheAdmitted == [][Admitted]_vars
=============================================================================
