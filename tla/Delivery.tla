------------------------------ MODULE Delivery ------------------------------
(***************************************************************************)
(* Outbound delivery of the host (src/src/delivery.ts): two timer chains,  *)
(* the active poll and the sweep poll, drain the messages_out table of     *)
(* each session through the channel adapters, with a retry budget kept in  *)
(* memory and a `delivered` table kept in the session's inbound.db.        *)
(*                                                                         *)
(* The host is single-threaded: a step below is what runs between two      *)
(* awaits.  The only await inside a drain is the one on deliverMessage, so *)
(* a drain stops exactly while one message of its batch is with an adapter.*)
(***************************************************************************)
EXTENDS Naturals

CONSTANTS
  Session,              \* sessions with status 'active' in the central DB
  Message,              \* rows of messages_out, numbered by their timestamp
  SessionOf,            \* the session whose outbound.db holds the row
  Channel,              \* channel types with a registered adapter factory
  Internal,             \* route of system actions and agent-to-agent rows
  ChannelOf,            \* the route of a row: a channel or Internal
  Deferred,             \* rows written with a deliver_after in the future
  Hung,                 \* channels whose API may accept a call and never answer
  NoMessage,            \* "no message is with an adapter"
  MAX_DELIVERY_ATTEMPTS,
  MaxFaults             \* bound on restarts, aborted ticks and unwritten give-ups

ASSUME DeliveryAssumption ==
  /\ Message \subseteq Nat
  /\ NoMessage \notin Message
  /\ SessionOf \in [Message -> Session]
  /\ ChannelOf \in [Message -> Channel \cup {Internal}]
  /\ Deferred \subseteq Message
  /\ Hung \subseteq Channel
  /\ Internal \notin Channel
  /\ MAX_DELIVERY_ATTEMPTS \in Nat \ {0}
  /\ MaxFaults \in Nat

VARIABLES
  running,     \* sessions with container_status 'running' or 'idle'
  written,     \* rows the containers have inserted in messages_out
  due,         \* those whose deliver_after is null or past
  live,        \* channels whose adapter came up at the last boot
  delivered,   \* the delivered table: "none" when it has no row
  attempts,    \* deliveryAttempts: failed attempts of this process life
  inflight,    \* inflightDeliveries
  todo,        \* per poll chain: sessions this tick has still to visit
  batch,       \* per poll chain: rows read by the current drain, not yet begun
  sending,     \* per poll chain: the row with an adapter
  call,        \* per poll chain: "sent", then "effected" once it took effect
  faults,      \* restarts, aborted ticks and unwritten give-ups so far
  \* What happened outside the host's own state, for the properties:
  effects,     \* how often the row reached its user, session or handler
  lost,        \* how often it did and the host did not learn of it
  throws,      \* how often its delivery threw, over every process life
  unrecorded,  \* how often giving it up could not be written
  restarts     \* process lives before this one

hostVars    == <<delivered, attempts, inflight, todo, batch, sending, call>>
worldVars   == <<running, written, due, live>>
historyVars == <<effects, lost, throws, unrecorded, restarts>>
vars == <<worldVars, hostVars, faults, historyVars>>

Poll == {"active", "sweep"}

TypeOK ==
  /\ running \subseteq Session
  /\ written \subseteq Message
  /\ due \subseteq written
  /\ live \subseteq Channel
  /\ delivered \in [Message -> {"none", "delivered", "failed"}]
  /\ inflight \subseteq Session
  /\ todo \in [Poll -> SUBSET Session]
  /\ batch \in [Poll -> SUBSET Message]
  /\ sending \in [Poll -> Message \cup {NoMessage}]
  /\ call \in [Poll -> {"none", "sent", "effected"}]
  /\ faults \in Nat
  /\ effects \in [Message -> Nat]
  /\ lost \in [Message -> Nat]
  /\ throws \in [Message -> Nat]
  /\ unrecorded \in [Message -> Nat]
  /\ restarts \in Nat
  \* a row that is not given up has tries left, but for give-ups that threw
  /\ attempts \in [Message -> Nat]
  /\ \A m \in Message : attempts[m] < MAX_DELIVERY_ATTEMPTS + unrecorded[m]

Init ==
  /\ running = {}
  /\ written = {}
  /\ due = {}
  /\ live \in SUBSET Channel
  /\ delivered = [m \in Message |-> "none"]
  /\ attempts = [m \in Message |-> 0]
  /\ inflight = {}
  /\ todo = [p \in Poll |-> {}]
  /\ batch = [p \in Poll |-> {}]
  /\ sending = [p \in Poll |-> NoMessage]
  /\ call = [p \in Poll |-> "none"]
  /\ faults = 0
  /\ effects = [m \in Message |-> 0]
  /\ lost = [m \in Message |-> 0]
  /\ throws = [m \in Message |-> 0]
  /\ unrecorded = [m \in Message |-> 0]
  /\ restarts = 0

-----------------------------------------------------------------------------
(* The containers and the container runner, as seen by the poll chains.    *)

SetRunning(s) ==
  /\ running' = IF s \in running THEN running \ {s} ELSE running \cup {s}
  /\ UNCHANGED <<written, due, live, hostVars, faults, historyVars>>

\* A running container inserts its next row.
Write(m) ==
  /\ SessionOf[m] \in running
  /\ m \notin written
  /\ \A n \in Message \ written : SessionOf[n] = SessionOf[m] => m <= n
  /\ written' = written \cup {m}
  /\ due' = IF m \in Deferred THEN due ELSE due \cup {m}
  /\ UNCHANGED <<running, live, hostVars, faults, historyVars>>

\* deliver_after of a row passes.
BecomeDue(m) ==
  /\ m \in written \ due
  /\ due' = due \cup {m}
  /\ UNCHANGED <<running, written, live, hostVars, faults, historyVars>>

-----------------------------------------------------------------------------
(* The poll chains.                                                        *)

Idle(p) == sending[p] = NoMessage /\ todo[p] = {}

\* The timer fires: getRunningSessions or getActiveSessions is read once.
Tick(p) ==
  /\ Idle(p)
  /\ todo' = [todo EXCEPT ![p] = IF p = "active" THEN running ELSE Session]
  /\ UNCHANGED <<worldVars, delivered, attempts, inflight, batch, sending, call,
                 faults, historyVars>>

\* Mutant: the drain forgets to subtract getDeliveredIds.
UndeliveredUnfiltered(s) == {m \in due : SessionOf[m] = s}

\* getDueOutboundMessages minus getDeliveredIds.
Undelivered(s) == {m \in due : SessionOf[m] = s /\ delivered[m] = "none"}

\* Mutants of the loop: rows are taken newest first; the session is not
\* released (no finally) when the loop is over.
ContinueNewestFirst(p, s, rows) ==
  \/ /\ rows = {}
     /\ inflight' = inflight \ {s}
     /\ sending' = [sending EXCEPT ![p] = NoMessage]
     /\ batch' = [batch EXCEPT ![p] = {}]
     /\ call' = [call EXCEPT ![p] = "none"]
  \/ \E m \in rows :
       /\ \A n \in rows : n <= m
       /\ inflight' = inflight \cup {s}
       /\ sending' = [sending EXCEPT ![p] = m]
       /\ batch' = [batch EXCEPT ![p] = rows \ {m}]
       /\ call' = [call EXCEPT ![p] = "sent"]

ContinueUnreleased(p, s, rows) ==
  \/ /\ rows = {}
     /\ sending' = [sending EXCEPT ![p] = NoMessage]
     /\ batch' = [batch EXCEPT ![p] = {}]
     /\ call' = [call EXCEPT ![p] = "none"]
     /\ UNCHANGED inflight
  \/ \E m \in rows :
       /\ \A n \in rows : m <= n
       /\ inflight' = inflight \cup {s}
       /\ sending' = [sending EXCEPT ![p] = m]
       /\ batch' = [batch EXCEPT ![p] = rows \ {m}]
       /\ call' = [call EXCEPT ![p] = "sent"]

\* The body of the drain's for loop is entered with the next row of `rows`, or
\* the loop is over and the session is released.
Continue(p, s, rows) ==
  \/ /\ rows = {}
     /\ inflight' = inflight \ {s}
     /\ sending' = [sending EXCEPT ![p] = NoMessage]
     /\ batch' = [batch EXCEPT ![p] = {}]
     /\ call' = [call EXCEPT ![p] = "none"]
  \/ \E m \in rows :
       /\ \A n \in rows : m <= n
       /\ inflight' = inflight \cup {s}
       /\ sending' = [sending EXCEPT ![p] = m]
       /\ batch' = [batch EXCEPT ![p] = rows \ {m}]
       /\ call' = [call EXCEPT ![p] = "sent"]

\* Mutant: the second chain waits for the session instead of skipping it.
SkipWaits(p, s) == FALSE /\ UNCHANGED vars

\* deliverSessionMessages rejects a session another chain is draining.
Skip(p, s) ==
  /\ sending[p] = NoMessage
  /\ s \in todo[p] /\ s \in inflight
  /\ todo' = [todo EXCEPT ![p] = @ \ {s}]
  /\ UNCHANGED <<worldVars, delivered, attempts, inflight, batch, sending, call,
                 faults, historyVars>>

\* Mutant: no inflightDeliveries check.
DrainUnguarded(p, s) ==
  /\ sending[p] = NoMessage
  /\ s \in todo[p]
  /\ todo' = [todo EXCEPT ![p] = @ \ {s}]
  /\ Continue(p, s, Undelivered(s))
  /\ UNCHANGED <<worldVars, delivered, attempts, faults, historyVars>>

\* drainSession up to its first await, or to its end when nothing is due.
Drain(p, s) ==
  /\ sending[p] = NoMessage
  /\ s \in todo[p] /\ s \notin inflight
  /\ todo' = [todo EXCEPT ![p] = @ \ {s}]
  /\ Continue(p, s, Undelivered(s))
  /\ UNCHANGED <<worldVars, delivered, attempts, faults, historyVars>>

\* Reading a session's databases throws: the guard is released, the poll
\* chain logs and gives up the rest of its tick.
DrainThrows(p) ==
  /\ sending[p] = NoMessage /\ todo[p] # {}
  /\ \E s \in todo[p] : s \notin inflight
  /\ faults < MaxFaults
  /\ faults' = faults + 1
  /\ todo' = [todo EXCEPT ![p] = {}]
  /\ UNCHANGED <<worldVars, delivered, attempts, inflight, batch, sending, call,
                 historyVars>>

-----------------------------------------------------------------------------
(* One message with an adapter.                                            *)

Reachable(m) == ChannelOf[m] \in live \cup {Internal}

\* The platform shows the message, or the system action or agent route runs.
Effect(p) ==
  /\ call[p] = "sent"
  /\ Reachable(sending[p])
  /\ call' = [call EXCEPT ![p] = "effected"]
  /\ effects' = [effects EXCEPT ![sending[p]] = @ + 1]
  /\ UNCHANGED <<worldVars, delivered, attempts, inflight, todo, batch, sending,
                 faults, lost, throws, unrecorded, restarts>>

\* INSERT OR IGNORE into delivered.
Record(m, status) ==
  delivered' = [delivered EXCEPT ![m] = IF @ = "none" THEN status ELSE @]

\* deliverMessage resolves.  It does so without any effect when no adapter is
\* live for the channel.
Resolve(p) ==
  LET m == sending[p] IN
  /\ \/ call[p] = "effected"
     \/ call[p] = "sent" /\ ~Reachable(m)
  /\ Record(m, "delivered")
  /\ attempts' = [attempts EXCEPT ![m] = 0]
  /\ Continue(p, SessionOf[m], batch[p])
  /\ UNCHANGED <<worldVars, todo, faults, historyVars>>

\* Mutant: the budget is compared before the attempt is counted.
ThrowLate(p) ==
  LET m == sending[p] IN
  /\ call[p] # "none"
  /\ throws' = [throws EXCEPT ![m] = @ + 1]
  /\ lost' = IF call[p] = "effected" THEN [lost EXCEPT ![m] = @ + 1] ELSE lost
  /\ IF attempts[m] >= MAX_DELIVERY_ATTEMPTS
     THEN Record(m, "failed") /\ attempts' = [attempts EXCEPT ![m] = 0]
     ELSE attempts' = [attempts EXCEPT ![m] = @ + 1] /\ UNCHANGED delivered
  /\ Continue(p, SessionOf[m], batch[p])
  /\ UNCHANGED <<worldVars, todo, faults, effects, unrecorded, restarts>>

\* deliverMessage (a permission check, a handler, the adapter) or the write of
\* the delivered row throws, before or after the effect.
Throw(p) ==
  LET m == sending[p] IN
  /\ call[p] # "none"
  /\ throws' = [throws EXCEPT ![m] = @ + 1]
  /\ lost' = IF call[p] = "effected" THEN [lost EXCEPT ![m] = @ + 1] ELSE lost
  /\ IF attempts[m] + 1 >= MAX_DELIVERY_ATTEMPTS
     THEN Record(m, "failed") /\ attempts' = [attempts EXCEPT ![m] = 0]
     ELSE attempts' = [attempts EXCEPT ![m] = @ + 1] /\ UNCHANGED delivered
  /\ Continue(p, SessionOf[m], batch[p])
  /\ UNCHANGED <<worldVars, todo, faults, effects, unrecorded, restarts>>

\* As Throw with the budget spent, but markDeliveryFailed throws as well: the
\* exception leaves the catch block, so the row keeps its grown count and no
\* record, the guard is released, and the chain gives up the rest of the batch
\* and of its tick.  The next drain sends the row again.
GiveUpThrows(p) ==
  LET m == sending[p] IN
  /\ call[p] # "none"
  /\ attempts[m] + 1 >= MAX_DELIVERY_ATTEMPTS
  /\ faults < MaxFaults
  /\ faults' = faults + 1
  /\ throws' = [throws EXCEPT ![m] = @ + 1]
  /\ unrecorded' = [unrecorded EXCEPT ![m] = @ + 1]
  /\ lost' = IF call[p] = "effected" THEN [lost EXCEPT ![m] = @ + 1] ELSE lost
  /\ attempts' = [attempts EXCEPT ![m] = @ + 1]
  /\ Continue(p, SessionOf[m], {})
  /\ todo' = [todo EXCEPT ![p] = {}]
  /\ UNCHANGED <<worldVars, delivered, effects, restarts>>

-----------------------------------------------------------------------------
\* The host process dies and boots: what it kept in memory is gone, the
\* containers of the previous process are stopped and any subset of the
\* channel adapters comes up.
Restart ==
  /\ faults < MaxFaults
  /\ faults' = faults + 1
  /\ live' \in SUBSET Channel
  /\ running' = {}
  /\ attempts' = [m \in Message |-> 0]
  /\ inflight' = {}
  /\ todo' = [p \in Poll |-> {}]
  /\ batch' = [p \in Poll |-> {}]
  /\ sending' = [p \in Poll |-> NoMessage]
  /\ call' = [p \in Poll |-> "none"]
  /\ lost' = [m \in Message |->
                IF \E p \in Poll : call[p] = "effected" /\ sending[p] = m
                THEN lost[m] + 1 ELSE lost[m]]
  /\ restarts' = restarts + 1
  /\ UNCHANGED <<written, due, delivered, effects, throws, unrecorded>>

Next ==
  \/ \E s \in Session : SetRunning(s)
  \/ \E m \in Message : Write(m) \/ BecomeDue(m)
  \/ \E p \in Poll : Tick(p) \/ DrainThrows(p) \/ Effect(p) \/ Resolve(p) \/ Throw(p)
                     \/ GiveUpThrows(p)
  \/ \E p \in Poll, s \in Session : Skip(p, s) \/ Drain(p, s)
  \/ Restart

Spec == Init /\ [][Next]_vars

\* A timer fires again, the chain visits each session of its tick, and a call
\* on a channel that is not hung settles.  Nothing is assumed of the rest.
Visit(p) == \E s \in Session : Skip(p, s) \/ Drain(p, s)

Settle(p) ==
  /\ sending[p] # NoMessage
  /\ ChannelOf[sending[p]] \notin Hung
  /\ Resolve(p) \/ Throw(p)

Fairness ==
  /\ \A p \in Poll : WF_vars(Tick(p)) /\ WF_vars(Visit(p)) /\ WF_vars(Settle(p))
  /\ \A m \in Message : WF_vars(BecomeDue(m))

FairSpec == Spec /\ Fairness

-----------------------------------------------------------------------------
(* Safety.                                                                 *)

\* What the inflightDeliveries guard is for: two chains never have rows of one
\* session with an adapter, a draining chain holds the guard of its session,
\* and no row it has still to send has been recorded since it was read.
DrainExclusive ==
  \A p \in Poll :
    /\ call[p] = "none" <=> sending[p] = NoMessage
    /\ sending[p] # NoMessage =>
         /\ sending[p] \in written
         /\ SessionOf[sending[p]] \in inflight
         /\ delivered[sending[p]] = "none"
         /\ \A q \in Poll \ {p} : sending[q] # NoMessage =>
              SessionOf[sending[q]] # SessionOf[sending[p]]
         /\ \A n \in batch[p] :
              /\ n \in written /\ SessionOf[n] = SessionOf[sending[p]]
              /\ delivered[n] = "none" /\ n # sending[p]

\* The count of effects the host can still account for: the one it recorded,
\* or the one of a call that has not settled.
Accounted(m) ==
  \/ delivered[m] = "delivered"
  \/ \E p \in Poll : sending[p] = m /\ call[p] = "effected"

\* A message takes effect a second time only after the host lost the outcome
\* of an earlier call: by a restart between the adapter's answer and
\* markDelivered, or because a call that took effect threw.  The two poll
\* chains alone never duplicate (the promise of inflightDeliveries).
NoDuplicate ==
  \A m \in Message : effects[m] <= lost[m] + (IF Accounted(m) THEN 1 ELSE 0)

\* A row is given up only once some process life has spent its whole budget
\* on it, and every throw is paid for: by the budget of a life, by the one
\* give-up that was recorded, or by a give-up that could not be written.  So
\* the budget bounds the tries of a life exactly as long as inbound.db takes
\* the `failed` row; while it does not, the row is sent again at every drain.
RetryBudget ==
  \A m \in Message :
    /\ delivered[m] = "failed" => throws[m] >= MAX_DELIVERY_ATTEMPTS
    /\ throws[m] <= (MAX_DELIVERY_ATTEMPTS - 1) * (restarts + 1) + unrecorded[m]
                      + (IF delivered[m] = "failed" THEN 1 ELSE 0)

\* A later row of a session takes effect first only if the earlier one was
\* deferred, was recorded without an effect, or threw in an earlier call: the
\* two chains alone never reorder a conversation.
NoOvertaking ==
  \A m, n \in Message :
    (m < n /\ SessionOf[m] = SessionOf[n] /\ m \notin Deferred /\ effects[n] > 0)
      => (effects[m] > 0 \/ throws[m] > 0 \/ delivered[m] # "none")

\* The record of a row is final: an adapter is never called, and no effect
\* happens, for a row that has its delivered row already.
NothingAfterRecord ==
  [][\A m \in Message :
       delivered[m] # "none" =>
         delivered'[m] = delivered[m] /\ effects'[m] = effects[m]]_vars

RowStatus == [m \in Message |->
  IF m \notin written THEN "unwritten"
  ELSE IF delivered[m] = "none" THEN "queued" ELSE delivered[m]]

CallOpen == [m \in Message |->
  \E p \in Poll : sending[p] = m /\ call[p] = "effected"]

Promise == INSTANCE OutboundPromise WITH status <- RowStatus, open <- CallOpen

\* Seen from outside, the poll chains implement OutboundPromise: the two
\* chains, their batches, retries and restarts never show.
ImplementsPromise == Promise!Spec

-----------------------------------------------------------------------------
(* Liveness.                                                               *)

Healthy(s) == \A m \in Message : SessionOf[m] = s => ChannelOf[m] \notin Hung

Stuck == \E p \in Poll : sending[p] # NoMessage /\ ChannelOf[sending[p]] \in Hung

\* Whatever the interleaving of the two chains, and however often calls throw, a
\* due row is eventually recorded unless a chain gets stuck in a hung adapter
\* call: a chain that skips a session never loses rows.  Restarts, ticks aborted
\* by an unreadable database and give-ups that cannot be written are bounded: a
\* database that never comes back is outside this promise.
EveryRowRecorded ==
  \A m \in Message : (m \in due) ~> (delivered[m] # "none" \/ Stuck)

\* One session stuck in a hung adapter call does not stop the rows of another
\* session whose container stays up: one chain is stuck, the other skips the
\* stuck session and goes on.
HungSessionIsIsolated ==
  \A m \in {n \in Message : Healthy(SessionOf[n])} :
    \/ []<>(SessionOf[m] \notin running)
    \/ (m \in due) ~> (delivered[m] # "none")
=============================================================================
