# NanoClaw: a TLA+ verification project

NanoClaw runs AI agents for the users of several chat platforms. One **host**
process (Node, single-threaded) routes messages, and one Docker **container** per
session runs the agent. Host and container share no memory and no socket: they
communicate through two SQLite files per session,

- `inbound.db` (`messages_in`, `delivered`, routing and destinations), written by the host;
- `outbound.db` (`messages_out`, `processing_ack`, `session_state`, `container_state`),
  written by the container, and by the host only when it believes that no container runs;

and through the mtime of a heartbeat file. A third database, central and the host's own,
holds agents, chats, wirings, members, sessions and pending approvals. Nearly everything
that can go wrong is an interleaving of timer chains, awaits, button taps, container steps,
crashes and `docker stop`, and that is what is modelled here; around it stands the
installer, a wizard that is cancelled, retried and started again.

Paths below are relative to the repository: `src/` is the host, and
`container/agent-runner/src/` the container.

## 1. Inventory

The last column says what would make each component correct; what is checked of it, and
with which exceptions, is in sections 3 and 4.

| Component | Files | State it keeps | Operations | Hard behaviour | What makes it correct |
|---|---|---|---|---|---|
| Outbound delivery | `src/delivery.ts`, `src/index.ts` | `deliveryAttempts`, `inflightDeliveries`, the `delivered` table | two poll chains (1 s: running sessions, 60 s: all), `drainSession`, `deliverMessage`, system actions | both chains reach one session; calls throw or hang; restart between answer and record | no duplicate and no reordering by the chains themselves, the record is final, the budget is respected, every row is recorded, one session hung in a call does not stop the other sessions |
| Host sweep | `src/host-sweep.ts` | none; reads heartbeat, claims, `tries`, `process_after` | sync acks, wake, SLA (ceiling, claim tolerance), retry with backoff, recurrence | awaits in the middle; `docker stop` blocks while the container goes on | rows in progress are not taken away, every row settles, completions survive |
| Container runner / restart | `src/container-runner.ts`, `src/container-restart.ts`, `src/container-runtime.ts` | `activeContainers`, `wakePromises` | wake, spawn, kill, exit, restart with an on_wake message, orphan clean-up | concurrent wakes; failing stop; exit callbacks | one container per session |
| Session databases | `src/db/session-db.ts`, `src/session-manager.ts` | the two files | insert, sync, retry, claims, session resolution, attachments | two writers, one row | monotone row life cycle |
| Agent-runner poll loop | `container/agent-runner/src/poll-loop.ts`, `db/messages-in.ts`, `db/connection.ts`, `scheduling/task-script.ts` | position in the loop, initial batch, follow-up in flight, open query | first poll, poll, scripts, query, follow-up poll, push, result, end | follow-up poll concurrent with the query; awaits of scripts | each row one turn, none skipped |
| Scheduling | `src/modules/scheduling/*` | `recurrence`, `series_id`, `status` of task rows | schedule, cancel, pause, resume, update, recurrence fan-out | agent's requests between the awaits of the sweep; two-statement advance | one live row per series, the series goes on, cancel holds |
| Router | `src/router.ts`, `src/command-gate.ts` | none of its own | engage modes, fan-out, access gates, interceptor, command gate | awaits between gates and writes | an agent gets a message at most once per session mode, in the session of its chat and thread |
| Approvals | `src/modules/approvals/*`, `src/response-registry.ts` | `pending_approvals`, in-memory resolvers and timers | request, click, expiry, restart sweep | card before row (OneCLI) or row before card; double click; expiry against click | decided as tapped, and once but in four windows; no row of a credential left that nothing takes away |
| Permissions | `src/modules/permissions/*` | `pending_sender_approvals`, `pending_channel_approvals`, roles, members, user DMs | access gate, sender and channel approval, replay of the stored message | dedup check separated from insert by an await; free-text name capture | nobody gets past the gates; a message that was let through reaches the agent |
| Interactive questions | `src/modules/interactive/index.ts`, `mcp-tools/interactive.ts` | `pending_questions` | ask, click, answer row | container times out or dies before the answer | the answer is kept for the tool that asked (modelled; no property of its own) |
| Agent-to-agent | `src/modules/agent-to-agent/*` | `agent_destinations`, return paths | route, create agent, write destinations | reply to which session | a reply returns to the session whose row it replies to |
| Self-modification | `src/modules/self-mod/*` | container configuration | install packages, add MCP server | image rebuild awaited, then restart | a container that reads the note has the change, but for two races |
| Typing | `src/modules/typing/index.ts` | refreshers | start, pause, stop | wake failure, exit | no refresher outlives its reason |
| Circuit breaker | `src/circuit-breaker.ts` | a file | start-up backoff | crash loops | schedule |
| Installation | `setup/auto.ts`, `setup/*.ts`, `setup/channels/*.ts`, `setup/add-*.sh`, `scripts/init-first-agent.ts` | `.env`, the tree, `dist/`, the service, rows of the central database | ten steps, a guided flow per app, retry, re-execution under `sg docker` | cancelled or failing anywhere, then retried or started again | what a retry skips was done; an operator who is wired in has what the flow of the app checks (section 2.7) |
| Channel adapters, `ncl`, providers and MCP tools, mount security, group set-up | see `PROJECT.json` | | | third-party SDKs, sequential code, file generation | |

How they interact: a platform event reaches the router, which writes a row into
`inbound.db` and wakes the session's container; the container claims the row, prompts its
agent and writes rows into `outbound.db`; a delivery chain hands these to a channel
adapter, to another session (agent-to-agent), or to a system-action handler (scheduling,
approvals, self-modification, CLI), which writes into `inbound.db` again. The sweep repairs
what died in between, every minute.

The hazards of this code, with the line where each one bites and the properties that
watch it, are the `hazards` of `PROJECT.json`.

## 2. Modules

| Module | Models |
|---|---|
| `Delivery` | the two delivery chains over all sessions |
| `OutboundPromise` | what delivery promises per row, with no chains, batches or counters; `Delivery` implements it |
| `Delivery_proofs` | proofs about `Delivery` for all parameters |
| `SessionLifecycle` | one session: host (wake, spawn, kill, sweep, restart) and container instances |
| `Scheduling` | the recurring tasks of one session |
| `Routing` | an inbound message: gates, fan-out over the agents wired to its chat, session resolution, sender and channel approval, replay |
| `Cards` | what waits for a tap: approvals of actions and of credentials, the agent's questions |
| `AgentGroups` | agent groups, what their containers are started with, and the changes that race the spawns |
| `AgentMail` | messages between agents; EXTENDS `AgentGroups` and runs with every step of it in between |
| `ChannelFlows` | the guided flow of each messaging app of the wizard, as the sequence of its stages |
| `Setup` | the wizard; EXTENDS `ChannelFlows` and executes their stages |
| `SessionLifecycle_proofs` | proofs about `SessionLifecycle` for all parameters |
| `Routing_proofs` | proofs about `Routing` for all parameters |
| `Scheduling_proofs` | proofs about `Scheduling` for all parameters |
| `Cards_proofs` | proofs about `Cards` for all parameters |
| `Setup_proofs` | proofs about the flows of `ChannelFlows` and about `Setup` for all parameters |
| `AgentMail_proofs` | proofs about `AgentGroups` and `AgentMail` for all parameters |
| `MCDelivery`, `MCSession`, `MCScheduling`, `MCRouting`, `MCCards`, `MCAgentMail`, `MCSetup` | the finite instances TLC checks |

Conventions. A host action is what runs between two awaits (Node runs nothing else
meanwhile); a container action is what the runner does between two of its own awaits or
database transactions; the two sides interleave freely. Mutants (`DrainUnguarded`,
`RetryLate`, ...) stand before the operator they change and are used by no specification:
each one is a plausible bug, and for each property some mutant violates it.

### 2.1 Delivery

State: `delivered` is the table of that name, `attempts` is `deliveryAttempts`, `inflight`
is `inflightDeliveries`. Each chain `p` has the sessions its tick has still to visit
(`todo`), the rows its drain has read and not begun (`batch`), and the row with an adapter
(`sending`, `call`). `running`, `written`, `due`, `live` are the world: containers that
write, `deliver_after` that passes, adapters that came up at boot. `effects`, `lost`,
`throws` are history.

`Tick` is the timer with its query for sessions, `Skip` and `Drain` are
`deliverSessionMessages` up to its only await, `Effect` is what the adapter (or action
handler) does outside, `Resolve` and `Throw` what follows the await up to the next one,
`GiveUpThrows` a `markDeliveryFailed` that throws inside the catch block (the count stays,
the row has no record, the rest of the batch and of the tick is dropped), `DrainThrows` a
failing database read, `Restart` the death and boot of the host. `unrecorded` and `restarts`
are history too: `RetryBudget` accounts for every throw by the budget of a process life or by
a give-up that could not be written, since the code sends a row again, without bound, for as
long as `inbound.db` does not take its `failed` record.

The rows of a session are ordered by `timestamp`; rows with one timestamp keep the order in
which they were inserted, which is what SQLite's sort does.

### 2.2 SessionLifecycle

State shared by both sides: `status`, `tries`, `later` (the rows whose `process_after` has
not passed), `ack` (`processing_ack`), `heartbeat`. Time is abstracted to what the sweep
can tell apart: `aged` are claims older than the claim tolerance, `seen` those followed by
a heartbeat, and the heartbeat is absent, fresh or beyond the absolute ceiling. The host's
memory is `active` (its entry in `activeContainers`), `spawning` (`wakePromises`),
`wakeOnExit` (the `onExit` callback of a restart) and `host`/`sweepWaits`, the place its
thread stands at. A container instance is `box[c]`, with `pc` the place of its poll loop:
`booting` (before `clearStaleProcessingAcks`), `polling`, `claiming` (rows are read and not
claimed), `commands` (claimed, `/clear` not executed yet), `scripts` (awaiting pre-task
scripts), `query`, `taking` (a follow-up poll has read and not claimed) and `closing` (the
stream was ended for a command). `read` are the rows read, `batch` is the initial batch,
`follow` the rows of a follow-up poll in flight, `late` those of a follow-up poll that was in
flight when its query ended, `dealt` and `turn` are history.

`docker stop` is synchronous and blocks the host, but not the container: `Sweep`, `Kill`
and `Restart` only begin it, and `StopDone` or `StopFails` end it with what follows in the
same block. A container exit is seen by the host later, in `Close`. Read and claim of a poll
are separate steps because `markProcessing` is an `INSERT OR REPLACE`: an instance that
survived a failed `docker stop` can overwrite an acknowledgement that was completed since it
read the row. `CompletionSticks` names this, and that nothing else does it. `FollowFails` is
the catch block of the follow-up poll, behind which rows stay claimed.

Abstractions: `Event` may happen at any time during a query, so the agent may work, hang
or answer; the widening of both limits during a long Bash call is covered by letting claims
age and heartbeats expire at any time. `container_state` is not modelled. System rows
(answers to questions) are not modelled yet. Corruption exits are `Crash`.

### 2.3 Scheduling

A row has `status`, `recurrence`, `series`, `tries` and `ack`; the sweep of the session
stands at one of its awaits: `idle`, `synced` (after step 1, awaiting a wake), `listing`
(awaiting the import of the recurrence module), `recurring` (awaiting `cron-parser` for
the rows in `todo`). The agent's requests run as host actions at any of these points, as
the delivery chains execute them, but never between `insertRecurrence` and
`clearRecurrence`, which are consecutive statements; the host may die, or the second
statement fail, exactly there (`clearing`). When a row is due is left open, so is which
dates cron computes. The session's container is only up or down here: how it gets there is
`SessionLifecycle`'s matter. `cut` names the series that a death at that point has forked;
the properties that speak of one live row except them, and the run shows that nothing else
forks a series.

### 2.4 Routing

A call of `routeInbound` is a record of `calls`: its event, and, once it has `looked`, the
wirings and the policy read before its loop, and the agents still to visit. Between two
agents the call awaits, and then anything may happen; while a call is in a stage that awaits
nothing, every other step waits (`Idle`). `Visit`, with its gates and `DeliverTo`, is the
body of the loop. A row of a session has the key of `messages_in.id` (event and agent), and a second
insert of one key throws out of the loop, as the code does; so does the notice of a denied
admin command (`Denied`), which is written through a connection opened read-only, while a
filtered command (`Refused`) only skips its agent. An event may name no sender (`NoUser`): it
asks for no sender approval, and approving its channel makes nobody a member (`Nameless`). A
stored event is replayed with the thread its chat has (`Thread`), not the raw one. Cards (`senderCard`,
`channelCard`), taps, the owner's free-text answer that names a new agent (`naming`), the
replay of the stored event, and a host restart, which loses the calls, are actions; so are
the `ncl` commands that change what the router reads: `Revoke` (members), `Rewire` (wirings
created, updated or deleted) and `Repolicy` (a chat's unknown-sender policy). `granted`,
`excused`, `outdated`, `arrived` and the field `mode` of a row are history: `outdated` holds
the events that were in a loop when ncl changed their chat, `mode` the session mode a row
was routed by.

Abstractions: which events mention the bot, match a pattern, are filtered commands or blank
is a constant set each; roles are constants (`Owner`), scoped admins are left out; what ncl
may rewire is a constant set (`Rewirings`, `Repolicies`), and role changes, deletion of agent
groups, and updates of `denied_at` and `is_group` are left out. `Rewire` leaves `denied`
alone, as `cli/crud.ts` does: nothing in the code clears `denied_at`, although
`cli/resources/messaging-groups.ts:52` says that any explicit wiring mutation does. The row written wakes the
session, which is `SessionLifecycle`'s matter.

### 2.5 Cards

A request is an action (`requestApproval`), a credential (the OneCLI gateway) or a question
(`ask_user_question`). Each has a row in the central database, a card on a screen and an
asker. Their orders differ and are kept: an action's row is written before its card is sent,
a credential's after. `resolver` is the map in the host's memory, with the timer of each
entry; a restart empties it and leaves rows and cards. `phase` separates the moment adapters
accept taps (`adapters`) from the moment delivery and the gateway's handler are up
(`ready`), when the start-up sweep goes through the rows of the previous host (`stale`).
A tap is two steps: the bridge awaits the edit of the card (`taps`) before it dispatches the
answer; the button's value may be an index whose meaning is looked up in the row
(`value`), so that a tap before the row exists is not recognised.

A delivery may throw before or after the platform showed the card (`shown`): the agent is
told that it failed (`unsent`), the row stays, and a card that was shown can be answered. A
handler may await (`Yielding`, `handling`), so that a second tap meets the row, and may throw
together with its notify (`AnswerThrows`); the host may die between what an answer did and
the deletion of its row. `exposed` is the history of these windows, in which the code carries
an action out twice or after its agent was told that it failed: `OneVerdict` excepts them and
nothing else. A question is delivered again after a crash, with a second card.

### 2.6 AgentGroups and AgentMail

The central database (`listed`, `dests`) is the source of truth and a container lives on
copies made while it was started: `container.json`, the image, the destinations projected
into `inbound.db`. `spawn[s]` says which of the two awaits of a spawn is in flight, so that
every change (self-modification, `create_agent`, `ncl groups` and `ncl destinations`,
wiring) falls before, between or after what the spawn reads. `notes` are `on_wake` rows and
`held` those a first poll took. `stale` names the sessions whose group was changed by code
that does not project or whose projection threw. `docker stop` is a window of its own (`stopping`;
`rest` are the sessions a restart has still to come to): the host waits, a container that is
starting goes on, and may poll the note meant for its successor. So is the await between an
`ncl destinations` command's row and its projection (`projecting`). `NoteTrue` excepts the two races the code loses, by name: a spawn planned before a change
and run after it (`overtaken`), and that container that polls while it is being stopped,
although `src/container-restart.ts:5` calls the restart race-free. Operations are records; each behaviour is made of one of the small
sets of them that `Workload` lists, with bounds on restarts and failures.

`AgentMail` adds the messages agents send each other: batches, turns, blocks and tool calls
in the outbox, and `Route`, which finds the session a message goes to (that of the row replied to, then the last one of the group that wrote, then the newest). What `send_message`
writes replies to nothing, because the current batch is a variable of the poll loop's
process and the tool runs in the MCP server's. Such a message, when several sessions of a
group have written, goes to the last one that did: `GoesToAsker` promises the asking session
only for a reply that is stamped with its row, and else that session or one that has written
since, although `src/modules/agent-to-agent/agent-route.test.ts:83-84` says that a reply must
land in the originating session.

### 2.7 Setup and ChannelFlows

`pc` is the step of the wizard, or a place between two; `have`, `files`, `packages`,
`built`, `creds`, `rows` are what the steps leave on disk and in the database, `up` and
`loaded` the service and the adapters it came up with. `Quit` is a cancelled prompt, a closed
terminal or a machine that stops, at any point; `Retry` is the new process that `fail`
spawns with `NANOCLAW_SKIP`, `ContainerUnderSg` the one that `sg docker` runs. A flow of
`ChannelFlows` is a sequence of stages, one definition per function of the source, and
`Setup` executes the stage it is `at`. An `add-<app>.sh` script is its phases (files copied,
package installed, build, credentials, restart), because its `need_install` looks at the
first of them only. A failing stage ends the wizard where the code awaits `fail`, and goes on
with the question on the screen (`asking`) where it does not. A build that fails on a missing
package writes `dist/` all the same (`tsc` runs without `noEmitOnError`), so a service started
on it dies of the import and is started again, for ever (`Started`).

What the model shows about the wizard besides its properties, none of which a document
contradicts except the first two: `fail` is not awaited in `setup/channels/whatsapp.ts` and
`teams.ts`, although `setup/lib/runner.ts:353-355` says that callers must; after an install
that stopped behind the copied files, Discord and iMessage are wired without package or
build, and `setup/channels/discord.ts:129` says that the agent is ready, so `WiredIsReady`
asks for the build of Telegram and Signal only; a Teams package that
cannot be built ends the wizard in an exception; after a failed copy of an adapter's package
the `service` step fails on every run; a death between the vault's secret and `.env` leaves
a custom endpoint half configured, and the next wizard skips the sign-in; `_ping-test` stays
when its ping fails, and later wizards take it for a registered agent; the health check
takes any gateway address for credentials.

## 3. Runs

Every passing run's properties have a mutant each (`PROJECT.json`).

| Run | Instance | Shows |
|---|---|---|
| `delivery_safety` | 1 session, 3 rows (2 is a system action, 3 deferred), 1 channel that is up or down at each boot, budget 3, 1 fault (restart, failing read or failing give-up) | `DrainExclusive`, `NoDuplicate`, `RetryBudget`, `NoOvertaking`, `NothingAfterRecord`, refinement of `OutboundPromise` |
| `delivery_live` | 2 sessions of a row each, one on a channel that may hang, 1 fault | `EveryRowRecorded`, `HungSessionIsIsolated` |
| `session_safety` | 3 rows (scripted task, on_wake restart, `/clear`), prompt limit 2, 1 try, 1 fault, 1 failing stop (after which the third row is not written: `StraysBound`), 2 instance names | `OneContainer`, `ClaimsHeld`, `NoSecondTurn`, `NothingSkippedSilently`, `CompletionSticks`, `FailedIsFinal` |
| `session_live` | 3 rows (scripted and deferred trigger, context, a command), prompt limit 1, 2 faults | `EverySettles` |
| `scheduling_safety` | 3 rows, any mixture of recurring and one-shot tasks, 1 try, any number of crashes and host deaths | `OneLiveRow`, `SeriesGoesOn`, `CancelHolds` |
| `routing_safety` | a threaded group wired to 2 agents (one sticky for known senders with context kept, one by pattern), an unknown group, a public hall with 2 agents, the owner's DM; 7 sets of events, one of a message without a sender, with filtered and denied commands; 1 restart or `ncl` command | `RightSession`, `SeenOnce`, `ApprovedArrives`, `OnlyTheAdmitted` |
| `cards_safety` | an action and a credential, an action whose handler awaits, 2 credentials, or a question; 2 taps in flight, 1 restart, 1 failure | `VerdictOfApprover`, `OneVerdict`, `NoOrphanRow`, `CredentialsSettle` |
| `agents_safety` | 2 groups and a third to be created, up to 3 sessions; 11 small sets of operations with up to 1 restart and 1 failure; 3 messages between agents | `ProjectionCurrent`, `NoteTrue`, `NoteHeeded`, `GoesToAsker` |
| `setup_safety` | Telegram, Signal, WhatsApp, Teams; 2 wizards started by hand and any number of retries; 1 fault; 2 flows | `SkippedIsDone`, `WiredIsReady` |

Three runs expect a violation; each one checks a sentence of the repository's own comments
or documents against the code, and the counterexample is a behaviour of the code
(`findings`):

| Run | Sentence | Counterexample |
|---|---|---|
| `session_turn` | `completed` is set after successful processing (`docs/architecture.md`) | a follow-up is completed when pushed; the container dies |
| `scheduling_pause` | a paused task will not run until resumed (`pause_task`) | paused while it runs: the sweep completes it and inserts the next occurrence |
| `routing_approval` | an approval re-routes the stored event, which clears the gate the second time (`src/modules/permissions/index.ts`) | an agent earlier in the fan-out has the message already: the insert throws before the approved agent's turn |

Bounds and why they are enough.

- Delivery: a row's fate involves at most two chains, one retry and one restart, so three
  rows (an ordinary, an internal, a deferred one) meet every branch of the drain; a budget
  of 3 is the code's.
- Session: two instance names let a dying and a fresh container overlap, three rows fill a
  batch, a follow-up and a later wake, and one try separates a retry from giving up (the
  code has 5 with the same branch). A prompt limit below the number of rows lets newer rows
  hide an older one: with 1 in `session_live` one context row is enough. `StraysBound` cuts
  the behaviours in which a third row is written beside an instance that survived its stop;
  two rows and two instances are what the races of a stray need. Two faults are a crash and
  the failure of what should repair it; what needs crashes without end (a container that dies
  at every start) is outside `EverySettles`, which says so.
- Scheduling: three rows are a series of three occurrences, or two series; no counter bounds
  the faults.
- Routing: two agents are the least fan-out with an await in it, and a replay is a second
  call; each event set is one conversation (two messages of a stranger, a message from an
  unknown group with the reply that names an agent, the same without a sender, a blank reply,
  a denied and a filtered command, a message into the public hall, whose second agent's turn comes after ncl has tightened the
  policy or the wiring). `MaxRestarts` cuts any call once, or lets ncl change one thing.
- Cards: two credentials share the resolver map, the sweep and the host's death; requests of
  other kinds share nothing but the host. `MaxFailures` counts cards that cannot be sent or
  edited, handlers that throw and containers that die. Two taps in flight are a tap and its
  double.
- Agents: an operation interferes with a spawn, not with a third operation, so each set holds
  at most two changes that touch the same copies. A failure is a build, a spawn, a container
  or the projection for one session. `MaxMail = 3` is a question, an answer and
  a message written meanwhile.
- Setup: one flow of each behaviour: a paired bot, a linked device, one that awaits no
  failure, one that wires nothing. Discord, Slack and iMessage have no stage of a kind the
  four lack. Two wizards by hand, one fault and two flows are a failure, its retry, another
  app, and a second installation over what the first has left.

Fairness.

- `Delivery!Fairness`: a timer chain ticks again and visits the sessions of its tick, a call
  on a channel that is not declared hung settles, `deliver_after` passes: all are timers or
  awaited promises of the event loop. Nothing is assumed of hung channels, of containers or
  of restarts.
- `SessionLifecycle!Fairness`: the sweep's timer fires, an awaited spawn or stop settles, the
  exit of a dead process is reported (both strongly fair, since the event loop handles a
  pending event between any two sweep ticks, and a tick may disable them only for its own
  duration), a container that is up polls, and its scripts end (they are run with a timeout);
  ages and backoffs pass. Nothing is assumed of the agent, which may hang in a query for
  ever: `EverySettles` then needs the absolute ceiling. Its hypothesis `StaysSilent` excludes
  an agent that wakes up after the ceiling, again and again, in the moment before the sweep
  looks.
- `Cards!Fairness`: the host comes up, calls of the adapters settle, timers fire, the
  start-up sweep goes on, the sweep wakes the container and a waiting tool polls. Nobody is
  assumed to tap.
- `AgentGroups!GroupFairness` (restated over the variables of `AgentMail` in its
  `FairSpec`): the sweep wakes a session with rows due, the awaits of a spawn settle, a
  container boots, polls and heeds its notes, a death is reported. Failures are bounded.
- `Routing` and `Setup` assume none: their properties are about safety. Nobody is assumed
  to answer a prompt.

Deadlock is checked in the runs of `Delivery`, `SessionLifecycle` and `Scheduling`, which
never stop. In `Routing`, `Cards`, `AgentMail` and `Setup` a behaviour is made of a bounded
set of events, requests, operations or wizards, and ends when they are used up.

## 4. Proofs

`Delivery_proofs` proves, for every set of sessions, rows, channels, every budget and
number of faults (the assumption `DeliveryAssumption` of `Delivery`):

- `TypeCorrect`, `ExclusiveDrains`: the inductive invariant is `TypeOK /\ DrainExclusive`.
  `DrainExclusive` is the strengthening: besides the exclusion itself it says that a chain
  with a row in flight holds the guard of its session and that no row it has still to send
  has been recorded, without which the exclusion is not inductive. One lemma,
  `ContinueExclusive`, carries the argument for the loop body that `Drain`, `Resolve`,
  `Throw` and `GiveUpThrows` share.
- `NoDuplicateDelivery`: an invariant of the effect counter, on top of the first.
- `BudgetRespected`: `BudgetOf` relates the throws of a row to the counter in memory. While a
  row has no record, they are at most what earlier lives may have spent (`Spent`), this
  life's counter, and the give-ups that could not be written (`unrecorded`).
- `RecordIsFinal`: the action property `NothingAfterRecord`, from `DrainExclusive`.
- `ConversationOrder`: `NoOvertaking` looks at two rows, and what keeps them in order is the
  batch of a chain. `OrderInv` adds that rows become due in the order they were written
  unless they are deferred (`WrittenInOrder`), and that whatever comes before a row a chain
  still holds is held by that chain too, or has been begun (`BatchInOrder`). With
  `DrainExclusive` no other chain can begin a later row meanwhile.
- `ChainsImplementPromise`: each step maps to a step of `OutboundPromise` or a stutter.

`SessionLifecycle_proofs` proves every safety property of `SessionLifecycle` that holds, for
every set of rows and of instance names, every prompt size and number of faults
(`SessionAssumption`). The inductive invariant `Inv` has, besides `TypeOK`, six parts:

- `StraysCounted`: every live instance but the registered one is accounted for by a failed
  `docker stop`, and a spawn is in flight only while none is registered. `OneContainer`
  alone is not inductive: a spawn could be in flight beside a registered instance.
- `BoxesFit`, `RowsExist`: a dead or booting instance holds nothing, an open query has
  dealt with its batch, nothing is claimed before it is written.
- `Kept`: what a live instance holds *or has dealt with* is in `processing_ack`. The second
  half is what excludes second turns.
- `ReadFresh`: what a poll has read and not claimed is still pending and unacknowledged, as
  long as there is no stray. Without it the claim, an `INSERT OR REPLACE`, could undo a
  completion or bring a failed row back.
- `FailedUnheld`: no live instance holds a failed row.

`OwnRows` abstracts the twelve working steps of an instance (it reads only pending,
unacknowledged rows, takes only rows it has read, and completes only its own), `Cleanup` the three host steps that may
reset rows, `Housekeeping` all steps that are not work; `StepKinds` proves that each step is
one or the other. The theorems are `ContainersAreCounted`, `ClaimsAreHeld`,
`RowsAreTakenOnce`, `CompletionIsEarned`, `CompletionIsFinal`, `GivingUpIsFinal`.

`Routing_proofs` proves the four invariants and the action property of `Routing` for every
set of agents, chats, users and events, every set-up and number of restarts
(`RoutingAssumption`, which asks of the agent groups of the set-up that they are finitely
many: their cards list them in order). A call acts on what it read before its awaits, so the
invariant `Inv` says what of that cannot have changed, and follows an approval from its
question to the row:

- `CallsKnow`: the wirings a call has read are the present ones (`WiringStays`), and a chat
  it took for public is public (`PublicStays`), unless ncl has changed them, and then the
  event is in `outdated`. `OnlyTheAdmitted` follows, as members and roles are looked up in
  the turn itself. The exception is the code's: a policy or a wiring tightened while a
  message is in the loop does not reach the turns that message has still to come.
- `NoTwins`, `RowsFit`, `RowsKeyed`: no two sessions have one agent, chat and thread; a row
  lies in the session its `mode` names; event and agent are its key there. `SeenOnce` is
  not inductive without all three, and `RightSession` is the second.
- `AsksFit`, `OffersKnown`: the approver is asked about a sender only for an agent that would
  take or keep the message (`Welcome`) or has been rewired since, and is only offered agents
  that exist.
- `ReplaysFit`: a replay is for an agent to which the message is welcome and whose member its
  sender is, and it has that agent to visit or has done so, unless it is excused.
  An approved message without a sender is excused as soon as its channel is approved.
  `WelcomeStays` shows that only ncl undoes this (a session that makes a sticky wiring engage
  is never closed), `PendingStays` that it then excuses what was on its way there,
  `ReplayVisited` that the loop then hands the message over, `ReplayEnds` that a replay ends
  in no way but those `ApprovedArrives` lists, `GrantStarts` that each approval begins one.

`CallsNext` says where a call of the next state comes from, and `NewRow` where a row does;
the proofs of the steps go by these rather than by the actions. The theorems are
`TypeCorrect`, `SessionsRight`, `EventsSeenOnce`, `ApprovalsArrive` and `AdmittedOnly`.

`Scheduling_proofs` proves the four invariants of `Scheduling` from `SchedulingAssumption`.
The strengthening is about *open* rows (live, or completed with a recurrence): a series that
was not forked has at most one besides the row being cleared (`OneOpenRow`), a cancelled one
has none (`CancelledIsClosed`), one that is to recur has a row that says so and is not being
cleared (`RecursSomewhere`), and what the sweep listed stays true across its awaits
(`ListIsFresh`). The theorems are `NeverTwoOccurrences`, `NoSeriesIsLost`, `CancelIsFinal`.

`Cards_proofs` proves the safety of `Cards` for every set of requests, any number of taps,
faults and restarts (`CardsAssumption`). None of its properties is inductive alone; `Inv`
adds what each kind of request relies on:

- `AskedOnce`: what was not asked has no row, no card and no verdict, so an id is not reused.
- `TapsAreReal`: a tap in flight was made on a card; one that carries an index instead of a
  value found the row of its action gone. This is what links a verdict to a tap, and
  `VerdictOfApprover` needs it.
- `HandlersAreReal`: a handler that awaits runs on a tap of Approve, alone and with its row,
  unless its request is `exposed`.
- `ActionsOpen`, `ShownIsThere`, `CredentialsOpen`: while a card is on its way, or has its
  row, or a credential its resolver, the asker has heard nothing. `OneVerdict` needs these.

`DispatchStep` covers a tap that is handled, `SettledStep` every other step. The theorems
are `ApproverDecides`, `DecidedOnce`, `RowsAreCaredFor` and `TypeCorrect`.

`Setup_proofs` proves the three invariants of `Setup` for every set of apps and any number of
wizards, faults and flows (`SetupAssumption`). It has two halves.

- The flows. A flow is a sequence built from parts, and the lemmas `TelegramOrder` to
  `TeamsAsks` show of each that the stage that installs the adapter, and for Telegram and
  Signal the one that pairs or stores, is awaited and lies before `init-first-agent`
  (`Behind`). `AsksOn`, `BehindAtLast` and `BehindOn` say how that survives concatenation, so
  the argument follows the order of the calls in each `setup/channels/*.ts`.
- The wizard. `WiredIsReady` needs to know how far a flow has come: `StagesPassed` says that
  every awaited stage behind the current one has done its work, `ScriptSoFar` and `RowsSoFar`
  say the same of the phase of a script and of the rows of `init-first-agent`, and `LoggedIn`
  that the service runs only adapters that could log in and found their packages. `SkippedIsDone` needs less: `Listed`,
  that nothing that was made is unmade (`NothingUnmade`), and how a step gets on the list
  (`ListedStep`).

The theorems are `TypeCorrect`, `RetriesSkipWhatIsDone` and `WiredAppsAreReady`.

`AgentMail_proofs` proves the safety of `AgentGroups` and `AgentMail` for every set of
groups, sessions, items, names and every workload (`AgentGroupsAssumption`; that the ids the
code makes of the time and random letters are new is `Fresh`, a guard of the model). It too
has two halves.

- The groups. `NoteTrue` speaks of what a first poll took and its cause lies four steps
  back, so the invariant follows an announced item to where the container finds it:
  `NotesListed` (in the database, and a package in the image), `SpawnKnows` (a spawn that
  waits for the gateway has read a good tag and written the servers to `container.json`),
  `BoxKnows` (a container that starts has the image and can read the file; one that has
  booted has read it; but for the one being stopped), then `NoteTrue`. Each allows for
  `overtaken`, and each has a lemma that takes the one before it. `BareUnlisted`: a group without a config row has nothing
  listed, so the row `create_agent` makes starts empty. `SpawnsFit` keeps spawns and
  containers of one session apart, and is all `ProjectionCurrent` needs, which is inductive
  with it: a change of destinations puts its command into `projecting`, and the projection
  that takes it out refreshes each session or marks it `stale`.
- The mail. `RowsAreSigned` says that a row from a group names a session of it as its
  writer, and `RepliesFit` that an answer to a group that had written replies to nothing, or
  to a row of that group, the one it is about or a later one. With them each of the ways
  `Route` looks for a session ends at the writer of such a row (`BackToAsker`);
  `LatestIsLast`, that a set of rows has a last one, rests on the naturals
  being well founded. `MailAmid` and `GroupsAlone` say that steps of the groups do not
  disturb this.

The theorems are `TypeCorrect`, `DestinationsAreCurrent`, `NotesAreTrue` and `RepliesGoBack`.

Model-checked only: liveness (`EverySettles`, `EveryRowRecorded`, `HungSessionIsIsolated`,
`CredentialsSettle`, `NoteHeeded`), which is out of the prover's reach. Every invariant and
every action property of a passing run, and the refinement, is a theorem. TLC checked each
inductive invariant before it was proved.

## 5. Not modelled, and why

The status of every component is in `components` of `PROJECT.json`. Left out:

- Typing indicator: a refresher per session, best effort by design, which nothing else
  depends on. (Read against `docs/architecture.md`: after a quick answer the ten-second pause
  ends inside the fifteen-second grace, so the indicator can come back once while the agent
  is idle.)
- Start-up circuit breaker: one file per start, read and written before anything runs beside
  it; its schedule is what its unit tests cover.
- Agent providers and MCP tools: the agent is an environment that may emit events and results
  at any time or hang; prompts, formatting and continuations are data.
- Mount security and group set-up: path checks and file generation at spawn, no
  interleaving.
- Channel adapters beyond the button handler: translation to and from the platforms' SDKs.
- `ncl` beyond the commands that change what the other modules speak of: its socket,
  parsing, help and read-only commands.
- Central database migrations: run once at start-up.
- Of the installation: the bootstrap of `nanoclaw.sh`, the migration from v1
  (`migrate-v2.sh`), the stand-alone `install-*.sh` scripts, Claude's assistance and
  hand-over (they start another program and come back), the windowed output of children,
  `setup/register.ts` (used by skills, not by the wizard), `ASSISTANT_HAS_OWN_NUMBER`, and
  the clean-up of other installations' services.

Hazards without a property carry a note in `PROJECT.json` that says why.

## 6. Plan

1. (done) `Delivery`, `OutboundPromise`, `SessionLifecycle`, `Scheduling` and their proofs.
2. (done) `Routing`, `Cards`, `AgentGroups` with `AgentMail`, `ChannelFlows` with `Setup`.
3. (done) `Cards_proofs`, `Setup_proofs`, `AgentMail_proofs`, `Routing_proofs`.
4. `WorkQueue`, an abstract specification of `messages_in` (a row is pending, in progress,
   settled; progress is lost only by a death) that `SessionLifecycle` implements.
5. Extensions of `SessionLifecycle`: two sessions under one serial sweep, several prompts'
   worth of rows.
