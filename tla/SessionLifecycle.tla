-------------------------- MODULE SessionLifecycle --------------------------
(***************************************************************************)
(* One session: the host process that wakes, watches, kills and retries    *)
(* (container-runner.ts, host-sweep.ts, container-restart.ts) and the      *)
(* container instances that claim, prompt and complete inbound rows        *)
(* (agent-runner: poll-loop.ts, db/messages-in.ts, db/connection.ts).      *)
(*                                                                         *)
(* They share two databases: messages_in (status, tries, process_after),   *)
(* written by the host only, and processing_ack, written by the container  *)
(* and, when it believes that no container runs, by the host.              *)
(*                                                                         *)
(* The host is single-threaded.  A host step is what runs between two      *)
(* awaits, except that `docker stop` is split from what precedes and       *)
(* follows it: the host is blocked meanwhile, the container is not.        *)
(***************************************************************************)
EXTENDS Naturals, FiniteSets

CONSTANTS
  Message,        \* rows of messages_in, numbered by seq
  Trigger,        \* rows with trigger = 1; the others are context only
  OnWake,         \* rows with on_wake = 1
  Deferred,       \* rows written with a process_after in the future
  Scripted,       \* task rows with a pre-task script
  Command,        \* slash commands the runner handles itself
  Clear,          \* those that are /clear
  Slot,           \* names for container instances, reused after death
  NoSlot,
  MaxMessagesPerPrompt,
  MAX_TRIES,
  MaxFaults,      \* bound on crashes, restarts and failing steps
  MaxStopFailures \* bound on `docker stop` failing on a live container

ASSUME SessionAssumption ==
  /\ Message \subseteq Nat
  /\ Trigger \subseteq Message /\ OnWake \subseteq Trigger
  /\ Deferred \subseteq Message \ OnWake
  /\ Scripted \subseteq Message \ (OnWake \cup Command)
  /\ Command \subseteq Message /\ Clear \subseteq Command
  /\ NoSlot \notin Slot
  /\ MaxMessagesPerPrompt \in Nat \ {0}
  /\ MAX_TRIES \in Nat
  /\ MaxFaults \in Nat /\ MaxStopFailures \in Nat

VARIABLES
  \* inbound.db
  status,       \* messages_in.status; "absent" before the row is written
  tries,        \* messages_in.tries
  later,        \* rows whose process_after has not passed yet
  \* outbound.db and the heartbeat file
  ack,          \* processing_ack
  aged,         \* claims older than the claim tolerance
  seen,         \* claims with a heartbeat since they were made
  heartbeat,    \* the heartbeat file: "expired" beyond the absolute ceiling
  \* host memory
  active,       \* the session's entry in activeContainers
  clientKilled, \* its docker client was killed because `docker stop` failed
  wakeOnExit,   \* a restart asked for a wake when that instance has exited
  spawning,     \* spawnContainer calls in flight (wakePromises holds one)
  host,         \* what the host's thread is in the middle of
  sweepWaits,   \* the sweep awaits a wake
  \* the container instances
  box,
  \* bounds
  faults,
  stopFailures

storeVars == <<status, tries, later>>
claimVars == <<ack, aged, seen>>
hostVars  == <<active, clientKilled, wakeOnExit, spawning, host, sweepWaits>>
countVars == <<faults, stopFailures>>
vars == <<storeVars, claimVars, heartbeat, hostVars, box, countVars>>

\* What one container instance keeps: where its poll loop is ("claiming" and
\* "taking": the initial and the follow-up poll have read rows and not claimed
\* them yet), whether its next poll is the first; the rows read, those of its
\* initial batch, of the follow-up poll in flight and of those the query ended
\* on; the rows it has dealt with (handed to the agent, gated by a script,
\* executed) and those of the open turn.
Box == [pc     : {"dead", "booting", "polling", "claiming", "commands",
                  "scripts", "query", "taking", "closing"},
        first  : BOOLEAN,
        read   : SUBSET Message,
        batch  : SUBSET Message,
        follow : SUBSET Message,
        late   : SUBSET Message,
        dealt  : SUBSET Message,
        turn   : SUBSET Message]

NoBox == [pc |-> "dead", first |-> TRUE, read |-> {}, batch |-> {},
          follow |-> {}, late |-> {}, dealt |-> {}, turn |-> {}]

Live == {c \in Slot : box[c].pc # "dead"}

Claims == {m \in Message : ack[m] = "processing"}

TypeOK ==
  /\ status \in [Message -> {"absent", "pending", "completed", "failed"}]
  /\ tries \in [Message -> 0 .. MAX_TRIES]
  /\ later \subseteq Message
  /\ ack \in [Message -> {"none", "processing", "completed"}]
  /\ aged \subseteq Claims
  /\ seen \subseteq Claims
  /\ heartbeat \in {"absent", "fresh", "expired"}
  /\ active \in Slot \cup {NoSlot}
  /\ clientKilled \in BOOLEAN
  /\ wakeOnExit \in BOOLEAN
  /\ spawning \in {0, 1}
  /\ host \in {"free", "sweep", "stop-sweep", "stop"}
  /\ sweepWaits \in BOOLEAN
  /\ box \in [Slot -> Box]
  /\ faults \in Nat
  /\ stopFailures \in Nat

Init ==
  /\ status = [m \in Message |-> "absent"]
  /\ tries = [m \in Message |-> 0]
  /\ later = {}
  /\ ack = [m \in Message |-> "none"]
  /\ aged = {}
  /\ seen = {}
  /\ heartbeat = "absent"
  /\ active = NoSlot
  /\ clientKilled = FALSE
  /\ wakeOnExit = FALSE
  /\ spawning = 0
  /\ host = "free"
  /\ sweepWaits = FALSE
  /\ box = [c \in Slot |-> NoBox]
  /\ faults = 0
  /\ stopFailures = 0

-----------------------------------------------------------------------------
(* Operators on the shared databases.                                      *)

\* markProcessing and markCompleted.
Acked(S, a) == [m \in Message |-> IF m \in S THEN a ELSE ack[m]]

\* The newest n rows of S.
Newest(S, n) == {m \in S : Cardinality({k \in S : m < k}) < n}

\* Mutant: rows another poll has claimed or completed are not filtered out.
FetchedUnfiltered(first) ==
  Newest({m \in Message : /\ status[m] = "pending" /\ m \notin later
                          /\ m \in OnWake => first}, MaxMessagesPerPrompt)

\* getPendingMessages: the newest due rows, minus the acknowledged ones.
Fetched(first) ==
  {m \in Newest({n \in Message : /\ status[n] = "pending" /\ n \notin later
                                 /\ n \in OnWake => first},
                MaxMessagesPerPrompt) : ack[m] = "none"}

\* The instances of D die, with the turns they had open.
Die(D) == box' = [c \in Slot |-> IF c \in D THEN NoBox ELSE box[c]]

Fault == faults < MaxFaults /\ faults' = faults + 1

-----------------------------------------------------------------------------
(* The host: rows, wakes and spawns.                                       *)

\* Mutant: a wake does not join the one in flight.
WakeUnjoined ==
  spawning' = IF active = NoSlot /\ spawning < 2 THEN spawning + 1 ELSE spawning

\* wakeContainer: no-op when a container runs, joins a wake in flight.
Wake == spawning' = IF active = NoSlot /\ spawning = 0 THEN 1 ELSE spawning

Insert(m) ==
  /\ \A n \in Message : status[n] # "absent" => n < m
  /\ status' = [status EXCEPT ![m] = "pending"]
  /\ later' = IF m \in Deferred THEN later \cup {m} ELSE later
  /\ UNCHANGED tries

\* The router, an approval, another agent or a task writes a row, and wakes a
\* container when the row asks for an answer now.
Write(m) ==
  /\ host = "free"
  /\ m \notin OnWake
  /\ Insert(m)
  /\ IF m \in Trigger \ Deferred THEN Wake ELSE UNCHANGED spawning
  /\ UNCHANGED <<claimVars, heartbeat, active, clientKilled, wakeOnExit, host,
                 sweepWaits, box, countVars>>

\* A restart with a message: the on_wake row is written, the container, if one
\* runs, is stopped, and its exit wakes a fresh one.
Restart(m) ==
  /\ host = "free"
  /\ m \in OnWake
  /\ Insert(m)
  /\ IF active = NoSlot THEN UNCHANGED <<host, wakeOnExit>>
     ELSE host' = "stop" /\ wakeOnExit' = TRUE
  /\ UNCHANGED <<claimVars, heartbeat, active, clientKilled, spawning,
                 sweepWaits, box, countVars>>

\* A restart without a message.
Kill ==
  /\ host = "free" /\ active # NoSlot
  /\ Fault
  /\ host' = "stop"
  /\ UNCHANGED <<storeVars, claimVars, heartbeat, active, clientKilled,
                 wakeOnExit, spawning, sweepWaits, box, stopFailures>>

\* spawnContainer resumes: the orphan heartbeat is removed, the instance is
\* registered, and a sweep that awaited the wake goes on.
SpawnDone(c) ==
  /\ host = "free" /\ spawning > 0
  /\ c \notin Live /\ c # active
  /\ spawning' = spawning - 1
  /\ heartbeat' = "absent"
  /\ seen' = {}
  /\ active' = c
  /\ clientKilled' = FALSE
  /\ wakeOnExit' = FALSE
  /\ box' = [box EXCEPT ![c] = [NoBox EXCEPT !.pc = "booting"]]
  /\ host' = IF sweepWaits THEN "sweep" ELSE "free"
  /\ sweepWaits' = FALSE
  /\ UNCHANGED <<storeVars, ack, aged, countVars>>

\* spawnContainer rejects and wakeContainer resolves to false.
SpawnFails ==
  /\ host = "free" /\ spawning > 0
  /\ Fault
  /\ spawning' = spawning - 1
  /\ host' = IF sweepWaits THEN "sweep" ELSE "free"
  /\ sweepWaits' = FALSE
  /\ UNCHANGED <<storeVars, claimVars, heartbeat, active, clientKilled,
                 wakeOnExit, box, stopFailures>>

\* The docker client of the registered instance exits.
Close ==
  /\ host = "free" /\ active # NoSlot
  /\ active \notin Live \/ clientKilled
  /\ active' = NoSlot
  /\ clientKilled' = FALSE
  /\ wakeOnExit' = FALSE
  /\ spawning' = IF wakeOnExit /\ spawning = 0 THEN 1 ELSE spawning
  /\ UNCHANGED <<storeVars, claimVars, heartbeat, host, sweepWaits, box,
                 countVars>>

-----------------------------------------------------------------------------
(* The host sweep.                                                         *)

\* syncProcessingAcks, then step 2: wake and wait when work is due
\* (countDueMessages) and nothing runs, else go on at once.
SweepTick ==
  LET synced == [m \in Message |->
        IF ack[m] = "completed" THEN "completed" ELSE status[m]]
      due == \E m \in Trigger : synced[m] = "pending" /\ m \notin later
  IN
  /\ host = "free" /\ ~sweepWaits
  /\ status' = synced
  /\ IF due /\ active = NoSlot
     THEN sweepWaits' = TRUE /\ Wake /\ UNCHANGED host
     ELSE host' = "sweep" /\ UNCHANGED <<sweepWaits, spawning>>
  /\ UNCHANGED <<tries, later, claimVars, heartbeat, active, clientKilled,
                 wakeOnExit, box, countVars>>

\* Mutant: no absolute ceiling.
StuckClaimsOnly == aged \ seen # {}

\* decideStuckAction: the absolute ceiling, or a claim older than the tolerance
\* that no heartbeat followed.
Stuck == heartbeat = "expired" \/ aged \ seen # {}

\* Mutant: one try too many.
RetryLate ==
  LET reset == {m \in Claims : status[m] = "pending" /\ m \notin later}
      spent == {m \in reset : tries[m] > MAX_TRIES}
  IN
  /\ status' = [m \in Message |-> IF m \in spent THEN "failed" ELSE status[m]]
  /\ tries' = [m \in Message |->
                IF m \in reset \ spent THEN tries[m] + 1 ELSE tries[m]]
  /\ later' = later \cup (reset \ spent)

\* resetStuckProcessingRows: each claimed row still pending and not already
\* rescheduled is retried with backoff, or failed when its tries are used up.
Retry ==
  LET reset == {m \in Claims : status[m] = "pending" /\ m \notin later}
      spent == {m \in reset : tries[m] >= MAX_TRIES}
  IN
  /\ status' = [m \in Message |-> IF m \in spent THEN "failed" ELSE status[m]]
  /\ tries' = [m \in Message |->
                IF m \in reset \ spent THEN tries[m] + 1 ELSE tries[m]]
  /\ later' = later \cup (reset \ spent)

\* ... and the claims are deleted, unless outbound.db cannot be written.
DropClaims ==
  \/ ack' = Acked(Claims, "none") /\ aged' = {} /\ seen' = {} /\ UNCHANGED faults
  \/ Fault /\ Claims # {} /\ UNCHANGED claimVars

Reset == Retry /\ DropClaims

\* Mutant: the rows are reset while the stuck container is being stopped.
SweepResetFirst ==
  /\ host = "sweep"
  /\ host' = IF active # NoSlot /\ Stuck THEN "stop" ELSE "free"
  /\ IF active = NoSlot \/ Stuck THEN Reset
     ELSE UNCHANGED <<storeVars, claimVars, faults>>
  /\ UNCHANGED <<heartbeat, active, clientKilled, wakeOnExit, spawning,
                 sweepWaits, box, stopFailures>>

\* Steps 3 and 4: stop a stuck container, or retry what a dead one claimed.
Sweep ==
  /\ host = "sweep"
  /\ host' = IF active # NoSlot /\ Stuck THEN "stop-sweep" ELSE "free"
  /\ IF active = NoSlot THEN Reset
     ELSE UNCHANGED <<storeVars, claimVars, faults>>
  /\ UNCHANGED <<heartbeat, active, clientKilled, wakeOnExit, spawning,
                 sweepWaits, box, stopFailures>>

\* What follows `docker stop` in the same block of the host's code.
AfterStop ==
  /\ host' = "free"
  /\ IF host = "stop-sweep" THEN Reset
     ELSE UNCHANGED <<storeVars, claimVars, faults>>
  /\ UNCHANGED <<heartbeat, active, wakeOnExit, spawning, sweepWaits>>

\* `docker stop` returns with the container gone.
StopDone ==
  /\ host \in {"stop", "stop-sweep"}
  /\ Die({active})
  /\ AfterStop
  /\ UNCHANGED <<clientKilled, stopFailures>>

\* `docker stop` fails and the container lives on: only its client is killed.
StopFails ==
  /\ host \in {"stop", "stop-sweep"} /\ active \in Live
  /\ stopFailures < MaxStopFailures
  /\ stopFailures' = stopFailures + 1
  /\ clientKilled' = TRUE
  /\ AfterStop
  /\ UNCHANGED box

\* The host process dies and boots.  cleanupOrphans stops what still runs, as
\* far as `docker stop` works.
HostRestart ==
  /\ faults < MaxFaults
  /\ faults' = faults + 1
  /\ \E left \in SUBSET Live :
       /\ stopFailures + Cardinality(left) <= MaxStopFailures
       /\ stopFailures' = stopFailures + Cardinality(left)
       /\ Die(Slot \ left)
  /\ active' = NoSlot
  /\ clientKilled' = FALSE
  /\ wakeOnExit' = FALSE
  /\ spawning' = 0
  /\ host' = "free"
  /\ sweepWaits' = FALSE
  /\ UNCHANGED <<storeVars, claimVars, heartbeat>>

-----------------------------------------------------------------------------
(* A container instance.                                                   *)

\* touchHeartbeat, while the rows of S remain claimed.
Touch(S) == heartbeat' = "fresh" /\ seen' = S

\* Mutant: every leftover ack is cleared, not only the claims.
BootClearsAll(c) ==
  /\ box[c].pc = "booting"
  /\ box' = [box EXCEPT ![c].pc = "polling"]
  /\ ack' = [m \in Message |-> "none"]
  /\ aged' = {} /\ seen' = {}
  /\ UNCHANGED <<storeVars, heartbeat, hostVars, countVars>>

\* clearStaleProcessingAcks, then the poll loop starts.
Boot(c) ==
  /\ box[c].pc = "booting"
  /\ box' = [box EXCEPT ![c].pc = "polling"]
  /\ ack' = Acked(Claims, "none")
  /\ aged' = {} /\ seen' = {}
  /\ UNCHANGED <<storeVars, heartbeat, hostVars, countVars>>

\* An iteration of the poll loop reads: nothing to do, or only context rows;
\* or a batch to claim.
Poll(c) ==
  LET fetched == Fetched(box[c].first) IN
  /\ box[c].pc = "polling"
  /\ box' = IF fetched \cap Trigger = {} THEN [box EXCEPT ![c].first = FALSE]
            ELSE [box EXCEPT ![c].first = FALSE, ![c].pc = "claiming",
                             ![c].read = fetched]
  /\ UNCHANGED <<storeVars, claimVars, heartbeat, hostVars, countVars>>

\* markProcessing (INSERT OR REPLACE): whatever has been acknowledged about
\* these rows since they were read is overwritten, and the claims are new.
Mark(S) ==
  /\ ack' = Acked(S, "processing")
  /\ aged' = aged \ S
  /\ seen' = seen \ S

Claim(c) ==
  /\ box[c].pc = "claiming"
  /\ Mark(box[c].read)
  /\ box' = [box EXCEPT ![c].pc = IF box[c].read \cap Clear # {} THEN "commands"
                                  ELSE "scripts",
                        ![c].batch = box[c].read, ![c].read = {}]
  /\ UNCHANGED <<storeVars, heartbeat, hostVars, countVars>>

\* The /clear commands of the batch are executed and completed.
Commands(c) ==
  LET cleared == box[c].batch \cap Clear
      rest    == box[c].batch \ Clear
  IN
  /\ box[c].pc = "commands"
  /\ ack' = Acked(cleared, "completed")
  /\ aged' = aged \ cleared
  /\ seen' = seen \ cleared
  /\ box' = [box EXCEPT ![c].pc = IF rest = {} THEN "polling" ELSE "scripts",
                        ![c].batch = rest,
                        ![c].dealt = @ \cup cleared]
  /\ UNCHANGED <<storeVars, heartbeat, hostVars, countVars>>

\* applyPreTaskScripts on the initial batch: each script skips its own row or
\* lets it pass, and the rest is the prompt of a new query.
Scripts(c) ==
  /\ box[c].pc = "scripts"
  /\ \E skipped \in SUBSET (box[c].batch \cap Scripted) :
       LET keep == box[c].batch \ skipped IN
       /\ ack' = Acked(skipped, "completed")
       /\ aged' = aged \ skipped
       /\ IF box[c].batch \cap Scripted # {} THEN Touch(Claims \ skipped)
          ELSE UNCHANGED <<heartbeat, seen>>
       /\ box' = [box EXCEPT ![c].pc = IF keep = {} THEN "polling" ELSE "query",
                             ![c].batch = keep,
                             ![c].dealt = @ \cup box[c].batch,
                             ![c].turn = keep]
  /\ UNCHANGED <<storeVars, hostVars, countVars>>

\* From the read of a poll to its claim, nothing else of the instance runs.
Reading(c) == box[c].pc \in {"claiming", "taking"}

\* An event of the agent, or the start of a script.
Event(c) ==
  /\ \/ box[c].pc \in {"query", "closing"}
     \/ box[c].pc = "scripts" /\ box[c].batch \cap Scripted # {}
     \/ /\ (box[c].follow \cup box[c].late) \cap Scripted # {}
        /\ ~Reading(c)
  /\ Touch(Claims)
  /\ UNCHANGED <<storeVars, ack, aged, hostVars, box, countVars>>

\* A result event: the turn is over, the initial batch is completed.
Result(c) ==
  /\ box[c].pc \in {"query", "closing"}
  /\ ack' = Acked(box[c].batch, "completed")
  /\ aged' = aged \ box[c].batch
  /\ Touch(Claims \ box[c].batch)
  /\ box' = [box EXCEPT ![c].batch = {}, ![c].turn = {}]
  /\ UNCHANGED <<storeVars, hostVars, countVars>>

\* The follow-up poll of an open query.  A runner command ends the stream and
\* stays pending; anything else, context rows included, is to be claimed.
FollowPoll(c) ==
  LET fetched == Fetched(FALSE) IN
  /\ box[c].pc = "query" /\ box[c].follow = {}
  /\ fetched # {}
  /\ box' = IF fetched \cap Command # {} THEN [box EXCEPT ![c].pc = "closing"]
            ELSE [box EXCEPT ![c].pc = "taking", ![c].read = fetched]
  /\ UNCHANGED <<storeVars, claimVars, heartbeat, hostVars, countVars>>

Take(c) ==
  /\ box[c].pc = "taking"
  /\ Mark(box[c].read)
  /\ box' = [box EXCEPT ![c].pc = "query", ![c].follow = box[c].read,
                        ![c].read = {}]
  /\ UNCHANGED <<storeVars, heartbeat, hostVars, countVars>>

\* The rest of that poll while the query is open: after the scripts, what they
\* let pass is pushed and completed at once.
FollowPush(c) ==
  LET rows == box[c].follow IN
  /\ rows # {}
  /\ \E skipped \in SUBSET (rows \cap Scripted) :
       box' = [box EXCEPT ![c].follow = {},
                          ![c].dealt = @ \cup rows,
                          ![c].turn = @ \cup (rows \ skipped)]
  /\ ack' = Acked(rows, "completed")
  /\ aged' = aged \ rows
  /\ IF rows \cap Scripted # {} THEN Touch(Claims \ rows)
     ELSE seen' = seen \ rows /\ UNCHANGED heartbeat
  /\ UNCHANGED <<storeVars, hostVars, countVars>>

\* ... and when it throws, which is logged: what it has not completed stays
\* claimed, and may have been pushed all the same.
FollowFails(c) ==
  LET rows == box[c].follow IN
  /\ rows # {}
  /\ Fault
  /\ \E skipped \in SUBSET (rows \cap Scripted) :
     \E pushed \in {{}, rows \ skipped} :
       /\ box' = [box EXCEPT ![c].follow = {},
                             ![c].dealt = @ \cup skipped \cup pushed,
                             ![c].turn = @ \cup pushed]
       /\ ack' = Acked(skipped, "completed")
       /\ aged' = aged \ skipped
       /\ IF rows \cap Scripted # {} THEN Touch(Claims \ skipped)
          ELSE UNCHANGED <<heartbeat, seen>>
  /\ UNCHANGED <<storeVars, hostVars, stopFailures>>

\* Mutant: a late row is completed without the check of `done`.
FollowAbandonCompletes(c, m) ==
  /\ m \in box[c].late /\ ~Reading(c)
  /\ box' = [box EXCEPT ![c].late = @ \ {m}]
  /\ ack' = Acked({m}, "completed")
  /\ aged' = aged \ {m} /\ seen' = seen \ {m}
  /\ UNCHANGED <<storeVars, heartbeat, hostVars, countVars>>

\* ... and when the query has ended meanwhile: a row its script skips is
\* completed, any other is left claimed.
FollowAbandon(c, m) ==
  /\ m \in box[c].late /\ ~Reading(c)
  /\ \/ /\ m \in Scripted
        /\ box' = [box EXCEPT ![c].late = @ \ {m}, ![c].dealt = @ \cup {m}]
        /\ ack' = Acked({m}, "completed")
        /\ aged' = aged \ {m}
        /\ Touch(Claims \ {m})
     \/ /\ box' = [box EXCEPT ![c].late = @ \ {m}]
        /\ IF m \in Scripted THEN Touch(Claims) ELSE UNCHANGED <<heartbeat, seen>>
        /\ UNCHANGED <<ack, aged>>
  /\ UNCHANGED <<storeVars, hostVars, countVars>>

\* The stream ends, was ended, or throws: the batch is completed in any case.
QueryEnd(c) ==
  /\ box[c].pc \in {"query", "closing"}
  /\ ack' = Acked(box[c].batch, "completed")
  /\ aged' = aged \ box[c].batch
  /\ seen' = seen \ box[c].batch
  /\ box' = [box EXCEPT ![c].pc = "polling",
                        ![c].batch = {},
                        ![c].follow = {},
                        ![c].late = @ \cup box[c].follow,
                        ![c].turn = {}]
  /\ UNCHANGED <<storeVars, heartbeat, hostVars, countVars>>

\* The instance crashes, runs out of memory, or exits on a poisoned mount.
Crash(c) ==
  /\ c \in Live
  /\ Fault
  /\ Die({c})
  /\ UNCHANGED <<storeVars, claimVars, heartbeat, hostVars, stopFailures>>

-----------------------------------------------------------------------------
(* Time.                                                                   *)

ClaimAges(m) ==
  /\ m \in Claims \ aged
  /\ aged' = aged \cup {m}
  /\ UNCHANGED <<storeVars, ack, seen, heartbeat, hostVars, box, countVars>>

HeartbeatExpires ==
  /\ heartbeat = "fresh"
  /\ heartbeat' = "expired"
  /\ UNCHANGED <<storeVars, claimVars, hostVars, box, countVars>>

BackoffElapses(m) ==
  /\ m \in later
  /\ later' = later \ {m}
  /\ UNCHANGED <<status, tries, claimVars, heartbeat, hostVars, box, countVars>>

-----------------------------------------------------------------------------
HostStep ==
  \/ \E m \in Message : Write(m) \/ Restart(m)
  \/ Kill \/ SpawnFails \/ Close \/ SweepTick \/ Sweep \/ StopDone \/ StopFails
  \/ HostRestart
  \/ \E c \in Slot : SpawnDone(c)

BoxStep(c) ==
  \/ Boot(c) \/ Poll(c) \/ Claim(c) \/ Commands(c) \/ Scripts(c) \/ Event(c)
  \/ Result(c) \/ FollowPoll(c) \/ Take(c) \/ FollowPush(c) \/ FollowFails(c)
  \/ QueryEnd(c) \/ Crash(c)
  \/ \E m \in Message : FollowAbandon(c, m)

Time ==
  \/ HeartbeatExpires
  \/ \E m \in Message : ClaimAges(m) \/ BackoffElapses(m)

Next == HostStep \/ (\E c \in Slot : BoxStep(c)) \/ Time

Spec == Init /\ [][Next]_vars

\* Timers fire, awaited calls of the host settle, a container that is up polls
\* and its scripts end (they have a timeout).  Nothing is assumed of the
\* agent: it may hang in a query for ever.
Fairness ==
  /\ WF_vars(SweepTick)
  /\ WF_vars(Sweep)
  /\ WF_vars(StopDone \/ StopFails)
  /\ SF_vars(SpawnFails \/ \E c \in Slot : SpawnDone(c))
  /\ SF_vars(Close)
  /\ \A c \in Slot :
       /\ WF_vars(Boot(c)) /\ WF_vars(Poll(c)) /\ WF_vars(Claim(c))
       /\ WF_vars(Commands(c)) /\ WF_vars(Scripts(c)) /\ WF_vars(Take(c))
       /\ WF_vars(FollowPush(c) \/ \E m \in Message : FollowAbandon(c, m))
  /\ WF_vars(HeartbeatExpires)
  /\ \A m \in Message : WF_vars(ClaimAges(m)) /\ WF_vars(BackoffElapses(m))

FairSpec == Spec /\ Fairness

-----------------------------------------------------------------------------
(* Properties.                                                             *)

Held(c) == box[c].batch \cup box[c].follow \cup box[c].late

\* Concurrent wakes (router, sweep, approvals, exit callbacks) never put two
\* containers on one session's databases, as long as `docker stop` works.
OneContainer == Cardinality(Live) <= 1 + stopFailures

\* A row an instance is working on stays claimed (or is completed) until that
\* instance is gone: neither the sweep's cleanup nor the startup cleanup of
\* another instance takes it away.
ClaimsHeld ==
  stopFailures = 0 => \A c \in Slot : \A m \in Held(c) : ack[m] # "none"

\* No live instance starts a second turn on a row, and no two live instances
\* take turns on the same row: a row is claimed only by an instance when none
\* alive has dealt with it.
NoSecondTurn ==
  [][\A c \in Slot : \A m \in Held(c)' \ Held(c) :
       \A d \in Live' : m \notin box[d].dealt \/ stopFailures > 0]_vars

\* A row is acknowledged as completed only by an instance that handed it to
\* its agent, ran the script that gated it, or executed it as a command.
NothingSkippedSilently ==
  [][\A m \in Message :
       (ack'[m] = "completed" /\ ack[m] # "completed")
         => \E c \in Live' : m \in box'[c].dealt]_vars

\* The acknowledgement of a finished row survives the death of the container
\* and every cleanup, and the row is not retried or given up.  One thing can
\* undo it: a second instance, alive because `docker stop` failed, had read the
\* row before it was finished and claims it after.
CompletionSticks ==
  [][\A m \in Message : ack[m] = "completed" =>
       /\ \/ ack'[m] = "completed"
          \/ stopFailures > 0 /\ \E c \in Live : m \in box[c].read
       /\ status'[m] \in {status[m], "completed"}]_vars

\* The host gives up on a row only when nothing can complete it any more: a
\* failed row is never claimed, and never turns into a completed one.
FailedIsFinal ==
  [][\A m \in Message : (status[m] = "failed" /\ stopFailures' = 0) =>
       /\ status'[m] = "failed"
       /\ ack'[m] # "completed"]_vars

\* Eventually, an agent that has been silent for longer than the absolute
\* ceiling stays silent until the sweep has seen it.
StaysSilent == <>[][~(heartbeat = "expired" /\ heartbeat' = "fresh")]_vars

\* As many rows as one prompt takes are due after this one, in seq order.
Crowded(m) ==
  Cardinality({n \in Message : m < n /\ status[n] = "pending" /\ n \notin later})
    >= MaxMessagesPerPrompt

\* Once failures end, every row that asks for an answer is completed or given
\* up, whatever hung, crashed or failed to start before.  It can be denied for
\* one reason only: for ever, a prompt's worth of newer rows is due.  A poll
\* reads the newest MaxMessagesPerPrompt rows and looks for a trigger only among
\* those (messages-in.ts:70-93, poll-loop.ts:132), so newer context rows hide
\* the row from every poll while the sweep counts it as due.  Outside the
\* statement: an on_wake row (if its first instance dies and another row wakes
\* the next one while it is in backoff, it waits for yet another first poll),
\* and a container that dies at every start, whose claims are dropped by the
\* next start before any sweep can count a try: failures end here.
EverySettles ==
  StaysSilent =>
    \A m \in Trigger \ OnWake :
      \/ (status[m] = "pending") ~> (status[m] \in {"completed", "failed"})
      \/ <>[]Crowded(m)

\* What architecture.md says of `completed`: it is set after successful
\* processing, so a row is not completed when its turn is cut short.
NoTurnLost ==
  [][\A c \in Slot : \A m \in box[c].turn :
       ack[m] = "completed" => box'[c].pc # "dead"]_vars
=============================================================================
