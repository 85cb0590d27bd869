----------------------------- MODULE Scheduling -----------------------------
(***************************************************************************)
(* Recurring tasks of one session (src/src/modules/scheduling).  A task is *)
(* a messages_in row; each occurrence of a recurring task is a new row of  *)
(* the same series.  The series is worked on by                            *)
(*   - the container, which claims a row and acknowledges it when done,    *)
(*   - the host sweep, which copies acknowledgements, retries what a dead  *)
(*     container left and inserts the next occurrence of completed rows,   *)
(*   - the agent, whose schedule / cancel / pause / resume / update_task   *)
(*     calls the host's delivery chain executes between two awaits of the  *)
(*     sweep.                                                              *)
(* When a row is due is left open: a pending row may be claimed at once.   *)
(***************************************************************************)
EXTENDS Naturals, FiniteSets

CONSTANTS
  Row,       \* row ids in the order in which they are inserted
  NoRow,
  MAX_TRIES

ASSUME SchedulingAssumption ==
  /\ Row \subseteq Nat
  /\ NoRow \notin Row
  /\ MAX_TRIES \in Nat

VARIABLES
  status,     \* messages_in.status; "absent" before the row is inserted
  recurrence, \* "none", or its cron expression
  series,     \* its series_id
  tries,
  ack,        \* processing_ack
  up,         \* a container runs
  sweep,      \* where the sweep of this session stands
  todo,       \* completed recurring rows handleRecurrence has still to treat
  clearing,   \* the row whose successor is inserted, its recurrence not cleared
  \* What the agent asked for, for the properties.
  paused,     \* series paused and not resumed since
  cancelled,  \* series cancelled
  wanted,     \* series that are to recur: neither cancelled nor one-shot
  cut         \* series left with two recurring rows: inserted, not cleared

sweepVars == <<sweep, todo, clearing>>
askVars   == <<paused, cancelled, wanted>>
vars == <<status, recurrence, series, tries, ack, up, sweepVars, askVars, cut>>

TypeOK ==
  /\ status \in [Row -> {"absent", "pending", "paused", "completed", "failed"}]
  /\ recurrence \in [Row -> {"none", "cron"}]
  /\ series \in [Row -> Row]
  /\ tries \in [Row -> 0 .. MAX_TRIES]
  /\ ack \in [Row -> {"none", "processing", "completed"}]
  /\ up \in BOOLEAN
  /\ sweep \in {"idle", "synced", "listing", "recurring"}
  /\ todo \subseteq Row
  /\ clearing \in Row \cup {NoRow}
  /\ paused \subseteq Row
  /\ cancelled \subseteq Row
  /\ wanted \subseteq Row
  /\ cut \subseteq Row

Init ==
  /\ status = [r \in Row |-> "absent"]
  /\ recurrence = [r \in Row |-> "none"]
  /\ series = [r \in Row |-> r]
  /\ tries = [r \in Row |-> 0]
  /\ ack = [r \in Row |-> "none"]
  /\ up = FALSE
  /\ sweep = "idle"
  /\ todo = {}
  /\ clearing = NoRow
  /\ paused = {}
  /\ cancelled = {}
  /\ wanted = {}
  /\ cut = {}

\* The row the next INSERT makes.
Fresh(r) == status[r] = "absent" /\ \A n \in Row : n < r => status[n] # "absent"

\* (id = taskId OR series_id = taskId), in one of the given states.
Match(id, states) ==
  {r \in Row : (r = id \/ series[r] = id) /\ status[r] \in states}

SeriesOf(rows) == {series[r] : r \in rows}

SetStatus(S, value) == [r \in Row |-> IF r \in S THEN value ELSE status[r]]

\* Claimed rows that are still pending, and processing_ack without its claims.
Abandoned == {r \in Row : ack[r] = "processing" /\ status[r] = "pending"}

Unclaimed == [r \in Row |-> IF ack[r] = "processing" THEN "none" ELSE ack[r]]

-----------------------------------------------------------------------------
(* The agent's system actions.  None of them runs while the host is between *)
(* the two statements that advance a series.  The id is the series id, as   *)
(* list_tasks shows it, or the id of an occurrence the agent remembers.     *)

Schedule(r, cron) ==
  /\ clearing = NoRow
  /\ Fresh(r)
  /\ status' = [status EXCEPT ![r] = "pending"]
  /\ recurrence' = [recurrence EXCEPT ![r] = cron]
  /\ wanted' = IF cron = "none" THEN wanted ELSE wanted \cup {r}
  /\ UNCHANGED <<series, tries, ack, up, sweepVars, paused, cancelled, cut>>

\* Mutant: the cancelled row keeps its recurrence.
CancelKeepsRecurrence(id) ==
  LET rows == Match(id, {"pending", "paused"}) IN
  /\ clearing = NoRow
  /\ rows # {}
  /\ status' = SetStatus(rows, "completed")
  /\ cancelled' = cancelled \cup SeriesOf(rows)
  /\ wanted' = wanted \ SeriesOf(rows)
  /\ UNCHANGED <<recurrence, series, tries, ack, up, sweepVars, paused, cut>>

Cancel(id) ==
  LET rows == Match(id, {"pending", "paused"}) IN
  /\ clearing = NoRow
  /\ rows # {}
  /\ status' = SetStatus(rows, "completed")
  /\ recurrence' = [r \in Row |-> IF r \in rows THEN "none" ELSE recurrence[r]]
  /\ cancelled' = cancelled \cup SeriesOf(rows)
  /\ wanted' = wanted \ SeriesOf(rows)
  /\ UNCHANGED <<series, tries, ack, up, sweepVars, paused, cut>>

Pause(id) ==
  LET rows == Match(id, {"pending"}) IN
  /\ clearing = NoRow
  /\ rows # {}
  /\ status' = SetStatus(rows, "paused")
  /\ paused' = paused \cup SeriesOf(rows)
  /\ UNCHANGED <<recurrence, series, tries, ack, up, sweepVars, cancelled,
                 wanted, cut>>

Resume(id) ==
  LET rows == Match(id, {"paused"}) IN
  /\ clearing = NoRow
  /\ rows # {}
  /\ status' = SetStatus(rows, "pending")
  /\ paused' = paused \ SeriesOf(rows)
  /\ UNCHANGED <<recurrence, series, tries, ack, up, sweepVars, cancelled,
                 wanted, cut>>

\* update_task: a new cron expression, or the task becomes one-shot.  (An id that
\* matches no live row only makes the host tell the agent so.)
Update(id, cron) ==
  LET rows == Match(id, {"pending", "paused"}) IN
  /\ clearing = NoRow
  /\ rows # {}
  /\ recurrence' = [r \in Row |-> IF r \in rows THEN cron ELSE recurrence[r]]
  /\ wanted' = IF cron = "none" THEN wanted \ SeriesOf(rows)
                 ELSE wanted \cup SeriesOf(rows)
  /\ UNCHANGED <<status, series, tries, ack, up, sweepVars, paused, cancelled,
                 cut>>

-----------------------------------------------------------------------------
(* The container.                                                          *)

\* A container starts and clears the claims a dead one left.
Start ==
  /\ ~up
  /\ up' = TRUE
  /\ ack' = Unclaimed
  /\ UNCHANGED <<status, recurrence, series, tries, sweepVars, askVars, cut>>

Claim(r) ==
  /\ up
  /\ status[r] = "pending" /\ ack[r] = "none"
  /\ ack' = [ack EXCEPT ![r] = "processing"]
  /\ UNCHANGED <<status, recurrence, series, tries, up, sweepVars, askVars,
                 cut>>

\* The task has run, or its script has gated it.
Finish(r) ==
  /\ up
  /\ ack[r] = "processing"
  /\ ack' = [ack EXCEPT ![r] = "completed"]
  /\ UNCHANGED <<status, recurrence, series, tries, up, sweepVars, askVars,
                 cut>>

\* The container crashes, or the host kills it.
Crash ==
  /\ up
  /\ up' = FALSE
  /\ UNCHANGED <<status, recurrence, series, tries, ack, sweepVars, askVars,
                 cut>>

-----------------------------------------------------------------------------
(* The host sweep.                                                         *)

\* Step 1, syncProcessingAcks; then the sweep may await a wake.
Sync ==
  /\ sweep = "idle"
  /\ sweep' = "synced"
  /\ status' = SetStatus({r \in Row : ack[r] = "completed"}, "completed")
  /\ UNCHANGED <<recurrence, series, tries, ack, up, todo, clearing, askVars,
                 cut>>

\* Mutant: one try too many.
RetryLate ==
  /\ sweep = "synced"
  /\ sweep' = "listing"
  /\ IF up THEN UNCHANGED <<status, tries, ack>>
     ELSE \E moved \in SUBSET Abandoned :
            LET reset == Abandoned \ moved
                spent == {r \in reset : tries[r] > MAX_TRIES}
            IN
            /\ status' = SetStatus(spent, "failed")
            /\ tries' = [r \in Row |->
                          IF r \in reset \ spent THEN tries[r] + 1 ELSE tries[r]]
            /\ ack' \in {ack, Unclaimed}
  /\ UNCHANGED <<recurrence, series, up, todo, clearing, askVars, cut>>

\* Step 4, resetStuckProcessingRows when no container runs: rows update_task has
\* moved to a later time are passed over, and the claims are deleted unless
\* outbound.db cannot be written.  Then the sweep awaits the import of the
\* recurrence module.
Retry ==
  /\ sweep = "synced"
  /\ sweep' = "listing"
  /\ IF up THEN UNCHANGED <<status, tries, ack>>
     ELSE \E moved \in SUBSET Abandoned :
            LET reset == Abandoned \ moved
                spent == {r \in reset : tries[r] >= MAX_TRIES}
            IN
            /\ status' = SetStatus(spent, "failed")
            /\ tries' = [r \in Row |->
                          IF r \in reset \ spent THEN tries[r] + 1 ELSE tries[r]]
            /\ ack' \in {ack, Unclaimed}
  /\ UNCHANGED <<recurrence, series, up, todo, clearing, askVars, cut>>

\* Mutant: the rows of a series that is not over are listed too.
ListAll ==
  /\ sweep = "listing"
  /\ sweep' = "recurring"
  /\ todo' = {r \in Row : status[r] # "absent" /\ recurrence[r] # "none"}
  /\ UNCHANGED <<status, recurrence, series, tries, ack, up, clearing,
                 askVars, cut>>

\* getCompletedRecurring.
List ==
  /\ sweep = "listing"
  /\ sweep' = "recurring"
  /\ todo' = {r \in Row : status[r] = "completed" /\ recurrence[r] # "none"}
  /\ UNCHANGED <<status, recurrence, series, tries, ack, up, clearing,
                 askVars, cut>>

\* Mutant: the recurrence is cleared before the next row is inserted.
AdvanceClearFirst(r) ==
  /\ sweep = "recurring" /\ clearing = NoRow
  /\ r \in todo /\ \A n \in todo : r <= n
  /\ todo' = todo \ {r}
  /\ recurrence' = [recurrence EXCEPT ![r] = "none"]
  /\ clearing' = r
  /\ UNCHANGED <<status, series, tries, ack, up, sweep, askVars, cut>>

\* insertRecurrence for the next row of the list.  A cron expression that does
\* not parse, or an insert that fails, is logged and leaves the row as it is.
Advance(r) ==
  /\ sweep = "recurring" /\ clearing = NoRow
  /\ r \in todo /\ \A n \in todo : r <= n
  /\ todo' = todo \ {r}
  /\ \/ UNCHANGED <<status, recurrence, series, clearing>>
     \/ /\ clearing' = r
        /\ \E new \in Row :
             /\ Fresh(new)
             /\ status' = [status EXCEPT ![new] = "pending"]
             /\ recurrence' = [recurrence EXCEPT ![new] = recurrence[r]]
             /\ series' = [series EXCEPT ![new] = series[r]]
  /\ UNCHANGED <<tries, ack, up, sweep, askVars, cut>>

\* clearRecurrence, the statement after it.
Clear ==
  /\ clearing # NoRow
  /\ recurrence' = [recurrence EXCEPT ![clearing] = "none"]
  /\ clearing' = NoRow
  /\ UNCHANGED <<status, series, tries, ack, up, sweep, todo, askVars, cut>>

\* ... which may fail as well, and is logged.
ClearFails ==
  /\ clearing # NoRow
  /\ clearing' = NoRow
  /\ cut' = cut \cup {series[clearing]}
  /\ UNCHANGED <<status, recurrence, series, tries, ack, up, sweep, todo,
                 askVars>>

SweepEnds ==
  /\ sweep = "recurring" /\ todo = {} /\ clearing = NoRow
  /\ sweep' = "idle"
  /\ UNCHANGED <<status, recurrence, series, tries, ack, up, todo, clearing,
                 askVars, cut>>

\* The host dies and boots; its containers are stopped.
HostRestart ==
  /\ up' = FALSE
  /\ sweep' = "idle"
  /\ todo' = {}
  /\ clearing' = NoRow
  /\ cut' = IF clearing = NoRow THEN cut ELSE cut \cup {series[clearing]}
  /\ UNCHANGED <<status, recurrence, series, tries, ack, askVars>>

-----------------------------------------------------------------------------
Agent ==
  \E r \in Row :
    \/ \E cron \in {"none", "cron"} : Schedule(r, cron) \/ Update(r, cron)
    \/ Cancel(r) \/ Pause(r) \/ Resume(r)

Container == Start \/ Crash \/ \E r \in Row : Claim(r) \/ Finish(r)

Host ==
  \/ Sync \/ Retry \/ List \/ Clear \/ ClearFails \/ SweepEnds \/ HostRestart
  \/ \E r \in Row : Advance(r)

Next == Agent \/ Container \/ Host

Spec == Init /\ [][Next]_vars

-----------------------------------------------------------------------------
(* Properties.                                                             *)

Rows(s) == {r \in Row : series[r] = s /\ status[r] # "absent"}

LiveRows(s) == {r \in Rows(s) : status[r] \in {"pending", "paused"}}

\* A series never has two live occurrences, whatever is retried, resumed or
\* re-acknowledged: only a host that died between inserting the next row and
\* clearing the recurrence of the last one forks a series.
OneLiveRow == \A s \in Row \ cut : Cardinality(LiveRows(s)) <= 1

\* A series that is to recur is never silently lost, wherever the host dies and
\* whatever the agent does in between: it has a live row, a completed one the
\* next sweep will advance, or one that gave up after its last try.
SeriesGoesOn ==
  \A s \in wanted : \E r \in Rows(s) :
    \/ status[r] \in {"pending", "paused", "failed"}
    \/ status[r] = "completed" /\ recurrence[r] # "none"

\* A cancel that reached a live row ends the series: no sweep that had read its
\* rows before brings it back, unless the series was forked.
CancelHolds == \A s \in cancelled \ cut : LiveRows(s) = {}

\* What the pause_task tool tells the agent: a paused task will not run until
\* it is resumed.
PauseHolds == \A s \in paused : \A r \in Rows(s) : status[r] # "pending"
=============================================================================
