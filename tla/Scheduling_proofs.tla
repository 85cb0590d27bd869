-------------------------- MODULE Scheduling_proofs --------------------------
(***************************************************************************)
(* Proofs about Scheduling, for every set of rows and every MAX_TRIES.     *)
(***************************************************************************)
EXTENDS Scheduling, FiniteSetTheorems, TLAPS

-----------------------------------------------------------------------------
(* The inductive invariant.                                                *)

\* Rows of a series that are live, or that a sweep may still advance.
Open(s) ==
  {r \in Rows(s) : status[r] \in {"pending", "paused"} \/ recurrence[r] # "none"}

\* A row id that is not used yet has left no trace; the first row of a series
\* is as old as any of its rows.
Untouched ==
  /\ \A r \in Row : status[r] = "absent" =>
       series[r] = r /\ recurrence[r] = "none" /\ ack[r] = "none"
  /\ \A r \in Row : status[r] # "absent" => status[series[r]] # "absent"
  /\ \A s \in cancelled \cup wanted : status[s] # "absent"

\* What the sweep remembers across its awaits stays true: the rows it listed
\* are still completed and recurring.
ListIsFresh ==
  /\ sweep # "recurring" => todo = {} /\ clearing = NoRow
  /\ clearing \notin todo
  /\ clearing # NoRow => status[clearing] = "completed"
  /\ \A r \in todo : status[r] = "completed" /\ recurrence[r] # "none"

\* Apart from the row being cleared, a series has one open row: this is what
\* makes OneLiveRow inductive, for a sweep inserts a live row when it finds a
\* completed one.
OneOpenRow ==
  \A s \in Row \ cut : \A a, b \in Open(s) \ {clearing} : a = b

\* A cancelled series has no open row left, so no sweep can bring it back.
CancelledIsClosed == \A s \in cancelled \ cut : Open(s) = {}

\* A series that is to recur has a row that says so, and that no sweep is just
\* clearing.
RecursSomewhere ==
  \A s \in wanted : \E r \in Rows(s) \ {clearing} : recurrence[r] # "none"

Inv == /\ TypeOK
       /\ Untouched
       /\ ListIsFresh
       /\ OneOpenRow
       /\ CancelledIsClosed
       /\ RecursSomewhere

-----------------------------------------------------------------------------
(* What the compound statements write, row by row.                         *)

\* The series of some rows are row ids.
LEMMA SeriesOfRows ==
  ASSUME TypeOK, NEW S \in SUBSET Row
  PROVE  SeriesOf(S) \in SUBSET Row
  BY DEF TypeOK, SeriesOf

\* A retry only fails pending rows and only drops claims.
LEMMA RetryRows ==
  ASSUME TypeOK, Retry, NEW r \in Row
  PROVE  /\ status'[r] = status[r] \/ (status[r] = "pending" /\ status'[r] = "failed")
         /\ ack'[r] = ack[r] \/ ack'[r] = "none"
<1>1. CASE up
  BY <1>1 DEF Retry
<1>2. CASE ~up
  BY <1>2 DEF Retry, SetStatus, Abandoned, Unclaimed, TypeOK
<1> QED
  BY <1>1, <1>2

-----------------------------------------------------------------------------
(* The steps, one lemma for each part of the invariant.                    *)

\* Every step keeps the types.
LEMMA TypeStep ==
  ASSUME TypeOK, [Next]_vars
  PROVE  TypeOK'
<1> USE DEF TypeOK, sweepVars, askVars
<1>1. ASSUME NEW r \in Row, NEW cron \in {"none", "cron"}, Schedule(r, cron)
      PROVE  TypeOK'
  BY <1>1 DEF Schedule, Fresh
<1>2. ASSUME NEW r \in Row, NEW cron \in {"none", "cron"}, Update(r, cron)
      PROVE  TypeOK'
  <2>1. SeriesOf(Match(r, {"pending", "paused"})) \in SUBSET Row
    BY SeriesOfRows DEF Match
  <2> QED
    BY <1>2, <2>1 DEF Update, Match, SeriesOf
<1>3. ASSUME NEW r \in Row, Cancel(r) PROVE TypeOK'
  <2>1. SeriesOf(Match(r, {"pending", "paused"})) \in SUBSET Row
    BY SeriesOfRows DEF Match
  <2> QED
    BY <1>3, <2>1 DEF Cancel, Match, SeriesOf, SetStatus
<1>4. ASSUME NEW r \in Row, Pause(r) PROVE TypeOK'
  <2>1. SeriesOf(Match(r, {"pending"})) \in SUBSET Row
    BY SeriesOfRows DEF Match
  <2> QED
    BY <1>4, <2>1 DEF Pause, Match, SeriesOf, SetStatus
<1>5. ASSUME NEW r \in Row, Resume(r) PROVE TypeOK'
  BY <1>5 DEF Resume, Match, SeriesOf, SetStatus
<1>6. CASE Start
  BY <1>6 DEF Start, Unclaimed
<1>7. CASE Crash
  BY <1>7 DEF Crash
<1>8. ASSUME NEW r \in Row, Claim(r) PROVE TypeOK'
  BY <1>8 DEF Claim
<1>9. ASSUME NEW r \in Row, Finish(r) PROVE TypeOK'
  BY <1>9 DEF Finish
<1>10. CASE Sync
  BY <1>10 DEF Sync, SetStatus
<1>11. CASE Retry
  BY <1>11, SchedulingAssumption DEF Retry, SetStatus, Abandoned, Unclaimed
<1>12. CASE List
  BY <1>12 DEF List
<1>13. ASSUME NEW r \in Row, Advance(r) PROVE TypeOK'
  BY <1>13 DEF Advance, Fresh
<1>14. CASE Clear
  BY <1>14 DEF Clear
<1>15. CASE ClearFails
  BY <1>15 DEF ClearFails
<1>16. CASE SweepEnds
  BY <1>16 DEF SweepEnds
<1>17. CASE HostRestart
  BY <1>17 DEF HostRestart
<1>18. CASE UNCHANGED vars
  BY <1>18 DEF vars
<1> QED
  BY <1>1, <1>2, <1>3, <1>4, <1>5, <1>6, <1>7, <1>8, <1>9, <1>10, <1>11,
     <1>12, <1>13, <1>14, <1>15, <1>16, <1>17, <1>18
     DEF Next, Agent, Container, Host

\* No step leaves a trace of a row id it does not insert.
LEMMA UntouchedStep ==
  ASSUME TypeOK, Untouched, ListIsFresh, [Next]_vars
  PROVE  Untouched'
<1> USE DEF TypeOK, Untouched, ListIsFresh, sweepVars, askVars
<1>1. ASSUME NEW r \in Row, NEW cron \in {"none", "cron"}, Schedule(r, cron)
      PROVE  Untouched'
  BY <1>1 DEF Schedule, Fresh
<1>2. ASSUME NEW r \in Row, NEW cron \in {"none", "cron"}, Update(r, cron)
      PROVE  Untouched'
  BY <1>2 DEF Update, Match, SeriesOf
<1>3. ASSUME NEW r \in Row, Cancel(r) PROVE Untouched'
  BY <1>3 DEF Cancel, Match, SeriesOf, SetStatus
<1>4. ASSUME NEW r \in Row, Pause(r) PROVE Untouched'
  BY <1>4 DEF Pause, Match, SeriesOf, SetStatus
<1>5. ASSUME NEW r \in Row, Resume(r) PROVE Untouched'
  BY <1>5 DEF Resume, Match, SeriesOf, SetStatus
<1>6. CASE Start
  BY <1>6 DEF Start, Unclaimed
<1>7. CASE Crash
  BY <1>7 DEF Crash
<1>8. ASSUME NEW r \in Row, Claim(r) PROVE Untouched'
  BY <1>8 DEF Claim
<1>9. ASSUME NEW r \in Row, Finish(r) PROVE Untouched'
  BY <1>9 DEF Finish
<1>10. CASE Sync
  BY <1>10 DEF Sync, SetStatus
<1>11. CASE Retry
  <2>1. UNCHANGED <<series, recurrence, cancelled, wanted>>
    BY <1>11 DEF Retry
  <2>2. ASSUME NEW r \in Row
        PROVE  /\ status'[r] = "absent" <=> status[r] = "absent"
               /\ ack[r] = "none" => ack'[r] = "none"
    <3> HIDE DEF TypeOK, Untouched
    <3>1. /\ status'[r] = status[r] \/ (status[r] = "pending" /\ status'[r] = "failed")
          /\ ack'[r] = ack[r] \/ ack'[r] = "none"
      BY <1>11, RetryRows
    <3> QED
      BY <3>1
  <2> QED
    BY <2>1, <2>2
<1>12. CASE List
  BY <1>12 DEF List
<1>13. ASSUME NEW r \in Row, Advance(r) PROVE Untouched'
  <2>1. CASE UNCHANGED <<status, series, recurrence>>
    BY <1>13, <2>1 DEF Advance
  <2>2. ASSUME NEW new \in Row, Fresh(new),
               status' = [status EXCEPT ![new] = "pending"],
               recurrence' = [recurrence EXCEPT ![new] = recurrence[r]],
               series' = [series EXCEPT ![new] = series[r]]
        PROVE  Untouched'
    <3>1. status[r] # "absent" /\ status[series[r]] # "absent" /\ series[r] \in Row
      BY <1>13 DEF Advance
    <3>2. \A n \in Row :
         /\ status'[n] = IF n = new THEN "pending" ELSE status[n]
         /\ series'[n] = IF n = new THEN series[r] ELSE series[n]
         /\ recurrence'[n] = IF n = new THEN recurrence[r] ELSE recurrence[n]
      BY <2>2
    <3> QED
      BY <1>13, <3>1, <3>2 DEF Advance
  <2> QED
    BY <1>13, <2>1, <2>2 DEF Advance
<1>14. CASE Clear
  BY <1>14 DEF Clear
<1>15. CASE ClearFails
  BY <1>15 DEF ClearFails
<1>16. CASE SweepEnds
  BY <1>16 DEF SweepEnds
<1>17. CASE HostRestart
  BY <1>17 DEF HostRestart
<1>18. CASE UNCHANGED vars
  BY <1>18 DEF vars
<1> QED
  BY <1>1, <1>2, <1>3, <1>4, <1>5, <1>6, <1>7, <1>8, <1>9, <1>10, <1>11,
     <1>12, <1>13, <1>14, <1>15, <1>16, <1>17, <1>18
     DEF Next, Agent, Container, Host

\* What the agent does between two awaits of the sweep leaves its list true.
LEMMA ListIsFreshStep ==
  ASSUME TypeOK, ListIsFresh, [Next]_vars
  PROVE  ListIsFresh'
<1> USE DEF TypeOK, ListIsFresh, sweepVars, askVars
<1>1. ASSUME NEW r \in Row, NEW cron \in {"none", "cron"}, Schedule(r, cron)
      PROVE  ListIsFresh'
  BY <1>1 DEF Schedule, Fresh
<1>2. ASSUME NEW r \in Row, NEW cron \in {"none", "cron"}, Update(r, cron)
      PROVE  ListIsFresh'
  BY <1>2 DEF Update, Match, SeriesOf
<1>3. ASSUME NEW r \in Row, Cancel(r) PROVE ListIsFresh'
  BY <1>3 DEF Cancel, Match, SeriesOf, SetStatus
<1>4. ASSUME NEW r \in Row, Pause(r) PROVE ListIsFresh'
  BY <1>4 DEF Pause, Match, SeriesOf, SetStatus
<1>5. ASSUME NEW r \in Row, Resume(r) PROVE ListIsFresh'
  BY <1>5 DEF Resume, Match, SeriesOf, SetStatus
<1>6. CASE Start
  BY <1>6 DEF Start, Unclaimed
<1>7. CASE Crash
  BY <1>7 DEF Crash
<1>8. ASSUME NEW r \in Row, Claim(r) PROVE ListIsFresh'
  BY <1>8 DEF Claim
<1>9. ASSUME NEW r \in Row, Finish(r) PROVE ListIsFresh'
  BY <1>9 DEF Finish
<1>10. CASE Sync
  BY <1>10 DEF Sync, SetStatus
<1>11. CASE Retry
  BY <1>11 DEF Retry, SetStatus, Abandoned, Unclaimed
<1>12. CASE List
  BY <1>12, SchedulingAssumption DEF List
<1>13. ASSUME NEW r \in Row, Advance(r) PROVE ListIsFresh'
  BY <1>13 DEF Advance, Fresh
<1>14. CASE Clear
  BY <1>14, SchedulingAssumption DEF Clear
<1>15. CASE ClearFails
  BY <1>15, SchedulingAssumption DEF ClearFails
<1>16. CASE SweepEnds
  BY <1>16 DEF SweepEnds
<1>17. CASE HostRestart
  BY <1>17 DEF HostRestart
<1>18. CASE UNCHANGED vars
  BY <1>18 DEF vars
<1> QED
  BY <1>1, <1>2, <1>3, <1>4, <1>5, <1>6, <1>7, <1>8, <1>9, <1>10, <1>11,
     <1>12, <1>13, <1>14, <1>15, <1>16, <1>17, <1>18
     DEF Next, Agent, Container, Host

\* No step opens a second row of a series.
LEMMA OneOpenRowStep ==
  ASSUME TypeOK, Untouched, ListIsFresh, OneOpenRow, [Next]_vars
  PROVE  OneOpenRow'
<1> USE DEF TypeOK, Untouched, ListIsFresh, OneOpenRow, Open, Rows, sweepVars, askVars
<1>1. ASSUME NEW r \in Row, NEW cron \in {"none", "cron"}, Schedule(r, cron)
      PROVE  OneOpenRow'
  BY <1>1 DEF Schedule, Fresh
<1>2. ASSUME NEW r \in Row, NEW cron \in {"none", "cron"}, Update(r, cron)
      PROVE  OneOpenRow'
  BY <1>2 DEF Update, Match, SeriesOf
<1>3. ASSUME NEW r \in Row, Cancel(r) PROVE OneOpenRow'
  BY <1>3 DEF Cancel, Match, SeriesOf, SetStatus
<1>4. ASSUME NEW r \in Row, Pause(r) PROVE OneOpenRow'
  BY <1>4 DEF Pause, Match, SeriesOf, SetStatus
<1>5. ASSUME NEW r \in Row, Resume(r) PROVE OneOpenRow'
  BY <1>5 DEF Resume, Match, SeriesOf, SetStatus
<1>6. CASE Start
  BY <1>6 DEF Start, Unclaimed
<1>7. CASE Crash
  BY <1>7 DEF Crash
<1>8. ASSUME NEW r \in Row, Claim(r) PROVE OneOpenRow'
  BY <1>8 DEF Claim
<1>9. ASSUME NEW r \in Row, Finish(r) PROVE OneOpenRow'
  BY <1>9 DEF Finish
<1>10. CASE Sync
  BY <1>10 DEF Sync, SetStatus
<1>11. CASE Retry
  BY <1>11 DEF Retry, SetStatus, Abandoned, Unclaimed
<1>12. CASE List
  BY <1>12 DEF List
<1>13. ASSUME NEW r \in Row, Advance(r) PROVE OneOpenRow'
  BY <1>13, SchedulingAssumption DEF Advance, Fresh
<1>14. CASE Clear
  BY <1>14 DEF Clear
<1>15. CASE ClearFails
  BY <1>15 DEF ClearFails
<1>16. CASE SweepEnds
  BY <1>16 DEF SweepEnds
<1>17. CASE HostRestart
  BY <1>17 DEF HostRestart
<1>18. CASE UNCHANGED vars
  BY <1>18 DEF vars
<1> QED
  BY <1>1, <1>2, <1>3, <1>4, <1>5, <1>6, <1>7, <1>8, <1>9, <1>10, <1>11,
     <1>12, <1>13, <1>14, <1>15, <1>16, <1>17, <1>18
     DEF Next, Agent, Container, Host

\* No step opens a row of a cancelled series.
LEMMA CancelledIsClosedStep ==
  ASSUME TypeOK, Untouched, ListIsFresh, OneOpenRow, CancelledIsClosed, [Next]_vars
  PROVE  CancelledIsClosed'
<1> USE DEF sweepVars, askVars
<1>1. ASSUME NEW r \in Row, NEW cron \in {"none", "cron"}, Schedule(r, cron)
      PROVE  CancelledIsClosed'
  BY <1>1
     DEF Schedule, Fresh, TypeOK, Untouched, ListIsFresh, OneOpenRow,
         CancelledIsClosed, Open, Rows
<1>2. ASSUME NEW r \in Row, NEW cron \in {"none", "cron"}, Update(r, cron)
      PROVE  CancelledIsClosed'
  BY <1>2
     DEF Update, Match, SeriesOf, TypeOK, Untouched, ListIsFresh, OneOpenRow,
         CancelledIsClosed, Open, Rows
<1>3. ASSUME NEW r \in Row, Cancel(r) PROVE CancelledIsClosed'
  <2> DEFINE rows == Match(r, {"pending", "paused"})
  <2> SUFFICES ASSUME NEW s \in cancelled' \ cut', NEW b \in Open(s)'
               PROVE  FALSE
    BY DEF CancelledIsClosed
  <2>1. b \in Open(s) /\ b \notin rows /\ s \in Row \ cut /\ clearing = NoRow
    BY <1>3, SeriesOfRows
       DEF Cancel, Match, SetStatus, TypeOK, Untouched, Open, Rows
  <2>2. CASE s \in cancelled
    BY <2>1, <2>2 DEF CancelledIsClosed
  <2>3. CASE s \in SeriesOf(rows)
    <3>1. PICK a \in rows : series[a] = s
      BY <2>3 DEF SeriesOf
    <3>2. a \in Open(s)
      BY <3>1 DEF Match, Open, Rows
    <3> QED
      BY <2>1, <3>1, <3>2, SchedulingAssumption DEF OneOpenRow, Open, Rows
  <2> QED
    BY <1>3, <2>2, <2>3 DEF Cancel
<1>4. ASSUME NEW r \in Row, Pause(r) PROVE CancelledIsClosed'
  BY <1>4
     DEF Pause, Match, SeriesOf, SetStatus, TypeOK, Untouched, ListIsFresh,
         OneOpenRow, CancelledIsClosed, Open, Rows
<1>5. ASSUME NEW r \in Row, Resume(r) PROVE CancelledIsClosed'
  BY <1>5
     DEF Resume, Match, SeriesOf, SetStatus, TypeOK, Untouched, ListIsFresh,
         OneOpenRow, CancelledIsClosed, Open, Rows
<1>6. CASE Start
  BY <1>6
     DEF Start, Unclaimed, TypeOK, Untouched, ListIsFresh, OneOpenRow,
         CancelledIsClosed, Open, Rows
<1>7. CASE Crash
  BY <1>7
     DEF Crash, TypeOK, Untouched, ListIsFresh, OneOpenRow, CancelledIsClosed,
         Open, Rows
<1>8. ASSUME NEW r \in Row, Claim(r) PROVE CancelledIsClosed'
  BY <1>8
     DEF Claim, TypeOK, Untouched, ListIsFresh, OneOpenRow, CancelledIsClosed,
         Open, Rows
<1>9. ASSUME NEW r \in Row, Finish(r) PROVE CancelledIsClosed'
  BY <1>9
     DEF Finish, TypeOK, Untouched, ListIsFresh, OneOpenRow,
         CancelledIsClosed, Open, Rows
<1>10. CASE Sync
  <2> SUFFICES ASSUME NEW s \in cancelled' \ cut', NEW b \in Open(s)'
               PROVE  b \in Open(s)
    BY <1>10 DEF Sync, CancelledIsClosed
  <2> QED
    BY <1>10 DEF Sync, SetStatus, TypeOK, Untouched, Open, Rows
<1>11. CASE Retry
  <2> SUFFICES ASSUME NEW s \in cancelled' \ cut', NEW b \in Open(s)'
               PROVE  b \in Open(s)
    BY <1>11 DEF Retry, CancelledIsClosed
  <2> QED
    BY <1>11, RetryRows DEF Retry, TypeOK, Untouched, Open, Rows
<1>12. CASE List
  BY <1>12
     DEF List, TypeOK, Untouched, ListIsFresh, OneOpenRow, CancelledIsClosed,
         Open, Rows
<1>13. ASSUME NEW r \in Row, Advance(r) PROVE CancelledIsClosed'
  <2> SUFFICES ASSUME NEW s \in cancelled' \ cut', NEW b \in Open(s)'
               PROVE  \E a \in Row : a \in Open(s)
    BY <1>13 DEF Advance, CancelledIsClosed
  <2>1. CASE UNCHANGED <<status, series, recurrence>>
    BY <2>1 DEF Open, Rows
  <2>2. CASE ~UNCHANGED <<status, series, recurrence>>
    BY <1>13, <2>2
       DEF Advance, Fresh, TypeOK, Untouched, ListIsFresh, Open, Rows
  <2> QED
    BY <2>1, <2>2
<1>14. CASE Clear
  BY <1>14
     DEF Clear, TypeOK, Untouched, ListIsFresh, OneOpenRow, CancelledIsClosed,
         Open, Rows
<1>15. CASE ClearFails
  BY <1>15
     DEF ClearFails, TypeOK, Untouched, ListIsFresh, OneOpenRow,
         CancelledIsClosed, Open, Rows
<1>16. CASE SweepEnds
  BY <1>16
     DEF SweepEnds, TypeOK, Untouched, ListIsFresh, OneOpenRow,
         CancelledIsClosed, Open, Rows
<1>17. CASE HostRestart
  BY <1>17
     DEF HostRestart, TypeOK, Untouched, ListIsFresh, OneOpenRow,
         CancelledIsClosed, Open, Rows
<1>18. CASE UNCHANGED vars
  BY <1>18
     DEF vars, TypeOK, Untouched, ListIsFresh, OneOpenRow, CancelledIsClosed,
         Open, Rows
<1> QED
  BY <1>1, <1>2, <1>3, <1>4, <1>5, <1>6, <1>7, <1>8, <1>9, <1>10, <1>11,
     <1>12, <1>13, <1>14, <1>15, <1>16, <1>17, <1>18
     DEF Next, Agent, Container, Host

\* No step loses the last recurring row of a series that is to recur.
LEMMA RecursSomewhereStep ==
  ASSUME TypeOK, Untouched, ListIsFresh, RecursSomewhere, [Next]_vars
  PROVE  RecursSomewhere'
<1> USE DEF TypeOK, Untouched, ListIsFresh, RecursSomewhere, Rows, sweepVars, askVars
<1>1. ASSUME NEW r \in Row, NEW cron \in {"none", "cron"}, Schedule(r, cron)
      PROVE  RecursSomewhere'
  BY <1>1, SchedulingAssumption DEF Schedule, Fresh
<1>2. ASSUME NEW r \in Row, NEW cron \in {"none", "cron"}, Update(r, cron)
      PROVE  RecursSomewhere'
  BY <1>2, SchedulingAssumption DEF Update, Match, SeriesOf
<1>3. ASSUME NEW r \in Row, Cancel(r) PROVE RecursSomewhere'
  BY <1>3 DEF Cancel, Match, SeriesOf, SetStatus
<1>4. ASSUME NEW r \in Row, Pause(r) PROVE RecursSomewhere'
  BY <1>4 DEF Pause, Match, SeriesOf, SetStatus
<1>5. ASSUME NEW r \in Row, Resume(r) PROVE RecursSomewhere'
  BY <1>5 DEF Resume, Match, SeriesOf, SetStatus
<1>6. CASE Start
  BY <1>6 DEF Start, Unclaimed
<1>7. CASE Crash
  BY <1>7 DEF Crash
<1>8. ASSUME NEW r \in Row, Claim(r) PROVE RecursSomewhere'
  BY <1>8 DEF Claim
<1>9. ASSUME NEW r \in Row, Finish(r) PROVE RecursSomewhere'
  BY <1>9 DEF Finish
<1>10. CASE Sync
  BY <1>10 DEF Sync, SetStatus
<1>11. CASE Retry
  BY <1>11 DEF Retry, SetStatus, Abandoned, Unclaimed
<1>12. CASE List
  BY <1>12 DEF List
<1>13. ASSUME NEW r \in Row, Advance(r) PROVE RecursSomewhere'
  BY <1>13 DEF Advance, Fresh
<1>14. CASE Clear
  BY <1>14, SchedulingAssumption DEF Clear
<1>15. CASE ClearFails
  BY <1>15, SchedulingAssumption DEF ClearFails
<1>16. CASE SweepEnds
  BY <1>16 DEF SweepEnds
<1>17. CASE HostRestart
  BY <1>17, SchedulingAssumption DEF HostRestart
<1>18. CASE UNCHANGED vars
  BY <1>18 DEF vars
<1> QED
  BY <1>1, <1>2, <1>3, <1>4, <1>5, <1>6, <1>7, <1>8, <1>9, <1>10, <1>11,
     <1>12, <1>13, <1>14, <1>15, <1>16, <1>17, <1>18
     DEF Next, Agent, Container, Host

-----------------------------------------------------------------------------
(* The theorems.                                                           *)

LEMMA InvHolds == Spec => []Inv
<1>1. Init => Inv
  <2>1. Init => TypeOK
    <3> SUFFICES ASSUME Init PROVE TypeOK
      OBVIOUS
    <3>1. series \in [Row -> Row]
      BY DEF Init
    <3>2. tries \in [Row -> 0 .. MAX_TRIES]
      BY SchedulingAssumption DEF Init
    <3>3. status \in [Row -> {"absent", "pending", "paused", "completed", "failed"}]
      BY DEF Init
    <3>4. /\ recurrence \in [Row -> {"none", "cron"}]
          /\ ack \in [Row -> {"none", "processing", "completed"}]
      BY DEF Init
    <3> QED
      BY <3>1, <3>2, <3>3, <3>4 DEF Init, TypeOK
  <2>2. Init => Untouched /\ ListIsFresh
    BY SchedulingAssumption DEF Init, Untouched, ListIsFresh
  <2>3. Init => OneOpenRow /\ CancelledIsClosed /\ RecursSomewhere
    BY DEF Init, OneOpenRow, CancelledIsClosed, RecursSomewhere, Open, Rows
  <2> QED
    BY <2>1, <2>2, <2>3 DEF Inv
<1>2. Inv /\ [Next]_vars => Inv'
  BY TypeStep, UntouchedStep, ListIsFreshStep, OneOpenRowStep,
     CancelledIsClosedStep, RecursSomewhereStep
     DEF Inv
<1> QED
  BY <1>1, <1>2, PTL DEF Spec

\* The variables of the tasks keep their types.
THEOREM TypeCorrect == Spec => []TypeOK
<1>1. Inv => TypeOK
  BY DEF Inv
<1> QED
  BY <1>1, InvHolds, PTL

\* Whatever the agent does between the awaits of a sweep, whatever is retried or
\* acknowledged again, no sweep inserts a second live occurrence of a series,
\* unless the host failed between its two statements (OneLiveRow).
THEOREM NeverTwoOccurrences == Spec => []OneLiveRow
<1>1. Inv => OneLiveRow
  <2> SUFFICES ASSUME Inv, NEW s \in Row \ cut
               PROVE  Cardinality(LiveRows(s)) <= 1
    BY DEF OneLiveRow
  <2>1. \A a, b \in LiveRows(s) : a = b
    BY SchedulingAssumption
       DEF Inv, ListIsFresh, OneOpenRow, Open, LiveRows, Rows
  <2>2. CASE LiveRows(s) = {}
    BY <2>2, FS_EmptySet
  <2>3. CASE LiveRows(s) # {}
    <3>1. PICK a \in LiveRows(s) : TRUE
      BY <2>3
    <3>2. LiveRows(s) = {a}
      BY <2>1, <3>1, Zenon
    <3>3. Cardinality({a}) = 1
      BY FS_Singleton
    <3> QED
      BY <3>2, <3>3
  <2> QED
    BY <2>2, <2>3
<1> QED
  BY <1>1, InvHolds, PTL

\* However the sweep is interrupted, a series the agent wants to recur keeps a
\* row from which it goes on, or gave up at its last try (SeriesGoesOn).
THEOREM NoSeriesIsLost == Spec => []SeriesGoesOn
<1>1. Inv => SeriesGoesOn
  BY DEF Inv, TypeOK, RecursSomewhere, SeriesGoesOn, Rows
<1> QED
  BY <1>1, InvHolds, PTL

\* A cancelled series stays cancelled: nothing a sweep had listed before brings
\* it back (CancelHolds).
THEOREM CancelIsFinal == Spec => []CancelHolds
<1>1. Inv => CancelHolds
  BY DEF Inv, CancelledIsClosed, CancelHolds, Open, LiveRows, Rows
<1> QED
  BY <1>1, InvHolds, PTL
=============================================================================
