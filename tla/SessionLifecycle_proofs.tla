----------------------- MODULE SessionLifecycle_proofs -----------------------
(***************************************************************************)
(* Proofs about SessionLifecycle, for every set of rows and of instance    *)
(* names, every prompt size and MAX_TRIES, every number of faults.         *)
(***************************************************************************)
EXTENDS SessionLifecycle, FiniteSetTheorems, TLAPS

-----------------------------------------------------------------------------
(* The inductive invariant.                                                *)

\* Live instances the host does not count on: all but the registered one, and
\* that one too once its docker client has been killed.
Strays == IF clientKilled THEN Live ELSE Live \ {active}

\* The core of OneContainer: each stray is due to one failing `docker stop`, and
\* a spawn is in flight only while no instance is registered.
StraysCounted ==
  /\ IsFiniteSet(Live)
  /\ Cardinality(Strays) <= stopFailures
  /\ clientKilled => stopFailures > 0
  /\ spawning > 0 => active = NoSlot

\* What an instance holds fits where its loop is.
BoxesFit ==
  \A c \in Slot :
    /\ box[c].pc = "dead" => box[c] = NoBox
    /\ box[c].pc = "booting" => Held(c) = {} /\ box[c].dealt = {}
    /\ box[c].pc \in {"query", "taking", "closing"} => box[c].batch \subseteq box[c].dealt
    /\ box[c].read # {} => Reading(c)
    /\ box[c].follow # {} => box[c].pc \in {"query", "closing"}

\* Nothing is claimed or held before it is written.
RowsExist ==
  \A m \in Message : status[m] = "absent" =>
    ack[m] = "none" /\ \A c \in Slot : m \notin Held(c) \cup box[c].read

\* The core of ClaimsHeld and NoSecondTurn: what a live instance holds, and what
\* it has dealt with, stays in processing_ack.
Kept ==
  stopFailures = 0 =>
    \A c \in Slot : \A m \in Held(c) \cup box[c].dealt : ack[m] # "none"

\* Without a stray, what a poll has read is still unclaimed when it is claimed.
ReadFresh ==
  stopFailures = 0 =>
    \A c \in Slot : \A m \in box[c].read : ack[m] = "none" /\ status[m] = "pending"

\* The core of FailedIsFinal: no instance can complete a failed row any more.
FailedUnheld ==
  stopFailures = 0 =>
    \A m \in Message : status[m] = "failed" =>
      ack[m] # "completed" /\ \A c \in Slot : m \notin Held(c)

Inv == /\ TypeOK
       /\ StraysCounted
       /\ BoxesFit
       /\ RowsExist
       /\ Kept
       /\ ReadFresh
       /\ FailedUnheld

-----------------------------------------------------------------------------
(* What the operators shared by several actions preserve.                  *)

LEMMA NoBoxType == NoBox \in Box
  BY DEF NoBox, Box

\* The instances that die leave the others as they are.
LEMMA DieType ==
  ASSUME TypeOK, NEW D, Die(D)
  PROVE  box' \in [Slot -> Box]
  BY NoBoxType DEF TypeOK, Die

LEMMA RetryType ==
  ASSUME TypeOK, Retry
  PROVE  /\ status' \in [Message -> {"absent", "pending", "completed", "failed"}]
         /\ tries' \in [Message -> 0 .. MAX_TRIES]
         /\ later' \in SUBSET Message
<1>1. \A m \in Message : ~(tries[m] >= MAX_TRIES) => tries[m] + 1 \in 0 .. MAX_TRIES
  BY SessionAssumption DEF TypeOK
<1>2. tries' \in [Message -> 0 .. MAX_TRIES]
  BY <1>1 DEF TypeOK, Retry
<1> QED
  BY <1>2 DEF TypeOK, Retry, Claims

LEMMA DropClaimsType ==
  ASSUME TypeOK, DropClaims
  PROVE  /\ ack' \in [Message -> {"none", "processing", "completed"}]
         /\ aged' \subseteq Claims' /\ seen' \subseteq Claims'
         /\ faults' \in Nat
<1>1. CASE /\ ack' = Acked(Claims, "none")
           /\ aged' = {} /\ seen' = {} /\ UNCHANGED faults
  BY <1>1 DEF TypeOK, Acked, Claims
<1>2. CASE Fault /\ UNCHANGED claimVars
  BY <1>2 DEF TypeOK, Fault, claimVars, Claims
<1> QED
  BY <1>1, <1>2 DEF DropClaims

\* Rows that are acknowledged keep processing_ack a function, and only those of
\* them that are completed or dropped cease to be claims.
LEMMA AckedType ==
  ASSUME TypeOK, NEW S, NEW a \in {"none", "processing", "completed"},
         ack' = Acked(S, a)
  PROVE  /\ ack' \in [Message -> {"none", "processing", "completed"}]
         /\ Claims \ S \subseteq Claims'
         /\ a = "processing" => Claims \subseteq Claims'
  BY DEF TypeOK, Acked, Claims

-----------------------------------------------------------------------------
(* The working steps of an instance.                                       *)

Work(c) ==
  \/ Poll(c) \/ Claim(c) \/ Commands(c) \/ Scripts(c) \/ Event(c) \/ Result(c)
  \/ FollowPoll(c) \/ Take(c) \/ FollowPush(c) \/ FollowFails(c) \/ QueryEnd(c)
  \/ \E m \in Message : FollowAbandon(c, m)

\* What all of them have in common: an instance works on its own rows.  It reads
\* only rows that are pending and unacknowledged, takes only rows it has read,
\* and completes only rows it holds and has dealt with.
OwnRows(c) ==
  /\ box' \in [Slot -> Box]
  /\ \A d \in Slot \ {c} : box'[d] = box[d]
  /\ box[c].pc \notin {"dead", "booting"} /\ box'[c].pc \notin {"dead", "booting"}
  /\ box'[c].pc \in {"query", "taking", "closing"} => box'[c].batch \subseteq box'[c].dealt
  /\ box'[c].read # {} => box'[c].pc \in {"claiming", "taking"}
  /\ box'[c].follow # {} => box'[c].pc \in {"query", "closing"}
  /\ \A m \in box'[c].read : ack[m] = "none" /\ status[m] = "pending"
  /\ box[c].dealt \subseteq box'[c].dealt /\ box'[c].dealt \subseteq box[c].dealt \cup Held(c)
  /\ \A m \in Message :
       \/ ack'[m] = ack[m]
       \/ m \in box[c].read /\ ack'[m] = "processing" /\ box'[c].read = {}
       \/ m \in Held(c) /\ ack'[m] = "completed" /\ m \in box'[c].dealt /\ box'[c].read = {}
  /\ \A m \in Held(c)' \ Held(c) : m \in box[c].read /\ ack'[m] = "processing"
  /\ UNCHANGED <<status, tries, later, active, clientKilled, spawning, stopFailures>>

\* Rows a poll fetches are due and unacknowledged.
LEMMA FetchedRows ==
  ASSUME NEW first, NEW m \in Fetched(first)
  PROVE  m \in Message /\ status[m] = "pending" /\ ack[m] = "none"
  BY DEF Fetched, Newest

LEMMA PollOwnRows ==
  ASSUME TypeOK, BoxesFit, NEW c \in Slot, Poll(c)
  PROVE  OwnRows(c)
<1> DEFINE fetched == Fetched(box[c].first)
<1>0. box[c] \in Box
  BY DEF TypeOK
<1>1. \A m \in fetched : m \in Message /\ status[m] = "pending" /\ ack[m] = "none"
  BY FetchedRows
<1>2. /\ box[c].pc = "polling" /\ box[c].read = {} /\ box[c].follow = {}
      /\ UNCHANGED ack
      /\ UNCHANGED <<status, tries, later, active, clientKilled, spawning,
                     stopFailures>>
  BY DEF Poll, BoxesFit, Reading, storeVars, claimVars, hostVars, countVars
<1>3. \/ box' = [box EXCEPT ![c].first = FALSE]
      \/ box' = [box EXCEPT ![c].first = FALSE, ![c].pc = "claiming", ![c].read = fetched]
  BY DEF Poll
<1> HIDE DEF fetched
<1>4. /\ box'[c] \in Box
      /\ box'[c].batch = box[c].batch
      /\ box'[c].follow = box[c].follow /\ box'[c].late = box[c].late
      /\ box'[c].dealt = box[c].dealt
      /\ \/ box'[c].pc = "polling" /\ box'[c].read = {}
         \/ box'[c].pc = "claiming" /\ box'[c].read = fetched
  <2>1. CASE box' = [box EXCEPT ![c].first = FALSE]
    BY <1>0, <1>2, <2>1 DEF TypeOK, Box
  <2>2. CASE box' = [box EXCEPT ![c].first = FALSE, ![c].pc = "claiming",
                                    ![c].read = fetched]
    <3>1. fetched \in SUBSET Message
      BY <1>1
    <3> QED
      BY <1>0, <1>2, <2>2, <3>1 DEF TypeOK, Box
  <2> QED
    BY <1>3, <2>1, <2>2
<1>5. box' = [d \in Slot |-> box'[d]] /\ \A d \in Slot \ {c} : box'[d] = box[d]
  BY <1>3 DEF TypeOK
<1>6. box' \in [Slot -> Box]
  BY <1>4, <1>5 DEF TypeOK
<1> QED
  BY <1>1, <1>2, <1>4, <1>5, <1>6 DEF OwnRows, Held

LEMMA ClaimOwnRows ==
  ASSUME TypeOK, BoxesFit, NEW c \in Slot, Claim(c)
  PROVE  OwnRows(c)
<1>0. box[c] \in Box
  BY DEF TypeOK
<1>1. /\ box[c].pc = "claiming" /\ box[c].follow = {}
      /\ ack' = Acked(box[c].read, "processing")
      /\ UNCHANGED <<status, tries, later, active, clientKilled, spawning,
                     stopFailures>>
  BY DEF Claim, BoxesFit, Mark, storeVars, hostVars, countVars
<1>2. box' = [box EXCEPT ![c].pc = IF box[c].read \cap Clear # {} THEN "commands"
                                   ELSE "scripts",
                         ![c].batch = box[c].read, ![c].read = {}]
  BY DEF Claim
<1>3. /\ box'[c] \in Box
      /\ box'[c].pc \in {"commands", "scripts"}
      /\ box'[c].batch = box[c].read /\ box'[c].read = {}
      /\ box'[c].follow = box[c].follow /\ box'[c].late = box[c].late
      /\ box'[c].dealt = box[c].dealt
  BY <1>0, <1>2 DEF TypeOK, Box
<1>4. box' = [d \in Slot |-> box'[d]] /\ \A d \in Slot \ {c} : box'[d] = box[d]
  BY <1>2 DEF TypeOK
<1>5. \A m \in Message : /\ m \in box[c].read => ack'[m] = "processing"
                         /\ m \notin box[c].read => ack'[m] = ack[m]
  BY <1>1 DEF Acked
<1>6. box' \in [Slot -> Box]
  BY <1>3, <1>4 DEF TypeOK
<1> QED
  BY <1>0, <1>1, <1>3, <1>4, <1>5, <1>6 DEF OwnRows, Held, Box

LEMMA CommandsOwnRows ==
  ASSUME TypeOK, BoxesFit, NEW c \in Slot, Commands(c)
  PROVE  OwnRows(c)
<1>0. box[c] \in Box
  BY DEF TypeOK
<1>1. /\ box[c].pc = "commands" /\ box[c].read = {} /\ box[c].follow = {}
      /\ ack' = Acked(box[c].batch \cap Clear, "completed")
      /\ UNCHANGED <<status, tries, later, active, clientKilled, spawning,
                     stopFailures>>
  BY DEF Commands, BoxesFit, Reading, storeVars, hostVars, countVars
<1>2. box' = [box EXCEPT
                ![c].pc = IF box[c].batch \ Clear = {} THEN "polling" ELSE "scripts",
                ![c].batch = box[c].batch \ Clear,
                ![c].dealt = @ \cup (box[c].batch \cap Clear)]
  BY DEF Commands
<1>3. /\ box'[c] \in Box
      /\ box'[c].pc \in {"polling", "scripts"}
      /\ box'[c].batch = box[c].batch \ Clear /\ box'[c].read = box[c].read
      /\ box'[c].follow = box[c].follow /\ box'[c].late = box[c].late
      /\ box'[c].dealt = box[c].dealt \cup (box[c].batch \cap Clear)
  BY <1>0, <1>2 DEF TypeOK, Box
<1>4. box' = [d \in Slot |-> box'[d]] /\ \A d \in Slot \ {c} : box'[d] = box[d]
  BY <1>2 DEF TypeOK
<1>5. \A m \in Message :
        /\ m \in box[c].batch \cap Clear => ack'[m] = "completed"
        /\ m \notin box[c].batch \cap Clear => ack'[m] = ack[m]
  BY <1>1 DEF Acked
<1>6. box' \in [Slot -> Box]
  BY <1>3, <1>4 DEF TypeOK
<1> QED
  BY <1>0, <1>1, <1>3, <1>4, <1>5, <1>6 DEF OwnRows, Held, Box

LEMMA ScriptsOwnRows ==
  ASSUME TypeOK, BoxesFit, NEW c \in Slot, Scripts(c)
  PROVE  OwnRows(c)
<1>0. box[c] \in Box
  BY DEF TypeOK
<1>1. PICK skipped \in SUBSET (box[c].batch \cap Scripted) :
        /\ ack' = Acked(skipped, "completed")
        /\ box' = [box EXCEPT
                     ![c].pc = IF box[c].batch \ skipped = {} THEN "polling" ELSE "query",
                     ![c].batch = box[c].batch \ skipped,
                     ![c].dealt = @ \cup box[c].batch,
                     ![c].turn = box[c].batch \ skipped]
  BY DEF Scripts
<1>2. /\ box'[c] \in Box
      /\ box'[c].pc \in {"polling", "query"}
      /\ box'[c].batch = box[c].batch \ skipped /\ box'[c].read = box[c].read
      /\ box'[c].follow = box[c].follow /\ box'[c].late = box[c].late
      /\ box'[c].dealt = box[c].dealt \cup box[c].batch
  BY <1>0, <1>1 DEF TypeOK, Box
<1>3. box' = [d \in Slot |-> box'[d]] /\ \A d \in Slot \ {c} : box'[d] = box[d]
  BY <1>1 DEF TypeOK
<1>4. \A m \in Message : /\ m \in skipped => ack'[m] = "completed"
                         /\ m \notin skipped => ack'[m] = ack[m]
  BY <1>1 DEF Acked
<1>5. box' \in [Slot -> Box]
  BY <1>2, <1>3 DEF TypeOK
<1>6. /\ box[c].pc = "scripts" /\ box[c].read = {} /\ box[c].follow = {}
      /\ UNCHANGED <<status, tries, later, active, clientKilled, spawning,
                     stopFailures>>
  BY DEF Scripts, BoxesFit, Reading, storeVars, hostVars, countVars
<1> QED
  BY <1>0, <1>2, <1>3, <1>4, <1>5, <1>6 DEF OwnRows, Held, Box

LEMMA EventOwnRows ==
  ASSUME TypeOK, BoxesFit, NEW c \in Slot, Event(c)
  PROVE  OwnRows(c)
<1>1. box[c].pc \notin {"dead", "booting"} /\ box[c].read = {}
  BY DEF Event, BoxesFit, Held, Reading, NoBox
<1> QED
  BY <1>1 DEF Event, OwnRows, Held, BoxesFit, TypeOK, storeVars, hostVars,
              countVars

LEMMA ResultOwnRows ==
  ASSUME TypeOK, BoxesFit, NEW c \in Slot, Result(c)
  PROVE  OwnRows(c)
<1>0. box[c] \in Box
  BY DEF TypeOK
<1>1. box' = [box EXCEPT ![c].batch = {}, ![c].turn = {}]
  BY DEF Result
<1>2. /\ box'[c] \in Box
      /\ box'[c].pc = box[c].pc /\ box'[c].batch = {} /\ box'[c].read = box[c].read
      /\ box'[c].follow = box[c].follow /\ box'[c].late = box[c].late
      /\ box'[c].dealt = box[c].dealt
  BY <1>0, <1>1 DEF TypeOK, Box
<1>3. box' = [d \in Slot |-> box'[d]] /\ \A d \in Slot \ {c} : box'[d] = box[d]
  BY <1>1 DEF TypeOK
<1>4. \A m \in Message : /\ m \in box[c].batch => ack'[m] = "completed"
                         /\ m \notin box[c].batch => ack'[m] = ack[m]
  BY DEF Result, Acked
<1>5. box' \in [Slot -> Box]
  BY <1>2, <1>3 DEF TypeOK
<1>6. /\ box[c].pc \in {"query", "closing"} /\ box[c].batch \subseteq box[c].dealt
      /\ box[c].read = {}
      /\ UNCHANGED <<status, tries, later, active, clientKilled, spawning,
                     stopFailures>>
  BY DEF Result, BoxesFit, Reading, storeVars, hostVars, countVars
<1> QED
  BY <1>0, <1>2, <1>3, <1>4, <1>5, <1>6 DEF OwnRows, Held, Box

LEMMA FollowPollOwnRows ==
  ASSUME TypeOK, BoxesFit, NEW c \in Slot, FollowPoll(c)
  PROVE  OwnRows(c)
<1> DEFINE fetched == Fetched(FALSE)
<1>0. box[c] \in Box
  BY DEF TypeOK
<1>1. \A m \in fetched : m \in Message /\ status[m] = "pending" /\ ack[m] = "none"
  BY FetchedRows
<1>2. /\ box[c].pc = "query" /\ box[c].batch \subseteq box[c].dealt
      /\ box[c].read = {} /\ box[c].follow = {} /\ UNCHANGED ack
      /\ UNCHANGED <<status, tries, later, active, clientKilled, spawning,
                     stopFailures>>
  BY DEF FollowPoll, BoxesFit, Reading, storeVars, claimVars, hostVars, countVars
<1>3. \/ box' = [box EXCEPT ![c].pc = "closing"]
      \/ box' = [box EXCEPT ![c].pc = "taking", ![c].read = fetched]
  BY DEF FollowPoll
<1> HIDE DEF fetched
<1>4. /\ box'[c] \in Box
      /\ box'[c].batch = box[c].batch
      /\ box'[c].follow = box[c].follow /\ box'[c].late = box[c].late
      /\ box'[c].dealt = box[c].dealt
      /\ \/ box'[c].pc = "closing" /\ box'[c].read = {}
         \/ box'[c].pc = "taking" /\ box'[c].read = fetched
  <2>1. CASE box' = [box EXCEPT ![c].pc = "closing"]
    BY <1>0, <1>2, <2>1 DEF TypeOK, Box
  <2>2. CASE box' = [box EXCEPT ![c].pc = "taking", ![c].read = fetched]
    <3>1. fetched \in SUBSET Message
      BY <1>1
    <3> QED
      BY <1>0, <1>2, <2>2, <3>1 DEF TypeOK, Box
  <2> QED
    BY <1>3, <2>1, <2>2
<1>5. box' = [d \in Slot |-> box'[d]] /\ \A d \in Slot \ {c} : box'[d] = box[d]
  BY <1>3 DEF TypeOK
<1>6. box' \in [Slot -> Box]
  BY <1>4, <1>5 DEF TypeOK
<1> QED
  BY <1>1, <1>2, <1>4, <1>5, <1>6 DEF OwnRows, Held

LEMMA TakeOwnRows ==
  ASSUME TypeOK, BoxesFit, NEW c \in Slot, Take(c)
  PROVE  OwnRows(c)
<1>0. box[c] \in Box
  BY DEF TypeOK
<1>1. /\ box[c].pc = "taking" /\ ack' = Acked(box[c].read, "processing")
      /\ box[c].batch \subseteq box[c].dealt
      /\ UNCHANGED <<status, tries, later, active, clientKilled, spawning,
                     stopFailures>>
  BY DEF Take, BoxesFit, Mark, storeVars, hostVars, countVars
<1>2. box' = [box EXCEPT ![c].pc = "query", ![c].follow = box[c].read, ![c].read = {}]
  BY DEF Take
<1>3. /\ box'[c] \in Box
      /\ box'[c].pc = "query"
      /\ box'[c].batch = box[c].batch /\ box'[c].read = {}
      /\ box'[c].follow = box[c].read /\ box'[c].late = box[c].late
      /\ box'[c].dealt = box[c].dealt
  BY <1>0, <1>2 DEF TypeOK, Box
<1>4. box' = [d \in Slot |-> box'[d]] /\ \A d \in Slot \ {c} : box'[d] = box[d]
  BY <1>2 DEF TypeOK
<1>5. \A m \in Message : /\ m \in box[c].read => ack'[m] = "processing"
                         /\ m \notin box[c].read => ack'[m] = ack[m]
  BY <1>1 DEF Acked
<1>6. box' \in [Slot -> Box]
  BY <1>3, <1>4 DEF TypeOK
<1> QED
  BY <1>0, <1>1, <1>3, <1>4, <1>5, <1>6 DEF OwnRows, Held, Box

LEMMA FollowPushOwnRows ==
  ASSUME TypeOK, BoxesFit, NEW c \in Slot, FollowPush(c)
  PROVE  OwnRows(c)
<1> DEFINE rows == box[c].follow
<1>0. box[c] \in Box
  BY DEF TypeOK
<1>1. PICK skipped \in SUBSET (rows \cap Scripted) :
        box' = [box EXCEPT ![c].follow = {},
                           ![c].dealt = @ \cup rows,
                           ![c].turn = @ \cup (rows \ skipped)]
  BY DEF FollowPush
<1>2. /\ box'[c] \in Box
      /\ box'[c].pc = box[c].pc /\ box'[c].batch = box[c].batch
      /\ box'[c].follow = {} /\ box'[c].late = box[c].late
      /\ box'[c].read = box[c].read
      /\ box'[c].dealt = box[c].dealt \cup rows
  BY <1>0, <1>1 DEF TypeOK, Box
<1>3. box' = [d \in Slot |-> box'[d]] /\ \A d \in Slot \ {c} : box'[d] = box[d]
  BY <1>1 DEF TypeOK
<1>4. \A m \in Message : /\ m \in rows => ack'[m] = "completed"
                         /\ m \notin rows => ack'[m] = ack[m]
  BY DEF FollowPush, Acked
<1>5. box' \in [Slot -> Box]
  BY <1>2, <1>3 DEF TypeOK
<1>6. /\ rows # {}
      /\ UNCHANGED <<status, tries, later, active, clientKilled, spawning,
                     stopFailures>>
  BY DEF FollowPush, storeVars, hostVars, countVars
<1>7. /\ box[c].pc \in {"query", "closing"} /\ box[c].read = {}
      /\ box[c].batch \subseteq box[c].dealt
  BY <1>6 DEF BoxesFit, Reading
<1> QED
  BY <1>0, <1>2, <1>3, <1>4, <1>5, <1>6, <1>7 DEF OwnRows, Held, Box

LEMMA FollowFailsOwnRows ==
  ASSUME TypeOK, BoxesFit, NEW c \in Slot, FollowFails(c)
  PROVE  OwnRows(c)
<1> DEFINE rows == box[c].follow
<1>0. box[c] \in Box
  BY DEF TypeOK
<1>1. PICK skipped \in SUBSET (rows \cap Scripted), pushed \in SUBSET rows :
        /\ box' = [box EXCEPT ![c].follow = {},
                              ![c].dealt = @ \cup skipped \cup pushed,
                              ![c].turn = @ \cup pushed]
        /\ ack' = Acked(skipped, "completed")
  BY DEF FollowFails
<1>2. /\ box'[c] \in Box
      /\ box'[c].pc = box[c].pc /\ box'[c].batch = box[c].batch
      /\ box'[c].follow = {} /\ box'[c].late = box[c].late
      /\ box'[c].read = box[c].read
      /\ box'[c].dealt = box[c].dealt \cup skipped \cup pushed
  BY <1>0, <1>1 DEF TypeOK, Box
<1>3. box' = [d \in Slot |-> box'[d]] /\ \A d \in Slot \ {c} : box'[d] = box[d]
  BY <1>1 DEF TypeOK
<1>4. \A m \in Message : /\ m \in skipped => ack'[m] = "completed"
                         /\ m \notin skipped => ack'[m] = ack[m]
  BY <1>1 DEF Acked
<1>5. box' \in [Slot -> Box]
  BY <1>2, <1>3 DEF TypeOK
<1>6. /\ rows # {}
      /\ UNCHANGED <<status, tries, later, active, clientKilled, spawning,
                     stopFailures>>
  BY DEF FollowFails, storeVars, hostVars, countVars
<1>7. /\ box[c].pc \in {"query", "closing"} /\ box[c].read = {}
      /\ box[c].batch \subseteq box[c].dealt
  BY <1>6 DEF BoxesFit, Reading
<1> QED
  BY <1>0, <1>2, <1>3, <1>4, <1>5, <1>6, <1>7 DEF OwnRows, Held, Box

LEMMA FollowAbandonOwnRows ==
  ASSUME TypeOK, BoxesFit, NEW c \in Slot, NEW m \in Message, FollowAbandon(c, m)
  PROVE  OwnRows(c)
<1>0. box[c] \in Box
  BY DEF TypeOK
<1>1. /\ m \in box[c].late
      /\ UNCHANGED <<status, tries, later, active, clientKilled, spawning,
                     stopFailures>>
  BY DEF FollowAbandon, storeVars, hostVars, countVars
<1>2. /\ box'[c] \in Box
      /\ box'[c].pc = box[c].pc /\ box'[c].batch = box[c].batch
      /\ box'[c].follow = box[c].follow /\ box'[c].late = box[c].late \ {m}
      /\ box'[c].read = box[c].read
      /\ \/ box'[c].dealt = box[c].dealt \cup {m} /\ ack' = Acked({m}, "completed")
         \/ box'[c].dealt = box[c].dealt /\ UNCHANGED ack
  BY <1>0 DEF FollowAbandon, TypeOK, Box
<1>3. box' = [d \in Slot |-> box'[d]] /\ \A d \in Slot \ {c} : box'[d] = box[d]
  BY DEF FollowAbandon, TypeOK
<1>4. box' \in [Slot -> Box]
  BY <1>2, <1>3 DEF TypeOK
<1>5. /\ box[c].pc \notin {"dead", "booting"} /\ box[c].read = {}
      /\ box[c].pc \in {"query", "closing"} => box[c].batch \subseteq box[c].dealt
      /\ box[c].follow # {} => box[c].pc \in {"query", "closing"}
  BY <1>1 DEF BoxesFit, FollowAbandon, Held, Reading, NoBox
<1>6. m \in Held(c) /\ ~Reading(c)
  BY <1>1 DEF FollowAbandon, Held
<1>7. \A n \in Message :
        ack'[n] = ack[n] \/ (n = m /\ ack'[n] = "completed" /\ n \in box'[c].dealt)
  BY <1>2 DEF Acked
<1>8. /\ box[c].dealt \subseteq box'[c].dealt
      /\ box'[c].dealt \subseteq box[c].dealt \cup Held(c)
      /\ Held(c)' \subseteq Held(c)
  BY <1>2, <1>6 DEF Held
<1> QED
  BY <1>1, <1>2, <1>3, <1>4, <1>5, <1>6, <1>7, <1>8 DEF OwnRows, Reading

LEMMA QueryEndOwnRows ==
  ASSUME TypeOK, BoxesFit, NEW c \in Slot, QueryEnd(c)
  PROVE  OwnRows(c)
<1>0. box[c] \in Box
  BY DEF TypeOK
<1>1. box' = [box EXCEPT ![c].pc = "polling",
                         ![c].batch = {},
                         ![c].follow = {},
                         ![c].late = @ \cup box[c].follow,
                         ![c].turn = {}]
  BY DEF QueryEnd
<1>2. /\ box'[c] \in Box
      /\ box'[c].pc = "polling" /\ box'[c].batch = {} /\ box'[c].follow = {}
      /\ box'[c].read = box[c].read
      /\ box'[c].late = box[c].late \cup box[c].follow
      /\ box'[c].dealt = box[c].dealt
  BY <1>0, <1>1 DEF TypeOK, Box
<1>3. box' = [d \in Slot |-> box'[d]] /\ \A d \in Slot \ {c} : box'[d] = box[d]
  BY <1>1 DEF TypeOK
<1>4. \A m \in Message : /\ m \in box[c].batch => ack'[m] = "completed"
                         /\ m \notin box[c].batch => ack'[m] = ack[m]
  BY DEF QueryEnd, Acked
<1>5. box' \in [Slot -> Box]
  BY <1>2, <1>3 DEF TypeOK
<1>6. /\ box[c].pc \in {"query", "closing"} /\ box[c].batch \subseteq box[c].dealt
      /\ box[c].read = {}
      /\ UNCHANGED <<status, tries, later, active, clientKilled, spawning,
                     stopFailures>>
  BY DEF QueryEnd, BoxesFit, Reading, storeVars, hostVars, countVars
<1> QED
  BY <1>0, <1>2, <1>3, <1>4, <1>5, <1>6 DEF OwnRows, Held, Box

LEMMA WorkOwnRows ==
  ASSUME TypeOK, BoxesFit, NEW c \in Slot, Work(c)
  PROVE  OwnRows(c)
  BY PollOwnRows, ClaimOwnRows, CommandsOwnRows, ScriptsOwnRows, EventOwnRows,
     ResultOwnRows, FollowPollOwnRows, TakeOwnRows, FollowPushOwnRows,
     FollowFailsOwnRows, FollowAbandonOwnRows, QueryEndOwnRows DEF Work

-----------------------------------------------------------------------------
(* The steps, one lemma for each part of the invariant.                    *)

\* Every step keeps the types.
LEMMA TypeStep ==
  ASSUME TypeOK, StraysCounted, BoxesFit, [Next]_vars
  PROVE  TypeOK'
<1> USE DEF TypeOK, Claims, Box, NoBox, storeVars, claimVars, hostVars, countVars
<1>1. ASSUME NEW m \in Message, Write(m) PROVE TypeOK'
  BY <1>1 DEF Write, Insert, Wake
<1>2. ASSUME NEW m \in Message, Restart(m) PROVE TypeOK'
  BY <1>2 DEF Restart, Insert
<1>3. CASE Kill
  BY <1>3 DEF Kill, Fault
<1>4. ASSUME NEW c \in Slot, SpawnDone(c) PROVE TypeOK'
  <2>1. spawning' \in {0, 1}
    BY <1>4 DEF SpawnDone
  <2>2. box' \in [Slot -> Box]
    BY <1>4 DEF SpawnDone
  <2>3. seen' \subseteq Claims' /\ aged' \subseteq Claims'
    BY <1>4 DEF SpawnDone
  <2> QED
    BY <1>4, <2>1, <2>2, <2>3 DEF SpawnDone
<1>5. CASE SpawnFails
  <2>1. spawning' \in {0, 1} /\ faults' \in Nat
    BY <1>5 DEF SpawnFails, Fault
  <2>2. host' \in {"free", "sweep"} /\ sweepWaits' = FALSE
    BY <1>5 DEF SpawnFails
  <2> QED
    BY <1>5, <2>1, <2>2 DEF SpawnFails
<1>6. CASE Close
  BY <1>6 DEF Close
<1>7. CASE SweepTick
  BY <1>7 DEF SweepTick, Wake
<1>8. CASE Sweep
  <2>1. CASE active = NoSlot
    BY <1>8, <2>1, RetryType, DropClaimsType DEF Sweep, Reset
  <2>2. CASE active # NoSlot
    BY <1>8, <2>2 DEF Sweep
  <2> QED
    BY <2>1, <2>2
<1>9. CASE StopDone
  <2>1. CASE host = "stop-sweep"
    BY <1>9, <2>1, RetryType, DropClaimsType, DieType
       DEF StopDone, AfterStop, Reset
  <2>2. CASE host # "stop-sweep"
    BY <1>9, <2>2, DieType DEF StopDone, AfterStop
  <2> QED
    BY <2>1, <2>2
<1>10. CASE StopFails
  <2>1. CASE host = "stop-sweep"
    BY <1>10, <2>1, RetryType, DropClaimsType DEF StopFails, AfterStop, Reset
  <2>2. CASE host # "stop-sweep"
    BY <1>10, <2>2 DEF StopFails, AfterStop
  <2> QED
    BY <2>1, <2>2
<1>11. CASE HostRestart
  <2>1. stopFailures' \in Nat
    BY <1>11, FS_Subset, FS_CardinalityType DEF StraysCounted, HostRestart
  <2>2. box' \in [Slot -> Box]
    BY <1>11, DieType DEF HostRestart
  <2>3. faults' \in Nat
    BY <1>11 DEF HostRestart
  <2>4. UNCHANGED <<status, tries, later, ack, aged, seen, heartbeat>>
    BY <1>11 DEF HostRestart
  <2>5. /\ active' = NoSlot /\ clientKilled' = FALSE /\ wakeOnExit' = FALSE
        /\ spawning' = 0 /\ host' = "free" /\ sweepWaits' = FALSE
    BY <1>11 DEF HostRestart
  <2>6. Claims' = Claims
    BY <2>4
  <2>7. Box' = Box
    OBVIOUS
  <2> HIDE DEF Claims, Box, NoBox
  <2> QED
    BY <2>1, <2>2, <2>3, <2>4, <2>5, <2>6, <2>7
<1>12. ASSUME NEW c \in Slot, Boot(c) PROVE TypeOK'
  <2>1. box' \in [Slot -> Box]
    BY <1>12 DEF Boot
  <2>2. /\ ack' \in [Message -> {"none", "processing", "completed"}]
        /\ aged' = {} /\ seen' = {}
        /\ UNCHANGED <<storeVars, heartbeat, hostVars, countVars>>
    BY <1>12 DEF Boot, Acked
  <2> HIDE DEF Claims, Box, NoBox
  <2> QED
    BY <2>1, <2>2
<1>13. ASSUME NEW c \in Slot, Poll(c) \/ FollowPoll(c) PROVE TypeOK'
  <2>1. box' \in [Slot -> Box]
    BY <1>13, WorkOwnRows DEF OwnRows, Work
  <2>2. UNCHANGED <<storeVars, claimVars, heartbeat, hostVars, countVars>>
    BY <1>13 DEF Poll, FollowPoll
  <2> HIDE DEF Box, NoBox
  <2> QED
    BY <2>1, <2>2
<1>14. ASSUME NEW c \in Slot, Claim(c) \/ Take(c) PROVE TypeOK'
  <2> HIDE DEF Claims, Box, NoBox
  <2>1. box' \in [Slot -> Box]
    BY <1>14, WorkOwnRows DEF OwnRows, Work
  <2>2. /\ Mark(box[c].read)
        /\ UNCHANGED <<storeVars, heartbeat, hostVars, countVars>>
    BY <1>14 DEF Claim, Take
  <2>3. /\ ack' \in [Message -> {"none", "processing", "completed"}]
        /\ Claims \subseteq Claims'
    BY <2>2, AckedType DEF Mark
  <2>4. aged' \subseteq Claims' /\ seen' \subseteq Claims'
    BY <2>2, <2>3 DEF Mark
  <2> QED
    BY <2>1, <2>2, <2>3, <2>4
<1>15. ASSUME NEW c \in Slot, Commands(c) PROVE TypeOK'
  <2> HIDE DEF Claims, Box, NoBox
  <2>1. box' \in [Slot -> Box]
    BY <1>15, WorkOwnRows DEF OwnRows, Work
  <2>2. /\ ack' \in [Message -> {"none", "processing", "completed"}]
        /\ Claims \ (box[c].batch \cap Clear) \subseteq Claims'
    BY <1>15, AckedType DEF Commands
  <2> QED
    BY <1>15, <2>1, <2>2 DEF Commands
<1>16. ASSUME NEW c \in Slot, FollowFails(c) PROVE TypeOK'
  <2> HIDE DEF TypeOK, Claims, Box, NoBox, storeVars, claimVars, hostVars, countVars
  <2>1. PICK skipped \in SUBSET (box[c].follow \cap Scripted) :
          /\ ack' = Acked(skipped, "completed")
          /\ aged' = aged \ skipped
          /\ IF box[c].follow \cap Scripted # {} THEN Touch(Claims \ skipped)
             ELSE UNCHANGED <<heartbeat, seen>>
    BY <1>16 DEF FollowFails
  <2> USE DEF TypeOK, storeVars, hostVars, countVars
  <2>2. box' \in [Slot -> Box]
    BY <1>16, WorkOwnRows DEF OwnRows, Work
  <2>3. /\ ack' \in [Message -> {"none", "processing", "completed"}]
        /\ Claims \ skipped \subseteq Claims'
    BY <2>1, AckedType
  <2>4. skipped = {} \/ box[c].follow \cap Scripted # {}
    OBVIOUS
  <2>5. /\ aged' \subseteq Claims' /\ seen' \subseteq Claims'
        /\ heartbeat' \in {"absent", "fresh", "expired"}
    BY <2>1, <2>3, <2>4 DEF Touch
  <2>6. faults' \in Nat /\ UNCHANGED <<storeVars, hostVars, stopFailures>>
    BY <1>16 DEF FollowFails, Fault
  <2> QED
    BY <2>2, <2>3, <2>5, <2>6
<1>17. ASSUME NEW c \in Slot, Scripts(c) PROVE TypeOK'
  <2> HIDE DEF TypeOK, Claims, Box, NoBox, storeVars, claimVars, hostVars, countVars
  <2>1. PICK skipped \in SUBSET (box[c].batch \cap Scripted) :
          /\ ack' = Acked(skipped, "completed")
          /\ aged' = aged \ skipped
          /\ IF box[c].batch \cap Scripted # {} THEN Touch(Claims \ skipped)
             ELSE UNCHANGED <<heartbeat, seen>>
    BY <1>17 DEF Scripts
  <2> USE DEF TypeOK, storeVars, hostVars, countVars
  <2>2. box' \in [Slot -> Box]
    BY <1>17, WorkOwnRows DEF OwnRows, Work
  <2>3. /\ ack' \in [Message -> {"none", "processing", "completed"}]
        /\ Claims \ skipped \subseteq Claims'
    BY <2>1, AckedType
  <2>4. skipped = {} \/ box[c].batch \cap Scripted # {}
    OBVIOUS
  <2>5. /\ aged' \subseteq Claims' /\ seen' \subseteq Claims'
        /\ heartbeat' \in {"absent", "fresh", "expired"}
    BY <2>1, <2>3, <2>4 DEF Touch
  <2> QED
    BY <1>17, <2>2, <2>3, <2>5 DEF Scripts
<1>18. ASSUME NEW c \in Slot, Event(c) PROVE TypeOK'
  BY <1>18 DEF Event, Touch
<1>19. ASSUME NEW c \in Slot, Result(c) PROVE TypeOK'
  <2>1. box' \in [Slot -> Box]
    BY <1>19, WorkOwnRows DEF OwnRows, Work
  <2>2. /\ ack' \in [Message -> {"none", "processing", "completed"}]
        /\ Claims \ box[c].batch \subseteq Claims'
    BY <1>19, AckedType DEF Result
  <2> QED
    BY <1>19, <2>1, <2>2 DEF Result, Touch
<1>20. ASSUME NEW c \in Slot, FollowPush(c) PROVE TypeOK'
  <2>1. box' \in [Slot -> Box]
    BY <1>20, WorkOwnRows DEF OwnRows, Work
  <2>2. /\ ack' \in [Message -> {"none", "processing", "completed"}]
        /\ Claims \ box[c].follow \subseteq Claims'
    BY <1>20, AckedType DEF FollowPush
  <2> QED
    BY <1>20, <2>1, <2>2 DEF FollowPush, Touch
<1>21. ASSUME NEW c \in Slot, NEW m \in Message, FollowAbandon(c, m) PROVE TypeOK'
  <2>1. box' \in [Slot -> Box]
    BY <1>21, WorkOwnRows DEF OwnRows, Work
  <2> HIDE DEF Box, NoBox
  <2>2. CASE /\ ack' = Acked({m}, "completed") /\ aged' = aged \ {m}
             /\ Touch(Claims \ {m})
    <3>1. /\ ack' \in [Message -> {"none", "processing", "completed"}]
          /\ Claims \ {m} \subseteq Claims'
      BY <2>2, AckedType
    <3> QED
      BY <1>21, <2>1, <2>2, <3>1 DEF FollowAbandon, Touch
  <2>3. CASE /\ UNCHANGED <<ack, aged>>
             /\ Touch(Claims) \/ UNCHANGED <<heartbeat, seen>>
    BY <1>21, <2>1, <2>3 DEF FollowAbandon, Touch
  <2> QED
    BY <1>21, <2>2, <2>3 DEF FollowAbandon
<1>22. ASSUME NEW c \in Slot, QueryEnd(c) PROVE TypeOK'
  <2>1. box' \in [Slot -> Box]
    BY <1>22, WorkOwnRows DEF OwnRows, Work
  <2>2. /\ ack' \in [Message -> {"none", "processing", "completed"}]
        /\ Claims \ box[c].batch \subseteq Claims'
    BY <1>22, AckedType DEF QueryEnd
  <2> QED
    BY <1>22, <2>1, <2>2 DEF QueryEnd
<1>23. ASSUME NEW c \in Slot, Crash(c) PROVE TypeOK'
  BY <1>23 DEF Crash, Fault, Die
<1>24. ASSUME NEW m \in Message, ClaimAges(m) PROVE TypeOK'
  BY <1>24 DEF ClaimAges
<1>25. CASE HeartbeatExpires
  BY <1>25 DEF HeartbeatExpires
<1>26. ASSUME NEW m \in Message, BackoffElapses(m) PROVE TypeOK'
  BY <1>26 DEF BackoffElapses
<1>27. CASE UNCHANGED vars
  BY <1>27 DEF vars
<1> QED
  BY <1>1, <1>2, <1>3, <1>4, <1>5, <1>6, <1>7, <1>8, <1>9, <1>10, <1>11,
     <1>12, <1>13, <1>14, <1>15, <1>16, <1>17, <1>18, <1>19, <1>20, <1>21,
     <1>22, <1>23, <1>24, <1>25, <1>26, <1>27
     DEF Next, HostStep, BoxStep, Time

\* Instances that die, and clients that exit, leave no stray uncounted.
LEMMA FewerStrays ==
  ASSUME TypeOK, StraysCounted, Strays' \subseteq Strays, Live' \subseteq Live,
         stopFailures' = stopFailures
  PROVE  IsFiniteSet(Live') /\ Cardinality(Strays') <= stopFailures'
<1>1. IsFiniteSet(Strays) /\ IsFiniteSet(Live')
  BY FS_Subset DEF StraysCounted, Strays
<1>2. Cardinality(Strays') <= Cardinality(Strays)
  BY <1>1, FS_Subset
<1>3. Cardinality(Strays') \in Nat /\ Cardinality(Strays) \in Nat
  BY <1>1, FS_Subset, FS_CardinalityType
<1> QED
  BY <1>1, <1>2, <1>3 DEF StraysCounted, TypeOK

\* Every live instance but the registered one is one `docker stop` left alive.
LEMMA StraysStep ==
  ASSUME TypeOK, BoxesFit, StraysCounted, [Next]_vars
  PROVE  StraysCounted'
<1> USE DEF StraysCounted, storeVars, claimVars, hostVars, countVars
<1>1. ASSUME NEW m \in Message, Write(m) PROVE StraysCounted'
  <2>1. Live' = Live /\ Strays' = Strays
    BY <1>1 DEF Write, Insert, Wake, Live, Strays
  <2>2. spawning' > 0 => active = NoSlot
    BY <1>1 DEF Write, Insert, Wake
  <2> QED
    BY <1>1, <2>1, <2>2 DEF Write, Insert, Wake
<1>2. ASSUME NEW m \in Message, Restart(m) PROVE StraysCounted'
  <2>1. Live' = Live /\ Strays' = Strays
    BY <1>2 DEF Restart, Insert, Live, Strays
  <2>2. spawning' > 0 => active = NoSlot
    BY <1>2 DEF Restart, Insert
  <2> QED
    BY <1>2, <2>1, <2>2 DEF Restart, Insert
<1>3. CASE Kill
  <2>1. Live' = Live /\ Strays' = Strays
    BY <1>3 DEF Kill, Fault, Live, Strays
  <2>2. spawning' > 0 => active = NoSlot
    BY <1>3 DEF Kill, Fault
  <2> QED
    BY <1>3, <2>1, <2>2 DEF Kill, Fault
<1>4. ASSUME NEW c \in Slot, SpawnDone(c) PROVE StraysCounted'
  <2>1. active = NoSlot /\ clientKilled' = FALSE /\ active' = c
    BY <1>4 DEF SpawnDone
  <2>2. Live' = Live \cup {c} /\ c \notin Live
    BY <1>4 DEF SpawnDone, Live, NoBox, TypeOK
  <2>3. Strays' \subseteq Strays /\ stopFailures' = stopFailures
    BY <1>4, <2>1, <2>2, SessionAssumption DEF SpawnDone, Strays, Live
  <2>4. IsFiniteSet(Live')
    BY <2>2, FS_AddElement
  <2>5. Cardinality(Strays') <= Cardinality(Strays)
    BY <2>3, FS_Subset DEF Strays
  <2>6. Cardinality(Strays') \in Nat /\ Cardinality(Strays) \in Nat
    BY <2>3, FS_Subset, FS_CardinalityType DEF Strays
  <2>7. spawning' = 0
    BY <1>4 DEF SpawnDone, TypeOK
  <2> QED
    BY <2>1, <2>3, <2>4, <2>5, <2>6, <2>7 DEF TypeOK
<1>5. CASE SpawnFails
  <2>1. Live' = Live /\ Strays' = Strays
    BY <1>5 DEF SpawnFails, Fault, Live, Strays
  <2>2. spawning' > 0 => active = NoSlot
    BY <1>5 DEF SpawnFails, Fault
  <2> QED
    BY <1>5, <2>1, <2>2 DEF SpawnFails, Fault
<1>6. CASE Close
  <2>1. Live' = Live /\ stopFailures' = stopFailures
    BY <1>6 DEF Close, Live
  <2>2. Strays' \subseteq Strays
    BY <1>6, <2>1, SessionAssumption DEF Close, Strays, Live
  <2> QED
    BY <1>6, <2>1, <2>2, FewerStrays DEF Close
<1>7. CASE SweepTick
  <2>1. Live' = Live /\ Strays' = Strays
    BY <1>7 DEF SweepTick, Wake, Live, Strays
  <2>2. spawning' > 0 => active = NoSlot
    BY <1>7 DEF SweepTick, Wake
  <2> QED
    BY <1>7, <2>1, <2>2 DEF SweepTick, Wake
<1>8. CASE Sweep
  <2>1. Live' = Live /\ Strays' = Strays
    BY <1>8 DEF Sweep, Live, Strays
  <2>2. spawning' > 0 => active = NoSlot
    BY <1>8 DEF Sweep
  <2> QED
    BY <1>8, <2>1, <2>2 DEF Sweep
<1>9. CASE StopDone
  <2>1. Live' \subseteq Live
    BY <1>9 DEF StopDone, Die, Live, NoBox, TypeOK
  <2>2. Strays' \subseteq Strays /\ stopFailures' = stopFailures
    BY <1>9, <2>1 DEF StopDone, AfterStop, Strays
  <2> QED
    BY <1>9, <2>1, <2>2, FewerStrays DEF StopDone, AfterStop
<1>10. CASE StopFails
  <2>1. /\ Live' = Live /\ active \in Live /\ active' = active
        /\ Strays' = Live /\ stopFailures' = stopFailures + 1
        /\ clientKilled' /\ spawning' = spawning
    BY <1>10 DEF StopFails, AfterStop, Strays, Live
  <2>2. Live \ {active} \subseteq Strays
    BY DEF Strays
  <2>3. Cardinality(Live) = Cardinality(Live \ {active}) + 1
    <3>1. Cardinality(Live \ {active}) = Cardinality(Live) - 1
      BY <2>1, FS_RemoveElement
    <3>2. Cardinality(Live) \in Nat
      BY FS_CardinalityType
    <3> QED
      BY <3>1, <3>2
  <2>4. Cardinality(Live \ {active}) <= Cardinality(Strays)
    BY <2>2, FS_Subset DEF Strays
  <2>5. /\ Cardinality(Strays) \in Nat /\ Cardinality(Live) \in Nat
        /\ Cardinality(Live \ {active}) \in Nat
    BY FS_Subset, FS_CardinalityType DEF Strays
  <2> QED
    BY <2>1, <2>3, <2>4, <2>5 DEF TypeOK
<1>11. CASE HostRestart
  <2>1. PICK left \in SUBSET Live :
          /\ stopFailures' = stopFailures + Cardinality(left)
          /\ Die(Slot \ left)
    BY <1>11 DEF HostRestart
  <2>2. Live' = left
    BY <2>1 DEF Die, Live, NoBox, TypeOK
  <2>3. Strays' \subseteq left
    BY <2>2 DEF Strays
  <2>4. IsFiniteSet(left) /\ Cardinality(left) \in Nat /\ Cardinality(Strays') \in Nat
        /\ Cardinality(Strays') <= Cardinality(left)
    BY <2>3, FS_Subset, FS_CardinalityType
  <2>5. ~clientKilled' /\ spawning' = 0
    BY <1>11 DEF HostRestart
  <2> QED
    BY <2>1, <2>2, <2>4, <2>5 DEF TypeOK
<1>12. ASSUME NEW c \in Slot, Boot(c) PROVE StraysCounted'
  <2>1. Live' = Live
    BY <1>12 DEF Boot, Live, TypeOK, Box
  <2>2. Strays' = Strays
    BY <1>12, <2>1 DEF Boot, Strays
  <2> QED
    BY <1>12, <2>1, <2>2 DEF Boot
<1>13. ASSUME NEW c \in Slot, Crash(c) PROVE StraysCounted'
  <2>1. Live' \subseteq Live
    BY <1>13 DEF Crash, Die, Live, NoBox, TypeOK
  <2>2. Strays' \subseteq Strays /\ stopFailures' = stopFailures
    BY <1>13, <2>1 DEF Crash, Strays
  <2> QED
    BY <1>13, <2>1, <2>2, FewerStrays DEF Crash
<1>14. ASSUME NEW m \in Message, ClaimAges(m) PROVE StraysCounted'
  <2>1. Live' = Live /\ Strays' = Strays
    BY <1>14 DEF ClaimAges, Live, Strays
  <2>2. spawning' > 0 => active = NoSlot
    BY <1>14 DEF ClaimAges
  <2> QED
    BY <1>14, <2>1, <2>2 DEF ClaimAges
<1>15. CASE HeartbeatExpires
  <2>1. Live' = Live /\ Strays' = Strays
    BY <1>15 DEF HeartbeatExpires, Live, Strays
  <2>2. spawning' > 0 => active = NoSlot
    BY <1>15 DEF HeartbeatExpires
  <2> QED
    BY <1>15, <2>1, <2>2 DEF HeartbeatExpires
<1>16. ASSUME NEW m \in Message, BackoffElapses(m) PROVE StraysCounted'
  <2>1. Live' = Live /\ Strays' = Strays
    BY <1>16 DEF BackoffElapses, Live, Strays
  <2>2. spawning' > 0 => active = NoSlot
    BY <1>16 DEF BackoffElapses
  <2> QED
    BY <1>16, <2>1, <2>2 DEF BackoffElapses
<1>17. ASSUME NEW c \in Slot, Work(c) PROVE StraysCounted'
  <2>1. OwnRows(c)
    BY <1>17, WorkOwnRows
  <2>2. Live' = Live
    BY <2>1 DEF OwnRows, Live
  <2>3. Strays' = Strays
    BY <2>1, <2>2 DEF OwnRows, Strays
  <2> QED
    BY <2>1, <2>2, <2>3 DEF OwnRows
<1>18. CASE UNCHANGED vars
  BY <1>18 DEF vars, Live, Strays
<1> QED
  BY <1>1, <1>2, <1>3, <1>4, <1>5, <1>6, <1>7, <1>8, <1>9, <1>10, <1>11,
     <1>12, <1>13, <1>14, <1>15, <1>16, <1>17, <1>18
     DEF Next, HostStep, BoxStep, Work, Time

\* While every `docker stop` has worked, only the registered instance lives.
LEMMA OnlyRegistered ==
  ASSUME TypeOK, StraysCounted, stopFailures = 0
  PROVE  Live \subseteq {active}
<1>1. ~clientKilled
  BY DEF StraysCounted
<1>2. IsFiniteSet(Strays) /\ Cardinality(Strays) = 0
  <2>1. IsFiniteSet(Strays)
    BY FS_Subset DEF StraysCounted, Strays
  <2>2. Cardinality(Strays) \in Nat /\ Cardinality(Strays) <= 0
    BY <2>1, FS_CardinalityType DEF StraysCounted
  <2> QED
    BY <2>1, <2>2
<1>3. Strays = {}
  BY <1>2, FS_EmptySet
<1> QED
  BY <1>1, <1>3 DEF Strays

\* Deaths leave each instance as it is, or nothing of it.
Deaths == box' \in [Slot -> Box] /\ \A d \in Slot : box'[d] \in {box[d], NoBox}

LEMMA DieDeaths ==
  ASSUME TypeOK, NEW D, Die(D)
  PROVE  Deaths /\ \A d \in Slot : d \in D => box'[d] = NoBox
  BY NoBoxType DEF Deaths, Die, TypeOK

\* The host's cleanup: rows are failed and claims dropped only when no instance
\* is left, or one has escaped `docker stop`.
Cleanup ==
  /\ Deaths
  /\ \A m \in Message :
       /\ \/ status'[m] = status[m]
          \/ status[m] = "pending" /\ ack[m] = "processing" /\ status'[m] = "failed"
       /\ ack'[m] = ack[m] \/ (ack[m] = "processing" /\ ack'[m] = "none")
  /\ \/ UNCHANGED <<status, ack>>
     \/ stopFailures' > 0
     \/ \A d \in Slot : box'[d] = NoBox
  /\ stopFailures' >= stopFailures

LEMMA ResetRows ==
  ASSUME TypeOK, Reset, NEW m \in Message
  PROVE  /\ \/ status'[m] = status[m]
            \/ status[m] = "pending" /\ ack[m] = "processing" /\ status'[m] = "failed"
         /\ ack'[m] = ack[m] \/ (ack[m] = "processing" /\ ack'[m] = "none")
<1>1. \/ status'[m] = status[m]
      \/ status[m] = "pending" /\ ack[m] = "processing" /\ status'[m] = "failed"
  BY DEF TypeOK, Reset, Retry, Claims
<1>2. ack'[m] = ack[m] \/ (ack[m] = "processing" /\ ack'[m] = "none")
  BY DEF TypeOK, Reset, DropClaims, Acked, Claims, claimVars
<1> QED
  BY <1>1, <1>2

LEMMA HostCleanup ==
  ASSUME TypeOK, StraysCounted, BoxesFit, Sweep \/ StopDone \/ StopFails
  PROVE  Cleanup
<1>1. CASE Sweep
  <2>1. Deaths /\ stopFailures' = stopFailures
    BY <1>1 DEF Sweep, Deaths, TypeOK
  <2>2. CASE active = NoSlot
    <3>1. Reset
      BY <1>1, <2>2 DEF Sweep
    <3>2. stopFailures = 0 => \A d \in Slot : box'[d] = NoBox
      BY <1>1, <2>2, OnlyRegistered, SessionAssumption DEF Sweep, Live, BoxesFit
    <3> QED
      BY <2>1, <3>1, <3>2, ResetRows DEF Cleanup, TypeOK
  <2>3. CASE active # NoSlot
    BY <1>1, <2>1, <2>3 DEF Sweep, Cleanup, storeVars, claimVars, TypeOK
  <2> QED
    BY <2>2, <2>3
<1>2. CASE StopDone
  <2>1. /\ Deaths /\ stopFailures' = stopFailures
        /\ active \in Slot => box'[active] = NoBox
    BY <1>2, DieDeaths DEF StopDone
  <2>2. CASE host = "stop-sweep"
    <3>1. Reset
      BY <1>2, <2>2 DEF StopDone, AfterStop
    <3>2. stopFailures = 0 => \A d \in Slot : box'[d] = NoBox
      BY <2>1, OnlyRegistered DEF Deaths, Live, BoxesFit
    <3> QED
      BY <2>1, <3>1, <3>2, ResetRows DEF Cleanup, TypeOK
  <2>3. CASE host # "stop-sweep"
    BY <1>2, <2>1, <2>3
       DEF StopDone, AfterStop, Cleanup, storeVars, claimVars, TypeOK
  <2> QED
    BY <2>2, <2>3
<1>3. CASE StopFails
  <2>1. Deaths /\ stopFailures' > 0 /\ stopFailures' >= stopFailures
    BY <1>3 DEF StopFails, Deaths, TypeOK
  <2>2. CASE host = "stop-sweep"
    BY <1>3, <2>1, <2>2, ResetRows DEF StopFails, AfterStop, Cleanup
  <2>3. CASE host # "stop-sweep"
    BY <1>3, <2>1, <2>3
       DEF StopFails, AfterStop, Cleanup, storeVars, claimVars, TypeOK
  <2> QED
    BY <2>2, <2>3
<1> QED
  BY <1>1, <1>2, <1>3

\* The startup cleanup drops claims while no instance holds or has dealt with
\* any row, or one has escaped `docker stop`.
LEMMA BootRows ==
  ASSUME TypeOK, StraysCounted, BoxesFit, NEW c \in Slot, Boot(c)
  PROVE  /\ box' \in [Slot -> Box] /\ status' = status /\ stopFailures' = stopFailures
         /\ \A m \in Message :
              ack'[m] = ack[m] \/ (ack[m] = "processing" /\ ack'[m] = "none")
         /\ box'[c].pc = "polling" /\ Held(c)' = Held(c)
         /\ box'[c].dealt = box[c].dealt
         /\ box[c].read = {} /\ box'[c].read = {} /\ box'[c].follow = {}
         /\ \A d \in Slot \ {c} : box'[d] = box[d] /\ Held(d)' = Held(d)
         /\ Live' = Live
         /\ stopFailures = 0 =>
              \A d \in Slot : Held(d)' = {} /\ box'[d].dealt = {} /\ box'[d].read = {}
<1>0. box[c] \in Box /\ box[c].pc = "booting"
  BY DEF Boot, TypeOK
<1>1. box' = [box EXCEPT ![c].pc = "polling"]
  BY DEF Boot
<1>2. /\ box'[c] \in Box /\ box'[c].pc = "polling"
      /\ box'[c].batch = box[c].batch /\ box'[c].follow = box[c].follow
      /\ box'[c].late = box[c].late /\ box'[c].dealt = box[c].dealt
      /\ box'[c].read = box[c].read
  BY <1>0, <1>1 DEF TypeOK, Box
<1>9. box[c].read = {} /\ box[c].follow = {}
  BY <1>0 DEF BoxesFit, Reading
<1>3. box' = [d \in Slot |-> box'[d]] /\ \A d \in Slot \ {c} : box'[d] = box[d]
  BY <1>1 DEF TypeOK
<1>4. box' \in [Slot -> Box]
  BY <1>2, <1>3 DEF TypeOK
<1>5. /\ status' = status /\ stopFailures' = stopFailures
      /\ \A m \in Message :
           ack'[m] = ack[m] \/ (ack[m] = "processing" /\ ack'[m] = "none")
  BY DEF Boot, Acked, Claims, storeVars, countVars
<1>6. Held(c)' = Held(c) /\ Live' = Live
  BY <1>0, <1>2, <1>3 DEF Held, Live
<1>7. ASSUME stopFailures = 0, NEW d \in Slot
      PROVE  Held(d)' = {} /\ box'[d].dealt = {} /\ box'[d].read = {}
  <2>1. c \in Live /\ (d = c \/ d \notin Live)
    BY <1>0, <1>7, OnlyRegistered DEF Live
  <2>2. CASE d = c
    BY <1>0, <1>2, <1>6, <1>9, <2>2 DEF BoxesFit
  <2>3. CASE d # c
    BY <1>3, <2>1, <2>3 DEF BoxesFit, Live, NoBox, Held
  <2> QED
    BY <2>2, <2>3
<1>8. \A d \in Slot \ {c} : Held(d)' = Held(d)
  BY <1>3 DEF Held
<1> QED
  BY <1>2, <1>3, <1>4, <1>5, <1>6, <1>7, <1>8, <1>9

LEMMA RestartDeaths ==
  ASSUME TypeOK, StraysCounted, HostRestart
  PROVE  Deaths /\ stopFailures' >= stopFailures /\ UNCHANGED <<status, ack>>
<1>1. PICK left \in SUBSET Live :
        /\ stopFailures' = stopFailures + Cardinality(left)
        /\ Die(Slot \ left)
  BY DEF HostRestart
<1>2. Cardinality(left) \in Nat
  BY FS_Subset, FS_CardinalityType DEF StraysCounted
<1> QED
  BY <1>1, <1>2, DieDeaths DEF HostRestart, TypeOK, storeVars, claimVars

LEMMA FitDeaths ==
  ASSUME BoxesFit, Deaths
  PROVE  BoxesFit'
<1> SUFFICES ASSUME NEW d \in Slot
             PROVE  /\ box'[d].pc = "dead" => box'[d] = NoBox
                    /\ box'[d].pc = "booting" => Held(d)' = {} /\ box'[d].dealt = {}
                    /\ box'[d].pc \in {"query", "taking", "closing"} =>
                         box'[d].batch \subseteq box'[d].dealt
                    /\ box'[d].read # {} => box'[d].pc \in {"claiming", "taking"}
                    /\ box'[d].follow # {} => box'[d].pc \in {"query", "closing"}
  BY DEF BoxesFit, Reading
<1>1. CASE box'[d] = NoBox
  BY <1>1 DEF NoBox
<1>2. CASE box'[d] = box[d]
  BY <1>2 DEF BoxesFit, Held, Reading
<1> QED
  BY <1>1, <1>2 DEF Deaths

\* What an instance holds keeps fitting where its loop is.
LEMMA FitStep ==
  ASSUME TypeOK, StraysCounted, BoxesFit, [Next]_vars
  PROVE  BoxesFit'
<1> USE DEF BoxesFit, storeVars, claimVars, hostVars, countVars
<1>1. ASSUME NEW m \in Message, Write(m) PROVE BoxesFit'
  BY <1>1 DEF Write, Held, Reading
<1>2. ASSUME NEW m \in Message, Restart(m) PROVE BoxesFit'
  BY <1>2 DEF Restart, Held, Reading
<1>3. CASE Kill
  BY <1>3 DEF Kill, Held, Reading
<1>4. ASSUME NEW c \in Slot, SpawnDone(c) PROVE BoxesFit'
  <2>1. /\ box'[c].pc = "booting" /\ box'[c].batch = {} /\ box'[c].follow = {}
        /\ box'[c].late = {} /\ box'[c].dealt = {} /\ box'[c].read = {}
    BY <1>4 DEF SpawnDone, NoBox, TypeOK
  <2>2. \A d \in Slot \ {c} : box'[d] = box[d]
    BY <1>4 DEF SpawnDone, TypeOK
  <2> QED
    BY <2>1, <2>2 DEF Held, Reading
<1>5. CASE SpawnFails
  BY <1>5 DEF SpawnFails, Held, Reading
<1>6. CASE Close
  BY <1>6 DEF Close, Held, Reading
<1>7. CASE SweepTick
  BY <1>7 DEF SweepTick, Held, Reading
<1>8. CASE Sweep \/ StopDone \/ StopFails
  BY <1>8, HostCleanup, FitDeaths DEF Cleanup
<1>9. CASE HostRestart
  BY <1>9, RestartDeaths, FitDeaths
<1>10. ASSUME NEW c \in Slot, Boot(c) PROVE BoxesFit'
  BY <1>10, BootRows DEF Held, Reading
<1>11. ASSUME NEW c \in Slot, Crash(c) PROVE BoxesFit'
  BY <1>11, DieDeaths, FitDeaths DEF Crash
<1>12. ASSUME NEW m \in Message, ClaimAges(m) PROVE BoxesFit'
  BY <1>12 DEF ClaimAges, Held, Reading
<1>13. CASE HeartbeatExpires
  BY <1>13 DEF HeartbeatExpires, Held, Reading
<1>14. ASSUME NEW m \in Message, BackoffElapses(m) PROVE BoxesFit'
  BY <1>14 DEF BackoffElapses, Held, Reading
<1>15. ASSUME NEW c \in Slot, Work(c) PROVE BoxesFit'
  BY <1>15, WorkOwnRows DEF OwnRows, Held, Reading
<1>16. CASE UNCHANGED vars
  BY <1>16 DEF vars, Held, Reading
<1> QED
  BY <1>1, <1>2, <1>3, <1>4, <1>5, <1>6, <1>7, <1>8, <1>9, <1>10, <1>11,
     <1>12, <1>13, <1>14, <1>15, <1>16
     DEF Next, HostStep, BoxStep, Work, Time

\* Rows are written before they are claimed.
LEMMA ExistStep ==
  ASSUME TypeOK, StraysCounted, BoxesFit, RowsExist, [Next]_vars
  PROVE  RowsExist'
<1> USE DEF RowsExist, TypeOK, storeVars, claimVars, hostVars, countVars
<1>1. ASSUME NEW m \in Message, Write(m) PROVE RowsExist'
  <2>1. /\ box' = box /\ ack' = ack
        /\ \A n \in Message : status'[n] = "absent" => status[n] = "absent"
    BY <1>1 DEF Write, Insert, TypeOK
  <2> QED
    BY <2>1 DEF Held
<1>2. ASSUME NEW m \in Message, Restart(m) PROVE RowsExist'
  <2>1. /\ box' = box /\ ack' = ack
        /\ \A n \in Message : status'[n] = "absent" => status[n] = "absent"
    BY <1>2 DEF Restart, Insert, TypeOK
  <2> QED
    BY <2>1 DEF Held
<1>3. CASE Kill
  BY <1>3 DEF Kill, Held
<1>4. ASSUME NEW c \in Slot, SpawnDone(c) PROVE RowsExist'
  <2>1. /\ box'[c].pc = "booting" /\ box'[c].batch = {} /\ box'[c].follow = {}
        /\ box'[c].late = {} /\ box'[c].dealt = {} /\ box'[c].read = {}
    BY <1>4 DEF SpawnDone, NoBox, TypeOK
  <2>2. \A d \in Slot \ {c} : box'[d] = box[d]
    BY <1>4 DEF SpawnDone, TypeOK
  <2> QED
    BY <1>4, <2>1, <2>2 DEF SpawnDone, Held
<1>5. CASE SpawnFails
  BY <1>5 DEF SpawnFails, Held
<1>6. CASE Close
  BY <1>6 DEF Close, Held
<1>7. CASE SweepTick
  <2>1. /\ box' = box /\ ack' = ack
        /\ \A n \in Message : status'[n] = "absent" => status[n] = "absent"
    BY <1>7 DEF SweepTick, TypeOK
  <2> QED
    BY <2>1 DEF Held
<1>8. CASE Sweep \/ StopDone \/ StopFails
  BY <1>8, HostCleanup DEF Cleanup, Deaths, NoBox, Held
<1>9. CASE HostRestart
  BY <1>9, RestartDeaths DEF Deaths, NoBox, Held
<1>10. ASSUME NEW c \in Slot, Boot(c) PROVE RowsExist'
  BY <1>10, BootRows DEF Held
<1>11. ASSUME NEW c \in Slot, Crash(c) PROVE RowsExist'
  BY <1>11, DieDeaths DEF Crash, Deaths, NoBox, Held
<1>12. ASSUME NEW m \in Message, ClaimAges(m) PROVE RowsExist'
  BY <1>12 DEF ClaimAges, Held
<1>13. CASE HeartbeatExpires
  BY <1>13 DEF HeartbeatExpires, Held
<1>14. ASSUME NEW m \in Message, BackoffElapses(m) PROVE RowsExist'
  BY <1>14 DEF BackoffElapses, Held
<1>15. ASSUME NEW c \in Slot, Work(c) PROVE RowsExist'
  BY <1>15, WorkOwnRows DEF OwnRows, Held
<1>16. CASE UNCHANGED vars
  BY <1>16 DEF vars, Held
<1> QED
  BY <1>1, <1>2, <1>3, <1>4, <1>5, <1>6, <1>7, <1>8, <1>9, <1>10, <1>11,
     <1>12, <1>13, <1>14, <1>15, <1>16
     DEF Next, HostStep, BoxStep, Work, Time

\* No cleanup takes a row away from a live instance.
LEMMA KeptStep ==
  ASSUME TypeOK, StraysCounted, BoxesFit, Kept, [Next]_vars
  PROVE  Kept'
<1> USE DEF Kept, TypeOK, storeVars, claimVars, hostVars, countVars
<1>1. ASSUME NEW m \in Message, Write(m) PROVE Kept'
  <2>1. /\ box' = box /\ ack' = ack
        /\ stopFailures' = stopFailures
    BY <1>1 DEF Write, Insert, TypeOK
  <2> QED
    BY <2>1 DEF Held
<1>2. ASSUME NEW m \in Message, Restart(m) PROVE Kept'
  <2>1. /\ box' = box /\ ack' = ack
        /\ stopFailures' = stopFailures
    BY <1>2 DEF Restart, Insert, TypeOK
  <2> QED
    BY <2>1 DEF Held
<1>3. CASE Kill
  BY <1>3 DEF Kill, Held
<1>4. ASSUME NEW c \in Slot, SpawnDone(c) PROVE Kept'
  <2>1. /\ box'[c].pc = "booting" /\ box'[c].batch = {} /\ box'[c].follow = {}
        /\ box'[c].late = {} /\ box'[c].dealt = {}
    BY <1>4 DEF SpawnDone, NoBox, TypeOK
  <2>2. \A d \in Slot \ {c} : box'[d] = box[d]
    BY <1>4 DEF SpawnDone, TypeOK
  <2> QED
    BY <1>4, <2>1, <2>2 DEF SpawnDone, Held
<1>5. CASE SpawnFails
  BY <1>5 DEF SpawnFails, Held
<1>6. CASE Close
  BY <1>6 DEF Close, Held
<1>7. CASE SweepTick
  <2>1. /\ box' = box /\ ack' = ack
        /\ stopFailures' = stopFailures
    BY <1>7 DEF SweepTick, TypeOK
  <2> QED
    BY <2>1 DEF Held
<1>8. CASE Sweep \/ StopDone \/ StopFails
  BY <1>8, HostCleanup DEF Cleanup, Deaths, NoBox, Held
<1>9. CASE HostRestart
  BY <1>9, RestartDeaths DEF Deaths, NoBox, Held
<1>10. ASSUME NEW c \in Slot, Boot(c) PROVE Kept'
  BY <1>10, BootRows DEF Held
<1>11. ASSUME NEW c \in Slot, Crash(c) PROVE Kept'
  BY <1>11, DieDeaths DEF Crash, Deaths, NoBox, Held
<1>12. ASSUME NEW m \in Message, ClaimAges(m) PROVE Kept'
  BY <1>12 DEF ClaimAges, Held
<1>13. CASE HeartbeatExpires
  BY <1>13 DEF HeartbeatExpires, Held
<1>14. ASSUME NEW m \in Message, BackoffElapses(m) PROVE Kept'
  BY <1>14 DEF BackoffElapses, Held
<1>15. ASSUME NEW c \in Slot, Work(c) PROVE Kept'
  <2>1. OwnRows(c)
    BY <1>15, WorkOwnRows
  <2>2. \A d \in Slot \ {c} : Held(d)' = Held(d) /\ box'[d].dealt = box[d].dealt
    BY <2>1 DEF OwnRows, Held
  <2>3. \A m \in Message : ack[m] # "none" => ack'[m] # "none"
    BY <2>1 DEF OwnRows
  <2>4. stopFailures' = 0 =>
          \A m \in Held(c)' \cup box'[c].dealt : ack'[m] # "none"
    BY <2>1, <2>3 DEF OwnRows, Box, Held
  <2> QED
    BY <2>1, <2>2, <2>3, <2>4 DEF OwnRows, Held, Box
<1>16. CASE UNCHANGED vars
  BY <1>16 DEF vars, Held
<1> QED
  BY <1>1, <1>2, <1>3, <1>4, <1>5, <1>6, <1>7, <1>8, <1>9, <1>10, <1>11,
     <1>12, <1>13, <1>14, <1>15, <1>16
     DEF Next, HostStep, BoxStep, Work, Time

LEMMA ReadRows ==
  ASSUME TypeOK, NEW c \in Slot
  PROVE  box[c].read \subseteq Message
  BY DEF TypeOK, Box

LEMMA WorkReads ==
  ASSUME NEW c \in Slot, OwnRows(c), box' \in [Slot -> Box], NEW m \in box'[c].read
  PROVE  ack'[m] = "none" /\ status'[m] = "pending"
<1>1. m \in Message
  BY DEF Box
<1> QED
  BY <1>1 DEF OwnRows

\* Without a stray, nothing happens to a row between the read and the claim.
LEMMA FreshStep ==
  ASSUME TypeOK, StraysCounted, BoxesFit, RowsExist, ReadFresh, [Next]_vars
  PROVE  ReadFresh'
<1> USE DEF ReadFresh, TypeOK, storeVars, claimVars, hostVars, countVars
<1>1. ASSUME NEW m \in Message, Write(m) PROVE ReadFresh'
  <2>1. /\ box' = box /\ ack' = ack /\ stopFailures' = stopFailures
        /\ \A n \in Message : 
             status[n] = "pending" /\ ack[n] = "none" => status'[n] = "pending"
    BY <1>1 DEF Write, Insert, TypeOK
  <2> QED
    BY <2>1, ReadRows
<1>2. ASSUME NEW m \in Message, Restart(m) PROVE ReadFresh'
  <2>1. /\ box' = box /\ ack' = ack /\ stopFailures' = stopFailures
        /\ \A n \in Message : 
             status[n] = "pending" /\ ack[n] = "none" => status'[n] = "pending"
    BY <1>2 DEF Restart, Insert, TypeOK
  <2> QED
    BY <2>1, ReadRows
<1>3. CASE Kill
  BY <1>3 DEF Kill
<1>4. ASSUME NEW c \in Slot, SpawnDone(c) PROVE ReadFresh'
  <2>1. /\ box'[c].pc = "booting" /\ box'[c].batch = {} /\ box'[c].follow = {}
        /\ box'[c].late = {} /\ box'[c].read = {}
    BY <1>4 DEF SpawnDone, NoBox, TypeOK
  <2>2. \A d \in Slot \ {c} : box'[d] = box[d]
    BY <1>4 DEF SpawnDone, TypeOK
  <2> QED
    BY <1>4, <2>1, <2>2 DEF SpawnDone
<1>5. CASE SpawnFails
  BY <1>5 DEF SpawnFails
<1>6. CASE Close
  BY <1>6 DEF Close
<1>7. CASE SweepTick
  <2>1. /\ box' = box /\ ack' = ack /\ stopFailures' = stopFailures
        /\ \A n \in Message : 
             status[n] = "pending" /\ ack[n] = "none" => status'[n] = "pending"
    BY <1>7 DEF SweepTick, TypeOK
  <2> QED
    BY <2>1, ReadRows
<1>8. CASE Sweep \/ StopDone \/ StopFails
  BY <1>8, HostCleanup DEF Cleanup, Deaths, NoBox
<1>9. CASE HostRestart
  BY <1>9, RestartDeaths DEF Deaths, NoBox
<1>10. ASSUME NEW c \in Slot, Boot(c) PROVE ReadFresh'
  BY <1>10, BootRows
<1>11. ASSUME NEW c \in Slot, Crash(c) PROVE ReadFresh'
  BY <1>11, DieDeaths DEF Crash, Deaths, NoBox
<1>12. ASSUME NEW m \in Message, ClaimAges(m) PROVE ReadFresh'
  BY <1>12 DEF ClaimAges
<1>13. CASE HeartbeatExpires
  BY <1>13 DEF HeartbeatExpires
<1>14. ASSUME NEW m \in Message, BackoffElapses(m) PROVE ReadFresh'
  BY <1>14 DEF BackoffElapses
<1>15. ASSUME NEW c \in Slot, Work(c) PROVE ReadFresh'
  <2> SUFFICES ASSUME stopFailures = 0, NEW d \in Slot, NEW m \in box'[d].read
               PROVE  ack'[m] = "none" /\ status'[m] = "pending"
    BY <1>15, WorkOwnRows DEF OwnRows
  <2>1. OwnRows(c)
    BY <1>15, WorkOwnRows
  <2>2. CASE d = c
    BY <2>1, <2>2, WorkReads DEF OwnRows
  <2>3. CASE d # c
    <3>1. d \notin Live
      BY <2>1, <2>3, OnlyRegistered DEF OwnRows, Live
    <3>2. box'[d] = NoBox
      BY <2>1, <2>3, <3>1 DEF OwnRows, Live, BoxesFit
    <3> QED
      BY <3>2 DEF NoBox
  <2> QED
    BY <2>2, <2>3
<1>16. CASE UNCHANGED vars
  BY <1>16 DEF vars
<1> QED
  BY <1>1, <1>2, <1>3, <1>4, <1>5, <1>6, <1>7, <1>8, <1>9, <1>10, <1>11,
     <1>12, <1>13, <1>14, <1>15, <1>16
     DEF Next, HostStep, BoxStep, Work, Time

\* A row is failed only when no instance holds it, and not claimed again.
LEMMA FailedStep ==
  ASSUME TypeOK, StraysCounted, BoxesFit, ReadFresh, FailedUnheld, [Next]_vars
  PROVE  FailedUnheld'
<1> USE DEF FailedUnheld, TypeOK, storeVars, claimVars, hostVars, countVars
<1>1. ASSUME NEW m \in Message, Write(m) PROVE FailedUnheld'
  <2>1. /\ box' = box /\ ack' = ack /\ stopFailures' = stopFailures
        /\ \A n \in Message : 
             status'[n] = "failed" => status[n] = "failed"
    BY <1>1 DEF Write, Insert, TypeOK
  <2> QED
    BY <2>1 DEF Held
<1>2. ASSUME NEW m \in Message, Restart(m) PROVE FailedUnheld'
  <2>1. /\ box' = box /\ ack' = ack /\ stopFailures' = stopFailures
        /\ \A n \in Message : 
             status'[n] = "failed" => status[n] = "failed"
    BY <1>2 DEF Restart, Insert, TypeOK
  <2> QED
    BY <2>1 DEF Held
<1>3. CASE Kill
  BY <1>3 DEF Kill, Held
<1>4. ASSUME NEW c \in Slot, SpawnDone(c) PROVE FailedUnheld'
  <2>1. /\ box'[c].pc = "booting" /\ box'[c].batch = {} /\ box'[c].follow = {}
        /\ box'[c].late = {} /\ box'[c].dealt = {}
    BY <1>4 DEF SpawnDone, NoBox, TypeOK
  <2>2. \A d \in Slot \ {c} : box'[d] = box[d]
    BY <1>4 DEF SpawnDone, TypeOK
  <2> QED
    BY <1>4, <2>1, <2>2 DEF SpawnDone, Held
<1>5. CASE SpawnFails
  BY <1>5 DEF SpawnFails, Held
<1>6. CASE Close
  BY <1>6 DEF Close, Held
<1>7. CASE SweepTick
  <2>1. /\ box' = box /\ ack' = ack /\ stopFailures' = stopFailures
        /\ \A n \in Message : 
             status'[n] = "failed" => status[n] = "failed"
    BY <1>7 DEF SweepTick, TypeOK
  <2> QED
    BY <2>1 DEF Held
<1>8. CASE Sweep \/ StopDone \/ StopFails
  BY <1>8, HostCleanup DEF Cleanup, Deaths, NoBox, Held
<1>9. CASE HostRestart
  BY <1>9, RestartDeaths DEF Deaths, NoBox, Held
<1>10. ASSUME NEW c \in Slot, Boot(c) PROVE FailedUnheld'
  BY <1>10, BootRows DEF Held
<1>11. ASSUME NEW c \in Slot, Crash(c) PROVE FailedUnheld'
  BY <1>11, DieDeaths DEF Crash, Deaths, NoBox, Held
<1>12. ASSUME NEW m \in Message, ClaimAges(m) PROVE FailedUnheld'
  BY <1>12 DEF ClaimAges, Held
<1>13. CASE HeartbeatExpires
  BY <1>13 DEF HeartbeatExpires, Held
<1>14. ASSUME NEW m \in Message, BackoffElapses(m) PROVE FailedUnheld'
  BY <1>14 DEF BackoffElapses, Held
<1>15. ASSUME NEW c \in Slot, Work(c) PROVE FailedUnheld'
  <2>1. OwnRows(c)
    BY <1>15, WorkOwnRows
  <2>2. \A d \in Slot \ {c} : Held(d)' = Held(d)
    BY <2>1 DEF OwnRows, Held
  <2> SUFFICES ASSUME stopFailures = 0, NEW m \in Message, status[m] = "failed"
               PROVE  ack'[m] # "completed" /\ \A d \in Slot : m \notin Held(d)'
    BY <2>1 DEF OwnRows
  <2>3. m \notin box[c].read /\ m \notin Held(c) /\ ack[m] # "completed"
    BY DEF ReadFresh
  <2>4. ack'[m] = ack[m] /\ m \notin Held(c)'
    BY <2>1, <2>3 DEF OwnRows
  <2> QED
    BY <2>2, <2>3, <2>4
<1>16. CASE UNCHANGED vars
  BY <1>16 DEF vars, Held
<1> QED
  BY <1>1, <1>2, <1>3, <1>4, <1>5, <1>6, <1>7, <1>8, <1>9, <1>10, <1>11,
     <1>12, <1>13, <1>14, <1>15, <1>16
     DEF Next, HostStep, BoxStep, Work, Time

-----------------------------------------------------------------------------
(* The theorems.                                                           *)

LEMMA InvHolds == Spec => []Inv
<1>1. Init => Inv
  <2> SUFFICES ASSUME Init PROVE Inv
    OBVIOUS
  <2>1. \A c \in Slot : box[c] = NoBox /\ Held(c) = {}
    BY DEF Init, Held, NoBox
  <2>2. TypeOK
    <3>1. tries \in [Message -> 0 .. MAX_TRIES]
      BY SessionAssumption DEF Init
    <3>2. box \in [Slot -> Box]
      BY NoBoxType DEF Init
    <3>3. ack \in [Message -> {"none", "processing", "completed"}]
      BY DEF Init
    <3>4. status \in [Message -> {"absent", "pending", "completed", "failed"}]
      BY DEF Init
    <3> QED
      BY <3>1, <3>2, <3>3, <3>4 DEF Init, TypeOK
  <2>3. StraysCounted
    <3>1. Live = {} /\ Strays = {}
      BY <2>1 DEF Live, Strays, NoBox
    <3> QED
      BY <3>1, FS_EmptySet DEF StraysCounted, Init
  <2>4. BoxesFit /\ RowsExist /\ Kept /\ ReadFresh /\ FailedUnheld
    BY <2>1 DEF Init, BoxesFit, RowsExist, Kept, ReadFresh, FailedUnheld, NoBox
  <2> QED
    BY <2>2, <2>3, <2>4 DEF Inv
<1>2. Inv /\ [Next]_vars => Inv'
  BY TypeStep, StraysStep, FitStep, ExistStep, KeptStep, FreshStep,
     FailedStep DEF Inv
<1> QED
  BY <1>1, <1>2, PTL DEF Spec

\* The variables of the session keep their types.
THEOREM TypeCorrect == Spec => []TypeOK
<1>1. Inv => TypeOK
  BY DEF Inv
<1> QED
  BY <1>1, InvHolds, PTL

\* However wakes, spawns, kills, exits and restarts interleave, a second
\* instance lives only where `docker stop` has failed (OneContainer).
THEOREM ContainersAreCounted == Spec => []OneContainer
<1>1. Inv => OneContainer
  <2> SUFFICES ASSUME Inv PROVE Cardinality(Live) <= 1 + stopFailures
    BY DEF OneContainer
  <2>1. IsFiniteSet(Live) /\ IsFiniteSet(Strays) /\ Live \subseteq Strays \cup {active}
    BY FS_Subset DEF Inv, StraysCounted, Strays
  <2>2. /\ IsFiniteSet(Strays \cup {active})
        /\ Cardinality(Strays \cup {active}) <= Cardinality(Strays) + 1
    <3>1. /\ IsFiniteSet(Strays \cup {active})
          /\ Cardinality(Strays \cup {active}) =
               IF active \in Strays THEN Cardinality(Strays) ELSE Cardinality(Strays) + 1
      BY <2>1, FS_AddElement
    <3>2. Cardinality(Strays) \in Nat
      BY <2>1, FS_CardinalityType
    <3> QED
      BY <3>1, <3>2
  <2>3. Cardinality(Live) <= Cardinality(Strays \cup {active})
    BY <2>1, <2>2, FS_Subset
  <2>4. /\ Cardinality(Live) \in Nat /\ Cardinality(Strays) \in Nat
        /\ Cardinality(Strays \cup {active}) \in Nat
    BY <2>1, <2>2, FS_CardinalityType
  <2> QED
    BY <2>2, <2>3, <2>4 DEF Inv, StraysCounted, TypeOK
<1> QED
  BY <1>1, InvHolds, PTL

\* No cleanup, of the sweep or of a starting instance, takes a row away from the
\* instance that works on it (ClaimsHeld).
THEOREM ClaimsAreHeld == Spec => []ClaimsHeld
<1>1. Inv => ClaimsHeld
  BY DEF Inv, Kept, ClaimsHeld
<1> QED
  BY <1>1, InvHolds, PTL

\* What every other step does to rows: it writes new ones, copies acknowledgements,
\* fails claimed rows and drops claims, and gives no row to an instance.
Housekeeping ==
  /\ \A m \in Message :
       /\ \/ ack'[m] = ack[m]
          \/ ack[m] = "processing" /\ ack'[m] = "none"
       /\ \/ status'[m] = status[m]
          \/ status[m] = "absent" /\ status'[m] = "pending"
          \/ ack[m] = "completed" /\ status'[m] = "completed"
          \/ status[m] = "pending" /\ ack[m] = "processing" /\ status'[m] = "failed"
  /\ \A c \in Slot : Held(c)' \subseteq Held(c)
  /\ stopFailures' >= stopFailures

RowStep == Housekeeping \/ \E i \in Slot : OwnRows(i)

\* Every step is of one of the two kinds.
LEMMA StepKinds ==
  ASSUME Inv, [Next]_vars
  PROVE  RowStep
<1> USE DEF Inv, RowStep, storeVars, claimVars, hostVars, countVars
<1>1. ASSUME NEW m \in Message, Write(m) PROVE RowStep
  <2>1. box' = box /\ ack' = ack /\ stopFailures' = stopFailures
    BY <1>1 DEF Write, Insert
  <2>2. \A n \in Message :
          \/ status'[n] = status[n]
          \/ status[n] = "absent" /\ status'[n] = "pending"
          \/ ack[n] = "completed" /\ status'[n] = "completed"
    BY <1>1, SessionAssumption DEF Write, Insert, TypeOK
  <2> QED
    BY <2>1, <2>2 DEF Housekeeping, Held, TypeOK
<1>2. ASSUME NEW m \in Message, Restart(m) PROVE RowStep
  <2>1. box' = box /\ ack' = ack /\ stopFailures' = stopFailures
    BY <1>2 DEF Restart, Insert
  <2>2. \A n \in Message :
          \/ status'[n] = status[n]
          \/ status[n] = "absent" /\ status'[n] = "pending"
          \/ ack[n] = "completed" /\ status'[n] = "completed"
    BY <1>2, SessionAssumption DEF Restart, Insert, TypeOK
  <2> QED
    BY <2>1, <2>2 DEF Housekeeping, Held, TypeOK
<1>3. CASE Kill
  BY <1>3 DEF Kill, Fault, Housekeeping, Held, TypeOK
<1>4. ASSUME NEW c \in Slot, SpawnDone(c) PROVE RowStep
  <2>1. /\ box'[c].batch = {} /\ box'[c].follow = {} /\ box'[c].late = {}
        /\ \A d \in Slot \ {c} : box'[d] = box[d]
    BY <1>4 DEF SpawnDone, NoBox, TypeOK
  <2>2. ack' = ack /\ status' = status /\ stopFailures' = stopFailures
    BY <1>4 DEF SpawnDone
  <2> QED
    BY <2>1, <2>2 DEF Housekeeping, Held, TypeOK
<1>5. CASE SpawnFails
  BY <1>5 DEF SpawnFails, Fault, Housekeeping, Held, TypeOK
<1>6. CASE Close
  BY <1>6 DEF Close, Housekeeping, Held, TypeOK
<1>7. CASE SweepTick
  <2>1. box' = box /\ ack' = ack /\ stopFailures' = stopFailures
    BY <1>7 DEF SweepTick
  <2>2. \A n \in Message :
          \/ status'[n] = status[n]
          \/ status[n] = "absent" /\ status'[n] = "pending"
          \/ ack[n] = "completed" /\ status'[n] = "completed"
    BY <1>7, SessionAssumption DEF SweepTick, TypeOK
  <2> QED
    BY <2>1, <2>2 DEF Housekeeping, Held, TypeOK
<1>8. CASE Sweep \/ StopDone \/ StopFails
  <2>1. Cleanup /\ \A d \in Slot : Held(d)' \subseteq Held(d)
    BY <1>8, HostCleanup DEF Cleanup, Deaths, NoBox, Held
  <2> QED
    BY <2>1 DEF Cleanup, Housekeeping
<1>9. CASE HostRestart
  <2>1. \A d \in Slot : Held(d)' \subseteq Held(d)
    BY <1>9, RestartDeaths DEF Deaths, NoBox, Held
  <2> QED
    BY <1>9, <2>1, RestartDeaths DEF Housekeeping
<1>10. ASSUME NEW c \in Slot, Boot(c) PROVE RowStep
  BY <1>10, BootRows DEF Housekeeping, TypeOK
<1>11. ASSUME NEW c \in Slot, Crash(c) PROVE RowStep
  <2>1. \A d \in Slot : Held(d)' \subseteq Held(d)
    BY <1>11, DieDeaths DEF Crash, Deaths, NoBox, Held
  <2> QED
    BY <1>11, <2>1 DEF Crash, Housekeeping, TypeOK
<1>12. ASSUME NEW m \in Message, ClaimAges(m) PROVE RowStep
  BY <1>12 DEF ClaimAges, Housekeeping, Held, TypeOK
<1>13. CASE HeartbeatExpires
  BY <1>13 DEF HeartbeatExpires, Housekeeping, Held, TypeOK
<1>14. ASSUME NEW m \in Message, BackoffElapses(m) PROVE RowStep
  BY <1>14 DEF BackoffElapses, Housekeeping, Held, TypeOK
<1>15. ASSUME NEW c \in Slot, Work(c) PROVE RowStep
  BY <1>15, WorkOwnRows
<1>16. CASE UNCHANGED vars
  BY <1>16 DEF vars, Housekeeping, Held, TypeOK
<1> QED
  BY <1>1, <1>2, <1>3, <1>4, <1>5, <1>6, <1>7, <1>8, <1>9, <1>10, <1>11,
     <1>12, <1>13, <1>14, <1>15, <1>16
     DEF Next, HostStep, BoxStep, Work, Time

\* No row is taken for a second turn: what an instance newly holds, no live one
\* has dealt with (NoSecondTurn).
THEOREM RowsAreTakenOnce == Spec => NoSecondTurn
<1>1. Inv /\ [Next]_vars =>
        [\A c \in Slot : \A m \in Held(c)' \ Held(c) :
           \A d \in Live' : m \notin box[d].dealt \/ stopFailures > 0]_vars
  <2> SUFFICES ASSUME Inv, [Next]_vars, NEW c \in Slot, NEW m \in Held(c)' \ Held(c),
                      NEW d \in Live', stopFailures = 0
               PROVE  m \notin box[d].dealt
    BY DEF Inv, TypeOK
  <2>1. PICK i \in Slot : OwnRows(i)
    BY StepKinds DEF RowStep, Housekeeping
  <2>2. i = c
    BY <2>1 DEF OwnRows, Held
  <2>3. m \in box[c].read /\ m \in Message
    BY <2>1, <2>2 DEF OwnRows, Held, Box
  <2>4. ack[m] = "none"
    BY <2>3 DEF Inv, ReadFresh
  <2> QED
    BY <2>3, <2>4 DEF Inv, Kept, Live
<1> QED
  BY <1>1, InvHolds, PTL DEF Spec, NoSecondTurn

\* A row is completed only by an instance that has dealt with it
\* (NothingSkippedSilently).
THEOREM CompletionIsEarned == Spec => NothingSkippedSilently
<1>1. Inv /\ [Next]_vars =>
        [\A m \in Message :
           (ack'[m] = "completed" /\ ack[m] # "completed")
             => \E c \in Live' : m \in box'[c].dealt]_vars
  <2> SUFFICES ASSUME Inv, [Next]_vars, NEW m \in Message,
                      ack'[m] = "completed", ack[m] # "completed"
               PROVE  \E c \in Live' : m \in box'[c].dealt
    OBVIOUS
  <2>1. PICK i \in Slot : OwnRows(i)
    BY StepKinds DEF RowStep, Housekeeping
  <2>2. i \in Live' /\ m \in box'[i].dealt
    BY <2>1 DEF OwnRows, Live
  <2> QED
    BY <2>2
<1> QED
  BY <1>1, InvHolds, PTL DEF Spec, NothingSkippedSilently

\* What an instance has acknowledged as completed is never retried or failed, and
\* stays acknowledged unless a stray that read it before claims it
\* (CompletionSticks).
THEOREM CompletionIsFinal == Spec => CompletionSticks
<1>1. Inv /\ [Next]_vars =>
        [\A m \in Message : ack[m] = "completed" =>
           /\ \/ ack'[m] = "completed"
              \/ stopFailures > 0 /\ \E c \in Live : m \in box[c].read
           /\ status'[m] \in {status[m], "completed"}]_vars
  <2> SUFFICES ASSUME Inv, [Next]_vars, NEW m \in Message, ack[m] = "completed"
               PROVE  /\ \/ ack'[m] = "completed"
                         \/ stopFailures > 0 /\ \E c \in Live : m \in box[c].read
                      /\ status'[m] \in {status[m], "completed"}
    OBVIOUS
  <2>1. CASE Housekeeping
    BY <2>1 DEF Housekeeping, Inv, RowsExist
  <2>2. ASSUME NEW i \in Slot, OwnRows(i)
        PROVE  /\ \/ ack'[m] = "completed"
                  \/ stopFailures > 0 /\ \E c \in Live : m \in box[c].read
               /\ status'[m] = status[m]
    <3>1. CASE m \in box[i].read
      <4>1. stopFailures > 0
        BY <3>1 DEF Inv, ReadFresh, TypeOK
      <4>2. i \in Live
        BY <2>2 DEF OwnRows, Live
      <4> QED
        BY <2>2, <3>1, <4>1, <4>2 DEF OwnRows
    <3>2. CASE m \notin box[i].read
      BY <2>2, <3>2 DEF OwnRows
    <3> QED
      BY <3>1, <3>2
  <2> QED
    BY <2>1, <2>2, StepKinds DEF RowStep
<1> QED
  BY <1>1, InvHolds, PTL DEF Spec, CompletionSticks

\* A row the host has given up stays failed: no instance that still lived claims
\* or completes it (FailedIsFinal).
THEOREM GivingUpIsFinal == Spec => FailedIsFinal
<1>1. Inv /\ [Next]_vars =>
        [\A m \in Message : (status[m] = "failed" /\ stopFailures' = 0) =>
           /\ status'[m] = "failed"
           /\ ack'[m] # "completed"]_vars
  <2> SUFFICES ASSUME Inv, [Next]_vars, NEW m \in Message,
                      status[m] = "failed", stopFailures' = 0
               PROVE  status'[m] = "failed" /\ ack'[m] # "completed"
    OBVIOUS
  <2>1. stopFailures = 0
    BY StepKinds DEF RowStep, Housekeeping, OwnRows, Inv, TypeOK
  <2>2. ack[m] # "completed" /\ \A c \in Slot : m \notin Held(c)
    BY <2>1 DEF Inv, FailedUnheld
  <2>3. CASE Housekeeping
    BY <2>2, <2>3 DEF Housekeeping
  <2>4. CASE \E i \in Slot : OwnRows(i)
    BY <2>2, <2>4 DEF OwnRows
  <2> QED
    BY <2>3, <2>4, StepKinds DEF RowStep
<1> QED
  BY <1>1, InvHolds, PTL DEF Spec, FailedIsFinal
=============================================================================
