--------------------------- MODULE Delivery_proofs ---------------------------
(***************************************************************************)
(* Proofs about Delivery, for every set of sessions, rows and channels,    *)
(* every retry budget and every number of faults.                          *)
(***************************************************************************)
EXTENDS Delivery, TLAPS

\* Counting one more for a row keeps a counter a function into Nat.
LEMMA CountOne ==
  ASSUME NEW f \in [Message -> Nat], NEW m \in Message
  PROVE  [f EXCEPT ![m] = @ + 1] \in [Message -> Nat]
  OBVIOUS

\* The part of the state Continue writes keeps its types.
LEMMA ContinueType ==
  ASSUME TypeOK, NEW p \in Poll, NEW s \in Session,
         NEW rows \in SUBSET Message, Continue(p, s, rows)
  PROVE  /\ inflight' \subseteq Session
         /\ batch' \in [Poll -> SUBSET Message]
         /\ sending' \in [Poll -> Message \cup {NoMessage}]
         /\ call' \in [Poll -> {"none", "sent", "effected"}]
<1>1. CASE rows = {} /\ inflight' = inflight \ {s}
           /\ sending' = [sending EXCEPT ![p] = NoMessage]
           /\ batch' = [batch EXCEPT ![p] = {}]
           /\ call' = [call EXCEPT ![p] = "none"]
  BY <1>1 DEF TypeOK
<1>2. CASE \E m \in rows : inflight' = inflight \cup {s}
           /\ sending' = [sending EXCEPT ![p] = m]
           /\ batch' = [batch EXCEPT ![p] = rows \ {m}]
           /\ call' = [call EXCEPT ![p] = "sent"]
  BY <1>2 DEF TypeOK
<1> QED
  BY <1>1, <1>2 DEF Continue

\* Continue keeps the drains exclusive when no other chain is draining the
\* session, its rows are unrecorded, and no other session's record changes.
LEMMA ContinueExclusive ==
  ASSUME TypeOK, DrainExclusive, NEW p \in Poll, NEW s \in Session,
         NEW rows \in SUBSET Message, Continue(p, s, rows),
         written' = written,
         \A q \in Poll \ {p} : sending[q] # NoMessage => SessionOf[sending[q]] # s,
         \A n \in rows : SessionOf[n] = s /\ n \in written /\ delivered'[n] = "none",
         \A n \in Message : SessionOf[n] # s => delivered'[n] = delivered[n]
  PROVE  DrainExclusive'
<1> SUFFICES ASSUME NEW q \in Poll
             PROVE  /\ call'[q] = "none" <=> sending'[q] = NoMessage
                    /\ sending'[q] # NoMessage =>
                         /\ sending'[q] \in written
                         /\ SessionOf[sending'[q]] \in inflight'
                         /\ delivered'[sending'[q]] = "none"
                         /\ \A r \in Poll \ {q} : sending'[r] # NoMessage =>
                              SessionOf[sending'[r]] # SessionOf[sending'[q]]
                         /\ \A n \in batch'[q] :
                              /\ n \in written /\ SessionOf[n] = SessionOf[sending'[q]]
                              /\ delivered'[n] = "none" /\ n # sending'[q]
  BY DEF DrainExclusive
<1>1. \A r \in Poll \ {p} : /\ sending'[r] = sending[r] /\ call'[r] = call[r]
                            /\ batch'[r] = batch[r]
  BY DEF TypeOK, Continue
<1>2. \A r \in Poll \ {p} :
        /\ call'[r] = "none" <=> sending'[r] = NoMessage
        /\ sending'[r] # NoMessage =>
             /\ sending'[r] \in written /\ sending'[r] \in Message
             /\ SessionOf[sending'[r]] \in inflight /\ SessionOf[sending'[r]] # s
             /\ delivered'[sending'[r]] = "none"
  <2> SUFFICES ASSUME NEW r \in Poll \ {p}
               PROVE  /\ call[r] = "none" <=> sending[r] = NoMessage
                      /\ sending[r] # NoMessage =>
                           /\ sending[r] \in written /\ sending[r] \in Message
                           /\ SessionOf[sending[r]] \in inflight
                           /\ SessionOf[sending[r]] # s
                           /\ delivered'[sending[r]] = "none"
    BY <1>1
  <2> QED
    BY DEF TypeOK, DrainExclusive
<1>3. \A r \in Poll \ {p}, n \in Message :
        sending'[r] # NoMessage /\ n \in batch'[r] =>
          /\ n \in written /\ SessionOf[n] = SessionOf[sending'[r]]
          /\ delivered'[n] = "none" /\ n # sending'[r]
  <2> SUFFICES ASSUME NEW r \in Poll \ {p}, NEW n \in Message,
                      sending[r] # NoMessage, n \in batch[r]
               PROVE  /\ n \in written /\ SessionOf[n] = SessionOf[sending[r]]
                      /\ delivered'[n] = "none" /\ n # sending[r]
    BY <1>1
  <2>1. /\ n \in written /\ SessionOf[n] = SessionOf[sending[r]]
        /\ delivered[n] = "none" /\ n # sending[r]
    BY DEF DrainExclusive
  <2> QED
    BY <2>1
<1>4. \A r \in Poll : batch'[r] \in SUBSET Message
  BY ContinueType
<1>5. CASE rows = {}
  <2>1. sending'[p] = NoMessage /\ call'[p] = "none" /\ inflight' = inflight \ {s}
    BY <1>5 DEF TypeOK, Continue
  <2>2. CASE q = p
    BY <2>1, <2>2
  <2>3. CASE q # p
    <3>1. \A r \in Poll \ {q} : sending'[r] # NoMessage /\ sending'[q] # NoMessage =>
            SessionOf[sending'[r]] # SessionOf[sending'[q]]
      BY <1>1, <2>1, <2>3 DEF DrainExclusive
    <3> QED
      BY <1>2, <1>3, <1>4, <2>1, <2>3, <3>1
  <2> QED
    BY <2>2, <2>3
<1>6. CASE rows # {}
  <2>1. PICK m \in rows : /\ inflight' = inflight \cup {s}
                          /\ sending' = [sending EXCEPT ![p] = m]
                          /\ batch' = [batch EXCEPT ![p] = rows \ {m}]
                          /\ call' = [call EXCEPT ![p] = "sent"]
    BY <1>6 DEF Continue
  <2>2. /\ sending'[p] = m /\ batch'[p] = rows \ {m} /\ call'[p] = "sent"
        /\ m \in Message /\ m # NoMessage
        /\ inflight' = inflight \cup {s} /\ s \in inflight'
    BY <2>1, DeliveryAssumption DEF TypeOK
  <2>3. CASE q = p
    BY <1>2, <2>2, <2>3
  <2>4. CASE q # p
    <3>1. \A r \in Poll \ {q} : sending'[r] # NoMessage /\ sending'[q] # NoMessage =>
            SessionOf[sending'[r]] # SessionOf[sending'[q]]
      BY <1>1, <1>2, <2>2, <2>4 DEF DrainExclusive
    <3> QED
      BY <1>2, <1>3, <1>4, <2>2, <2>4, <3>1
  <2> QED
    BY <2>3, <2>4
<1> QED
  BY <1>5, <1>6

Inv == TypeOK /\ DrainExclusive

\* A chain whose call is open has a row of its own with the adapter.
LEMMA OpenCall ==
  ASSUME Inv, NEW p \in Poll, call[p] # "none"
  PROVE  /\ sending[p] \in Message /\ SessionOf[sending[p]] \in Session
         /\ delivered[sending[p]] = "none" /\ sending[p] \in written
         /\ batch[p] \in SUBSET Message
         /\ \A q \in Poll \ {p} : sending[q] # NoMessage =>
              SessionOf[sending[q]] # SessionOf[sending[p]]
         /\ \A n \in batch[p] :
              /\ n \in written /\ SessionOf[n] = SessionOf[sending[p]]
              /\ delivered[n] = "none" /\ n # sending[p]
<1>1. sending[p] # NoMessage
  BY DEF Inv, DrainExclusive
<1>2. sending[p] \in Message
  BY <1>1 DEF Inv, TypeOK
<1>3. SessionOf[sending[p]] \in Session /\ batch[p] \in SUBSET Message
  BY <1>2, DeliveryAssumption DEF Inv, TypeOK
<1> QED
  BY <1>1, <1>2, <1>3 DEF Inv, DrainExclusive

\* Every way a call settles records at most the settled row, and goes on with
\* the rest of the batch or with none of it.
LEMMA SettleStep ==
  ASSUME Inv, NEW p \in Poll, call[p] # "none", NEW rows \in SUBSET batch[p],
         Continue(p, SessionOf[sending[p]], rows), written' = written,
         \A n \in Message \ {sending[p]} : delivered'[n] = delivered[n]
  PROVE  DrainExclusive'
<1> DEFINE s == SessionOf[sending[p]]
<1>1. /\ s \in Session /\ rows \in SUBSET Message /\ sending[p] \in Message
      /\ \A q \in Poll \ {p} : sending[q] # NoMessage => SessionOf[sending[q]] # s
  BY OpenCall
<1>2. ASSUME NEW n \in rows
      PROVE  SessionOf[n] = s /\ n \in written /\ delivered'[n] = "none"
  <2>1. /\ n \in written /\ SessionOf[n] = s /\ delivered[n] = "none"
        /\ n \in Message \ {sending[p]}
    BY <1>1, OpenCall
  <2> QED
    BY <2>1
<1>3. \A n \in Message : SessionOf[n] # s => delivered'[n] = delivered[n]
  OBVIOUS
<1>4. Continue(p, s, rows)
  OBVIOUS
<1> HIDE DEF s
<1> QED
  BY <1>1, <1>2, <1>3, <1>4, ContinueExclusive DEF Inv

\* Inv is inductive: the types need the drains to be exclusive, because only a
\* row that is with an adapter is ever recorded or counted.
LEMMA InvStep ==
  ASSUME Inv, [Next]_vars
  PROVE  Inv'
<1>0. TypeOK /\ DrainExclusive
  BY DEF Inv
<1>1. ASSUME NEW s \in Session, SetRunning(s) PROVE Inv'
  BY <1>0, <1>1 DEF Inv, TypeOK, DrainExclusive, SetRunning, hostVars, historyVars
<1>2. ASSUME NEW m \in Message, Write(m) PROVE Inv'
  <2>1. TypeOK'
    BY <1>0, <1>2 DEF TypeOK, Write, hostVars, historyVars
  <2>2. DrainExclusive'
    BY <1>0, <1>2 DEF DrainExclusive, Write, hostVars
  <2> QED
    BY <2>1, <2>2 DEF Inv
<1>3. ASSUME NEW m \in Message, BecomeDue(m) PROVE Inv'
  BY <1>0, <1>3 DEF Inv, TypeOK, DrainExclusive, BecomeDue, hostVars, historyVars
<1>4. ASSUME NEW p \in Poll, Tick(p) PROVE Inv'
  BY <1>0, <1>4 DEF Inv, TypeOK, DrainExclusive, Tick, worldVars, historyVars
<1>5. ASSUME NEW p \in Poll, DrainThrows(p) PROVE Inv'
  BY <1>0, <1>5 DEF Inv, TypeOK, DrainExclusive, DrainThrows, worldVars, historyVars
<1>6. ASSUME NEW p \in Poll, Effect(p) PROVE Inv'
  <2>1. call[p] # "none"
    BY <1>6 DEF Effect
  <2>2. TypeOK'
    <3>1. sending[p] \in Message
      BY <2>1, OpenCall
    <3>2. effects' \in [Message -> Nat]
      <4>1. effects \in [Message -> Nat] /\ effects' = [effects EXCEPT ![sending[p]] = @ + 1]
        BY <1>0, <1>6 DEF TypeOK, Effect
      <4> QED
        BY <4>1, <3>1, CountOne
    <3>3. call' \in [Poll -> {"none", "sent", "effected"}]
      BY <1>0, <1>6 DEF TypeOK, Effect
    <3> QED
      BY <1>0, <1>6, <3>2, <3>3 DEF TypeOK, Effect, worldVars
  <2>3. \A q \in Poll : call'[q] = "none" <=> call[q] = "none"
    BY <1>0, <1>6 DEF TypeOK, Effect
  <2>4. DrainExclusive'
    BY <1>0, <1>6, <2>3 DEF DrainExclusive, Effect, worldVars
  <2> QED
    BY <2>2, <2>4 DEF Inv
<1>7. ASSUME NEW p \in Poll, Resolve(p) PROVE Inv'
  <2>1. call[p] # "none"
    BY <1>7 DEF Resolve
  <2>2. /\ sending[p] \in Message /\ SessionOf[sending[p]] \in Session
        /\ batch[p] \in SUBSET Message
    BY <2>1, OpenCall
  <2>3. Continue(p, SessionOf[sending[p]], batch[p]) /\ written' = written
    BY <1>7 DEF Resolve, worldVars
  <2>4. /\ delivered' \in [Message -> {"none", "delivered", "failed"}]
        /\ \A n \in Message \ {sending[p]} : delivered'[n] = delivered[n]
    BY <1>0, <1>7, <2>2 DEF TypeOK, Resolve, Record
  <2>5. attempts' \in [Message -> Nat]
    BY <1>0, <1>7 DEF TypeOK, Resolve
  <2>5a. \A n \in Message : attempts'[n] < MAX_DELIVERY_ATTEMPTS + unrecorded'[n]
    <3>1. attempts' = [attempts EXCEPT ![sending[p]] = 0] /\ unrecorded' = unrecorded
      BY <1>7 DEF Resolve, historyVars
    <3> QED
      BY <1>0, <3>1, DeliveryAssumption DEF TypeOK
  <2>6. TypeOK'
    BY <1>0, <1>7, <2>2, <2>3, <2>4, <2>5, <2>5a, ContinueType
    DEF TypeOK, Resolve, worldVars, historyVars
  <2>7. DrainExclusive'
    BY <2>1, <2>2, <2>3, <2>4, SettleStep
  <2> QED
    BY <2>6, <2>7 DEF Inv
<1>8. ASSUME NEW p \in Poll, Throw(p) PROVE Inv'
  <2>1. call[p] # "none"
    BY <1>8 DEF Throw
  <2>2. /\ sending[p] \in Message /\ SessionOf[sending[p]] \in Session
        /\ batch[p] \in SUBSET Message
    BY <2>1, OpenCall
  <2>3. Continue(p, SessionOf[sending[p]], batch[p]) /\ written' = written
    BY <1>8 DEF Throw, worldVars
  <2>4. /\ delivered' \in [Message -> {"none", "delivered", "failed"}]
        /\ \A n \in Message \ {sending[p]} : delivered'[n] = delivered[n]
    BY <1>0, <1>8, <2>2 DEF TypeOK, Throw, Record
  <2>5. attempts' \in [Message -> Nat]
    <3>1. /\ attempts \in [Message -> Nat]
          /\ \/ attempts' = [attempts EXCEPT ![sending[p]] = 0]
             \/ attempts' = [attempts EXCEPT ![sending[p]] = @ + 1]
      BY <1>0, <1>8 DEF TypeOK, Throw
    <3> QED
      BY <2>2, <3>1, CountOne
  <2>5a. \A n \in Message : attempts'[n] < MAX_DELIVERY_ATTEMPTS + unrecorded'[n]
    <3>1. /\ unrecorded' = unrecorded
          /\ \/ attempts' = [attempts EXCEPT ![sending[p]] = 0]
             \/ /\ ~(attempts[sending[p]] + 1 >= MAX_DELIVERY_ATTEMPTS)
                /\ attempts' = [attempts EXCEPT ![sending[p]] = @ + 1]
      BY <1>8 DEF Throw
    <3> QED
      BY <1>0, <2>2, <3>1, DeliveryAssumption DEF TypeOK
  <2>6. throws' \in [Message -> Nat] /\ lost' \in [Message -> Nat]
    <3>1. /\ throws \in [Message -> Nat] /\ lost \in [Message -> Nat]
          /\ throws' = [throws EXCEPT ![sending[p]] = @ + 1]
          /\ lost' \in {lost, [lost EXCEPT ![sending[p]] = @ + 1]}
      BY <1>0, <1>8 DEF TypeOK, Throw
    <3> QED
      BY <2>2, <3>1, CountOne
  <2>7. TypeOK'
    BY <1>0, <1>8, <2>2, <2>3, <2>4, <2>5, <2>5a, <2>6, ContinueType
    DEF TypeOK, Throw, worldVars
  <2>8. DrainExclusive'
    BY <2>1, <2>3, <2>4, SettleStep
  <2> QED
    BY <2>7, <2>8 DEF Inv
<1>8a. ASSUME NEW p \in Poll, GiveUpThrows(p) PROVE Inv'
  <2>1. call[p] # "none"
    BY <1>8a DEF GiveUpThrows
  <2>2. /\ sending[p] \in Message /\ SessionOf[sending[p]] \in Session
        /\ {} \in SUBSET Message /\ {} \in SUBSET batch[p]
    BY <2>1, OpenCall
  <2>3. /\ Continue(p, SessionOf[sending[p]], {}) /\ written' = written
        /\ delivered' = delivered
    BY <1>8a DEF GiveUpThrows, worldVars
  <2>4. /\ throws' \in [Message -> Nat] /\ lost' \in [Message -> Nat]
        /\ attempts' \in [Message -> Nat] /\ unrecorded' \in [Message -> Nat]
    <3>1. /\ throws \in [Message -> Nat] /\ lost \in [Message -> Nat]
          /\ attempts \in [Message -> Nat] /\ unrecorded \in [Message -> Nat]
          /\ throws' = [throws EXCEPT ![sending[p]] = @ + 1]
          /\ attempts' = [attempts EXCEPT ![sending[p]] = @ + 1]
          /\ unrecorded' = [unrecorded EXCEPT ![sending[p]] = @ + 1]
          /\ lost' \in {lost, [lost EXCEPT ![sending[p]] = @ + 1]}
      BY <1>0, <1>8a DEF TypeOK, GiveUpThrows
    <3> QED
      BY <2>2, <3>1, CountOne
  <2>5. /\ inflight' \subseteq Session
        /\ batch' \in [Poll -> SUBSET Message]
        /\ sending' \in [Poll -> Message \cup {NoMessage}]
        /\ call' \in [Poll -> {"none", "sent", "effected"}]
    BY <1>0, <2>2, <2>3, ContinueType
  <2>5a. /\ todo' \in [Poll -> SUBSET Session] /\ faults' \in Nat
         /\ effects' = effects /\ restarts' = restarts /\ UNCHANGED worldVars
    BY <1>0, <1>8a DEF TypeOK, GiveUpThrows
  <2>5b. \A n \in Message : attempts'[n] < MAX_DELIVERY_ATTEMPTS + unrecorded'[n]
    <3>1. /\ attempts' = [attempts EXCEPT ![sending[p]] = @ + 1]
          /\ unrecorded' = [unrecorded EXCEPT ![sending[p]] = @ + 1]
      BY <1>8a DEF GiveUpThrows
    <3> QED
      BY <1>0, <2>2, <3>1, DeliveryAssumption DEF TypeOK
  <2>6. TypeOK'
    BY <1>0, <2>3, <2>4, <2>5, <2>5a, <2>5b DEF TypeOK, worldVars
  <2>7. DrainExclusive'
    BY <2>1, <2>2, <2>3, SettleStep
  <2> QED
    BY <2>6, <2>7 DEF Inv
<1>9. ASSUME NEW p \in Poll, NEW s \in Session, Skip(p, s) PROVE Inv'
  BY <1>0, <1>9 DEF Inv, TypeOK, DrainExclusive, Skip, worldVars, historyVars
<1>10. ASSUME NEW p \in Poll, NEW s \in Session, Drain(p, s) PROVE Inv'
  <2>1. /\ Undelivered(s) \in SUBSET Message /\ Undelivered(s) \subseteq written
        /\ \A n \in Undelivered(s) : SessionOf[n] = s /\ delivered[n] = "none"
    BY <1>0 DEF TypeOK, Undelivered
  <2>2. /\ Continue(p, s, Undelivered(s)) /\ delivered' = delivered
        /\ written' = written
    BY <1>10 DEF Drain, worldVars
  <2>3. TypeOK'
    BY <1>0, <1>10, <2>1, <2>2, ContinueType
    DEF TypeOK, Drain, worldVars, historyVars
  <2>4. \A q \in Poll \ {p} : sending[q] # NoMessage => SessionOf[sending[q]] # s
    BY <1>0, <1>10 DEF DrainExclusive, Drain
  <2>5. DrainExclusive'
    BY <1>0, <2>1, <2>2, <2>4, ContinueExclusive
  <2> QED
    BY <2>3, <2>5 DEF Inv
<1>11. ASSUME Restart PROVE Inv'
  <2>1. lost' \in [Message -> Nat]
    BY <1>0, <1>11 DEF TypeOK, Restart
  <2> QED
    BY <1>0, <1>11, <2>1, DeliveryAssumption DEF Inv, TypeOK, DrainExclusive, Restart
<1>12. CASE UNCHANGED vars
  BY <1>0, <1>12 DEF Inv, TypeOK, DrainExclusive, vars, worldVars, hostVars, historyVars
<1> QED
  BY <1>1, <1>2, <1>3, <1>4, <1>5, <1>6, <1>7, <1>8, <1>8a, <1>9, <1>10, <1>11, <1>12
  DEF Next

LEMMA InvAlways == Spec => []Inv
<1>1. Init => Inv
  BY DeliveryAssumption DEF Init, Inv, TypeOK, DrainExclusive
<1> QED
  BY <1>1, InvStep, PTL DEF Spec

\* The value of every variable stays in its type.
THEOREM TypeCorrect == Spec => []TypeOK
  BY InvAlways, PTL DEF Inv

\* The inflightDeliveries guard does its work: the two poll chains never have
\* rows of one session with an adapter at the same time.
THEOREM ExclusiveDrains == Spec => []DrainExclusive
  BY InvAlways, PTL DEF Inv

-----------------------------------------------------------------------------
(* No duplicate without a lost outcome.                                    *)

\* Continue never leaves the chain in a call that took effect.
LEMMA ContinueCalls ==
  ASSUME TypeOK, NEW p \in Poll, NEW s, NEW rows, Continue(p, s, rows)
  PROVE  /\ call'[p] # "effected"
         /\ \A q \in Poll \ {p} : sending'[q] = sending[q] /\ call'[q] = call[q]
  BY DEF TypeOK, Continue

\* The bound on one row, with the account as a Boolean.
Bounded(m) == effects[m] <= lost[m] + (IF Accounted(m) THEN 1 ELSE 0)

\* A step that leaves the counts of a row alone keeps its bound if it keeps
\* the row accounted for.
LEMMA SameCounts ==
  ASSUME TypeOK, NEW m \in Message, Bounded(m),
         effects'[m] = effects[m], lost'[m] = lost[m], Accounted(m) => Accounted(m)'
  PROVE  Bounded(m)'
<1>1. effects[m] \in Nat /\ lost[m] \in Nat
  BY DEF TypeOK
<1>2. CASE Accounted(m)
  BY <1>1, <1>2 DEF Bounded
<1>3. CASE ~Accounted(m)
  BY <1>1, <1>3 DEF Bounded
<1> QED
  BY <1>2, <1>3

LEMMA BoundedStep ==
  ASSUME Inv, [Next]_vars, NEW m \in Message, Bounded(m)
  PROVE  Bounded(m)'
<1>0. TypeOK /\ DrainExclusive /\ effects[m] \in Nat /\ lost[m] \in Nat
  BY DEF Inv, TypeOK
<1>1. CASE /\ UNCHANGED <<delivered, sending, call, effects, lost>>
  BY <1>1 DEF Bounded, Accounted
<1>2. ASSUME NEW p \in Poll, Effect(p) PROVE Bounded(m)'
  <2>1. /\ call[p] = "sent" /\ call'[p] = "effected" /\ sending' = sending
        /\ \A q \in Poll \ {p} : call'[q] = call[q]
        /\ delivered' = delivered /\ lost' = lost
        /\ effects' = [effects EXCEPT ![sending[p]] = @ + 1]
    BY <1>0, <1>2 DEF Effect, TypeOK
  <2>2. CASE sending[p] = m
    <3>1. ~Accounted(m)
      <4>1. delivered[m] = "none"
        BY <2>1, <2>2, OpenCall
      <4>2. \A q \in Poll \ {p} : sending[q] # m
        BY <2>1, <2>2, OpenCall, DeliveryAssumption
      <4> QED
        BY <2>1, <4>1, <4>2 DEF Accounted
    <3>2. Accounted(m)'
      BY <2>1, <2>2 DEF Accounted
    <3>3. effects'[m] = effects[m] + 1
      BY <1>0, <2>1, <2>2 DEF TypeOK
    <3> QED
      BY <1>0, <2>1, <3>1, <3>2, <3>3 DEF Bounded
  <2>3. CASE sending[p] # m
    <3>1. effects'[m] = effects[m]
      BY <1>0, <2>1, <2>3 DEF TypeOK
    <3>2. Accounted(m) => Accounted(m)'
      BY <2>1, <2>3 DEF Accounted
    <3> QED
      BY <1>0, <2>1, <3>1, <3>2, SameCounts
  <2> QED
    BY <2>2, <2>3
<1>3. ASSUME NEW p \in Poll, Resolve(p) PROVE Bounded(m)'
  <2>1. /\ call[p] # "none" /\ Continue(p, SessionOf[sending[p]], batch[p])
        /\ effects' = effects /\ lost' = lost
    BY <1>3 DEF Resolve, historyVars
  <2>2. /\ sending[p] = m => delivered'[m] = "delivered"
        /\ sending[p] # m => delivered'[m] = delivered[m]
    BY <1>0, <1>3, <2>1, OpenCall DEF TypeOK, Resolve, Record
  <2>3. Accounted(m) => Accounted(m)'
    BY <1>0, <2>1, <2>2, ContinueCalls DEF Accounted
  <2> QED
    BY <1>0, <2>1, <2>3, SameCounts
<1>4. ASSUME NEW p \in Poll, Throw(p) \/ GiveUpThrows(p) PROVE Bounded(m)'
  <2>0. PICK rows : Continue(p, SessionOf[sending[p]], rows)
    BY <1>4 DEF Throw, GiveUpThrows
  <2>1. /\ call[p] # "none" /\ effects' = effects
        /\ lost' = IF call[p] = "effected" THEN [lost EXCEPT ![sending[p]] = @ + 1]
                                           ELSE lost
    BY <1>4 DEF Throw, GiveUpThrows
  <2>2. delivered[m] = "delivered" => delivered'[m] = "delivered"
    BY <1>0, <1>4, <2>1, OpenCall DEF TypeOK, Throw, GiveUpThrows, Record
  <2>3. CASE sending[p] = m /\ call[p] = "effected"
    <3>1. lost'[m] = lost[m] + 1
      BY <1>0, <2>1, <2>3 DEF TypeOK
    <3>2. effects'[m] <= lost'[m]
      BY <1>0, <2>1, <2>3, <3>1 DEF Bounded, Accounted
    <3>3. CASE Accounted(m)'
      BY <1>0, <2>1, <3>1, <3>2, <3>3 DEF Bounded
    <3>4. CASE ~Accounted(m)'
      BY <1>0, <3>1, <3>2, <3>4, <2>1 DEF Bounded
    <3> QED
      BY <3>3, <3>4
  <2>4. CASE ~(sending[p] = m /\ call[p] = "effected")
    <3>1. lost'[m] = lost[m]
      BY <1>0, <2>1, <2>4 DEF TypeOK
    <3>2. Accounted(m) => Accounted(m)'
      BY <1>0, <2>0, <2>1, <2>2, <2>4, ContinueCalls DEF Accounted
    <3> QED
      BY <1>0, <2>1, <3>1, <3>2, SameCounts
  <2> QED
    BY <2>3, <2>4
<1>5. ASSUME NEW p \in Poll, NEW s \in Session, Drain(p, s) PROVE Bounded(m)'
  <2>1. /\ call[p] = "none" /\ Continue(p, s, Undelivered(s))
        /\ delivered' = delivered /\ effects' = effects /\ lost' = lost
    BY <1>0, <1>5 DEF Drain, DrainExclusive, historyVars
  <2>2. Accounted(m) => Accounted(m)'
    BY <1>0, <2>1, ContinueCalls DEF Accounted
  <2> QED
    BY <1>0, <2>1, <2>2, SameCounts
<1>6. ASSUME Restart PROVE Bounded(m)'
  <2>1. /\ delivered' = delivered /\ effects' = effects
        /\ lost'[m] = IF \E p \in Poll : call[p] = "effected" /\ sending[p] = m
                      THEN lost[m] + 1 ELSE lost[m]
    BY <1>6 DEF Restart
  <2>2. CASE \E p \in Poll : call[p] = "effected" /\ sending[p] = m
    <3>1. delivered[m] = "none"
      BY <2>2, OpenCall
    <3>2. effects'[m] <= lost'[m] /\ lost'[m] \in Nat /\ effects'[m] \in Nat
      BY <1>0, <2>1, <2>2 DEF Bounded
    <3>3. CASE Accounted(m)'
      BY <3>2, <3>3 DEF Bounded
    <3>4. CASE ~Accounted(m)'
      BY <3>2, <3>4 DEF Bounded
    <3> QED
      BY <3>3, <3>4
  <2>3. CASE ~\E p \in Poll : call[p] = "effected" /\ sending[p] = m
    <3>1. lost'[m] = lost[m] /\ (Accounted(m) => Accounted(m)')
      BY <2>1, <2>3 DEF Accounted
    <3> QED
      BY <1>0, <2>1, <3>1, SameCounts
  <2> QED
    BY <2>2, <2>3
<1> QED
  BY <1>1, <1>2, <1>3, <1>4, <1>5, <1>6
  DEF Next, SetRunning, Write, BecomeDue, Tick, DrainThrows, Skip, vars, worldVars,
      hostVars, historyVars

\* A row takes effect again only after the outcome of an earlier call was lost:
\* whatever the sessions, rows and faults, the two poll chains alone never
\* deliver a message twice.
THEOREM NoDuplicateDelivery == Spec => []NoDuplicate
<1> DEFINE AllBounded == \A m \in Message : Bounded(m)
<1>1. Init => AllBounded
  BY DEF Init, Bounded, Accounted
<1>2. Inv /\ AllBounded /\ [Next]_vars => AllBounded'
  BY BoundedStep
<1>3. AllBounded => NoDuplicate
  BY DEF Bounded, NoDuplicate
<1> HIDE DEF AllBounded
<1> QED
  BY <1>1, <1>2, <1>3, InvAlways, PTL DEF Spec

-----------------------------------------------------------------------------
(* The record is final.                                                    *)

\* Once a row is recorded its record never changes and nothing is sent for it.
THEOREM RecordIsFinal == Spec => NothingAfterRecord
<1> DEFINE Step == \A m \in Message : delivered[m] # "none" =>
                     delivered'[m] = delivered[m] /\ effects'[m] = effects[m]
<1>1. Inv /\ [Next]_vars => [Step]_vars
  <2> SUFFICES ASSUME Inv, [Next]_vars, NEW m \in Message, delivered[m] # "none"
               PROVE  delivered'[m] = delivered[m] /\ effects'[m] = effects[m]
    OBVIOUS
  <2>0. TypeOK
    BY DEF Inv
  <2>1. CASE delivered' = delivered /\ effects' = effects
    BY <2>1
  <2>2. ASSUME NEW p \in Poll, Effect(p)
        PROVE  delivered'[m] = delivered[m] /\ effects'[m] = effects[m]
    <3>1. sending[p] # m
      BY <2>2, OpenCall DEF Effect
    <3> QED
      BY <2>0, <2>2, <3>1 DEF TypeOK, Effect
  <2>3. ASSUME NEW p \in Poll, Resolve(p)
        PROVE  delivered'[m] = delivered[m] /\ effects'[m] = effects[m]
    <3>1. sending[p] # m
      BY <2>3, OpenCall DEF Resolve
    <3> QED
      BY <2>0, <2>3, <3>1 DEF TypeOK, Resolve, Record, historyVars
  <2>4. ASSUME NEW p \in Poll, Throw(p) \/ GiveUpThrows(p)
        PROVE  delivered'[m] = delivered[m] /\ effects'[m] = effects[m]
    <3>1. sending[p] # m
      BY <2>4, OpenCall DEF Throw, GiveUpThrows
    <3> QED
      BY <2>0, <2>4, <3>1 DEF TypeOK, Throw, GiveUpThrows, Record
  <2> QED
    BY <2>1, <2>2, <2>3, <2>4
    DEF Next, SetRunning, Write, BecomeDue, Tick, DrainThrows, Skip, Drain, Restart,
        vars, worldVars, hostVars, historyVars
<1> QED
  BY <1>1, InvAlways, PTL DEF Spec, NothingAfterRecord

-----------------------------------------------------------------------------
(* The retry budget.                                                       *)

\* The most a row may have thrown, short of give-ups, in the lives that are over.
Spent == (MAX_DELIVERY_ATTEMPTS - 1) * restarts

\* The strengthening of RetryBudget.  While the row is not recorded, the throws
\* of the current life are those deliveryAttempts has counted, and those beyond
\* the budget are the give-ups that could not be written.
BudgetOf(m) ==
  /\ attempts[m] <= throws[m]
  /\ delivered[m] = "failed" => throws[m] >= MAX_DELIVERY_ATTEMPTS
  /\ delivered[m] = "none" => throws[m] <= Spent + unrecorded[m] + attempts[m]
  /\ delivered[m] # "failed" =>
       throws[m] <= Spent + unrecorded[m] + MAX_DELIVERY_ATTEMPTS - 1
  /\ delivered[m] = "failed" => throws[m] <= Spent + unrecorded[m] + MAX_DELIVERY_ATTEMPTS

LEMMA SpentType ==
  ASSUME TypeOK PROVE Spent \in Nat
  BY DeliveryAssumption DEF TypeOK, Spent

LEMMA SpentMore ==
  ASSUME TypeOK, restarts' = restarts + 1
  PROVE  Spent' = Spent + (MAX_DELIVERY_ATTEMPTS - 1)
<1>1. MAX_DELIVERY_ATTEMPTS - 1 \in Nat /\ restarts \in Nat
  BY DeliveryAssumption DEF TypeOK
<1>2. \A k, n \in Nat : k * (n + 1) = k * n + k
  OBVIOUS
<1> QED
  BY <1>1, <1>2 DEF Spent

LEMMA BudgetStep ==
  ASSUME Inv, [Next]_vars, NEW m \in Message, BudgetOf(m)
  PROVE  BudgetOf(m)'
<1> DEFINE MAX == MAX_DELIVERY_ATTEMPTS
<1>0. /\ TypeOK /\ Spent \in Nat /\ MAX \in Nat \ {0}
      /\ attempts[m] \in Nat /\ throws[m] \in Nat /\ unrecorded[m] \in Nat
  BY SpentType, DeliveryAssumption DEF Inv, TypeOK
<1>1. CASE UNCHANGED <<delivered, attempts, throws, unrecorded, restarts>>
  BY <1>1 DEF BudgetOf, Spent
<1>3. ASSUME Restart PROVE BudgetOf(m)'
  <2>1. /\ delivered' = delivered /\ attempts'[m] = 0 /\ throws' = throws
        /\ unrecorded' = unrecorded /\ Spent' = Spent + (MAX - 1)
    BY <1>0, <1>3, SpentMore DEF Restart
  <2> HIDE DEF MAX
  <2> QED
    BY <1>0, <2>1 DEF BudgetOf, MAX
<1>4. ASSUME NEW p \in Poll, Resolve(p) PROVE BudgetOf(m)'
  <2>1. /\ throws' = throws /\ Spent' = Spent /\ unrecorded' = unrecorded
        /\ call[p] # "none"
    BY <1>4 DEF Resolve, historyVars, Spent
  <2>2. CASE sending[p] # m
    <3>1. delivered'[m] = delivered[m] /\ attempts'[m] = attempts[m]
      BY <1>0, <1>4, <2>2 DEF TypeOK, Resolve, Record
    <3> QED
      BY <2>1, <3>1 DEF BudgetOf
  <2>3. CASE sending[p] = m
    <3>1. delivered[m] = "none" /\ delivered'[m] = "delivered" /\ attempts'[m] = 0
      BY <1>0, <1>4, <2>1, <2>3, OpenCall DEF TypeOK, Resolve, Record
    <3> QED
      BY <1>0, <2>1, <3>1 DEF BudgetOf
  <2> QED
    BY <2>2, <2>3
<1>5. ASSUME NEW p \in Poll, Throw(p) PROVE BudgetOf(m)'
  <2>1. Spent' = Spent /\ call[p] # "none" /\ unrecorded' = unrecorded
    BY <1>5 DEF Throw, Spent
  <2>2. CASE sending[p] # m
    <3>1. /\ throws'[m] = throws[m] /\ attempts'[m] = attempts[m]
          /\ delivered'[m] = delivered[m]
      BY <1>0, <1>5, <2>2 DEF TypeOK, Throw, Record
    <3> QED
      BY <2>1, <3>1 DEF BudgetOf
  <2>3. CASE sending[p] = m
    <3>1. delivered[m] = "none" /\ throws'[m] = throws[m] + 1
      BY <1>0, <1>5, <2>1, <2>3, OpenCall DEF TypeOK, Throw
    <3>2. CASE attempts[m] + 1 >= MAX
      <4>1. delivered'[m] = "failed" /\ attempts'[m] = 0
        BY <1>0, <1>5, <2>3, <3>1, <3>2 DEF TypeOK, Throw, Record
      <4> QED
        BY <1>0, <2>1, <3>1, <3>2, <4>1 DEF BudgetOf
    <3>3. CASE ~(attempts[m] + 1 >= MAX)
      <4>1. delivered'[m] = "none" /\ attempts'[m] = attempts[m] + 1
        BY <1>0, <1>5, <2>3, <3>1, <3>3 DEF TypeOK, Throw
      <4> QED
        BY <1>0, <2>1, <3>1, <3>3, <4>1 DEF BudgetOf
    <3> QED
      BY <3>2, <3>3
  <2> QED
    BY <2>2, <2>3
<1>6. ASSUME NEW p \in Poll, GiveUpThrows(p) PROVE BudgetOf(m)'
  <2>1. Spent' = Spent /\ delivered' = delivered
    BY <1>6 DEF GiveUpThrows, Spent
  <2>2. CASE sending[p] # m
    <3>1. /\ throws'[m] = throws[m] /\ attempts'[m] = attempts[m]
          /\ unrecorded'[m] = unrecorded[m]
      BY <1>0, <1>6, <2>2 DEF TypeOK, GiveUpThrows
    <3> QED
      BY <2>1, <3>1 DEF BudgetOf
  <2>3. CASE sending[p] = m
    <3>1. /\ throws'[m] = throws[m] + 1 /\ unrecorded'[m] = unrecorded[m] + 1
          /\ attempts'[m] = attempts[m] + 1 /\ delivered[m] = "none"
      BY <1>0, <1>6, <2>3, OpenCall DEF TypeOK, GiveUpThrows
    <3> QED
      BY <1>0, <2>1, <3>1 DEF BudgetOf
  <2> QED
    BY <2>2, <2>3
<1> QED
  BY <1>1, <1>3, <1>4, <1>5, <1>6
  DEF Next, SetRunning, Write, BecomeDue, Tick, DrainThrows, Effect, Skip, Drain, vars,
      worldVars, hostVars, historyVars

\* Every throw of a row is paid for by the budget of a process life, by its
\* recorded give-up or by a give-up that inbound.db did not take, and a row is
\* given up only after MAX_DELIVERY_ATTEMPTS throws.
THEOREM BudgetRespected == Spec => []RetryBudget
<1> DEFINE AllBudgets == \A m \in Message : BudgetOf(m)
<1>1. Init => AllBudgets
  BY DeliveryAssumption DEF Init, BudgetOf, Spent
<1>2. Inv /\ AllBudgets /\ [Next]_vars => AllBudgets'
  BY BudgetStep
<1>3. Inv /\ AllBudgets => RetryBudget
  <2> SUFFICES ASSUME Inv, NEW m \in Message, BudgetOf(m)
               PROVE  /\ delivered[m] = "failed" => throws[m] >= MAX_DELIVERY_ATTEMPTS
                      /\ throws[m] <=
                           (MAX_DELIVERY_ATTEMPTS - 1) * (restarts + 1) + unrecorded[m]
                           + (IF delivered[m] = "failed" THEN 1 ELSE 0)
    BY DEF RetryBudget
  <2>1. /\ MAX_DELIVERY_ATTEMPTS - 1 \in Nat /\ restarts \in Nat
        /\ throws[m] \in Nat /\ unrecorded[m] \in Nat /\ Spent \in Nat
    BY SpentType, DeliveryAssumption DEF Inv, TypeOK
  <2>2. (MAX_DELIVERY_ATTEMPTS - 1) * (restarts + 1) = Spent + (MAX_DELIVERY_ATTEMPTS - 1)
    <3>1. \A k, n \in Nat : k * (n + 1) = k * n + k
      OBVIOUS
    <3> QED
      BY <2>1, <3>1 DEF Spent
  <2>3. \A x \in Nat : x = Spent =>
          throws[m] <= x + (MAX_DELIVERY_ATTEMPTS - 1) + unrecorded[m]
                       + (IF delivered[m] = "failed" THEN 1 ELSE 0)
    BY <2>1, DeliveryAssumption DEF BudgetOf
  <2> QED
    BY <2>1, <2>2, <2>3 DEF BudgetOf
<1> HIDE DEF AllBudgets
<1> QED
  BY <1>1, <1>2, <1>3, InvAlways, PTL DEF Spec

-----------------------------------------------------------------------------
(* The order of a conversation.                                            *)

\* The rows that must not be passed by row n.
Before(m, n) == m < n /\ SessionOf[m] = SessionOf[n] /\ m \notin Deferred

\* A call for the row has ended, or has taken effect.
Begun(m) == effects[m] > 0 \/ throws[m] > 0 \/ delivered[m] # "none"

\* Containers number their rows upwards, and a row that is not deferred is due
\* at once.
WrittenInOrder ==
  /\ written \ due \subseteq Deferred
  /\ \A m, n \in Message :
       m < n /\ SessionOf[m] = SessionOf[n] /\ n \in written => m \in written

\* The row with an adapter comes before the rest of its batch, and no row of a
\* batch has left an earlier one behind.
BatchInOrder ==
  \A p \in Poll : sending[p] # NoMessage =>
    /\ \A n \in batch[p] : sending[p] < n
    /\ \A n \in batch[p] \cup {sending[p]} : \A m \in Message :
         Before(m, n) => Begun(m) \/ m \in batch[p] \cup {sending[p]}

OrderInv == WrittenInOrder /\ BatchInOrder /\ NoOvertaking

\* Nothing ever undoes the first call for a row.
LEMMA BegunStays ==
  ASSUME Inv, [Next]_vars, NEW m \in Message
  PROVE  /\ Begun(m) => Begun(m)'
         /\ effects'[m] > 0 => \/ effects[m] > 0
                               \/ \E p \in Poll : Effect(p) /\ sending[p] = m
<1>1. /\ effects \in [Message -> Nat] /\ throws \in [Message -> Nat]
      /\ \A p \in Poll : call[p] # "none" => sending[p] \in Message
  BY OpenCall DEF Inv, TypeOK
<1>2. ASSUME NEW p \in Poll, Effect(p)
      PROVE  /\ Begun(m) => Begun(m)'
             /\ effects'[m] > 0 => effects[m] > 0 \/ sending[p] = m
  BY <1>1, <1>2 DEF Effect, Begun
<1>3. ASSUME effects' = effects, throws' = throws,
             delivered[m] # "none" => delivered'[m] # "none"
      PROVE  (Begun(m) => Begun(m)') /\ (effects'[m] > 0 => effects[m] > 0)
  BY <1>3 DEF Begun
<1>4. ASSUME NEW p \in Poll, Resolve(p)
      PROVE  (Begun(m) => Begun(m)') /\ (effects'[m] > 0 => effects[m] > 0)
  <2>1. delivered[m] # "none" => delivered'[m] # "none"
    BY <1>4 DEF Resolve, Record, Inv, TypeOK
  <2> QED
    BY <1>3, <1>4, <2>1 DEF Resolve, historyVars
<1>5. ASSUME NEW p \in Poll, Throw(p) \/ GiveUpThrows(p)
      PROVE  (Begun(m) => Begun(m)') /\ (effects'[m] > 0 => effects[m] > 0)
  <2>1. /\ effects' = effects /\ throws' = [throws EXCEPT ![sending[p]] = @ + 1]
        /\ sending[p] \in Message
    BY <1>1, <1>5 DEF Throw, GiveUpThrows
  <2>2. throws[m] > 0 => throws'[m] > 0
    BY <1>1, <2>1
  <2>3. delivered[m] # "none" => delivered'[m] # "none"
    BY <1>5 DEF Throw, GiveUpThrows, Record, Inv, TypeOK
  <2> QED
    BY <2>1, <2>2, <2>3 DEF Begun
<1>6. ASSUME \/ \E s \in Session : SetRunning(s)
             \/ \E n \in Message : Write(n) \/ BecomeDue(n)
             \/ \E p \in Poll : Tick(p) \/ DrainThrows(p)
             \/ \E p \in Poll, s \in Session : Skip(p, s) \/ Drain(p, s)
             \/ Restart \/ UNCHANGED vars
      PROVE  (Begun(m) => Begun(m)') /\ (effects'[m] > 0 => effects[m] > 0)
  <2>1. effects' = effects /\ throws' = throws /\ delivered' = delivered
    BY <1>6 DEF SetRunning, Write, BecomeDue, Tick, DrainThrows, Skip, Drain, Restart,
       vars, hostVars, historyVars
  <2> QED
    BY <1>3, <2>1
<1> QED
  BY <1>2, <1>4, <1>5, <1>6 DEF Next

\* Continue keeps the batches in order if what it goes on with leaves no
\* earlier row behind.
LEMMA ContinueInOrder ==
  ASSUME Inv, BatchInOrder, NEW p \in Poll, NEW s \in Session,
         NEW rows \in SUBSET Message, Continue(p, s, rows),
         \A m \in Message : Begun(m) => Begun(m)',
         \A n \in rows : \A m \in Message : Before(m, n) => Begun(m)' \/ m \in rows
  PROVE  BatchInOrder'
<1> SUFFICES ASSUME NEW q \in Poll, sending'[q] # NoMessage
             PROVE  /\ \A n \in batch'[q] : sending'[q] < n
                    /\ \A n \in batch'[q] \cup {sending'[q]} : \A m \in Message :
                         Before(m, n) => Begun(m)' \/ m \in batch'[q] \cup {sending'[q]}
  BY Zenon DEF BatchInOrder, Before
<1>1. CASE q # p
  <2>1. sending'[q] = sending[q] /\ batch'[q] = batch[q]
    BY <1>1 DEF Inv, TypeOK, Continue
  <2>2. batch[q] \in SUBSET Message /\ sending[q] \in Message
    BY <2>1 DEF Inv, TypeOK
  <2> QED
    BY <2>1, <2>2 DEF BatchInOrder
<1>2. CASE q = p
  <2>1. PICK m \in rows : /\ \A n \in rows : m <= n
                          /\ sending'[p] = m /\ batch'[p] = rows \ {m}
    BY <1>2 DEF Continue, Inv, TypeOK
  <2>2. \A n \in rows \ {m} : m < n
    BY <2>1, DeliveryAssumption
  <2>3. batch'[p] \cup {sending'[p]} = rows
    BY <2>1
  <2> QED
    BY <1>2, <2>1, <2>2, <2>3
<1> QED
  BY <1>1, <1>2

\* So does every step.
LEMMA BatchInOrderStep ==
  ASSUME Inv, WrittenInOrder, BatchInOrder, [Next]_vars
  PROVE  BatchInOrder'
<1>0. \A m \in Message : Begun(m) => Begun(m)'
  BY BegunStays
<1>1. ASSUME sending' = sending, batch' = batch
      PROVE  BatchInOrder'
  <2> SUFFICES ASSUME NEW q \in Poll, sending[q] # NoMessage
               PROVE  /\ \A n \in batch[q] : sending[q] < n
                      /\ \A n \in batch[q] \cup {sending[q]} : \A m \in Message :
                           Before(m, n) => Begun(m)' \/ m \in batch[q] \cup {sending[q]}
    BY <1>1, Zenon DEF BatchInOrder, Before
  <2> QED
    BY <1>0 DEF BatchInOrder
<1>2. ASSUME NEW p \in Poll, Resolve(p) \/ Throw(p) PROVE BatchInOrder'
  <2>1. /\ call[p] # "none" /\ Continue(p, SessionOf[sending[p]], batch[p])
    BY <1>2 DEF Resolve, Throw
  <2>2. /\ sending[p] \in Message /\ SessionOf[sending[p]] \in Session
        /\ batch[p] \in SUBSET Message /\ sending[p] # NoMessage
    BY <2>1, OpenCall, DeliveryAssumption
  <2>3. \A k \in Message : k = sending[p] => Begun(k)'
    <3>1. CASE Resolve(p)
      <4>1. delivered' = [delivered EXCEPT ![sending[p]] =
                            IF @ = "none" THEN "delivered" ELSE @]
        BY <3>1 DEF Resolve, Record
      <4>2. delivered'[sending[p]] # "none"
        BY <2>2, <4>1 DEF Inv, TypeOK
      <4> QED
        BY <4>2 DEF Begun
    <3>2. CASE Throw(p)
      <4>1. throws' = [throws EXCEPT ![sending[p]] = @ + 1]
        BY <3>2 DEF Throw
      <4>2. throws'[sending[p]] > 0
        BY <2>2, <4>1 DEF Inv, TypeOK
      <4> QED
        BY <4>2 DEF Begun
    <3> QED
      BY <1>2, <3>1, <3>2
  <2>4. ASSUME NEW n \in batch[p], NEW m \in Message, Before(m, n)
        PROVE  Begun(m)' \/ m \in batch[p]
    BY <1>0, <2>2, <2>3, <2>4 DEF BatchInOrder
  <2> QED
    BY <1>0, <2>1, <2>2, <2>4, ContinueInOrder
<1>2a. ASSUME NEW p \in Poll, GiveUpThrows(p) PROVE BatchInOrder'
  <2>1. call[p] # "none" /\ Continue(p, SessionOf[sending[p]], {})
    BY <1>2a DEF GiveUpThrows
  <2>2. SessionOf[sending[p]] \in Session /\ {} \in SUBSET Message
    BY <2>1, OpenCall
  <2> QED
    BY <1>0, <2>1, <2>2, ContinueInOrder
<1>3. ASSUME NEW p \in Poll, NEW s \in Session, Drain(p, s) PROVE BatchInOrder'
  <2>1. Undelivered(s) \in SUBSET Message /\ Continue(p, s, Undelivered(s))
    BY <1>3 DEF Inv, TypeOK, Drain, Undelivered
  <2>2. ASSUME NEW n \in Undelivered(s), NEW m \in Message, Before(m, n)
        PROVE  Begun(m)' \/ m \in Undelivered(s)
    <3>1. n \in written /\ SessionOf[n] = s
      BY DEF Inv, TypeOK, Undelivered
    <3>2. m \in due /\ SessionOf[m] = s
      BY <2>1, <2>2, <3>1 DEF Before, WrittenInOrder
    <3> QED
      BY <1>0, <3>2 DEF Undelivered, Begun
  <2> QED
    BY <1>0, <2>1, <2>2, ContinueInOrder
<1>4. ASSUME Restart PROVE BatchInOrder'
  <2>1. \A p \in Poll : sending'[p] = NoMessage
    BY <1>4 DEF Restart
  <2> QED
    BY <2>1 DEF BatchInOrder
<1> QED
  BY <1>1, <1>2, <1>2a, <1>3, <1>4
  DEF Next, SetRunning, Write, BecomeDue, Tick, DrainThrows, Effect, Skip, vars, hostVars

\* And no row takes effect before the rows it must not pass.
LEMMA OrderStep ==
  ASSUME Inv, OrderInv, [Next]_vars
  PROVE  OrderInv'
<1> USE DEF OrderInv
<1>1. WrittenInOrder'
  <2>1. ASSUME NEW n \in Message, Write(n) PROVE WrittenInOrder'
    <3>1. /\ written' = written \cup {n} /\ due \subseteq due'
          /\ n \notin Deferred => n \in due'
      BY <2>1 DEF Write
    <3>2. \A m \in Message : m < n /\ SessionOf[m] = SessionOf[n] => m \in written
      BY <2>1, DeliveryAssumption DEF Write
    <3> QED
      BY <3>1, <3>2 DEF WrittenInOrder
  <2>2. ASSUME written' = written, due \subseteq due' PROVE WrittenInOrder'
    BY <2>2 DEF WrittenInOrder
  <2> QED
    BY <2>1, <2>2
    DEF Next, SetRunning, BecomeDue, Tick, DrainThrows, Effect, Resolve, Throw,
        GiveUpThrows, Skip, Drain, Restart, vars, worldVars
<1>2. NoOvertaking'
  <2> SUFFICES ASSUME NEW m \in Message, NEW n \in Message, Before(m, n),
                      effects'[n] > 0
               PROVE  Begun(m)'
    BY DEF NoOvertaking, Before, Begun
  <2>1. CASE effects[n] > 0
    BY <2>1, BegunStays DEF NoOvertaking, Before, Begun
  <2>2. CASE \E p \in Poll : Effect(p) /\ sending[p] = n
    <3>1. PICK p \in Poll : Effect(p) /\ sending[p] = n
      BY <2>2
    <3>2. n # NoMessage /\ m # n /\ ~(n < m) /\ batch[p] \subseteq Message
      BY DeliveryAssumption DEF Before, Inv, TypeOK
    <3>3. Begun(m)
      BY <3>1, <3>2 DEF BatchInOrder
    <3> QED
      BY <3>3, BegunStays
  <2> QED
    BY <2>1, <2>2, BegunStays
<1> QED
  BY <1>1, <1>2, BatchInOrderStep

\* The two chains alone never reorder a conversation: a row takes effect before
\* an earlier one of its session only if that one was deferred, threw, or was
\* recorded without an effect.
THEOREM ConversationOrder == Spec => []NoOvertaking
<1>1. Init => OrderInv
  BY DeliveryAssumption
  DEF Init, OrderInv, WrittenInOrder, BatchInOrder, NoOvertaking
<1> QED
  BY <1>1, OrderStep, InvAlways, PTL DEF Spec, OrderInv

-----------------------------------------------------------------------------
(* Refinement: Delivery implements OutboundPromise.                        *)

\* Only rows that were written are ever recorded.
RecordedWritten == \A m \in Message : m \notin written => delivered[m] = "none"

LEMMA RecordedWrittenStep ==
  ASSUME Inv, [Next]_vars, RecordedWritten
  PROVE  RecordedWritten'
<1> SUFFICES ASSUME NEW m \in Message, m \notin written'
             PROVE  delivered'[m] = "none"
  BY DEF RecordedWritten
<1>1. TypeOK /\ m \notin written /\ delivered[m] = "none"
  BY DEF Inv, RecordedWritten, Next, SetRunning, Write, BecomeDue, Tick, DrainThrows,
         Effect, Resolve, Throw, GiveUpThrows, Skip, Drain, Restart, vars, worldVars,
         hostVars
<1>2. CASE delivered' = delivered
  BY <1>1, <1>2
<1>3. ASSUME NEW p \in Poll, Resolve(p) \/ Throw(p) PROVE delivered'[m] = "none"
  <2>1. sending[p] # m
    BY <1>1, <1>3, OpenCall DEF Resolve, Throw
  <2> QED
    BY <1>1, <1>3, <2>1 DEF TypeOK, Resolve, Throw, Record
<1> QED
  BY <1>2, <1>3
  DEF Next, SetRunning, Write, BecomeDue, Tick, DrainThrows, Effect, GiveUpThrows,
      Skip, Drain, Restart, vars, hostVars

\* A settled call closes the abstract call of its row, and no other.
LEMMA SettledCall ==
  ASSUME Inv, NEW p \in Poll, call[p] # "none", NEW rows,
         Continue(p, SessionOf[sending[p]], rows)
  PROVE  CallOpen' = [CallOpen EXCEPT ![sending[p]] = FALSE]
<1>1. /\ sending[p] \in Message
      /\ \A q \in Poll \ {p} : sending[q] # sending[p]
  BY OpenCall, DeliveryAssumption
<1>2. /\ call'[p] # "effected"
      /\ \A q \in Poll \ {p} : sending'[q] = sending[q] /\ call'[q] = call[q]
  BY ContinueCalls DEF Inv
<1>3. ASSUME NEW n \in Message
      PROVE  (\E q \in Poll : sending'[q] = n /\ call'[q] = "effected")
             <=> (n # sending[p] /\ \E q \in Poll : sending[q] = n /\ call[q] = "effected")
  BY <1>1, <1>2
<1>4. /\ CallOpen' = [n \in Message |->
                         \E q \in Poll : sending'[q] = n /\ call'[q] = "effected"]
      /\ CallOpen = [n \in Message |->
                         \E q \in Poll : sending[q] = n /\ call[q] = "effected"]
  BY DEF CallOpen
<1>5. \A n \in Message : CallOpen'[n] = (n # sending[p] /\ CallOpen[n])
  <2>1. TAKE n \in Message
  <2>2. /\ CallOpen'[n] = \E q \in Poll : sending'[q] = n /\ call'[q] = "effected"
        /\ CallOpen[n] = \E q \in Poll : sending[q] = n /\ call[q] = "effected"
    BY <1>4, Zenon
  <2> QED
    BY <2>2, <1>3, Zenon
<1> QED
  BY <1>1, <1>4, <1>5, Zenon

LEMMA PromiseStep ==
  ASSUME Inv, RecordedWritten, [Next]_vars
  PROVE  [Promise!Next]_(Promise!vars)
<1>0. TypeOK /\ DrainExclusive
  BY DEF Inv
<1>1. CASE UNCHANGED <<written, delivered, sending, call, effects, lost>>
  BY <1>1 DEF Promise!vars, RowStatus, CallOpen
<1>2. ASSUME NEW m \in Message, Write(m) PROVE Promise!Submit(m)
  <2>1. /\ m \notin written /\ written' = written \cup {m} /\ delivered' = delivered
        /\ sending' = sending /\ call' = call /\ effects' = effects /\ lost' = lost
        /\ delivered[m] = "none"
    BY <1>2 DEF RecordedWritten, Write, hostVars, historyVars
  <2>2. RowStatus[m] = "unwritten" /\ CallOpen' = CallOpen
    BY <2>1 DEF RowStatus, CallOpen
  <2>3. RowStatus' = [RowStatus EXCEPT ![m] = "queued"]
    BY <2>1 DEF RowStatus
  <2> QED
    BY <2>1, <2>2, <2>3 DEF Promise!Submit
<1>3. ASSUME NEW p \in Poll, Effect(p)
      PROVE  \E m \in Message : Promise!TakeEffect(m)
  <2> DEFINE m == sending[p]
  <2>1. /\ call[p] = "sent" /\ m \in Message /\ delivered[m] = "none" /\ m \in written
        /\ \A q \in Poll \ {p} : sending[q] # m
    BY <1>3, OpenCall, DeliveryAssumption DEF Effect
  <2>2. RowStatus[m] = "queued" /\ ~CallOpen[m]
    BY <2>1 DEF RowStatus, CallOpen
  <2>3. /\ effects' = [effects EXCEPT ![m] = @ + 1] /\ lost' = lost
        /\ sending' = sending /\ delivered' = delivered /\ written' = written
        /\ call' = [call EXCEPT ![p] = "effected"]
    BY <1>3 DEF Effect, worldVars
  <2>4. RowStatus' = RowStatus
    BY <2>3 DEF RowStatus
  <2>5. CallOpen' = [CallOpen EXCEPT ![m] = TRUE]
    <3>1. call'[p] = "effected" /\ \A q \in Poll \ {p} : call'[q] = call[q]
      BY <1>0, <2>3 DEF TypeOK
    <3>2. ASSUME NEW n \in Message
          PROVE  (\E q \in Poll : sending[q] = n /\ call'[q] = "effected")
                 <=> (n = m \/ \E q \in Poll : sending[q] = n /\ call[q] = "effected")
      BY <2>1, <3>1
    <3>3. \A n \in Message : CallOpen'[n] = (IF n = m THEN TRUE ELSE CallOpen[n])
      <4> SUFFICES ASSUME NEW n \in Message
                   PROVE  CallOpen'[n] = (IF n = m THEN TRUE ELSE CallOpen[n])
        OBVIOUS
      <4>1. CallOpen'[n] = \E q \in Poll : sending[q] = n /\ call'[q] = "effected"
        BY <2>3 DEF CallOpen
      <4>2. CallOpen[n] = \E q \in Poll : sending[q] = n /\ call[q] = "effected"
        BY DEF CallOpen
      <4> HIDE DEF m
      <4> QED
        BY <3>2, <4>1, <4>2
    <3> HIDE DEF m
    <3> QED
      BY <2>1, <3>3 DEF CallOpen
  <2> HIDE DEF m
  <2> QED
    BY <2>1, <2>2, <2>3, <2>4, <2>5 DEF Promise!TakeEffect
<1>4. ASSUME NEW p \in Poll, Resolve(p)
      PROVE  \E m \in Message : Promise!Settle(m)
  <2> DEFINE m == sending[p]
  <2>1. /\ call[p] # "none" /\ m \in Message /\ delivered[m] = "none" /\ m \in written
    BY <1>4, OpenCall DEF Resolve
  <2>2. RowStatus[m] = "queued"
    BY <2>1 DEF RowStatus
  <2>3. /\ Continue(p, SessionOf[m], batch[p]) /\ effects' = effects /\ lost' = lost
        /\ written' = written
        /\ delivered' = [delivered EXCEPT ![m] = IF @ = "none" THEN "delivered" ELSE @]
    BY <1>4 DEF Resolve, Record, worldVars, historyVars
  <2>4. CallOpen' = [CallOpen EXCEPT ![m] = FALSE]
    BY <2>1, <2>3, SettledCall
  <2>5. RowStatus' = [RowStatus EXCEPT ![m] = "delivered"]
    BY <1>0, <2>1, <2>3 DEF RowStatus, TypeOK
  <2> HIDE DEF m
  <2> QED
    BY <2>1, <2>2, <2>3, <2>4, <2>5 DEF Promise!Settle
<1>5. ASSUME NEW p \in Poll, Throw(p) \/ GiveUpThrows(p)
      PROVE  \E m \in Message : Promise!Fail(m)
  <2> DEFINE m == sending[p]
  <2>1. /\ call[p] # "none" /\ m \in Message /\ delivered[m] = "none" /\ m \in written
        /\ \A q \in Poll \ {p} : sending[q] # m
    BY <1>5, OpenCall, DeliveryAssumption DEF Throw, GiveUpThrows
  <2>2. RowStatus[m] = "queued" /\ (CallOpen[m] <=> call[p] = "effected")
    BY <2>1 DEF RowStatus, CallOpen
  <2>3. /\ effects' = effects
        /\ lost' = (IF call[p] = "effected" THEN [lost EXCEPT ![m] = @ + 1] ELSE lost)
        /\ written' = written
        /\ \/ delivered' = delivered
           \/ delivered' = [delivered EXCEPT ![m] = IF @ = "none" THEN "failed" ELSE @]
    BY <1>5 DEF Throw, GiveUpThrows, Record, worldVars
  <2>4. CallOpen' = [CallOpen EXCEPT ![m] = FALSE]
    <3>1. PICK rows : Continue(p, SessionOf[m], rows)
      BY <1>5 DEF Throw, GiveUpThrows
    <3> QED
      BY <2>1, <3>1, SettledCall
  <2>5. RowStatus' \in {RowStatus, [RowStatus EXCEPT ![m] = "failed"]}
    <3>1. CASE delivered' = delivered
      BY <2>3, <3>1 DEF RowStatus
    <3>2. CASE delivered' = [delivered EXCEPT ![m] = IF @ = "none" THEN "failed" ELSE @]
      BY <1>0, <2>1, <2>3, <3>2 DEF RowStatus, TypeOK
    <3> QED
      BY <2>3, <3>1, <3>2
  <2> HIDE DEF m
  <2>6. lost' = (IF CallOpen[m] THEN [lost EXCEPT ![m] = @ + 1] ELSE lost)
    BY <2>2, <2>3
  <2> QED
    BY <2>1, <2>2, <2>3, <2>4, <2>5, <2>6 DEF Promise!Fail
<1>6. ASSUME NEW p \in Poll, NEW s \in Session, Drain(p, s)
      PROVE  UNCHANGED Promise!vars
  <2>1. /\ call[p] = "none" /\ Continue(p, s, Undelivered(s))
        /\ delivered' = delivered /\ written' = written
        /\ effects' = effects /\ lost' = lost
    BY <1>0, <1>6 DEF Drain, DrainExclusive, worldVars, historyVars
  <2>2. \A n \in Message : (\E q \in Poll : sending'[q] = n /\ call'[q] = "effected")
                         <=> (\E q \in Poll : sending[q] = n /\ call[q] = "effected")
    BY <1>0, <2>1, ContinueCalls
  <2>3. CallOpen' = CallOpen
    BY <2>2, Zenon DEF CallOpen
  <2> QED
    BY <2>1, <2>3 DEF Promise!vars, RowStatus
<1>7. ASSUME Restart PROVE Promise!Crash
  <2>1. /\ written' = written /\ delivered' = delivered /\ effects' = effects
        /\ sending' = [p \in Poll |-> NoMessage]
        /\ lost' = [m \in Message |->
                      IF \E p \in Poll : call[p] = "effected" /\ sending[p] = m
                      THEN lost[m] + 1 ELSE lost[m]]
        /\ call' = [p \in Poll |-> "none"]
    BY <1>7 DEF Restart
  <2>2. RowStatus' = RowStatus /\ CallOpen' = [m \in Message |-> FALSE]
    BY <2>1 DEF RowStatus, CallOpen
  <2>3. lost' = [m \in Message |-> IF CallOpen[m] THEN lost[m] + 1 ELSE lost[m]]
    BY <2>1 DEF CallOpen
  <2> QED
    BY <2>1, <2>2, <2>3 DEF Promise!Crash
<1> QED
  BY <1>1, <1>2, <1>3, <1>4, <1>5, <1>6, <1>7
  DEF Next, SetRunning, BecomeDue, Tick, DrainThrows, Skip, vars, worldVars, hostVars,
      historyVars, Promise!Next

\* Every behaviour of the two poll chains, restarts included, is a behaviour of
\* OutboundPromise under the mapping of rows and open calls.
THEOREM ChainsImplementPromise == Spec => ImplementsPromise
<1>1. Init => Promise!Init /\ RecordedWritten
  BY DEF Init, Promise!Init, RecordedWritten, RowStatus, CallOpen
<1>2. Inv /\ RecordedWritten /\ [Next]_vars => RecordedWritten'
  BY RecordedWrittenStep
<1>3. Inv /\ RecordedWritten /\ [Next]_vars => [Promise!Next]_(Promise!vars)
  BY PromiseStep
<1> QED
  BY <1>1, <1>2, <1>3, InvAlways, PTL DEF Spec, ImplementsPromise, Promise!Spec
=============================================================================
