---------------------------- MODULE Cards_proofs ----------------------------
(***************************************************************************)
(* Proofs about Cards, for every set of requests, any number of restarts   *)
(* and of failures.                                                        *)
(***************************************************************************)
EXTENDS Cards, TLAPS

-----------------------------------------------------------------------------
(* The inductive invariant.                                                *)

\* A request is made once, and what is not made yet has left no trace.
AskedOnce ==
  /\ asked \cap togo = {}
  /\ resolver \cup expiring \cup stale \subseteq asked
  /\ \A r \in Request \ asked :
       row[r] = "none" /\ card[r] = "none" /\ told[r] = {} /\ verdicts[r] = 0

\* A tap in flight was made on a card.  Its value is the button's, unless the
\* row was not there; the row of an action is there before its card, so it has
\* gone for good.
TapsAreReal ==
  \A t \in taps :
    /\ card[t.of] # "none" /\ t.meant \in tapped[t.of]
    /\ t.value \in {t.meant, "index"}
    /\ t.of \in Action /\ t.value = "index" => row[t.of] = "none"

\* A handler that awaits runs on a tap of Approve, alone and with its row, unless
\* a second tap met the row.
HandlersAreReal ==
  \A h \in handling :
    /\ h.of \in Action /\ h.value = "approve" /\ "approve" \in tapped[h.of]
    /\ card[h.of] # "none"
    /\ h.of \notin exposed =>
         /\ row[h.of] # "none" /\ verdicts[h.of] = 0
         /\ \A k \in handling : k.of = h.of => k = h

\* The agent that asked for an action has heard nothing while its card is on
\* the way, and while a card that arrived has its row, unless its verdict and
\* its row came apart.
ActionsOpen ==
  \A r \in Action :
    /\ r \in sending \ shown => card[r] = "none" /\ verdicts[r] = 0
    /\ r \notin exposed /\ row[r] # "none" /\ card[r] # "none" => verdicts[r] = 0
    /\ r \in sending => row[r] # "none" \/ card[r] # "none"

\* A card that its delivery has shown is there.
ShownIsThere == \A r \in shown : card[r] # "none"

\* The gateway has heard nothing while a credential is being sent or has its
\* resolver; it is never both.
CredentialsOpen ==
  \A r \in Credential :
    /\ r \in sending \cup resolver => verdicts[r] = 0
    /\ ~(r \in sending /\ r \in resolver)

\* With the three properties.
Settled == /\ AskedOnce
           /\ TapsAreReal
           /\ HandlersAreReal
           /\ ActionsOpen
           /\ ShownIsThere
           /\ CredentialsOpen
           /\ VerdictOfApprover
           /\ OneVerdict
           /\ NoOrphanRow

Inv == TypeOK /\ Settled

-----------------------------------------------------------------------------
(* The steps.                                                              *)

\* The initial states.
LEMMA InvInit == Init => Inv
<1> SUFFICES ASSUME Init PROVE Inv
  OBVIOUS
<1>1. TypeOK
  <2>1. togo \in SUBSET Request
    BY CardsAssumption DEF Init
  <2>2. /\ row \in [Request -> {"none", "pending", "expired"}]
        /\ card \in [Request -> {"none", "buttons", "answered", "expired"}]
        /\ tapped \in [Request -> SUBSET Button]
        /\ told \in [Request -> SUBSET {"approve", "reject", "timeout"}]
        /\ verdicts \in [Request -> 0 .. 2]
        /\ inbox \in [Question -> {"none", "pending", "completed"}]
    BY DEF Init
  <2> QED
    BY <2>1, <2>2 DEF Init, TypeOK
<1>2. Settled
  BY DEF Init, Settled, AskedOnce, TapsAreReal, HandlersAreReal, ActionsOpen,
         ShownIsThere, CredentialsOpen, VerdictOfApprover, OneVerdict, NoOrphanRow, Request
<1> QED
  BY <1>1, <1>2 DEF Inv

\* Every step keeps the types.
LEMMA TypeStep ==
  ASSUME TypeOK, Settled, [Next]_vars
  PROVE  TypeOK'
<1> USE CardsAssumption DEF TypeOK, hostVars, askVars, toldVars, countVars, Told, Request
<1>1. CASE AdaptersUp
  BY <1>1 DEF AdaptersUp
<1>2. CASE DeliveryUp
  BY <1>2 DEF DeliveryUp, StaleRows
<1>3. CASE HostDies
  <2>1. /\ told' \in [Request -> SUBSET {"approve", "reject", "timeout"}]
        /\ verdicts' \in [Request -> 0 .. 2] /\ exposed' \subseteq Action
    BY <1>3 DEF HostDies, Tapped, Decision, Answerable, HandlersAreReal, Settled
  <2> QED
    BY <1>3, <2>1 DEF HostDies
<1>4. CASE Wake
  BY <1>4 DEF Wake
<1>5. CASE Sleep
  <2>1. /\ told' \in [Request -> SUBSET {"approve", "reject", "timeout"}]
        /\ failures' \in Nat
    BY <1>5 DEF Sleep
  <2> QED
    BY <1>5, <2>1 DEF Sleep
<1>6. ASSUME NEW r \in Request, RequestApproval(r) PROVE TypeOK'
  BY <1>6 DEF RequestApproval
<1>7. ASSUME NEW r \in Request, HandleRequest(r) PROVE TypeOK'
  BY <1>7 DEF HandleRequest
<1>8. ASSUME NEW r \in Request, CardAppears(r) PROVE TypeOK'
  BY <1>8 DEF CardAppears
<1>9. ASSUME NEW r \in Request, Sent(r) PROVE TypeOK'
  BY <1>9 DEF Sent
<1>10. ASSUME NEW r \in Request, SendFails(r) PROVE TypeOK'
  BY <1>10 DEF SendFails
<1>11. ASSUME NEW r \in Request, SweepStale(r) PROVE TypeOK'
  BY <1>11 DEF SweepStale
<1>12. ASSUME NEW r \in Request, Expire(r) PROVE TypeOK'
  BY <1>12 DEF Expire
<1>13. ASSUME NEW r \in Request, Expired(r) PROVE TypeOK'
  BY <1>13 DEF Expired
<1>14. ASSUME NEW r \in Request, NEW b \in Button, Tap(r, b) PROVE TypeOK'
  <2>1. taps' \subseteq Tapped
    BY <1>14 DEF Tap, Tapped, Button
  <2> QED
    BY <1>14, <2>1 DEF Tap
<1>15. ASSUME NEW q \in Question, AskUserQuestion(q) PROVE TypeOK'
  BY <1>15 DEF AskUserQuestion
<1>16. ASSUME NEW q \in Question, DeliverQuestion(q) PROVE TypeOK'
  BY <1>16 DEF DeliverQuestion
<1>17. ASSUME NEW q \in Question, Hear(q) PROVE TypeOK'
  BY <1>17 DEF Hear
<1>18. ASSUME NEW q \in Question, TimeOut(q) PROVE TypeOK'
  BY <1>18 DEF TimeOut
<1>19. ASSUME NEW t \in Tapped, t \in taps, Dispatch(t) PROVE TypeOK'
  <2>1. t.of \in Request
    BY DEF Tapped
  <2>2. /\ row' \in [Request -> {"none", "pending", "expired"}]
        /\ resolver' \subseteq Credential
        /\ told' \in [Request -> SUBSET {"approve", "reject", "timeout"}]
        /\ handling' \subseteq Tapped /\ exposed' \subseteq Action
        /\ verdicts' \in [Request -> 0 .. 2]
        /\ inbox' \in [Question -> {"none", "pending", "completed"}]
    BY <1>19, <2>1 DEF Dispatch, ResolveCredential, DropCredential, AnswerAction,
       AnswerQuestion, Unclaimed, DeleteRow, Decision, Answerable
  <2>3. /\ card' \in [Request -> {"none", "buttons", "answered", "expired"}]
        /\ failures' \in Nat /\ box' \in BOOLEAN
    BY <1>19, <2>1 DEF Dispatch
  <2> QED
    BY <1>19, <2>2, <2>3 DEF Dispatch
<1>20. ASSUME NEW t \in Tapped, HandlerReturns(t) PROVE TypeOK'
  <2>1. t.of \in Request
    BY DEF Tapped
  <2> QED
    BY <1>20, <2>1 DEF HandlerReturns, DeleteRow, Decision
<1>21. ASSUME NEW t \in Tapped, AnswerThrows(t) PROVE TypeOK'
  <2>1. t.of \in Request
    BY DEF Tapped
  <2> QED
    BY <1>21, <2>1 DEF AnswerThrows, Answerable, HandlersAreReal, Settled
<1>22. CASE UNCHANGED vars
  BY <1>22 DEF vars
<1> QED
  BY <1>1, <1>2, <1>3, <1>4, <1>5, <1>6, <1>7, <1>8, <1>9, <1>10, <1>11, <1>12,
     <1>13, <1>14, <1>15, <1>16, <1>17, <1>18, <1>19, <1>20, <1>21, <1>22 DEF Next

\* An answer reaches the handler of its kind, and each handler keeps the rest
\* of the invariant: a resolver or a row that is still there means that the
\* asker has heard nothing (CredentialsOpen, ActionsOpen), and a tap says what
\* was tapped (TapsAreReal).
LEMMA DispatchStep ==
  ASSUME Inv, NEW t \in taps, t \in Tapped, Dispatch(t)
  PROVE  Settled'
<1> USE DEF TypeOK, askVars, toldVars, Told, Request, AskedOnce, TapsAreReal,
        HandlersAreReal, ActionsOpen, ShownIsThere, CredentialsOpen, VerdictOfApprover,
        OneVerdict, NoOrphanRow, Settled, Tapped, Button
<1>0. TypeOK /\ Settled
  BY DEF Inv
<1>1. CASE ResolveCredential(t)
  BY <1>0, <1>1, CardsAssumption DEF Dispatch, ResolveCredential, Decision
<1>2. CASE DropCredential(t)
  BY <1>0, <1>2, CardsAssumption DEF Dispatch, DropCredential
<1>3. CASE AnswerAction(t)
  BY <1>0, <1>3, CardsAssumption DEF Dispatch, AnswerAction, Answerable, DeleteRow, Decision
<1>4. CASE AnswerQuestion(t)
  BY <1>0, <1>4, CardsAssumption DEF Dispatch, AnswerQuestion
<1>5. CASE Unclaimed(t)
  BY <1>0, <1>5 DEF Dispatch, Unclaimed
<1> QED
  BY <1>1, <1>2, <1>3, <1>4, <1>5 DEF Dispatch

\* Every other step keeps it too.
LEMMA SettledStep ==
  ASSUME Inv, [Next]_vars
  PROVE  Settled'
<1> USE CardsAssumption
    DEF TypeOK, hostVars, askVars, toldVars, countVars, Told, Request, AskedOnce,
        TapsAreReal, HandlersAreReal, ActionsOpen, ShownIsThere, CredentialsOpen,
        VerdictOfApprover, OneVerdict, NoOrphanRow, Settled
<1>0. TypeOK /\ Settled
  BY DEF Inv
<1>1. CASE AdaptersUp
  BY <1>0, <1>1 DEF AdaptersUp
<1>2. CASE DeliveryUp
  BY <1>0, <1>2 DEF DeliveryUp, StaleRows
<1>3. CASE HostDies
  BY <1>0, <1>3 DEF HostDies, Tapped, Button, Decision, Answerable
<1>4. CASE Wake
  BY <1>0, <1>4 DEF Wake
<1>5. CASE Sleep
  BY <1>0, <1>5 DEF Sleep
<1>6. ASSUME NEW r \in Request, RequestApproval(r) PROVE Settled'
  BY <1>0, <1>6 DEF RequestApproval
<1>7. ASSUME NEW r \in Request, HandleRequest(r) PROVE Settled'
  BY <1>0, <1>7 DEF HandleRequest
<1>8. ASSUME NEW r \in Request, CardAppears(r) PROVE Settled'
  BY <1>0, <1>8 DEF CardAppears
<1>9. ASSUME NEW r \in Request, Sent(r) PROVE Settled'
  BY <1>0, <1>9 DEF Sent
<1>10. ASSUME NEW r \in Request, SendFails(r) PROVE Settled'
  BY <1>0, <1>10 DEF SendFails
<1>11. ASSUME NEW r \in Request, SweepStale(r) PROVE Settled'
  BY <1>0, <1>11 DEF SweepStale, Tapped
<1>12. ASSUME NEW r \in Request, Expire(r) PROVE Settled'
  BY <1>0, <1>12 DEF Expire
<1>13. ASSUME NEW r \in Request, Expired(r) PROVE Settled'
  BY <1>0, <1>13 DEF Expired, Tapped
<1>14. ASSUME NEW r \in Request, NEW b \in Button, Tap(r, b)
      PROVE  Settled'
  BY <1>0, <1>14 DEF Tap, Tapped, Button
<1>15. ASSUME NEW q \in Question, AskUserQuestion(q) PROVE Settled'
  BY <1>0, <1>15 DEF AskUserQuestion
<1>16. ASSUME NEW q \in Question, DeliverQuestion(q) PROVE Settled'
  BY <1>0, <1>16 DEF DeliverQuestion
<1>17. ASSUME NEW q \in Question, Hear(q) PROVE Settled'
  BY <1>0, <1>17 DEF Hear
<1>18. ASSUME NEW q \in Question, TimeOut(q) PROVE Settled'
  BY <1>0, <1>18 DEF TimeOut
<1>19. ASSUME NEW t \in Tapped, t \in taps, Dispatch(t) PROVE Settled'
  BY <1>19, DispatchStep
<1>20. ASSUME NEW t \in Tapped, HandlerReturns(t) PROVE Settled'
  BY <1>0, <1>20 DEF HandlerReturns, DeleteRow, Decision, Tapped, Button
<1>21. ASSUME NEW t \in Tapped, AnswerThrows(t) PROVE Settled'
  BY <1>0, <1>21 DEF AnswerThrows, Answerable, Decision, Tapped, Button
<1>22. CASE UNCHANGED vars
  BY <1>0, <1>22 DEF vars
<1> QED
  BY <1>1, <1>2, <1>3, <1>4, <1>5, <1>6, <1>7, <1>8, <1>9, <1>10, <1>11, <1>12,
     <1>13, <1>14, <1>15, <1>16, <1>17, <1>18, <1>19, <1>20, <1>21, <1>22 DEF Next

\* Inv is an invariant of every behaviour.
LEMMA Invariance == Spec => []Inv
<1>1. Init => Inv
  BY InvInit
<1>2. Inv /\ [Next]_vars => Inv'
  BY TypeStep, SettledStep DEF Inv
<1> QED
  BY <1>1, <1>2, PTL DEF Spec

-----------------------------------------------------------------------------
(* The theorems.                                                           *)

\* The state has its types.
THEOREM TypeCorrect == Spec => []TypeOK
<1>1. Inv => TypeOK
  BY DEF Inv
<1> QED
  BY <1>1, Invariance, PTL

\* The word of the approver decides: an action is done, or a credential given,
\* on a tap of Approve only, and an agent hears that its action was refused on a
\* tap of Reject, or because its card could not be sent as far as the host knew.
THEOREM ApproverDecides == Spec => []VerdictOfApprover
<1>1. Inv => VerdictOfApprover
  BY DEF Inv, Settled
<1> QED
  BY <1>1, Invariance, PTL

\* Double taps, taps that race the timer and restarts tell the asker once, and
\* have an action handled once, outside the four windows in which its verdict
\* and its row come apart.
THEOREM DecidedOnce == Spec => []OneVerdict
<1>1. Inv => OneVerdict
  BY DEF Inv, Settled
<1> QED
  BY <1>1, Invariance, PTL

\* However often the host dies, the row of a credential is in somebody's care
\* when its start-up sweep has begun.
THEOREM RowsAreCaredFor == Spec => []NoOrphanRow
<1>1. Inv => NoOrphanRow
  BY DEF Inv, Settled
<1> QED
  BY <1>1, Invariance, PTL
=============================================================================
