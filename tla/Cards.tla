-------------------------------- MODULE Cards --------------------------------
(***************************************************************************)
(* A question that waits for a tap on a card: actions an agent asks        *)
(* approval for (approvals/primitive.ts, response-handler.ts; self-mod,    *)
(* gated ncl commands), credentials the OneCLI gateway asks approval for   *)
(* (onecli-approvals.ts) and the agent's own ask_user_question             *)
(* (interactive/index.ts, mcp-tools/interactive.ts).                       *)
(*                                                                         *)
(* Each has a row of the central database, a card on somebody's screen,    *)
(* and an asker: the agent, the gateway's open request (a resolver in the  *)
(* host's memory), or a tool call polling in the container.  The host may  *)
(* restart at any point; taps are accepted from the moment the channel     *)
(* adapters are up, before the delivery adapter starts the OneCLI handler. *)
(***************************************************************************)
EXTENDS Naturals, FiniteSets

CONSTANTS
  Action,      \* requests of requestApproval
  Yielding,    \* those whose handler awaits I/O while it runs: cli_command
  Credential,  \* requests of the OneCLI gateway
  Question,    \* calls of ask_user_question
  Workload,    \* sets of requests, one of which a behaviour is made of
  MaxTaps,     \* bound on the taps in flight
  MaxRestarts, \* bound on host restarts
  MaxFailures  \* bound on sends, edits and handlers that throw, and container deaths

Request == Action \cup Credential \cup Question

ASSUME CardsAssumption ==
  /\ Action \cap Credential = {} /\ Action \cap Question = {}
  /\ Credential \cap Question = {}
  /\ Yielding \subseteq Action
  /\ Workload \subseteq SUBSET Request
  /\ MaxTaps \in Nat /\ MaxRestarts \in Nat /\ MaxFailures \in Nat

VARIABLES
  \* the central database: pending_approvals, pending_questions
  row,       \* "none", "pending", or "expired" while its card is being edited
  \* the screen
  card,      \* "none", "buttons", "answered" or "expired": the newest card
  tapped,    \* history: the buttons tapped on each card
  \* the host
  phase,     \* "down", "adapters" (they are up), "ready" (delivery is)
  sending,   \* requests whose card the host is delivering
  shown,     \* those whose card this delivery has put on the screen
  recorded,  \* questions whose row of messages_out has its delivered row
  resolver,  \* entries of the `pending` map, each with its timer
  expiring,  \* requests whose expired card is being edited
  stale,     \* rows the start-up sweep still has to go through
  taps,      \* taps whose card the bridge is editing
  handling,  \* taps whose handler awaits something
  \* the askers
  togo,      \* requests to be made
  asked,     \* requests made
  told,      \* what each asker was told; of an action, also what was done
  verdicts,  \* how often
  inbox,     \* the answer row of a question in messages_in
  box,       \* the container of the asking agent runs
  \* history: the windows in which a verdict and its row come apart
  unsent,    \* actions whose agent was told that they could not be asked for
  exposed,   \* actions whose verdict left a row or a card that can be answered
  \* bounds
  restarts, failures

hostVars == <<phase, sending, shown, resolver, expiring, stale, taps, handling>>
toldVars == <<told, verdicts, unsent, exposed>>
askVars == <<togo, asked, toldVars, inbox, box, recorded>>
countVars == <<restarts, failures>>
vars == <<row, card, tapped, hostVars, askVars, countVars>>

Button == {"approve", "reject"}
Tapped == [of : Request, meant : Button, value : Button \cup {"index"},
           again : BOOLEAN]     \* the second click of a double click

TypeOK ==
  /\ row \in [Request -> {"none", "pending", "expired"}]
  /\ card \in [Request -> {"none", "buttons", "answered", "expired"}]
  /\ tapped \in [Request -> SUBSET Button]
  /\ phase \in {"down", "adapters", "ready"}
  /\ sending \subseteq asked /\ shown \subseteq sending /\ recorded \subseteq Question
  /\ resolver \subseteq Credential /\ expiring \subseteq Credential
  /\ stale \subseteq Credential
  /\ taps \subseteq Tapped /\ handling \subseteq Tapped
  /\ togo \subseteq Request /\ asked \subseteq Request
  /\ told \in [Request -> SUBSET {"approve", "reject", "timeout"}]
  /\ verdicts \in [Request -> 0 .. 2]
  /\ unsent \subseteq Action /\ exposed \subseteq Action
  /\ inbox \in [Question -> {"none", "pending", "completed"}]
  /\ box \in BOOLEAN
  /\ restarts \in Nat /\ failures \in Nat

Init ==
  /\ row = [r \in Request |-> "none"] /\ card = [r \in Request |-> "none"]
  /\ tapped = [r \in Request |-> {}]
  /\ phase = "down" /\ sending = {} /\ shown = {} /\ resolver = {} /\ expiring = {}
  /\ stale = {} /\ taps = {} /\ handling = {} /\ recorded = {}
  /\ togo \in Workload /\ asked = {} /\ told = [r \in Request |-> {}]
  /\ verdicts = [r \in Request |-> 0] /\ unsent = {} /\ exposed = {}
  /\ inbox = [q \in Question |-> "none"] /\ box = FALSE
  /\ restarts = 0 /\ failures = 0

\* The asker of r is told v.
Told(r, v) ==
  /\ told' = [told EXCEPT ![r] = @ \cup {v}]
  /\ verdicts' = [verdicts EXCEPT ![r] = IF @ < 2 THEN @ + 1 ELSE @]

-----------------------------------------------------------------------------
(* The host starts and dies.                                               *)

\* The channel adapters are connected.
AdaptersUp ==
  /\ phase = "down"
  /\ phase' = "adapters"
  /\ UNCHANGED <<row, card, tapped, sending, shown, resolver, expiring, stale, taps,
                 handling, askVars, countVars>>

\* Mutant: the rows of the previous process are not swept.
NothingStale == {}

\* The rows the start-up sweep goes through.
StaleRows == {r \in Credential : row[r] # "none"}

\* setDeliveryAdapter: the OneCLI handler starts, and its sweep.
DeliveryUp ==
  /\ phase = "adapters"
  /\ phase' = "ready"
  /\ stale' = StaleRows
  /\ UNCHANGED <<row, card, tapped, sending, shown, resolver, expiring, taps,
                 handling, askVars, countVars>>

\* sweepStaleApprovals, one row: its card is edited, then the row deleted.
SweepStale(r) ==
  /\ r \in stale
  /\ stale' = stale \ {r}
  /\ row' = [row EXCEPT ![r] = "none"]
  /\ \/ card' = [card EXCEPT ![r] = "expired"]
     \/ UNCHANGED card
  /\ UNCHANGED <<tapped, phase, sending, shown, resolver, expiring, taps, handling,
                 askVars, countVars>>

-----------------------------------------------------------------------------
(* Asking.                                                                 *)

\* requestApproval: the row is inserted before the card is sent.  Without an
\* approver, or without a DM to one, the agent is told at once.
RequestApproval(r) ==
  /\ phase = "ready" /\ r \in Action \cap togo
  /\ asked' = asked \cup {r} /\ togo' = togo \ {r}
  /\ \/ /\ row' = [row EXCEPT ![r] = "pending"]
        /\ sending' = sending \cup {r}
        /\ UNCHANGED toldVars
     \/ /\ Told(r, "reject") /\ unsent' = unsent \cup {r}
        /\ UNCHANGED <<row, sending, exposed>>
  /\ UNCHANGED <<card, tapped, phase, shown, resolver, expiring, stale, taps, handling,
                 inbox, box, recorded, countVars>>

\* handleRequest up to the delivery of the card: no row and no resolver yet.
HandleRequest(r) ==
  /\ phase = "ready" /\ r \in Credential \cap togo
  /\ asked' = asked \cup {r} /\ togo' = togo \ {r}
  /\ \/ sending' = sending \cup {r} /\ UNCHANGED <<told, verdicts>>
     \/ Told(r, "reject") /\ UNCHANGED sending
  /\ UNCHANGED <<row, card, tapped, phase, shown, resolver, expiring, stale, taps,
                 handling, inbox, box, recorded, unsent, exposed, countVars>>

\* ask_user_question: the card is written to messages_out, the call polls.
AskUserQuestion(q) ==
  /\ box /\ q \in Question \cap togo
  /\ asked' = asked \cup {q} /\ togo' = togo \ {q}
  /\ UNCHANGED <<row, card, tapped, hostVars, toldVars, inbox, box, recorded,
                 countVars>>

\* Its delivery: the row is inserted unless it is there, then the card is sent.
\* After an attempt that threw, or that the host did not survive, both happen
\* again, also when the first card has been answered.
DeliverQuestion(q) ==
  /\ phase = "ready" /\ q \in (Question \cap asked) \ (sending \cup recorded)
  /\ row' = [row EXCEPT ![q] = "pending"]
  /\ sending' = sending \cup {q}
  /\ UNCHANGED <<card, tapped, phase, shown, resolver, expiring, stale, taps, handling,
                 askVars, countVars>>

\* The card is on the screen; the host has not heard of it yet.
CardAppears(r) ==
  /\ r \in sending \ shown
  /\ shown' = shown \cup {r}
  /\ card' = [card EXCEPT ![r] = "buttons"]
  /\ UNCHANGED <<row, tapped, phase, sending, resolver, expiring, stale, taps, handling,
                 askVars, countVars>>

\* The host hears of it: only now handleRequest inserts the row and the
\* resolver, and only now a question has its delivered row.
Sent(r) ==
  /\ r \in shown
  /\ sending' = sending \ {r} /\ shown' = shown \ {r}
  /\ IF r \in Credential
       THEN /\ row' = [row EXCEPT ![r] = "pending"]
            /\ resolver' = resolver \cup {r}
       ELSE UNCHANGED <<row, resolver>>
  /\ recorded' = recorded \cup ({r} \cap Question)
  /\ UNCHANGED <<card, tapped, phase, expiring, stale, taps, handling, togo, asked,
                 toldVars, inbox, box, countVars>>

\* The delivery of the card throws, before or after the platform showed it.  The
\* agent is told that its action could not be asked for, but the row stays, and
\* a card that was shown can be answered; the gateway is told to deny; the
\* delivery of a question is tried again, or given up.
SendFails(r) ==
  /\ r \in sending /\ failures < MaxFailures
  /\ failures' = failures + 1
  /\ sending' = sending \ {r} /\ shown' = shown \ {r}
  /\ IF r \in Question THEN UNCHANGED <<told, verdicts>> ELSE Told(r, "reject")
  /\ unsent' = unsent \cup ({r} \cap Action)
  /\ exposed' = exposed \cup ({r} \cap Action \cap shown)
  /\ recorded' \in {recorded, recorded \cup ({r} \cap Question)}
  /\ UNCHANGED <<row, card, tapped, phase, resolver, expiring, stale, taps, handling,
                 togo, asked, inbox, box, restarts>>

-----------------------------------------------------------------------------
(* Answering.                                                              *)

\* A tap: the bridge looks the button up in the row's options, which are not
\* there when the row is not, and starts to edit the card.  The buttons are on
\* the screen until the edit is over: a second click finds them.
Tap(r, b) ==
  /\ phase # "down" /\ card[r] = "buttons"
  /\ tapped' = [tapped EXCEPT ![r] = @ \cup {b}]
  /\ \E n \in BOOLEAN :
       LET t == [of |-> r, meant |-> b, again |-> n,
                 value |-> IF row[r] = "none" THEN "index" ELSE b] IN
       /\ t \notin taps /\ Cardinality(taps) < MaxTaps
       /\ n => [t EXCEPT !.again = FALSE] \in taps
       /\ taps' = taps \cup {t}
  /\ UNCHANGED <<row, card, phase, sending, shown, resolver, expiring, stale, handling,
                 askVars, countVars>>

\* Mutant: whatever is not a rejection approves.
LenientDecision(t) == IF t.value = "reject" THEN "reject" ELSE "approve"

\* Only the value "approve" approves.
Decision(t) == IF t.value = "approve" THEN "approve" ELSE "reject"

\* resolveOneCLIApproval: the resolver and the row go, the gateway is told.
ResolveCredential(t) ==
  /\ t.of \in resolver
  /\ resolver' = resolver \ {t.of}
  /\ row' = [row EXCEPT ![t.of] = "none"]
  /\ Told(t.of, Decision(t))
  /\ UNCHANGED <<handling, inbox, exposed>>

\* The row of a credential outlived its resolver: it is dropped.
DropCredential(t) ==
  /\ t.of \in Credential \ resolver /\ row[t.of] # "none"
  /\ row' = [row EXCEPT ![t.of] = "none"]
  /\ UNCHANGED <<resolver, told, verdicts, handling, inbox, exposed>>

\* Mutant: the row is marked and kept.
MarkRow(r) == row' = [row EXCEPT ![r] = "approved"]

\* Mutant: the row of an action outlives its handler.
KeepRow(r) == UNCHANGED row

\* deletePendingApproval.
DeleteRow(r) == row' = [row EXCEPT ![r] = "none"]

\* The row of an action is there: this tap will be answered.
Answerable(t) == t.of \in Action /\ row[t.of] # "none"

\* handleRegisteredApproval.  A rejection is told, and the handlers of self-mod
\* run, with no await before the row is deleted: the image of a package is built
\* by an execSync.  A handler that awaits leaves the row for a second tap.
AnswerAction(t) ==
  /\ Answerable(t)
  /\ IF t.of \in Yielding /\ Decision(t) = "approve"
       THEN handling' = handling \cup {t} /\ UNCHANGED <<row, told, verdicts>>
       ELSE Told(t.of, Decision(t)) /\ DeleteRow(t.of) /\ UNCHANGED handling
  /\ exposed' = IF \E h \in handling : h.of = t.of THEN exposed \cup {t.of} ELSE exposed
  /\ UNCHANGED <<resolver, inbox>>

\* handleInteractiveResponse: the answer is written to the session, the row
\* goes, the container is woken.
AnswerQuestion(t) ==
  /\ t.of \in Question /\ row[t.of] # "none"
  /\ inbox' = [inbox EXCEPT ![t.of] = "pending"]
  /\ row' = [row EXCEPT ![t.of] = "none"]
  /\ UNCHANGED <<resolver, told, verdicts, handling, exposed>>

Unclaimed(t) ==
  /\ row[t.of] = "none" /\ t.of \notin resolver
  /\ UNCHANGED <<row, resolver, told, verdicts, handling, inbox, exposed>>

\* The edit is over; the answer goes to the first handler that claims it.
Dispatch(t) ==
  /\ taps' = taps \ {t}
  /\ \/ card' = [card EXCEPT ![t.of] = "answered"] /\ UNCHANGED failures
     \/ /\ failures < MaxFailures /\ failures' = failures + 1
        /\ UNCHANGED card
  /\ \/ ResolveCredential(t)
     \/ DropCredential(t)
     \/ AnswerAction(t)
     \/ AnswerQuestion(t)
     \/ Unclaimed(t)
  /\ box' = (box \/ (t.of \in Action \cup Question /\ row[t.of] # "none"))
  /\ UNCHANGED <<tapped, phase, sending, shown, expiring, stale, togo, asked, recorded,
                 unsent, restarts>>

\* The handler comes back, having done what was asked; the row goes.
HandlerReturns(t) ==
  /\ t \in handling
  /\ handling' = handling \ {t}
  /\ Told(t.of, Decision(t))
  /\ DeleteRow(t.of)
  /\ box' = TRUE
  /\ UNCHANGED <<card, tapped, phase, sending, shown, resolver, expiring, stale, taps,
                 togo, asked, inbox, recorded, unsent, exposed, countVars>>

\* A handler throws and so does the notify of its catch block, or the notify of a
\* rejection throws: what was done is done, the row stays.
AnswerThrows(t) ==
  /\ \/ t \in taps /\ Answerable(t)
        /\ taps' = taps \ {t} /\ UNCHANGED handling
     \/ t \in handling
        /\ handling' = handling \ {t} /\ UNCHANGED taps
  /\ failures < MaxFailures /\ failures' = failures + 1
  /\ card' = [card EXCEPT ![t.of] = "answered"]
  /\ \/ /\ Decision(t) = "approve" /\ Told(t.of, "approve")
        /\ exposed' = exposed \cup {t.of}
     \/ UNCHANGED <<told, verdicts, exposed>>
  /\ UNCHANGED <<row, tapped, phase, sending, shown, resolver, expiring, stale, togo,
                 asked, inbox, box, recorded, unsent, restarts>>

\* The process dies, or is told to stop: its memory is gone, rows and cards stay.
\* It may die between what an answer does and the deletion of its row, also in
\* the minutes an image is built; of several answers at most one is cut there.
HostDies ==
  /\ phase # "down" /\ restarts < MaxRestarts
  /\ restarts' = restarts + 1
  /\ phase' = "down"
  /\ sending' = {} /\ shown' = {} /\ resolver' = {} /\ expiring' = {}
  /\ stale' = {} /\ taps' = {} /\ handling' = {}
  /\ \/ UNCHANGED <<told, verdicts, exposed>>
     \/ \E t \in handling \cup {u \in taps : Answerable(u)} :
          Told(t.of, Decision(t)) /\ exposed' = exposed \cup {t.of}
  /\ UNCHANGED <<row, card, tapped, togo, asked, inbox, box, recorded, unsent, failures>>

\* The timer of a credential: the gateway is told to deny, the row marked, the
\* edit of the card awaited.
Expire(r) ==
  /\ r \in resolver
  /\ resolver' = resolver \ {r}
  /\ row' = [row EXCEPT ![r] = "expired"]
  /\ expiring' = expiring \cup {r}
  /\ Told(r, "reject")
  /\ UNCHANGED <<card, tapped, phase, sending, shown, stale, taps, handling, togo,
                 asked, inbox, box, recorded, unsent, exposed, countVars>>

\* expireApproval after the edit, which may fail.
Expired(r) ==
  /\ r \in expiring
  /\ expiring' = expiring \ {r}
  /\ row' = [row EXCEPT ![r] = "none"]
  /\ \/ card' = [card EXCEPT ![r] = "expired"]
     \/ UNCHANGED card
  /\ UNCHANGED <<tapped, phase, sending, shown, resolver, stale, taps, handling,
                 askVars, countVars>>

-----------------------------------------------------------------------------
(* The asking agent's container.                                           *)

\* The poll of the tool call finds the answer, and acknowledges it.
Hear(q) ==
  /\ box /\ q \in asked /\ inbox[q] = "pending" /\ told[q] = {}
  /\ inbox' = [inbox EXCEPT ![q] = "completed"]
  /\ Told(q, "approve")
  /\ UNCHANGED <<row, card, tapped, hostVars, togo, asked, box, recorded, unsent,
                 exposed, countVars>>

\* The tool call gives up; the row and the card stay.
TimeOut(q) ==
  /\ box /\ q \in asked /\ told[q] = {}
  /\ Told(q, "timeout")
  /\ UNCHANGED <<row, card, tapped, hostVars, togo, asked, inbox, box, recorded, unsent,
                 exposed, countVars>>

\* The container starts for another message, or because the sweep finds rows
\* due: an answer is one of them.
Wake ==
  /\ ~box /\ phase = "ready"
  /\ \/ \E q \in Question : inbox[q] = "pending" \/ q \in togo
  /\ box' = TRUE
  /\ UNCHANGED <<row, card, tapped, hostVars, togo, asked, toldVars, inbox, recorded,
                 countVars>>

\* The container goes: its poll loop skips answers, so nothing keeps it but a
\* call that is waiting, which dies with it when the host kills it.
Sleep ==
  /\ box
  /\ LET waiting == {q \in Question \cap asked : told[q] = {}} IN
     \/ waiting = {} /\ UNCHANGED <<told, failures>>
     \/ /\ failures < MaxFailures /\ failures' = failures + 1
        /\ told' = [r \in Request |-> IF r \in waiting THEN {"timeout"} ELSE told[r]]
  /\ box' = FALSE
  /\ UNCHANGED <<row, card, tapped, hostVars, togo, asked, verdicts, unsent, exposed,
                 inbox, recorded, restarts>>

Next ==
  \/ AdaptersUp \/ DeliveryUp \/ HostDies \/ Wake \/ Sleep
  \/ \E r \in Request :
       \/ RequestApproval(r) \/ HandleRequest(r) \/ CardAppears(r) \/ Sent(r)
       \/ SendFails(r) \/ SweepStale(r) \/ Expire(r) \/ Expired(r)
       \/ \E b \in Button : Tap(r, b)
  \/ \E q \in Question :
       AskUserQuestion(q) \/ DeliverQuestion(q) \/ Hear(q) \/ TimeOut(q)
  \/ \E t \in Tapped : (t \in taps /\ Dispatch(t)) \/ HandlerReturns(t) \/ AnswerThrows(t)

Spec == Init /\ [][Next]_vars

\* The host starts up, its timers fire, its awaits come back, as far as it is
\* left alone; the sweep wakes the container and an idle container is stopped.
Fairness ==
  /\ WF_vars(AdaptersUp) /\ WF_vars(DeliveryUp)
  /\ WF_vars(Wake) /\ WF_vars(Sleep)
  /\ \A r \in Request : WF_vars(CardAppears(r)) /\ WF_vars(Sent(r))
  /\ \A r \in Credential :
       WF_vars(SweepStale(r)) /\ WF_vars(Expire(r)) /\ WF_vars(Expired(r))
  /\ \A q \in Question : WF_vars(Hear(q))

FairSpec == Spec /\ Fairness

-----------------------------------------------------------------------------
\* An action is carried out, and a credential let through, on a tap of Approve
\* only; and the agent hears of a refusal on a tap of Reject, or because the host
\* took its request for one that could not be sent: whatever the order of the
\* tap, the row and the restart, a tap of Approve never refuses an action.
VerdictOfApprover ==
  \A r \in Action \cup Credential :
    /\ "approve" \in told[r] => "approve" \in tapped[r]
    /\ r \in Action /\ "reject" \in told[r] => "reject" \in tapped[r] \/ r \in unsent

\* However often a card is tapped, the gateway is told once, and an action is
\* handled once, unless its verdict and its row came apart: the delivery of the
\* card threw after it was shown, the host died or the notify threw between what
\* the answer did and the deletion of the row, or a second tap met the row while
\* a handler awaited.  Only in these four windows can an action run twice, or run
\* after its agent was told that it failed.
OneVerdict ==
  \A r \in Action \cup Credential : verdicts[r] <= 1 \/ r \in exposed

\* While the host is up and its start-up sweep is over, each row of a
\* credential has a resolver with its timer, or an expiry on its way: no row
\* is left that nothing will ever take away.
NoOrphanRow ==
  phase = "ready" =>
    \A r \in Credential : row[r] # "none" => r \in resolver \cup expiring \cup stale

\* Whatever dies in between, the row of a credential goes in the end.
CredentialsSettle ==
  \A r \in Credential : (row[r] # "none") ~> (row[r] = "none")
=============================================================================
