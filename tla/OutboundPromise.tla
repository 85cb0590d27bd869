--------------------------- MODULE OutboundPromise ---------------------------
(***************************************************************************)
(* What the host promises about the rows of messages_out, without poll     *)
(* chains, batches or counters: a row is queued until it is recorded, it   *)
(* takes effect only while queued, one call at a time, and a second effect *)
(* needs a first one whose outcome was lost.  Delivery implements it.      *)
(***************************************************************************)
EXTENDS Naturals

CONSTANT Message

VARIABLES
  status,    \* "unwritten", "queued", "delivered" or "failed"
  open,      \* TRUE while a call that took effect has not settled
  effects,   \* how often the row took effect
  lost       \* how often it did with the outcome lost

vars == <<status, open, effects, lost>>

Init ==
  /\ status = [m \in Message |-> "unwritten"]
  /\ open = [m \in Message |-> FALSE]
  /\ effects = [m \in Message |-> 0]
  /\ lost = [m \in Message |-> 0]

Submit(m) ==
  /\ status[m] = "unwritten"
  /\ status' = [status EXCEPT ![m] = "queued"]
  /\ UNCHANGED <<open, effects, lost>>

TakeEffect(m) ==
  /\ status[m] = "queued" /\ ~open[m]
  /\ open' = [open EXCEPT ![m] = TRUE]
  /\ effects' = [effects EXCEPT ![m] = @ + 1]
  /\ UNCHANGED <<status, lost>>

\* The row is recorded as delivered, also when it had nowhere to go.
Settle(m) ==
  /\ status[m] = "queued"
  /\ status' = [status EXCEPT ![m] = "delivered"]
  /\ open' = [open EXCEPT ![m] = FALSE]
  /\ UNCHANGED <<effects, lost>>

\* An attempt throws; the row stays queued or, the budget spent, is given up.
Fail(m) ==
  /\ status[m] = "queued"
  /\ status' \in {status, [status EXCEPT ![m] = "failed"]}
  /\ open' = [open EXCEPT ![m] = FALSE]
  /\ lost' = IF open[m] THEN [lost EXCEPT ![m] = @ + 1] ELSE lost
  /\ UNCHANGED effects

\* The host dies: the outcome of every open call is lost.
Crash ==
  /\ open' = [m \in Message |-> FALSE]
  /\ lost' = [m \in Message |-> IF open[m] THEN lost[m] + 1 ELSE lost[m]]
  /\ UNCHANGED <<status, effects>>

Next ==
  \/ \E m \in Message : Submit(m) \/ TakeEffect(m) \/ Settle(m) \/ Fail(m)
  \/ Crash

Spec == Init /\ [][Next]_vars
=============================================================================
