----------------------------- MODULE MCDelivery -----------------------------
(***************************************************************************)
(* Small instances of Delivery: one session with three rows for safety,    *)
(* two sessions with a row each for liveness.                              *)
(***************************************************************************)
EXTENDS Delivery

CONSTANTS s1, s2, c1

None == {}

\* One session: row 2 is a system action, row 3 is written for later.
OneSession   == {s1}
ThreeRows    == 1 .. 3
OneSessionOf == [m \in ThreeRows |-> s1]
OneChannel   == {c1}
OneChannelOf == [m \in ThreeRows |-> IF m = 2 THEN Internal ELSE c1]
LastDeferred == {3}

\* Two sessions: row 1 goes to c1, the channel that may hang; row 2 is a
\* system action of the other session.
TwoSessions   == {s1, s2}
TwoRows       == 1 .. 2
TwoSessionsOf == [m \in TwoRows |-> IF m = 1 THEN s1 ELSE s2]
TwoRoutes     == [m \in TwoRows |-> IF m = 1 THEN c1 ELSE Internal]
FirstHung     == {c1}
=============================================================================
