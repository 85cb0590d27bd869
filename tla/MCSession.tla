------------------------------ MODULE MCSession ------------------------------
(***************************************************************************)
(* Small instances of SessionLifecycle.                                    *)
(***************************************************************************)
EXTENDS SessionLifecycle, TLC

CONSTANTS c1, c2

None == {}
Slots == {c1, c2}

Rows1 == {1}
Rows2 == {1, 2}
Rows3 == {1, 2, 3}
First == {1}
Second == {2}
Third == {3}
Outer == {1, 3}

\* Bound of session_safety: once a `docker stop` has failed, the third row is not
\* written any more.
StraysBound == stopFailures > 0 => status[3] = "absent"

SlotSymmetry == Permutations(Slots)
=============================================================================
