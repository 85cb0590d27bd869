---------------------------- MODULE MCScheduling ----------------------------
(***************************************************************************)
(* A small instance of Scheduling: every history of three rows, which is   *)
(* one series of three occurrences, or two series one of which recurs.     *)
(***************************************************************************)
EXTENDS Scheduling

Rows3 == 1 .. 3
=============================================================================
