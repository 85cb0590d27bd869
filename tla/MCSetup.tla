------------------------------- MODULE MCSetup -------------------------------
(***************************************************************************)
(* The wizard with an app of each sort: a bot that is paired, a device     *)
(* that is linked, a flow that awaits no failure, one that wires nothing.  *)
(***************************************************************************)
EXTENDS Setup

MCOffered == {"telegram", "signal", "whatsapp", "teams"}
=============================================================================
