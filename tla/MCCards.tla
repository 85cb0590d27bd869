------------------------------ MODULE MCCards ------------------------------
(***************************************************************************)
(* An action and a credential at the same time, an action whose handler    *)
(* awaits, a question, or two credentials: what the requests share is the  *)
(* host that dies.                                                         *)
(***************************************************************************)
EXTENDS Cards

MCWorkload == {{"install", "gmail"}, {"command"}, {"which"}, {"gmail", "drive"}}
=============================================================================
