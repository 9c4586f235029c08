------------------------- MODULE MCAgentRegistration -------------------------
(***************************************************************************)
(* Instance of AgentRegistration for TLC, with the program's intervals in  *)
(* units of 2 seconds.                                                     *)
(***************************************************************************)
EXTENDS AgentRegistration
=============================================================================
