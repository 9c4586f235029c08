----------------------------- MODULE MCKeyAccess -----------------------------
(***************************************************************************)
(* Instance of KeyAccess for TLC: one key of two requests a minute.        *)
(* Requests are interchangeable, and so are the gateway instances.         *)
(***************************************************************************)
EXTENDS KeyAccess, TLC

CONSTANT k

MCRpm == k :> 2

Symmetry == Permutations(Request) \cup Permutations(Instance)
=============================================================================
