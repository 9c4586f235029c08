--------------------------- MODULE MCNodeRegistry ---------------------------
(***************************************************************************)
(* Instance of NodeRegistry for TLC.  Gateway instances are                *)
(* interchangeable.                                                        *)
(***************************************************************************)
EXTENDS NodeRegistry, TLC

Symmetry == Permutations(Instance)
=============================================================================
