-------------------------- MODULE MCBillingRoutes --------------------------
(***************************************************************************)
(* Instance of BillingRoutes for TLC.  Requests are interchangeable, so    *)
(* are keys, and so are nodes.                                             *)
(***************************************************************************)
EXTENDS BillingRoutes, TLC

Symmetry == Permutations(Request) \cup Permutations(Key) \cup Permutations(Node)
=============================================================================
