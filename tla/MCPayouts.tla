------------------------------ MODULE MCPayouts ------------------------------
(***************************************************************************)
(* Instance of Payouts for TLC: days of three ticks, the first two in the  *)
(* hour of payouts.  Providers get equal shares and are interchangeable.   *)
(***************************************************************************)
EXTENDS Payouts, TLC

Symmetry == Permutations(Account)
=============================================================================
