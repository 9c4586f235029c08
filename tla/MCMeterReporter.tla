--------------------------- MODULE MCMeterReporter ---------------------------
(***************************************************************************)
(* Instances of MeterReporter for TLC.                                     *)
(***************************************************************************)
EXTENDS MeterReporter, TLC

Symmetry == Permutations(Instance) \cup Permutations(Customer)
=============================================================================
