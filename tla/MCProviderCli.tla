---------------------------- MODULE MCProviderCli ----------------------------
(***************************************************************************)
(* Instance of ProviderCli for TLC.  Without symmetry: it is not sound     *)
(* for AddressSettles.                                                     *)
(***************************************************************************)
EXTENDS ProviderCli
=============================================================================
