------------------------------ MODULE MCClaims ------------------------------
(* Small values for ControlClaims. *)
EXTENDS MCControl, ControlClaims
=============================================================================
