--------------------------- MODULE ControlClaims ---------------------------
(***************************************************************************)
(* What the repository's own documents and comments say of the control     *)
(* engine and what the code does not do: each of these properties is       *)
(* violated by ControlEngine, and the run that shows it is listed with the *)
(* sentence it contradicts.                                                *)
(***************************************************************************)
EXTENDS ControlEngine

(* README: the kill switch has the highest priority, relay off.  Disabling
   during HEATING starts an overrun that pulses the line. *)
KillSwitchCutsLine == disabled => ~out.gpio
=============================================================================
