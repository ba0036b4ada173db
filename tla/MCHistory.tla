----------------------------- MODULE MCHistory -----------------------------
(* Small values for ControlHistory. *)
EXTENDS MCControl, ControlHistory
=============================================================================
