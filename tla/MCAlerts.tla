------------------------------ MODULE MCAlerts ------------------------------
(* Small values for Alerts: a fault that comes and goes with the network, and
   the restart notice. *)
EXTENDS Alerts

MCEvents == {"NETWORK", Restart}

Fine == [healthy |-> TRUE, storageUp |-> TRUE, judged |-> FALSE, rise |-> "good"]

MCContexts == {Fine}

All == [mail |-> TRUE, sms |-> FALSE, faults |-> TRUE, restart |-> TRUE]

MCSettings == {All, [All EXCEPT !.mail = FALSE, !.sms = TRUE], [All EXCEPT !.faults = FALSE]}
=============================================================================
