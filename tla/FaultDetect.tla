---------------------------- MODULE FaultDetect ----------------------------
(***************************************************************************)
(* The detection half of main/fault_manager.c: which fault one call of     *)
(* fault_manager_observe leaves active, and the heating-response tracker   *)
(* it keeps.  The alert and log half (s_notified, the log throttle) is in  *)
(* Alerts, which uses these operators too.                                 *)
(*                                                                         *)
(* Temperatures are abstracted to what the code's tests tell apart.  The   *)
(* observed heating rate of a cycle is one of four classes:                *)
(*   "none"  observed <= 0                                                 *)
(*   "low"   0 < observed < expected / 2                                   *)
(*   "fair"  not low, and still observed < learned / 2                     *)
(*   "good"  not low, and observed >= learned / 2                          *)
(***************************************************************************)
EXTENDS Integers

CONSTANT GraceCeiling    \* the longest grace period a configuration can hold

ASSUME GraceCeilingAssumption == GraceCeiling \in Nat

HeatFaults == {"NO_HEAT_RISE", "LOW_HEAT_RISE"}
Faults     == {"NONE", "SENSOR_IFACE", "STORAGE", "NETWORK"} \cup HeatFaults
Rises      == {"none", "low", "fair", "good"}

(* s_heating_was_active, the time since s_heat_start_us, and whether
   s_heat_start_temp is a number. *)
HeatTrack == [active : BOOLEAN, since : Nat, known : BOOLEAN]

NoHeatTrack == [active |-> FALSE, since |-> 0, known |-> FALSE]

(* The tracker after an observation dt seconds after the previous one.  The
   age of a heating cycle matters only up to one past the longest grace
   period, and neither it nor the start temperature while not heating. *)
TrackHeat(h, heating, tempKnown, dt) ==
  IF ~heating THEN NoHeatTrack
  ELSE IF ~h.active THEN [active |-> TRUE, since |-> 0, known |-> tempKnown]
  ELSE [h EXCEPT !.since = IF @ + dt > GraceCeiling THEN GraceCeiling + 1 ELSE @ + dt]

(* The heating response is judged only while heating, past the grace period,
   between two known temperatures. *)
Judged(h, heating, tempKnown, grace) ==
  heating /\ tempKnown /\ h.known /\ h.since > grace

(* fault_manager_observe after the tracker's update: the fault active
   afterwards.  The checks are made in order and a raise returns at once;
   raising replaces whatever was active. *)
NextFault(f, healthy, storageUp, networkUp, judged, rise) ==
  IF ~healthy THEN "SENSOR_IFACE"
  ELSE IF ~storageUp THEN "STORAGE"
  ELSE IF judged /\ rise = "none" THEN "NO_HEAT_RISE"
  ELSE IF judged /\ rise = "low" THEN "LOW_HEAT_RISE"
  ELSE IF ~networkUp /\ f = "NONE" THEN "NETWORK"
  ELSE IF \/ networkUp /\ f = "NETWORK"
          \/ f = "SENSOR_IFACE"
          \/ f \in HeatFaults /\ judged /\ rise = "good"
       THEN "NONE"
  ELSE f
=============================================================================
