--------------------------- MODULE ControlHistory ---------------------------
(***************************************************************************)
(* ControlEngine with history variables: clocks that measure what really   *)
(* happened to the relay command, kept apart from the counters the code    *)
(* decides with.  They are read by no action of the engine.  Each clock    *)
(* runs in the time of the control loop and stops at HistoryCap.           *)
(***************************************************************************)
EXTENDS ControlEngine

CONSTANTS
  HistoryCap,     \* where the clocks stop
  MaxOnCeiling,   \* the longest max_on_sec that can be in force
  StepCeiling,    \* the longest (scaled) tick
  SettleCeiling   \* the longest min_on_sec or anti_osc_lock_sec in force

ASSUME HistoryAssumption ==
  /\ HistoryCap \in Pos /\ MaxOnCeiling \in Pos /\ StepCeiling \in Pos
  /\ SettleCeiling \in Pos
  /\ \A d \in Dts : d <= StepCeiling /\ d * SimScale <= StepCeiling
  /\ Default["maxOn"] <= MaxOnCeiling
  /\ \A v \in Accepts["maxOn"] : v <= MaxOnCeiling
  /\ MaxOnCeiling + StepCeiling <= HistoryCap /\ HistoryCap <= IntMax
  /\ \A f \in {"minOn", "antiOsc"} :
       Default[f] <= SettleCeiling /\ \A v \in Accepts[f] : v <= SettleCeiling
  /\ \A f \in {"minOn", "minOff", "antiOsc", "breakFor"} :
       Default[f] <= HistoryCap /\ \A v \in Accepts[f] : v <= HistoryCap

VARIABLES
  quiet,      \* how long the relay command has been off
  lit,        \* how long every tick has left it on
  forced,     \* a boost or an emergency cycle has kept it on since it went on
  tripAge,    \* time since the last max-on cut-off
  tripBreak,  \* the break that was due then
  hotFor      \* how long the thermostat has heated with the house already hot

history == <<quiet, lit, forced, tripAge, tripBreak, hotFor>>
hvars   == <<vars, history>>

Clock == 0 .. HistoryCap

HistoryTypeOK ==
  /\ quiet \in Clock /\ lit \in Clock /\ forced \in BOOLEAN
  /\ tripAge \in Clock /\ tripBreak \in Clock /\ hotFor \in Clock

Advance(c, d) == IF c + d > HistoryCap THEN HistoryCap ELSE c + d

HInit ==
  /\ Init
  /\ quiet = 0 /\ lit = 0 /\ forced = FALSE
  /\ tripAge = 0 /\ tripBreak = 0 /\ hotFor = 0

(* A tick whose mode is the thermostat and that finds the limit reached. *)
Tripped(dt, r) == Regulating /\ TripsMaxOn(r.temp, relay, dt)

Elapse(dt, r) ==
  LET d == Scaled(dt)
  IN  /\ quiet' = IF relay' THEN 0 ELSE Advance(quiet, d)
      /\ lit' = IF relay' THEN Advance(lit, d) ELSE 0
      /\ forced' = (relay' /\ (\/ relay /\ forced
                               \/ Cycling
                               \/ Boosting /\ boost'))
      /\ tripAge' = IF Tripped(dt, r) THEN 0 ELSE Advance(tripAge, d)
      /\ tripBreak' = IF Tripped(dt, r) THEN Limit("breakFor") ELSE tripBreak
      /\ hotFor' = IF /\ Regulating /\ relay /\ relay' /\ r.temp = "hot"
                      /\ lit < HistoryCap
                   THEN Advance(hotFor, d) ELSE 0

HTick ==
  \E dt \in Dts, r \in Readings, rise \in RiseInputs :
    ControlTick(dt, r, rise) /\ Elapse(dt, r)

HCommand ==
  /\ WebCommand \/ NetworkChange
  /\ UNCHANGED history

(* A restart forgets the break; the relay it releases starts to be off. *)
HRestart ==
  /\ Restart
  /\ quiet' = 0 /\ lit' = 0 /\ forced' = FALSE
  /\ tripAge' = 0 /\ tripBreak' = 0 /\ hotFor' = 0

HNext == HTick \/ HCommand \/ HRestart

HSpec == HInit /\ [][HNext]_hvars

-----------------------------------------------------------------------------
(* Properties *)

(* The thermostat, also when it takes over from an expired boost, turns the
   furnace on... *)
ThermostatOn == ~relay /\ relay' /\ (Regulating \/ (Boosting /\ ~boost'))

(* ... and the thermostat turns it off on a usable reading. *)
ThermostatOff ==
  /\ relay /\ ~relay' /\ Regulating
  /\ ~disabled' /\ reading'.temp # "nan"

(* Short cycling: whatever boosts, kills, emergency cycles and faults come in
   between, the thermostat starts the furnace only after it has really been
   off for min_off_sec.  s_off_ms is the counter the code trusts for it, and
   neither its reset at a boost nor its overflow makes it run ahead. *)
MinOffRespected == [][ThermostatOn => quiet >= Limit("minOff")]_hvars

(* The forced break: the thermostat does not start the furnace before the
   break that the last max-on cut-off asked for is over, also when a boost
   interrupted the break or the limits were edited meanwhile. *)
BreakRespected == [][ThermostatOn => tripAge' >= tripBreak]_hvars

(* Once started, the furnace is not turned off by a usable reading before
   min_on_sec, except to take or resume the forced break. *)
MinOnRespected ==
  [][ThermostatOff => lit >= Limit("minOn") \/ tripAge' = 0 \/ breakLeft > 0]_hvars

(* Unattended heating is bounded: as long as no boost and no emergency cycle
   took part, the furnace never burns longer without a pause than the max-on
   limit, plus the tick that notices. *)
UnattendedHeatingBounded == relay /\ ~forced => lit < MaxOnCeiling + StepCeiling

(* The house is not overheated: with the house hot, the thermostat releases
   the furnace as soon as min_on_sec and the anti-oscillation lock allow
   (in a burn short enough for s_on_ms not to have overflowed). *)
OvershootBounded == hotFor < SettleCeiling + StepCeiling

(* A cold house is heated: nothing but min_off_sec, the lock and the break
   keeps the thermostat from starting the furnace. *)
ColdHouseIsHeated ==
  [][~(/\ Regulating /\ ~relay /\ ~relay' /\ reading'.temp = "cold"
       /\ offFor' # offFor /\ quiet >= Limit("minOff")
       /\ antiOsc = 0 /\ breakLeft = 0)]_hvars
=============================================================================
