--------------------------- MODULE ControlEngine ---------------------------
(***************************************************************************)
(* The heating control engine (main/control_engine.c) composed with the    *)
(* relay output (heating_output.c), the fault detection it consults and    *)
(* feeds (fault_manager.c), the configuration it shares with the web API   *)
(* (web_ui_api.c), and the NVS copy of that configuration                  *)
(* (storage_manager.c).                                                    *)
(*                                                                         *)
(* The control task and every web handler hold he_config_lock around their *)
(* whole body, so one tick and one handler are each one action and their   *)
(* interleavings are the behaviours of Next.  The Wi-Fi event handler sets *)
(* the network flag without the lock: an action of its own, between any    *)
(* two others.                                                             *)
(*                                                                         *)
(* Temperatures are abstracted to their position relative to the profile   *)
(* hour in force: "cold" is <= on_temp, "hot" is >= off_temp, "mid" is in  *)
(* between (profile_validate keeps on_temp below off_temp) and "nan" is no *)
(* usable reading.  A reading may change arbitrarily from one poll to the  *)
(* next, which also covers a profile edit and the change of the hour.      *)
(*                                                                         *)
(* A definition marked "Slip" is a wrong form of the one after it, the way *)
(* a bug in that code would have it.  No specification uses it: it is      *)
(* there to show that the properties notice (see README, "Mutants").       *)
(***************************************************************************)
EXTENDS HeatingOutput, FaultDetect

CONSTANTS
  Dts,              \* lengths a control tick can have
  SimScale,         \* HE_SIM_TIME_SCALE
  BoostFor,         \* HE_BOOST_DURATION_SEC
  LeastValid,       \* below it control_engine.c uses Default instead, by limit
  Accepts,          \* values /api/limits and repair_config accept, by limit
  Readings,         \* what sensor_manager can report, [temp, healthy]
  RiseInputs,       \* classes of observed heating rate
  PumpInputs,       \* bodies of POST /api/pump
  EmergencyInputs,  \* bodies of POST /api/emergency
  LimitInputs,      \* bodies of POST /api/limits
  SimInputs,        \* bodies of POST /api/sim/heating
  SaveResults,      \* outcomes of storage_save_config
  MountResults,     \* outcomes of storage_init
  InitConfigs       \* configurations the first boot can load or seed

LimitNames == {"grace", "maxOn", "breakFor", "minOn", "minOff", "antiOsc"}
Limits     == [LimitNames -> Int]

EmergencyCfg == [enabled : BOOLEAN, on : Int, period : Int, onFault : BOOLEAN]

(* The fields of system_config_t the control layer reads. *)
Config == [sim : BOOLEAN, accel : BOOLEAN, pump : PumpCfg,
           emergency : EmergencyCfg, limits : Limits]

SimBody == [enabled : BOOLEAN, mixed : BOOLEAN, accel : BOOLEAN]

Reading == {r \in [temp : {"cold", "mid", "hot", "nan"}, healthy : BOOLEAN] :
              r.healthy \/ r.temp = "nan"}

ASSUME TimingAssumption ==
  /\ Dts \subseteq Pos /\ SimScale \in Pos /\ BoostFor \in Pos

ASSUME DefaultAssumption ==
  /\ \A f \in LimitNames : Default[f] \in Pos
  /\ LeastValid \in [LimitNames -> Pos]
  /\ Default.emPeriod \in Pos /\ Default.emOn \in Pos

ASSUME AcceptsAssumption ==
  /\ \A f \in LimitNames : \A v \in Accepts[f] : v \in Int /\ v >= LeastValid[f]
  /\ Default.grace <= GraceCeiling
  /\ \A v \in Accepts["grace"] : v <= GraceCeiling

ASSUME InputAssumption ==
  /\ Readings \subseteq Reading /\ RiseInputs \subseteq Rises
  /\ PumpInputs \subseteq PumpCfg /\ EmergencyInputs \subseteq EmergencyCfg
  /\ LimitInputs \subseteq Limits /\ SimInputs \subseteq SimBody
  /\ SaveResults \subseteq {"ok", "failed", "notOpened"}
  /\ MountResults \subseteq BOOLEAN
  /\ \A c \in InitConfigs :
       c \in Config /\ \A f \in LimitNames : c.limits[f] \in Accepts[f]

VARIABLES
  state,      \* s_state
  wouldBe,    \* s_would_be
  relay,      \* s_relay
  boost,      \* s_boost
  boostLeft,  \* s_boost_remaining_ms
  disabled,   \* s_disabled
  onFor,      \* s_on_ms
  offFor,     \* s_off_ms
  antiOsc,    \* s_anti_osc_ms
  breakLeft,  \* s_max_on_break_ms
  emPhase,    \* s_em_phase_ms
  out,        \* the statics of heating_output.c
  fault,      \* s_fault of fault_manager.c
  heat,       \* its heating-response tracker
  netUp,      \* s_net_up
  reading,    \* what the last sensor_manager_poll left to read
  cfg,        \* g_cfg, the shared configuration in RAM
  nvs,        \* the configuration in NVS
  storageUp   \* storage_healthy()

timers  == <<onFor, offFor, antiOsc, breakLeft>>
engine  == <<state, wouldBe, relay, boost, boostLeft, disabled, emPhase, timers>>
monitor == <<fault, heat, netUp>>
store   == <<cfg, nvs, storageUp>>
vars    == <<engine, out, monitor, reading, store>>

States == {"IDLE", "HEATING", "PUMP_OVERRUN", "FAULT", "EMERGENCY_CYCLIC", "SIMULATION"}

TypeOK ==
  /\ state \in States
  /\ wouldBe \in States
  /\ relay \in BOOLEAN
  /\ boost \in BOOLEAN
  /\ boostLeft \in 0 .. BoostFor
  /\ disabled \in BOOLEAN
  /\ onFor \in Int
  /\ offFor \in Int
  /\ antiOsc \in Nat
  /\ breakLeft \in Nat
  /\ emPhase \in Nat
  /\ out \in OutputType
  /\ fault \in Faults
  /\ heat \in HeatTrack
  /\ netUp \in BOOLEAN
  /\ reading \in Reading
  /\ cfg \in Config
  /\ nvs \in Config
  /\ storageUp \in BOOLEAN

-----------------------------------------------------------------------------
(* Arithmetic and configuration helpers *)

(* int addition of two non-negative durations, or of a wrapped one. *)
Wrap(x) == IF x > IntMax THEN x - 2 * (IntMax + 1) ELSE x

(* Slip: no clamp at 0. *)
CountdownPastZero(x, d) == x - d
(* Slip: the last step is skipped instead of clamped. *)
CountdownSticks(x, d) == IF x > d THEN x - d ELSE x
(* A timer of the engine counts down to 0 and stays there. *)
Countdown(x, d) == IF x > d THEN x - d ELSE 0

(* A limit in milliseconds.  The code's product with 1000 would pass an int for
   limits that /api/limits refuses, and repair_config, which bounds no grace,
   max-on or break from above, would leave in a blob; a blob comes from there. *)
Limit(f) == IF cfg.limits[f] >= LeastValid[f] THEN cfg.limits[f] ELSE Default[f]

(* The time the control loop advances in a tick of dt seconds. *)
Scaled(dt) == IF cfg.sim /\ cfg.accel THEN dt * SimScale ELSE dt

Lock(dt)  == Countdown(antiOsc, Scaled(dt))
Break(dt) == Countdown(breakLeft, Scaled(dt))

-----------------------------------------------------------------------------
(* hysteresis_decision *)

(* Slip: the max-on limit is not looked at. *)
HeatUnlimited(temp, on, dt) ==
  /\ temp # "nan"
  /\ Break(dt) = 0
  /\ IF on THEN ~(temp = "hot" /\ onFor >= Limit("minOn") /\ Lock(dt) = 0)
     ELSE temp = "cold" /\ offFor >= Limit("minOff") /\ Lock(dt) = 0

(* Slip: min_on_sec and min_off_sec are not looked at. *)
HeatAtOnce(temp, on, dt) ==
  /\ temp # "nan"
  /\ Break(dt) = 0
  /\ IF on
     THEN onFor < Limit("maxOn") /\ ~(temp = "hot" /\ Lock(dt) = 0)
     ELSE temp = "cold" /\ Lock(dt) = 0

(* Slip: on_temp is not looked at. *)
HeatWhateverItIs(temp, on, dt) ==
  /\ temp # "nan"
  /\ Break(dt) = 0
  /\ IF on
     THEN /\ onFor < Limit("maxOn")
          /\ ~(temp = "hot" /\ onFor >= Limit("minOn") /\ Lock(dt) = 0)
     ELSE offFor >= Limit("minOff") /\ Lock(dt) = 0

(* The relay command the thermostat decides on. *)
HeatWanted(temp, on, dt) ==
  /\ temp # "nan"
  /\ Break(dt) = 0
  /\ IF on
     THEN /\ onFor < Limit("maxOn")
          /\ ~(temp = "hot" /\ onFor >= Limit("minOn") /\ Lock(dt) = 0)
     ELSE temp = "cold" /\ offFor >= Limit("minOff") /\ Lock(dt) = 0

TripsMaxOn(temp, on, dt) ==
  temp # "nan" /\ Break(dt) = 0 /\ on /\ onFor >= Limit("maxOn")

(* Slip: the cut-off takes no break. *)
BreakNotTaken(temp, on, dt) == Break(dt)

(* s_max_on_break_ms after the decision *)
BreakAfter(temp, on, dt) ==
  IF TripsMaxOn(temp, on, dt) THEN Limit("breakFor") ELSE Break(dt)

(* emergency_duty *)
DutyPeriod == DurationOr(cfg.emergency.period, Default.emPeriod)
DutyOn     == DurationOr(cfg.emergency.on, Default.emOn)
DutyPhase(dt) == (emPhase + Scaled(dt)) % DutyPeriod

-----------------------------------------------------------------------------
(* control_tick: the precedence of the five modes *)

Blocking  == fault \notin {"NONE", "NETWORK"}

(* Slip: the flag of the other emergency mode. *)
FaultDutyByMode == cfg.emergency.enabled /\ fault = "SENSOR_IFACE"

FaultDuty == cfg.emergency.onFault /\ fault = "SENSOR_IFACE"

Killed     == disabled

(* Slip: boost before the kill switch. *)
BoostFirst == boost

Boosting   == ~disabled /\ boost
Cycling    == ~disabled /\ ~boost /\ (cfg.emergency.enabled \/ FaultDuty)
Faulted    == ~disabled /\ ~boost /\ ~cfg.emergency.enabled /\ Blocking /\ ~FaultDuty
Regulating == ~disabled /\ ~boost /\ ~cfg.emergency.enabled /\ ~Blocking

(* fault_manager_observe, called at the end of a tick that left the relay
   command at "heating". *)
Observe(heating, r, rise, dt) ==
  LET h == TrackHeat(heat, heating, r.temp # "nan", dt)
  IN  /\ heat' = h
      /\ fault' = NextFault(fault, r.healthy, storageUp, netUp,
                            Judged(h, heating, r.temp # "nan", Limit("grace")), rise)

(* s_on_ms and s_off_ms after a tick that commanded the relay. *)
OnAfter(command, dt) == IF command THEN Wrap(onFor + Scaled(dt)) ELSE 0
OffAfter(command, dt) == IF command THEN 0 ELSE Wrap(offFor + Scaled(dt))

(* Slip: enter_state without its early return. *)
LockRearmed(target, ended, dt) == Limit("antiOsc")

(* s_anti_osc_ms after enter_state(target), and after enter_state(IDLE) when
   the overrun ended in this tick.  Simulation enters no state. *)
LockAfter(target, ended, dt) ==
  IF ~cfg.sim /\ (target # state \/ (ended /\ target # "IDLE"))
  THEN Limit("antiOsc") ELSE Lock(dt)

(* What every tick does once the mode has chosen a target state and relay
   command: start the pump overrun, drive the relay, track the durations,
   enter the state, run the overrun and report to the fault manager. *)
Settle(dt, r, rise, wanted, on) ==
  LET overrun == state = "HEATING" /\ wanted = "IDLE" /\ cfg.pump.enabled
      target  == IF overrun THEN "PUMP_OVERRUN" ELSE wanted
      command == on /\ ~overrun
      driven  == IF overrun THEN PumpStart(out, cfg.pump) ELSE SetRelay(out, command)
      entered == IF cfg.sim THEN "SIMULATION" ELSE target
      shadow  == IF cfg.sim THEN target ELSE wouldBe
      pumping == entered = "PUMP_OVERRUN" \/ shadow = "PUMP_OVERRUN"
      pumped  == IF pumping THEN PumpTick(driven, Scaled(dt)) ELSE driven
      ended   == pumping /\ ~pumped.pumping
  IN  /\ relay' = command
      /\ out' = pumped
      /\ onFor' = OnAfter(command, dt)
      /\ offFor' = OffAfter(command, dt)
      /\ wouldBe' = IF ended /\ cfg.sim THEN "IDLE" ELSE shadow
      /\ state' = IF ended /\ ~cfg.sim THEN "IDLE" ELSE entered
      /\ antiOsc' = LockAfter(target, ended, dt)
      /\ reading' = r
      /\ Observe(command, r, rise, dt)
      /\ UNCHANGED <<disabled, netUp, store>>

(* Precedence 1, the kill switch.  A boost in progress is frozen. *)
TickKilled(dt, r, rise) ==
  /\ Killed
  /\ breakLeft' = Break(dt)
  /\ Settle(dt, r, rise, "IDLE", FALSE)
  /\ UNCHANGED <<boost, boostLeft, emPhase>>

(* Precedence 2, a boost with time left after this tick... *)
TickBoost(dt, r, rise) ==
  /\ Boosting /\ boostLeft > Scaled(dt)
  /\ boostLeft' = boostLeft - Scaled(dt)
  /\ breakLeft' = Break(dt)
  /\ Settle(dt, r, rise, "HEATING", TRUE)
  /\ UNCHANGED <<boost, emPhase>>

(* ... and its last tick, which asks the hysteresis whether to heat as if
   the relay were off, and goes to IDLE whatever it answers. *)
TickBoostEnd(dt, r, rise) ==
  /\ Boosting /\ boostLeft <= Scaled(dt)
  /\ boost' = FALSE
  /\ boostLeft' = 0
  /\ breakLeft' = BreakAfter(r.temp, FALSE, dt)
  /\ Settle(dt, r, rise, "IDLE", HeatWanted(r.temp, FALSE, dt))
  /\ UNCHANGED emPhase

(* Precedences 3 and 4, the emergency duty cycle. *)
TickEmergency(dt, r, rise) ==
  /\ Cycling
  /\ emPhase' = DutyPhase(dt)
  /\ breakLeft' = Break(dt)
  /\ Settle(dt, r, rise, "EMERGENCY_CYCLIC", DutyPhase(dt) < DutyOn)
  /\ UNCHANGED <<boost, boostLeft>>

(* Precedence 4, a blocking fault. *)
TickFault(dt, r, rise) ==
  /\ Faulted
  /\ breakLeft' = Break(dt)
  /\ Settle(dt, r, rise, "FAULT", FALSE)
  /\ UNCHANGED <<boost, boostLeft, emPhase>>

(* Precedence 5, the hysteresis on the daily profile. *)
TickRegulate(dt, r, rise) ==
  /\ Regulating
  /\ breakLeft' = BreakAfter(r.temp, relay, dt)
  /\ LET on == HeatWanted(r.temp, relay, dt)
     IN  Settle(dt, r, rise, IF on THEN "HEATING" ELSE "IDLE", on)
  /\ UNCHANGED <<boost, boostLeft, emPhase>>

(* control_tick(dt) after a poll that left r to read. *)
ControlTick(dt, r, rise) ==
  \/ TickKilled(dt, r, rise)
  \/ TickBoost(dt, r, rise)
  \/ TickBoostEnd(dt, r, rise)
  \/ TickEmergency(dt, r, rise)
  \/ TickFault(dt, r, rise)
  \/ TickRegulate(dt, r, rise)

(* One iteration of control_task: poll, then tick, under the lock. *)
Tick == \E dt \in Dts, r \in Readings, rise \in RiseInputs : ControlTick(dt, r, rise)

-----------------------------------------------------------------------------
(* Commands of the web API *)

(* Slip: a request during a boost restarts its time. *)
RequestMore ==
  /\ boost' = TRUE
  /\ boostLeft' = BoostFor
  /\ UNCHANGED <<state, wouldBe, relay, disabled, timers, emPhase,
                 out, monitor, reading, store>>

RequestBoost ==
  /\ ~boost
  /\ boost' = TRUE
  /\ boostLeft' = BoostFor
  /\ UNCHANGED <<state, wouldBe, relay, disabled, timers, emPhase,
                 out, monitor, reading, store>>

(* Slip: cancelling leaves the remaining time. *)
CancelFlagOnly ==
  /\ boost' = FALSE
  /\ UNCHANGED <<state, wouldBe, relay, boostLeft, disabled, timers, emPhase,
                 out, monitor, reading, store>>

CancelBoost ==
  /\ boost' = FALSE
  /\ boostLeft' = 0
  /\ UNCHANGED <<state, wouldBe, relay, disabled, timers, emPhase,
                 out, monitor, reading, store>>

(* Slip: the line waits for the next tick. *)
DisableKeepsLine ==
  /\ disabled' = TRUE
  /\ relay' = FALSE
  /\ UNCHANGED <<state, wouldBe, boost, boostLeft, timers, emPhase,
                 out, monitor, reading, store>>

DisableHeating ==
  /\ disabled' = TRUE
  /\ relay' = FALSE
  /\ out' = SetRelay(out, FALSE)
  /\ UNCHANGED <<state, wouldBe, boost, boostLeft, timers, emPhase,
                 monitor, reading, store>>

EnableHeating ==
  /\ disabled' = FALSE
  /\ UNCHANGED <<state, wouldBe, relay, boost, boostLeft, timers, emPhase,
                 out, monitor, reading, store>>

ClearFault ==
  /\ fault' = "NONE"
  /\ UNCHANGED <<engine, out, heat, netUp, reading, store>>

(* storage_save_config of the configuration just changed.  A write or commit
   error may come before or after the blob reached the flash and is remembered
   until the next boot; a failure to open NVS writes nothing and is not. *)
Save ==
  \E result \in SaveResults :
    /\ nvs' \in {nvs, cfg'}
    /\ result = "ok" => nvs' = cfg'
    /\ result = "notOpened" => nvs' = nvs
    /\ storageUp' = (storageUp /\ result # "failed")

SetPump(p) ==
  /\ cfg' = [cfg EXCEPT !.pump = p]
  /\ Save
  /\ UNCHANGED <<engine, out, monitor, reading>>

SetEmergency(e) ==
  /\ cfg' = [cfg EXCEPT !.emergency = e]
  /\ Save
  /\ UNCHANGED <<engine, out, monitor, reading>>

(* Each limit of the body is taken when it lies in the accepted range. *)
SetLimits(l) ==
  /\ cfg' = [cfg EXCEPT !.limits =
               [f \in LimitNames |-> IF l[f] \in Accepts[f] THEN l[f] ELSE cfg.limits[f]]]
  /\ Save
  /\ UNCHANGED <<engine, out, monitor, reading>>

SetSimHeating(b) ==
  /\ cfg' = [cfg EXCEPT !.sim = b.enabled, !.accel = b.accel]
  /\ out' = SetSimulation(out, b.enabled, b.mixed)
  /\ Save
  /\ UNCHANGED <<engine, monitor, reading>>

(* The handlers that change settings the control layer does not read (names,
   sensors, network, notifications) save the same configuration. *)
SaveOtherSettings ==
  /\ cfg' = cfg
  /\ Save
  /\ UNCHANGED <<engine, out, monitor, reading>>

WebCommand ==
  \/ RequestBoost
  \/ CancelBoost
  \/ DisableHeating
  \/ EnableHeating
  \/ ClearFault
  \/ \E p \in PumpInputs : SetPump(p)
  \/ \E e \in EmergencyInputs : SetEmergency(e)
  \/ \E l \in LimitInputs : SetLimits(l)
  \/ \E b \in SimInputs : SetSimHeating(b)
  \/ SaveOtherSettings

-----------------------------------------------------------------------------
(* The Wi-Fi event handler reports the network. *)
NetworkChange ==
  /\ netUp' = ~netUp
  /\ UNCHANGED <<engine, out, fault, heat, reading, store>>

NoReading == [temp |-> "nan", healthy |-> FALSE]

(* A reset at any moment (watchdog, power, panic) and the boot after it: the
   configuration comes back from NVS, everything else starts over. *)
Restart ==
  /\ cfg' = nvs
  /\ nvs' = nvs
  /\ storageUp' \in MountResults
  /\ state' = "IDLE" /\ wouldBe' = "IDLE" /\ relay' = FALSE
  /\ boost' = FALSE /\ boostLeft' = 0 /\ disabled' = FALSE
  /\ onFor' = 0 /\ offFor' = 0 /\ antiOsc' = 0 /\ breakLeft' = 0 /\ emPhase' = 0
  /\ out' = OutputBoot(nvs.sim)
  /\ fault' = "NONE" /\ heat' = NoHeatTrack /\ netUp' = TRUE
  /\ reading' = NoReading

Init ==
  /\ cfg \in InitConfigs
  /\ nvs = cfg
  /\ storageUp \in MountResults
  /\ state = "IDLE" /\ wouldBe = "IDLE" /\ relay = FALSE
  /\ boost = FALSE /\ boostLeft = 0 /\ disabled = FALSE
  /\ onFor = 0 /\ offFor = 0 /\ antiOsc = 0 /\ breakLeft = 0 /\ emPhase = 0
  /\ out = OutputBoot(cfg.sim)
  /\ fault = "NONE" /\ heat = NoHeatTrack /\ netUp = TRUE
  /\ reading = NoReading

(* Everything that is not the control task. *)
Elsewhere == WebCommand \/ NetworkChange \/ Restart

Next == Tick \/ Elsewhere

Spec == Init /\ [][Next]_vars

(* control_task is an infinite loop that the watchdog guards, so a tick
   always comes; nothing forces anybody else to act. *)
FairSpec == Spec /\ WF_vars(Tick)
-----------------------------------------------------------------------------
(* Properties *)

(* The overrun impulses are driving the line instead of the relay command. *)
PumpDriving == "PUMP_OVERRUN" \in {state, wouldBe}

(* The physical line is never high unless the engine commands heat or a pump
   overrun is in progress: no sequence of commands, simulation switches, save
   failures and restarts leaves the furnace burning behind the engine's back
   (heating_output_set_relay against every writer of s_relay). *)
LineNeedsACommand == out.gpio => relay \/ PumpDriving

(* The kill switch holds: while it is on the engine commands no heat, whatever
   boost, emergency mode, fault or restart does around it. *)
KillSwitchHolds == disabled => ~relay

(* In plain simulation the furnace is never driven, and what the output
   module believes about simulation is what the configuration says, also
   after the configuration came back from NVS. *)
SimulationIsHarmless ==
  /\ out.simulate = cfg.sim
  /\ cfg.sim /\ ~out.mixed => ~out.gpio

(* A boost is running exactly while it has time left: cancelling, expiring,
   freezing under the kill switch and re-requesting never leave a boost with
   no end nor time without a boost. *)
BoostHasAnEnd == boost <=> boostLeft > 0

-----------------------------------------------------------------------------
(* Liveness, under FairSpec.  Each conclusion is drawn for a system that is
   not restarted, nor its fault cleared by hand, for ever. *)
LeftAlone == <>[][~Restart /\ ~ClearFault]_vars

(* The thermostat is in charge for good. *)
InCharge == ~disabled /\ ~boost /\ ~cfg.emergency.enabled /\ ~Blocking

(* Every boost ends, unless the kill switch keeps it frozen: neither limits,
   faults nor the emergency mode stop its clock. *)
BoostEnds == <>[]~disabled => (boost ~> ~boost)

(* A house that stays cold is heated again and again: the forced break, the
   anti-oscillation lock and min_off_sec all run out, whatever boosts and
   emergency cycles came and went before. *)
ColdIsHeated ==
  LeftAlone /\ <>[](reading.temp = "cold" /\ ~disabled /\ ~cfg.emergency.enabled /\ ~Blocking)
    => []<>relay

(* A house that stays hot is eventually left alone. *)
HotIsReleased == LeftAlone /\ <>[](reading.temp = "hot" /\ InCharge) => <>[]~relay

(* Anti-frost: with the option on and every sensor gone for good, the house
   is still heated from time to time, and not without pause.  The handler takes
   a cycle without a pause too, which is asked of none here. *)
AntiFrostCycles ==
  LeftAlone /\ <>[](~reading.healthy /\ ~disabled /\ ~boost /\ cfg.emergency.onFault
                    /\ DutyOn < DutyPeriod)
    => []<>relay /\ []<>~relay
=============================================================================
