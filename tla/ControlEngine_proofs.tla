------------------------ MODULE ControlEngine_proofs ------------------------
(***************************************************************************)
(* Proofs about ControlEngine for every value of its constants: type       *)
(* correctness and the safety invariants the run ControlCore checks on a   *)
(* small instance.                                                         *)
(***************************************************************************)
EXTENDS ControlEngine, TLAPS

-----------------------------------------------------------------------------
(* Operators of HeatingOutput and FaultDetect *)

(* An int number of milliseconds is an integer, whatever the seconds. *)
LEMMA MillisType == ASSUME NEW sec \in Int PROVE Millis(sec) \in Int
<1>1. IntMax \in Nat /\ IntMax > 0
  BY IntMaxAssumption DEF Pos
<1>2. 2 * (IntMax + 1) \in Nat /\ 2 * (IntMax + 1) > 0
  BY <1>1
<1>3. (sec + IntMax + 1) % (2 * (IntMax + 1)) \in Int
  BY <1>1, <1>2
<1> QED BY <1>1, <1>3 DEF Millis

(* A configured duration with its fallback is never zero or negative. *)
LEMMA DurationOrPositive ==
  ASSUME NEW sec \in Int, NEW fallback \in Pos
  PROVE  DurationOr(sec, fallback) \in Pos
BY MillisType DEF DurationOr, Pos

(* The functions of heating_output.c keep its statics well typed. *)
LEMMA SetRelayType ==
  ASSUME NEW o \in OutputType, NEW on \in BOOLEAN
  PROVE  SetRelay(o, on) \in OutputType
BY DEF SetRelay, OutputType

LEMMA SetSimulationType ==
  ASSUME NEW o \in OutputType, NEW sim \in BOOLEAN, NEW mix \in BOOLEAN
  PROVE  SetSimulation(o, sim, mix) \in OutputType
BY DEF SetSimulation, OutputType

LEMMA OutputBootType ==
  ASSUME NEW sim \in BOOLEAN
  PROVE  OutputBoot(sim) \in OutputType
<1> DEFINE off    == [enabled |-> FALSE, impulse |-> 0, period |-> 0, total |-> 0]
           zeroed == [relay |-> FALSE, simulate |-> FALSE, mixed |-> FALSE, gpio |-> FALSE,
                      pumping |-> FALSE, elapsed |-> 0, phase |-> 0, pump |-> off]
<1>1. off \in PumpCfg
  BY DEF PumpCfg
<1>2. zeroed \in OutputType
  <2> HIDE DEF off
  <2> QED BY <1>1 DEF OutputType
<1> QED BY <1>2, SetSimulationType DEF OutputBoot

LEMMA PumpStartType ==
  ASSUME NEW o \in OutputType, NEW c \in PumpCfg
  PROVE  PumpStart(o, c) \in OutputType
<1>1. 0 \in Int /\ TRUE \in BOOLEAN
  OBVIOUS
<1>2. [o EXCEPT !.pump = c, !.pumping = TRUE, !.elapsed = 0, !.phase = 0] \in OutputType
  BY <1>1, Zenon DEF OutputType
<1> QED BY <1>2 DEF PumpStart

LEMMA PumpTickType ==
  ASSUME NEW o \in OutputType, NEW d \in Nat
  PROVE  PumpTick(o, d) \in OutputType
<1>1. o.pump \in PumpCfg /\ o.phase \in Int /\ o.elapsed \in Int /\ o.pumping \in BOOLEAN
  BY DEF OutputType
<1>2. /\ DurationOr(o.pump.impulse, Default.pumpImpulse) \in Int
      /\ DurationOr(o.pump.period, Default.pumpPeriod) \in Int
      /\ Millis(o.pump.total) \in Int
  <2>1. o.pump.impulse \in Int /\ o.pump.period \in Int /\ o.pump.total \in Int
    BY <1>1 DEF PumpCfg
  <2>2. Default.pumpImpulse \in Pos /\ Default.pumpPeriod \in Pos
    BY OutputDefaultAssumption
  <2>3. Pos \subseteq Int
    BY DEF Pos
  <2> QED BY <2>1, <2>2, <2>3, DurationOrPositive, MillisType
<1> DEFINE phase  == o.phase + d
           done   == o.elapsed + d >= Millis(o.pump.total)
           lit    == ~done /\ phase < DurationOr(o.pump.impulse, Default.pumpImpulse)
           pulsed == SetRelay(o, lit)
<1>3. phase \in Int /\ o.elapsed + d \in Int /\ done \in BOOLEAN /\ lit \in BOOLEAN
  BY <1>1, <1>2
<1>4. pulsed \in OutputType
  BY <1>3, SetRelayType
<1>5. (IF phase >= DurationOr(o.pump.period, Default.pumpPeriod) THEN 0 ELSE phase) \in Int
  BY <1>3
<1>6. [pulsed EXCEPT !.elapsed = o.elapsed + d,
                     !.phase = IF phase >= DurationOr(o.pump.period, Default.pumpPeriod)
                               THEN 0 ELSE phase,
                     !.pumping = ~done] \in OutputType
  <2> HIDE DEF pulsed, phase, done
  <2> QED BY <1>3, <1>4, <1>5 DEF OutputType
<1> QED BY <1>6 DEF PumpTick

(* The tracker of the heating response stays well typed. *)
LEMMA TrackHeatType ==
  ASSUME NEW h \in HeatTrack, NEW heating \in BOOLEAN, NEW known \in BOOLEAN, NEW dt \in Nat
  PROVE  TrackHeat(h, heating, known, dt) \in HeatTrack
BY GraceCeilingAssumption DEF TrackHeat, HeatTrack, NoHeatTrack

LEMMA NextFaultType ==
  ASSUME NEW f \in Faults, NEW healthy, NEW up, NEW net, NEW judged, NEW rise
  PROVE  NextFault(f, healthy, up, net, judged, rise) \in Faults
BY DEF NextFault, Faults, HeatFaults

-----------------------------------------------------------------------------
(* Helpers of ControlEngine *)

(* A tick always advances the time of the control loop. *)
LEMMA ScaledType ==
  ASSUME NEW dt \in Dts
  PROVE  Scaled(dt) \in Pos
<1>1. dt \in Pos /\ SimScale \in Pos
  BY TimingAssumption
<1>2. dt * SimScale \in Pos
  BY <1>1 DEF Pos
<1> QED BY <1>1, <1>2 DEF Scaled

(* The limit in force is positive, whatever the configuration holds. *)
LEMMA LimitType ==
  ASSUME cfg \in Config, NEW f \in LimitNames
  PROVE  Limit(f) \in Pos
<1>1. cfg.limits[f] \in Int
  BY DEF Config, Limits
<1>2. LeastValid[f] \in Pos /\ Default[f] \in Pos
  BY DefaultAssumption
<1> QED BY <1>1, <1>2 DEF Limit, Pos

LEMMA CountdownType ==
  ASSUME NEW x \in Nat, NEW d \in Nat
  PROVE  Countdown(x, d) \in Nat
BY DEF Countdown

LEMMA WrapType ==
  ASSUME NEW x \in Int
  PROVE  Wrap(x) \in Int
BY IntMaxAssumption DEF Wrap, Pos

(* The state, the relay command and the counters after a tick. *)
LEMMA SettleType ==
  ASSUME TypeOK, NEW dt \in Dts, NEW r \in Reading, NEW rise \in Rises,
         NEW wanted \in States, NEW on \in BOOLEAN,
         Settle(dt, r, rise, wanted, on)
  PROVE  /\ state' \in States /\ wouldBe' \in States /\ relay' \in BOOLEAN
         /\ disabled' \in BOOLEAN
         /\ onFor' \in Int /\ offFor' \in Int /\ antiOsc' \in Nat
         /\ out' \in OutputType /\ fault' \in Faults /\ heat' \in HeatTrack
         /\ netUp' \in BOOLEAN /\ reading' \in Reading
         /\ cfg' \in Config /\ nvs' \in Config /\ storageUp' \in BOOLEAN
<1> USE DEF TypeOK
<1>1. Scaled(dt) \in Nat /\ dt \in Nat
  BY ScaledType, TimingAssumption DEF Pos
<1>2. cfg.pump \in PumpCfg /\ cfg.sim \in BOOLEAN /\ cfg.pump.enabled \in BOOLEAN
  BY DEF Config, PumpCfg
<1> DEFINE overrun == state = "HEATING" /\ wanted = "IDLE" /\ cfg.pump.enabled
           target  == IF overrun THEN "PUMP_OVERRUN" ELSE wanted
           command == on /\ ~overrun
           driven  == IF overrun THEN PumpStart(out, cfg.pump) ELSE SetRelay(out, command)
           entered == IF cfg.sim THEN "SIMULATION" ELSE target
           shadow  == IF cfg.sim THEN target ELSE wouldBe
           pumping == entered = "PUMP_OVERRUN" \/ shadow = "PUMP_OVERRUN"
           pumped  == IF pumping THEN PumpTick(driven, Scaled(dt)) ELSE driven
           ended   == pumping /\ ~pumped.pumping
<1>3. target \in States /\ entered \in States /\ shadow \in States /\ command \in BOOLEAN
  BY DEF States
<1>4. pumped \in OutputType
  <2>1. driven \in OutputType
    BY <1>2, <1>3, PumpStartType, SetRelayType
  <2> QED
    <3> HIDE DEF driven, pumping
    <3> QED BY <1>1, <2>1, PumpTickType
<1>5. /\ relay' = command
      /\ out' = pumped
      /\ onFor' = OnAfter(command, dt)
      /\ offFor' = OffAfter(command, dt)
      /\ wouldBe' = IF ended /\ cfg.sim THEN "IDLE" ELSE shadow
      /\ state' = IF ended /\ ~cfg.sim THEN "IDLE" ELSE entered
      /\ antiOsc' = LockAfter(target, ended, dt)
      /\ reading' = r
      /\ Observe(command, r, rise, dt)
      /\ UNCHANGED <<disabled, netUp, store>>
  BY Zenon DEF Settle
<1>6. onFor' \in Int /\ offFor' \in Int
  <2> HIDE DEF command
  <2> QED BY <1>1, <1>5, WrapType DEF OnAfter, OffAfter
<1>7. antiOsc' \in Nat
  <2> HIDE DEF target, ended
  <2>1. Lock(dt) \in Nat
    BY <1>1, CountdownType DEF Lock
  <2>2. Limit("antiOsc") \in Nat
    BY LimitType DEF Pos, LimitNames
  <2> QED BY <1>5, <2>1, <2>2 DEF LockAfter
<1>8. heat' \in HeatTrack
  <2> HIDE DEF command
  <2> QED BY <1>1, <1>3, <1>5, TrackHeatType DEF Observe
<1>9. fault' \in Faults
  <2> HIDE DEF command
  <2> QED BY <1>5, NextFaultType DEF Observe
<1>10. state' \in States /\ wouldBe' \in States
  <2> HIDE DEF ended, entered, shadow
  <2> QED BY <1>3, <1>5 DEF States
<1>11. cfg' \in Config /\ nvs' \in Config /\ storageUp' \in BOOLEAN
  BY <1>5 DEF store
<1> HIDE DEF command, pumped
<1> QED BY <1>3, <1>4, <1>5, <1>6, <1>7, <1>8, <1>9, <1>10, <1>11

-----------------------------------------------------------------------------
(* Type correctness *)

LEMMA InitType == Init => TypeOK
<1> SUFFICES ASSUME Init PROVE TypeOK
  OBVIOUS
<1>1. cfg \in Config /\ cfg.sim \in BOOLEAN
  BY InputAssumption DEF Init, Config
<1>2. out \in OutputType
  BY <1>1, OutputBootType DEF Init
<1>3. storageUp \in BOOLEAN
  BY InputAssumption DEF Init
<1>4. boostLeft \in 0 .. BoostFor
  BY TimingAssumption DEF Init, Pos
<1>5. heat \in HeatTrack /\ fault \in Faults
  BY DEF Init, HeatTrack, NoHeatTrack, Faults
<1>6. reading \in Reading
  BY DEF Init, NoReading, Reading
<1>7. /\ state \in States /\ wouldBe \in States /\ relay \in BOOLEAN
      /\ boost \in BOOLEAN /\ disabled \in BOOLEAN /\ netUp \in BOOLEAN
  BY DEF Init, States
<1>8. onFor \in Int /\ offFor \in Int /\ antiOsc \in Nat /\ breakLeft \in Nat /\ emPhase \in Nat
  BY DEF Init
<1>9. nvs \in Config
  BY <1>1 DEF Init
<1> QED BY <1>1, <1>2, <1>3, <1>4, <1>5, <1>6, <1>7, <1>8, <1>9 DEF TypeOK

(* emergency_duty keeps the phase an integer in the cycle. *)
LEMMA DutyPhaseType ==
  ASSUME TypeOK, NEW dt \in Dts
  PROVE  DutyPhase(dt) \in Nat
<1>1. Scaled(dt) \in Nat /\ emPhase \in Nat
  BY ScaledType DEF Pos, TypeOK
<1>2. DutyPeriod \in Pos
  <2>1. cfg.emergency.period \in Int
    BY DEF TypeOK, Config, EmergencyCfg
  <2> QED BY <2>1, DurationOrPositive, DefaultAssumption DEF DutyPeriod
<1>3. (emPhase + Scaled(dt)) % DutyPeriod \in Nat
  BY <1>1, <1>2 DEF Pos
<1> QED BY <1>3 DEF DutyPhase

LEMMA BreakAfterType ==
  ASSUME TypeOK, NEW dt \in Dts, NEW temp, NEW on \in BOOLEAN
  PROVE  Break(dt) \in Nat /\ BreakAfter(temp, on, dt) \in Nat
<1>1. Break(dt) \in Nat
  BY ScaledType, CountdownType DEF Break, TypeOK, Pos
<1>2. Limit("breakFor") \in Nat
  BY LimitType DEF TypeOK, LimitNames, Pos
<1> QED BY <1>1, <1>2 DEF BreakAfter

(* Every tick is a Settle, with a mode's target state and relay command. *)
LEMMA TickSettles ==
  ASSUME TypeOK, NEW dt \in Dts, NEW r \in Reading, NEW rise \in Rises,
         ControlTick(dt, r, rise)
  PROVE  \E wanted \in States, on \in BOOLEAN : Settle(dt, r, rise, wanted, on)
<1>1. CASE TickKilled(dt, r, rise)
  BY <1>1 DEF TickKilled, States
<1>2. CASE TickBoost(dt, r, rise)
  BY <1>2 DEF TickBoost, States
<1>3. CASE TickBoostEnd(dt, r, rise)
  <2>1. HeatWanted(r.temp, FALSE, dt) \in BOOLEAN
    BY DEF HeatWanted
  <2> QED BY <1>3, <2>1 DEF TickBoostEnd, States
<1>4. CASE TickEmergency(dt, r, rise)
  <2>1. (DutyPhase(dt) < DutyOn) \in BOOLEAN
    OBVIOUS
  <2> QED BY <1>4, <2>1 DEF TickEmergency, States
<1>5. CASE TickFault(dt, r, rise)
  BY <1>5 DEF TickFault, States
<1>6. CASE TickRegulate(dt, r, rise)
  <2>1. HeatWanted(r.temp, relay, dt) \in BOOLEAN
    BY DEF HeatWanted
  <2> QED BY <1>6, <2>1 DEF TickRegulate, States
<1> QED BY <1>1, <1>2, <1>3, <1>4, <1>5, <1>6 DEF ControlTick

LEMMA TickType == TypeOK /\ Tick => TypeOK'
<1> SUFFICES ASSUME TypeOK, NEW dt \in Dts, NEW r \in Reading, NEW rise \in Rises,
                    ControlTick(dt, r, rise)
             PROVE  TypeOK'
  BY InputAssumption DEF Tick
<1>1. PICK wanted \in States, on \in BOOLEAN : Settle(dt, r, rise, wanted, on)
  BY TickSettles
<1>2. /\ state' \in States /\ wouldBe' \in States /\ relay' \in BOOLEAN
      /\ disabled' \in BOOLEAN
      /\ onFor' \in Int /\ offFor' \in Int /\ antiOsc' \in Nat
      /\ out' \in OutputType /\ fault' \in Faults /\ heat' \in HeatTrack
      /\ netUp' \in BOOLEAN /\ reading' \in Reading
      /\ cfg' \in Config /\ nvs' \in Config /\ storageUp' \in BOOLEAN
  BY <1>1, SettleType
<1>3. Scaled(dt) \in Pos
  BY ScaledType
<1>4. boost' \in BOOLEAN /\ boostLeft' \in 0 .. BoostFor
  <2>1. CASE TickBoost(dt, r, rise)
    BY <1>3, <2>1, TimingAssumption DEF TickBoost, TypeOK, Pos
  <2>2. CASE TickBoostEnd(dt, r, rise)
    <3>1. boost' = FALSE /\ boostLeft' = 0
      BY <2>2, Zenon DEF TickBoostEnd
    <3>2. 0 \in 0 .. BoostFor
      BY TimingAssumption DEF Pos
    <3> QED BY <3>1, <3>2
  <2>3. CASE boost' = boost /\ boostLeft' = boostLeft
    BY <2>3 DEF TypeOK
  <2>4. CASE \/ TickKilled(dt, r, rise) \/ TickEmergency(dt, r, rise)
             \/ TickFault(dt, r, rise) \/ TickRegulate(dt, r, rise)
    BY <2>3, <2>4 DEF TickKilled, TickEmergency, TickFault, TickRegulate
  <2> QED BY <2>1, <2>2, <2>4 DEF ControlTick
<1>5. emPhase' \in Nat
  BY DutyPhaseType DEF TypeOK, ControlTick, TickKilled, TickBoost, TickBoostEnd,
                       TickEmergency, TickFault, TickRegulate
<1>6. breakLeft' \in Nat
  <2>1. relay \in BOOLEAN /\ FALSE \in BOOLEAN
    BY DEF TypeOK
  <2> QED BY <2>1, BreakAfterType
          DEF ControlTick, TickKilled, TickBoost, TickBoostEnd,
              TickEmergency, TickFault, TickRegulate
<1> QED BY <1>2, <1>4, <1>5, <1>6 DEF TypeOK

LEMMA SaveType ==
  ASSUME TypeOK, cfg' \in Config, Save
  PROVE  nvs' \in Config /\ storageUp' \in BOOLEAN
BY DEF Save, TypeOK

LEMMA CommandType == TypeOK /\ (WebCommand \/ NetworkChange) => TypeOK'
<1> SUFFICES ASSUME TypeOK, WebCommand \/ NetworkChange PROVE TypeOK'
  OBVIOUS
<1> USE DEF TypeOK, engine, timers, monitor, store
<1>1. CASE RequestBoost \/ CancelBoost
  <2>1. boost' \in BOOLEAN /\ boostLeft' \in {0, BoostFor}
    BY <1>1 DEF RequestBoost, CancelBoost
  <2>2. {0, BoostFor} \subseteq 0 .. BoostFor
    BY TimingAssumption DEF Pos
  <2> QED BY <1>1, <2>1, <2>2 DEF RequestBoost, CancelBoost
<1>2. CASE DisableHeating
  <2>1. out' \in OutputType
    BY <1>2, SetRelayType DEF DisableHeating
  <2> QED BY <1>2, <2>1 DEF DisableHeating
<1>3. CASE EnableHeating
  BY <1>3 DEF EnableHeating
<1>4. CASE ClearFault
  BY <1>4 DEF ClearFault, Faults
<1>5. ASSUME NEW p \in PumpInputs, SetPump(p) PROVE TypeOK'
  <2>1. cfg' \in Config
    BY <1>5, InputAssumption DEF SetPump, Config
  <2> QED BY <1>5, <2>1, SaveType DEF SetPump
<1>6. ASSUME NEW e \in EmergencyInputs, SetEmergency(e) PROVE TypeOK'
  <2>1. cfg' \in Config
    BY <1>6, InputAssumption DEF SetEmergency, Config
  <2> QED BY <1>6, <2>1, SaveType DEF SetEmergency
<1>7. ASSUME NEW l \in LimitInputs, SetLimits(l) PROVE TypeOK'
  <2>1. [f \in LimitNames |-> IF l[f] \in Accepts[f] THEN l[f] ELSE cfg.limits[f]] \in Limits
    BY <1>7, InputAssumption DEF Limits, Config
  <2>2. cfg' \in Config
    BY <1>7, <2>1 DEF SetLimits, Config
  <2> QED BY <1>7, <2>2, SaveType DEF SetLimits
<1>8. ASSUME NEW b \in SimInputs, SetSimHeating(b) PROVE TypeOK'
  <2>1. b.enabled \in BOOLEAN /\ b.mixed \in BOOLEAN /\ b.accel \in BOOLEAN
    BY InputAssumption DEF SimBody
  <2>2. cfg' \in Config
    BY <1>8, <2>1 DEF SetSimHeating, Config
  <2>3. out' \in OutputType
    BY <1>8, <2>1, SetSimulationType DEF SetSimHeating
  <2> QED BY <1>8, <2>2, <2>3, SaveType DEF SetSimHeating
<1>9. CASE SaveOtherSettings
  <2>1. cfg' \in Config
    BY <1>9 DEF SaveOtherSettings
  <2> QED BY <1>9, <2>1, SaveType DEF SaveOtherSettings
<1>10. CASE NetworkChange
  BY <1>10 DEF NetworkChange
<1> QED BY <1>1, <1>2, <1>3, <1>4, <1>5, <1>6, <1>7, <1>8, <1>9, <1>10 DEF WebCommand

LEMMA RestartType == TypeOK /\ Restart => TypeOK'
<1> SUFFICES ASSUME TypeOK, Restart PROVE TypeOK'
  OBVIOUS
<1>1. nvs' \in Config /\ cfg' \in Config /\ nvs.sim \in BOOLEAN
  BY DEF Restart, TypeOK, Config
<1>2. out' \in OutputType
  BY <1>1, OutputBootType DEF Restart
<1>3. storageUp' \in BOOLEAN
  BY InputAssumption DEF Restart
<1>4. boostLeft' \in 0 .. BoostFor
  BY TimingAssumption DEF Restart, Pos
<1>5. heat' \in HeatTrack /\ fault' \in Faults
  BY DEF Restart, HeatTrack, NoHeatTrack, Faults
<1>6. reading' \in Reading
  BY DEF Restart, NoReading, Reading
<1>7. /\ state' \in States /\ wouldBe' \in States /\ relay' \in BOOLEAN
      /\ boost' \in BOOLEAN /\ disabled' \in BOOLEAN /\ netUp' \in BOOLEAN
  BY DEF Restart, States
<1>8. /\ onFor' \in Int /\ offFor' \in Int
      /\ antiOsc' \in Nat /\ breakLeft' \in Nat /\ emPhase' \in Nat
  BY DEF Restart
<1> QED BY <1>1, <1>2, <1>3, <1>4, <1>5, <1>6, <1>7, <1>8 DEF TypeOK

(* ControlEngine keeps every variable in its type: in particular the timers
   of the engine never go below zero and s_boost_remaining_ms never exceeds
   the boost duration. *)
THEOREM TypeCorrect == Spec => []TypeOK
<1>1. TypeOK /\ UNCHANGED vars => TypeOK'
  BY DEF TypeOK, vars, engine, timers, monitor, store
<1>2. TypeOK /\ [Next]_vars => TypeOK'
  BY <1>1, TickType, CommandType, RestartType DEF Next, Elsewhere
<1> QED BY InitType, <1>2, PTL DEF Spec

-----------------------------------------------------------------------------
(* The kill switch and the boost *)

(* While the kill switch is on, no action of any component leaves the relay
   command on. *)
THEOREM KillSwitchCorrect == Spec => []KillSwitchHolds
<1>1. Init => KillSwitchHolds
  BY DEF Init, KillSwitchHolds
<1>2. TypeOK /\ KillSwitchHolds /\ [Next]_vars => KillSwitchHolds'
  <2> SUFFICES ASSUME TypeOK, KillSwitchHolds, [Next]_vars PROVE KillSwitchHolds'
    OBVIOUS
  <2> USE DEF KillSwitchHolds
  <2>1. CASE Tick
    <3> SUFFICES ASSUME NEW dt \in Dts, NEW r \in Reading, NEW rise \in Rises,
                        ControlTick(dt, r, rise)
                 PROVE  KillSwitchHolds'
      BY <2>1, InputAssumption DEF Tick
    <3>1. CASE TickKilled(dt, r, rise)
      BY <3>1 DEF TickKilled, Settle
    <3>2. CASE ~disabled
      <4>1. disabled' = disabled
        BY TickSettles DEF Settle
      <4> QED BY <3>2, <4>1
    <3> QED BY <3>1, <3>2 DEF ControlTick, TickBoost, TickBoostEnd, TickEmergency, TickFault,
                              TickRegulate, Boosting, Cycling, Faulted, Regulating
  <2>2. CASE WebCommand
    BY <2>2 DEF WebCommand, RequestBoost, CancelBoost, DisableHeating, EnableHeating,
                ClearFault, SetPump, SetEmergency, SetLimits, SetSimHeating,
                SaveOtherSettings, engine
  <2>3. CASE NetworkChange
    BY <2>3 DEF NetworkChange, engine
  <2>4. CASE Restart
    BY <2>4 DEF Restart
  <2>5. CASE UNCHANGED vars
    BY <2>5 DEF vars, engine
  <2> QED BY <2>1, <2>2, <2>3, <2>4, <2>5 DEF Next, Elsewhere
<1> QED BY <1>1, <1>2, TypeCorrect, PTL DEF Spec

(* A boost is never left without remaining time, nor remaining time without
   a boost. *)
THEOREM BoostCorrect == Spec => []BoostHasAnEnd
<1>1. Init => BoostHasAnEnd
  BY DEF Init, BoostHasAnEnd
<1>2. TypeOK /\ BoostHasAnEnd /\ [Next]_vars => BoostHasAnEnd'
  <2> SUFFICES ASSUME TypeOK, BoostHasAnEnd, [Next]_vars PROVE BoostHasAnEnd'
    OBVIOUS
  <2> USE DEF BoostHasAnEnd
  <2>1. CASE Tick
    <3> SUFFICES ASSUME NEW dt \in Dts, NEW r \in Reading, NEW rise \in Rises,
                        ControlTick(dt, r, rise)
                 PROVE  BoostHasAnEnd'
      BY <2>1, InputAssumption DEF Tick
    <3>1. CASE TickBoost(dt, r, rise)
      <4>1. /\ boost /\ boost' = boost
            /\ boostLeft > Scaled(dt) /\ boostLeft' = boostLeft - Scaled(dt)
        BY <3>1 DEF TickBoost, Boosting
      <4>2. boostLeft' > 0
        BY <4>1, ScaledType DEF Pos, TypeOK
      <4> QED BY <4>1, <4>2
    <3>2. CASE TickBoostEnd(dt, r, rise)
      <4>1. boost' = FALSE /\ boostLeft' = 0
        BY <3>2, Zenon DEF TickBoostEnd
      <4>2. ~(boostLeft' > 0)
        BY <4>1
      <4> QED BY <4>1, <4>2, Zenon
    <3>3. CASE \/ TickKilled(dt, r, rise) \/ TickEmergency(dt, r, rise)
               \/ TickFault(dt, r, rise) \/ TickRegulate(dt, r, rise)
      <4>1. boost' = boost /\ boostLeft' = boostLeft
        BY <3>3 DEF TickKilled, TickEmergency, TickFault, TickRegulate
      <4> QED BY <4>1
    <3> QED BY <3>1, <3>2, <3>3 DEF ControlTick
  <2>2. CASE RequestBoost
    <3>1. boost' = TRUE /\ boostLeft' = BoostFor
      BY <2>2, Zenon DEF RequestBoost
    <3>2. BoostFor > 0
      BY TimingAssumption DEF Pos
    <3> QED BY <3>1, <3>2, Zenon
  <2>3. CASE CancelBoost
    <3>1. boost' = FALSE /\ boostLeft' = 0
      BY <2>3, Zenon DEF CancelBoost
    <3>2. ~(boostLeft' > 0)
      BY <3>1
    <3> QED BY <3>1, <3>2, Zenon
  <2>4. CASE WebCommand /\ ~RequestBoost /\ ~CancelBoost
    <3>1. boost' = boost /\ boostLeft' = boostLeft
      BY <2>4 DEF WebCommand, DisableHeating, EnableHeating, ClearFault, SetPump,
                  SetEmergency, SetLimits, SetSimHeating, SaveOtherSettings, engine
    <3> QED BY <3>1
  <2>5. CASE NetworkChange
    BY <2>5 DEF NetworkChange, engine
  <2>6. CASE Restart
    <3>1. boost' = FALSE /\ boostLeft' = 0
      BY <2>6, Zenon DEF Restart
    <3>2. ~(boostLeft' > 0)
      BY <3>1
    <3> QED BY <3>1, <3>2, Zenon
  <2>7. CASE UNCHANGED vars
    BY <2>7 DEF vars, engine
  <2> QED BY <2>1, <2>2, <2>3, <2>4, <2>5, <2>6, <2>7 DEF Next, Elsewhere
<1> QED BY <1>1, <1>2, TypeCorrect, PTL DEF Spec

-----------------------------------------------------------------------------
(* The physical line *)

(* What the functions of heating_output.c do to the line and to what they
   believe about simulation. *)
LEMMA SetRelayLine ==
  ASSUME NEW o \in OutputType, NEW on \in BOOLEAN
  PROVE  LET n == SetRelay(o, on)
         IN  /\ n.simulate = o.simulate /\ n.mixed = o.mixed /\ n.pumping = o.pumping
             /\ n.gpio = IF o.simulate /\ ~o.mixed THEN o.gpio ELSE on
BY DEF SetRelay, OutputType

LEMMA SetSimulationLine ==
  ASSUME NEW o \in OutputType, NEW sim \in BOOLEAN, NEW mix \in BOOLEAN
  PROVE  LET n == SetSimulation(o, sim, mix)
         IN  /\ n.simulate = sim /\ n.mixed = mix
             /\ n.gpio => o.gpio
             /\ sim /\ ~mix => ~n.gpio
BY DEF SetSimulation, OutputType

LEMMA PumpStartLine ==
  ASSUME NEW o \in OutputType, NEW c \in PumpCfg
  PROVE  LET n == PumpStart(o, c)
         IN  /\ n.simulate = o.simulate /\ n.mixed = o.mixed /\ n.gpio = o.gpio
             /\ c.enabled => n.pumping
BY DEF PumpStart, OutputType

(* The overrun leaves the line down when its window closes. *)
LEMMA PumpTickLine ==
  ASSUME NEW o \in OutputType, NEW d \in Nat
  PROVE  LET n == PumpTick(o, d)
         IN  /\ n.simulate = o.simulate /\ n.mixed = o.mixed
             /\ ~o.pumping => n = o
             /\ o.simulate /\ ~o.mixed => n.gpio = o.gpio
             /\ o.pumping /\ ~n.pumping /\ ~(o.simulate /\ ~o.mixed) => ~n.gpio
<1> DEFINE phase  == o.phase + d
           done   == o.elapsed + d >= Millis(o.pump.total)
           lit    == ~done /\ phase < DurationOr(o.pump.impulse, Default.pumpImpulse)
           pulsed == SetRelay(o, lit)
           n == PumpTick(o, d)
<1>1. CASE ~o.pumping
  BY <1>1 DEF PumpTick
<1>2. CASE o.pumping
  <2>1. pulsed \in OutputType
    BY SetRelayType
  <2>2. n.simulate = pulsed.simulate /\ n.mixed = pulsed.mixed /\ n.gpio = pulsed.gpio
    <3> HIDE DEF pulsed, phase, done
    <3> QED BY <1>2, <2>1 DEF PumpTick, OutputType, pulsed, phase, done
  <2>3. ~n.pumping => done
    <3> HIDE DEF pulsed, phase, done
    <3> QED BY <1>2, <2>1 DEF PumpTick, OutputType, pulsed, phase, done
  <2>4. /\ pulsed.simulate = o.simulate /\ pulsed.mixed = o.mixed
        /\ pulsed.gpio = IF o.simulate /\ ~o.mixed THEN o.gpio ELSE lit
    BY SetRelayLine
  <2> QED BY <1>2, <2>2, <2>3, <2>4
<1> QED BY <1>1, <1>2

(* What the output module believes about simulation follows the shared
   configuration, also through a restart, and in plain simulation the line
   is down; and the line is never up without a relay command or an overrun.
   The second needs the first: in plain simulation set_relay(false) does not
   touch the line, so it must have been down already. *)
LineInv == SimulationIsHarmless /\ LineNeedsACommand

LEMMA SettleLine ==
  ASSUME TypeOK, LineInv, NEW dt \in Dts, NEW r \in Reading, NEW rise \in Rises,
         NEW wanted \in States, NEW on \in BOOLEAN,
         Settle(dt, r, rise, wanted, on)
  PROVE  LineInv'
<1> USE DEF TypeOK
<1>1. Scaled(dt) \in Nat
  BY ScaledType DEF Pos
<1>2. cfg.pump \in PumpCfg /\ cfg.sim \in BOOLEAN /\ cfg.pump.enabled \in BOOLEAN
  BY DEF Config, PumpCfg
<1> DEFINE overrun == state = "HEATING" /\ wanted = "IDLE" /\ cfg.pump.enabled
           target  == IF overrun THEN "PUMP_OVERRUN" ELSE wanted
           command == on /\ ~overrun
           driven  == IF overrun THEN PumpStart(out, cfg.pump) ELSE SetRelay(out, command)
           entered == IF cfg.sim THEN "SIMULATION" ELSE target
           shadow  == IF cfg.sim THEN target ELSE wouldBe
           pumping == entered = "PUMP_OVERRUN" \/ shadow = "PUMP_OVERRUN"
           pumped  == IF pumping THEN PumpTick(driven, Scaled(dt)) ELSE driven
           ended   == pumping /\ ~pumped.pumping
           plain   == out.simulate /\ ~out.mixed
<1>3. /\ relay' = command
      /\ out' = pumped
      /\ wouldBe' = IF ended /\ cfg.sim THEN "IDLE" ELSE shadow
      /\ state' = IF ended /\ ~cfg.sim THEN "IDLE" ELSE entered
      /\ cfg' = cfg
  BY Zenon DEF Settle, store
<1>4. driven \in OutputType
  BY <1>2, PumpStartType, SetRelayType
<1>5. /\ driven.simulate = out.simulate /\ driven.mixed = out.mixed
      /\ ~overrun => driven.gpio = IF plain THEN out.gpio ELSE command
      /\ overrun => driven.gpio = out.gpio /\ driven.pumping
  BY <1>2, SetRelayLine, PumpStartLine
<1>6. /\ pumped.simulate = out.simulate /\ pumped.mixed = out.mixed
      /\ plain => pumped.gpio = out.gpio
  <2> HIDE DEF driven, pumping, overrun, command
  <2> QED BY <1>1, <1>4, <1>5, PumpTickLine
<1>7. out.simulate = cfg.sim /\ (plain => ~out.gpio)
  BY DEF LineInv, SimulationIsHarmless
<1>8. SimulationIsHarmless'
  <2> HIDE DEF pumped
  <2> QED BY <1>3, <1>6, <1>7 DEF SimulationIsHarmless
<1>9. LineNeedsACommand'
  <2>1. CASE plain
    <3> HIDE DEF pumped
    <3> QED BY <1>3, <1>6, <1>7, <2>1 DEF LineNeedsACommand
  <2>2. CASE ~plain /\ ended
    <3>1. pumping => /\ ~driven.pumping => pumped = driven
                     /\ driven.pumping /\ ~pumped.pumping => ~pumped.gpio
      <4> HIDE DEF driven, pumping, overrun, command
      <4> QED BY <1>1, <1>4, <1>5, <2>2, PumpTickLine
    <3>2. ASSUME ~driven.pumping PROVE pumped.gpio = command
      <4>1. pumped = driven
        <5> HIDE DEF driven, pumped, pumping
        <5> QED BY <2>2, <3>1, <3>2
      <4>2. ~overrun
        <5> HIDE DEF driven, overrun
        <5> QED BY <1>5, <3>2
      <4>3. driven.gpio = command
        <5> HIDE DEF driven, overrun, command
        <5> QED BY <1>5, <2>2, <4>2
      <4> HIDE DEF driven, pumped, command
      <4> QED BY <4>1, <4>3
    <3> HIDE DEF driven, command
    <3> QED BY <1>3, <2>2, <3>1, <3>2 DEF LineNeedsACommand
  <2>3. CASE ~plain /\ pumping /\ ~ended
    <3> HIDE DEF pumped
    <3> QED BY <1>3, <2>3 DEF LineNeedsACommand, PumpDriving
  <2>4. CASE ~plain /\ ~pumping
    <3>1. ~overrun
      BY <2>4
    <3>2. pumped.gpio = command
      BY <1>5, <2>4, <3>1
    <3> QED BY <1>3, <3>2 DEF LineNeedsACommand
  <2> QED BY <2>1, <2>2, <2>3, <2>4
<1> QED BY <1>8, <1>9 DEF LineInv

LEMMA CommandLine == TypeOK /\ LineInv /\ (WebCommand \/ NetworkChange) => LineInv'
<1> SUFFICES ASSUME TypeOK, LineInv, WebCommand \/ NetworkChange PROVE LineInv'
  OBVIOUS
<1> USE DEF LineInv, SimulationIsHarmless, LineNeedsACommand, PumpDriving
<1>1. CASE DisableHeating
  <2>1. /\ out'.simulate = out.simulate /\ out'.mixed = out.mixed
        /\ out'.gpio = IF out.simulate /\ ~out.mixed THEN out.gpio ELSE FALSE
    BY <1>1, SetRelayLine DEF DisableHeating, TypeOK
  <2>2. cfg' = cfg /\ state' = state /\ wouldBe' = wouldBe
    BY <1>1 DEF DisableHeating, store
  <2>3. ~out'.gpio
    BY <2>1
  <2> QED BY <2>1, <2>2, <2>3
<1>2. ASSUME NEW b \in SimInputs, SetSimHeating(b) PROVE LineInv'
  <2>1. b.enabled \in BOOLEAN /\ b.mixed \in BOOLEAN
    BY InputAssumption DEF SimBody
  <2>2. /\ out'.simulate = b.enabled /\ out'.mixed = b.mixed
        /\ out'.gpio => out.gpio
        /\ b.enabled /\ ~b.mixed => ~out'.gpio
    BY <1>2, <2>1, SetSimulationLine DEF SetSimHeating, TypeOK
  <2>3. cfg'.sim = b.enabled
    BY <1>2 DEF SetSimHeating, TypeOK, Config
  <2>4. state' = state /\ wouldBe' = wouldBe /\ relay' = relay
    BY <1>2 DEF SetSimHeating, engine
  <2> QED BY <2>2, <2>3, <2>4
<1>3. CASE /\ out' = out /\ relay' = relay /\ state' = state /\ wouldBe' = wouldBe
           /\ cfg'.sim = cfg.sim
  BY <1>3
<1>4. CASE RequestBoost \/ CancelBoost \/ EnableHeating \/ ClearFault \/ NetworkChange
  BY <1>3, <1>4 DEF RequestBoost, CancelBoost, EnableHeating, ClearFault, NetworkChange,
                    engine, store
<1>5. ASSUME NEW p \in PumpInputs, SetPump(p) PROVE LineInv'
  BY <1>3, <1>5 DEF SetPump, engine, TypeOK, Config
<1>6. ASSUME NEW e \in EmergencyInputs, SetEmergency(e) PROVE LineInv'
  BY <1>3, <1>6 DEF SetEmergency, engine, TypeOK, Config
<1>7. ASSUME NEW l \in LimitInputs, SetLimits(l) PROVE LineInv'
  <2>1. cfg'.sim = cfg.sim
    BY <1>7 DEF SetLimits, TypeOK, Config
  <2> QED BY <1>3, <1>7, <2>1 DEF SetLimits, engine
<1>8. CASE SaveOtherSettings
  BY <1>3, <1>8 DEF SaveOtherSettings, engine
<1> QED BY <1>1, <1>2, <1>4, <1>5, <1>6, <1>7, <1>8 DEF WebCommand

LEMMA BootLine ==
  ASSUME NEW sim \in BOOLEAN
  PROVE  LET n == OutputBoot(sim) IN n.simulate = sim /\ ~n.gpio
BY DEF OutputBoot, SetSimulation

LEMMA LineInductive == TypeOK /\ LineInv /\ [Next]_vars => LineInv'
<1> SUFFICES ASSUME TypeOK, LineInv, [Next]_vars PROVE LineInv'
  OBVIOUS
<1>1. CASE Tick
  <2>1. PICK dt \in Dts, r \in Reading, rise \in Rises : ControlTick(dt, r, rise)
    BY <1>1, InputAssumption DEF Tick
  <2> QED BY <2>1, TickSettles, SettleLine
<1>2. CASE Restart
  <2>1. cfg' = nvs /\ nvs.sim \in BOOLEAN /\ out' = OutputBoot(nvs.sim)
    BY <1>2 DEF Restart, TypeOK, Config
  <2>2. out'.simulate = cfg'.sim /\ ~out'.gpio
    BY <2>1, BootLine
  <2> QED BY <2>2 DEF LineInv, SimulationIsHarmless, LineNeedsACommand
<1>3. CASE UNCHANGED vars
  BY <1>3 DEF vars, engine, store, LineInv, SimulationIsHarmless, LineNeedsACommand, PumpDriving
<1> QED BY <1>1, <1>2, <1>3, CommandLine DEF Next, Elsewhere

LEMMA LineInitially == Init => LineInv
<1> SUFFICES ASSUME Init PROVE LineInv
  OBVIOUS
<1>1. cfg.sim \in BOOLEAN /\ out = OutputBoot(cfg.sim)
  BY InputAssumption DEF Init, Config
<1>2. out.simulate = cfg.sim /\ ~out.gpio
  BY <1>1, BootLine
<1> QED BY <1>2 DEF LineInv, SimulationIsHarmless, LineNeedsACommand

(* The furnace is never driven in plain simulation, and the output module
   and the configuration never disagree on whether this is a simulation. *)
THEOREM SimulationCorrect == Spec => []SimulationIsHarmless
<1>1. LineInv => SimulationIsHarmless
  BY DEF LineInv
<1> QED BY <1>1, LineInitially, LineInductive, TypeCorrect, PTL DEF Spec

(* The furnace never burns behind the engine's back. *)
THEOREM LineCorrect == Spec => []LineNeedsACommand
<1>1. LineInv => LineNeedsACommand
  BY DEF LineInv
<1> QED BY <1>1, LineInitially, LineInductive, TypeCorrect, PTL DEF Spec
-----------------------------------------------------------------------------
(* What the liveness properties descend on.  That a tick comes, and so that  *)
(* these measures reach their end, takes fairness and stays with TLC; that   *)
(* every tick takes one down is proved here.                                 *)

Longer(a, b) == IF a > b THEN a ELSE b

(* The longest of the three waits before the thermostat may heat: the forced
   break, the anti-oscillation lock and min_off_sec. *)
ColdWait == Longer(breakLeft, Longer(antiOsc, Limit("minOff") - offFor))

(* Steps to ST_IDLE, the entry of which arms the lock once more: from
   ST_HEATING it may lead through ST_PUMP_OVERRUN.  Simulation enters no
   state. *)
Away == IF cfg.sim \/ state = "IDLE" THEN 0 ELSE IF state = "HEATING" THEN 2 ELSE 1

(* BoostEnds: the time of a running boost never goes up, and a tick takes some
   of it unless the kill switch has frozen it. *)
BoostStep ==
  boost => /\ boostLeft' <= boostLeft
           /\ Tick /\ ~disabled => boostLeft' < boostLeft

(* ColdIsHeated: the thermostat in a cold house heats, or comes closer to
   ST_IDLE, or has less to wait and is no farther from it, unless s_off_ms
   overflows in this tick. *)
ColdStep ==
  \A dt \in Dts, r \in Readings, rise \in RiseInputs :
    TickRegulate(dt, r, rise) /\ r.temp = "cold" /\ ~relay /\ offFor + Scaled(dt) <= IntMax
      => \/ relay'
         \/ Away' < Away
         \/ Away' = Away /\ ColdWait' < ColdWait

(* HotIsReleased: the thermostat in a hot house starts nothing, and what it
   keeps burning has less of max_on_sec left, unless s_on_ms overflows. *)
HotStep ==
  \A dt \in Dts, r \in Readings, rise \in RiseInputs :
    TickRegulate(dt, r, rise) /\ r.temp = "hot" /\ onFor + Scaled(dt) <= IntMax /\ relay'
      => /\ relay
         /\ 0 < Limit("maxOn") - onFor
         /\ (Limit("maxOn") - onFor)' < Limit("maxOn") - onFor

(* AntiFrostCycles: a tick of the duty cycle moves on within it, heating in its
   first DutyOn and nowhere else, or begins it anew from its other part, and
   then heats.  A step must fit both parts: one that is longer (an accelerated
   tick, a period cut short) may jump over either. *)
DutyStep ==
  \A dt \in Dts, r \in Readings, rise \in RiseInputs :
    TickEmergency(dt, r, rise) /\ emPhase < DutyPeriod
    /\ Scaled(dt) <= DutyOn /\ DutyOn + Scaled(dt) <= DutyPeriod
      => /\ emPhase' < DutyPeriod'
         /\ relay' <=> emPhase' < DutyOn
         /\ \/ emPhase' = emPhase + Scaled(dt)
            \/ DutyOn <= emPhase /\ relay'

(* A running boost gets shorter with every tick, whatever limits, faults and
   the emergency mode do, and nothing makes it longer. *)
THEOREM BoostRunsDown == Spec => [][BoostStep]_vars
<1>1. TypeOK /\ BoostHasAnEnd /\ [Next]_vars => [BoostStep]_vars
  <2> SUFFICES ASSUME TypeOK, BoostHasAnEnd, Next, boost
               PROVE  boostLeft' <= boostLeft /\ (Tick /\ ~disabled => boostLeft' < boostLeft)
    BY DEF BoostStep
  <2>1. boostLeft \in Nat /\ boostLeft > 0
    BY TimingAssumption DEF TypeOK, Pos, BoostHasAnEnd
  <2>2. CASE Tick
    <3> SUFFICES ASSUME NEW dt \in Dts, NEW r \in Reading, NEW rise \in Rises,
                        ControlTick(dt, r, rise)
                 PROVE  boostLeft' <= boostLeft /\ (~disabled => boostLeft' < boostLeft)
      BY <2>2, InputAssumption DEF Tick
    <3>1. CASE TickKilled(dt, r, rise)
      BY <2>1, <3>1 DEF TickKilled, Killed
    <3>2. CASE TickBoost(dt, r, rise)
      BY <2>1, <3>2, ScaledType DEF TickBoost, Pos
    <3>3. CASE TickBoostEnd(dt, r, rise)
      <4>1. boostLeft' = 0
        BY <3>3, Zenon DEF TickBoostEnd
      <4> QED BY <2>1, <4>1
    <3> QED BY <3>1, <3>2, <3>3 DEF ControlTick, TickEmergency, TickFault, TickRegulate,
                                    Cycling, Faulted, Regulating
  <2>3. CASE WebCommand
    <3>1. CASE CancelBoost
      <4>1. boostLeft' = 0
        BY <3>1, Zenon DEF CancelBoost
      <4> QED BY <2>1, <2>2, <4>1
    <3>2. CASE ~CancelBoost
      <4>1. boostLeft' = boostLeft
        BY <2>3, <3>2 DEF WebCommand, RequestBoost, DisableHeating, EnableHeating, ClearFault,
                          SetPump, SetEmergency, SetLimits, SetSimHeating, SaveOtherSettings,
                          engine
      <4> QED BY <2>1, <2>2, <4>1
    <3> QED BY <3>1, <3>2
  <2>4. CASE NetworkChange
    <3>1. boostLeft' = boostLeft
      BY <2>4 DEF NetworkChange, engine
    <3> QED BY <2>1, <2>2, <3>1
  <2>5. CASE Restart
    <3>1. boostLeft' = 0
      BY <2>5, Zenon DEF Restart
    <3> QED BY <2>1, <3>1
  <2> QED BY <2>2, <2>3, <2>4, <2>5 DEF Next, Elsewhere
<1> QED BY <1>1, TypeCorrect, BoostCorrect, PTL DEF Spec

(* The wait for heat gets shorter, by the clock's step for each of its parts
   that is not over. *)
LEMMA WaitShorter ==
  ASSUME NEW b \in Nat, NEW l \in Nat, NEW w \in Int, NEW s \in Pos,
         Countdown(b, s) > 0 \/ Countdown(l, s) > 0 \/ w > 0
  PROVE  Longer(Countdown(b, s), Longer(Countdown(l, s), w - s)) < Longer(b, Longer(l, w))
BY DEF Longer, Countdown, Pos

(* A tick that leaves the furnace off goes to ST_IDLE, through the overrun if
   there is one, and arms the lock only when it gets closer. *)
LEMMA SettleIdle ==
  ASSUME TypeOK, NEW dt \in Dts, NEW r \in Reading, NEW rise \in Rises,
         Settle(dt, r, rise, "IDLE", FALSE)
  PROVE  /\ relay' = FALSE /\ cfg' = cfg
         /\ offFor' = Wrap(offFor + Scaled(dt))
         /\ Away' < Away \/ (Away' = Away /\ antiOsc' = Lock(dt))
<1> DEFINE overrun == state = "HEATING" /\ cfg.pump.enabled
           target  == IF overrun THEN "PUMP_OVERRUN" ELSE "IDLE"
           driven  == IF overrun THEN PumpStart(out, cfg.pump) ELSE SetRelay(out, FALSE)
           entered == IF cfg.sim THEN "SIMULATION" ELSE target
           shadow  == IF cfg.sim THEN target ELSE wouldBe
           pumping == entered = "PUMP_OVERRUN" \/ shadow = "PUMP_OVERRUN"
           pumped  == IF pumping THEN PumpTick(driven, Scaled(dt)) ELSE driven
           ended   == pumping /\ ~pumped.pumping
<1>1. /\ relay' = FALSE
      /\ offFor' = OffAfter(FALSE, dt)
      /\ state' = IF ended /\ ~cfg.sim THEN "IDLE" ELSE entered
      /\ antiOsc' = LockAfter(target, ended, dt)
      /\ cfg' = cfg
  BY Zenon DEF Settle, store
<1>2. cfg'.sim = cfg.sim /\ cfg.sim \in BOOLEAN /\ cfg.pump.enabled \in BOOLEAN
  BY <1>1 DEF TypeOK, Config, PumpCfg
<1> HIDE DEF ended
<1>3. Away' < Away \/ (Away' = Away /\ antiOsc' = Lock(dt))
  <2>1. CASE cfg.sim
    BY <1>1, <1>2, <2>1 DEF Away, LockAfter
  <2>2. CASE ~cfg.sim /\ state = "HEATING"
    <3>1. state' \in {"IDLE", "PUMP_OVERRUN"}
      BY <1>1, <2>2
    <3> QED BY <1>1, <1>2, <2>2, <3>1 DEF Away
  <2>3. CASE ~cfg.sim /\ state # "HEATING"
    <3>1. state' = "IDLE" /\ target = "IDLE"
      BY <1>1, <2>3
    <3>2. state = "IDLE" => antiOsc' = Lock(dt)
      BY <1>1, <2>3, <3>1 DEF LockAfter
    <3> QED BY <1>1, <1>2, <2>3, <3>1, <3>2 DEF Away
  <2> QED BY <2>1, <2>2, <2>3
<1> QED BY <1>1, <1>3 DEF OffAfter

(* A thermostat tick is one of these two. *)
LEMMA RegulateSettles ==
  ASSUME TypeOK, NEW dt \in Dts, NEW r \in Reading, NEW rise \in Rises,
         TickRegulate(dt, r, rise)
  PROVE  /\ breakLeft' = BreakAfter(r.temp, relay, dt)
         /\ \/ HeatWanted(r.temp, relay, dt) /\ Settle(dt, r, rise, "HEATING", TRUE)
            \/ ~HeatWanted(r.temp, relay, dt) /\ Settle(dt, r, rise, "IDLE", FALSE)
<1>1. HeatWanted(r.temp, relay, dt) \in BOOLEAN
  BY DEF HeatWanted
<1>2. /\ breakLeft' = BreakAfter(r.temp, relay, dt)
      /\ Settle(dt, r, rise, IF HeatWanted(r.temp, relay, dt) THEN "HEATING" ELSE "IDLE",
                HeatWanted(r.temp, relay, dt))
  BY Zenon DEF TickRegulate
<1>3. CASE HeatWanted(r.temp, relay, dt) = TRUE
  BY <1>2, <1>3
<1>4. CASE HeatWanted(r.temp, relay, dt) = FALSE
  BY <1>2, <1>4
<1> QED BY <1>1, <1>3, <1>4

(* The command and the duration of a tick that asks for ST_HEATING. *)
LEMMA SettleHeating ==
  ASSUME NEW dt, NEW r, NEW rise, Settle(dt, r, rise, "HEATING", TRUE)
  PROVE  relay' = TRUE /\ onFor' = Wrap(onFor + Scaled(dt)) /\ cfg' = cfg
<1>1. /\ relay' = (TRUE /\ ~(state = "HEATING" /\ "HEATING" = "IDLE" /\ cfg.pump.enabled))
      /\ onFor' = OnAfter(TRUE /\ ~(state = "HEATING" /\ "HEATING" = "IDLE" /\ cfg.pump.enabled), dt)
      /\ cfg' = cfg
  BY Zenon DEF Settle, store
<1> QED BY <1>1 DEF OnAfter

(* A cold house comes closer to being heated with every tick of the
   thermostat: no wait is started anew, and those there are run at once. *)
THEOREM ColdHouseComesCloser == Spec => [][ColdStep]_vars
<1>1. TypeOK => ColdStep
  <2> SUFFICES ASSUME TypeOK, NEW dt \in Dts, NEW r \in Reading, NEW rise \in Rises,
                      TickRegulate(dt, r, rise), r.temp = "cold", ~relay,
                      offFor + Scaled(dt) <= IntMax, ~relay'
               PROVE  Away' < Away \/ (Away' = Away /\ ColdWait' < ColdWait)
    BY InputAssumption DEF ColdStep
  <2>1. ~HeatWanted(r.temp, relay, dt) /\ Settle(dt, r, rise, "IDLE", FALSE)
    BY RegulateSettles, SettleHeating
  <2>2. /\ cfg' = cfg
        /\ offFor' = Wrap(offFor + Scaled(dt))
        /\ Away' < Away \/ (Away' = Away /\ antiOsc' = Lock(dt))
    BY <2>1, SettleIdle
  <2>3. breakLeft' = Break(dt)
    BY RegulateSettles DEF BreakAfter, TripsMaxOn
  <2>4. CASE Away' = Away /\ antiOsc' = Lock(dt)
    <3> DEFINE s == Scaled(dt)
               w == Limit("minOff") - offFor
    <3>1. s \in Pos /\ breakLeft \in Nat /\ antiOsc \in Nat /\ offFor \in Int
      BY ScaledType DEF TypeOK
    <3>2. Limit("minOff") \in Int
      BY LimitType DEF TypeOK, LimitNames, Pos
    <3>3. Limit("minOff")' = Limit("minOff")
      BY <2>2 DEF Limit
    <3>4. offFor' = offFor + s
      BY <2>2, <3>1, IntMaxAssumption DEF Wrap, Pos
    <3>5. Countdown(breakLeft, s) > 0 \/ Countdown(antiOsc, s) > 0 \/ w > 0
      <4>1. Countdown(breakLeft, s) \in Nat /\ Countdown(antiOsc, s) \in Nat
        BY <3>1, CountdownType DEF Pos
      <4> QED BY <2>1, <3>1, <3>2, <4>1 DEF HeatWanted, Break, Lock
    <3>6. ColdWait' = Longer(Countdown(breakLeft, s), Longer(Countdown(antiOsc, s), w - s))
      <4>1. (Limit("minOff") - offFor)' = w - s
        BY <3>1, <3>2, <3>3, <3>4 DEF Pos
      <4> QED BY <2>3, <2>4, <4>1 DEF ColdWait, Break, Lock, Longer
    <3>7. ColdWait = Longer(breakLeft, Longer(antiOsc, w))
      BY DEF ColdWait
    <3>8. w \in Int
      BY <3>1, <3>2
    <3> HIDE DEF s, w
    <3>9. ColdWait' < ColdWait
      BY <3>1, <3>5, <3>6, <3>7, <3>8, WaitShorter
    <3> QED BY <2>4, <3>9
  <2> QED BY <2>2, <2>4
<1> QED BY <1>1, TypeCorrect, PTL DEF Spec

(* A hot house is left alone: nothing is lit, and what burns has its end. *)
THEOREM HotHouseIsReleased == Spec => [][HotStep]_vars
<1>1. TypeOK => HotStep
  <2> SUFFICES ASSUME TypeOK, NEW dt \in Dts, NEW r \in Reading, NEW rise \in Rises,
                      TickRegulate(dt, r, rise), r.temp = "hot",
                      onFor + Scaled(dt) <= IntMax, relay'
               PROVE  /\ relay
                      /\ 0 < Limit("maxOn") - onFor
                      /\ (Limit("maxOn") - onFor)' < Limit("maxOn") - onFor
    BY InputAssumption DEF HotStep
  <2>1. HeatWanted(r.temp, relay, dt) /\ Settle(dt, r, rise, "HEATING", TRUE)
    BY RegulateSettles, SettleIdle
  <2>2. relay /\ onFor < Limit("maxOn")
    BY <2>1 DEF HeatWanted
  <2>3. cfg' = cfg /\ onFor' = onFor + Scaled(dt)
    <3>1. onFor \in Int /\ Scaled(dt) \in Pos
      BY ScaledType DEF TypeOK
    <3>2. cfg' = cfg /\ onFor' = Wrap(onFor + Scaled(dt))
      BY <2>1, SettleHeating
    <3> QED BY <3>1, <3>2, IntMaxAssumption DEF Wrap, Pos
  <2>4. Limit("maxOn")' = Limit("maxOn")
    BY <2>3 DEF Limit
  <2>5. Limit("maxOn") \in Int /\ onFor \in Int /\ Scaled(dt) \in Pos
    BY LimitType, ScaledType DEF TypeOK, LimitNames, Pos
  <2> QED BY <2>2, <2>3, <2>4, <2>5 DEF Pos
<1> QED BY <1>1, TypeCorrect, PTL DEF Spec

LEMMA ModOfLess ==
  ASSUME NEW x \in Nat, NEW p \in Pos, x < p
  PROVE  x % p = x
BY DEF Pos

LEMMA ModOnce ==
  ASSUME NEW x \in Nat, NEW p \in Pos, x >= p, x - p < p
  PROVE  x % p = x - p
BY DEF Pos

(* The anti-frost cycle skips neither its heating nor its pause. *)
THEOREM DutySkipsNothing == Spec => [][DutyStep]_vars
<1>1. TypeOK => DutyStep
  <2> SUFFICES ASSUME TypeOK, NEW dt \in Dts, NEW r \in Reading, NEW rise \in Rises,
                      TickEmergency(dt, r, rise), emPhase < DutyPeriod,
                      Scaled(dt) <= DutyOn, DutyOn + Scaled(dt) <= DutyPeriod
               PROVE  /\ emPhase' < DutyPeriod'
                      /\ relay' <=> emPhase' < DutyOn
                      /\ \/ emPhase' = emPhase + Scaled(dt)
                         \/ DutyOn <= emPhase /\ relay'
    BY InputAssumption DEF DutyStep
  <2> DEFINE s == Scaled(dt)
  <2>1. DutyPeriod \in Pos /\ DutyOn \in Pos
    <3>1. cfg.emergency.period \in Int /\ cfg.emergency.on \in Int
      BY DEF TypeOK, Config, EmergencyCfg
    <3> QED BY <3>1, DurationOrPositive, DefaultAssumption DEF DutyPeriod, DutyOn
  <2>2. s \in Pos /\ emPhase \in Nat
    BY ScaledType DEF TypeOK
  <2>3. /\ emPhase' = (emPhase + s) % DutyPeriod
        /\ relay' = ((DutyPhase(dt) < DutyOn)
                      /\ ~(state = "HEATING" /\ "EMERGENCY_CYCLIC" = "IDLE" /\ cfg.pump.enabled))
        /\ DutyPhase(dt) = (emPhase + s) % DutyPeriod
        /\ cfg' = cfg
    BY Zenon DEF TickEmergency, Settle, DutyPhase, store
  <2>4. relay' <=> emPhase' < DutyOn
    BY <2>3
  <2>5. DutyPeriod' = DutyPeriod
    BY <2>3 DEF DutyPeriod
  <2> HIDE DEF s
  <2>6. CASE emPhase + s < DutyPeriod
    <3>1. emPhase' = emPhase + s
      BY <2>1, <2>2, <2>3, <2>6, ModOfLess DEF Pos
    <3> QED BY <2>4, <2>5, <2>6, <3>1 DEF s
  <2>7. CASE emPhase + s >= DutyPeriod
    <3>1. s <= DutyOn /\ DutyOn + s <= DutyPeriod
      BY DEF s
    <3>2. emPhase' = emPhase + s - DutyPeriod
      <4> DEFINE x == emPhase + s
      <4>1. x \in Nat /\ x >= DutyPeriod /\ x - DutyPeriod < DutyPeriod
        BY <2>1, <2>2, <2>7, <3>1 DEF Pos
      <4>2. emPhase' = x % DutyPeriod
        BY <2>3
      <4> HIDE DEF x
      <4>3. emPhase' = x - DutyPeriod
        BY <2>1, <4>1, <4>2, ModOnce
      <4> QED BY <2>1, <2>2, <4>3 DEF x, Pos
    <3>3. emPhase' < DutyOn /\ emPhase' < DutyPeriod /\ DutyOn <= emPhase
      BY <2>1, <2>2, <2>7, <3>1, <3>2 DEF Pos
    <3> QED BY <2>4, <2>5, <3>3
  <2> QED BY <2>1, <2>2, <2>6, <2>7 DEF Pos
<1> QED BY <1>1, TypeCorrect, PTL DEF Spec
=============================================================================
