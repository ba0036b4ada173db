----------------------- MODULE ControlHistory_proofs -----------------------
(***************************************************************************)
(* Proofs about ControlHistory: the counters the thermostat decides with   *)
(* never run ahead of the clocks that measure what really happened, so     *)
(* that short cycling, the forced break and unattended heating are bounded *)
(* for every value of the constants.                                       *)
(***************************************************************************)
EXTENDS ControlHistory, ControlEngine_proofs

-----------------------------------------------------------------------------
(* Every limit in RAM and in NVS is one the handler and repair_config accept. *)
ConfigAccepted ==
  \A f \in LimitNames : cfg.limits[f] \in Accepts[f] /\ nvs.limits[f] \in Accepts[f]

LEMMA LimitBound ==
  ASSUME TypeOK, ConfigAccepted
  PROVE  /\ Limit("maxOn") <= MaxOnCeiling
         /\ Limit("minOff") <= HistoryCap
         /\ Limit("minOn") <= HistoryCap
         /\ Limit("breakFor") <= HistoryCap
BY HistoryAssumption DEF Limit, ConfigAccepted, LimitNames

LEMMA LimitsInForce ==
  ASSUME TypeOK
  PROVE  /\ Limit("maxOn") \in Nat /\ Limit("minOff") \in Nat /\ Limit("minOn") \in Nat
         /\ Limit("breakFor") \in Nat /\ Limit("minOff") > 0 /\ Limit("maxOn") > 0
BY LimitType DEF TypeOK, LimitNames, Pos

LEMMA StepBound ==
  ASSUME NEW dt \in Dts
  PROVE  Scaled(dt) \in Nat /\ Scaled(dt) > 0 /\ Scaled(dt) <= StepCeiling
<1>1. Scaled(dt) \in Nat /\ Scaled(dt) > 0
  BY ScaledType DEF Pos
<1>2. Scaled(dt) <= StepCeiling
  BY HistoryAssumption DEF Scaled
<1> QED BY <1>1, <1>2

(* The relay command, its counters and the break after a tick, by mode. *)
LEMMA RelayAfterTick ==
  ASSUME TypeOK, NEW dt \in Dts, NEW r \in Reading, NEW rise \in Rises,
         ControlTick(dt, r, rise)
  PROVE  /\ reading' = r /\ cfg' = cfg /\ nvs' = nvs /\ relay' \in BOOLEAN
         /\ onFor' = OnAfter(relay', dt) /\ offFor' = OffAfter(relay', dt)
         /\ relay' => \/ Cycling
                      \/ Boosting /\ boost'
                      \/ Boosting /\ ~boost' /\ HeatWanted(r.temp, FALSE, dt)
                      \/ Regulating /\ HeatWanted(r.temp, relay, dt)
         /\ Regulating /\ ~relay' => ~HeatWanted(r.temp, relay, dt)
         /\ breakLeft' = IF Tripped(dt, r) THEN Limit("breakFor") ELSE Break(dt)
<1>1. ASSUME NEW wanted \in States, NEW on \in BOOLEAN, Settle(dt, r, rise, wanted, on)
      PROVE  /\ reading' = r /\ cfg' = cfg /\ nvs' = nvs /\ relay' \in BOOLEAN
             /\ onFor' = OnAfter(relay', dt) /\ offFor' = OffAfter(relay', dt)
             /\ relay' => on
             /\ on /\ wanted # "IDLE" => relay'
  BY <1>1 DEF Settle, store
<1>2. /\ reading' = r /\ cfg' = cfg /\ nvs' = nvs /\ relay' \in BOOLEAN
      /\ onFor' = OnAfter(relay', dt) /\ offFor' = OffAfter(relay', dt)
  <2>1. PICK wanted \in States, on \in BOOLEAN : Settle(dt, r, rise, wanted, on)
    BY TickSettles
  <2> QED BY <1>1, <2>1
<1>3. HeatWanted(r.temp, FALSE, dt) \in BOOLEAN /\ HeatWanted(r.temp, relay, dt) \in BOOLEAN
  BY DEF HeatWanted
<1>4. "IDLE" \in States /\ "HEATING" \in States /\ "FAULT" \in States /\ "EMERGENCY_CYCLIC" \in States
  BY DEF States
<1>5. CASE TickKilled(dt, r, rise)
  <2>1. ~relay' /\ ~Regulating /\ breakLeft' = Break(dt)
    BY <1>1, <1>4, <1>5 DEF TickKilled, Killed, Regulating
  <2> QED BY <1>2, <2>1 DEF Tripped
<1>6. CASE TickBoost(dt, r, rise)
  <2>1. Boosting /\ boost' /\ ~Regulating /\ breakLeft' = Break(dt)
    BY <1>6 DEF TickBoost, Boosting, Regulating
  <2> QED BY <1>2, <2>1 DEF Tripped
<1>7. CASE TickBoostEnd(dt, r, rise)
  <2>1. Boosting /\ ~boost' /\ ~Regulating
    BY <1>7 DEF TickBoostEnd, Boosting, Regulating
  <2>2. relay' => HeatWanted(r.temp, FALSE, dt)
    BY <1>1, <1>3, <1>4, <1>7 DEF TickBoostEnd
  <2>3. breakLeft' = Break(dt)
    BY <1>7 DEF TickBoostEnd, BreakAfter, TripsMaxOn
  <2> QED BY <1>2, <2>1, <2>2, <2>3 DEF Tripped
<1>8. CASE TickEmergency(dt, r, rise)
  <2>1. Cycling /\ breakLeft' = Break(dt)
    BY <1>8 DEF TickEmergency
  <2>2. ~Regulating
    BY <2>1 DEF Cycling, Regulating, FaultDuty, Blocking
  <2> QED BY <1>2, <2>1, <2>2 DEF Tripped
<1>9. CASE TickFault(dt, r, rise)
  <2>1. ~relay' /\ ~Regulating /\ breakLeft' = Break(dt)
    BY <1>1, <1>4, <1>9 DEF TickFault, Faulted, Regulating
  <2> QED BY <1>2, <2>1 DEF Tripped
<1>10. CASE TickRegulate(dt, r, rise)
  <2>1. Regulating /\ breakLeft' = BreakAfter(r.temp, relay, dt)
    BY <1>10 DEF TickRegulate
  <2>2. relay' <=> HeatWanted(r.temp, relay, dt)
    BY <1>1, <1>3, <1>4, <1>10 DEF TickRegulate
  <2> QED BY <1>2, <2>1, <2>2 DEF BreakAfter, Tripped
<1> QED BY <1>5, <1>6, <1>7, <1>8, <1>9, <1>10 DEF ControlTick

-----------------------------------------------------------------------------
(* The inductive invariant *)

(* s_on_ms is no longer than the burn it stands for, s_off_ms no longer than
   the pause: it is the counters the code trusts that must not run ahead. *)
CountersTrail ==
  /\ onFor <= lit \/ lit = HistoryCap
  /\ offFor <= quiet \/ quiet = HistoryCap

(* A pause that a tick has seen has reset the burn; and in a burn that the
   thermostat started, s_on_ms is exactly its length. *)
BurnMeasured ==
  /\ offFor # 0 => onFor = 0 /\ lit = 0
  /\ relay /\ ~forced => onFor = lit /\ lit < MaxOnCeiling + StepCeiling

(* The remaining break covers what is still due of it. *)
BreakCovered == tripBreak <= tripAge + breakLeft \/ tripAge = HistoryCap

HInv ==
  /\ TypeOK /\ HistoryTypeOK /\ ConfigAccepted
  /\ CountersTrail /\ BurnMeasured /\ BreakCovered

LEMMA HInitially == HInit => HInv
<1> SUFFICES ASSUME HInit PROVE HInv
  OBVIOUS
<1>1. TypeOK /\ ConfigAccepted
  BY InitType, InputAssumption DEF HInit, Init, ConfigAccepted
<1>2. 0 \in Clock
  BY HistoryAssumption DEF Clock, Pos
<1>3. HistoryTypeOK
  BY <1>2 DEF HInit, HistoryTypeOK
<1>4. onFor = 0 /\ offFor = 0 /\ ~relay
  BY DEF HInit, Init
<1>5. CountersTrail /\ BurnMeasured /\ BreakCovered
  BY <1>4, TypeCorrect DEF HInit, CountersTrail, BurnMeasured, BreakCovered, Init
<1> QED BY <1>1, <1>3, <1>5 DEF HInv

LEMMA AdvanceType ==
  ASSUME NEW c \in Clock, NEW d \in Nat
  PROVE  /\ Advance(c, d) \in Clock
         /\ Advance(c, d) = c + d \/ Advance(c, d) = HistoryCap
         /\ c = HistoryCap => Advance(c, d) = HistoryCap
         /\ c + d <= HistoryCap => Advance(c, d) = c + d
BY HistoryAssumption DEF Advance, Clock, Pos

LEMMA WrapBound ==
  ASSUME NEW x \in Int
  PROVE  Wrap(x) <= x /\ (x <= IntMax => Wrap(x) = x)
BY IntMaxAssumption DEF Wrap, Pos

LEMMA TickKeepsHInv ==
  ASSUME HInv, NEW dt \in Dts, NEW r \in Reading, NEW rise \in Rises,
         ControlTick(dt, r, rise), Elapse(dt, r), TypeOK'
  PROVE  HInv'
<1> USE DEF HInv
<1> DEFINE d == Scaled(dt)
<1>1. d \in Nat /\ d > 0 /\ d <= StepCeiling
  BY StepBound
<1>2. /\ cfg' = cfg /\ nvs' = nvs /\ relay' \in BOOLEAN
      /\ onFor' = OnAfter(relay', dt) /\ offFor' = OffAfter(relay', dt)
      /\ relay' => \/ Cycling
                   \/ Boosting /\ boost'
                   \/ Boosting /\ ~boost' /\ HeatWanted(r.temp, FALSE, dt)
                   \/ Regulating /\ HeatWanted(r.temp, relay, dt)
      /\ breakLeft' = IF Tripped(dt, r) THEN Limit("breakFor") ELSE Break(dt)
  BY RelayAfterTick
<1>3. /\ quiet' = IF relay' THEN 0 ELSE Advance(quiet, d)
      /\ lit' = IF relay' THEN Advance(lit, d) ELSE 0
      /\ forced' = (relay' /\ (\/ relay /\ forced
                               \/ Cycling
                               \/ Boosting /\ boost'))
      /\ tripAge' = IF Tripped(dt, r) THEN 0 ELSE Advance(tripAge, d)
      /\ tripBreak' = IF Tripped(dt, r) THEN Limit("breakFor") ELSE tripBreak
  BY DEF Elapse
<1>4. /\ quiet \in Clock /\ lit \in Clock /\ tripAge \in Clock /\ tripBreak \in Clock
      /\ hotFor \in Clock /\ HistoryCap \in Nat
      /\ onFor \in Int /\ offFor \in Int /\ breakLeft \in Nat /\ relay \in BOOLEAN
  BY HistoryAssumption DEF HistoryTypeOK, TypeOK, Pos
<1>5. 0 \in Clock /\ Clock \subseteq Nat
  BY <1>4 DEF Clock
<1>6. Limit("breakFor") \in Clock
  BY LimitBound, LimitsInForce, <1>4 DEF Clock
<1>7. HistoryTypeOK'
  <2>1. Advance(quiet, d) \in Clock /\ Advance(lit, d) \in Clock /\ Advance(tripAge, d) \in Clock
        /\ Advance(hotFor, d) \in Clock
    BY <1>1, <1>4, AdvanceType
  <2>2. hotFor' \in Clock
    BY <1>5, <2>1 DEF Elapse
  <2>3. forced' \in BOOLEAN
    BY <1>3
  <2> QED BY <1>3, <1>4, <1>5, <1>6, <2>1, <2>2, <2>3 DEF HistoryTypeOK
<1>8. ConfigAccepted'
  BY <1>2 DEF ConfigAccepted
<1>9. CountersTrail'
  <2>1. CASE relay'
    <3>1. onFor' = Wrap(onFor + d) /\ offFor' = 0 /\ lit' = Advance(lit, d) /\ quiet' = 0
      BY <1>2, <1>3, <2>1 DEF OnAfter, OffAfter
    <3>2. Wrap(onFor + d) <= onFor + d
      BY <1>1, <1>4, WrapBound
    <3>3. lit' = HistoryCap \/ (lit' = lit + d /\ lit # HistoryCap)
      BY <1>1, <1>4, <3>1, AdvanceType
    <3>4. Wrap(onFor + d) \in Int
      BY <1>1, <1>4, WrapType
    <3> QED BY <1>1, <1>4, <1>5, <3>1, <3>2, <3>3, <3>4 DEF CountersTrail
  <2>2. CASE ~relay'
    <3>1. offFor' = Wrap(offFor + d) /\ onFor' = 0 /\ quiet' = Advance(quiet, d) /\ lit' = 0
      BY <1>2, <1>3, <2>2 DEF OnAfter, OffAfter
    <3>2. Wrap(offFor + d) <= offFor + d
      BY <1>1, <1>4, WrapBound
    <3>3. quiet' = HistoryCap \/ (quiet' = quiet + d /\ quiet # HistoryCap)
      BY <1>1, <1>4, <3>1, AdvanceType
    <3>4. Wrap(offFor + d) \in Int
      BY <1>1, <1>4, WrapType
    <3> QED BY <1>1, <1>4, <1>5, <3>1, <3>2, <3>3, <3>4 DEF CountersTrail
  <2> QED BY <2>1, <2>2
<1>10. BurnMeasured'
  <2>1. CASE ~relay'
    BY <1>2, <1>3, <2>1 DEF BurnMeasured, OnAfter
  <2>2. CASE relay' /\ forced'
    BY <1>2, <2>2 DEF BurnMeasured, OffAfter
  <2>3. CASE relay' /\ ~forced'
    <3>1. ~(relay /\ forced) /\ ~Cycling /\ ~(Boosting /\ boost')
      BY <1>3, <2>3, Zenon
    <3>2. \/ Boosting /\ ~boost' /\ HeatWanted(r.temp, FALSE, dt)
          \/ Regulating /\ HeatWanted(r.temp, relay, dt)
      BY <1>2, <2>3, <3>1
    <3>3. offFor >= Limit("minOff") \/ (relay /\ onFor < Limit("maxOn"))
      BY <3>2 DEF HeatWanted
    <3>4. onFor = lit /\ lit < MaxOnCeiling
      <4>1. CASE offFor >= Limit("minOff")
        <5>1. offFor # 0
          BY <1>4, <4>1, LimitsInForce
        <5>2. MaxOnCeiling > 0
          BY HistoryAssumption DEF Pos
        <5> QED BY <5>1, <5>2 DEF BurnMeasured
      <4>2. CASE relay /\ onFor < Limit("maxOn")
        <5>1. onFor = lit
          BY <3>1, <4>2 DEF BurnMeasured
        <5> QED BY <1>4, <4>2, <5>1, LimitBound, LimitsInForce, HistoryAssumption DEF Pos
      <4> QED BY <3>3, <4>1, <4>2
    <3>5. lit + d < MaxOnCeiling + StepCeiling /\ lit + d <= HistoryCap /\ lit + d <= IntMax
      BY <1>1, <1>4, <1>5, <3>4, HistoryAssumption, IntMaxAssumption DEF Pos
    <3>6. lit' = lit + d
      BY <1>1, <1>3, <1>4, <2>3, <3>5, AdvanceType
    <3>7. onFor' = lit + d /\ offFor' = 0
      BY <1>1, <1>2, <1>4, <2>3, <3>4, <3>5, WrapBound DEF OnAfter, OffAfter
    <3> QED BY <3>5, <3>6, <3>7 DEF BurnMeasured
  <2> QED BY <2>1, <2>2, <2>3
<1>11. BreakCovered'
  <2>1. CASE Tripped(dt, r)
    <3>1. tripAge' = 0 /\ tripBreak' = Limit("breakFor") /\ breakLeft' = Limit("breakFor")
      BY <1>2, <1>3, <2>1, Zenon
    <3>2. Limit("breakFor") \in Nat
      BY LimitsInForce
    <3> QED BY <3>1, <3>2 DEF BreakCovered
  <2>2. CASE ~Tripped(dt, r)
    <3>1. breakLeft' = Break(dt) /\ tripAge' = Advance(tripAge, d) /\ tripBreak' = tripBreak
      BY <1>2, <1>3, <2>2
    <3>2. breakLeft' \in Nat /\ breakLeft' >= breakLeft - d
      BY <1>1, <1>4, <3>1 DEF Break, Countdown
    <3>3. tripAge' = HistoryCap \/ (tripAge' = tripAge + d /\ tripAge # HistoryCap)
      BY <1>1, <1>4, <3>1, AdvanceType
    <3> QED BY <1>1, <1>4, <1>5, <3>1, <3>2, <3>3 DEF BreakCovered
  <2> QED BY <2>1, <2>2
<1> QED BY <1>7, <1>8, <1>9, <1>10, <1>11

(* No command touches the counters or the clocks; the only one that touches
   the relay releases it. *)
LEMMA CommandEffect ==
  ASSUME TypeOK, ConfigAccepted, WebCommand \/ NetworkChange
  PROVE  /\ timers' = timers
         /\ relay' => relay
         /\ relay /\ ~relay' => disabled'
         /\ ConfigAccepted'
<1> USE DEF engine, timers, store
<1>1. CASE cfg' = cfg /\ nvs' = nvs
  <2>1. ConfigAccepted'
    BY <1>1 DEF ConfigAccepted
  <2>2. CASE DisableHeating
    BY <2>1, <2>2 DEF DisableHeating
  <2>3. CASE ~DisableHeating
    <3>1. timers' = timers /\ relay' = relay
      BY <2>3 DEF WebCommand, NetworkChange, RequestBoost, CancelBoost, EnableHeating,
                  ClearFault, SetPump, SetEmergency, SetLimits, SetSimHeating,
                  SaveOtherSettings
    <3> QED BY <2>1, <3>1
  <2> QED BY <2>2, <2>3
<1>2. ASSUME Save, UNCHANGED engine,
             \A f \in LimitNames : cfg'.limits[f] \in Accepts[f]
      PROVE  /\ timers' = timers /\ relay' = relay /\ ConfigAccepted'
  <2>1. nvs' = cfg' \/ nvs' = nvs
    BY <1>2 DEF Save
  <2> QED BY <1>2, <2>1 DEF ConfigAccepted
<1>3. ASSUME NEW p \in PumpInputs, SetPump(p)
      PROVE  /\ timers' = timers /\ relay' = relay /\ ConfigAccepted'
  <2>1. cfg'.limits = cfg.limits
    BY <1>3 DEF SetPump, TypeOK, Config
  <2> QED BY <1>2, <1>3, <2>1 DEF SetPump, ConfigAccepted
<1>4. ASSUME NEW e \in EmergencyInputs, SetEmergency(e)
      PROVE  /\ timers' = timers /\ relay' = relay /\ ConfigAccepted'
  <2>1. cfg'.limits = cfg.limits
    BY <1>4 DEF SetEmergency, TypeOK, Config
  <2> QED BY <1>2, <1>4, <2>1 DEF SetEmergency, ConfigAccepted
<1>5. ASSUME NEW l \in LimitInputs, SetLimits(l)
      PROVE  /\ timers' = timers /\ relay' = relay /\ ConfigAccepted'
  <2>1. cfg'.limits = [f \in LimitNames |->
                         IF l[f] \in Accepts[f] THEN l[f] ELSE cfg.limits[f]]
    BY <1>5 DEF SetLimits, TypeOK, Config
  <2>2. \A f \in LimitNames : cfg'.limits[f] \in Accepts[f]
    BY <2>1 DEF ConfigAccepted
  <2> QED BY <1>2, <1>5, <2>2 DEF SetLimits
<1>6. ASSUME NEW b \in SimInputs, SetSimHeating(b)
      PROVE  /\ timers' = timers /\ relay' = relay /\ ConfigAccepted'
  <2>1. cfg'.limits = cfg.limits
    BY <1>6 DEF SetSimHeating, TypeOK, Config
  <2> QED BY <1>2, <1>6, <2>1 DEF SetSimHeating, ConfigAccepted
<1>7. CASE SaveOtherSettings
  BY <1>2, <1>7 DEF SaveOtherSettings, ConfigAccepted
<1>8. CASE RequestBoost \/ CancelBoost \/ DisableHeating \/ EnableHeating \/ ClearFault
           \/ NetworkChange
  <2>1. cfg' = cfg /\ nvs' = nvs
    BY <1>8 DEF RequestBoost, CancelBoost, DisableHeating, EnableHeating, ClearFault,
                NetworkChange
  <2> QED BY <1>1, <2>1
<1> QED BY <1>3, <1>4, <1>5, <1>6, <1>7, <1>8 DEF WebCommand

LEMMA HInductive == HInv /\ [HNext]_hvars => HInv'
<1> SUFFICES ASSUME HInv, [HNext]_hvars PROVE HInv'
  OBVIOUS
<1> USE DEF HInv
<1>1. CASE HTick
  <2>1. PICK dt \in Dts, r \in Reading, rise \in Rises : ControlTick(dt, r, rise) /\ Elapse(dt, r)
    BY <1>1, InputAssumption DEF HTick
  <2>2. TypeOK'
    BY <1>1, TickType DEF HTick, Tick
  <2> QED BY <2>1, <2>2, TickKeepsHInv
<1>2. CASE HCommand
  <2>1. TypeOK'
    BY <1>2, CommandType DEF HCommand
  <2>2. timers' = timers /\ (relay' => relay) /\ ConfigAccepted'
    BY <1>2, CommandEffect DEF HCommand
  <2> QED BY <1>2, <2>1, <2>2
          DEF HCommand, history, timers, HistoryTypeOK, CountersTrail, BurnMeasured, BreakCovered
<1>3. CASE HRestart
  <2>1. TypeOK'
    BY <1>3, RestartType DEF HRestart
  <2>2. ConfigAccepted'
    BY <1>3 DEF HRestart, Restart, ConfigAccepted
  <2>3. 0 \in Clock
    BY HistoryAssumption DEF Clock, Pos
  <2>4. /\ quiet' = 0 /\ lit' = 0 /\ forced' = FALSE /\ tripAge' = 0 /\ tripBreak' = 0
        /\ hotFor' = 0 /\ onFor' = 0 /\ offFor' = 0 /\ relay' = FALSE /\ breakLeft' = 0
    BY <1>3 DEF HRestart, Restart
  <2>5. HistoryTypeOK'
    BY <2>3, <2>4 DEF HistoryTypeOK
  <2>6. CountersTrail' /\ BurnMeasured' /\ BreakCovered'
    BY <2>4 DEF CountersTrail, BurnMeasured, BreakCovered
  <2> QED BY <2>1, <2>2, <2>5, <2>6
<1>4. CASE UNCHANGED hvars
  BY <1>4 DEF hvars, vars, engine, timers, monitor, store, history, TypeOK, HistoryTypeOK,
              ConfigAccepted, CountersTrail, BurnMeasured, BreakCovered
<1> QED BY <1>1, <1>2, <1>3, <1>4 DEF HNext

LEMMA HInvariant == HSpec => []HInv
BY HInitially, HInductive, PTL DEF HSpec

-----------------------------------------------------------------------------
(* The history clocks, too, stay in their types. *)
THEOREM HistoryTypeCorrect == HSpec => []HistoryTypeOK
<1>1. HInv => HistoryTypeOK
  BY DEF HInv
<1> QED BY <1>1, HInvariant, PTL

(* A burn that no boost and no emergency cycle took part in is never longer
   than the max-on limit and one tick. *)
THEOREM UnattendedHeatingIsBounded == HSpec => []UnattendedHeatingBounded
<1>1. HInv => UnattendedHeatingBounded
  BY DEF HInv, BurnMeasured, UnattendedHeatingBounded
<1> QED BY <1>1, HInvariant, PTL

(* The steps on which the thermostat starts the furnace are ticks whose
   hysteresis asked for heat with the relay off. *)
LEMMA ThermostatOnTick ==
  ASSUME HInv, [HNext]_hvars, ThermostatOn
  PROVE  \E dt \in Dts, r \in Reading :
           /\ HeatWanted(r.temp, FALSE, dt) /\ Elapse(dt, r) /\ ~Tripped(dt, r)
<1>1. ~relay /\ relay' /\ (Regulating \/ (Boosting /\ ~boost'))
  BY DEF ThermostatOn
<1>2. CASE HTick
  <2>1. PICK dt \in Dts, r \in Reading, rise \in Rises : ControlTick(dt, r, rise) /\ Elapse(dt, r)
    BY <1>2, InputAssumption DEF HTick
  <2>2. \/ Cycling
        \/ Boosting /\ boost'
        \/ Boosting /\ ~boost' /\ HeatWanted(r.temp, FALSE, dt)
        \/ Regulating /\ HeatWanted(r.temp, relay, dt)
    BY <1>1, <2>1, RelayAfterTick DEF HInv
  <2>3. HeatWanted(r.temp, FALSE, dt)
    <3>1. ~(Cycling /\ Regulating) /\ ~(Boosting /\ Cycling) /\ ~(Boosting /\ Regulating)
      BY DEF Cycling, Boosting, Regulating, FaultDuty, Blocking
    <3>2. relay = FALSE
      BY <1>1 DEF HInv, TypeOK
    <3> QED BY <1>1, <2>2, <3>1, <3>2
  <2>4. ~Tripped(dt, r)
    BY <1>1 DEF Tripped, TripsMaxOn
  <2> QED BY <2>1, <2>3, <2>4
<1>3. CASE HCommand
  BY <1>1, <1>3, CommandEffect DEF HCommand, HInv
<1>4. CASE HRestart
  BY <1>1, <1>4 DEF HRestart, Restart
<1>5. CASE UNCHANGED hvars
  BY <1>1, <1>5 DEF hvars, vars, engine
<1> QED BY <1>2, <1>3, <1>4, <1>5 DEF HNext

(* Short cycling is impossible: the thermostat starts the furnace only after
   it has really been off for the min_off_sec in force. *)
THEOREM MinOffIsRespected == HSpec => MinOffRespected
<1>1. HInv /\ [HNext]_hvars => [ThermostatOn => quiet >= Limit("minOff")]_hvars
  <2> SUFFICES ASSUME HInv, [HNext]_hvars, ThermostatOn PROVE quiet >= Limit("minOff")
    OBVIOUS
  <2>1. PICK dt \in Dts, r \in Reading : HeatWanted(r.temp, FALSE, dt)
    BY ThermostatOnTick
  <2>2. offFor >= Limit("minOff")
    BY <2>1 DEF HeatWanted
  <2>3. Limit("minOff") <= HistoryCap /\ Limit("minOff") \in Nat
    BY LimitBound, LimitsInForce DEF HInv
  <2>4. quiet \in Int /\ offFor \in Int /\ HistoryCap \in Int
    BY HistoryAssumption DEF HInv, HistoryTypeOK, Clock, TypeOK, Pos
  <2> QED BY <2>2, <2>3, <2>4 DEF HInv, CountersTrail
<1> QED BY <1>1, HInvariant, PTL DEF HSpec, MinOffRespected

(* The break after a max-on cut-off is served in full before the thermostat
   starts the furnace again. *)
THEOREM BreakIsRespected == HSpec => BreakRespected
<1>1. HInv /\ [HNext]_hvars => [ThermostatOn => tripAge' >= tripBreak]_hvars
  <2> SUFFICES ASSUME HInv, [HNext]_hvars, ThermostatOn PROVE tripAge' >= tripBreak
    OBVIOUS
  <2>1. PICK dt \in Dts, r \in Reading :
          HeatWanted(r.temp, FALSE, dt) /\ Elapse(dt, r) /\ ~Tripped(dt, r)
    BY ThermostatOnTick
  <2>2. Scaled(dt) \in Nat
    BY StepBound
  <2>3. /\ tripAge \in Clock /\ tripBreak \in Clock /\ breakLeft \in Nat /\ HistoryCap \in Nat
    BY HistoryAssumption DEF HInv, HistoryTypeOK, TypeOK, Pos
  <2>4. breakLeft <= Scaled(dt)
    BY <2>1, <2>2, <2>3 DEF HeatWanted, Break, Countdown
  <2>5. tripAge' = Advance(tripAge, Scaled(dt))
    BY <2>1 DEF Elapse
  <2>6. tripAge' = HistoryCap \/ (tripAge' = tripAge + Scaled(dt) /\ tripAge # HistoryCap)
    BY <2>2, <2>3, <2>5, AdvanceType
  <2> QED BY <2>2, <2>3, <2>4, <2>6 DEF HInv, BreakCovered, Clock
<1> QED BY <1>1, HInvariant, PTL DEF HSpec, BreakRespected

(* Once started, the furnace is not turned off by a usable reading before
   min_on_sec, except for the forced break. *)
THEOREM MinOnIsRespected == HSpec => MinOnRespected
<1>1. HInv /\ [HNext]_hvars
        => [ThermostatOff => lit >= Limit("minOn") \/ tripAge' = 0 \/ breakLeft > 0]_hvars
  <2> SUFFICES ASSUME HInv, [HNext]_hvars, ThermostatOff, tripAge' # 0, ~(breakLeft > 0)
               PROVE  lit >= Limit("minOn")
    OBVIOUS
  <2>1. relay /\ ~relay' /\ Regulating /\ ~disabled' /\ reading'.temp # "nan"
    BY DEF ThermostatOff
  <2>2. HTick
    <3>1. CASE HCommand
      BY <2>1, <3>1, CommandEffect DEF HCommand, HInv
    <3>2. CASE HRestart
      BY <2>1, <3>2 DEF HRestart, Restart, NoReading
    <3>3. CASE UNCHANGED hvars
      BY <2>1, <3>3 DEF hvars, vars, engine
    <3> QED BY <3>1, <3>2, <3>3 DEF HNext
  <2>3. PICK dt \in Dts, r \in Reading, rise \in Rises : ControlTick(dt, r, rise) /\ Elapse(dt, r)
    BY <2>2, InputAssumption DEF HTick
  <2>4. reading' = r /\ ~HeatWanted(r.temp, relay, dt)
    BY <2>1, <2>3, RelayAfterTick DEF HInv
  <2>5. ~Tripped(dt, r)
    BY <2>3 DEF Elapse
  <2>6. Break(dt) = 0
    BY StepBound DEF HInv, TypeOK, Break, Countdown
  <2>7. onFor >= Limit("minOn")
    <3>1. ~TripsMaxOn(r.temp, relay, dt)
      BY <2>1, <2>5 DEF Tripped
    <3>2. onFor < Limit("maxOn")
      BY <2>1, <2>4, <2>6, <3>1, LimitsInForce DEF TripsMaxOn, HInv, TypeOK
    <3> QED BY <2>1, <2>4, <2>6, <3>2 DEF HeatWanted
  <2>8. Limit("minOn") <= HistoryCap /\ Limit("minOn") \in Nat
    BY LimitBound, LimitsInForce DEF HInv
  <2>9. lit \in Int /\ onFor \in Int /\ HistoryCap \in Int
    BY HistoryAssumption DEF HInv, HistoryTypeOK, Clock, TypeOK, Pos
  <2> QED BY <2>7, <2>8, <2>9 DEF HInv, CountersTrail
<1> QED BY <1>1, HInvariant, PTL DEF HSpec, MinOnRespected

-----------------------------------------------------------------------------
(* Overshoot *)

(* Simulation is never switched on: it never touches s_would_be. *)
NeverSimulated ==
  /\ \A b \in SimInputs : ~b.enabled
  /\ \A c \in InitConfigs : ~c.sim

(* In a house that stays hot the anti-oscillation lock, armed once on entering
   ST_HEATING, only runs down; and s_on_ms counts every tick of the burn. *)
Settling ==
  /\ ~cfg.sim /\ ~nvs.sim /\ wouldBe = "IDLE"
  /\ antiOsc <= SettleCeiling
  /\ lit < HistoryCap => onFor = lit
  /\ hotFor <= lit
  /\ hotFor > 0 => state = "HEATING"
  /\ hotFor > 0 /\ antiOsc > 0 => hotFor + antiOsc <= SettleCeiling + StepCeiling
  /\ hotFor < SettleCeiling + StepCeiling

LEMMA SettleBound ==
  ASSUME TypeOK, ConfigAccepted
  PROVE  /\ Limit("minOn") <= SettleCeiling /\ Limit("antiOsc") <= SettleCeiling
         /\ Limit("antiOsc") \in Nat
<1>1. Limit("minOn") <= SettleCeiling /\ Limit("antiOsc") <= SettleCeiling
  BY HistoryAssumption DEF Limit, ConfigAccepted, LimitNames
<1>2. Limit("antiOsc") \in Nat
  BY LimitType DEF TypeOK, LimitNames, Pos
<1> QED BY <1>1, <1>2

(* Outside simulation only the entry of a state arms the lock, and a tick that
   heats enters ST_HEATING and stays there. *)
LEMMA LockAfterSettle ==
  ASSUME TypeOK, ~cfg.sim, wouldBe = "IDLE", NEW dt \in Dts, NEW r \in Reading, NEW rise \in Rises,
         NEW wanted \in States, NEW on \in BOOLEAN, Settle(dt, r, rise, wanted, on)
  PROVE  /\ wouldBe' = "IDLE"
         /\ antiOsc' = Limit("antiOsc") \/ antiOsc' = Lock(dt)
         /\ wanted = "HEATING" => /\ state' = "HEATING"
                                  /\ state = "HEATING" => antiOsc' = Lock(dt)
<1> DEFINE overrun == state = "HEATING" /\ wanted = "IDLE" /\ cfg.pump.enabled
           target  == IF overrun THEN "PUMP_OVERRUN" ELSE wanted
           command == on /\ ~overrun
           driven  == IF overrun THEN PumpStart(out, cfg.pump) ELSE SetRelay(out, command)
           entered == IF cfg.sim THEN "SIMULATION" ELSE target
           shadow  == IF cfg.sim THEN target ELSE wouldBe
           pumping == entered = "PUMP_OVERRUN" \/ shadow = "PUMP_OVERRUN"
           pumped  == IF pumping THEN PumpTick(driven, Scaled(dt)) ELSE driven
           ended   == pumping /\ ~pumped.pumping
<1>1. /\ wouldBe' = IF ended /\ cfg.sim THEN "IDLE" ELSE shadow
      /\ state' = IF ended /\ ~cfg.sim THEN "IDLE" ELSE entered
      /\ antiOsc' = LockAfter(target, ended, dt)
  BY Zenon DEF Settle
<1>2. entered = target /\ shadow = "IDLE"
  OBVIOUS
<1>3. wanted = "HEATING" => target = "HEATING" /\ ~pumping
  BY <1>2
<1>4. wanted = "HEATING" => ~ended
  BY <1>3
<1> HIDE DEF ended, target, entered, shadow
<1>5. wouldBe' = "IDLE"
  BY <1>1, <1>2
<1>6. antiOsc' = Limit("antiOsc") \/ antiOsc' = Lock(dt)
  BY <1>1 DEF LockAfter
<1>7. wanted = "HEATING" => state' = "HEATING" /\ (state = "HEATING" => antiOsc' = Lock(dt))
  BY <1>1, <1>2, <1>3, <1>4 DEF LockAfter
<1> QED BY <1>5, <1>6, <1>7

LEMMA TickKeepsSettling ==
  ASSUME HInv, HInv', Settling, NEW dt \in Dts, NEW r \in Reading, NEW rise \in Rises,
         ControlTick(dt, r, rise), Elapse(dt, r)
  PROVE  Settling'
<1> DEFINE d == Scaled(dt)
           Burning == Regulating /\ relay /\ relay' /\ r.temp = "hot" /\ lit < HistoryCap
<1>1. d \in Nat /\ d > 0 /\ d <= StepCeiling
  BY StepBound
<1> HIDE DEF d
<1>2. TypeOK /\ ConfigAccepted /\ HistoryTypeOK /\ TypeOK' /\ HistoryTypeOK'
  BY DEF HInv
<1>3. /\ ~cfg.sim /\ ~nvs.sim /\ wouldBe = "IDLE"
      /\ antiOsc <= SettleCeiling
      /\ lit < HistoryCap => onFor = lit
      /\ hotFor <= lit
      /\ hotFor > 0 => state = "HEATING"
      /\ hotFor > 0 /\ antiOsc > 0 => hotFor + antiOsc <= SettleCeiling + StepCeiling
      /\ hotFor < SettleCeiling + StepCeiling
  BY DEF Settling
<1>4. /\ lit \in Clock /\ hotFor \in Clock /\ hotFor' \in Clock /\ Clock \subseteq Nat
      /\ lit \in Nat /\ hotFor \in Nat /\ hotFor' \in Nat /\ IntMax \in Nat
      /\ HistoryCap \in Nat /\ SettleCeiling \in Nat /\ StepCeiling \in Nat /\ StepCeiling > 0
      /\ SettleCeiling > 0 /\ HistoryCap <= IntMax
      /\ antiOsc \in Nat /\ onFor \in Int /\ relay \in BOOLEAN
  BY <1>2, HistoryAssumption, IntMaxAssumption DEF HistoryTypeOK, TypeOK, Clock, Pos
<1>5. /\ cfg' = cfg /\ nvs' = nvs /\ relay' \in BOOLEAN /\ onFor' = OnAfter(relay', dt)
      /\ Regulating /\ relay' => HeatWanted(r.temp, relay, dt)
  <2>1. /\ cfg' = cfg /\ nvs' = nvs /\ relay' \in BOOLEAN /\ onFor' = OnAfter(relay', dt)
        /\ relay' => \/ Cycling
                     \/ Boosting /\ boost'
                     \/ Boosting /\ ~boost' /\ HeatWanted(r.temp, FALSE, dt)
                     \/ Regulating /\ HeatWanted(r.temp, relay, dt)
    BY <1>2, RelayAfterTick
  <2>2. Regulating => ~Cycling /\ ~Boosting
    BY DEF Regulating, Cycling, Boosting, FaultDuty, Blocking
  <2> QED BY <2>1, <2>2
<1>6. /\ lit' = IF relay' THEN Advance(lit, d) ELSE 0
      /\ hotFor' = IF Burning THEN Advance(hotFor, d) ELSE 0
  BY DEF Elapse, d
<1>7. /\ wouldBe' = "IDLE"
      /\ antiOsc' = Limit("antiOsc") \/ antiOsc' = Lock(dt)
  <2>1. PICK wanted \in States, on \in BOOLEAN : Settle(dt, r, rise, wanted, on)
    BY <1>2, TickSettles
  <2> QED BY <1>2, <1>3, <2>1, LockAfterSettle
<1>8. Lock(dt) \in Nat /\ Lock(dt) <= antiOsc /\ (Lock(dt) > 0 => Lock(dt) = antiOsc - d)
  BY <1>1, <1>4 DEF Lock, Countdown, d
<1>9. antiOsc' \in Nat /\ antiOsc' <= SettleCeiling
  BY <1>2, <1>3, <1>4, <1>7, <1>8, SettleBound
<1>10. Burning => /\ state' = "HEATING"
                  /\ state = "HEATING" => antiOsc' = Lock(dt)
                  /\ onFor < Limit("minOn") \/ Lock(dt) > 0
  <2> SUFFICES ASSUME Burning
               PROVE  /\ state' = "HEATING"
                      /\ state = "HEATING" => antiOsc' = Lock(dt)
                      /\ onFor < Limit("minOn") \/ Lock(dt) > 0
    OBVIOUS
  <2>1. TickRegulate(dt, r, rise)
    BY DEF ControlTick, TickKilled, TickBoost, TickBoostEnd, TickEmergency, TickFault,
           Killed, Regulating, Cycling, Boosting, Faulted, FaultDuty, Blocking
  <2>2. HeatWanted(r.temp, relay, dt)
    BY <1>5
  <2>3. Settle(dt, r, rise, "HEATING", HeatWanted(r.temp, relay, dt))
    BY <2>1, <2>2 DEF TickRegulate
  <2>4. HeatWanted(r.temp, relay, dt) \in BOOLEAN /\ "HEATING" \in States
    BY DEF HeatWanted, States
  <2>5. state' = "HEATING" /\ (state = "HEATING" => antiOsc' = Lock(dt))
    BY <1>2, <1>3, <2>3, <2>4, LockAfterSettle
  <2>6. Limit("minOn") \in Nat
    BY <1>2, LimitsInForce
  <2>7. ~(onFor >= Limit("minOn") /\ Lock(dt) = 0)
    BY <2>2 DEF HeatWanted
  <2> QED BY <1>4, <1>8, <2>5, <2>6, <2>7
<1>11. lit' < HistoryCap => onFor' = lit'
  <2>1. CASE ~relay'
    BY <1>5, <1>6, <2>1 DEF OnAfter
  <2>2. CASE relay'
    <3>1. lit' = Advance(lit, d) /\ onFor' = Wrap(onFor + d)
      BY <1>5, <1>6, <2>2 DEF OnAfter, d
    <3>2. ASSUME lit' < HistoryCap PROVE onFor' = lit'
      <4>1. lit' = lit + d /\ lit < HistoryCap
        BY <1>1, <1>4, <3>1, <3>2, AdvanceType
      <4>2. onFor + d = lit' /\ lit' <= IntMax /\ lit' \in Int
        BY <1>1, <1>3, <1>4, <3>2, <4>1
      <4> QED BY <3>1, <4>2, WrapBound
    <3> QED BY <3>2
  <2> QED BY <2>1, <2>2
<1> HIDE DEF Burning
<1>12. CASE ~Burning
  <2>1. hotFor' = 0 /\ lit' \in Nat
    <3>1. lit' \in Clock
      BY <1>2 DEF HistoryTypeOK
    <3> QED BY <1>4, <1>6, <1>12, <3>1
  <2>2. ~cfg'.sim /\ ~nvs'.sim
    BY <1>3, <1>5
  <2> QED BY <1>4, <1>7, <1>9, <1>11, <2>1, <2>2 DEF Settling
<1>13. CASE Burning
  <2>1. hotFor' = Advance(hotFor, d) /\ lit' = Advance(lit, d) /\ lit < HistoryCap
    BY <1>6, <1>13 DEF Burning
  <2>2. hotFor' <= hotFor + d /\ hotFor' \in Nat
    BY <1>1, <1>4, <2>1 DEF Advance
  <2>3. hotFor' <= lit'
    BY <1>1, <1>3, <1>4, <2>1 DEF Advance
  <2>4. hotFor' < SettleCeiling + StepCeiling
    <3>1. CASE onFor < Limit("minOn")
      <4>1. Limit("minOn") <= SettleCeiling /\ Limit("minOn") \in Nat
        BY <1>2, SettleBound, LimitsInForce
      <4>2. hotFor < SettleCeiling
        BY <1>3, <1>4, <2>1, <3>1, <4>1
      <4> QED BY <1>1, <1>4, <2>2, <4>2
    <3>2. CASE Lock(dt) > 0
      <4>1. Lock(dt) = antiOsc - d /\ antiOsc > d
        BY <1>1, <1>4, <1>8, <3>2
      <4>2. hotFor > 0 => hotFor + antiOsc <= SettleCeiling + StepCeiling
        BY <1>1, <1>3, <1>4, <4>1
      <4>3. hotFor = 0 => hotFor + antiOsc <= SettleCeiling + StepCeiling
        BY <1>3, <1>4
      <4>4. hotFor + antiOsc <= SettleCeiling + StepCeiling
        BY <1>4, <4>2, <4>3
      <4> QED BY <1>1, <1>4, <2>2, <4>1, <4>4
    <3> QED BY <1>10, <1>13, <3>1, <3>2
  <2>5. antiOsc' > 0 => hotFor' + antiOsc' <= SettleCeiling + StepCeiling
    <3> DEFINE h == hotFor'
               a == antiOsc'
    <3>0. antiOsc' \in Nat /\ antiOsc' <= SettleCeiling /\ SettleCeiling \in Nat /\ StepCeiling \in Nat
          /\ antiOsc \in Nat
      BY <1>4, <1>9
    <3>1. CASE hotFor = 0
      <4>1. hotFor' <= StepCeiling
        BY <1>1, <1>4, <2>2, <3>1
      <4>2. h \in Nat /\ a \in Nat /\ h <= StepCeiling /\ a <= SettleCeiling
        BY <2>2, <3>0, <4>1
      <4> HIDE DEF h, a
      <4>3. h + a <= SettleCeiling + StepCeiling
        BY <3>0, <4>2
      <4> QED BY <4>3 DEF h, a
    <3>2. CASE hotFor > 0
      <4>1. antiOsc' = Lock(dt)
        BY <1>3, <1>10, <1>13, <3>2
      <4>2. antiOsc' > 0 => antiOsc' = antiOsc - d /\ antiOsc > 0
        BY <1>1, <1>4, <1>8, <4>1
      <4>3. antiOsc' > 0 => hotFor + antiOsc <= SettleCeiling + StepCeiling
        BY <1>3, <3>2, <4>2
      <4>4. antiOsc' > 0 => antiOsc' = antiOsc - d
        BY <4>2
      <4>5. hotFor \in Nat
        BY <1>4
      <4>6. h \in Nat /\ a \in Nat /\ h <= hotFor + d
            /\ (a > 0 => a = antiOsc - d /\ hotFor + antiOsc <= SettleCeiling + StepCeiling)
        BY <2>2, <3>0, <4>3, <4>4
      <4> HIDE DEF h, a
      <4>7. a > 0 => h + a <= SettleCeiling + StepCeiling
        BY <1>1, <3>0, <4>5, <4>6
      <4> QED BY <4>7 DEF h, a
    <3> QED BY <1>4, <3>1, <3>2
  <2>6. state' = "HEATING"
    BY <1>10, <1>13
  <2>7. ~cfg'.sim /\ ~nvs'.sim
    BY <1>3, <1>5
  <2> QED BY <1>7, <1>9, <1>11, <2>3, <2>4, <2>5, <2>6, <2>7 DEF Settling
<1> QED BY <1>12, <1>13

(* No command but the one of simulation mode touches simulation or the states;
   the lock and the clocks are the tick's. *)
LEMMA CommandKeepsSettling ==
  ASSUME NeverSimulated, HInv, Settling, HCommand
  PROVE  Settling'
<1>1. TypeOK /\ ConfigAccepted
  BY DEF HInv
<1>2. timers' = timers /\ history' = history
  BY <1>1, CommandEffect DEF HCommand
<1>3. state' = state /\ wouldBe' = wouldBe
  BY DEF HCommand, WebCommand, NetworkChange, RequestBoost, CancelBoost, DisableHeating,
         EnableHeating, ClearFault, SetPump, SetEmergency, SetLimits, SetSimHeating,
         SaveOtherSettings, engine
<1>4. ~cfg.sim /\ ~nvs.sim
  BY DEF Settling
<1>5. ASSUME Save, ~cfg'.sim PROVE ~cfg'.sim /\ ~nvs'.sim
  <2>1. nvs' = cfg' \/ nvs' = nvs
    BY <1>5 DEF Save
  <2> QED BY <1>4, <1>5, <2>1
<1>6. ~cfg'.sim /\ ~nvs'.sim
  <2>1. cfg \in Config
    BY <1>1 DEF TypeOK
  <2>2. ASSUME NEW p \in PumpInputs, SetPump(p) PROVE ~cfg'.sim /\ ~nvs'.sim
    BY <1>4, <1>5, <2>1, <2>2 DEF SetPump, Config
  <2>3. ASSUME NEW e \in EmergencyInputs, SetEmergency(e) PROVE ~cfg'.sim /\ ~nvs'.sim
    BY <1>4, <1>5, <2>1, <2>3 DEF SetEmergency, Config
  <2>4. ASSUME NEW l \in LimitInputs, SetLimits(l) PROVE ~cfg'.sim /\ ~nvs'.sim
    BY <1>4, <1>5, <2>1, <2>4 DEF SetLimits, Config
  <2>5. ASSUME NEW b \in SimInputs, SetSimHeating(b) PROVE ~cfg'.sim /\ ~nvs'.sim
    <3>1. cfg'.sim = b.enabled
      BY <2>1, <2>5 DEF SetSimHeating, Config
    <3>2. Save
      BY <2>5 DEF SetSimHeating
    <3> QED BY <1>5, <3>1, <3>2 DEF NeverSimulated
  <2>6. CASE SaveOtherSettings
    BY <1>4, <1>5, <2>6 DEF SaveOtherSettings
  <2>7. CASE RequestBoost \/ CancelBoost \/ DisableHeating \/ EnableHeating \/ ClearFault
             \/ NetworkChange
    <3>1. cfg' = cfg /\ nvs' = nvs
      BY <2>7 DEF RequestBoost, CancelBoost, DisableHeating, EnableHeating, ClearFault,
                  NetworkChange, store
    <3> QED BY <1>4, <3>1
  <2> QED BY <2>2, <2>3, <2>4, <2>5, <2>6, <2>7 DEF HCommand, WebCommand
<1> QED BY <1>2, <1>3, <1>6 DEF Settling, timers, history

LEMMA SettlingNext ==
  ASSUME NeverSimulated, HInv, HInv', Settling, [HNext]_hvars
  PROVE  Settling'
<1>1. CASE HTick
  <2>1. PICK dt \in Dts, r \in Reading, rise \in Rises : ControlTick(dt, r, rise) /\ Elapse(dt, r)
    BY <1>1, InputAssumption DEF HTick
  <2> QED BY <2>1, TickKeepsSettling
<1>2. CASE HCommand
  BY <1>2, CommandKeepsSettling
<1>3. CASE HRestart
  <2>1. /\ cfg' = nvs /\ nvs' = nvs /\ wouldBe' = "IDLE" /\ antiOsc' = 0
        /\ lit' = 0 /\ onFor' = 0 /\ hotFor' = 0
    BY <1>3 DEF HRestart, Restart
  <2> QED BY <2>1, HistoryAssumption DEF Settling, Pos
<1>4. CASE UNCHANGED hvars
  BY <1>4 DEF hvars, vars, engine, timers, store, history, Settling
<1> QED BY <1>1, <1>2, <1>3, <1>4 DEF HNext

(* A furnace that was never simulated does not burn on in a hot house: the
   thermostat releases it within the longer of min_on_sec and the lock, and one
   tick.  (ClaimOvershootBounded: simulation leaves an s_would_be behind that
   breaks it.) *)
THEOREM OvershootIsBounded == NeverSimulated => (HSpec => []OvershootBounded)
<1> SUFFICES ASSUME NeverSimulated PROVE HSpec => []OvershootBounded
  OBVIOUS
<1>1. HInit => Settling
  <2> SUFFICES ASSUME HInit PROVE Settling
    OBVIOUS
  <2>1. /\ cfg \in InitConfigs /\ nvs = cfg /\ wouldBe = "IDLE" /\ antiOsc = 0
        /\ lit = 0 /\ onFor = 0 /\ hotFor = 0
    BY DEF HInit, Init
  <2> QED BY <2>1, HistoryAssumption DEF Settling, Pos, NeverSimulated
<1>2. HInv /\ HInv' /\ Settling /\ [HNext]_hvars => Settling'
  BY SettlingNext
<1>3. Settling => OvershootBounded
  BY DEF Settling, OvershootBounded
<1> QED BY <1>1, <1>2, <1>3, HInvariant, PTL DEF HSpec
=============================================================================
