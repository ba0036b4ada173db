--------------------------- MODULE HeatingOutput ---------------------------
(***************************************************************************)
(* The relay line and the pump-overrun impulse generator                   *)
(* (main/heating_output.c).  The statics of the C file are the fields of   *)
(* one record, and each of its functions is an operator from that record   *)
(* to the next one, because one control tick calls several of them in      *)
(* sequence (set_relay, then pump_overrun_tick).                           *)
(*                                                                         *)
(* Time is in seconds: every quantity of the C file in milliseconds is a   *)
(* number of seconds times 1000, and int32 arithmetic on it is modelled    *)
(* with IntMax standing for the largest representable duration.            *)
(***************************************************************************)
EXTENDS Integers

CONSTANTS
  IntMax,         \* largest duration an int holds (2^31 - 1 ms)
  Default         \* the compile-time fallbacks, by name

Pos == Nat \ {0}

ASSUME IntMaxAssumption == IntMax \in Pos

ASSUME OutputDefaultAssumption ==
  /\ Default.pumpPeriod \in Pos
  /\ Default.pumpImpulse \in Pos

(* seconds * 1000 in an int: the product of a value that does not fit wraps
   around (callers treat what is <= 0 as "use the fallback"). *)
Millis(sec) == ((sec + IntMax + 1) % (2 * (IntMax + 1))) - (IntMax + 1)

(* The value of a configured duration, or the fallback when it is not
   positive as an int number of milliseconds. *)
DurationOr(sec, fallback) == IF Millis(sec) <= 0 THEN fallback ELSE Millis(sec)

(* pump_overrun_cfg_t *)
PumpCfg == [enabled : BOOLEAN, impulse : Int, period : Int, total : Int]

OutputType ==
  [relay : BOOLEAN, simulate : BOOLEAN, mixed : BOOLEAN, gpio : BOOLEAN,
   pumping : BOOLEAN, elapsed : Int, phase : Int, pump : PumpCfg]

(* heating_output_set_relay: the physical line follows unless the output is
   simulated and not in mixed mode. *)
SetRelay(o, on) ==
  [o EXCEPT !.relay = on,
            !.gpio = IF o.simulate /\ ~o.mixed THEN @ ELSE on]

(* heating_output_set_simulation: entering pure simulation drops the line. *)
SetSimulation(o, sim, mix) ==
  [o EXCEPT !.simulate = sim, !.mixed = mix,
            !.gpio = @ /\ ~(sim /\ ~mix)]

(* Slip: the boot does not pass the saved simulation mode on. *)
OutputBootReal(sim) ==
  [relay |-> FALSE, simulate |-> FALSE, mixed |-> FALSE, gpio |-> FALSE,
   pumping |-> FALSE, elapsed |-> 0, phase |-> 0,
   pump |-> [enabled |-> FALSE, impulse |-> 0, period |-> 0, total |-> 0]]

(* The output after heating_output_init and the first set_simulation of a
   boot, with the static pump record zeroed. *)
OutputBoot(sim) ==
  SetSimulation(
    [relay |-> FALSE, simulate |-> FALSE, mixed |-> FALSE, gpio |-> FALSE,
     pumping |-> FALSE, elapsed |-> 0, phase |-> 0,
     pump |-> [enabled |-> FALSE, impulse |-> 0, period |-> 0, total |-> 0]],
    sim, FALSE)

(* heating_output_pump_overrun_start *)
PumpStart(o, c) ==
  IF c.enabled
  THEN [o EXCEPT !.pump = c, !.pumping = TRUE, !.elapsed = 0, !.phase = 0]
  ELSE o

(* heating_output_pump_overrun_tick.  The call returns true exactly when the
   window is still open afterwards, which is the field "pumping" of the
   result. *)
PumpTick(o, d) ==
  LET phase  == o.phase + d
      done   == o.elapsed + d >= Millis(o.pump.total)
      pulsed == SetRelay(o, ~done /\ phase < DurationOr(o.pump.impulse, Default.pumpImpulse))
  IN  IF ~o.pumping THEN o
      ELSE [pulsed EXCEPT
              !.elapsed = o.elapsed + d,
              !.phase = IF phase >= DurationOr(o.pump.period, Default.pumpPeriod)
                        THEN 0 ELSE phase,
              !.pumping = ~done]
=============================================================================
