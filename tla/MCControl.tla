----------------------------- MODULE MCControl -----------------------------
(* Small values for ControlEngine: one "second" of the model is one tick. *)
EXTENDS ControlEngine

MCDefault ==
  [grace |-> 1, maxOn |-> 5, breakFor |-> 3, minOn |-> 2, minOff |-> 2, antiOsc |-> 3,
   emPeriod |-> 4, emOn |-> 1, pumpPeriod |-> 3, pumpImpulse |-> 1]

MCLeastValid ==
  [grace |-> 1, maxOn |-> 1, breakFor |-> 1, minOn |-> 1, minOff |-> 1, antiOsc |-> 1]

MCAccepts ==
  [grace |-> 1 .. 2, maxOn |-> 4 .. 5, breakFor |-> 2 .. 3,
   minOn |-> 2 .. 3, minOff |-> 2 .. 3, antiOsc |-> 2 .. 3]

(* A tighter variant, for the runs with more going on beside the timers. *)
TightDefault == [MCDefault EXCEPT !.maxOn = 3, !.breakFor = 2, !.antiOsc = 2]

TightAccepts == [f \in LimitNames |-> 1 .. TightDefault[f]]

MCLimits ==
  [grace |-> 1, maxOn |-> 4, breakFor |-> 3, minOn |-> 2, minOff |-> 2, antiOsc |-> 3]

(* Other limits; the 0 is refused and leaves the break as it is. *)
OtherLimits ==
  [grace |-> 2, maxOn |-> 5, breakFor |-> 0, minOn |-> 3, minOff |-> 3, antiOsc |-> 2]

PumpOff == [enabled |-> FALSE, impulse |-> 2, period |-> 3, total |-> 4]
PumpOn  == [PumpOff EXCEPT !.enabled = TRUE]

NoEmergency == [enabled |-> FALSE, on |-> 2, period |-> 4, onFault |-> FALSE]
AntiFrost   == [NoEmergency EXCEPT !.onFault = TRUE]

MCConfig == [sim |-> FALSE, accel |-> FALSE, pump |-> PumpOff,
             emergency |-> NoEmergency, limits |-> MCLimits]

AllReadings == {[temp |-> "cold", healthy |-> TRUE], [temp |-> "mid", healthy |-> TRUE],
                [temp |-> "hot", healthy |-> TRUE], [temp |-> "nan", healthy |-> FALSE]}
KnownOrNot  == {r \in AllReadings : r.temp # "mid"}
TwoReadings == {[temp |-> "cold", healthy |-> TRUE], [temp |-> "hot", healthy |-> TRUE]}

SimOff   == [enabled |-> FALSE, mixed |-> FALSE, accel |-> FALSE]
SimPlain == [SimOff EXCEPT !.enabled = TRUE]
SimFast  == [SimPlain EXCEPT !.accel = TRUE]
SimMixed == [SimPlain EXCEPT !.mixed = TRUE]

TwoLimits     == {MCLimits, OtherLimits}
OneConfig     == {MCConfig}
PumpConfig    == {[MCConfig EXCEPT !.pump = PumpOn]}
ShortLock     == {[MCConfig EXCEPT !.pump = PumpOn, !.limits.maxOn = 5]}
TightConfig   == {[MCConfig EXCEPT !.limits = [f \in LimitNames |-> TightDefault[f]]]}
NoInputs      == {}
PumpBodies    == {PumpOn, PumpOff}
FrostBodies   == {NoEmergency, AntiFrost}
MixedBodies   == {SimOff, SimFast, SimMixed}
PlainBodies   == {SimOff, SimPlain}
=============================================================================
