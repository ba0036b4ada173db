------------------------------ MODULE Sensors ------------------------------
(***************************************************************************)
(* The sensor manager (main/sensor_manager.c) over the internal sensors,   *)
(* with the handlers of web_ui_api.c that change them between two polls.   *)
(* control_task calls sensor_manager_poll and control_tick under one lock, *)
(* so what the control engine reads is what the poll has left; a handler   *)
(* runs between two polls.                                                 *)
(*                                                                         *)
(* Temperatures are integers in hundredths of a degree, as on the sensor   *)
(* line; one poll is one second, and the two clocks a sensor carries       *)
(* (mono_ms since its last reading, microseconds since its last change)    *)
(* count polls and stop one past the limit they are compared with.         *)
(***************************************************************************)
EXTENDS Integers, Sequences, FiniteSets

CONSTANTS
  MaxSensors,     \* HE_MAX_SENSORS
  AvgWindow,      \* HE_MOVING_AVG_WINDOW
  Timeout,        \* HE_SENSOR_TIMEOUT_SEC
  StaleAfter,     \* the ten minutes of stale_detect
  Adapt,          \* per cent a baseline moves to the current temperature
  MinLogical, MaxLogical,   \* HE_TEMP_MIN_LOGICAL, HE_TEMP_MAX_LOGICAL
  Raws,           \* temperatures a sensor or a simulation source can give
  Offsets,        \* calibration plus comfort offsets a user can set
  Sources,        \* simulation sources a user can choose
  FrameRoom,      \* entries of a frame that are looked at, for the sensors here
  NoTemp          \* NAN

(* SIM_SRC_CONST, _RAMP, _SUDDEN_DROP and _OUT_OF_RANGE are "value". *)
SourceSet == {"real", "value", "none", "virtual"}

ASSUME SensorsAssumption ==
  /\ MaxSensors \in Nat \ {0} /\ AvgWindow \in Nat \ {0}
  /\ Timeout \in Nat /\ StaleAfter \in Nat
  /\ Adapt \in 0 .. 100
  /\ Raws \subseteq Int /\ Offsets \subseteq Int /\ 0 \in Offsets
  /\ Sources \subseteq SourceSet /\ FrameRoom \in Nat
  /\ MinLogical \in Int /\ MaxLogical \in Int
  /\ NoTemp \notin Int

VARIABLES
  sensor,         \* system_config_t.sensors, the internal ones
  track,          \* s_baseline, s_prev_eff and s_last_change_us
  count,          \* s_count (and sensor_count)
  heatSim,        \* simulate_heating
  uptime,         \* mono_ms: the polls since the boot, up to Timeout + 1
  polled          \* the poll has just run: control_tick reads what it left

vars == <<sensor, track, count, heatSim, uptime, polled>>

All == 1 .. MaxSensors

(* The sensors the manager is bound to. *)
Bound == 1 .. count

Qualities ==
  {"ok", "timeout", "outOfRange", "stale", "windowOpen", "disabled", "simulated"}

(* sensor_t; "simulated" is src # "real", "weight" keeps whether the share
   is positive, "offset" is the sum of both offsets and "age" the seconds
   since last_update_ms. *)
Sensor ==
  [active : BOOLEAN, weight : {0, 1}, offset : Int, samples : Seq(Int),
   raw : Int, eff : Int, age : 0 .. Timeout + 1, quality : Qualities,
   window : BOOLEAN, src : SourceSet]

Track ==
  [base : Int \cup {NoTemp}, prev : Int \cup {NoTemp}, still : 0 .. StaleAfter + 1]

Simulated(s) == s.src # "real"

(* The two qualities that count everywhere. *)
Usable(s) == s.quality \in {"ok", "simulated"}

(* A sensor as seed_defaults or h_sensors_count makes it. *)
NewSensor ==
  [active |-> TRUE, weight |-> 1, offset |-> 0, samples |-> <<>>, raw |-> 0,
   eff |-> 0, age |-> 0, quality |-> "timeout", window |-> FALSE, src |-> "real"]

-----------------------------------------------------------------------------
(* What one poll does to one sensor. *)

InRange(raw) == raw \in MinLogical .. MaxLogical

Sum(xs) ==
  LET upTo[k \in 0 .. Len(xs)] == IF k = 0 THEN 0 ELSE upTo[k - 1] + xs[k]
  IN  upTo[Len(xs)]

(* Slip: the ring of samples grows without end. *)
PushWithoutEnd(s, raw) ==
  LET xs == Append(s.samples, raw)
  IN  [s EXCEPT !.samples = xs, !.raw = raw, !.age = 0, !.eff = raw + s.offset]

(* push_reading: every raw value enters the average, whatever its range. *)
Push(s, raw) ==
  LET kept == IF Len(s.samples) < AvgWindow THEN s.samples ELSE Tail(s.samples)
      xs   == Append(kept, raw)
  IN  [s EXCEPT !.samples = xs, !.raw = raw, !.age = 0,
                !.eff = Sum(xs) \div Len(xs) + s.offset]

(* The first loop of sensor_manager_poll: a value of the simulation manager,
   for the others that it asks no value of or gets none. *)
Feed(s, v) ==
  [Push(s, v) EXCEPT !.quality = IF InRange(v) THEN "simulated" ELSE "outOfRange"]

Fill(s) ==
  [s EXCEPT !.quality = IF ~s.active THEN "disabled"
                        ELSE IF Simulated(s) THEN "timeout" ELSE @]

(* Slip: the range of an arriving value is not looked at. *)
ReceiveAnything(s, v) ==
  [Push(s, v) EXCEPT
     !.quality = IF s.active /\ ~s.window
                 THEN IF Simulated(s) THEN "simulated" ELSE "ok"
                 ELSE @]

(* Slip: an arriving value forgets that the sensor is suppressed. *)
ReceiveSuppressed(s, v) ==
  [Push(s, v) EXCEPT
     !.quality = IF ~InRange(v) THEN "outOfRange"
                 ELSE IF s.active THEN IF Simulated(s) THEN "simulated" ELSE "ok"
                 ELSE @]

(* parse_frame: one entry of the frame, routed to the sensor of its id. *)
Receive(s, v) ==
  [Push(s, v) EXCEPT
     !.quality = IF ~InRange(v) THEN "outOfRange"
                 ELSE IF s.active /\ ~s.window
                      THEN IF Simulated(s) THEN "simulated" ELSE "ok"
                      ELSE @]

Overdue(s) == s.age > Timeout

(* No answer on the line: the real sensors with an old reading. *)
Unanswered(s) ==
  [s EXCEPT !.quality = IF s.active /\ ~Simulated(s) /\ Overdue(s) THEN "timeout" ELSE @]

(* Slip: the age of the last reading is only looked at when nothing answers. *)
ValidateActive(s) ==
  IF ~s.active THEN [s EXCEPT !.quality = "disabled", !.window = FALSE] ELSE s

(* The validation loop. *)
Validate(s) ==
  IF ~s.active THEN [s EXCEPT !.quality = "disabled", !.window = FALSE]
  ELSE [s EXCEPT !.quality =
          IF ~Simulated(s) /\ @ = "ok" /\ Overdue(s) THEN "timeout" ELSE @]

-----------------------------------------------------------------------------
(* The detectors, on a record of all sensors and their tracks: one sensor
   after the other, each seeing what the loop has already changed. *)

With(S, i, s, t) ==
  [sensor |-> [S.sensor EXCEPT ![i] = s], track |-> [S.track EXCEPT ![i] = t]]

Drop(S, i) == S.track[i].base - S.sensor[i].eff

(* The sensors a drop is compared with. *)
Peers(S, i) ==
  {k \in Bound \ {i} : /\ Usable(S.sensor[k]) /\ ~S.sensor[k].window
                       /\ S.track[k].base # NoTemp}

(* The sum of their drops. *)
PeerDrops(S, i) ==
  LET upTo[k \in 0 .. count] ==
        IF k = 0 THEN 0 ELSE upTo[k - 1] + IF k \in Peers(S, i) THEN Drop(S, k) ELSE 0
  IN  upTo[count]

(* Slip: the other sensors are not looked at. *)
AnyDrop(S, i) == Drop(S, i) > 150

(* A drop of over 1.5 degrees, over 1 degree more than the others' average
   (multiplied by their number, to stay in integers). *)
LocalDrop(S, i) ==
  LET n == IF Peers(S, i) = {} THEN 1 ELSE Cardinality(Peers(S, i))
  IN  Drop(S, i) > 150 /\ n * Drop(S, i) - PeerDrops(S, i) > 100 * n

(* window_detect *)
WindowDetect(S, i) ==
  LET s == S.sensor[i]
      t == S.track[i]
  IN  IF t.base = NoTemp THEN With(S, i, s, [t EXCEPT !.base = s.eff])
      ELSE IF s.window
      THEN IF Drop(S, i) < 40
           THEN With(S, i, [s EXCEPT !.window = FALSE,
                                     !.quality = IF Simulated(s) THEN "simulated" ELSE "ok"],
                     [t EXCEPT !.base = s.eff])
           ELSE S
      ELSE IF LocalDrop(S, i)
      THEN With(S, i, [s EXCEPT !.window = TRUE, !.quality = "windowOpen"], t)
      ELSE With(S, i, s, [t EXCEPT !.base = ((100 - Adapt) * @ + Adapt * s.eff) \div 100])

Moved(a, b) == a - b > 5 \/ b - a > 5

(* stale_detect *)
StaleDetect(S, i) ==
  LET s == S.sensor[i]
      t == S.track[i]
      moved == t.prev = NoTemp \/ Moved(s.eff, t.prev)
      frozen == ~moved /\ t.still > StaleAfter
  IN  With(S, i, [s EXCEPT !.quality = IF frozen /\ @ = "ok" THEN "stale" ELSE @],
           [t EXCEPT !.prev = s.eff, !.still = IF moved THEN 0 ELSE @])

DetectOne(S, i) ==
  IF ~Usable(S.sensor[i]) THEN S
  ELSE LET W == WindowDetect(S, i)
       IN  IF Usable(W.sensor[i]) THEN StaleDetect(W, i) ELSE W

-----------------------------------------------------------------------------
(* sensor_manager_poll *)

(* The interface is polled when a sensor is real. *)
NeedReal == \E i \in Bound : sensor[i].active /\ ~Simulated(sensor[i])

(* A second has passed since the poll before. *)
Older(s)  == [s EXCEPT !.age = IF @ > Timeout THEN @ ELSE @ + 1]
Longer(t) == [t EXCEPT !.still = IF @ > StaleAfter THEN @ ELSE @ + 1]

(* Its first loop. *)
Filled(i, sim) ==
  IF i \in DOMAIN sim THEN Feed(Older(sensor[i]), sim[i]) ELSE Fill(Older(sensor[i]))

(* The loop of parse_frame, as sensor i sees it: a frame may name a sensor
   more than once. *)
Received(i, s, frame) ==
  LET upTo[k \in 0 .. Len(frame)] ==
        IF k = 0 THEN s
        ELSE IF frame[k].id = i THEN Receive(upTo[k - 1], frame[k].temp) ELSE upTo[k - 1]
  IN  upTo[Len(frame)]

(* "silent" is no answer in time, and "garbled" one that parse_frame refuses. *)
Answered(i, sim, reply) ==
  IF reply.kind = "silent" /\ NeedReal THEN Unanswered(Filled(i, sim))
  ELSE Received(i, Filled(i, sim), reply.frame)

(* The loops before the detectors': each looks at one sensor at a time. *)
Heard(sim, reply) ==
  [sensor |-> [i \in All |-> IF i \in Bound THEN Validate(Answered(i, sim, reply)) ELSE sensor[i]],
   track  |-> [i \in All |-> IF i \in Bound THEN Longer(track[i]) ELSE track[i]]]

(* The detectors' loop: the verdict on one sensor depends on those before it. *)
Detected(S) ==
  LET upTo[i \in 0 .. count] == IF i = 0 THEN S ELSE DetectOne(upTo[i - 1], i)
  IN  upTo[count]

(* The entries parse_frame takes from an answer it accepts: at most s_count + 1,
   the same id more than once, and whatever the buffer holds where the count
   goes beyond the payload.  Entries for nobody, or for the external sensor, are
   left out, and as each touches one sensor, their order matters for that one
   only. *)
Entry == [id : Bound, temp : Raws]

Answers ==
  {f \in UNION {[1 .. k -> Entry] : k \in {n \in 0 .. FrameRoom : n <= count + 1}} :
     \A j, k \in DOMAIN f : j < k => f[j].id <= f[k].id}

Replies ==
  {[kind |-> "silent", frame |-> <<>>]} \cup
  IF NeedReal THEN {[kind |-> "garbled", frame |-> <<>>]} \cup [kind : {"frame"}, frame : Answers]
              ELSE {}

(* What the simulation manager gives the sensors it feeds; the virtual rooms
   are clamped to the logical range. *)
Fed == {i \in Bound : sensor[i].active /\ sensor[i].src \in {"value", "virtual"}}

SimValues ==
  {sim \in [Fed -> Raws] : \A i \in Fed : sensor[i].src = "virtual" => InRange(sim[i])}

Poll ==
  /\ \E H \in {Heard(sim, reply) : sim \in SimValues, reply \in Replies} :
       \E S \in {Detected(H)} : sensor' = S.sensor /\ track' = S.track
  /\ uptime' = IF uptime > Timeout THEN uptime ELSE uptime + 1
  /\ polled' = TRUE
  /\ UNCHANGED <<count, heatSim>>

-----------------------------------------------------------------------------
(* The handlers. *)

(* h_sensor_post *)
PostSensor(i) ==
  /\ \E a \in BOOLEAN, w \in {0, 1}, o \in Offsets :
       sensor' = [sensor EXCEPT ![i].active = a, ![i].weight = w, ![i].offset = o]
  /\ UNCHANGED <<track, count, heatSim>>

(* h_sensor_restore: sensor_manager_restore *)
Restore(i) ==
  /\ sensor' = [sensor EXCEPT ![i].window = FALSE,
                              ![i].quality = IF Simulated(sensor[i]) THEN "simulated" ELSE "ok"]
  /\ track' = [track EXCEPT ![i].base = sensor[i].eff]
  /\ UNCHANGED <<count, heatSim>>

(* h_sim_sensor *)
SimSensor(i) ==
  /\ \E src \in Sources : sensor' = [sensor EXCEPT ![i].src = src]
  /\ UNCHANGED <<track, count, heatSim>>

(* h_sim_heating: the active sensors follow the mode. *)
SimHeating(en) ==
  /\ heatSim' = en
  /\ sensor' = [i \in All |->
       IF i \in Bound /\ sensor[i].active
       THEN [sensor[i] EXCEPT !.src = IF en /\ @ = "real" THEN "virtual"
                                      ELSE IF ~en /\ @ = "virtual" THEN "real" ELSE @]
       ELSE sensor[i]]
  /\ UNCHANGED <<track, count>>

(* h_sensors_count: the sensors above the old count start anew, last updated at
   0, the boot; the tracks, private to sensor_manager.c, do not. *)
SensorsCount(n) ==
  /\ count' = n
  /\ sensor' = [i \in All |-> IF count < i /\ i <= n THEN [NewSensor EXCEPT !.age = uptime]
                                                 ELSE sensor[i]]
  /\ UNCHANGED <<track, heatSim>>

Handler ==
  /\ \/ \E i \in Bound : PostSensor(i) \/ Restore(i) \/ SimSensor(i)
     \/ \E en \in BOOLEAN : SimHeating(en)
     \/ \E n \in All : SensorsCount(n)
  /\ polled' = FALSE /\ UNCHANGED uptime

(* sensor_manager_init and _bind after seed_defaults; a sensor above the count
   is not read before h_sensors_count makes it anew. *)
Init ==
  /\ sensor = [i \in All |-> NewSensor]
  /\ track = [i \in All |-> [base |-> NoTemp, prev |-> NoTemp, still |-> 0]]
  /\ count \in All
  /\ heatSim = FALSE
  /\ uptime = 0 /\ polled = FALSE

Next == Poll \/ Handler

Spec == Init /\ [][Next]_vars

-----------------------------------------------------------------------------
(* What control_tick reads. *)

(* The sensors sensor_manager_system_temp weighs. *)
Counted == {i \in Bound : sensor[i].active /\ Usable(sensor[i]) /\ sensor[i].weight > 0}

(* sensor_manager_system_temp is not a number *)
Blind == Counted = {}

(* Slip: only a silent sensor counts as lost. *)
ReachableCount == Cardinality({i \in Bound : sensor[i].quality # "timeout"})

(* sensor_manager_healthy_count *)
HealthyCount == Cardinality({i \in Bound : Usable(sensor[i])})

-----------------------------------------------------------------------------
(* The sensors and the detectors' tracks keep their types. *)
TypeOK ==
  /\ \A i \in All : /\ sensor[i] \in Sensor /\ Len(sensor[i].samples) <= AvgWindow
                     /\ track[i] \in Track
  /\ count \in All
  /\ uptime \in 0 .. Timeout + 1
  /\ heatSim \in BOOLEAN /\ polled \in BOOLEAN

(* A reading control_tick takes for real or for simulated is not older than
   the timeout: the two loops of sensor_manager_poll that look at
   last_update_ms catch every way a reading can stop coming, or be
   brought back by hand.  (A real sensor still called simulated is in no loop's
   care: it keeps its last value for as long as any answer comes.) *)
UsableIsFresh ==
  polled => \A i \in Bound :
    sensor[i].quality = "ok" \/ (Usable(sensor[i]) /\ Simulated(sensor[i]))
      => sensor[i].age <= Timeout

(* A poll takes a sensor back into the average only for a reading of that very
   poll that lies in the logical range. *)
ReturnsByReading ==
  [][polled' => \A i \in Bound :
       Usable(sensor'[i]) /\ ~Usable(sensor[i])
         => sensor'[i].age = 0 /\ InRange(sensor'[i].raw)]_vars

(* As long as every sensor has a share, control_tick gets no system
   temperature exactly when no sensor is counted healthy, which is what
   fault_manager raises FAULT_SENSOR_IFACE for: heating never rests on
   nothing in silence. *)
BlindIsReported ==
  polled /\ (\A i \in Bound : sensor[i].weight > 0) => (Blind <=> HealthyCount = 0)

(* A suppressed sensor is never OK, whichever of parse_frame, the detectors,
   the validation and the handlers wrote its quality last. *)
SuppressedIsNotOk == \A i \in All : sensor[i].window => sensor[i].quality # "ok"

(* When the whole house cools down alike, the poll calls no window open,
   although the loop moves the baselines it compares while it compares. *)
CoolDownIsNoWindow ==
  [][polled' /\ count > 1
     /\ (\A i \in Bound : /\ ~sensor[i].window /\ track[i].base # NoTemp
                          /\ sensor'[i].quality \in {"ok", "simulated", "windowOpen"}
                          /\ track[i].base - sensor'[i].eff = track[1].base - sensor'[1].eff)
     /\ Adapt * (track[1].base - sensor'[1].eff) <= 100 * 100
     => \A i \in Bound : ~sensor'[i].window]_vars
=============================================================================
