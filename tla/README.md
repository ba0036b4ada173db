# Verification of the AI-heating controller

TLA+ models of the ESP32 heating controller in `src/main/`, checked with TLC on
small instances and, for most of the safety properties, proved with TLAPS for
every value of the constants.

## 1. The system

The firmware is a set of C modules around one shared `system_config_t g_cfg`,
four FreeRTOS tasks and two callbacks:

| actor | runs | lock held |
|---|---|---|
| control task (`main.c`) | `sensor_manager_poll`, `control_tick` once a second, for ever, watchdog-guarded | `he_config_lock` around both |
| HTTP server task (`web_ui_api.c`) | one handler at a time | `he_config_lock` around what touches the configuration; `s_hist_mutex` in the history handlers |
| notification worker (`notification_manager.c`) | receives from a queue of two, sends e-mail and SMS, blocking | none |
| reset-button task (`network_manager.c`) | resets the network settings after a 5 s press | `he_config_lock` around the reset |
| Wi-Fi event handler | reconnects, sets the network flag | none |
| wear timer (`storage_manager.c`) | saves the flash-wear counters | `s_fs_mutex` |

A reset (watchdog, power, panic) may come at any moment. The configuration
survives in NVS, daily aggregates in LittleFS; all else starts over.

### Components, their state and operations

| component | state | operations | correct when |
|---|---|---|---|
| control engine | mode `s_state`, `s_would_be`, command `s_relay`, boost, kill switch, the four timers, duty phase | `control_tick`, boost, kill switch | the protection limits hold in every mode, the kill switch wins, timers run out |
| heating output | relay line, simulation flags, overrun generator | `set_relay`, `set_simulation`, `pump_overrun_start/tick` | the line is high only on command, never in plain simulation |
| fault manager | active fault, heating tracker, network flag, alert and log throttle | `observe`, `clear`, `set_network_up` | faults appear, block and clear as documented; one alert per fault |
| sensor manager | per sensor: window of readings, quality, baseline, stale clock | `poll`, `restore`, averages | no invalid reading is averaged; a suppressed sensor comes back |
| storage manager | configuration in NVS, health flag, sample ring, `daily.csv`, event log | save/load, record, read, day rollover | what is in force survives a restart; no sample lost, doubled or misdated |
| web API | none of its own | a handler per URI | handlers are atomic for the control loop |
| network manager | mode, retry count, event bits | events, `apply`, reset button | comes back after a loss |
| notification manager | command queue, rate-limit table | dispatch, worker | one e-mail per event and window, none lost silently |
| boot (`main.c`) | — | load, seed, repair, start | any blob becomes a valid configuration |
| profile, simulation, browser UI, `monitor.py` | thresholds, thermal model, presentation | pure functions, I/O | — |

They interact by direct calls under the lock (tick → sensors, output, faults,
storage), by the shared configuration (web → engine), by the queue (faults →
worker) and by the unlocked network flag (Wi-Fi event → faults).

### What is hard here

The interleaving of commands with ticks is arbitrary, and state outlives the
mode that wrote it: timers counted in one mode are trusted in another,
`s_would_be` written in simulation is read outside it, a limit may change while
it is being waited for. Ticks may be ten times as long as usual. Resets forget.
`PROJECT.json` lists every such hazard at its line with the property that
catches it, or with a note why none does.

Around the engine the difficulties are others. Alerts pass from the control task
through a queue of two to a worker that may be stuck in a mail dialogue, and a
limiter keeps counts across it. The Wi-Fi driver's events are handled by another
task after the radio may have been stopped or set up anew. The history is read in
several critical sections while the control task writes it and wraps it, under a
clock that is synthetic, then real, sometimes accelerated. The configuration
lives three times (in force, in flash, on the air), and each save may fail
visibly, invisibly, or be overtaken by a reset.

## 2. Modules

| module | models |
|---|---|
| `HeatingOutput` | `heating_output.c`: one record of its statics, one operator per function |
| `FaultDetect` | the detection half of `fault_manager.c`: operators for the tracker and the next fault |
| `ControlEngine` | `control_engine.c` composed with the two above, the handlers that command it, the configuration in RAM and NVS, the network flag and restarts; safety and liveness properties |
| `ControlHistory` | `ControlEngine` with clocks of what really happened to the relay, which no action reads; the protection limits as properties |
| `ControlClaims` | statements of the repository's documents that the code does not keep |
| `Sensors` | `sensor_manager.c` over the internal sensors: the poll with its five loops, the restore, and the handlers of the sensor table |
| `Frames` | the sensor line byte by byte: `crc8`, the frame of `request_poll`, the check of `parse_frame` |
| `Notifier` | `notification_manager.c`: the queue, the worker's loop, the e-mail limiter |
| `AlertChannel` | abstract: what the dispatch functions promise, a bounded channel that refuses but never loses, doubles or reorders |
| `Alerts` | `Notifier` composed with the alert half of `fault_manager.c` (one-shot flag, log throttle), the restart notice of `control_tick`, the handlers and the network flag; implements `AlertChannel` |
| `RecentSamples` | abstract: the last so many samples since the boot |
| `SampleStore` | the minute ring, the rollover into `daily.csv` and its clean-up at boot, the clocks that stamp the samples, `h_samples` and `h_daily` reading in several critical sections; implements `RecentSamples` |
| `SampleClaims` | a comment about `daily.csv` that the code does not keep |
| `ConfigStore` | load, short blob, repair, seeding, save and its results, factory network, as operators |
| `NetworkManager` | the event handler, the radio as client or access point, and the driver behind it |
| `Settings` | the two above composed: the handlers that change, save and apply the configuration, profile files, reset button, restarts |
| `MCControl`, `MCHistory`, `MCClaims`, `MCSensors`, `MCFrames`, `MCAlerts`, `MCSamples`, `MCSettings` | small values and horizons for TLC |
| `ControlEngine_proofs`, `ControlHistory_proofs`, `Alerts_proofs`, `SampleStore_proofs`, `Download_proofs`, `Rows_proofs`, `Sensors_proofs`, `Settings_proofs` | the theorems |

`ControlEngine` contains `HeatingOutput` and `FaultDetect`; `Alerts` contains
`Notifier` and, again, `FaultDetect`, so that the fault the alert is about comes
from the same operator in both. `Settings` contains `ConfigStore` and
`NetworkManager`. The three compositions share their boundaries and no
variables: the network flag that `NetworkManager` moves is free in `ControlEngine`
and `Alerts`; the readings that `Sensors` produces and the result of a save are
free in `ControlEngine`. Each takes the weakest view of the other.

### Correspondence with the code

* The control task and every handler hold `he_config_lock` for their whole
  body, so a tick and a handler are one action each. The Wi-Fi event handler
  takes no lock and is an action of its own.
* `control_tick` is split by the mode that takes precedence into six actions
  (`TickKilled`, `TickBoost`, `TickBoostEnd`, `TickEmergency`, `TickFault`,
  `TickRegulate`), whose guards are disjoint and complete. Everything after the
  decision is one operator, `Settle`, in the order of the code: overrun start,
  relay, durations, state entry, overrun tick, fault observation.
* Temperatures are classes: `cold` (at most on_temp of the hour), `hot` (at least
  off_temp), `mid`, `nan`. A reading changes freely from poll to poll, which
  covers the sensors, the profile, its edits and the change of the hour.
  Observed heating rates are the four classes that `fault_manager_observe` can
  tell apart, chosen freely too, and so is the moment the learned rate moves.
* One time unit stands for a number of milliseconds. `IntMax` is the largest
  duration an `int` holds. Signed overflow is undefined in C; the model wraps,
  as the ESP-IDF build does. `Wrap` is applied to the two counters that grow
  without bound; a countdown cannot overflow.
* The age of a heating cycle is real time in the code and engine time in the
  model only in so far as ticks are real-time (`TrackHeat` takes the unscaled
  step).
* `control_engine.c` replaces an invalid limit by a default although
  `/api/limits` and `repair_config` let none through. `Limit` keeps the fallback;
  that it is never needed is proved (`ConfigAccepted`). The product of seconds and
  1000 is not wrapped: it fits an `int` for every limit `/api/limits` takes, and for
  every blob the firmware writes. `repair_config` has no upper bound for grace, max-on
  and break, so that a blob from elsewhere is outside the model.
* A body without a field leaves it as it is; the model's bodies are whole, and a
  partial one equals some whole one.
* `storage_save_config` has three results: ok, a failed write (the blob may or may
  not have reached the flash, and storage is unhealthy until the next boot),
  and NVS not opening (nothing written, nothing remembered).
* On the first boot the seeded configuration is taken to be saved.
* In `Sensors` a poll is one action. The loops before the detectors look at one
  sensor at a time, so that their effect is a function of that sensor (`Filled`,
  `Answered`, `Heard`). A frame may name a sensor more than once and announce more
  entries than its payload has (`Answers`, `Received`). The last loop is the recursive function `Detected`, in
  the order of the code: `window_detect` compares a sensor with all the others, of
  which the loop has already changed those before it. The inputs
  of a poll are what the simulation gives and what the line does: silence, an
  answer that `parse_frame` refuses, or up to `FrameRoom` entries, in any number and
  for any of the sensors.
* `polled` is true from a poll to the next request. The control task calls
  `control_tick` in just those states, so that what the tick reads is stated as an
  invariant of them. `Blind` and `HealthyCount` are what `ControlEngine` takes as
  its `Readings`.
* Temperatures of `Sensors` are hundredths of a degree, as on the line, and the
  two floating-point averages (readings, baseline) are rounded down to one. Ages
  stop one past the limit they are compared with, and so does `uptime`, from which
  a sensor that `h_sensors_count` adds gets its age; the wrap of `mono_ms` after
  49.7 days is left out.
* Whether a frame is refused is free in `Sensors`; `Frames` says which ones are.

* In `Alerts` a control tick is two steps, `Observe` (the fault manager) and `Notice`
  (the restart notice at the end of the tick): the worker and the driver run
  between them, the web handlers wait for the lock and do not. The worker has a
  step per place where it can be overtaken: taking a command, the end of the wait
  for the network, the limiter's decision, the return of the dialogue, which takes
  any time and whose outcome nothing reads. `Pass` is one unit of time, and any
  number of ticks fit between two of them. The configuration is copied when a
  command is queued, so that the copy is part of the command.
* The limiter's table is kept in the order its slots were taken, which is the order
  of the round robin. With as many slots as events nothing is evicted; that
  `SlotsAssumption` holds in the code (six keys, eight slots) is counted by hand.
* Histories of `Alerts`: `mailed` (time since the last mail about an event),
  `unreported` (occurrences kept back since), `offer` (fate of the command offered in
  this step), `sinceNotice` (time since the last restart mail, over all resets). No
  action reads them.
* `SampleStore` counts time in logging intervals. A minute of ticks is one action,
  `Minute`, at whose end the sample is recorded; accelerated, it takes a tenth of a
  true minute, so that the true time advances or not. `storage_record_minute` asks
  for itself whether the clock is valid, and SNTP may have answered since the tick
  stamped the sample (`answers`). A sample keeps what the rows depend on. `today`,
  `since` and `wandered` are histories.
* A rollover is three critical sections: the scan of the ring, the append to
  `daily.csv`, the push. `Record` makes one action of them. After boot only the control task
  writes the ring, the rows, `s_cur_day` and `s_cur_day_real`, so that nothing changes
  between them, and a reader's critical section reads the ring or the file, never
  both: what it sees of that one is as before the action or as after it. A
  download reads the ring alone. `h_daily` reads the file, then the ring; the
  only order without a counterpart is both reads between the append and the push:
  yesterday's new row, and a ring without the new day's first sample. What is sent
  then has no row for today, as when that sample is not a number.
* A handler that streams has an action per critical section; the HTTP server is
  one task, so that no two handlers are under way at once.
* In `Settings` a handler is one action but for `network_apply`, which stops the
  radio and starts it again with the driver's events in between (`PutNetwork`
  or `ResetButton`, then `FinishApply`). The driver is external: it joins, fails,
  loses the link and posts events, at most `EventRoom` of them waiting (a bound of
  the model).
* The configuration of `Settings` is reduced to what load, repair and save tell
  apart; the device name stands for the fields appended at the tail. A blob that
  was damaged has a profile that does not validate or a password too short for an
  access point; a short one is an older version's.
* `choice` and `kept` are histories of `Settings`: what the user last decided about
  fault mails as far as it can count (a restart falls back to `kept`), and what had
  been decided when the blob in flash was written.

### Mutants

A definition marked *Slip* is a plausible wrong version of the definition after
it. No specification uses one. For each property of a passing run,
`PROJECT.json` names the slip under which TLC finds the property violated, so
that no property holds by the shape of the model.

## 3. Runs

| run | question | instance | size |
|---|---|---|---|
| `ControlCore` | who drives the line, and is it always released | pump on/off, plain and mixed simulation, accelerated ticks of 2, boost 2, limits 1–3 | 1.16 M states |
| `ControlHistory` | do the protection limits hold for the real relay | limits edited between two sets (max-on 4–5, the rest 2–3), saves fail, sensors drop out, heating faults | 0.58 M |
| `ControlLiveness` | does every wait end | anti-frost on/off, sensor loss, boost 2 | 95 k |
| `Sensors` | is what a tick reads fresh, is every loss reported, does suppression behave | 2 sensors, 3 temperatures (one broken), up to 2 entries in a frame, timeout and stale limit 1, 3 polls and 2 requests in any order | 0.36 M |
| `Alerts` | is every fault announced as promised, and does the worker come to an end | a fault and the restart notice, queue 2, 2 slots, window 2, network wait 2, repeat cap 2, log gap 1, notice at 2 | 0.29 M |
| `SampleStore` | is what the readers see true | ring and day of 3 minutes, batches of 2; 5 minutes, 2 boots, 2 other events (an SNTP answer inside a minute is one) in any order | 0.82 M |
| `Settings` | is what the user set what is in force, in flash and on the air | 2 reconnections, 4 events waiting; 3 requests and 3 boots in any order, 3 first flashes | 0.26 M |
| `Claim…` (5) | does the code do what its documents say | small | violated |

Why the bounds are enough: every timer of the engine is compared with a limit,
never with another timer, and each instance lets every limit be passed, missed
by one and met exactly, with `min_on`, `min_off`, lock and break of different
lengths and shorter than max-on. `IntMax` is the cap of the counters: it exceeds
every limit, so all comparisons are the code's, and both counters overflow
within the instance (for `ControlHistory`, whose clocks stop at `HistoryCap` =
`IntMax`). The simulation scale of 2 steps over thresholds as the code's 10
does. One body per combination of flags is in the input sets of the run that
asks about it, and the runs divide the modes so that each stays below a million
states or so; the proofs cover all of them together.

`Sensors` ends at a horizon (`MCSensors`), because baselines take a new value at
almost every poll. Three polls suffice to base, suppress and recover a sensor, to
pass the timeout and the stale limit and to come back before them; two requests
allow every pair of handlers between any of them, such as into simulation and
out again, or disabling and restoring. Two sensors are one and its peer, and
`h_sensors_count` removes and adds the second. Two entries in a frame name both
sensors, one twice, or one out of two. The average is taken over one
reading. A source that gives nothing is left to the proof.

`Alerts` needs no horizon: every age stops at the window. Two commands fill the
queue while a third is with the worker; a window of two lets an occurrence fall
at its start, inside, at its end and after it; the repeat counter reaches its cap. A
reset may come before, at and after the uptime of the notice.

`SampleStore` and `Settings` end at horizons, because time and requests go on for
ever. Five minutes with a ring of three wrap it while a download is under way and
roll over a day twice; two boots give a second clean-up of a file that the first
has rewritten; the run starts at the end of a day, with a true time far from the
synthetic one. The clean-up has room for all days there, and for too few in
`ClaimCleanFileUntouched`. In `Settings` three requests are a choice, its opposite
unsaved and another change, or into the access point and back with the old life's events
still waiting; three boots repair an old blob, fail to read it and read it again.
The network comes and goes without a bound.

The passing runs check for deadlock too; there is none: a tick,
`Pass`, a reader or the user's network can always move, at a horizon as well, and
`MCSensors` stands still at its own.

What the passing runs show: the line is never high without a reason
(`LineNeedsACommand`), the kill switch silences the command whatever happens
(`KillSwitchHolds`), simulation is harmless, boosts end, the thermostat
respects minimum times and the forced break measured by independent clocks, and
unattended heating is bounded by max-on. `OvershootBounded` holds without
simulation, where it is proved, and fails with it (`ClaimOvershootBounded`).

Of the sensors: a poll leaves no outdated value that counts as real or as
simulated (`UsableIsFresh`), a lost sensor returns only by a reading of its own
that is in range (`ReturnsByReading`), a tick without a temperature is a tick
without healthy sensors, which raises the fault, if every sensor has a share
(`BlindIsReported`), quality and suppression agree under every order of writers
(`SuppressedIsNotOk`), and a common cool-down is no open window as long as one
adaptation step stays below a degree (`CoolDownIsNoWindow`).

Of the alerts: the limiter lets a mail out exactly when none about the same event
was started within the window, whatever was queued, dropped or kept back in
between (`LimiterExact`), and what it reports as repeats is what it kept back
(`RepeatsKept`); the next fault finds its alert armed, however the last one ended
(`AlertIsArmed`); queue and worker keep the channel's promise (`ImplementsChannel`),
and the wait for the network ends without one (`NoticeEnds`). In a boot loop two
restart mails are apart by the uptime a notice waits for (`RestartMailsApart`), which is
a minute, and not by the two hours that a comment promises: see below.

Of the history: the ring is the last samples at every fill level
(`RingIsRecent`); a download interrupted by the control task is in order, without
repetition, and misses no more than was recorded meanwhile (`DownloadOrdered`); a
rollover counts every heating minute since the boot (`RowCountsDay`), and the file
has one row per real day in ascending order (`RowsAreDays`), as long as no
accelerated minute passed and SNTP did not answer inside one; the chart shows today
once (`ChartInOrder`).

Of the settings: an explicit choice stays in force through the repairs every boot makes
again, saves of other settings, and saves that fail before or after the write or do
not open the flash, until the user says otherwise or a restart falls back to a
blob written earlier, with the choice of its time (`ChoiceSticks`); the profile in force validates (`ProfileInForceValid`), the
network flag and the bit tell the truth once the driver is quiet (`LinkReported`), and
a client gives up only after all its reconnections (`GivesUpOnlyAtTheEnd`) but
otherwise comes back (`ComesBack`).

### Fairness

`FairSpec` assumes only weak fairness of `Tick`: the control task is an infinite
loop with the second-highest priority in the system and a watchdog that resets the
chip when the loop stops. Nothing is assumed of users, the network or resets:
the liveness properties are conditional on the house being left alone
(`LeftAlone`: from some time on no reset and no manual fault clearing) or on the
kill switch staying off.

`Alerts` assumes weak fairness of the worker, a task that nothing above it starves
for ever and whose dialogues have socket timeouts, and of time. `AlertChannel` asks
for weak fairness of `Handle`, which the run shows to follow. `Settings` assumes that
the driver answers a join and the event task handles what is posted (weak
fairness of `NetworkStep`, the losses of a link excluded: nothing makes those
happen) and that a handler finishes. `ComesBack` is conditional on a network that is
there and settings that are left alone from some time on.

### Where code and documents differ

The five `Claim…` runs each have an entry under "findings" with the sentence and
the line. Seen while modelling and not given a run of their own:

* `README.md:242` calls the forced break absolute; boost and emergency cycles heat
  through it (the property `BreakRespected` is about the thermostat only).
* `README.md`, `FAULT_STORAGE`: "Sterowanie działa dalej"; `control_engine.c:240`
  goes to `ST_FAULT`.
* `README.md:435`: every new state arms the anti-oscillation lock, ×10 in
  simulation; in simulation no state is entered and no lock armed.
* `control_engine.c:33` calls `s_on_ms` the continuous ON duration; the kill
  switch releases the relay without resetting it.
* The last tick of a boost commands heat in state `ST_IDLE` when the hysteresis
  asks for it.
* `README.md:383`: a heating fault informs the operator and control is "nie twardo
  blokowane"; `control_engine.c:240` stops heating for it, and
  `fault_manager.c:174` clears it only while heating: it stays until cleared by
  hand.
* `storage_manager.h:41` lists `heating_disabled`, the manual kill switch, under the
  modes persisted across restart; nothing reads or writes it.
* `README.md:312`: an open window ends by itself when the temperature recovers.
  `window_detect` returns at once for a sensor that is not OK or SIMULATED, and
  `parse_frame` leaves a suppressed sensor's quality alone: a real sensor comes
  back only by the manual restore.
* `README.md:316`: a suppressed sensor is out of the average. The fill loop gives a
  simulated one `QUAL_SIMULATED` again at the next poll, `window_open` or not.
* `README.md:298`: STALE means no change of 0.05 °C for ten minutes. `stale_detect`
  compares with the poll before, so that a drift of 0.04 °C a second is no change.
* `README.md:284`: when all sensors drop out there is a fault. If those left have
  share 0, `sensor_manager_healthy_count` still counts them, and the controller
  neither heats nor reports.
* `web_ui_api.c:655`: on leaving simulation the virtual sensors revert to real; a
  sensor disabled at that moment does not.
* `README.md:439`: the pump overrun ends after `total_seconds`. The tick after the one
  that started it decides `ST_IDLE` again, enters it, and no longer runs the
  generator: the overrun is over after a tick outside simulation.
* `README.md:277`, `README.md:282`: a sensor without a fresh reading for 90 s is timed
  out. One that was simulated and is real again keeps `QUAL_SIMULATED`, which no
  loop tests, and with it its last value, as long as some answer comes that does
  not name it (`sensor_manager.c:280`).
* `README.md:293`: a reading out of range is rejected. It enters the moving average
  first (`sensor_manager.c:183`), from there the baseline, and its leaving the
  average can pass for an open window.
* `README.md:104`, `README.md:346`: the event log is throttled per fault class.
  `raise_fault` remembers only the class logged last, so that two faults that
  alternate are logged each time.
* `fault_manager.c:78`: a fault that replaces another without a clear in between
  (a storage fault over a network fault, say) raises no alert of its own.
* `notification_manager.c:685`: restart mails are throttled to one per two hours, since
  "a boot-loop would otherwise spam the inbox". The limiter's table is in RAM and
  is empty after the reset it should outlive, while a boot sends one notice at
  most: the throttle never keeps one back, and a device that resets every minute
  or two mails every time. `RestartMailsApart` is what is true instead.
* `storage_manager.c:188`: of a blob that is too short "the caller repairs and
  re-saves". `app_main` repairs it (`main.c:163`) and does not save it: the blob stays
  short, and is repaired again at every boot, until a handler saves something.
* `h_emergency` takes an on time that is not below the period: the emergency cycle
  then heats without a pause (`AntiFrostCycles` presupposes a pause).
* `smtp_send` does not compare the server's reply codes: a mail that was refused is
  logged as sent.
* `notification_manager.c:25`: the diagnostic text is written by the worker and by
  `h_notify_test` without a lock.
* `README.md:449`: `FAULT_NETWORK` after ten attempts. `network_manager.c:57` sets the
  flag at the first loss.
* After a switch from client to access point nobody sets the network flag again: a
  `FAULT_NETWORK` that was active stays, and so does a set `network_is_up` bit.
* `network_is_up` stays TRUE while the client reconnects; the bit is cleared only
  when it gives up.
* A runtime `h_network` can open an access point with a password that is too short;
  only the next boot repairs it.
* `main.c:156`: a flash that cannot be read counts as a first boot, and the defaults
  are saved over the user's settings.
* `s_healthy` is never set back: one failed save is `FAULT_STORAGE` until the next
  boot, however many saves succeed.
* `h_profile_file` does not look at the result of `fwrite`; a torn file is refused when
  it is loaded.
* `profile.c:43`: a gap of exactly 0.2 degrees between on and off is refused for
  about half of the temperatures (21.2/21.4), by the rounding of the floats, so that
  a profile that was accepted and written with two decimals may fail to load.
* `storage_manager.c:283`: days of the synthetic clock never reach `daily.csv`. The
  test is whether the clock was valid at the day's first sample: accelerated
  simulation that goes on after SNTP has answered writes days of the synthetic
  clock, and on a valid clock it writes days that are yet to come.
* `storage_manager.c:281`: an old day is written only if it was recorded against a real
  clock. The clock is asked for twice, for the stamp (`control_engine.c:189`) and for
  the day's mark (`storage_manager.c:276`). SNTP answering in between leaves a day with a
  synthetic date and the mark of a real one, and the next rollover writes it. The moment
  is short; `Minute` has it (`answers`), and the properties except it (`wandered`).
* A reboot empties the ring: the row of that day counts from the boot, and
  replaces no earlier row since the day had none.
* `h_daily` reads the file, then the buffer: when midnight falls between the two,
  yesterday is in neither.
* The external sensor has no timeout at all: its last value stays in force.
* `storage_save_config` does not set `s_healthy` when NVS cannot be opened
  (`storage_manager.c:202`), and no handler looks at its result: the user is told "ok",
  `storage_healthy` shows nothing, and the change is gone after a restart.

## 4. Proofs

`ControlEngine_proofs` proves, for every constant that satisfies the named
assumptions (positive lengths, accepted limits at least the validity floor,
inputs of the right type): `TypeCorrect`, `KillSwitchCorrect`, `BoostCorrect`,
`SimulationCorrect`, `LineCorrect`. All but the last are inductive together with
the types. `LineNeedsACommand` is not: an overrun may be left in `s_would_be`
while the mode has moved on, so it is strengthened to `LineInv`, which says what
the line is in each combination of command, overrun and simulation.

`ControlHistory_proofs` proves `UnattendedHeatingIsBounded`, `MinOffIsRespected`,
`BreakIsRespected` and `MinOnIsRespected` from the inductive invariant `HInv`:
types, accepted limits (`ConfigAccepted`), the code's counters never run ahead of
the clocks of what really happened (`CountersTrail`: this is where overflow,
boosts and kills are dealt with), an unforced burn is exactly what `s_on_ms`
counts (`BurnMeasured`), and the forced break left is at least what the last
cut-off asked for (`BreakCovered`). Its assumptions bound the limits by the
clocks' cap and a tick by `StepCeiling`.

Each proof goes by the disjuncts of the next-state relation; the six ticks share
lemmas about `Settle`. The invariants were model-checked first, on the
instances of `ControlCore` and `ControlHistory`.

`Settings_proofs` proves `TypeCorrect`, `ChoiceIsKept`,
`ProfileIsValid`, `LinkIsReported` and `GivesUpLast` for any number of
reconnections and any room for events. `ChoiceSticks` is
not inductive: it must be known that the mark "has been configured" goes with the
choice, both in force (`ChoiceInForce`) and in the blob with the choice made when it was
written (`ChoiceInFlash`). With `ProfileInForceValid` these are `StoreInv`, kept by every
save with any result, since `Save` is all that a handler does to them. The two about the link follow
from `LinkInv`, which says what the last pending event is when the link is up or
down: the events of an earlier life may come before it, never after.
`ClientComesCloser` is what `ComesBack` descends on: a client with reconnections left
always has an event to handle or a join to finish (from `GivesUpOnlyAtTheEnd`), and
while its network is there each of these steps brings the station closer to a
connection, or leaves an event less to handle.

`Alerts_proofs` proves `TypeCorrect`, `RepeatsAreKept`, `LimiterIsExact`,
`RestartMailsStayApart`, `AlertStaysArmed`, and `ChannelIsKept`, the safety half of the
refinement, for any queue, window, wait, cap and set of events with a slot each.
`LimiterInv` ties the table to the histories: one slot per key, an age that is the
event's, no slot for an event not mailed since the boot. That nothing is
evicted is a counting argument (`RoomForNewcomer`: the keys in the table are
distinct events other than the newcomer). `RestartInv` follows the one notice of a
boot from the queue into the worker: until it is dispatched, the last restart mail is
at least as old as the boot, and from then until the worker decides about it at
least `NoticeAge` old. The refinement goes step by step with the
mapping "the worker's command, then the queue".

`SampleStore_proofs` proves `RingImplementsRecent`: for every size of the ring,
`storage_ring_copy` over `head` and `count` is the abstract sequence. The invariant
(`RingInv`) is that the head is where the count says until the ring is full;
`PushWithRoom` and `PushWhenFull` show what a push does to the sequence read. The
refinement has no fairness, so that it is proved in full.

`Download_proofs` proves `DownloadIsOrdered`, both halves of `DownloadOrdered`. That it
ascends follows from `OrderInv`: without accelerated minutes the virtual clock goes
up with each sample and stays behind the true time (`EpochAssumption`: the
synthetic clock starts in the past), and what was sent is older than every
sample at the positions still to come, before and after a shift. That it misses
little follows from `DownloadInv`: k samples have left the ring since the start, the
ring at i - k is what it was at i, and the samples skipped at the start of a
batch, which are counted once each, number no more than k.

`Rows_proofs` proves `FileHasOneRowPerDay`, `RolloverCountsDay` and `ChartIsInOrder`. A
row counts a selection from the ring, and the proofs count its positions instead.
`GapInv`: without accelerated minutes two samples are at least as many minutes apart
as places in the ring, so that a ring of a day's length (`DayAssumption`) loses none
of the current day. `DayInv`: the day being collected is that of the newest sample, and the
minutes of it in the ring are what the history `today` has counted. `FileInv`: the
rows ascend and end before the day being collected and before today, and so does what a
chart under way has read. Two theorems are about the clean-up at boot alone:
`CleanUpKeepsEveryDay` (the last row of each day, if its table has room) and
`CleanUpKeepsTheFirstRows` (a clean file is cut to its oldest rows, which
explains `ClaimCleanFileUntouched`).

`OvershootIsBounded` (in `ControlHistory_proofs`) is proved for a furnace on which the
simulation mode is never used (`NeverSimulated`: not in the configurations
of the first boot, not in a request), with pump, boosts, emergency cycles,
edits of the limits and restarts as they come. `Settling` adds to `HInv` that the time
of heating a hot house and what is left of the lock sum up to no more than the
bound. The assumption is needed: a leftover of the simulation in `s_would_be` makes
every heating tick enter `ST_HEATING` anew, which `ClaimOvershootBounded` shows.

`Sensors_proofs` proves all six properties of the run for any number of sensors, any
temperatures, length of the average and limits. Induction over the sensors is not
available, so that the loop is handled through its runs: the first place where a
recursive function would differ from what is claimed is a least one (`FirstPlace`,
from the well-foundedness of the strict subsets), hence a loop has a run
(`LoopRuns`) and what each step keeps holds after the last (`LoopKeeps`,
`DetectedRuns`). On each sensor, `Stage` says what the loops before the detectors leave,
`Verdict` what the detectors make of it, whatever they see of the others. The
invariant is `SensorInv`: the types, `UsableIsFresh`, `Sound` (a suppressed sensor is not
OK and has a baseline to come back to), and `Below` (a suppressed one that is counted
as simulated is 0.4 degrees or more below its baseline, so that one that comes
back has just been read). `CoolDownIsNoWindow` is about a loop whose steps change
what later steps compare with: a baseline moves by at most a degree while `Adapt`
per cent of the drop do (`AdaptedDrop`), so that every peer's drop stays within a
degree of the sensor's own (`PeerDropsAre`, `NoLocalDrop`), in each step (`CalmStep`)
and hence in all (`CalmLoop`).

The last theorems of `ControlEngine_proofs` are what the liveness properties of the
engine descend on. `BoostRunsDown`: every tick takes time off a running boost, the kill switch
alone excepted. `ColdHouseComesCloser`: a thermostat tick in a cold house heats,
or gets closer to `ST_IDLE` (whose entry arms the lock), or shortens the longest
of forced break, lock and remaining minimum off-time; no wait starts anew.
`HotHouseIsReleased`: nothing is lit in a hot house, and what burns has ever less
of max-on left (with the leftover of the simulation it may take that long).
`DutySkipsNothing`: the emergency cycle skips neither part, if one step fits
each. The two counters are excepted in the tick in which they overflow. They were
checked with TLC on the instances of `ControlCore` and `ControlLiveness`. What is left
to TLC is that ticks keep coming and that the conclusion follows under fairness.

All theorems rest on the named assumptions of the modules, which the runs
evaluate: `NotifierAssumption`, `SlotsAssumption`, `AlertsAssumption` (`MCAlerts`),
`StoreAssumption`, `DayAssumption`, `EpochAssumption`
(`MCSamples`), `NetworkAssumption`,
`SettingsAssumption` (`MCSettings`), `SensorsAssumption`
(`MCSensors`), and those of the engine.

Only model-checked: all liveness (`BoostEnds`, `ColdIsHeated`, `HotIsReleased`,
`AntiFrostCycles`, `NoticeEnds`, `ComesBack`, the fairness half of `ImplementsChannel`),
since TLAPS does not do `ENABLED` here; and `Frames` (in the run of a claim),
whose recursion over bytes calls for an induction the provers cannot instantiate.
Every invariant and every safety action property of the passing runs is a theorem.

## 5. Not modelled

Floating-point averages, the profile's thresholds and the thermal simulation;
JSON parsing and formatting; the HTTP, SMTP and SMS dialogues and TLS, whose
results are only logged; mDNS and the LED; the event log's ring (the same ring as
the samples', read in one critical section) and the flash-wear counters (an
estimate that nothing depends on); the read-only snapshot handlers; the browser
UI and `monitor.py`. The external sensor is read by `control_tick` alone and has no
quality. See "components" in `PROJECT.json`.

## 6. Plan

Done: the core (`HeatingOutput`, `FaultDetect`, `ControlEngine`, `ControlHistory`,
`ControlClaims`) and its proofs, with the measures behind its liveness; `Sensors` with its
proofs, and `Frames`; the alerts (`Notifier`,
`AlertChannel`, `Alerts`) and their proofs; the history (`SampleStore`,
`RecentSamples`) with the proofs of its refinement, of the download and of the rows;
network and configuration
(`NetworkManager`, `ConfigStore`, `Settings`) and their proofs, with the measure behind
`ComesBack`.

Left, in this order:

1. `Sensors`: the state a restart brings back (with `ConfigStore`), the external
   sensor, and the composition with the readings of `ControlEngine`.
2. An abstract furnace contract (off, burning, resting) that the control engine
   without boosts and emergency cycles implements, as a refinement.
3. The event log, as a second instance of `RecentSamples`.
