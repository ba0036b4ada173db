---------------------------- MODULE SampleStore ----------------------------
(***************************************************************************)
(* The history of main/storage_manager.c: the minute ring, the day's       *)
(* rollover into daily.csv, and its clean-up at boot; with the clocks of   *)
(* main/control_engine.c that stamp the samples, and the two streaming     *)
(* handlers of main/web_ui_api.c that read them in several critical        *)
(* sections while the control task records.                                *)
(*                                                                         *)
(* Time is in logging intervals (minutes).  A sample's temperatures are    *)
(* reduced to whether the system temperature is a number, a row's to its   *)
(* heating minutes.  The scan, the append and the push of a rollover are   *)
(* three critical sections and one step here: only the control task writes *)
(* the ring and the rows after boot, a reader's critical section reads one *)
(* of the two, and what it sees of that one is as before or after the      *)
(* step.  Left out is a chart both of whose reads fall between the append  *)
(* and the push: it lacks the new day's first sample.                      *)
(* today, wandered and since are history: today counts the samples of the  *)
(* current day since the boot, wandered tells that some minute passed at   *)
(* the accelerated pace or had SNTP answer in the middle of it, since the  *)
(* samples recorded during a download.                                     *)
(*                                                                         *)
(* A definition marked "Slip" is a wrong form of the one after it, the way *)
(* this code could plausibly be wrong; the checks must notice each.        *)
(***************************************************************************)
EXTENDS Integers, Sequences, FiniteSets, SequencesExt

CONSTANTS
  RingSize,     \* HE_RING_SIZE
  DayLen,       \* minutes in a day
  Batch,        \* SAMPLE_BATCH
  RowCap,       \* the rows dedup_daily_csv has room for
  ShownRows,    \* the rows storage_read_daily_aggregates returns
  Epoch,        \* HE_TIME_VALID_EPOCH, where the synthetic clock starts
  StartTimes,   \* the true time at the first boot
  Outages,      \* how long the power can be off
  Kinds         \* what can be recorded: [known, heat]

ASSUME StoreAssumption ==
  /\ RingSize \in Nat \ {0} /\ Batch \in Nat \ {0}
  /\ RowCap \in Nat \ {0} /\ ShownRows \in Nat \ {0}
  /\ Epoch \in Nat \ {0} /\ StartTimes \subseteq Nat /\ Outages \subseteq Nat
  /\ Kinds \subseteq [known : BOOLEAN, heat : BOOLEAN]

(* The ring is sized to hold one day. *)
ASSUME DayAssumption == DayLen \in 1 .. RingSize

(* HE_TIME_VALID_EPOCH is in the past. *)
ASSUME EpochAssumption == \A t \in StartTimes : Epoch <= t

VARIABLES
  now,        \* the true time
  valid,      \* he_time_valid: the system clock shows it
  virtual,    \* s_virtual_now, 0 before the first tick
  mode,       \* simulation: "off", "plain" or "accel"
  ring, head, count,    \* s_ring, s_ring_head, s_ring_count
  curDay, curReal,      \* s_cur_day and s_cur_day_real
  rows,       \* daily.csv
  fsUp,       \* s_lfs_ok
  download,   \* h_samples at work: what it has asked for and sent
  chart,      \* h_daily at work: the rows it has read
  today, wandered, since

clock   == <<now, valid, virtual, mode>>
buffer  == <<ring, head, count>>
history == <<curDay, curReal, rows, fsUp>>
readers == <<download, chart>>
vars    == <<clock, buffer, history, readers, today, wandered, since>>

NoDay == -1
Absent == [active |-> FALSE]

Day(t) == t \div DayLen

(* The elements of s at the places K, by ascending key. *)
InOrder(K, key) ==
  [n \in 1 .. Cardinality(K) |-> CHOOSE i \in K : Cardinality({j \in K : key[j] <= key[i]}) = n]

Picked(s, K, key) == [n \in 1 .. Cardinality(K) |-> s[InOrder(K, key)[n]]]

Sample == [ts : Nat, known : BOOLEAN, heat : BOOLEAN]
Row    == [day : Nat, heat : 0 .. RingSize]
NoSample == [ts |-> 0, known |-> FALSE, heat |-> FALSE]

----------------------------------------------------------------------------
(* Slip: the ring is read from its head before it is full. *)
RingBaseFromHead(start) == (head + start) % RingSize

(* storage_ring_copy: where logical index start lies, 0 being the oldest. *)
RingBase(start) == IF count < RingSize THEN start ELSE (head + start) % RingSize

RingCopy(start, n) ==
  LET avail == IF start >= count THEN 0 ELSE count - start
      len   == IF n > avail THEN avail ELSE n IN
  [i \in 1 .. len |-> ring[(RingBase(start) + i - 1) % RingSize]]

Recorded == RingCopy(0, RingSize)

(* Where the samples are that aggregate_day and storage_read_daily_current
   look at. *)
KnownOf(samples, d) == {i \in DOMAIN samples : Day(samples[i].ts) = d /\ samples[i].known}
HeatOf(samples, d)  == {i \in KnownOf(samples, d) : samples[i].heat}

RowOf(samples, d) == [day |-> d, heat |-> Cardinality(HeatOf(samples, d))]

(* Slip: the rollover aggregates after the new day's first sample is in. *)
AggregateLate(s) == Append(SubSeq(Recorded, IF count = RingSize THEN 2 ELSE 1, count), s)

(* aggregate_day scans the ring before the sample s is pushed. *)
Aggregated(s) == Recorded

(* Slip: a day on the synthetic clock is aggregated too. *)
RollsAnyDay(day) == curDay # NoDay /\ day # curDay /\ fsUp

(* A rollover is persisted only if the old day began on a valid clock. *)
RollsOver(day) == curDay # NoDay /\ day # curDay /\ curReal /\ fsUp

(* Slip: the number of samples is not bounded by the ring. *)
CountPastEnd(n) == n + 1

CountUp(n) == IF n < RingSize THEN n + 1 ELSE n

(* storage_record_minute, which asks for itself whether the clock is valid;
   written tells whether daily.csv could be opened. *)
Record(s, written) ==
  LET day  == Day(s.ts)
      new  == curDay = NoDay \/ day # curDay
      agg  == Aggregated(s) IN
  /\ rows' = IF RollsOver(day) /\ KnownOf(agg, curDay) # {} /\ written
             THEN Append(rows, RowOf(agg, curDay)) ELSE rows
  /\ curDay' = day
  /\ curReal' = IF new THEN valid' ELSE curReal
  /\ ring' = [ring EXCEPT ![head] = s]
  /\ head' = (head + 1) % RingSize
  /\ count' = CountUp(count)
  /\ today' = LET old == IF new THEN [known |-> 0, heat |-> 0] ELSE today IN
              IF s.known THEN [known |-> old.known + 1,
                               heat |-> IF s.heat THEN old.heat + 1 ELSE old.heat]
              ELSE old
  /\ since' = IF download.active THEN since + 1 ELSE 0

(* s_virtual_now after a minute of ticks that ends at the true time t. *)
VirtualAfter(t) ==
  IF valid /\ mode # "accel" THEN t
  ELSE (IF virtual # 0 THEN virtual ELSE IF valid THEN now ELSE Epoch) + 1

(* The part of control_tick that logs, once a virtual minute.  An accelerated
   one takes a tenth of a true minute.  answers: SNTP does, after the sample's
   time was taken and before the clock is asked for again. *)
Minute(kind, written, answers) ==
  /\ now' \in IF mode = "accel" THEN {now, now + 1} ELSE {now + 1}
  /\ virtual' = VirtualAfter(now')
  /\ valid' = (valid \/ answers)
  /\ IF valid' \/ mode # "off"
     THEN Record([ts |-> virtual', known |-> kind.known, heat |-> kind.heat], written)
     ELSE UNCHANGED <<buffer, curDay, curReal, rows, today, since>>
  /\ wandered' = (wandered \/ mode = "accel" \/ answers)
  /\ UNCHANGED <<mode, fsUp, readers>>

(* SNTP sets the system clock between two ticks. *)
Synchronise ==
  /\ ~valid /\ valid' = TRUE
  /\ UNCHANGED <<now, virtual, mode, buffer, history, readers, today, wandered, since>>

(* h_sim_heating. *)
SetMode(m) ==
  /\ mode' = m
  /\ UNCHANGED <<now, valid, virtual, buffer, history, readers, today, wandered, since>>

----------------------------------------------------------------------------
(* h_samples: the number of samples is read once, then they are copied batch
   by batch, by position.  Any step may come between two batches, except
   another handler's: the HTTP server is one task. *)
StartDownload ==
  /\ ~download.active /\ ~chart.active
  /\ download' = [active |-> TRUE, total |-> count, pos |-> 0, sent |-> <<>>, had |-> Recorded]
  /\ since' = 0
  /\ UNCHANGED <<clock, buffer, history, chart, today, wandered>>

(* Slip: the last sample of a batch is sent again with the next one. *)
PositionRepeats(pos) == pos + Batch - 1

NextPosition(pos) == pos + Batch

DownloadBatch ==
  /\ download.active /\ download.pos < download.total
  /\ download' = [download EXCEPT !.pos = NextPosition(@), !.sent = @ \o RingCopy(download.pos, Batch)]
  /\ UNCHANGED <<clock, buffer, history, chart, today, wandered, since>>

(* The end of the stream, or of the connection. *)
EndDownload ==
  /\ download.active
  /\ download' = Absent /\ since' = 0
  /\ UNCHANGED <<clock, buffer, history, chart, today, wandered>>

(* h_daily, its first critical section: the last rows of the file. *)
ReadRows ==
  /\ ~download.active /\ ~chart.active
  /\ chart' = [active |-> TRUE,
               rows |-> IF fsUp THEN SubSeq(rows, IF Len(rows) > ShownRows THEN Len(rows) - ShownRows + 1 ELSE 1, Len(rows))
                        ELSE <<>>]
  /\ UNCHANGED <<clock, buffer, history, download, today, wandered, since>>

(* Its second one, storage_read_daily_current, and what is sent: the current
   day's row is replaced by a live one. *)
Live == IF valid /\ KnownOf(Recorded, Day(now)) # {}
        THEN <<RowOf(Recorded, Day(now))>> ELSE <<>>

(* Slip: the file's row of the current day is sent as well. *)
ChartWithBoth == chart.rows \o Live

Shown == {i \in DOMAIN chart.rows : ~(valid /\ chart.rows[i].day = Day(now))}

Chart == Picked(chart.rows, Shown, [i \in Shown |-> i]) \o Live

SendChart ==
  /\ chart.active /\ chart' = Absent
  /\ UNCHANGED <<clock, buffer, history, download, today, wandered, since>>

----------------------------------------------------------------------------
(* dedup_daily_csv: the last row of each day, ascending; the first RowCap days
   it meets are all it has room for.  A file that needs nothing is left. *)
Ascending(s) == \A i, j \in DOMAIN s : i < j => s[i].day < s[j].day

FirstOfDay(s) == {i \in DOMAIN s : \A j \in 1 .. i - 1 : s[j].day # s[i].day}
LastOfDay(s)  == {i \in DOMAIN s : \A j \in i + 1 .. Len(s) : s[j].day # s[i].day}

DaysMet(s) == {s[i].day : i \in {f \in FirstOfDay(s) : Cardinality({g \in FirstOfDay(s) : g < f}) < RowCap}}

Kept(s) == {i \in LastOfDay(s) : s[i].day \in DaysMet(s)}

Deduplicated(s) == Picked(s, Kept(s), [i \in Kept(s) |-> s[i].day])

(* A reset: the buffer is gone, the file and the settings stay.  After a
   power failure the clock is not valid before SNTP answers. *)
Boot(outage, keepsTime, mounts, written) ==
  /\ now' = now + outage
  /\ valid' = (valid /\ keepsTime)
  /\ virtual' = 0
  /\ ring' = [i \in 0 .. RingSize - 1 |-> NoSample] /\ head' = 0 /\ count' = 0
  /\ curDay' = NoDay /\ curReal' = FALSE
  /\ fsUp' = mounts
  /\ rows' = IF mounts /\ written THEN Deduplicated(rows) ELSE rows
  /\ download' = Absent /\ chart' = Absent
  /\ today' = [known |-> 0, heat |-> 0] /\ since' = 0
  /\ UNCHANGED <<mode, wandered>>

Init ==
  /\ now \in StartTimes /\ valid = FALSE /\ virtual = 0 /\ mode = "off"
  /\ ring = [i \in 0 .. RingSize - 1 |-> NoSample] /\ head = 0 /\ count = 0
  /\ curDay = NoDay /\ curReal = FALSE /\ rows = <<>> /\ fsUp = TRUE
  /\ download = Absent /\ chart = Absent
  /\ today = [known |-> 0, heat |-> 0] /\ wandered = FALSE /\ since = 0

Reader == StartDownload \/ DownloadBatch \/ EndDownload \/ ReadRows \/ SendChart

Next ==
  \/ \E kind \in Kinds, written \in BOOLEAN, answers \in IF valid THEN {FALSE} ELSE BOOLEAN :
       Minute(kind, written, answers)
  \/ Synchronise
  \/ \E m \in {"off", "plain", "accel"} : SetMode(m)
  \/ Reader
  \/ \E outage \in Outages, keepsTime, mounts, written \in BOOLEAN :
       Boot(outage, keepsTime, mounts, written)

Spec == Init /\ [][Next]_vars

----------------------------------------------------------------------------
Times(s) == [i \in DOMAIN s |-> s[i].ts]
StrictlyUp(s) == \A i, j \in DOMAIN s : i < j => s[i] < s[j]

TypeOK ==
  /\ now \in Nat /\ valid \in BOOLEAN /\ virtual \in Nat /\ mode \in {"off", "plain", "accel"}
  /\ ring \in [0 .. RingSize - 1 -> Sample] /\ head \in 0 .. RingSize - 1 /\ count \in 0 .. RingSize
  /\ curDay \in Nat \cup {NoDay} /\ curReal \in BOOLEAN /\ fsUp \in BOOLEAN
  /\ rows \in Seq(Row)

Buffer == INSTANCE RecentSamples WITH
  Samples <- Sample, Capacity <- RingSize, recent <- Recorded

(* storage_ring_copy over the head and count gives the last RingSize samples
   recorded since the boot, oldest first, through every wrap of the ring. *)
RingIsRecent == Buffer!Spec

(* A download that the control task interrupts between batches is still in
   order and without repetitions, and misses no more samples of those it set
   out to send than were recorded meanwhile. *)
DownloadOrdered ==
  download.active /\ ~wandered =>
    /\ StrictlyUp(Times(download.sent))
    /\ LET due == IF download.pos < download.total THEN download.pos ELSE download.total
           got == {i \in 1 .. due : \E j \in DOMAIN download.sent : download.sent[j] = download.had[i]} IN
       due - Cardinality(got) <= since

(* The row a rollover appends counts every known heating minute of the day
   since the boot, though the ring never holds more than a day. *)
RowCountsDay ==
  [][Len(rows') > Len(rows) /\ ~wandered' =>
       Last(rows') = [day |-> curDay, heat |-> today.heat] /\ today.known > 0]_vars

(* Without accelerated minutes and without an SNTP answer in the middle of one,
   the file has one row per day, in order, and of real days only, across
   restarts, power failures and a late answer. *)
RowsAreDays ==
  ~wandered =>
    /\ Ascending(rows)
    /\ \A i \in DOMAIN rows : \E t \in StartTimes : rows[i].day >= Day(t)

(* The chart shows the current day once and last, and in order what the file
   had before, although the file and the buffer are read one after the other. *)
ChartInOrder ==
  [][chart.active /\ ~chart'.active /\ now' = now =>
       \A i, j \in DOMAIN Chart : i < j =>
          /\ valid /\ Chart[i].day = Day(now) => i = Len(Chart)
          /\ ~wandered => Chart[i].day < Chart[j].day]_vars
=============================================================================
