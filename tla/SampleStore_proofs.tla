------------------------- MODULE SampleStore_proofs -------------------------
(***************************************************************************)
(* Proof that the minute ring of SampleStore implements RecentSamples, for *)
(* every size of the ring and any history of minutes and restarts.         *)
(***************************************************************************)
EXTENDS SampleStore, TLAPS

LEMMA SizeType == RingSize \in Nat /\ RingSize > 0
BY StoreAssumption

(* One turn of the ring. *)
LEMMA Around ==
  ASSUME NEW a \in Nat, a < 2 * RingSize
  PROVE  /\ a % RingSize \in 0 .. RingSize - 1
         /\ a < RingSize => a % RingSize = a
         /\ a >= RingSize => a % RingSize = a - RingSize
BY SizeType

-----------------------------------------------------------------------------
(* The ring and its pointers *)

(* Before the ring is full, the head is where the count says. *)
RingInv ==
  /\ now \in Nat /\ virtual \in Nat
  /\ ring \in [0 .. RingSize - 1 -> Sample]
  /\ head \in 0 .. RingSize - 1 /\ count \in 0 .. RingSize
  /\ count < RingSize => head = count

LEMMA EmptyRingType ==
  /\ [i \in 0 .. RingSize - 1 |-> NoSample] \in [0 .. RingSize - 1 -> Sample]
  /\ 0 \in 0 .. RingSize - 1 /\ 0 \in 0 .. RingSize
<1>1. NoSample \in Sample
  BY DEF NoSample, Sample
<1> QED BY <1>1, SizeType

LEMMA RingInit == Init => RingInv
<1> SUFFICES ASSUME Init PROVE RingInv
  OBVIOUS
<1>1. now \in Nat
  BY StoreAssumption DEF Init
<1> QED BY <1>1, EmptyRingType DEF Init, RingInv

LEMMA MinuteStamps ==
  ASSUME RingInv, NEW kind \in Kinds, NEW written \in BOOLEAN,
             NEW answers \in BOOLEAN, Minute(kind, written, answers)
  PROVE  /\ now' \in Nat /\ virtual' \in Nat
         /\ [ts |-> virtual', known |-> kind.known, heat |-> kind.heat] \in Sample
<1>1. now' \in Nat
  BY DEF Minute, RingInv
<1>2. virtual' \in Nat
  BY <1>1, StoreAssumption DEF Minute, VirtualAfter, RingInv
<1> QED BY <1>1, <1>2, StoreAssumption DEF Sample

LEMMA RecordKeeps ==
  ASSUME RingInv, NEW s \in Sample, NEW written \in BOOLEAN, Record(s, written),
         now' \in Nat, virtual' \in Nat
  PROVE  RingInv'
<1>1. head' = (head + 1) % RingSize /\ count' = CountUp(count) /\ ring' = [ring EXCEPT ![head] = s]
  BY DEF Record
<1>2. /\ head' \in 0 .. RingSize - 1
      /\ head + 1 < RingSize => head' = head + 1
  BY <1>1, SizeType, Around DEF RingInv
<1>3. count' \in 0 .. RingSize
  BY <1>1, SizeType DEF RingInv, CountUp
<1>4. ASSUME count' < RingSize PROVE head' = count'
  <2>1. count < RingSize /\ count' = count + 1 /\ head = count
    BY <1>1, <1>4, SizeType DEF RingInv, CountUp
  <2> QED BY <1>2, <1>4, <2>1
<1>5. ring' \in [0 .. RingSize - 1 -> Sample]
  BY <1>1 DEF RingInv
<1> QED BY <1>2, <1>3, <1>4, <1>5 DEF RingInv

LEMMA BootKeeps ==
  ASSUME RingInv, NEW outage \in Outages, NEW keepsTime, NEW mounts, NEW written,
         Boot(outage, keepsTime, mounts, written)
  PROVE  RingInv'
<1>1. now' \in Nat /\ virtual' \in Nat
  BY StoreAssumption DEF Boot, RingInv
<1> QED BY <1>1, EmptyRingType DEF Boot, RingInv

LEMMA RingNext == RingInv /\ [Next]_vars => RingInv'
<1> SUFFICES ASSUME RingInv, [Next]_vars PROVE RingInv'
  OBVIOUS
<1>1. ASSUME NEW kind \in Kinds, NEW written \in BOOLEAN,
             NEW answers \in BOOLEAN, Minute(kind, written, answers)
      PROVE  RingInv'
  <2>1. \/ Record([ts |-> virtual', known |-> kind.known, heat |-> kind.heat], written)
        \/ UNCHANGED buffer
    BY <1>1 DEF Minute
  <2>2. CASE UNCHANGED buffer
    BY <1>1, <2>2, MinuteStamps DEF buffer, RingInv
  <2> QED BY <1>1, <2>1, <2>2, MinuteStamps, RecordKeeps
<1>2. ASSUME NEW outage \in Outages, NEW keepsTime, NEW mounts, NEW written,
             Boot(outage, keepsTime, mounts, written)
      PROVE  RingInv'
  BY <1>2, BootKeeps
<1>3. CASE Synchronise \/ (\E m \in {"off", "plain", "accel"} : SetMode(m)) \/ Reader
           \/ UNCHANGED vars
  BY <1>3 DEF Synchronise, SetMode, Reader, StartDownload, DownloadBatch, EndDownload,
     ReadRows, SendChart, vars, clock, buffer, RingInv
<1> QED BY <1>1, <1>2, <1>3 DEF Next

-----------------------------------------------------------------------------
(* What the readers see *)

RecordedForm ==
  /\ Recorded \in Seq(Sample) /\ Len(Recorded) = count
  /\ count < RingSize => \A i \in 1 .. count : Recorded[i] = ring[i - 1]
  /\ count = RingSize => \A i \in 1 .. count : Recorded[i] = ring[(head + i - 1) % RingSize]

LEMMA RecordedIs == RingInv => RecordedForm
<1> SUFFICES ASSUME RingInv PROVE RecordedForm
  OBVIOUS
<1>1. RingBase(0) \in 0 .. RingSize - 1
  BY SizeType, Around DEF RingBase, RingInv
<1>2. RingBase(0) = IF count < RingSize THEN 0 ELSE head
  BY SizeType, Around DEF RingBase, RingInv
<1> DEFINE r == [i \in 1 .. count |-> ring[(RingBase(0) + i - 1) % RingSize]]
<1>3. Recorded = r
  BY SizeType DEF Recorded, RingCopy, RingInv
<1>4. \A i \in 1 .. count : (RingBase(0) + i - 1) % RingSize \in 0 .. RingSize - 1
  BY <1>1, SizeType, Around DEF RingInv
<1>5. \A i \in 1 .. count : r[i] \in Sample
  BY <1>4 DEF RingInv
<1>6. r \in Seq(Sample) /\ Len(r) = count
  BY <1>5 DEF RingInv
<1>7. ASSUME count < RingSize, NEW i \in 1 .. count PROVE r[i] = ring[i - 1]
  BY <1>2, <1>7, SizeType, Around DEF RingInv
<1>8. ASSUME count = RingSize, NEW i \in 1 .. count
      PROVE  r[i] = ring[(head + i - 1) % RingSize]
  BY <1>2, <1>8 DEF RingInv
<1> QED BY <1>3, <1>6, <1>7, <1>8 DEF RecordedForm

LEMMA RecordedThen == RingInv' => RecordedForm'
BY RecordedIs, PTL

(* t is q without its oldest sample and with s as its newest. *)
Shifted(t, q, s) ==
  /\ t \in Seq(Sample) /\ Len(t) = RingSize
  /\ \A i \in 1 .. RingSize : t[i] = IF i < RingSize THEN q[i + 1] ELSE s

(* The last n of a sequence and one more element. *)
LEMMA LastOfAppend ==
  ASSUME NEW q \in Seq(Sample), Len(q) <= RingSize, NEW s \in Sample,
         NEW L, L = Buffer!LastOf(Append(q, s), RingSize)
  PROVE  /\ Len(q) < RingSize => L = Append(q, s)
         /\ Len(q) = RingSize => Shifted(L, q, s)
<1>1. /\ Append(q, s) \in Seq(Sample) /\ Len(Append(q, s)) = Len(q) + 1 /\ Len(q) \in Nat
      /\ \A i \in 1 .. Len(q) : Append(q, s)[i] = q[i]
      /\ Append(q, s)[Len(q) + 1] = s
  OBVIOUS
<1>2. CASE Len(q) < RingSize
  BY <1>1, <1>2, SizeType DEF Buffer!LastOf
<1>3. CASE Len(q) = RingSize
  <2>1. L = SubSeq(Append(q, s), 2, RingSize + 1)
    BY <1>1, <1>3, SizeType DEF Buffer!LastOf
  <2>2. /\ L \in Seq(Sample) /\ Len(L) = RingSize
        /\ \A i \in 1 .. RingSize : L[i] = Append(q, s)[i + 1]
    BY <1>1, <1>3, <2>1, SizeType
  <2> QED BY <1>1, <1>3, <2>2, SizeType DEF Shifted
<1> QED BY <1>1, <1>2, <1>3, SizeType

(* While there is room, a push appends. *)
LEMMA PushWithRoom ==
  ASSUME RingInv, RingInv', count < RingSize, count' = count + 1, NEW s \in Sample,
         ring' = [ring EXCEPT ![head] = s], head' = (head + 1) % RingSize
  PROVE  Recorded' = Append(Recorded, s)
<1>0. /\ count \in Nat /\ RingSize \in Nat /\ RingSize > 0 /\ head = count
      /\ ring \in [0 .. RingSize - 1 -> Sample]
  BY SizeType DEF RingInv
<1>1. /\ Recorded \in Seq(Sample) /\ Len(Recorded) = count
      /\ \A i \in 1 .. count : Recorded[i] = ring[i - 1]
  BY RecordedIs DEF RecordedForm
<1>2. \A i \in 1 .. count' : ring'[i - 1] = IF i <= count THEN ring[i - 1] ELSE s
  BY <1>0
<1>3. /\ Recorded' \in Seq(Sample) /\ Len(Recorded') = count'
      /\ count' < RingSize => \A i \in 1 .. count' : Recorded'[i] = ring'[i - 1]
      /\ count' = RingSize =>
           \A i \in 1 .. count' : Recorded'[i] = ring'[(head' + i - 1) % RingSize]
  BY RecordedThen DEF RecordedForm
<1>4. \A i \in 1 .. count' : Recorded'[i] = ring'[i - 1]
  <2>1. CASE count' < RingSize
    BY <1>3, <2>1
  <2>2. CASE count' = RingSize
    <3>1. head' = 0
      BY <1>0, <2>2, Around
    <3>2. \A i \in 1 .. count' : (head' + i - 1) % RingSize = i - 1
      BY <1>0, <2>2, <3>1, Around
    <3> QED BY <1>3, <2>2, <3>2
  <2> QED BY <1>0, <2>1, <2>2
<1>5. \A i \in 1 .. count + 1 : Recorded'[i] = Append(Recorded, s)[i]
  BY <1>0, <1>1, <1>2, <1>4
<1>6. Append(Recorded, s) \in Seq(Sample) /\ Len(Append(Recorded, s)) = count + 1
  BY <1>1
<1> QED BY <1>0, <1>3, <1>5, <1>6

(* When it is full, the new sample takes the place of the oldest, and the
   oldest is the next one. *)
LEMMA PushWhenFull ==
  ASSUME RingInv, RingInv', count = RingSize, count' = count, NEW s \in Sample,
         ring' = [ring EXCEPT ![head] = s], head' = (head + 1) % RingSize
  PROVE  Shifted(Recorded', Recorded, s)
<1>0. /\ RingSize \in Nat /\ RingSize > 0 /\ head \in 0 .. RingSize - 1
      /\ ring \in [0 .. RingSize - 1 -> Sample]
  BY SizeType DEF RingInv
<1>1. \A i \in 1 .. RingSize : Recorded[i] = ring[(head + i - 1) % RingSize]
  BY RecordedIs DEF RecordedForm
<1>2. /\ Recorded' \in Seq(Sample) /\ Len(Recorded') = RingSize
      /\ \A i \in 1 .. RingSize : Recorded'[i] = ring'[(head' + i - 1) % RingSize]
  BY RecordedThen DEF RecordedForm
<1>3. head' = IF head + 1 < RingSize THEN head + 1 ELSE 0
  BY <1>0, Around
<1>4. ASSUME NEW i \in 1 .. RingSize, i < RingSize PROVE Recorded'[i] = Recorded[i + 1]
  <2>1. (head' + i - 1) % RingSize = (head + i) % RingSize
    BY <1>0, <1>3, <1>4, Around
  <2>2. (head + i) % RingSize \in 0 .. RingSize - 1 /\ (head + i) % RingSize # head
    BY <1>0, <1>4, Around
  <2>3. ring'[(head + i) % RingSize] = ring[(head + i) % RingSize]
    BY <1>0, <2>2
  <2>4. Recorded[i + 1] = ring[(head + i) % RingSize]
    <3>1. i + 1 \in 1 .. RingSize /\ head + (i + 1) - 1 = head + i
      BY <1>0, <1>4
    <3> QED BY <1>1, <3>1
  <2> QED BY <1>2, <2>1, <2>3, <2>4
<1>5. Recorded'[RingSize] = s
  <2>1. (head' + RingSize - 1) % RingSize = head
    BY <1>0, <1>3, Around
  <2>2. RingSize \in 1 .. RingSize
    BY <1>0
  <2> QED BY <1>0, <1>2, <2>1, <2>2
<1> QED BY <1>0, <1>2, <1>4, <1>5 DEF Shifted

LEMMA RecordImplements ==
  ASSUME RingInv, RingInv', NEW s \in Sample, NEW written, Record(s, written)
  PROVE  Buffer!Record
<1>0. /\ ring' = [ring EXCEPT ![head] = s] /\ head' = (head + 1) % RingSize
      /\ count' = CountUp(count) /\ count \in 0 .. RingSize /\ RingSize \in Nat
      /\ RingSize > 0
  BY SizeType DEF Record, RingInv
<1>1. Recorded \in Seq(Sample) /\ Len(Recorded) = count
  BY RecordedIs DEF RecordedForm
<1> DEFINE L == Buffer!LastOf(Append(Recorded, s), RingSize)
<1>a. L = Buffer!LastOf(Append(Recorded, s), RingSize)
  OBVIOUS
<1> HIDE DEF L
<1>2. CASE count < RingSize
  <2>1. Recorded' = Append(Recorded, s)
    BY <1>0, <1>2, PushWithRoom DEF CountUp
  <2>2. L = Append(Recorded, s)
    BY <1>0, <1>1, <1>2, <1>a, LastOfAppend
  <2>3. /\ Append(Recorded, s) # <<>>
        /\ Append(Recorded, s)[Len(Append(Recorded, s))] = s
    BY <1>1
  <2>4. Recorded' # <<>> /\ Recorded'[Len(Recorded')] = s /\ Recorded' = L
    BY <2>1, <2>2, <2>3
  <2> QED BY <2>4, <1>a DEF Buffer!Record, Buffer!Last, L
<1>3. CASE count = RingSize
  <2>1. count' = count
    BY <1>0, <1>3 DEF CountUp
  <2>2. Shifted(Recorded', Recorded, s)
    BY <1>0, <1>3, <2>1, PushWhenFull
  <2>3. Len(Recorded) = RingSize /\ Len(Recorded) <= RingSize
    BY <1>0, <1>1, <1>3
  <2>4. Shifted(L, Recorded, s)
    BY <1>1, <1>a, <2>3, LastOfAppend
  <2>5. Recorded' = L
    BY <1>0, <2>2, <2>4 DEF Shifted
  <2>6. Recorded' # <<>> /\ Recorded'[Len(Recorded')] = s
    BY <1>0, <2>2 DEF Shifted
  <2> QED BY <2>5, <2>6 DEF Buffer!Record, Buffer!Last, L
<1> QED BY <1>0, <1>2, <1>3

LEMMA UntouchedRing == ASSUME UNCHANGED buffer PROVE Recorded' = Recorded
BY DEF buffer, Recorded, RingCopy, RingBase

LEMMA EmptyRing ==
  ASSUME RingInv, count = 0
  PROVE  Recorded = <<>>
BY RecordedIs DEF RecordedForm, RingInv

LEMMA StepImplements ==
  ASSUME RingInv, RingInv', [Next]_vars
  PROVE  [Buffer!Next]_Recorded
<1>1. ASSUME NEW kind \in Kinds, NEW written \in BOOLEAN,
             NEW answers \in BOOLEAN, Minute(kind, written, answers)
      PROVE  Buffer!Record \/ Recorded' = Recorded
  <2>1. \/ Record([ts |-> virtual', known |-> kind.known, heat |-> kind.heat], written)
        \/ UNCHANGED buffer
    BY <1>1 DEF Minute
  <2> QED BY <1>1, <2>1, MinuteStamps, RecordImplements, UntouchedRing
<1>2. ASSUME NEW outage \in Outages, NEW keepsTime, NEW mounts, NEW written,
             Boot(outage, keepsTime, mounts, written)
      PROVE  Recorded' = <<>>
  <2>1. count' = 0
    BY <1>2 DEF Boot
  <2>2. Recorded' \in Seq(Sample) /\ Len(Recorded') = count'
    BY RecordedThen DEF RecordedForm
  <2> QED BY <2>1, <2>2
<1>3. CASE Synchronise \/ (\E m \in {"off", "plain", "accel"} : SetMode(m)) \/ Reader
           \/ UNCHANGED vars
  <2>1. UNCHANGED buffer
    BY <1>3 DEF Synchronise, SetMode, Reader, StartDownload, DownloadBatch, EndDownload,
       ReadRows, SendChart, vars, buffer
  <2> QED BY <2>1, UntouchedRing
<1> QED BY <1>1, <1>2, <1>3 DEF Next, Buffer!Next, Buffer!Forget

(* storage_ring_copy over head and count shows the last RingSize samples since
   the boot, oldest first: at every fill level, through every wrap. *)
THEOREM RingImplementsRecent == Spec => RingIsRecent
<1>1. Init => RingInv
  BY RingInit
<1>2. RingInv /\ [Next]_vars => RingInv'
  BY RingNext
<1>3. Init /\ RingInv => Buffer!Init
  BY EmptyRing DEF Init, Buffer!Init
<1>4. RingInv /\ RingInv' /\ [Next]_vars => [Buffer!Next]_Recorded
  BY StepImplements
<1> QED BY <1>1, <1>2, <1>3, <1>4, PTL DEF Spec, RingIsRecent, Buffer!Spec
=============================================================================
