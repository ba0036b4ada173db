--------------------------- MODULE Download_proofs ---------------------------
(***************************************************************************)
(* Proof that a download interrupted by the control task is in order and   *)
(* misses no more than was recorded meanwhile, for every size of the ring  *)
(* and of a batch.                                                         *)
(***************************************************************************)
EXTENDS SampleStore_proofs, FiniteSetTheorems

-----------------------------------------------------------------------------
(* What one step does to the samples that can be read *)

LEMMA PushIs ==
  ASSUME RingInv, RingInv', NEW s \in Sample, NEW written, Record(s, written)
  PROVE  \/ /\ count < RingSize /\ count' = count + 1
            /\ Recorded' = Append(Recorded, s)
         \/ /\ count = RingSize /\ count' = count
            /\ Shifted(Recorded', Recorded, s)
<1>0. /\ ring' = [ring EXCEPT ![head] = s] /\ head' = (head + 1) % RingSize
      /\ count' = CountUp(count) /\ count \in 0 .. RingSize /\ RingSize \in Nat
  BY SizeType DEF Record, RingInv
<1>1. CASE count < RingSize
  <2>1. count' = count + 1
    BY <1>0, <1>1 DEF CountUp
  <2> QED BY <1>0, <1>1, <2>1, PushWithRoom
<1>2. CASE count = RingSize
  <2>1. count' = count
    BY <1>0, <1>2 DEF CountUp
  <2> QED BY <1>0, <1>2, <2>1, PushWhenFull
<1> QED BY <1>0, <1>1, <1>2

LEMMA CountNat == ASSUME RingInv PROVE count \in Nat
BY SizeType DEF RingInv

(* The same, sample by sample: what was there moves down by at most one place,
   and s is the last. *)
LEMMA PushMoves ==
  ASSUME RingInv, RingInv', NEW s \in Sample, NEW written, Record(s, written)
  PROVE  \E d \in {0, 1} :
           /\ count' = count + 1 - d /\ count' >= 1
           /\ \A i \in 1 .. count' - 1 : i + d \in 1 .. count /\ Recorded'[i] = Recorded[i + d]
           /\ Recorded'[count'] = s
<1>1. /\ Recorded \in Seq(Sample) /\ Len(Recorded) = count /\ count \in 0 .. RingSize
      /\ RingSize \in Nat /\ RingSize > 0
  BY RecordedIs, SizeType DEF RecordedForm, RingInv
<1>2. CASE count < RingSize /\ count' = count + 1 /\ Recorded' = Append(Recorded, s)
  <2>1. /\ \A i \in 1 .. count : Recorded'[i] = Recorded[i + 0]
        /\ Recorded'[count + 1] = s
    BY <1>1, <1>2
  <2> WITNESS 0 \in {0, 1}
  <2> QED BY <1>1, <1>2, <2>1
<1>3. CASE count = RingSize /\ count' = count /\ Shifted(Recorded', Recorded, s)
  <2>1. /\ \A i \in 1 .. RingSize - 1 : Recorded'[i] = Recorded[i + 1]
        /\ Recorded'[RingSize] = s
    BY <1>1, <1>3 DEF Shifted
  <2> WITNESS 1 \in {0, 1}
  <2> QED BY <1>1, <1>3, <2>1
<1> QED BY <1>2, <1>3, PushIs

(* A batch is a stretch of what can be read. *)
LEMMA CopyIs ==
  ASSUME RingInv, NEW p \in Nat, NEW n \in Nat, p < count
  PROVE  LET r == RingCopy(p, n)
             len == IF n > count - p THEN count - p ELSE n IN
         /\ r \in Seq(Sample) /\ Len(r) = len
         /\ \A i \in 1 .. len : p + i \in 1 .. count /\ r[i] = Recorded[p + i]
<1> DEFINE len == IF n > count - p THEN count - p ELSE n
           r == RingCopy(p, n)
<1>1. /\ count \in 0 .. RingSize /\ head \in 0 .. RingSize - 1 /\ RingSize \in Nat
      /\ RingSize > 0 /\ len \in Nat /\ p + len <= count
      /\ ring \in [0 .. RingSize - 1 -> Sample]
  BY SizeType DEF RingInv
<1>2. r = [i \in 1 .. len |-> ring[(RingBase(p) + i - 1) % RingSize]]
  BY <1>1 DEF RingCopy
<1>3. ASSUME NEW i \in 1 .. len
      PROVE  r[i] = Recorded[p + i] /\ p + i \in 1 .. count /\ Recorded[p + i] \in Sample
  <2>1. p + i \in 1 .. count
    BY <1>1
  <2>2. r[i] = ring[(RingBase(p) + i - 1) % RingSize]
    BY <1>2
  <2>3. CASE count < RingSize
    <3>1. RingBase(p) = p /\ (p + i - 1) % RingSize = p + i - 1
      BY <1>1, <2>1, <2>3, Around DEF RingBase
    <3> QED BY <2>1, <2>2, <2>3, <3>1, RecordedIs DEF RecordedForm
  <2>4. CASE count = RingSize
    <3>1. RingBase(p) = (head + p) % RingSize
      BY <1>1, <2>4 DEF RingBase
    <3>2. (((head + p) % RingSize) + i - 1) % RingSize = (head + p + i - 1) % RingSize
      BY <1>1, <2>1, Around
    <3>3. Recorded[p + i] = ring[(head + (p + i) - 1) % RingSize]
      BY <2>1, <2>4, RecordedIs DEF RecordedForm
    <3>4. head + (p + i) - 1 = head + p + i - 1
      BY <1>1
    <3> QED BY <2>1, <2>2, <3>1, <3>2, <3>3, <3>4, RecordedIs DEF RecordedForm
  <2> QED BY <1>1, <2>3, <2>4, <2>1, RecordedIs DEF RecordedForm
<1>4. r \in Seq(Sample) /\ Len(r) = len
  <2> DEFINE g == [i \in 1 .. len |-> ring[(RingBase(p) + i - 1) % RingSize]]
  <2>1. \A i \in 1 .. len : g[i] \in Sample
    BY <1>2, <1>3
  <2>2. g \in Seq(Sample) /\ Len(g) = len
    <3>1. len \in Nat
      BY <1>1
    <3> HIDE DEF len
    <3> QED BY <2>1, <3>1
  <2> QED BY <1>2, <2>2
<1> QED BY <1>3, <1>4

LEMMA JoinIs ==
  ASSUME NEW q \in Seq(Sample), NEW r \in Seq(Sample)
  PROVE  /\ q \o r \in Seq(Sample) /\ Len(q \o r) = Len(q) + Len(r)
         /\ \A j \in 1 .. Len(q) : (q \o r)[j] = q[j]
         /\ \A j \in 1 .. Len(r) : (q \o r)[Len(q) + j] = r[j]
OBVIOUS

-----------------------------------------------------------------------------
(* What has been sent of what was there when the download began *)

Download == [active : {TRUE}, total : Nat, pos : Nat, sent : Seq(Sample), had : Seq(Sample)]

(* k samples have left the ring since; the samples of S, at most sh of them,
   are skipped, and those up to the position of the last batch are sent. *)
Covers(k, sh, S) ==
  /\ k <= since /\ sh <= k
  /\ IsFiniteSet(S) /\ Cardinality(S) <= sh
  /\ \A i \in k + 1 .. download.total :
       i - k \in 1 .. count /\ Recorded[i - k] = download.had[i]
  /\ \A i \in 1 .. download.total : i <= download.pos + sh /\ i \notin S =>
       \E j \in 1 .. Len(download.sent) : download.sent[j] = download.had[i]

DownloadInv ==
  /\ since \in Nat
  /\ download = Absent \/ download \in Download
  /\ download.active =>
       /\ Len(download.had) = download.total /\ download.total <= count
       /\ \E k \in Nat, sh \in Nat, S \in SUBSET (1 .. download.total) : Covers(k, sh, S)

LEMMA ActiveIs ==
  ASSUME DownloadInv
  PROVE  download.active <=> download \in Download
<1>1. Absent.active = FALSE
  BY DEF Absent
<1>2. \A d \in Download : d.active = TRUE
  BY DEF Download
<1> QED BY <1>1, <1>2 DEF DownloadInv

LEMMA CoversStart ==
  ASSUME RingInv, DownloadInv, StartDownload
  PROVE  DownloadInv'
<1>1. /\ Recorded \in Seq(Sample) /\ Len(Recorded) = count /\ count \in Nat
  BY RecordedIs DEF RecordedForm, RingInv
<1>2. /\ download' = [active |-> TRUE, total |-> count, pos |-> 0, sent |-> <<>>, had |-> Recorded]
      /\ since' = 0 /\ count' = count /\ Recorded' = Recorded
  BY UntouchedRing DEF StartDownload, buffer
<1>3. download' \in Download
  BY <1>1, <1>2 DEF Download
<1>4. Covers(0, 0, {})'
  BY <1>1, <1>2, FS_EmptySet DEF Covers
<1>5. /\ download'.total \in Nat /\ {} \in SUBSET (1 .. download'.total)
  BY <1>1, <1>2
<1>6. \E k \in Nat, sh \in Nat, S \in SUBSET (1 .. download'.total) : Covers(k, sh, S)'
  BY <1>4, <1>5
<1> QED BY <1>1, <1>2, <1>3, <1>6 DEF DownloadInv

LEMMA CoversRecord ==
  ASSUME RingInv, RingInv', DownloadInv, NEW s \in Sample, NEW written, Record(s, written),
         download' = download
  PROVE  DownloadInv'
<1>1. since' = IF download.active THEN since + 1 ELSE 0
  BY DEF Record
<1>2. CASE ~download.active
  BY <1>1, <1>2 DEF DownloadInv
<1>3. CASE download.active
  <2>1. download \in Download /\ since \in Nat /\ since' = since + 1
    BY <1>1, <1>3, ActiveIs DEF DownloadInv
  <2>2. PICK d \in {0, 1} :
           /\ count' = count + 1 - d /\ count' >= 1
           /\ \A i \in 1 .. count' - 1 : i + d \in 1 .. count /\ Recorded'[i] = Recorded[i + d]
    BY PushMoves
  <2>3. PICK k \in Nat, sh \in Nat, S \in SUBSET (1 .. download.total) : Covers(k, sh, S)
    BY <1>3 DEF DownloadInv
  <2>4. ASSUME NEW i \in k + d + 1 .. download.total
        PROVE  i - (k + d) \in 1 .. count' /\ Recorded'[i - (k + d)] = download.had[i]
    <3>1. i \in k + 1 .. download.total /\ i - k \in Nat /\ i - (k + d) \in Nat
      BY <2>1 DEF Download
    <3>2. i - k \in 1 .. count /\ Recorded[i - k] = download.had[i]
      BY <2>3, <3>1 DEF Covers
    <3>3. i - (k + d) \in 1 .. count' - 1
      BY <2>2, <2>4, <3>1, <3>2, CountNat
    <3>4. (i - (k + d)) + d = i - k
      BY <3>1
    <3> QED BY <2>2, <3>2, <3>3, <3>4, CountNat
  <2>5. Covers(k + d, sh, S)'
    BY <2>1, <2>3, <2>4 DEF Covers
  <2>6. Len(download.had) = download.total /\ download.total <= count /\ count' >= count
    BY <1>3, <2>2, CountNat DEF DownloadInv
  <2>7. download.total <= count'
    BY <2>1, <2>2, <2>6, CountNat DEF Download
  <2>8. k + d \in Nat
    OBVIOUS
  <2> QED BY <2>1, <2>3, <2>5, <2>6, <2>7, <2>8 DEF DownloadInv
<1> QED BY <1>2, <1>3

LEMMA PlaceInBatch ==
  ASSUME NEW i \in Nat, NEW k \in Nat, NEW p \in Nat, NEW c \in Nat, NEW b \in Nat,
         i > p + k, i - k <= c, i <= p + b + k
  PROVE  /\ i - k - p \in 1 .. (IF b > c - p THEN c - p ELSE b)
         /\ p + (i - k - p) = i - k
OBVIOUS

LEMMA CoversBatch ==
  ASSUME RingInv, DownloadInv, DownloadBatch
  PROVE  DownloadInv'
<1>1. /\ download \in Download /\ download.pos < download.total
      /\ download' = [download EXCEPT !.pos = download.pos + Batch,
                                      !.sent = download.sent \o RingCopy(download.pos, Batch)]
      /\ since' = since /\ count' = count /\ Recorded' = Recorded
      /\ Batch \in Nat /\ Batch > 0 /\ since \in Nat
  BY ActiveIs, UntouchedRing, StoreAssumption DEF DownloadBatch, NextPosition, buffer, DownloadInv
<1> DEFINE p == download.pos
           q == download.sent
           r == RingCopy(p, Batch)
           total == download.total
           had == download.had
           len == IF Batch > count - p THEN count - p ELSE Batch
<1>2. /\ p \in Nat /\ total \in Nat /\ q \in Seq(Sample) /\ had \in Seq(Sample)
      /\ Len(had) = total /\ total <= count /\ p < total /\ count \in Nat
  BY <1>1, CountNat DEF Download, DownloadInv, Absent
<1>3. /\ r \in Seq(Sample) /\ Len(r) = len
      /\ \A i \in 1 .. len : r[i] = Recorded[p + i]
  <2>1. p < count
    BY <1>2
  <2> QED BY <1>1, <1>2, <2>1, CopyIs
<1>4. /\ download' \in Download /\ download'.pos = p + Batch /\ download'.sent = q \o r
      /\ download'.total = total /\ download'.had = had /\ download'.active = TRUE
  <2>1. q \o r \in Seq(Sample) /\ p + Batch \in Nat
    BY <1>1, <1>2, <1>3, JoinIs
  <2> DEFINE s == q \o r
  <2> HIDE DEF p, q, r, s
  <2>2. /\ [download EXCEPT !.pos = p + Batch, !.sent = s] \in Download
        /\ [download EXCEPT !.pos = p + Batch, !.sent = s].pos = p + Batch
        /\ [download EXCEPT !.pos = p + Batch, !.sent = s].sent = s
        /\ [download EXCEPT !.pos = p + Batch, !.sent = s].total = download.total
        /\ [download EXCEPT !.pos = p + Batch, !.sent = s].had = download.had
        /\ [download EXCEPT !.pos = p + Batch, !.sent = s].active = TRUE
    <3>1. s \in Seq(Sample) /\ p + Batch \in Nat
      BY <2>1 DEF s
    <3> QED BY <1>1, <3>1 DEF Download
  <2> QED BY <1>1, <2>2 DEF p, q, r, s
<1>5. PICK k \in Nat, sh \in Nat, S \in SUBSET (1 .. total) : Covers(k, sh, S)
  BY <1>1, ActiveIs DEF DownloadInv
<1>6. /\ k <= since /\ sh <= k /\ IsFiniteSet(S) /\ Cardinality(S) <= sh
      /\ \A i \in k + 1 .. total : i - k \in 1 .. count /\ Recorded[i - k] = had[i]
      /\ \A i \in 1 .. total : i <= p + sh /\ i \notin S => \E j \in 1 .. Len(q) : q[j] = had[i]
  BY <1>5 DEF Covers
<1> DEFINE Gap == p + sh + 1 .. p + k
<1> HIDE DEF q, r, total, had, len
<1>a. PICK T \in SUBSET (1 .. total) : T = (S \cup Gap) \cap (1 .. total)
  OBVIOUS
<1> HIDE DEF p
<1>7. IsFiniteSet(T) /\ Cardinality(T) <= k
  <2>1. IsFiniteSet(Gap) /\ Cardinality(Gap) = k - sh
    <3>1. p + sh + 1 \in Int /\ p + k \in Int
      BY <1>2
    <3>2. /\ IsFiniteSet(p + sh + 1 .. p + k)
          /\ Cardinality(p + sh + 1 .. p + k)
               = IF p + sh + 1 > p + k THEN 0 ELSE (p + k) - (p + sh + 1) + 1
      BY <3>1, FS_Interval, Zenon
    <3> QED BY <1>2, <1>6, <3>2
  <2>2. IsFiniteSet(S \cap Gap) /\ Cardinality(S \cap Gap) \in Nat
    BY <1>6, FS_Subset, FS_CardinalityType
  <2>3. /\ IsFiniteSet(S \cup Gap)
        /\ Cardinality(S \cup Gap) = Cardinality(S) + Cardinality(Gap) - Cardinality(S \cap Gap)
    BY <1>6, <2>1, FS_Union
  <2>4. Cardinality(S) \in Nat
    BY <1>6, FS_CardinalityType
  <2>5. Cardinality(S \cup Gap) <= k /\ Cardinality(S \cup Gap) \in Nat
    BY <1>5, <1>6, <2>1, <2>2, <2>3, <2>4, FS_CardinalityType
  <2>6. IsFiniteSet(T) /\ Cardinality(T) <= Cardinality(S \cup Gap) /\ Cardinality(T) \in Nat
    BY <1>a, <2>3, FS_Subset, FS_CardinalityType
  <2> QED BY <2>5, <2>6
<1>8. ASSUME NEW i \in 1 .. total, i <= p + Batch + k, i \notin T
      PROVE  \E j \in 1 .. Len(q \o r) : (q \o r)[j] = had[i]
  <2>1. /\ Len(q \o r) = Len(q) + Len(r) /\ Len(q) \in Nat /\ Len(r) = len /\ len \in Nat
        /\ \A j \in 1 .. Len(q) : (q \o r)[j] = q[j]
        /\ \A j \in 1 .. Len(r) : (q \o r)[Len(q) + j] = r[j]
    <3>1. q \in Seq(Sample) /\ r \in Seq(Sample) /\ Len(r) = len /\ Len(r) \in Nat
      BY <1>2, <1>3
    <3>2. /\ Len(q \o r) = Len(q) + Len(r)
          /\ \A j \in 1 .. Len(q) : (q \o r)[j] = q[j]
          /\ \A j \in 1 .. Len(r) : (q \o r)[Len(q) + j] = r[j]
      BY <3>1, JoinIs
    <3>3. Len(q) \in Nat
      BY <3>1
    <3> QED BY <3>1, <3>2, <3>3
  <2>2. CASE i <= p + sh
    <3>1. PICK j \in 1 .. Len(q) : q[j] = had[i]
      BY <1>6, <1>8, <1>a, <2>2
    <3> QED BY <2>1, <3>1
  <2>3. CASE i > p + k
    <3>1. i - k \in 1 .. count /\ Recorded[i - k] = had[i]
      <4>1. i \in k + 1 .. total
        BY <1>2, <2>3
      <4> QED BY <1>6, <4>1
    <3>2. i - k - p \in 1 .. len /\ p + (i - k - p) = i - k
      <4>1. /\ i \in Nat /\ p \in Nat /\ count \in Nat /\ Batch \in Nat
            /\ i - k <= count /\ i <= p + Batch + k
        BY <1>1, <1>2, <1>8, <3>1
      <4> HIDE DEF Gap
      <4> QED BY <2>3, <4>1, PlaceInBatch DEF len
    <3>3. r[i - k - p] = had[i]
      BY <1>3, <3>1, <3>2
    <3>4. Len(q) + (i - k - p) \in 1 .. Len(q \o r) /\ (q \o r)[Len(q) + (i - k - p)] = had[i]
      BY <2>1, <3>2, <3>3
    <3> QED BY <3>4
  <2>4. i <= p + sh \/ i > p + k
    BY <1>2, <1>5, <1>6, <1>8, <1>a
  <2> QED BY <2>2, <2>3, <2>4
<1>9. Covers(k, k, T)'
  <2>1. k <= since' /\ k <= k /\ IsFiniteSet(T) /\ Cardinality(T) <= k
    BY <1>1, <1>6, <1>7
  <2>2. \A i \in k + 1 .. download'.total :
          i - k \in 1 .. count' /\ Recorded'[i - k] = download'.had[i]
    BY <1>1, <1>4, <1>6
  <2>3. \A i \in 1 .. download'.total : i <= download'.pos + k /\ i \notin T =>
          \E j \in 1 .. Len(download'.sent) : download'.sent[j] = download'.had[i]
    <3>1. ASSUME NEW i \in 1 .. total, i <= p + Batch + k, i \notin T
          PROVE  \E j \in 1 .. Len(q \o r) : (q \o r)[j] = had[i]
      BY <1>8, <3>1
    <3>2. download'.total = total /\ download'.had = had /\ download'.pos = p + Batch
          /\ download'.sent = q \o r
      BY <1>4
    <3> QED BY <3>1, <3>2
  <2> QED BY <2>1, <2>2, <2>3 DEF Covers
<1> QED BY <1>1, <1>2, <1>4, <1>9 DEF DownloadInv

LEMMA SameDownload ==
  ASSUME DownloadInv, UNCHANGED buffer, since' = since, download' = download
  PROVE  DownloadInv'
<1>1. count' = count /\ Recorded' = Recorded
  BY UntouchedRing DEF buffer
<1>2. CASE download.active
  <2>1. PICK k \in Nat, sh \in Nat, S \in SUBSET (1 .. download.total) : Covers(k, sh, S)
    BY <1>2 DEF DownloadInv
  <2>2. Covers(k, sh, S)'
    BY <1>1, <2>1 DEF Covers
  <2> QED BY <1>1, <1>2, <2>2 DEF DownloadInv
<1>3. CASE ~download.active
  BY <1>3 DEF DownloadInv
<1> QED BY <1>2, <1>3

LEMMA DownloadNext == RingInv /\ RingInv' /\ DownloadInv /\ [Next]_vars => DownloadInv'
<1> SUFFICES ASSUME RingInv, RingInv', DownloadInv, [Next]_vars PROVE DownloadInv'
  OBVIOUS
<1>1. ASSUME NEW kind \in Kinds, NEW written \in BOOLEAN,
             NEW answers \in BOOLEAN, Minute(kind, written, answers)
      PROVE  DownloadInv'
  <2>1. /\ download' = download
        /\ \/ Record([ts |-> virtual', known |-> kind.known, heat |-> kind.heat], written)
           \/ UNCHANGED buffer /\ since' = since
    BY <1>1 DEF Minute, readers
  <2>2. CASE UNCHANGED buffer /\ since' = since
    BY <2>1, <2>2, SameDownload
  <2> QED BY <1>1, <2>1, <2>2, MinuteStamps, CoversRecord
<1>2. ASSUME NEW outage \in Outages, NEW keepsTime, NEW mounts, NEW written,
             Boot(outage, keepsTime, mounts, written)
      PROVE  DownloadInv'
  BY <1>2 DEF Boot, DownloadInv, Absent
<1>3. CASE EndDownload
  BY <1>3 DEF EndDownload, DownloadInv, Absent
<1>4. CASE Synchronise \/ (\E m \in {"off", "plain", "accel"} : SetMode(m)) \/ ReadRows
           \/ SendChart \/ UNCHANGED vars
  <2>1. UNCHANGED buffer /\ since' = since /\ download' = download
    BY <1>4 DEF Synchronise, SetMode, ReadRows, SendChart, vars, buffer, readers
  <2> QED BY <2>1, SameDownload
<1> QED BY <1>1, <1>2, <1>3, <1>4, CoversStart, CoversBatch DEF Next, Reader

-----------------------------------------------------------------------------
(* The order of the time stamps *)

(* Without accelerated minutes the clock goes up, and so do the samples in the
   ring, those sent, and from those sent to those yet to be sent. *)
SentInOrder ==
  /\ \A j \in 1 .. Len(download.sent) : download.sent[j].ts <= virtual
  /\ \A i, j \in 1 .. Len(download.sent) : i < j => download.sent[i].ts < download.sent[j].ts
  /\ \A j \in 1 .. Len(download.sent), i \in download.pos + 1 .. count :
       download.sent[j].ts < Recorded[i].ts

OrderInv ==
  /\ Epoch <= now
  /\ ~wandered =>
       /\ virtual <= now
       /\ \A i \in 1 .. count : Recorded[i].ts <= virtual
       /\ \A i, j \in 1 .. count : i < j => Recorded[i].ts < Recorded[j].ts
       /\ download.active => SentInOrder

LEMMA EpochType == Epoch \in Nat /\ Epoch > 0
BY StoreAssumption

LEMMA MinuteGoesUp ==
  ASSUME RingInv, OrderInv, NEW kind \in Kinds, NEW written \in BOOLEAN,
             NEW answers \in BOOLEAN, Minute(kind, written, answers)
  PROVE  /\ Epoch <= now'
         /\ ~wandered' => ~wandered /\ virtual < virtual' /\ virtual' <= now'
<1>1. now \in Nat /\ virtual \in Nat /\ Epoch <= now /\ Epoch \in Nat
  BY EpochType DEF RingInv, OrderInv
<1>2. Epoch <= now'
  BY <1>1 DEF Minute
<1>3. ASSUME ~wandered' PROVE ~wandered /\ virtual < virtual' /\ virtual' <= now'
  <2>1. ~wandered /\ mode # "accel" /\ now' = now + 1 /\ virtual' = VirtualAfter(now')
    BY <1>3 DEF Minute
  <2>2. virtual <= now
    BY <2>1 DEF OrderInv
  <2> QED BY <1>1, <2>1, <2>2 DEF VirtualAfter
<1> QED BY <1>2, <1>3

LEMMA RecordedTypes ==
  ASSUME RingInv
  PROVE  count \in Nat /\ \A i \in 1 .. count : Recorded[i].ts \in Nat
<1>1. count \in Nat /\ \A i \in 1 .. count : Recorded[i] \in Sample
  BY RecordedIs, CountNat DEF RecordedForm
<1> QED BY <1>1 DEF Sample

LEMMA SentTypes ==
  ASSUME DownloadInv, download.active
  PROVE  /\ download.pos \in Nat /\ Len(download.sent) \in Nat
         /\ \A j \in 1 .. Len(download.sent) : download.sent[j].ts \in Nat
<1>1. /\ download.pos \in Nat /\ Len(download.sent) \in Nat
      /\ \A j \in 1 .. Len(download.sent) : download.sent[j] \in Sample
  BY ActiveIs DEF Download
<1> QED BY <1>1 DEF Sample

LEMMA LastOrBefore ==
  ASSUME NEW n \in Nat, NEW i \in 1 .. n
  PROVE  i = n \/ i \in 1 .. n - 1
OBVIOUS

LEMMA OrderRecord ==
  ASSUME RingInv, RingInv', DownloadInv, OrderInv, NEW s \in Sample, NEW written,
         Record(s, written), s.ts = virtual', download' = download,
         ~wandered, virtual < virtual'
  PROVE  /\ \A i \in 1 .. count' : Recorded'[i].ts <= virtual'
         /\ \A i, j \in 1 .. count' : i < j => Recorded'[i].ts < Recorded'[j].ts
         /\ download'.active => SentInOrder'
<1>1. PICK d \in {0, 1} :
         /\ count' = count + 1 - d /\ count' >= 1
         /\ \A i \in 1 .. count' - 1 : i + d \in 1 .. count /\ Recorded'[i] = Recorded[i + d]
         /\ Recorded'[count'] = s
  BY PushMoves
<1>2. /\ count \in Nat /\ count' \in Nat /\ virtual \in Nat /\ virtual' \in Nat
      /\ \A i \in 1 .. count : Recorded[i].ts \in Nat
  BY <1>1, RecordedTypes DEF RingInv
<1>3. /\ \A i \in 1 .. count : Recorded[i].ts <= virtual
      /\ \A i, j \in 1 .. count : i < j => Recorded[i].ts < Recorded[j].ts
      /\ download.active => SentInOrder
  BY DEF OrderInv
<1>4. ASSUME NEW i \in 1 .. count'
      PROVE  \/ i = count' /\ Recorded'[i].ts = virtual'
             \/ i < count' /\ i + d \in 1 .. count /\ Recorded'[i].ts = Recorded[i + d].ts
  <2>1. i = count' \/ i \in 1 .. count' - 1
    <3>1. count' \in Nat
      BY <1>2
    <3> QED BY <3>1, LastOrBefore
  <2> QED BY <1>1, <1>2, <2>1
<1>5. \A i \in 1 .. count' : Recorded'[i].ts <= virtual'
  BY <1>2, <1>3, <1>4
<1>6. ASSUME NEW i \in 1 .. count', NEW j \in 1 .. count', i < j
      PROVE  Recorded'[i].ts < Recorded'[j].ts
  <2>1. i < count' /\ i + d \in 1 .. count /\ Recorded'[i].ts = Recorded[i + d].ts
    BY <1>2, <1>4, <1>6
  <2>2. CASE j = count' /\ Recorded'[j].ts = virtual'
    BY <1>2, <1>3, <2>1, <2>2
  <2>3. CASE j + d \in 1 .. count /\ Recorded'[j].ts = Recorded[j + d].ts
    <3>1. i + d < j + d
      BY <1>2, <1>6
    <3> QED BY <1>3, <2>1, <2>3, <3>1
  <2> QED BY <1>4, <2>2, <2>3
<1>7. ASSUME download'.active PROVE SentInOrder'
  <2>1. download.active /\ SentInOrder
    BY <1>3, <1>7
  <2>2. /\ download.pos \in Nat /\ Len(download.sent) \in Nat
        /\ \A j \in 1 .. Len(download.sent) :
             download.sent[j].ts \in Nat /\ download.sent[j].ts <= virtual
    BY <2>1, SentTypes DEF SentInOrder
  <2>3. \A j \in 1 .. Len(download.sent) : download.sent[j].ts <= virtual'
    BY <1>2, <2>2
  <2>4. ASSUME NEW j \in 1 .. Len(download.sent), NEW i \in download.pos + 1 .. count'
        PROVE  download.sent[j].ts < Recorded'[i].ts
    <3>1. i \in 1 .. count'
      BY <1>2, <2>2
    <3>2. CASE Recorded'[i].ts = virtual'
      BY <1>2, <2>2, <3>2
    <3>3. CASE i + d \in 1 .. count /\ Recorded'[i].ts = Recorded[i + d].ts
      <4>1. i + d \in download.pos + 1 .. count
        BY <1>2, <2>2, <3>3
      <4> QED BY <2>1, <3>3, <4>1 DEF SentInOrder
    <3> QED BY <1>4, <3>1, <3>2, <3>3
  <2> QED BY <2>1, <2>3, <2>4 DEF SentInOrder
<1> QED BY <1>5, <1>6, <1>7

LEMMA OrderBatch ==
  ASSUME RingInv, DownloadInv, OrderInv, DownloadBatch, ~wandered
  PROVE  SentInOrder'
<1> DEFINE p == download.pos
           q == download.sent
           r == RingCopy(p, Batch)
           len == IF Batch > count - p THEN count - p ELSE Batch
<1>1. /\ download.active /\ download \in Download /\ p < download.total
      /\ download.total <= count /\ Batch \in Nat /\ Batch > 0
      /\ count' = count /\ Recorded' = Recorded /\ virtual' = virtual
  BY ActiveIs, UntouchedRing, StoreAssumption DEF DownloadBatch, buffer, clock, DownloadInv
<1>2. /\ p \in Nat /\ q \in Seq(Sample) /\ p < count /\ count \in Nat
      /\ download.total \in Nat
  BY <1>1, CountNat DEF Download
<1>3. /\ r \in Seq(Sample) /\ Len(r) = len
      /\ \A i \in 1 .. len : p + i \in 1 .. count /\ r[i] = Recorded[p + i]
  BY <1>1, <1>2, CopyIs
<1>4. download'.pos = p + Batch /\ download'.sent = q \o r
  BY <1>1 DEF DownloadBatch, NextPosition, Download
<1>5. /\ \A i \in 1 .. count : Recorded[i].ts \in Nat /\ Recorded[i].ts <= virtual
      /\ \A i, j \in 1 .. count : i < j => Recorded[i].ts < Recorded[j].ts
      /\ SentInOrder /\ virtual \in Nat
      /\ \A j \in 1 .. Len(q) : q[j].ts \in Nat
  BY <1>1, RecordedTypes, SentTypes DEF OrderInv, RingInv
<1>6. /\ \A j \in 1 .. Len(q) : q[j].ts <= virtual
      /\ \A i, j \in 1 .. Len(q) : i < j => q[i].ts < q[j].ts
      /\ \A j \in 1 .. Len(q), i \in p + 1 .. count : q[j].ts < Recorded[i].ts
  BY <1>5 DEF SentInOrder
<1>7. /\ Len(q \o r) = Len(q) + Len(r) /\ Len(q) \in Nat /\ Len(r) \in Nat
      /\ \A j \in 1 .. Len(q) : (q \o r)[j] = q[j]
      /\ \A j \in 1 .. Len(r) : (q \o r)[Len(q) + j] = r[j]
  <2> HIDE DEF p, q, r
  <2>1. q \in Seq(Sample) /\ r \in Seq(Sample)
    BY <1>2, <1>3
  <2>2. /\ Len(q \o r) = Len(q) + Len(r)
        /\ \A j \in 1 .. Len(q) : (q \o r)[j] = q[j]
        /\ \A j \in 1 .. Len(r) : (q \o r)[Len(q) + j] = r[j]
    BY <2>1, JoinIs
  <2>3. Len(q) \in Nat /\ Len(r) \in Nat
    BY <2>1
  <2> QED BY <2>2, <2>3
<1> HIDE DEF p, q, r
(* An element of the new sequence is an old one, or the sample in a place of
   the ring. *)
<1>8. ASSUME NEW j \in 1 .. Len(q \o r)
      PROVE  \/ j \in 1 .. Len(q) /\ (q \o r)[j] = q[j]
             \/ /\ j > Len(q) /\ p + (j - Len(q)) \in p + 1 .. count
                /\ j - Len(q) \in 1 .. len
                /\ (q \o r)[j] = Recorded[p + (j - Len(q))]
  <2>1. CASE j <= Len(q)
    BY <1>7, <2>1
  <2>2. CASE j > Len(q)
    <3>1. j - Len(q) \in 1 .. Len(r) /\ Len(q) + (j - Len(q)) = j
      BY <1>7, <2>2
    <3>2. (q \o r)[j] = r[j - Len(q)]
      BY <1>7, <3>1
    <3>3. p + (j - Len(q)) \in 1 .. count /\ r[j - Len(q)] = Recorded[p + (j - Len(q))]
      BY <1>3, <3>1
    <3> HIDE DEF len
    <3>4. p + (j - Len(q)) \in p + 1 .. count
      BY <1>2, <1>7, <3>1, <3>3
    <3> QED BY <1>3, <2>2, <3>1, <3>2, <3>3, <3>4
  <2> QED BY <1>7, <2>1, <2>2
<1>9. \A i \in p + 1 .. count : i \in 1 .. count
  BY <1>2
<1>10. \A j \in 1 .. Len(q \o r) : (q \o r)[j].ts <= virtual
  BY <1>5, <1>6, <1>8, <1>9
<1>11. ASSUME NEW i \in 1 .. Len(q \o r), NEW j \in 1 .. Len(q \o r), i < j
       PROVE  (q \o r)[i].ts < (q \o r)[j].ts
  <2>1. CASE j <= Len(q)
    <3>1. i \in 1 .. Len(q) /\ j \in 1 .. Len(q)
      BY <1>7, <1>11, <2>1
    <3> QED BY <1>6, <1>7, <1>11, <3>1
  <2>2. CASE i <= Len(q) /\ j > Len(q)
    <3>1. i \in 1 .. Len(q) /\ (q \o r)[i] = q[i]
      BY <1>7, <2>2
    <3>2. /\ p + (j - Len(q)) \in p + 1 .. count
          /\ (q \o r)[j] = Recorded[p + (j - Len(q))]
      BY <1>7, <1>8, <2>2
    <3> QED BY <1>6, <3>1, <3>2
  <2>3. CASE i > Len(q)
    <3>1. /\ p + (i - Len(q)) \in p + 1 .. count
          /\ (q \o r)[i] = Recorded[p + (i - Len(q))]
      BY <1>7, <1>8, <2>3
    <3>2. /\ p + (j - Len(q)) \in p + 1 .. count
          /\ (q \o r)[j] = Recorded[p + (j - Len(q))]
      BY <1>7, <1>8, <1>11, <2>3
    <3>3. p + (i - Len(q)) < p + (j - Len(q))
      BY <1>2, <1>7, <1>11
    <3> QED BY <1>5, <1>9, <3>1, <3>2, <3>3
  <2> QED BY <1>7, <1>11, <2>1, <2>2, <2>3
<1>12. ASSUME NEW j \in 1 .. Len(q \o r), NEW i \in p + Batch + 1 .. count
       PROVE  (q \o r)[j].ts < Recorded[i].ts
  <2>1. i \in p + 1 .. count /\ i \in 1 .. count
    BY <1>1, <1>2
  <2>2. CASE j \in 1 .. Len(q) /\ (q \o r)[j] = q[j]
    BY <1>6, <2>1, <2>2
  <2>3. CASE /\ p + (j - Len(q)) \in p + 1 .. count /\ j - Len(q) \in 1 .. len
             /\ (q \o r)[j] = Recorded[p + (j - Len(q))]
    <3>1. p + (j - Len(q)) < i
      BY <1>1, <1>2, <1>7, <2>3
    <3> QED BY <1>5, <1>9, <2>1, <2>3, <3>1
  <2> QED BY <1>8, <2>2, <2>3
<1> QED BY <1>1, <1>4, <1>10, <1>11, <1>12 DEF SentInOrder

LEMMA OrderNext ==
  RingInv /\ RingInv' /\ DownloadInv /\ OrderInv /\ [Next]_vars => OrderInv'
<1> SUFFICES ASSUME RingInv, RingInv', DownloadInv, OrderInv, [Next]_vars PROVE OrderInv'
  OBVIOUS
<1>1. ASSUME NEW kind \in Kinds, NEW written \in BOOLEAN,
             NEW answers \in BOOLEAN, Minute(kind, written, answers)
      PROVE  OrderInv'
  <2> DEFINE s == [ts |-> virtual', known |-> kind.known, heat |-> kind.heat]
  <2>1. /\ download' = download
        /\ Record(s, written) \/ UNCHANGED buffer
        /\ s \in Sample /\ s.ts = virtual' /\ virtual' \in Nat
    BY <1>1, MinuteStamps DEF Minute, readers
  <2>2. /\ Epoch <= now'
        /\ ~wandered' => ~wandered /\ virtual < virtual' /\ virtual' <= now'
    BY <1>1, MinuteGoesUp
  <2> HIDE DEF s
  <2>3. CASE Record(s, written)
    <3>1. CASE ~wandered'
      <4>1. /\ s \in Sample /\ s.ts = virtual' /\ download' = download
            /\ ~wandered /\ virtual < virtual'
        BY <2>1, <2>2, <3>1
      <4>2. /\ \A i \in 1 .. count' : Recorded'[i].ts <= virtual'
            /\ \A i, j \in 1 .. count' : i < j => Recorded'[i].ts < Recorded'[j].ts
            /\ download'.active => SentInOrder'
        BY <2>3, <4>1, OrderRecord
      <4> QED BY <2>2, <3>1, <4>2 DEF OrderInv
    <3>2. CASE wandered'
      BY <2>2, <3>2 DEF OrderInv
    <3> QED BY <3>1, <3>2
  <2>4. CASE UNCHANGED buffer
    <3>1. count' = count /\ Recorded' = Recorded
      BY <2>4, UntouchedRing DEF buffer
    <3>2. ASSUME ~wandered' PROVE OrderInv'
      <4>1. ~wandered /\ virtual < virtual' /\ virtual \in Nat
        BY <2>2, <3>2 DEF RingInv
      <4>2. \A i \in 1 .. count : Recorded[i].ts <= virtual'
        BY <2>1, <4>1, RecordedTypes DEF OrderInv
      <4>3. ASSUME download.active PROVE SentInOrder'
        <5>1. /\ SentInOrder /\ virtual' \in Nat
              /\ \A j \in 1 .. Len(download.sent) : download.sent[j].ts \in Nat
          BY <2>1, <4>1, <4>3, SentTypes DEF OrderInv
        <5>2. \A j \in 1 .. Len(download.sent) : download.sent[j].ts <= virtual'
          BY <4>1, <5>1 DEF SentInOrder
        <5> QED BY <2>1, <3>1, <5>1, <5>2 DEF SentInOrder
      <4>4. \A i, j \in 1 .. count : i < j => Recorded[i].ts < Recorded[j].ts
        BY <4>1 DEF OrderInv
      <4> QED BY <2>1, <2>2, <3>1, <3>2, <4>2, <4>3, <4>4 DEF OrderInv
    <3> QED BY <2>2, <3>2 DEF OrderInv
  <2> QED BY <2>1, <2>3, <2>4
<1>2. ASSUME NEW outage \in Outages, NEW keepsTime, NEW mounts, NEW written,
             Boot(outage, keepsTime, mounts, written)
      PROVE  OrderInv'
  <2>1. /\ count' = 0 /\ virtual' = 0 /\ now' = now + outage /\ outage \in Nat
        /\ download' = Absent /\ now \in Nat
    BY <1>2, StoreAssumption DEF Boot, RingInv
  <2> QED BY <2>1, EpochType DEF OrderInv, Absent
<1>3. CASE StartDownload
  <2>1. /\ download'.sent = <<>> /\ wandered' = wandered /\ now' = now /\ virtual' = virtual
        /\ count' = count /\ Recorded' = Recorded
    BY <1>3, UntouchedRing DEF StartDownload, clock, buffer
  <2> QED BY <2>1 DEF OrderInv, SentInOrder
<1>4. CASE DownloadBatch
  <2>1. /\ wandered' = wandered /\ now' = now /\ virtual' = virtual
        /\ count' = count /\ Recorded' = Recorded
    BY <1>4, UntouchedRing DEF DownloadBatch, clock, buffer
  <2> QED BY <1>4, <2>1, OrderBatch DEF OrderInv
<1>5. CASE \/ EndDownload \/ Synchronise \/ (\E m \in {"off", "plain", "accel"} : SetMode(m))
           \/ ReadRows \/ SendChart \/ UNCHANGED vars
  <2>1. /\ download' = download \/ download' = Absent
        /\ wandered' = wandered /\ now' = now /\ virtual' = virtual /\ UNCHANGED buffer
    BY <1>5 DEF EndDownload, Synchronise, SetMode, ReadRows, SendChart, vars, buffer, readers,
       clock
  <2>2. count' = count /\ Recorded' = Recorded
    BY <2>1, UntouchedRing DEF buffer
  <2> QED BY <2>1, <2>2 DEF OrderInv, SentInOrder, Absent
<1> QED BY <1>1, <1>2, <1>3, <1>4, <1>5 DEF Next, Reader

-----------------------------------------------------------------------------
LEMMA InOrderIsOrdered ==
  ASSUME RingInv, DownloadInv, OrderInv
  PROVE  DownloadOrdered
<1> SUFFICES ASSUME download.active, ~wandered PROVE DownloadOrdered
  BY DEF DownloadOrdered
<1> DEFINE total == download.total
           due == IF download.pos < total THEN download.pos ELSE total
           sent == download.sent
           got == {i \in 1 .. due : \E j \in DOMAIN sent : sent[j] = download.had[i]}
<1>1. /\ download \in Download /\ total \in Nat /\ download.pos \in Nat /\ due \in Nat
      /\ sent \in Seq(Sample) /\ DOMAIN sent = 1 .. Len(sent) /\ since \in Nat
  <2>1. download \in Download /\ since \in Nat
    BY ActiveIs DEF DownloadInv
  <2>2. /\ download.total \in Nat /\ download.pos \in Nat
        /\ download.sent \in Seq(Sample)
    BY <2>1 DEF Download
  <2> QED BY <2>1, <2>2
<1>2. StrictlyUp(Times(sent))
  <2>1. DOMAIN Times(sent) = 1 .. Len(sent) /\ \A i \in 1 .. Len(sent) : Times(sent)[i] = sent[i].ts
    BY <1>1 DEF Times
  <2>2. \A i, j \in 1 .. Len(sent) : i < j => sent[i].ts < sent[j].ts
    BY DEF OrderInv, SentInOrder
  <2> QED BY <2>1, <2>2 DEF StrictlyUp
<1>3. PICK k \in Nat, sh \in Nat, S \in SUBSET (1 .. total) : Covers(k, sh, S)
  BY DEF DownloadInv
<1>4. /\ k <= since /\ sh <= k /\ IsFiniteSet(S) /\ Cardinality(S) <= sh
      /\ \A i \in 1 .. total : i <= download.pos + sh /\ i \notin S =>
           \E j \in 1 .. Len(sent) : sent[j] = download.had[i]
  BY <1>3 DEF Covers
<1>5. 1 .. due \subseteq got \cup S
  <2> SUFFICES ASSUME NEW i \in 1 .. due, i \notin S PROVE i \in got
    OBVIOUS
  <2>1. i \in 1 .. total /\ i <= download.pos + sh
    BY <1>1
  <2> QED BY <1>1, <1>4, <2>1
<1>6. due - Cardinality(got) <= since
  <2>1. IsFiniteSet(1 .. due) /\ Cardinality(1 .. due) = due
    <3> HIDE DEF due
    <3>1. 1 \in Int /\ due \in Int /\ due \in Nat
      BY <1>1
    <3>2. IsFiniteSet(1 .. due) /\ Cardinality(1 .. due) = IF 1 > due THEN 0 ELSE due - 1 + 1
      BY <3>1, FS_Interval, Zenon
    <3> QED BY <3>1, <3>2
  <2>2. IsFiniteSet(got) /\ Cardinality(got) \in Nat
    BY <2>1, FS_Subset, FS_CardinalityType
  <2>3. Cardinality(S) \in Nat
    BY <1>4, FS_CardinalityType
  <2>4. IsFiniteSet(got \cap S) /\ Cardinality(got \cap S) \in Nat
    BY <1>4, FS_Subset, FS_CardinalityType
  <2>5. /\ IsFiniteSet(got \cup S)
        /\ Cardinality(got \cup S) = Cardinality(got) + Cardinality(S) - Cardinality(got \cap S)
    BY <1>4, <2>2, FS_Union
  <2>6. Cardinality(1 .. due) <= Cardinality(got \cup S)
    BY <1>5, <2>5, FS_Subset
  <2> HIDE DEF due, got
  <2> QED BY <1>1, <1>4, <2>1, <2>2, <2>3, <2>4, <2>5, <2>6
<1> QED BY <1>2, <1>6 DEF DownloadOrdered

(* h_samples streams by position while the control task records: what it sends
   is ascending, and of what it set out to send at most as many samples are
   missing as were recorded meanwhile, whatever the sizes of ring and batch. *)
THEOREM DownloadIsOrdered == Spec => []DownloadOrdered
<1> DEFINE Inv == RingInv /\ DownloadInv /\ OrderInv
<1>1. Init => Inv
  <2> SUFFICES ASSUME Init PROVE Inv
    OBVIOUS
  <2>1. /\ download = Absent /\ count = 0 /\ virtual = 0 /\ since = 0 /\ now \in StartTimes
    BY DEF Init
  <2>2. DownloadInv
    BY <2>1 DEF DownloadInv, Absent
  <2>3. OrderInv
    BY <2>1, EpochAssumption, StoreAssumption DEF OrderInv, Absent
  <2> QED BY <2>2, <2>3, RingInit
<1>2. Inv /\ [Next]_vars => Inv'
  BY RingNext, DownloadNext, OrderNext
<1>3. Inv => DownloadOrdered
  BY InOrderIsOrdered
<1> QED BY <1>1, <1>2, <1>3, PTL DEF Spec
=============================================================================
