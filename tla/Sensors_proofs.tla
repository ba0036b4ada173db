---------------------------- MODULE Sensors_proofs ----------------------------
(***************************************************************************)
(* Proofs about Sensors: what control_tick reads is fresh, whatever the     *)
(* sensors, the answers of the line and the handlers do between two polls,  *)
(* for every number of sensors and every length of the moving average.      *)
(***************************************************************************)
EXTENDS Sensors, FiniteSetTheorems, TLAPS

-----------------------------------------------------------------------------
(* Loops *)

(* A set of places has a first one. *)
LEMMA FirstPlace ==
  ASSUME NEW n \in Nat, NEW T \in SUBSET (1 .. n), T # {}
  PROVE  \E f \in T : \A j \in 1 .. f - 1 : j \notin T
<1> DEFINE S == 1 .. n
           C == FiniteSubsetsOf(S)
           U == {1 .. k : k \in T}
           R == StrictSubsetOrdering(S)
<1>1. IsFiniteSet(S)
  <2>1. 1 \in Int /\ n \in Int
    OBVIOUS
  <2>2. IsFiniteSet(1 .. n)
    BY <2>1, FS_Interval, Zenon
  <2> QED BY <2>2
<1>2. C = SUBSET S
  BY <1>1, FS_FiniteSubsetsOfFinite, Zenon
<1>3. IsWellFoundedOn(R, C)
  BY FS_StrictSubsetOrderingWellFounded, Zenon
<1>4. U \subseteq C /\ U # {}
  <2>1. ASSUME NEW k \in T PROVE 1 .. k \in SUBSET S
    OBVIOUS
  <2>2. U \subseteq SUBSET S
    BY <2>1
  <2> HIDE DEF C, S
  <2> QED BY <1>2, <2>2
<1> HIDE DEF R, C, U
<1>5. \E x \in U : \A y \in U : ~(<<y, x>> \in R)
  BY <1>3, <1>4, WFMin, Zenon
<1> USE DEF R, C, U
<1>6. PICK f \in T : \A k \in T : ~(<<1 .. k, 1 .. f>> \in R)
  BY <1>5
<1>7. ASSUME NEW j \in 1 .. f - 1 PROVE j \notin T
  <2>1. j \in Nat /\ f \in Nat /\ j < f /\ f <= n /\ j >= 1
    OBVIOUS
  <2>2. 1 .. j \subseteq 1 .. f /\ f \in 1 .. f /\ f \notin 1 .. j
    BY <2>1
  <2>3. 1 .. j \in SUBSET S /\ 1 .. f \in SUBSET S
    BY <2>1
  <2>4. <<1 .. j, 1 .. f>> \in R
    BY <2>2, <2>3 DEF StrictSubsetOrdering
  <2> QED BY <1>6, <2>4
<1> QED BY <1>7

(* A loop of n steps over the values of D has a run. *)
LoopFrom(f, D, s, n, step) ==
  /\ f \in [0 .. n -> D]
  /\ f[0] = s
  /\ \A i \in 1 .. n : f[i] = step[f[i - 1], i]

LEMMA LoopRuns ==
  ASSUME NEW D, NEW s \in D, NEW n \in Nat, NEW step \in [D \X (1 .. n) -> D]
  PROVE  \E f : LoopFrom(f, D, s, n, step)
<1> DEFINE Run(m) == \E f : LoopFrom(f, D, s, m, step)
           T == {m \in 1 .. n : ~Run(m)}
<1>1. Run(0)
  <2> DEFINE f == [i \in 0 .. 0 |-> s]
  <2>1. LoopFrom(f, D, s, 0, step)
    BY DEF LoopFrom
  <2> QED BY <2>1
<1>2. ASSUME NEW m \in 1 .. n, Run(m - 1) PROVE Run(m)
  <2>1. PICK f : LoopFrom(f, D, s, m - 1, step)
    BY <1>2
  <2>2. /\ f \in [0 .. m - 1 -> D] /\ f[0] = s
        /\ \A i \in 1 .. m - 1 : f[i] = step[f[i - 1], i]
    BY <2>1 DEF LoopFrom
  <2>3. m \in Nat /\ m >= 1 /\ m <= n /\ m - 1 \in 0 .. m - 1 /\ f[m - 1] \in D
    <3>1. m \in Nat /\ m >= 1 /\ m <= n /\ m - 1 \in 0 .. m - 1
      OBVIOUS
    <3> QED BY <2>2, <3>1
  <2> DEFINE d == step[f[m - 1], m]
             g == [i \in 0 .. m |-> IF i < m THEN f[i] ELSE d]
  <2>4. d \in D
    BY <2>3
  <2> HIDE DEF d
  <2>5. g \in [0 .. m -> D]
    <3>1. ASSUME NEW i \in 0 .. m PROVE (IF i < m THEN f[i] ELSE d) \in D
      <4>1. i < m => i \in 0 .. m - 1
        BY <2>3
      <4> QED BY <2>2, <2>4, <4>1
    <3> QED BY <3>1
  <2>6. g[0] = s
    <3>1. 0 \in 0 .. m /\ 0 < m
      BY <2>3
    <3>2. g[0] = f[0]
      BY <3>1
    <3> QED BY <2>2, <3>2
  <2>7. ASSUME NEW i \in 1 .. m PROVE g[i] = step[g[i - 1], i]
    <3>1. g[i - 1] = f[i - 1]
      <4>1. i - 1 \in 0 .. m /\ i - 1 < m
        BY <2>3
      <4> QED BY <4>1
    <3>2. CASE i < m
      <4>1. g[i] = f[i] /\ i \in 1 .. m - 1
        BY <2>3, <3>2
      <4> HIDE DEF g
      <4> QED BY <2>2, <3>1, <4>1
    <3>3. CASE i = m
      <4>1. g[m] = d
        BY <2>3
      <4> HIDE DEF g
      <4> QED BY <3>1, <3>3, <4>1 DEF d
    <3>4. i < m \/ i = m
      BY <2>3
    <3> QED BY <3>2, <3>3, <3>4
  <2> HIDE DEF g
  <2>8. LoopFrom(g, D, s, m, step)
    BY <2>5, <2>6, <2>7 DEF LoopFrom
  <2> QED BY <2>8
<1> HIDE DEF Run
<1>3. T = {}
  <2> SUFFICES ASSUME T # {} PROVE FALSE
    OBVIOUS
  <2>1. T \in SUBSET (1 .. n)
    OBVIOUS
  <2> HIDE DEF T
  <2>2. PICK f \in T : \A j \in 1 .. f - 1 : j \notin T
    BY <2>1, FirstPlace
  <2> USE DEF T
  <2>3. f \in 1 .. n /\ ~Run(f)
    BY <2>2
  <2>4. CASE f = 1
    BY <1>1, <1>2, <2>3, <2>4
  <2>5. CASE f > 1
    <3>1. f - 1 \in 1 .. f - 1 /\ f - 1 \in 1 .. n
      BY <2>3, <2>5
    <3>2. Run(f - 1)
      BY <2>2, <3>1
    <3> QED BY <1>2, <2>3, <3>2
  <2> QED BY <2>3, <2>4, <2>5
<1>4. Run(n)
  BY <1>1, <1>3
<1> QED BY <1>4 DEF Run

(* push_reading adds up integers. *)
LEMMA SumType ==
  ASSUME NEW xs \in Seq(Int)
  PROVE  Sum(xs) \in Int
<1> DEFINE n == Len(xs)
           step == [p \in Int \X (1 .. n) |-> p[1] + xs[p[2]]]
           F == [k \in 0 .. n |-> 0]
           Good(f) == f = [k \in 0 .. n |-> IF k = 0 THEN 0 ELSE f[k - 1] + xs[k]]
<1>1. n \in Nat /\ 0 \in Int /\ step \in [Int \X (1 .. n) -> Int]
  OBVIOUS
<1>2. PICK f : LoopFrom(f, Int, 0, n, step)
  <2> HIDE DEF step, n
  <2> QED BY <1>1, LoopRuns
<1>3. /\ f \in [0 .. n -> Int] /\ f[0] = 0
      /\ \A i \in 1 .. n : f[i] = f[i - 1] + xs[i]
  <2>1. /\ f \in [0 .. n -> Int] /\ f[0] = 0
        /\ \A i \in 1 .. n : f[i] = step[f[i - 1], i]
    BY <1>2 DEF LoopFrom
  <2>2. ASSUME NEW i \in 1 .. n PROVE step[f[i - 1], i] = f[i - 1] + xs[i]
    <3>1. i - 1 \in 0 .. n
      <4>1. n \in Nat
        BY <1>1
      <4> HIDE DEF n
      <4> QED BY <4>1
    <3>2. f[i - 1] \in Int
      BY <2>1, <3>1
    <3> QED BY <3>2
  <2> QED BY <2>1, <2>2
<1>4. Good(f)
  <2>1. \A k \in 0 .. n : f[k] = IF k = 0 THEN 0 ELSE f[k - 1] + xs[k]
    BY <1>1, <1>3
  <2> QED BY <1>3, <2>1
<1> DEFINE c == CHOOSE g : Good(g)
<1>5. Good(c)
  BY <1>4
<1>6. Sum(xs) = c[n]
  BY DEF Sum
<1> HIDE DEF c, step
<1>7. ASSUME NEW k \in 0 .. n PROVE c[k] \in Int
  <2> DEFINE T == {j \in 1 .. n : c[j] \notin Int}
  <2>1. c[0] \in Int
    BY <1>1, <1>5
  <2>2. \A j \in 1 .. n : c[j] = c[j - 1] + xs[j]
    BY <1>1, <1>5
  <2>3. T = {}
    <3> SUFFICES ASSUME T # {} PROVE FALSE
      OBVIOUS
    <3>1. PICK j \in T : \A i \in 1 .. j - 1 : i \notin T
      <4>1. T \in SUBSET (1 .. n)
        OBVIOUS
      <4> HIDE DEF T
      <4> QED BY <1>1, <4>1, FirstPlace
    <3>2. j \in 1 .. n /\ c[j] \notin Int
      OBVIOUS
    <3>3. c[j - 1] \in Int
      <4>1. (j = 1) \/ (j - 1 \in 1 .. j - 1 /\ j - 1 \in 1 .. n)
        <5>1. n \in Nat /\ j \in 1 .. n
          BY <1>1, <3>2
        <5> HIDE DEF n, T
        <5> QED BY <5>1
      <4> QED BY <2>1, <3>1, <4>1
    <3>4. xs[j] \in Int
      BY <3>2
    <3> QED BY <2>2, <3>2, <3>3, <3>4
  <2> QED BY <1>1, <2>1, <2>3
<1> QED BY <1>1, <1>6, <1>7
-----------------------------------------------------------------------------
(* Sensors and tracks *)

(* What TypeOK says of a sensor, and of all of them in one record. *)
GoodSensor == {s \in Sensor : Len(s.samples) <= AvgWindow}

House == [sensor : [All -> GoodSensor], track : [All -> Track]]

LEMMA SensorFields ==
  ASSUME NEW s \in GoodSensor
  PROVE  /\ s.active \in BOOLEAN /\ s.weight \in {0, 1} /\ s.offset \in Int
         /\ s.samples \in Seq(Int) /\ Len(s.samples) <= AvgWindow
         /\ s.raw \in Int /\ s.eff \in Int /\ s.age \in 0 .. Timeout + 1
         /\ s.quality \in Qualities /\ s.window \in BOOLEAN /\ s.src \in SourceSet
BY DEF GoodSensor, Sensor

(* push_reading keeps the ring within its length. *)
LEMMA PushIs ==
  ASSUME NEW s \in GoodSensor, NEW v \in Int
  PROVE  /\ Push(s, v) \in GoodSensor
         /\ Push(s, v).active = s.active /\ Push(s, v).weight = s.weight
         /\ Push(s, v).src = s.src /\ Push(s, v).window = s.window
         /\ Push(s, v).quality = s.quality
         /\ Push(s, v).raw = v /\ Push(s, v).age = 0
<1> DEFINE kept == IF Len(s.samples) < AvgWindow THEN s.samples ELSE Tail(s.samples)
           xs == Append(kept, v)
           e == Sum(xs) \div Len(xs) + s.offset
<1>1. AvgWindow \in Nat /\ AvgWindow > 0 /\ 0 \in 0 .. Timeout + 1
  BY SensorsAssumption
<1>2. s.samples \in Seq(Int) /\ Len(s.samples) <= AvgWindow /\ s.offset \in Int
  BY SensorFields
<1>3. kept \in Seq(Int) /\ Len(kept) \in Nat /\ Len(kept) < AvgWindow
  <2>1. CASE Len(s.samples) < AvgWindow
    BY <1>2, <2>1
  <2>2. CASE Len(s.samples) = AvgWindow
    <3>1. s.samples # <<>>
      BY <1>1, <2>2
    <3>2. Tail(s.samples) \in Seq(Int) /\ Len(Tail(s.samples)) = Len(s.samples) - 1
      BY <1>2, <3>1
    <3> QED BY <1>1, <1>2, <2>2, <3>2
  <2>3. Len(s.samples) \in Nat
    BY <1>2
  <2> QED BY <1>1, <1>2, <2>1, <2>2, <2>3
<1> HIDE DEF kept
<1>4. xs \in Seq(Int) /\ Len(xs) \in Nat /\ Len(xs) > 0 /\ Len(xs) <= AvgWindow
  BY <1>1, <1>3
<1>5. Sum(xs) \in Int
  <2> HIDE DEF xs
  <2> QED BY <1>4, SumType
<1> HIDE DEF xs
<1>6. e \in Int
  <2> DEFINE a == Sum(xs)
             l == Len(xs)
  <2>1. a \in Int /\ l \in Nat /\ l > 0
    BY <1>4, <1>5
  <2> HIDE DEF a, l
  <2>2. a \div l \in Int
    BY <2>1
  <2>3. Sum(xs) \div Len(xs) \in Int
    BY <2>2 DEF a, l
  <2> QED BY <1>2, <2>3
<1>7. Push(s, v) = [s EXCEPT !.samples = xs, !.raw = v, !.age = 0, !.eff = e]
  BY DEF Push, xs, kept
<1> HIDE DEF e
<1>8. Push(s, v) \in GoodSensor
  BY <1>1, <1>4, <1>6, <1>7 DEF GoodSensor, Sensor
<1> QED BY <1>7, <1>8 DEF GoodSensor, Sensor

(* What the loops before the validation may leave of a sensor s. *)
Looped(s, p) ==
  /\ p \in GoodSensor
  /\ p.active = s.active /\ p.weight = s.weight /\ p.src = s.src /\ p.window = s.window
  /\ p.quality = "ok" /\ p.window => s.quality = "ok"
  /\ Usable(p) => (p.age = 0 /\ InRange(p.raw)) \/ (Usable(s) /\ p.eff = s.eff)
  /\ p.active /\ Simulated(p) /\ Usable(p) => p.age = 0
  /\ p.quality = "windowOpen" => s.quality = "windowOpen"

LEMMA OlderIs ==
  ASSUME NEW s \in GoodSensor
  PROVE  /\ Older(s) \in GoodSensor
         /\ Older(s).active = s.active /\ Older(s).weight = s.weight /\ Older(s).src = s.src
         /\ Older(s).window = s.window /\ Older(s).quality = s.quality /\ Older(s).eff = s.eff
<1> DEFINE a == IF s.age > Timeout THEN s.age ELSE s.age + 1
<1>1. a \in 0 .. Timeout + 1
  BY SensorsAssumption, SensorFields
<1>2. Older(s) = [s EXCEPT !.age = a]
  BY DEF Older, GoodSensor, Sensor
<1> HIDE DEF a
<1> QED BY <1>1, <1>2 DEF GoodSensor, Sensor

(* A new quality changes nothing else. *)
LEMMA QualityIs ==
  ASSUME NEW s \in GoodSensor, NEW q \in Qualities
  PROVE  /\ [s EXCEPT !.quality = q] \in GoodSensor
         /\ [s EXCEPT !.quality = q].quality = q
         /\ [s EXCEPT !.quality = q].active = s.active
         /\ [s EXCEPT !.quality = q].weight = s.weight
         /\ [s EXCEPT !.quality = q].src = s.src
         /\ [s EXCEPT !.quality = q].window = s.window
         /\ [s EXCEPT !.quality = q].raw = s.raw
         /\ [s EXCEPT !.quality = q].eff = s.eff
         /\ [s EXCEPT !.quality = q].age = s.age
BY DEF GoodSensor, Sensor

LEMMA FeedIs ==
  ASSUME NEW s \in GoodSensor, NEW r \in GoodSensor, NEW v \in Int,
         r.active = s.active, r.weight = s.weight, r.src = s.src, r.window = s.window
  PROVE  Looped(s, Feed(r, v))
<1> DEFINE p == Push(r, v)
           q == IF InRange(v) THEN "simulated" ELSE "outOfRange"
<1>1. /\ p \in GoodSensor
      /\ p.active = s.active /\ p.weight = s.weight /\ p.src = s.src /\ p.window = s.window
      /\ p.raw = v /\ p.age = 0
  BY PushIs
<1>2. q \in Qualities /\ q # "ok" /\ q # "windowOpen"
      /\ (q \in {"ok", "simulated"} => InRange(v))
  BY DEF Qualities
<1>3. Feed(r, v) = [p EXCEPT !.quality = q]
  BY DEF Feed
<1> HIDE DEF p, q
<1>4. /\ Feed(r, v) \in GoodSensor
      /\ Feed(r, v).active = s.active /\ Feed(r, v).weight = s.weight
      /\ Feed(r, v).src = s.src /\ Feed(r, v).window = s.window
      /\ Feed(r, v).raw = v /\ Feed(r, v).age = 0 /\ Feed(r, v).quality = q
  BY <1>1, <1>2, <1>3, QualityIs
<1> QED BY <1>2, <1>4 DEF Looped, Usable

LEMMA FillIs ==
  ASSUME NEW s \in GoodSensor, NEW r \in GoodSensor,
         r.active = s.active, r.weight = s.weight, r.src = s.src, r.window = s.window,
         r.quality = s.quality, r.eff = s.eff
  PROVE  Looped(s, Fill(r))
<1> DEFINE q == IF ~r.active THEN "disabled"
                ELSE IF Simulated(r) THEN "timeout" ELSE r.quality
<1>1. /\ q \in Qualities /\ (q \in {"ok", "simulated", "windowOpen"} => q = s.quality)
      /\ (r.active /\ Simulated(r) => q = "timeout")
  BY SensorFields DEF Qualities
<1>2. Fill(r) = [r EXCEPT !.quality = q]
  BY DEF Fill, GoodSensor, Sensor
<1> HIDE DEF q
<1>3. /\ Fill(r) \in GoodSensor
      /\ Fill(r).active = s.active /\ Fill(r).weight = s.weight
      /\ Fill(r).src = s.src /\ Fill(r).window = s.window
      /\ Fill(r).eff = s.eff /\ Fill(r).quality = q
  BY <1>1, <1>2, QualityIs
<1> QED BY <1>1, <1>3 DEF Looped, Usable, Simulated

LEMMA ReceiveKeeps ==
  ASSUME NEW s \in GoodSensor, NEW r, Looped(s, r), NEW v \in Int
  PROVE  Looped(s, Receive(r, v))
<1> DEFINE p == Push(r, v)
           q == IF ~InRange(v) THEN "outOfRange"
                ELSE IF p.active /\ ~p.window
                     THEN IF Simulated(p) THEN "simulated" ELSE "ok"
                     ELSE p.quality
<1>1. r \in GoodSensor
  BY DEF Looped
<1>2. /\ p \in GoodSensor
      /\ p.active = r.active /\ p.weight = r.weight /\ p.src = r.src /\ p.window = r.window
      /\ p.quality = r.quality /\ p.raw = v /\ p.age = 0
  BY <1>1, PushIs
<1>3. Receive(r, v) = [p EXCEPT !.quality = q]
  <2>1. /\ Simulated(p) = Simulated(r)
        /\ p.active = r.active /\ p.window = r.window
    BY <1>2 DEF Simulated
  <2> HIDE DEF p
  <2>2. [p EXCEPT !.quality = q] =
          [p EXCEPT !.quality = IF ~InRange(v) THEN "outOfRange"
                 ELSE IF r.active /\ ~r.window
                      THEN IF Simulated(r) THEN "simulated" ELSE "ok"
                      ELSE @]
    BY <1>2, <2>1 DEF GoodSensor, Sensor
  <2> QED BY <2>2 DEF Receive, p
<1>4. /\ q \in Qualities
      /\ (q \in {"ok", "simulated"} => InRange(v))
      /\ (q = "ok" /\ p.window => q = r.quality)
      /\ (q = "windowOpen" => q = r.quality)
  <2>1. p.quality \in Qualities /\ p.window \in BOOLEAN
    BY <1>2, SensorFields
  <2> HIDE DEF p
  <2> QED BY <1>2, <2>1 DEF Qualities
<1> HIDE DEF p, q
<1>5. /\ Receive(r, v) \in GoodSensor
      /\ Receive(r, v).active = s.active /\ Receive(r, v).weight = s.weight
      /\ Receive(r, v).src = s.src /\ Receive(r, v).window = s.window
      /\ Receive(r, v).window = p.window
      /\ Receive(r, v).raw = v /\ Receive(r, v).age = 0 /\ Receive(r, v).quality = q
  <2>1. r.active = s.active /\ r.weight = s.weight /\ r.src = s.src /\ r.window = s.window
    BY DEF Looped
  <2> QED BY <1>2, <1>3, <1>4, <2>1, QualityIs
<1>6. (r.quality = "windowOpen" => s.quality = "windowOpen")
      /\ (r.quality = "ok" /\ r.window => s.quality = "ok")
  BY DEF Looped
<1> QED BY <1>2, <1>4, <1>5, <1>6 DEF Looped, Usable

LEMMA UnansweredKeeps ==
  ASSUME NEW s \in GoodSensor, NEW r, Looped(s, r)
  PROVE  Looped(s, Unanswered(r))
<1> DEFINE q == IF r.active /\ ~Simulated(r) /\ Overdue(r) THEN "timeout" ELSE r.quality
<1>1. r \in GoodSensor
  BY DEF Looped
<1>2. q \in Qualities /\ (q \in {"ok", "simulated", "windowOpen"} => q = r.quality)
  BY <1>1, SensorFields DEF Qualities
<1>3. Unanswered(r) = [r EXCEPT !.quality = q]
  BY <1>1 DEF Unanswered, GoodSensor, Sensor
<1> HIDE DEF q
<1>4. /\ Unanswered(r) \in GoodSensor
      /\ Unanswered(r).active = r.active /\ Unanswered(r).weight = r.weight
      /\ Unanswered(r).src = r.src /\ Unanswered(r).window = r.window
      /\ Unanswered(r).raw = r.raw /\ Unanswered(r).eff = r.eff /\ Unanswered(r).age = r.age
      /\ Unanswered(r).quality = q
  BY <1>1, <1>2, <1>3, QualityIs
<1> QED BY <1>2, <1>4 DEF Looped, Usable, Simulated

(* What all the loops before the detectors' leave of a sensor s. *)
Stage(s, p) ==
  /\ p \in GoodSensor
  /\ p.weight = s.weight /\ p.src = s.src
  /\ p.window => s.window
  /\ p.quality = "ok" /\ p.window => s.quality = "ok"
  /\ Usable(p) => p.active /\ ((p.age = 0 /\ InRange(p.raw)) \/ (Usable(s) /\ p.eff = s.eff))
  /\ p.quality = "ok" \/ (Usable(p) /\ Simulated(p)) => p.age <= Timeout
  /\ p.quality = "windowOpen" => s.quality = "windowOpen" /\ p.window = s.window

LEMMA ValidateGives ==
  ASSUME NEW s \in GoodSensor, NEW r, Looped(s, r)
  PROVE  Stage(s, Validate(r))
<1>1. r \in GoodSensor /\ Timeout \in Nat
  BY SensorsAssumption DEF Looped
<1>2. CASE ~r.active
  <2> DEFINE p == [r EXCEPT !.quality = "disabled", !.window = FALSE]
  <2>1. /\ p \in GoodSensor /\ p.quality = "disabled" /\ p.window = FALSE
        /\ p.weight = r.weight /\ p.src = r.src
    BY <1>1 DEF GoodSensor, Sensor, Qualities
  <2>2. Validate(r) = p
    BY <1>2 DEF Validate
  <2> HIDE DEF p
  <2> QED BY <2>1, <2>2 DEF Stage, Looped, Usable
<1>3. CASE r.active
  <2> DEFINE q == IF ~Simulated(r) /\ r.quality = "ok" /\ Overdue(r) THEN "timeout" ELSE r.quality
  <2>1. /\ q \in Qualities /\ (q \in {"ok", "simulated", "windowOpen"} => q = r.quality)
        /\ (q = "ok" /\ ~Simulated(r) => ~Overdue(r))
    BY <1>1, SensorFields DEF Qualities
  <2>2. Validate(r) = [r EXCEPT !.quality = q]
    BY <1>1, <1>3 DEF Validate, GoodSensor, Sensor
  <2> HIDE DEF q
  <2>3. /\ Validate(r) \in GoodSensor
        /\ Validate(r).active = r.active /\ Validate(r).weight = r.weight
        /\ Validate(r).src = r.src /\ Validate(r).window = r.window
        /\ Validate(r).raw = r.raw /\ Validate(r).eff = r.eff /\ Validate(r).age = r.age
        /\ Validate(r).quality = q
    BY <1>1, <2>1, <2>2, QualityIs
  <2>4. r.age \in Int
    BY <1>1, SensorFields
  <2>5. Simulated(r) /\ Usable(r) => r.age <= Timeout
    BY <1>1, <1>3 DEF Looped
  <2>6. q = "ok" \/ (q = "simulated" /\ Simulated(r)) => r.age <= Timeout
    BY <1>1, <2>1, <2>4, <2>5 DEF Overdue, Usable
  <2> QED BY <1>3, <2>1, <2>3, <2>6 DEF Stage, Looped, Usable, Simulated
<1> QED BY <1>1, <1>2, <1>3, SensorFields

-----------------------------------------------------------------------------
(* The loops before the detectors' *)

Typed ==
  /\ sensor \in [All -> GoodSensor] /\ track \in [All -> Track]
  /\ count \in All /\ heatSim \in BOOLEAN /\ polled \in BOOLEAN
  /\ uptime \in 0 .. Timeout + 1

LEMMA LongerIs ==
  ASSUME NEW t \in Track
  PROVE  Longer(t) \in Track /\ Longer(t).base = t.base
<1> DEFINE a == IF t.still > StaleAfter THEN t.still ELSE t.still + 1
<1>1. a \in 0 .. StaleAfter + 1
  BY SensorsAssumption DEF Track
<1>2. Longer(t) = [t EXCEPT !.still = a]
  BY DEF Longer, Track
<1> HIDE DEF a
<1> QED BY <1>1, <1>2 DEF Track

LEMMA AnswersAre ==
  ASSUME NEW reply \in Replies
  PROVE  /\ Len(reply.frame) \in Nat
         /\ \A k \in 1 .. Len(reply.frame) : reply.frame[k].temp \in Int
<1>1. CASE reply \in {[kind |-> "silent", frame |-> <<>>], [kind |-> "garbled", frame |-> <<>>]}
  <2>1. reply.frame = <<>>
    BY <1>1
  <2> QED BY <2>1
<1>2. CASE reply \in [kind : {"frame"}, frame : Answers]
  <2>1. PICK n \in 0 .. FrameRoom : reply.frame \in [1 .. n -> Entry]
    BY <1>2 DEF Answers
  <2>2. FrameRoom \in Nat /\ Raws \subseteq Int
    BY SensorsAssumption
  <2>3. n \in Nat
    BY <2>2
  <2>4. Len(reply.frame) = n
    BY <2>1, <2>3
  <2>5. \A k \in 1 .. n : reply.frame[k] \in Entry
    BY <2>1
  <2> QED BY <2>2, <2>3, <2>4, <2>5 DEF Entry
<1> QED BY <1>1, <1>2 DEF Replies

LEMMA SimValuesAre ==
  ASSUME NEW sim \in SimValues, NEW i \in DOMAIN sim
  PROVE  sim[i] \in Int
<1>1. sim[i] \in Raws
  BY DEF SimValues
<1> QED BY <1>1, SensorsAssumption

(* The entries of a frame, one after the other, leave of a sensor what one
   entry may leave. *)
LEMMA ReceivedKeeps ==
  ASSUME NEW s \in GoodSensor, NEW r, Looped(s, r), NEW i, NEW frame, Len(frame) \in Nat,
         \A k \in 1 .. Len(frame) : frame[k].temp \in Int
  PROVE  Looped(s, Received(i, r, frame))
<1> DEFINE n == Len(frame)
           D == {p \in GoodSensor : Looped(s, p)}
           one(p, k) == IF frame[k].id = i THEN Receive(p, frame[k].temp) ELSE p
           step == [x \in D \X (1 .. n) |-> one(x[1], x[2])]
           Good(f) == f = [k \in 0 .. n |-> IF k = 0 THEN r
                             ELSE IF frame[k].id = i THEN Receive(f[k - 1], frame[k].temp)
                             ELSE f[k - 1]]
           c == CHOOSE g : Good(g)
<1>1. n \in Nat /\ r \in D
  BY DEF Looped
<1>2. ASSUME NEW p \in D, NEW k \in 1 .. n PROVE one(p, k) \in D
  <2>1. Looped(s, p) /\ frame[k].temp \in Int
    OBVIOUS
  <2>2. Looped(s, Receive(p, frame[k].temp))
    BY <2>1, ReceiveKeeps
  <2> QED BY <2>2 DEF Looped
<1> HIDE DEF D
<1>3. step \in [D \X (1 .. n) -> D]
  <2> HIDE DEF one, n
  <2> QED BY <1>2
<1>4. PICK f : LoopFrom(f, D, r, n, step)
  <2> HIDE DEF step, n
  <2> QED BY <1>1, <1>3, LoopRuns
<1>5. /\ f \in [0 .. n -> D] /\ f[0] = r
      /\ \A k \in 1 .. n : f[k] = one(f[k - 1], k)
  <2>1. /\ f \in [0 .. n -> D] /\ f[0] = r
        /\ \A k \in 1 .. n : f[k] = step[f[k - 1], k]
    BY <1>4 DEF LoopFrom
  <2>2. ASSUME NEW k \in 1 .. n PROVE step[f[k - 1], k] = one(f[k - 1], k)
    <3>1. k - 1 \in 0 .. n
      <4> HIDE DEF n
      <4> QED BY <1>1
    <3>2. f[k - 1] \in D
      BY <2>1, <3>1
    <3> HIDE DEF one, n
    <3> QED BY <3>2
  <2> QED BY <2>1, <2>2
<1>6. Good(f)
  <2>1. \A k \in 0 .. n : f[k] = IF k = 0 THEN r ELSE one(f[k - 1], k)
    <3> HIDE DEF one, n
    <3> QED BY <1>1, <1>5
  <2> QED BY <1>5, <2>1
<1>7. Good(c)
  BY <1>6
<1>8. Received(i, r, frame) = c[n]
  BY DEF Received
<1> HIDE DEF c
<1>9. c[0] = r /\ \A k \in 1 .. n : c[k] = one(c[k - 1], k)
  <2>1. \A k \in 0 .. n : c[k] = IF k = 0 THEN r ELSE one(c[k - 1], k)
    BY <1>7
  <2> HIDE DEF one, n, Good
  <2> QED BY <1>1, <2>1
<1>10. \A k \in 0 .. n : c[k] \in D
  <2> DEFINE T == {j \in 1 .. n : c[j] \notin D}
  <2>1. ASSUME T # {} PROVE FALSE
    <3>1. T \in SUBSET (1 .. n)
      OBVIOUS
    <3>2. PICK j \in T : \A k \in 1 .. j - 1 : k \notin T
      <4> HIDE DEF T, n
      <4> QED BY <1>1, <2>1, <3>1, FirstPlace
    <3>3. j \in 1 .. n /\ c[j] \notin D
      OBVIOUS
    <3>4. c[j - 1] \in D
      <4>1. (j = 1) \/ (j - 1 \in 1 .. j - 1 /\ j - 1 \in 1 .. n)
        <5> HIDE DEF n, T
        <5> QED BY <1>1, <3>3
      <4> HIDE DEF one
      <4> QED BY <1>1, <1>9, <3>2, <4>1
    <3>5. one(c[j - 1], j) \in D
      BY <1>2, <3>3, <3>4
    <3> HIDE DEF one
    <3> QED BY <1>9, <3>3, <3>5
  <2>2. ASSUME NEW k \in 0 .. n PROVE k = 0 \/ k \in 1 .. n
    <3> HIDE DEF n
    <3> QED BY <1>1
  <2> HIDE DEF one
  <2> QED BY <1>1, <1>9, <2>1, <2>2
<1>11. c[n] \in D
  <2>1. n \in 0 .. n
    <3> HIDE DEF n
    <3> QED BY <1>1
  <2> QED BY <1>10, <2>1
<1> QED BY <1>8, <1>11 DEF D

LEMMA AnsweredIs ==
  ASSUME Typed, NEW sim \in SimValues, NEW reply \in Replies, NEW i \in All
  PROVE  Looped(sensor[i], Answered(i, sim, reply))
<1> DEFINE s == sensor[i]
           r == Older(s)
<1>1. s \in GoodSensor
  BY DEF Typed
<1>2. /\ r \in GoodSensor
      /\ r.active = s.active /\ r.weight = s.weight /\ r.src = s.src
      /\ r.window = s.window /\ r.quality = s.quality /\ r.eff = s.eff
  BY <1>1, OlderIs
<1>3. Looped(s, Filled(i, sim))
  <2>1. CASE i \in DOMAIN sim
    <3>1. sim[i] \in Int
      BY <2>1, SimValuesAre
    <3>2. Filled(i, sim) = Feed(r, sim[i])
      BY <2>1 DEF Filled
    <3> HIDE DEF s, r
    <3> QED BY <1>1, <1>2, <3>1, <3>2, FeedIs
  <2>2. CASE i \notin DOMAIN sim
    <3>1. Filled(i, sim) = Fill(r)
      BY <2>2 DEF Filled
    <3> HIDE DEF s, r
    <3> QED BY <1>1, <1>2, <3>1, FillIs
  <2> QED BY <2>1, <2>2
<1> HIDE DEF s, r
<1>4. CASE reply.kind = "silent" /\ NeedReal
  BY <1>1, <1>3, <1>4, UnansweredKeeps DEF Answered, s
<1>5. CASE ~(reply.kind = "silent" /\ NeedReal)
  <2>1. Answered(i, sim, reply) = Received(i, Filled(i, sim), reply.frame)
    BY <1>5 DEF Answered
  <2> QED BY <1>1, <1>3, <2>1, AnswersAre, ReceivedKeeps DEF s
<1> QED BY <1>4, <1>5

LEMMA BoundType ==
  ASSUME count \in All
  PROVE  count \in Nat /\ count > 0 /\ count <= MaxSensors /\ Bound \subseteq All
BY SensorsAssumption DEF All, Bound

HeardForm(H) ==
  /\ H \in House
  /\ \A i \in Bound : Stage(sensor[i], H.sensor[i]) /\ H.track[i].base = track[i].base
  /\ \A i \in All \ Bound : H.sensor[i] = sensor[i] /\ H.track[i] = track[i]

LEMMA HeardIs ==
  ASSUME Typed, NEW sim \in SimValues, NEW reply \in Replies
  PROVE  HeardForm(Heard(sim, reply))
<1> DEFINE new(i) == IF i \in Bound THEN Validate(Answered(i, sim, reply)) ELSE sensor[i]
           old(i) == IF i \in Bound THEN Longer(track[i]) ELSE track[i]
<1>1. Heard(sim, reply) = [sensor |-> [i \in All |-> new(i)], track |-> [i \in All |-> old(i)]]
  BY DEF Heard
<1>2. Bound \subseteq All
  BY BoundType DEF Typed
<1>3. ASSUME NEW i \in Bound PROVE Stage(sensor[i], new(i))
  <2>1. Looped(sensor[i], Answered(i, sim, reply)) /\ sensor[i] \in GoodSensor
    BY <1>2, AnsweredIs DEF Typed
  <2> QED BY <2>1, ValidateGives
<1>4. ASSUME NEW i \in Bound PROVE old(i) \in Track /\ old(i).base = track[i].base
  BY <1>2, LongerIs DEF Typed
<1>5. ASSUME NEW i \in All PROVE new(i) \in GoodSensor /\ old(i) \in Track
  <2>1. CASE i \in Bound
    BY <1>3, <1>4, <2>1 DEF Stage
  <2>2. CASE i \notin Bound
    BY <2>2 DEF Typed
  <2> QED BY <2>1, <2>2
<1>6. \A i \in All \ Bound : new(i) = sensor[i] /\ old(i) = track[i]
  OBVIOUS
<1> HIDE DEF new, old
<1>7. Heard(sim, reply) \in House
  BY <1>1, <1>5 DEF House
<1>8. \A i \in All : Heard(sim, reply).sensor[i] = new(i) /\ Heard(sim, reply).track[i] = old(i)
  BY <1>1
<1> QED BY <1>2, <1>3, <1>4, <1>6, <1>7, <1>8 DEF HeardForm

-----------------------------------------------------------------------------
(* The detectors *)

(* A suppressed sensor is not OK and has a baseline to come back to. *)
Sound(s, t) ==
  /\ s.window => s.quality # "ok" /\ t.base # NoTemp
  /\ s.quality = "windowOpen" => s.window

(* One that is counted as simulated is at least 0.4 degrees below it. *)
Below(s, t) == s.window /\ Usable(s) => t.base - s.eff >= 40

(* What the detectors may make of a sensor s and its track t. *)
Verdict(s, t, u, v) ==
  /\ u.active = s.active /\ u.weight = s.weight /\ u.src = s.src
  /\ u.raw = s.raw /\ u.eff = s.eff /\ u.age = s.age
  /\ Usable(u) => Usable(s)
  /\ Sound(u, v) /\ Below(u, v)
  /\ u.quality = "ok" => s.quality = "ok" \/ (s.window /\ t.base - s.eff < 40)
  /\ u.quality = "windowOpen" => Usable(s) \/ s.quality = "windowOpen"

Elsewhere(S, X, i) ==
  \A j \in All \ {i} : X.sensor[j] = S.sensor[j] /\ X.track[j] = S.track[j]

LEMMA WithIs ==
  ASSUME NEW S \in House, NEW i \in All, NEW s \in GoodSensor, NEW t \in Track
  PROVE  /\ With(S, i, s, t) \in House /\ Elsewhere(S, With(S, i, s, t), i)
         /\ With(S, i, s, t).sensor[i] = s /\ With(S, i, s, t).track[i] = t
<1>1. /\ S.sensor \in [All -> GoodSensor] /\ S.track \in [All -> Track]
      /\ S = [sensor |-> S.sensor, track |-> S.track]
  BY DEF House
<1>2. With(S, i, s, t) = [sensor |-> [S.sensor EXCEPT ![i] = s], track |-> [S.track EXCEPT ![i] = t]]
  BY DEF With
<1>3. [S.sensor EXCEPT ![i] = s] \in [All -> GoodSensor] /\ [S.track EXCEPT ![i] = t] \in [All -> Track]
  BY <1>1
<1>4. With(S, i, s, t) \in House
  BY <1>2, <1>3 DEF House
<1> QED BY <1>1, <1>2, <1>4 DEF Elsewhere

LEMMA BaseIs ==
  ASSUME NEW t \in Track, NEW b \in Int
  PROVE  [t EXCEPT !.base = b] \in Track /\ [t EXCEPT !.base = b].base = b
BY DEF Track

LEMMA AdaptedType ==
  ASSUME NEW b \in Int, NEW e \in Int
  PROVE  ((100 - Adapt) * b + Adapt * e) \div 100 \in Int
<1>1. Adapt \in Int
  BY SensorsAssumption
<1> DEFINE x == (100 - Adapt) * b + Adapt * e
<1>2. x \in Int
  BY <1>1
<1> HIDE DEF x
<1>3. x \div 100 \in Int
  BY <1>2
<1> QED BY <1>3 DEF x

(* window_detect on a sensor it looks at. *)
DetectForm(S, X, i) ==
  /\ X \in House /\ Elsewhere(S, X, i)
  /\ Verdict(S.sensor[i], S.track[i], X.sensor[i], X.track[i])

LEMMA WindowIs ==
  ASSUME NEW S \in House, NEW i \in All, Usable(S.sensor[i]), Sound(S.sensor[i], S.track[i])
  PROVE  DetectForm(S, WindowDetect(S, i), i)
<1> DEFINE s == S.sensor[i]
           t == S.track[i]
           W == WindowDetect(S, i)
<1>1. s \in GoodSensor /\ t \in Track /\ s.eff \in Int /\ s.window \in BOOLEAN
  <2>1. s \in GoodSensor /\ t \in Track
    BY DEF House
  <2> QED BY <2>1, SensorFields
<1>2. t.base = NoTemp \/ t.base \in Int
  BY <1>1 DEF Track
<1>3. s.quality \in {"ok", "simulated"} /\ Sound(s, t)
  BY DEF Usable
<1>4. CASE t.base = NoTemp
  <2> DEFINE v == [t EXCEPT !.base = s.eff]
  <2>1. v \in Track /\ v.base = s.eff
    BY <1>1, BaseIs
  <2>2. W = With(S, i, s, v)
    BY <1>4 DEF WindowDetect
  <2> HIDE DEF v
  <2>3. Verdict(s, t, s, v)
    BY <1>3, <1>4 DEF Verdict, Sound, Below, Usable
  <2> HIDE DEF s, t, W
  <2> QED BY <1>1, <2>1, <2>2, <2>3, WithIs DEF DetectForm, s, t, W
<1>5. CASE t.base # NoTemp /\ s.window /\ Drop(S, i) < 40
  <2> DEFINE q == IF Simulated(s) THEN "simulated" ELSE "ok"
             u == [s EXCEPT !.window = FALSE, !.quality = q]
             v == [t EXCEPT !.base = s.eff]
  <2>1. v \in Track /\ v.base = s.eff
    BY <1>1, BaseIs
  <2>2. q \in {"ok", "simulated"}
    OBVIOUS
  <2>3. W = With(S, i, u, v)
    BY <1>5 DEF WindowDetect
  <2>4. t.base - s.eff < 40
    BY <1>5 DEF Drop
  <2> HIDE DEF q, v
  <2>5. /\ u \in GoodSensor /\ u.window = FALSE /\ u.quality = q
        /\ u.active = s.active /\ u.weight = s.weight /\ u.src = s.src
        /\ u.raw = s.raw /\ u.eff = s.eff /\ u.age = s.age
    BY <1>1, <2>2 DEF GoodSensor, Sensor, Qualities
  <2> HIDE DEF u, s, t, W
  <2>6. Verdict(s, t, u, v)
    BY <1>3, <1>5, <2>2, <2>4, <2>5 DEF Verdict, Sound, Below, Usable
  <2> QED BY <1>1, <2>1, <2>3, <2>5, <2>6, WithIs DEF DetectForm, s, t, W
<1>6. CASE t.base # NoTemp /\ s.window /\ ~(Drop(S, i) < 40)
  <2>1. W = S
    BY <1>6 DEF WindowDetect
  <2>2. t.base - s.eff >= 40
    BY <1>1, <1>2, <1>6 DEF Drop
  <2> HIDE DEF s, t, W
  <2>3. Verdict(s, t, s, t)
    BY <1>3, <2>2 DEF Verdict, Sound, Below
  <2> QED BY <2>1, <2>3 DEF DetectForm, Elsewhere, s, t, W
<1>7. CASE t.base # NoTemp /\ ~s.window /\ LocalDrop(S, i)
  <2> DEFINE u == [s EXCEPT !.window = TRUE, !.quality = "windowOpen"]
  <2>1. /\ u \in GoodSensor /\ u.window = TRUE /\ u.quality = "windowOpen"
        /\ u.active = s.active /\ u.weight = s.weight /\ u.src = s.src
        /\ u.raw = s.raw /\ u.eff = s.eff /\ u.age = s.age
    BY <1>1 DEF GoodSensor, Sensor, Qualities
  <2>2. W = With(S, i, u, t)
    BY <1>7 DEF WindowDetect
  <2> HIDE DEF u, s, t, W
  <2>3. Verdict(s, t, u, t)
    BY <1>3, <1>7, <2>1 DEF Verdict, Sound, Below, Usable
  <2> QED BY <1>1, <2>1, <2>2, <2>3, WithIs DEF DetectForm, s, t, W
<1>8. CASE t.base # NoTemp /\ ~s.window /\ ~LocalDrop(S, i)
  <2> DEFINE b == ((100 - Adapt) * t.base + Adapt * s.eff) \div 100
             v == [t EXCEPT !.base = b]
  <2>1. b \in Int
    BY <1>1, <1>2, <1>8, AdaptedType
  <2>2. W = With(S, i, s, v)
    BY <1>1, <1>8 DEF WindowDetect, Track
  <2> HIDE DEF b
  <2>3. v \in Track /\ v.base = b
    BY <1>1, <2>1, BaseIs
  <2> HIDE DEF v, s, t, W
  <2>4. Verdict(s, t, s, v)
    BY <1>3, <1>8 DEF Verdict, Sound, Below
  <2> QED BY <1>1, <2>2, <2>3, <2>4, WithIs DEF DetectForm, s, t, W
<1> HIDE DEF s, t, W
<1> QED BY <1>1, <1>4, <1>5, <1>6, <1>7, <1>8

(* stale_detect on what window_detect has left. *)
LEMMA StaleIs ==
  ASSUME NEW S \in House, NEW i \in All, Usable(S.sensor[i])
  PROVE  /\ StaleDetect(S, i) \in House /\ Elsewhere(S, StaleDetect(S, i), i)
         /\ StaleDetect(S, i).track[i].base = S.track[i].base
         /\ \E q \in {S.sensor[i].quality, "stale"} :
              StaleDetect(S, i).sensor[i] = [S.sensor[i] EXCEPT !.quality = q]
<1> DEFINE s == S.sensor[i]
           t == S.track[i]
           moved == t.prev = NoTemp \/ Moved(s.eff, t.prev)
           frozen == ~moved /\ t.still > StaleAfter
           q == IF frozen /\ s.quality = "ok" THEN "stale" ELSE s.quality
           w == IF moved THEN 0 ELSE t.still
           u == [s EXCEPT !.quality = q]
           v == [t EXCEPT !.prev = s.eff, !.still = w]
<1>1. s \in GoodSensor /\ t \in Track /\ s.eff \in Int /\ s.quality \in Qualities
  <2>1. s \in GoodSensor /\ t \in Track
    BY DEF House
  <2> QED BY <2>1, SensorFields
<1>2. w \in 0 .. StaleAfter + 1
  <2>1. 0 \in 0 .. StaleAfter + 1 /\ t.still \in 0 .. StaleAfter + 1
    BY <1>1, SensorsAssumption DEF Track
  <2> HIDE DEF moved
  <2> QED BY <2>1
<1>3. q \in {s.quality, "stale"} /\ q \in Qualities
  <2> HIDE DEF frozen
  <2> QED BY <1>1 DEF Qualities
<1>4. StaleDetect(S, i) = With(S, i, u, v)
  <2> HIDE DEF frozen, moved
  <2>1. u = [s EXCEPT !.quality = IF frozen /\ @ = "ok" THEN "stale" ELSE @]
    BY <1>1 DEF GoodSensor, Sensor
  <2>2. v = [t EXCEPT !.prev = s.eff, !.still = IF moved THEN 0 ELSE @]
    BY <1>1 DEF Track
  <2> HIDE DEF u, v
  <2>3. StaleDetect(S, i) =
          With(S, i, [s EXCEPT !.quality = IF frozen /\ @ = "ok" THEN "stale" ELSE @],
               [t EXCEPT !.prev = s.eff, !.still = IF moved THEN 0 ELSE @])
    BY DEF StaleDetect, frozen, moved
  <2> QED BY <2>1, <2>2, <2>3
<1> HIDE DEF q, w
<1>5. u \in GoodSensor
  BY <1>1, <1>3, QualityIs
<1>6. v \in Track /\ v.base = t.base
  BY <1>1, <1>2 DEF Track
<1>7. u = [s EXCEPT !.quality = q]
  OBVIOUS
<1> HIDE DEF u, v, s, t
<1> QED BY <1>3, <1>4, <1>5, <1>6, <1>7, WithIs DEF s, t

LEMMA DetectOneIs ==
  ASSUME NEW S \in House, NEW i \in All, Sound(S.sensor[i], S.track[i])
  PROVE  DetectForm(S, DetectOne(S, i), i)
<1>1. CASE ~Usable(S.sensor[i])
  BY <1>1 DEF DetectOne, DetectForm, Elsewhere, Verdict, Below
<1>2. CASE Usable(S.sensor[i])
  <2> DEFINE W == WindowDetect(S, i)
  <2>1. DetectForm(S, W, i)
    BY <1>2, WindowIs
  <2>2. CASE ~Usable(W.sensor[i])
    BY <1>2, <2>1, <2>2 DEF DetectOne
  <2>3. CASE Usable(W.sensor[i])
    <3> DEFINE X == StaleDetect(W, i)
               s == S.sensor[i]
               t == S.track[i]
               w == W.sensor[i]
               u == X.sensor[i]
    <3>1. DetectOne(S, i) = X
      BY <1>2, <2>3 DEF DetectOne
    <3> HIDE DEF W
    <3>2. W \in House /\ Elsewhere(S, W, i) /\ Verdict(s, t, w, W.track[i])
      BY <2>1 DEF DetectForm
    <3>3. /\ X \in House /\ Elsewhere(W, X, i) /\ X.track[i].base = W.track[i].base
          /\ \E q \in {w.quality, "stale"} : u = [w EXCEPT !.quality = q]
      BY <2>3, <3>2, StaleIs
    <3> HIDE DEF X
    <3>4. Elsewhere(S, X, i)
      BY <3>2, <3>3 DEF Elsewhere
    <3>5. PICK q \in {w.quality, "stale"} : u = [w EXCEPT !.quality = q]
      BY <3>3
    <3>6. w \in GoodSensor /\ q \in Qualities
      <4>1. w \in GoodSensor
        BY <3>2 DEF House
      <4> QED BY <4>1, SensorFields DEF Qualities
    <3> HIDE DEF s, t, w, u
    <3>7. /\ u.active = w.active /\ u.weight = w.weight /\ u.src = w.src /\ u.window = w.window
          /\ u.raw = w.raw /\ u.eff = w.eff /\ u.age = w.age /\ u.quality = q
      BY <3>5, <3>6, QualityIs
    <3>8. Verdict(s, t, u, X.track[i])
      BY <3>2, <3>3, <3>7 DEF Verdict, Sound, Below, Usable
    <3> QED BY <3>1, <3>3, <3>4, <3>8 DEF DetectForm, s, t, u
  <2> QED BY <2>2, <2>3
<1> QED BY <1>1, <1>2

-----------------------------------------------------------------------------
(* The detectors' loop *)

(* What the steps of a loop keep: P[k] holds the values its first k steps may give. *)
KeptBy(P, D, s, n, step) ==
  /\ P \in [0 .. n -> SUBSET D]
  /\ s \in P[0]
  /\ \A i \in 1 .. n : \A x \in P[i - 1] : step[x, i] \in P[i]

LEMMA LoopKeeps ==
  ASSUME NEW D, NEW s \in D, NEW n \in Nat, NEW step \in [D \X (1 .. n) -> D],
         NEW f, LoopFrom(f, D, s, n, step), NEW P, KeptBy(P, D, s, n, step)
  PROVE  f[n] \in P[n]
<1>1. f \in [0 .. n -> D] /\ f[0] = s /\ \A i \in 1 .. n : f[i] = step[f[i - 1], i]
  BY DEF LoopFrom
<1>2. s \in P[0] /\ \A i \in 1 .. n : \A x \in P[i - 1] : step[x, i] \in P[i]
  BY DEF KeptBy
<1> DEFINE T == {i \in 1 .. n : f[i] \notin P[i]}
<1>3. ASSUME T # {} PROVE FALSE
  <2>1. T \in SUBSET (1 .. n)
    OBVIOUS
  <2>2. PICK i \in T : \A j \in 1 .. i - 1 : j \notin T
    <3> HIDE DEF T
    <3> QED BY <1>3, <2>1, FirstPlace
  <2>3. i \in 1 .. n /\ f[i] \notin P[i]
    OBVIOUS
  <2>4. f[i - 1] \in P[i - 1]
    <3>1. (i = 1) \/ (i - 1 \in 1 .. i - 1 /\ i - 1 \in 1 .. n)
      <4> HIDE DEF T
      <4> QED BY <2>3
    <3>2. CASE i = 1
      <4>1. i - 1 = 0
        BY <3>2
      <4> QED BY <1>1, <1>2, <4>1
    <3>3. CASE i - 1 \in 1 .. i - 1 /\ i - 1 \in 1 .. n
      BY <2>2, <3>3
    <3> QED BY <3>1, <3>2, <3>3
  <2>5. step[f[i - 1], i] \in P[i]
    BY <1>2, <2>3, <2>4
  <2> QED BY <1>1, <2>3, <2>5
<1>4. (n = 0) \/ (n \in 1 .. n)
  OBVIOUS
<1> QED BY <1>1, <1>2, <1>3, <1>4

SoundHouse == {S \in House : \A i \in All : Sound(S.sensor[i], S.track[i])}

DetectStep == [p \in SoundHouse \X Bound |-> DetectOne(p[1], p[2])]

LEMMA DetectStepType ==
  ASSUME Bound \subseteq All
  PROVE  DetectStep \in [SoundHouse \X Bound -> SoundHouse]
<1>1. ASSUME NEW S \in SoundHouse, NEW i \in Bound PROVE DetectOne(S, i) \in SoundHouse
  <2>1. S \in House /\ i \in All /\ \A j \in All : Sound(S.sensor[j], S.track[j])
    BY DEF SoundHouse
  <2>2. DetectForm(S, DetectOne(S, i), i)
    BY <2>1, DetectOneIs
  <2> QED BY <2>1, <2>2 DEF DetectForm, Elsewhere, Verdict, SoundHouse
<1> QED BY <1>1 DEF DetectStep

(* Detected is the end of a loop. *)
LEMMA DetectedRuns ==
  ASSUME count \in Nat, NEW S \in SoundHouse, DetectStep \in [SoundHouse \X Bound -> SoundHouse]
  PROVE  \E f : LoopFrom(f, SoundHouse, S, count, DetectStep) /\ Detected(S) = f[count]
<1> DEFINE Good(f) == f = [i \in 0 .. count |-> IF i = 0 THEN S ELSE DetectOne(f[i - 1], i)]
           c == CHOOSE g : Good(g)
           n == count
<1>1. n \in Nat /\ Bound = 1 .. n
  BY DEF Bound
<1>2. PICK f : LoopFrom(f, SoundHouse, S, n, DetectStep)
  <2> HIDE DEF n
  <2> QED BY <1>1, LoopRuns
<1>3. /\ f \in [0 .. n -> SoundHouse] /\ f[0] = S
      /\ \A i \in 1 .. n : f[i] = DetectOne(f[i - 1], i)
  <2>1. /\ f \in [0 .. n -> SoundHouse] /\ f[0] = S
        /\ \A i \in 1 .. n : f[i] = DetectStep[f[i - 1], i]
    BY <1>2 DEF LoopFrom
  <2>2. ASSUME NEW i \in 1 .. n PROVE DetectStep[f[i - 1], i] = DetectOne(f[i - 1], i)
    <3>1. i - 1 \in 0 .. n
      <4> HIDE DEF n
      <4> QED BY <1>1
    <3>2. f[i - 1] \in SoundHouse
      BY <2>1, <3>1
    <3> HIDE DEF n
    <3> QED BY <1>1, <3>2 DEF DetectStep
  <2> QED BY <2>1, <2>2
<1>4. Good(f)
  <2>1. \A k \in 0 .. n : f[k] = IF k = 0 THEN S ELSE DetectOne(f[k - 1], k)
    BY <1>1, <1>3
  <2> QED BY <1>3, <2>1
<1>5. Good(c)
  BY <1>4
<1>6. Detected(S) = c[n]
  BY DEF Detected
<1> HIDE DEF c
<1>7. c[0] = S /\ \A i \in 1 .. n : c[i] = DetectOne(c[i - 1], i)
  BY <1>1, <1>5
<1>8. \A k \in 0 .. n : c[k] \in SoundHouse
  <2> DEFINE T == {j \in 1 .. n : c[j] \notin SoundHouse}
  <2>1. ASSUME T # {} PROVE FALSE
    <3>1. T \in SUBSET (1 .. n)
      OBVIOUS
    <3>2. PICK j \in T : \A i \in 1 .. j - 1 : i \notin T
      <4> HIDE DEF T, n
      <4> QED BY <1>1, <2>1, <3>1, FirstPlace
    <3>3. j \in 1 .. n /\ c[j] \notin SoundHouse
      OBVIOUS
    <3>4. c[j - 1] \in SoundHouse
      <4>1. (j = 1) \/ (j - 1 \in 1 .. j - 1 /\ j - 1 \in 1 .. n)
        <5> HIDE DEF n, T
        <5> QED BY <1>1, <3>3
      <4> QED BY <1>7, <3>2, <4>1
    <3>5. DetectOne(c[j - 1], j) \in SoundHouse
      <4>1. DetectStep[c[j - 1], j] = DetectOne(c[j - 1], j)
        BY <1>1, <3>3, <3>4 DEF DetectStep
      <4>2. <<c[j - 1], j>> \in SoundHouse \X Bound
        BY <1>1, <3>3, <3>4
      <4> QED BY <4>1, <4>2
    <3> QED BY <1>7, <3>3, <3>5
  <2>2. ASSUME NEW k \in 0 .. n PROVE k = 0 \/ k \in 1 .. n
    BY <1>1
  <2> QED BY <1>7, <2>1, <2>2
<1>9. LoopFrom(c, SoundHouse, S, n, DetectStep)
  <2>1. c \in [0 .. n -> SoundHouse]
    BY <1>5, <1>8
  <2>2. ASSUME NEW i \in 1 .. n PROVE c[i] = DetectStep[c[i - 1], i]
    <3>1. i - 1 \in 0 .. n
      <4> HIDE DEF n
      <4> QED BY <1>1
    <3>2. c[i - 1] \in SoundHouse
      BY <1>8, <3>1
    <3> HIDE DEF n
    <3>3. DetectStep[c[i - 1], i] = DetectOne(c[i - 1], i)
      BY <1>1, <3>2 DEF DetectStep
    <3> QED BY <1>7, <3>3
  <2> QED BY <1>7, <2>1, <2>2 DEF LoopFrom
<1> QED BY <1>6, <1>9

(* The loop passes its verdict on every sensor bound, on each by what it was. *)
DetectedForm(H, S) ==
  /\ S \in SoundHouse
  /\ \A i \in Bound : Verdict(H.sensor[i], H.track[i], S.sensor[i], S.track[i])
  /\ \A i \in All \ Bound : S.sensor[i] = H.sensor[i] /\ S.track[i] = H.track[i]

LEMMA DetectedIs ==
  ASSUME count \in All, NEW H \in SoundHouse
  PROVE  DetectedForm(H, Detected(H))
<1> DEFINE n == count
           Judged(S, k) ==
             /\ \A j \in 1 .. k : Verdict(H.sensor[j], H.track[j], S.sensor[j], S.track[j])
             /\ \A j \in All \ (1 .. k) : S.sensor[j] = H.sensor[j] /\ S.track[j] = H.track[j]
           P == [k \in 0 .. n |-> {S \in SoundHouse : Judged(S, k)}]
<1>1. n \in Nat /\ n > 0 /\ Bound = 1 .. n /\ Bound \subseteq All
  BY BoundType DEF Bound
<1>2. DetectStep \in [SoundHouse \X (1 .. n) -> SoundHouse]
  BY <1>1, DetectStepType
<1>3. PICK f : LoopFrom(f, SoundHouse, H, n, DetectStep) /\ Detected(H) = f[n]
  BY <1>1, <1>2, DetectedRuns
<1>4. KeptBy(P, SoundHouse, H, n, DetectStep)
  <2>1. P \in [0 .. n -> SUBSET SoundHouse]
    OBVIOUS
  <2>2. H \in P[0]
    <3>1. 0 \in 0 .. n /\ 1 .. 0 = {}
      BY <1>1
    <3>2. Judged(H, 0)
      BY <3>1
    <3> HIDE DEF Judged
    <3> QED BY <3>1, <3>2
  <2>3. ASSUME NEW i \in 1 .. n, NEW x \in P[i - 1] PROVE DetectStep[x, i] \in P[i]
    <3> DEFINE y == DetectOne(x, i)
    <3>1. i \in 0 .. n /\ i - 1 \in 0 .. n /\ i \in All /\ i \in Bound
      <4> HIDE DEF n, P
      <4> QED BY <1>1
    <3>2. x \in SoundHouse /\ Judged(x, i - 1)
      <4> HIDE DEF Judged
      <4> QED BY <3>1
    <3> HIDE DEF P
    <3>3. DetectStep[x, i] = y /\ y \in SoundHouse
      <4>1. DetectStep[x, i] = y
        BY <3>1, <3>2 DEF DetectStep
      <4> HIDE DEF n, y
      <4> QED BY <1>1, <1>2, <3>1, <3>2, <4>1
    <3>4. DetectForm(x, y, i)
      <4>1. x \in House /\ Sound(x.sensor[i], x.track[i])
        BY <3>1, <3>2 DEF SoundHouse
      <4> QED BY <3>1, <4>1, DetectOneIs
    <3> HIDE DEF y
    <3>5. x.sensor[i] = H.sensor[i] /\ x.track[i] = H.track[i]
      <4>1. i \notin 1 .. i - 1
        OBVIOUS
      <4> QED BY <3>1, <3>2, <4>1
    <3>6. Judged(y, i)
      <4>1. ASSUME NEW j \in 1 .. i
            PROVE  Verdict(H.sensor[j], H.track[j], y.sensor[j], y.track[j])
        <5>1. j \in All
          BY <1>1, <3>1
        <5>2. CASE j = i
          BY <3>4, <3>5, <5>2 DEF DetectForm
        <5>3. CASE j # i
          <6>1. j \in 1 .. i - 1
            BY <5>3
          <6> QED BY <3>2, <3>4, <5>1, <5>3, <6>1 DEF DetectForm, Elsewhere
        <5> QED BY <5>2, <5>3
      <4>2. ASSUME NEW j \in All \ (1 .. i)
            PROVE  y.sensor[j] = H.sensor[j] /\ y.track[j] = H.track[j]
        <5>1. j # i /\ j \notin 1 .. i - 1
          BY <3>1
        <5> QED BY <3>2, <3>4, <5>1 DEF DetectForm, Elsewhere
      <4> QED BY <4>1, <4>2
    <3> HIDE DEF Judged
    <3> QED BY <3>1, <3>3, <3>6 DEF P
  <2> HIDE DEF P
  <2> QED BY <2>1, <2>2, <2>3 DEF KeptBy
<1>5. f[n] \in P[n]
  <2> HIDE DEF n, P
  <2> QED BY <1>1, <1>2, <1>3, <1>4, LoopKeeps
<1>6. n \in 0 .. n
  BY <1>1
<1>7. f[n] \in SoundHouse /\ Judged(f[n], n)
  <2> HIDE DEF Judged, n
  <2> QED BY <1>5, <1>6
<1> QED BY <1>1, <1>3, <1>7 DEF DetectedForm

-----------------------------------------------------------------------------
(* A house that cools down alike *)

(* A baseline moves by at most one degree, while Adapt per cent of the drop do. *)
LEMMA AdaptedDrop ==
  ASSUME NEW b \in Int, NEW e \in Int, Adapt * (b - e) <= 100 * 100
  PROVE  ((100 - Adapt) * b + Adapt * e) \div 100 - e >= b - e - 100
<1> DEFINE x == (100 - Adapt) * b + Adapt * e
           y == Adapt * (b - e)
<1>1. Adapt \in Int
  BY SensorsAssumption
<1>2. x = 100 * b - y /\ x \in Int /\ y \in Int /\ y <= 10000
  BY <1>1
<1> HIDE DEF x, y
<1>3. x >= 100 * (b - 100)
  BY <1>2
<1>4. x \div 100 >= b - 100 /\ x \div 100 \in Int
  BY <1>2, <1>3
<1>5. x \div 100 - e >= b - e - 100
  BY <1>4
<1> QED BY <1>5 DEF x

LEMMA OthersNumber ==
  ASSUME count \in Nat, NEW i \in Bound
  PROVE  Cardinality(Bound \ {i}) = count - 1 /\ count >= 1
<1>1. Bound = 1 .. count /\ count >= 1
  BY DEF Bound
<1>2. IsFiniteSet(1 .. count) /\ Cardinality(1 .. count) = IF 1 > count THEN 0 ELSE count - 1 + 1
  <2>1. 1 \in Int /\ count \in Int
    OBVIOUS
  <2> QED BY <2>1, FS_Interval, Zenon
<1>3. Cardinality(1 .. count) = count
  BY <1>1, <1>2
<1>4. Cardinality(Bound \ {i}) = Cardinality(Bound) - 1
  BY <1>1, <1>2, FS_RemoveElement
<1> QED BY <1>1, <1>3, <1>4

(* When all the others count, the sum of their drops is that many times the
   least of them. *)
PeersDropBy(S, i, e) ==
  /\ Peers(S, i) = Bound \ {i}
  /\ \A k \in Bound \ {i} : Drop(S, k) \in Int /\ Drop(S, k) >= e

LEMMA PeerDropsAre ==
  ASSUME count \in Nat, NEW S, NEW i \in Bound, NEW e \in Int, PeersDropBy(S, i, e)
  PROVE  PeerDrops(S, i) \in Int /\ PeerDrops(S, i) >= (count - 1) * e
<1> DEFINE n == count
           d(k) == IF k \in Peers(S, i) THEN Drop(S, k) ELSE 0
           Good(f) == f = [k \in 0 .. n |-> IF k = 0 THEN 0 ELSE f[k - 1] + d(k)]
           step == [p \in Int \X (1 .. n) |-> p[1] + d(p[2])]
           others(k) == IF k < i THEN k ELSE k - 1
           P == [k \in 0 .. n |-> {x \in Int : x >= others(k) * e}]
           c == CHOOSE g : Good(g)
<1>1. n \in Nat /\ Bound = 1 .. n /\ i \in 1 .. n /\ i \in Nat
  BY DEF Bound
<1>2. ASSUME NEW k \in 1 .. n PROVE d(k) \in Int /\ (k # i => d(k) >= e) /\ (k = i => d(k) = 0)
  BY <1>1 DEF PeersDropBy
<1> HIDE DEF d
<1>3. step \in [Int \X (1 .. n) -> Int] /\ 0 \in Int
  BY <1>2
<1>4. PICK f : LoopFrom(f, Int, 0, n, step)
  <2> HIDE DEF step, n
  <2> QED BY <1>1, <1>3, LoopRuns
<1>5. /\ f \in [0 .. n -> Int] /\ f[0] = 0
      /\ \A k \in 1 .. n : f[k] = f[k - 1] + d(k)
  <2>1. /\ f \in [0 .. n -> Int] /\ f[0] = 0
        /\ \A k \in 1 .. n : f[k] = step[f[k - 1], k]
    BY <1>4 DEF LoopFrom
  <2>2. ASSUME NEW k \in 1 .. n PROVE step[f[k - 1], k] = f[k - 1] + d(k)
    <3>1. k - 1 \in 0 .. n
      <4> HIDE DEF n
      <4> QED BY <1>1
    <3>2. f[k - 1] \in Int
      BY <2>1, <3>1
    <3> QED BY <3>2
  <2> QED BY <2>1, <2>2
<1>6. Good(f)
  <2>1. \A k \in 0 .. n : f[k] = IF k = 0 THEN 0 ELSE f[k - 1] + d(k)
    BY <1>1, <1>5
  <2> QED BY <1>5, <2>1
<1>7. Good(c)
  BY <1>6
<1>8. PeerDrops(S, i) = c[n]
  BY DEF PeerDrops, d
<1> HIDE DEF c
<1>9. c[0] = 0 /\ \A k \in 1 .. n : c[k] = c[k - 1] + d(k)
  BY <1>1, <1>7
<1>10. \A k \in 0 .. n : c[k] \in P[k]
  <2> DEFINE T == {j \in 1 .. n : c[j] \notin P[j]}
  <2>1. c[0] \in P[0]
    <3>1. others(0) = 0 /\ 0 \in 0 .. n /\ 0 * e = 0
      BY <1>1
    <3> HIDE DEF others
    <3> QED BY <1>9, <3>1
  <2>2. ASSUME T # {} PROVE FALSE
    <3>1. T \in SUBSET (1 .. n)
      OBVIOUS
    <3>2. PICK j \in T : \A k \in 1 .. j - 1 : k \notin T
      <4> HIDE DEF T, n, P
      <4> QED BY <1>1, <2>2, <3>1, FirstPlace
    <3>3. j \in 1 .. n /\ c[j] \notin P[j]
      OBVIOUS
    <3>4. c[j - 1] \in P[j - 1]
      <4>1. (j = 1 /\ j - 1 = 0) \/ (j - 1 \in 1 .. j - 1 /\ j - 1 \in 1 .. n)
        <5> HIDE DEF n, T, P
        <5> QED BY <1>1, <3>3
      <4> HIDE DEF P
      <4> QED BY <2>1, <3>2, <4>1
    <3>5. j - 1 \in 0 .. n /\ j \in 0 .. n /\ j \in Nat /\ others(j) \in Int /\ others(j - 1) \in Int
      <4> HIDE DEF n, T, P
      <4> QED BY <1>1, <3>3
    <3>6. c[j - 1] \in Int /\ c[j - 1] >= others(j - 1) * e
      <4> HIDE DEF others
      <4> QED BY <3>4, <3>5
    <3>7. c[j] = c[j - 1] + d(j) /\ d(j) \in Int
      BY <1>2, <1>9, <3>3
    <3> HIDE DEF T, P
    <3>8. CASE j = i
      <4>1. others(j) = others(j - 1) /\ d(j) = 0
        BY <1>1, <1>2, <3>3, <3>8
      <4>2. c[j] \in Int /\ c[j] >= others(j) * e
        <5> HIDE DEF others
        <5> QED BY <3>6, <3>7, <4>1
      <4> QED BY <3>3, <3>5, <4>2 DEF P
    <3>9. CASE j # i
      <4>1. others(j) = others(j - 1) + 1 /\ d(j) >= e
        BY <1>1, <1>2, <3>3, <3>9
      <4> DEFINE m == others(j - 1)
      <4>2. m \in Int /\ others(j) = m + 1
        BY <3>5, <4>1
      <4>3. c[j - 1] >= m * e /\ c[j - 1] \in Int
        BY <3>6
      <4> HIDE DEF others, m
      <4>4. c[j] \in Int /\ c[j] >= m * e + e
        BY <3>7, <4>1, <4>2, <4>3
      <4>5. (m + 1) * e = m * e + e
        BY <4>2
      <4> QED BY <3>3, <3>5, <4>2, <4>4, <4>5 DEF P
    <3> QED BY <3>8, <3>9
  <2>3. ASSUME NEW k \in 0 .. n PROVE k = 0 \/ k \in 1 .. n
    BY <1>1
  <2> HIDE DEF P
  <2> QED BY <2>1, <2>2, <2>3
<1>11. n \in 0 .. n /\ others(n) = n - 1
  BY <1>1
<1>12. c[n] \in Int /\ c[n] >= others(n) * e
  <2> HIDE DEF others
  <2> QED BY <1>10, <1>11
<1> QED BY <1>8, <1>11, <1>12

LEMMA NoLocalDrop ==
  ASSUME count \in Nat, count > 1, NEW S, NEW i \in Bound, NEW d \in Int,
         Drop(S, i) = d, PeersDropBy(S, i, d - 100)
  PROVE  ~LocalDrop(S, i)
<1> DEFINE n == count - 1
           q == PeerDrops(S, i)
<1>1. d - 100 \in Int
  OBVIOUS
<1>2. q \in Int /\ q >= n * (d - 100)
  BY <1>1, PeerDropsAre
<1>3. Peers(S, i) = Bound \ {i} /\ Cardinality(Peers(S, i)) = n /\ n \in Nat /\ n >= 1
  BY OthersNumber DEF PeersDropBy
<1>4. Peers(S, i) # {}
  BY <1>3, FS_EmptySet
<1> HIDE DEF n, q
<1>5. n * (d - 100) = n * d - 100 * n
  BY <1>3
<1>6. n * d \in Int
  BY <1>3
<1>7. ~(n * d - q > 100 * n)
  BY <1>2, <1>3, <1>5, <1>6
<1> QED BY <1>3, <1>4, <1>7 DEF LocalDrop, q

InUse == {"ok", "simulated", "windowOpen"}

(* A sensor the detectors have looked at and found in use. *)
CalmAt(S, j, d) ==
  /\ Usable(S.sensor[j]) /\ ~S.sensor[j].window
  /\ S.track[j].base # NoTemp /\ Drop(S, j) >= d - 100

LEMMA CalmStep ==
  ASSUME count \in All, count > 1, NEW d \in Int, Adapt * d <= 100 * 100,
         NEW S \in House, NEW i \in Bound, \A k \in Bound \ {i} : CalmAt(S, k, d),
         CalmAt(S, i, d), Drop(S, i) = d
  PROVE  \/ DetectOne(S, i).sensor[i].quality \notin InUse
         \/ CalmAt(DetectOne(S, i), i, d)
<1> DEFINE s == S.sensor[i]
           t == S.track[i]
           W == WindowDetect(S, i)
           X == StaleDetect(W, i)
           b == ((100 - Adapt) * t.base + Adapt * s.eff) \div 100
           v == [t EXCEPT !.base = b]
<1>1. count \in Nat /\ Bound \subseteq All /\ i \in All
  BY BoundType
<1>2. ASSUME NEW k \in All, S.track[k].base # NoTemp
      PROVE  S.track[k].base \in Int /\ S.sensor[k].eff \in Int /\ Drop(S, k) \in Int
  <2>1. S.track[k] \in Track /\ S.sensor[k] \in GoodSensor
    BY DEF House
  <2>2. S.track[k].base \in Int /\ S.sensor[k].eff \in Int
    BY <1>2, <2>1, SensorFields DEF Track
  <2> QED BY <2>2 DEF Drop
<1>3. PeersDropBy(S, i, d - 100)
  <2>1. Peers(S, i) = Bound \ {i}
    BY DEF CalmAt, Peers
  <2>2. \A k \in Bound \ {i} : Drop(S, k) \in Int /\ Drop(S, k) >= d - 100
    BY <1>1, <1>2 DEF CalmAt
  <2> QED BY <2>1, <2>2 DEF PeersDropBy
<1>4. ~LocalDrop(S, i)
  BY <1>1, <1>3, NoLocalDrop
<1>5. /\ s \in GoodSensor /\ t \in Track /\ t.base \in Int /\ s.eff \in Int /\ t.base - s.eff = d
      /\ Usable(s) /\ ~s.window /\ t.base # NoTemp
  BY <1>1, <1>2 DEF House, CalmAt, Drop
<1>6. b \in Int /\ b - s.eff >= d - 100
  <2> HIDE DEF s, t
  <2>1. b \in Int
    BY <1>5, AdaptedType
  <2>2. b - s.eff >= t.base - s.eff - 100
    BY <1>5, AdaptedDrop
  <2> HIDE DEF b
  <2> QED BY <1>5, <2>1, <2>2
<1>7. W = With(S, i, s, v)
  BY <1>4, <1>5 DEF WindowDetect, Track
<1> HIDE DEF b
<1>8. v \in Track /\ v.base = b
  BY <1>5, <1>6, BaseIs
<1> HIDE DEF s, t, v, W
<1>9. W \in House /\ W.sensor[i] = s /\ W.track[i] = v
  BY <1>1, <1>5, <1>7, <1>8, WithIs
<1>10. DetectOne(S, i) = X
  BY <1>5, <1>9 DEF DetectOne, s, W
<1>11. /\ X.track[i].base = b
       /\ \E q \in {s.quality, "stale"} : X.sensor[i] = [s EXCEPT !.quality = q]
  BY <1>1, <1>5, <1>8, <1>9, StaleIs
<1> HIDE DEF X
<1>12. PICK q \in {s.quality, "stale"} : X.sensor[i] = [s EXCEPT !.quality = q]
  BY <1>11
<1>13. q \in Qualities
  BY <1>5, SensorFields DEF Qualities
<1>14. X.sensor[i].quality = q /\ X.sensor[i].window = s.window /\ X.sensor[i].eff = s.eff
  BY <1>5, <1>12, <1>13, QualityIs
<1>15. CASE q = "stale"
  BY <1>10, <1>14, <1>15 DEF InUse
<1>16. CASE q = s.quality
  <2>1. b # NoTemp
    BY <1>6, SensorsAssumption
  <2>2. CalmAt(X, i, d)
    BY <1>5, <1>6, <1>11, <1>14, <1>16, <2>1 DEF CalmAt, Usable, Drop
  <2> QED BY <1>10, <2>2
<1> QED BY <1>12, <1>15, <1>16

(* The loop of a house that cools down by d everywhere: the sensors it has
   looked at are in use and not suppressed, or one of them has gone stale. *)
Falling(H, d) ==
  /\ Adapt * d <= 100 * 100
  /\ \A j \in Bound : /\ Usable(H.sensor[j]) /\ ~H.sensor[j].window
                      /\ H.track[j].base # NoTemp /\ Drop(H, j) = d

LEMMA CalmLoop ==
  ASSUME count \in All, count > 1, NEW d \in Int, NEW H \in SoundHouse, Falling(H, d),
         \A j \in Bound : Detected(H).sensor[j].quality \in InUse
  PROVE  \A j \in Bound : ~Detected(H).sensor[j].window
<1> DEFINE n == count
           Same(S, k) ==
             \A j \in All \ (1 .. k) : S.sensor[j] = H.sensor[j] /\ S.track[j] = H.track[j]
           Calm(S, k) == \A j \in 1 .. k : CalmAt(S, j, d)
           Lost(S, k) == \E j \in 1 .. k : S.sensor[j].quality \notin InUse
           Judged(S, k) == Same(S, k) /\ (Calm(S, k) \/ Lost(S, k))
           P == [k \in 0 .. n |-> {S \in SoundHouse : Judged(S, k)}]
<1>1. n \in Nat /\ n > 0 /\ Bound = 1 .. n /\ Bound \subseteq All
  BY BoundType DEF Bound
<1>2. DetectStep \in [SoundHouse \X (1 .. n) -> SoundHouse]
  BY <1>1, DetectStepType
<1>3. PICK f : LoopFrom(f, SoundHouse, H, n, DetectStep) /\ Detected(H) = f[n]
  BY <1>1, <1>2, DetectedRuns
<1>4. ASSUME NEW S, NEW j \in Bound, S.sensor[j] = H.sensor[j], S.track[j] = H.track[j]
      PROVE  CalmAt(S, j, d) /\ Drop(S, j) = d
  BY <1>4 DEF Falling, CalmAt, Drop
<1>5. ASSUME NEW i \in 1 .. n, NEW x \in SoundHouse, Judged(x, i - 1)
      PROVE  Judged(DetectOne(x, i), i)
  <2> DEFINE y == DetectOne(x, i)
  <2>1. i \in All /\ i \in Bound
    BY <1>1
  <2>2. x \in House /\ DetectForm(x, y, i)
    <3>1. x \in House /\ Sound(x.sensor[i], x.track[i])
      BY <2>1 DEF SoundHouse
    <3> QED BY <2>1, <3>1, DetectOneIs
  <2>3. \A j \in All \ {i} : y.sensor[j] = x.sensor[j] /\ y.track[j] = x.track[j]
    BY <2>2 DEF DetectForm, Elsewhere
  <2>4. Same(y, i)
    <3>1. ASSUME NEW j \in All \ (1 .. i) PROVE j # i /\ j \notin 1 .. i - 1
      OBVIOUS
    <3> HIDE DEF y
    <3> QED BY <1>5, <2>3, <3>1
  <2>5. ASSUME NEW j \in 1 .. i - 1 PROVE j \in 1 .. i /\ j # i /\ j \in All
    <3>1. j \in 1 .. n
      <4> HIDE DEF n
      <4> QED BY <1>1
    <3> QED BY <1>1, <3>1
  <2>6. CASE Lost(x, i - 1)
    <3>1. Lost(y, i)
      <4> HIDE DEF y
      <4> QED BY <2>3, <2>5, <2>6
    <3> QED BY <2>4, <3>1
  <2>7. CASE Calm(x, i - 1)
    <3>1. ASSUME NEW k \in Bound \ {i} PROVE CalmAt(x, k, d)
      <4>1. CASE k \in 1 .. i - 1
        BY <2>7, <4>1
      <4>2. CASE k \notin 1 .. i - 1
        <5>1. k \in All
          BY <1>1
        <5> QED BY <1>4, <1>5, <4>2, <5>1
      <4> QED BY <4>1, <4>2
    <3>2. CalmAt(x, i, d) /\ Drop(x, i) = d
      <4>1. i \notin 1 .. i - 1
        OBVIOUS
      <4> QED BY <1>4, <1>5, <2>1, <4>1
    <3>3. Adapt * d <= 100 * 100
      BY DEF Falling
    <3>4. y.sensor[i].quality \notin InUse \/ CalmAt(y, i, d)
      BY <2>1, <2>2, <3>1, <3>2, <3>3, CalmStep
    <3> HIDE DEF y
    <3>5. i \in 1 .. i
      OBVIOUS
    <3>6. CASE y.sensor[i].quality \notin InUse
      BY <2>4, <3>5, <3>6 DEF y
    <3>7. CASE CalmAt(y, i, d)
      <4>1. ASSUME NEW j \in 1 .. i PROVE CalmAt(y, j, d)
        <5>1. CASE j = i
          BY <3>7, <5>1
        <5>2. CASE j # i
          <6>1. j \in 1 .. i - 1
            BY <5>2
          <6>2. CalmAt(x, j, d) /\ y.sensor[j] = x.sensor[j] /\ y.track[j] = x.track[j]
            BY <2>3, <2>5, <2>7, <6>1
          <6> QED BY <6>2 DEF CalmAt, Drop
        <5> QED BY <5>1, <5>2
      <4> QED BY <2>4, <4>1 DEF y
    <3> QED BY <3>4, <3>6, <3>7
  <2> QED BY <1>5, <2>6, <2>7
<1>6. Judged(H, 0)
  <2>1. 1 .. 0 = {}
    OBVIOUS
  <2> QED BY <2>1
<1> HIDE DEF Judged
<1>7. KeptBy(P, SoundHouse, H, n, DetectStep)
  <2>1. P \in [0 .. n -> SUBSET SoundHouse]
    OBVIOUS
  <2>2. H \in P[0]
    <3>1. 0 \in 0 .. n
      BY <1>1
    <3> QED BY <1>6, <3>1
  <2>3. ASSUME NEW i \in 1 .. n, NEW x \in P[i - 1] PROVE DetectStep[x, i] \in P[i]
    <3>1. i \in 0 .. n /\ i - 1 \in 0 .. n /\ i \in Bound
      <4> HIDE DEF n, P
      <4> QED BY <1>1
    <3>2. x \in SoundHouse /\ Judged(x, i - 1)
      BY <3>1
    <3> HIDE DEF P
    <3>3. DetectStep[x, i] = DetectOne(x, i)
      BY <3>1, <3>2 DEF DetectStep
    <3>4. DetectStep[x, i] \in SoundHouse
      <4> HIDE DEF n
      <4> QED BY <1>1, <1>2, <3>1, <3>2
    <3>5. Judged(DetectOne(x, i), i)
      BY <1>5, <3>2
    <3> QED BY <3>1, <3>3, <3>4, <3>5 DEF P
  <2> HIDE DEF P
  <2> QED BY <2>1, <2>2, <2>3 DEF KeptBy
<1>8. f[n] \in P[n]
  <2> HIDE DEF n, P
  <2> QED BY <1>1, <1>2, <1>3, <1>7, LoopKeeps
<1>9. Judged(f[n], n)
  <2>1. n \in 0 .. n
    BY <1>1
  <2> HIDE DEF n
  <2> QED BY <1>8, <2>1
<1>10. Calm(f[n], n)
  <2>1. ~Lost(f[n], n)
    BY <1>1, <1>3
  <2> QED BY <1>9, <2>1 DEF Judged
<1> QED BY <1>1, <1>3, <1>10 DEF CalmAt

-----------------------------------------------------------------------------
(* The invariant *)

SensorInv ==
  /\ Typed
  /\ \A i \in All : Sound(sensor[i], track[i]) /\ Below(sensor[i], track[i])
  /\ polled => \A i \in Bound : Usable(sensor[i]) => sensor[i].active
  /\ UsableIsFresh

(* What a poll does to one sensor, from s and its track t to u and v. *)
PollForm(s, t, u, v) ==
  /\ Sound(u, v) /\ Below(u, v)
  /\ Usable(u) => u.active
  /\ u.quality = "ok" \/ (Usable(u) /\ Simulated(u)) => u.age <= Timeout
  /\ Usable(u) /\ ~Usable(s) => u.age = 0 /\ InRange(u.raw)

(* The loops hand the detectors a sensor they can judge, and their verdict
   brings no old reading back: one that comes back from a window has moved. *)
LEMMA OneSensor ==
  ASSUME NEW s \in GoodSensor, NEW t \in Track, NEW p, NEW r \in Track, NEW u, NEW v,
         Sound(s, t), Below(s, t), Stage(s, p), r.base = t.base, Verdict(p, r, u, v)
  PROVE  Sound(p, r) /\ PollForm(s, t, u, v)
<1>1. p \in GoodSensor /\ p.age \in Int /\ s.eff \in Int /\ Timeout \in Nat
  <2>1. p \in GoodSensor
    BY DEF Stage
  <2> QED BY <2>1, SensorFields, SensorsAssumption
<1>2. Sound(p, r)
  BY DEF Stage, Sound
<1>3. Usable(u) => Usable(p) /\ u.active = p.active /\ p.active
  BY DEF Verdict, Stage
<1>4. Usable(u) /\ ~Usable(s) => u.age = 0 /\ InRange(u.raw)
  BY <1>3 DEF Verdict, Stage
<1>5. ASSUME u.quality = "ok" /\ p.quality # "ok"
      PROVE  u.age <= Timeout
  <2>1. p.window /\ r.base - p.eff < 40
    BY <1>5 DEF Verdict
  <2>2. s.window /\ Usable(p)
    BY <1>3, <1>5, <2>1 DEF Stage, Usable
  <2>3. CASE Usable(s) /\ p.eff = s.eff
    <3>1. t.base \in Int /\ t.base - s.eff >= 40
      BY <2>2, <2>3 DEF Below, Sound, Track
    <3> QED BY <1>1, <2>1, <2>3, <3>1
  <2>4. CASE p.age = 0
    BY <1>1, <2>4 DEF Verdict
  <2> QED BY <2>2, <2>3, <2>4 DEF Stage
<1>6. ASSUME u.quality = "ok" /\ p.quality = "ok"
      PROVE  u.age <= Timeout
  BY <1>6 DEF Verdict, Stage
<1>7. ASSUME Usable(u) /\ Simulated(u)
      PROVE  u.age <= Timeout
  BY <1>3, <1>7 DEF Verdict, Stage, Simulated
<1>8. u.quality = "ok" \/ (Usable(u) /\ Simulated(u)) => u.age <= Timeout
  BY <1>5, <1>6, <1>7
<1> QED BY <1>2, <1>3, <1>4, <1>8 DEF PollForm, Verdict

(* sensor_manager_poll *)
PollResult ==
  /\ Typed'
  /\ \A i \in Bound : PollForm(sensor[i], track[i], sensor'[i], track'[i])
  /\ \A i \in All \ Bound : sensor'[i] = sensor[i] /\ track'[i] = track[i]
  /\ count' = count

(* The detectors judge what the loops before theirs have left. *)
LEMMA PollRuns ==
  ASSUME SensorInv, Poll
  PROVE  \E H \in SoundHouse : /\ HeardForm(H) /\ DetectedForm(H, Detected(H))
                               /\ sensor' = Detected(H).sensor /\ track' = Detected(H).track
<1>1. PICK sim \in SimValues, reply \in Replies :
        \E S \in {Detected(Heard(sim, reply))} : sensor' = S.sensor /\ track' = S.track
  BY DEF Poll
<1> DEFINE H == Heard(sim, reply)
<1>2. sensor' = Detected(H).sensor /\ track' = Detected(H).track
  BY <1>1
<1>3. /\ Typed /\ count \in All /\ Bound \subseteq All
      /\ sensor \in [All -> GoodSensor] /\ track \in [All -> Track]
      /\ \A i \in All : Sound(sensor[i], track[i]) /\ Below(sensor[i], track[i])
  BY BoundType DEF SensorInv, Typed
<1>4. HeardForm(H)
  BY <1>3, HeardIs
<1> HIDE DEF H
<1>5. H \in SoundHouse
  <2>1. ASSUME NEW i \in Bound PROVE Sound(H.sensor[i], H.track[i])
    <3>1. Sound(sensor[i], track[i]) /\ Stage(sensor[i], H.sensor[i]) /\ H.track[i].base = track[i].base
      BY <1>3, <1>4 DEF HeardForm
    <3> QED BY <3>1 DEF Stage, Sound
  <2>2. ASSUME NEW i \in All \ Bound PROVE Sound(H.sensor[i], H.track[i])
    BY <1>3, <1>4 DEF HeardForm
  <2>3. H \in House
    BY <1>4 DEF HeardForm
  <2> QED BY <2>1, <2>2, <2>3 DEF SoundHouse
<1>6. DetectedForm(H, Detected(H))
  BY <1>3, <1>5, DetectedIs
<1> QED BY <1>2, <1>4, <1>5, <1>6

LEMMA PollIs ==
  ASSUME SensorInv, Poll
  PROVE  PollResult
<1>1. PICK H \in SoundHouse : /\ HeardForm(H) /\ DetectedForm(H, Detected(H))
                              /\ sensor' = Detected(H).sensor /\ track' = Detected(H).track
  BY PollRuns
<1> DEFINE S == Detected(H)
<1>2. sensor' = S.sensor /\ track' = S.track
  BY <1>1
<1>3. /\ Typed /\ count \in All /\ Bound \subseteq All
      /\ sensor \in [All -> GoodSensor] /\ track \in [All -> Track]
      /\ \A i \in All : Sound(sensor[i], track[i]) /\ Below(sensor[i], track[i])
  BY BoundType DEF SensorInv, Typed
<1>4. HeardForm(H)
  BY <1>1
<1>6. DetectedForm(H, S)
  BY <1>1
<1> HIDE DEF S
<1>7. ASSUME NEW i \in Bound PROVE PollForm(sensor[i], track[i], S.sensor[i], S.track[i])
  <2>1. /\ i \in All /\ sensor[i] \in GoodSensor /\ track[i] \in Track
        /\ Sound(sensor[i], track[i]) /\ Below(sensor[i], track[i])
    BY <1>3
  <2>2. Stage(sensor[i], H.sensor[i]) /\ H.track[i].base = track[i].base /\ H.track[i] \in Track
    BY <1>4, <2>1 DEF HeardForm, House
  <2>3. Verdict(H.sensor[i], H.track[i], S.sensor[i], S.track[i])
    BY <1>6 DEF DetectedForm
  <2> QED BY <2>1, <2>2, <2>3, OneSensor
<1>8. \A i \in All \ Bound : S.sensor[i] = sensor[i] /\ S.track[i] = track[i]
  BY <1>4, <1>6 DEF HeardForm, DetectedForm
<1>9. S.sensor \in [All -> GoodSensor] /\ S.track \in [All -> Track]
  BY <1>6 DEF DetectedForm, SoundHouse, House
<1>10. /\ count' = count /\ heatSim' = heatSim /\ polled' = TRUE
       /\ uptime' \in 0 .. Timeout + 1
  BY <1>3, SensorsAssumption DEF Poll, Typed
<1>11. Typed'
  BY <1>2, <1>3, <1>9, <1>10 DEF Typed
<1> QED BY <1>2, <1>7, <1>8, <1>10, <1>11 DEF PollResult

LEMMA PollSteps ==
  ASSUME SensorInv, Poll
  PROVE  SensorInv'
<1>1. PollResult
  BY PollIs
<1>2. /\ Typed' /\ count' = count
      /\ \A i \in Bound : PollForm(sensor[i], track[i], sensor'[i], track'[i])
      /\ \A i \in All \ Bound : sensor'[i] = sensor[i] /\ track'[i] = track[i]
  BY <1>1 DEF PollResult
<1>3. Bound' = Bound
  BY <1>2 DEF Bound
<1>4. ASSUME NEW i \in All PROVE Sound(sensor'[i], track'[i]) /\ Below(sensor'[i], track'[i])
  <2>1. CASE i \in Bound
    BY <1>2, <2>1 DEF PollForm
  <2>2. CASE i \notin Bound
    BY <1>2, <2>2 DEF SensorInv
  <2> QED BY <2>1, <2>2
<1>5. \A i \in Bound : Usable(sensor'[i]) => sensor'[i].active
  BY <1>2 DEF PollForm
<1>6. UsableIsFresh'
  <2>1. \A i \in Bound' :
          sensor'[i].quality = "ok" \/ (Usable(sensor'[i]) /\ Simulated(sensor'[i]))
            => sensor'[i].age <= Timeout
    BY <1>2, <1>3 DEF PollForm
  <2> QED BY <2>1 DEF UsableIsFresh
<1> QED BY <1>2, <1>3, <1>4, <1>5, <1>6 DEF SensorInv

-----------------------------------------------------------------------------
(* The handlers *)

LEMMA NewSensorIs ==
  /\ NewSensor \in GoodSensor
  /\ NewSensor.quality = "timeout" /\ NewSensor.window = FALSE
<1>1. <<>> \in Seq(Int) /\ Len(<<>>) = 0 /\ AvgWindow \in Nat /\ 0 \in 0 .. Timeout + 1
  BY SensorsAssumption
<1> QED BY <1>1 DEF NewSensor, GoodSensor, Sensor, Qualities, SourceSet

Handled ==
  /\ sensor' \in [All -> GoodSensor] /\ track' \in [All -> Track]
  /\ count' \in All /\ heatSim' \in BOOLEAN
  /\ \A i \in All : Sound(sensor'[i], track'[i]) /\ Below(sensor'[i], track'[i])

(* A handler leaves every sensor as the detectors can judge it; polled is
   FALSE after it, so the control tick reads nothing of what it leaves. *)
LEMMA HandlerSteps ==
  ASSUME SensorInv, Handler
  PROVE  SensorInv'
<1>1. /\ sensor \in [All -> GoodSensor] /\ track \in [All -> Track] /\ count \in All
      /\ heatSim \in BOOLEAN /\ Bound \subseteq All
      /\ \A i \in All : Sound(sensor[i], track[i]) /\ Below(sensor[i], track[i])
  BY BoundType DEF SensorInv, Typed
<1>2. polled' = FALSE /\ uptime' = uptime /\ uptime \in 0 .. Timeout + 1
  BY DEF Handler, SensorInv, Typed
<1>3. SUFFICES Handled
  BY <1>2 DEF Handled, SensorInv, Typed, UsableIsFresh
<1>4. ASSUME NEW i \in Bound, PostSensor(i) PROVE Handled
  <2>1. PICK a \in BOOLEAN, w \in {0, 1}, o \in Offsets :
          sensor' = [sensor EXCEPT ![i].active = a, ![i].weight = w, ![i].offset = o]
    BY <1>4 DEF PostSensor
  <2> DEFINE u == [sensor[i] EXCEPT !.active = a, !.weight = w, !.offset = o]
  <2>2. i \in All /\ sensor[i] \in GoodSensor /\ o \in Int
    BY <1>1, SensorsAssumption
  <2>3. /\ u \in GoodSensor /\ u.quality = sensor[i].quality /\ u.window = sensor[i].window
        /\ u.eff = sensor[i].eff
    BY <2>2 DEF GoodSensor, Sensor
  <2>4. sensor' = [sensor EXCEPT ![i] = u]
    BY <1>1, <2>1
  <2> HIDE DEF u
  <2>5. track' = track /\ count' = count /\ heatSim' = heatSim
    BY <1>4 DEF PostSensor
  <2>6. Sound(u, track[i]) /\ Below(u, track[i])
    BY <1>1, <2>2, <2>3 DEF Sound, Below, Usable
  <2> QED BY <1>1, <2>2, <2>3, <2>4, <2>5, <2>6 DEF Handled
<1>5. ASSUME NEW i \in Bound, Restore(i) PROVE Handled
  <2> DEFINE s == sensor[i]
             q == IF Simulated(s) THEN "simulated" ELSE "ok"
             u == [s EXCEPT !.window = FALSE, !.quality = q]
             v == [track[i] EXCEPT !.base = s.eff]
  <2>1. i \in All /\ s \in GoodSensor /\ track[i] \in Track /\ s.eff \in Int
    <3>1. i \in All /\ s \in GoodSensor /\ track[i] \in Track
      BY <1>1
    <3> QED BY <3>1, SensorFields
  <2>2. v \in Track
    BY <2>1, BaseIs
  <2>3. sensor' = [sensor EXCEPT ![i] = u] /\ track' = [track EXCEPT ![i] = v]
    BY <1>1, <1>5 DEF Restore
  <2>4. q \in {"ok", "simulated"}
    OBVIOUS
  <2> HIDE DEF q, v
  <2>5. u \in GoodSensor /\ u.quality = q /\ u.window = FALSE
    BY <2>1, <2>4 DEF GoodSensor, Sensor, Qualities
  <2> HIDE DEF u, s
  <2>6. Sound(u, v) /\ Below(u, v)
    BY <2>4, <2>5 DEF Sound, Below
  <2>7. count' = count /\ heatSim' = heatSim
    BY <1>5 DEF Restore
  <2> QED BY <1>1, <2>1, <2>2, <2>3, <2>5, <2>6, <2>7 DEF Handled
<1>6. ASSUME NEW i \in Bound, SimSensor(i) PROVE Handled
  <2>1. PICK src \in Sources : sensor' = [sensor EXCEPT ![i].src = src]
    BY <1>6 DEF SimSensor
  <2> DEFINE u == [sensor[i] EXCEPT !.src = src]
  <2>2. i \in All /\ sensor[i] \in GoodSensor /\ src \in SourceSet
    BY <1>1, SensorsAssumption
  <2>3. /\ u \in GoodSensor /\ u.quality = sensor[i].quality /\ u.window = sensor[i].window
        /\ u.eff = sensor[i].eff
    BY <2>2 DEF GoodSensor, Sensor
  <2>4. sensor' = [sensor EXCEPT ![i] = u]
    BY <1>1, <2>1
  <2> HIDE DEF u
  <2>5. track' = track /\ count' = count /\ heatSim' = heatSim
    BY <1>6 DEF SimSensor
  <2>6. Sound(u, track[i]) /\ Below(u, track[i])
    BY <1>1, <2>2, <2>3 DEF Sound, Below, Usable
  <2> QED BY <1>1, <2>2, <2>3, <2>4, <2>5, <2>6 DEF Handled
<1>7. ASSUME NEW en \in BOOLEAN, SimHeating(en) PROVE Handled
  <2> DEFINE src(i) == IF en /\ sensor[i].src = "real" THEN "virtual"
                       ELSE IF ~en /\ sensor[i].src = "virtual" THEN "real" ELSE sensor[i].src
             u(i) == IF i \in Bound /\ sensor[i].active
                     THEN [sensor[i] EXCEPT !.src = src(i)] ELSE sensor[i]
  <2>1. ASSUME NEW i \in All
        PROVE  /\ u(i) \in GoodSensor /\ u(i).quality = sensor[i].quality
               /\ u(i).window = sensor[i].window /\ u(i).eff = sensor[i].eff
    <3>1. sensor[i] \in GoodSensor /\ sensor[i].src \in SourceSet
      BY <1>1, SensorFields
    <3>2. src(i) \in SourceSet
      BY <3>1 DEF SourceSet
    <3> HIDE DEF src
    <3> QED BY <3>1, <3>2 DEF GoodSensor, Sensor
  <2>2. sensor' = [i \in All |-> u(i)]
    <3>1. sensor' = [i \in All |->
            IF i \in Bound /\ sensor[i].active
            THEN [sensor[i] EXCEPT !.src = IF en /\ @ = "real" THEN "virtual"
                                      ELSE IF ~en /\ @ = "virtual" THEN "real" ELSE @]
            ELSE sensor[i]]
      BY <1>7 DEF SimHeating
    <3>2. ASSUME NEW i \in All
          PROVE  [sensor[i] EXCEPT !.src = IF en /\ @ = "real" THEN "virtual"
                                      ELSE IF ~en /\ @ = "virtual" THEN "real" ELSE @]
                   = [sensor[i] EXCEPT !.src = src(i)]
      BY <1>1 DEF GoodSensor, Sensor
    <3> HIDE DEF src
    <3> QED BY <3>1, <3>2
  <2> HIDE DEF u
  <2>3. track' = track /\ count' = count /\ heatSim' = en
    BY <1>7 DEF SimHeating
  <2>4. \A i \in All : Sound(u(i), track[i]) /\ Below(u(i), track[i])
    BY <1>1, <2>1 DEF Sound, Below, Usable
  <2> QED BY <1>1, <2>1, <2>2, <2>3, <2>4 DEF Handled
<1>8. ASSUME NEW n \in All, SensorsCount(n) PROVE Handled
  <2>1. sensor' = [i \in All |-> IF count < i /\ i <= n THEN [NewSensor EXCEPT !.age = uptime]
                                                    ELSE sensor[i]]
    BY <1>8 DEF SensorsCount
  <2> DEFINE new == [NewSensor EXCEPT !.age = uptime]
  <2>2. new \in GoodSensor /\ new.quality = "timeout" /\ new.window = FALSE
    BY <1>2, NewSensorIs DEF GoodSensor, Sensor
  <2> HIDE DEF new
  <2>3. \A i \in All : Sound(new, track[i]) /\ Below(new, track[i])
    BY <2>2 DEF Sound, Below
  <2>4. \A i \in All : sensor'[i] \in {new, sensor[i]}
    BY <2>1 DEF new
  <2>5. DOMAIN sensor' = All /\ sensor' = [i \in All |-> sensor'[i]]
    BY <2>1
  <2>6. track' = track /\ count' = n /\ heatSim' = heatSim
    BY <1>8 DEF SensorsCount
  <2> QED BY <1>1, <2>2, <2>3, <2>4, <2>5, <2>6 DEF Handled
<1> QED BY <1>4, <1>5, <1>6, <1>7, <1>8 DEF Handler

LEMMA SensorsStart == Init => SensorInv
<1> SUFFICES ASSUME Init PROVE SensorInv
  OBVIOUS
<1>1. NewSensor \in GoodSensor /\ NewSensor.quality = "timeout" /\ NewSensor.window = FALSE
  BY NewSensorIs
<1>2. [base |-> NoTemp, prev |-> NoTemp, still |-> 0] \in Track
  <2>1. 0 \in 0 .. StaleAfter + 1
    BY SensorsAssumption
  <2> QED BY <2>1 DEF Track
<1>3. 0 \in 0 .. Timeout + 1
  BY SensorsAssumption
<1>4. Typed /\ \A i \in All : sensor[i] = NewSensor
  BY <1>1, <1>2, <1>3, SensorsAssumption DEF Init, Typed
<1> QED BY <1>1, <1>4 DEF Init, SensorInv, Sound, Below, UsableIsFresh

LEMMA SensorsStep == SensorInv /\ [Next]_vars => SensorInv'
<1> SUFFICES ASSUME SensorInv, [Next]_vars PROVE SensorInv'
  OBVIOUS
<1>1. CASE UNCHANGED vars
  BY <1>1 DEF vars, SensorInv, Typed, Sound, Below, Usable, UsableIsFresh, Simulated, Bound
<1>2. CASE Poll
  BY <1>2, PollSteps
<1>3. CASE Handler
  BY <1>3, HandlerSteps
<1> QED BY <1>1, <1>2, <1>3 DEF Next

LEMMA SensorsKeep == Spec => []SensorInv
BY SensorsStart, SensorsStep, PTL DEF Spec

-----------------------------------------------------------------------------
(* The theorems *)

(* The sensors and the tracks of the detectors keep their types, and the ring
   of samples its length, through every poll and every handler. *)
THEOREM TypeCorrect == Spec => []TypeOK
<1>1. SensorInv => TypeOK
  BY DEF SensorInv, Typed, TypeOK, GoodSensor
<1> QED BY <1>1, SensorsKeep, PTL

(* A suppressed sensor is never OK, whichever of parse_frame, the detectors,
   the validation and the handlers wrote its quality last. *)
THEOREM SuppressedStaysOut == Spec => []SuppressedIsNotOk
<1>1. SensorInv => SuppressedIsNotOk
  BY DEF SensorInv, Sound, SuppressedIsNotOk
<1> QED BY <1>1, SensorsKeep, PTL

(* After a poll, a real sensor that is OK and a simulated one in use have a
   reading no older than HE_SENSOR_TIMEOUT_SEC: even the sensor that comes back
   from an open window has just been read. *)
THEOREM ReadingsAreFresh == Spec => []UsableIsFresh
<1>1. SensorInv => UsableIsFresh
  BY DEF SensorInv
<1> QED BY <1>1, SensorsKeep, PTL

(* When every sensor has a share, sensor_manager_system_temp has nothing to
   weigh exactly when sensor_manager_healthy_count is zero. *)
THEOREM BlindnessIsReported == Spec => []BlindIsReported
<1>1. SensorInv => BlindIsReported
  <2> SUFFICES ASSUME SensorInv, polled, \A i \in Bound : sensor[i].weight > 0
               PROVE  Blind <=> HealthyCount = 0
    BY DEF BlindIsReported
  <2> DEFINE G == {i \in Bound : Usable(sensor[i])}
  <2>1. Counted = G
    BY DEF SensorInv, Counted
  <2>2. IsFiniteSet(G)
    <3>1. 1 \in Int /\ count \in Int
      BY BoundType DEF SensorInv, Typed
    <3>2. IsFiniteSet(1 .. count)
      BY <3>1, FS_Interval, Zenon
    <3>3. G \subseteq 1 .. count
      BY DEF Bound
    <3> HIDE DEF G
    <3> QED BY <3>2, <3>3, FS_Subset
  <2>3. G = {} <=> Cardinality(G) = 0
    <3> HIDE DEF G
    <3> QED BY <2>2, FS_EmptySet
  <2> QED BY <2>1, <2>3 DEF Blind, HealthyCount
<1> QED BY <1>1, SensorsKeep, PTL

(* A poll takes a sensor back into the average only for a reading of that very
   poll that lies in the logical range. *)
THEOREM SensorsReturnByReading == Spec => ReturnsByReading
<1> DEFINE Back == polled' => \A i \in Bound :
             Usable(sensor'[i]) /\ ~Usable(sensor[i])
               => sensor'[i].age = 0 /\ InRange(sensor'[i].raw)
<1>1. SensorInv /\ [Next]_vars => [Back]_vars
  <2> SUFFICES ASSUME SensorInv, Next PROVE Back
    OBVIOUS
  <2>1. CASE Poll
    <3>1. PollResult
      BY <2>1, PollIs
    <3> QED BY <3>1 DEF PollResult, PollForm
  <2>2. CASE Handler
    BY <2>2 DEF Handler
  <2> QED BY <2>1, <2>2 DEF Next
<1> HIDE DEF Back
<1>2. Spec => [][Back]_vars
  BY <1>1, SensorsKeep, PTL DEF Spec
<1> QED BY <1>2 DEF Back, ReturnsByReading

(* A house that cools down alike opens no window: a baseline that the loop has
   moved before the others are compared with it stays within a degree. *)
THEOREM CoolDownOpensNoWindow == Spec => CoolDownIsNoWindow
<1> DEFINE Alike(i) ==
             /\ ~sensor[i].window /\ track[i].base # NoTemp
             /\ sensor'[i].quality \in {"ok", "simulated", "windowOpen"}
             /\ track[i].base - sensor'[i].eff = track[1].base - sensor'[1].eff
           Calm == polled' /\ count > 1 /\ (\A i \in Bound : Alike(i))
                   /\ Adapt * (track[1].base - sensor'[1].eff) <= 100 * 100
                   => \A i \in Bound : ~sensor'[i].window
<1>1. SensorInv /\ [Next]_vars => [Calm]_vars
  <2> SUFFICES ASSUME SensorInv, Next, polled', count > 1, \A i \in Bound : Alike(i),
                      Adapt * (track[1].base - sensor'[1].eff) <= 100 * 100
               PROVE  \A i \in Bound : ~sensor'[i].window
    OBVIOUS
  <2>1. Poll
    BY DEF Next, Handler
  <2>2. PICK H \in SoundHouse :
          HeardForm(H) /\ DetectedForm(H, Detected(H)) /\ sensor' = Detected(H).sensor
    BY <2>1, PollRuns
  <2> DEFINE d == track[1].base - sensor'[1].eff
             S == Detected(H)
  <2>3. /\ count \in All /\ count \in Nat /\ Bound \subseteq All /\ 1 \in Bound
        /\ sensor \in [All -> GoodSensor] /\ track \in [All -> Track]
        /\ \A i \in All : Sound(sensor[i], track[i])
    <3>1. count \in All /\ count \in Nat /\ count > 0
      BY BoundType DEF SensorInv, Typed
    <3> QED BY <3>1, BoundType DEF SensorInv, Typed, Bound
  <2>4. ASSUME NEW i \in Bound
        PROVE  /\ Usable(H.sensor[i]) /\ ~H.sensor[i].window
               /\ H.track[i].base # NoTemp /\ H.track[i].base = track[i].base
               /\ H.sensor[i].eff = sensor'[i].eff
    <3>1. Stage(sensor[i], H.sensor[i]) /\ H.track[i].base = track[i].base
      BY <2>2 DEF HeardForm
    <3>2. Verdict(H.sensor[i], H.track[i], sensor'[i], S.track[i])
      BY <2>2 DEF DetectedForm
    <3>3. ~sensor[i].window /\ Sound(sensor[i], track[i])
      BY <2>3
    <3> QED BY <3>1, <3>2, <3>3 DEF Stage, Verdict, Sound, Usable
  <2>5. d \in Int
    <3>1. track[1].base # NoTemp /\ track[1] \in Track /\ H.sensor[1] \in GoodSensor
      BY <2>2, <2>3 DEF SoundHouse, House
    <3>2. track[1].base \in Int /\ H.sensor[1].eff \in Int
      BY <3>1, SensorFields DEF Track
    <3> QED BY <2>3, <2>4, <3>2
  <2>6. Falling(H, d)
    BY <2>4 DEF Falling, Drop
  <2> HIDE DEF d
  <2>7. \A j \in Bound : S.sensor[j].quality \in InUse
    BY <2>2 DEF InUse
  <2>8. \A j \in Bound : ~S.sensor[j].window
    BY <2>3, <2>5, <2>6, <2>7, CalmLoop
  <2> QED BY <2>2, <2>8
<1> HIDE DEF Calm
<1>2. Spec => [][Calm]_vars
  BY <1>1, SensorsKeep, PTL DEF Spec
<1> QED BY <1>2 DEF Calm, CoolDownIsNoWindow
=============================================================================
