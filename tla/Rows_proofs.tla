------------------------------ MODULE Rows_proofs ------------------------------
(***************************************************************************)
(* Proofs about the day's rollover, daily.csv and its clean-up at boot, and *)
(* the chart, for every length of a day that fits the ring.                *)
(***************************************************************************)
EXTENDS Download_proofs

-----------------------------------------------------------------------------
(* Days *)

LEMMA DayLenType == DayLen \in Nat /\ DayLen > 0 /\ DayLen <= RingSize
BY DayAssumption, SizeType

LEMMA DayType == ASSUME NEW t \in Nat PROVE Day(t) \in Nat
<1>1. DayLen \in Nat /\ DayLen > 0
  BY DayLenType
<1> QED BY <1>1 DEF Day

(* The days go up with the time. *)
LEMMA DayGoesUp ==
  ASSUME NEW a \in Nat, NEW b \in Nat, a <= b
  PROVE  Day(a) <= Day(b)
<1>1. DayLen \in Nat /\ DayLen > 0
  BY DayLenType
<1>2. /\ a = DayLen * (a \div DayLen) + (a % DayLen) /\ a % DayLen \in 0 .. DayLen - 1
      /\ b = DayLen * (b \div DayLen) + (b % DayLen) /\ b % DayLen \in 0 .. DayLen - 1
      /\ a \div DayLen \in Nat /\ b \div DayLen \in Nat
  BY <1>1
<1> QED BY <1>1, <1>2 DEF Day

(* Times a whole day apart are of different days. *)
LEMMA DayApart ==
  ASSUME NEW a \in Nat, NEW b \in Nat, b - a >= DayLen
  PROVE  Day(a) < Day(b)
<1>1. DayLen \in Nat /\ DayLen > 0
  BY DayLenType
<1>2. /\ a = DayLen * (a \div DayLen) + (a % DayLen) /\ a % DayLen \in 0 .. DayLen - 1
      /\ b = DayLen * (b \div DayLen) + (b % DayLen) /\ b % DayLen \in 0 .. DayLen - 1
      /\ a \div DayLen \in Nat /\ b \div DayLen \in Nat
  BY <1>1
<1> QED BY <1>1, <1>2 DEF Day

-----------------------------------------------------------------------------
(* Sets of places *)

LEMMA PlacesFinite ==
  ASSUME NEW n \in Nat, NEW S \in SUBSET (1 .. n)
  PROVE  IsFiniteSet(S) /\ Cardinality(S) \in 0 .. n
<1>1. 1 \in Int /\ n \in Int
  OBVIOUS
<1>2. IsFiniteSet(1 .. n) /\ Cardinality(1 .. n) = IF 1 > n THEN 0 ELSE n - 1 + 1
  BY <1>1, FS_Interval, Zenon
<1>3. IsFiniteSet(S) /\ Cardinality(S) <= Cardinality(1 .. n) /\ Cardinality(S) \in Nat
  BY <1>2, FS_Subset, FS_CardinalityType
<1> QED BY <1>2, <1>3

(* A one-to-one correspondence keeps the size. *)
LEMMA SameSize ==
  ASSUME NEW S, IsFiniteSet(S), NEW T, NEW f \in [S -> T],
         \A x, y \in S : f[x] = f[y] => x = y,
         \A z \in T : \E x \in S : f[x] = z
  PROVE  IsFiniteSet(T) /\ Cardinality(T) = Cardinality(S)
<1>1. f \in Surjection(S, T)
  BY DEF Surjection
<1>2. f \in Injection(S, T)
  BY DEF Injection, IsInjective
<1> QED BY <1>1, <1>2, FS_Surjection

(* A list of every element of K, by ascending key. *)
OrderForm(o, K, key) ==
  /\ Cardinality(K) \in Nat
  /\ \A n \in 1 .. Cardinality(K) : o[n] \in K
  /\ \A a, b \in 1 .. Cardinality(K) : a < b => key[o[a]] < key[o[b]]
  /\ \A i \in K : \E n \in 1 .. Cardinality(K) : o[n] = i
  /\ \A n \in 1 .. Cardinality(K) : Cardinality({j \in K : key[j] <= key[o[n]]}) = n

OneToOne(K, key) == key \in [K -> Nat] /\ \A i, j \in K : key[i] = key[j] => i = j

LEMMA InOrderIs ==
  ASSUME NEW K, IsFiniteSet(K), NEW key, OneToOne(K, key)
  PROVE  OrderForm(InOrder(K, key), K, key)
<1>0. key \in [K -> Nat] /\ \A i, j \in K : key[i] = key[j] => i = j
  BY DEF OneToOne
<1> DEFINE Below(i) == {j \in K : key[j] <= key[i]}
           N == Cardinality(K)
           o == InOrder(K, key)
           rank == [i \in K |-> Cardinality(Below(i))]
<1>1. N \in Nat
  BY FS_CardinalityType
<1>2. ASSUME NEW i \in K PROVE rank[i] \in 1 .. N
  <2>1. Below(i) \in SUBSET K /\ i \in Below(i)
    BY <1>0
  <2>2. IsFiniteSet(Below(i)) /\ Cardinality(Below(i)) <= N /\ Cardinality(Below(i)) \in Nat
    BY <2>1, FS_Subset, FS_CardinalityType
  <2>3. Cardinality(Below(i)) # 0
    BY <2>1, <2>2, FS_EmptySet
  <2> QED BY <1>1, <2>2, <2>3
<1>3. ASSUME NEW i \in K, NEW j \in K, key[i] < key[j] PROVE rank[i] < rank[j]
  <2>1. Below(i) \in SUBSET Below(j) /\ j \in Below(j) /\ j \notin Below(i)
    BY <1>0, <1>3
  <2>2. IsFiniteSet(Below(j))
    BY FS_Subset
  <2>3. Cardinality(Below(i)) <= Cardinality(Below(j)) /\ Cardinality(Below(i)) # Cardinality(Below(j))
    BY <2>1, <2>2, FS_Subset
  <2>4. rank[i] \in Nat /\ rank[j] \in Nat
    BY <1>2
  <2> QED BY <2>3, <2>4
<1>4. \A i, j \in K : rank[i] = rank[j] => i = j
  <2> SUFFICES ASSUME NEW i \in K, NEW j \in K, i # j PROVE rank[i] # rank[j]
    OBVIOUS
  <2>1. key[i] < key[j] \/ key[j] < key[i]
    BY <1>0
  <2>2. rank[i] \in Nat /\ rank[j] \in Nat
    BY <1>2
  <2> HIDE DEF rank
  <2> QED BY <1>3, <2>1, <2>2
<1> HIDE DEF rank
<1>5. \A n \in 1 .. N : \E i \in K : rank[i] = n
  <2>1. rank \in [K -> 1 .. N]
    BY <1>2 DEF rank
  <2>2. rank \in Injection(K, 1 .. N)
    BY <1>4, <2>1 DEF Injection, IsInjective
  <2>3. IsFiniteSet(1 .. N) /\ Cardinality(1 .. N) = N
    <3>1. 1 \in Int /\ N \in Int
      BY <1>1
    <3>2. IsFiniteSet(1 .. N) /\ Cardinality(1 .. N) = IF 1 > N THEN 0 ELSE N - 1 + 1
      BY <3>1, FS_Interval, Zenon
    <3> QED BY <1>1, <3>2
  <2>4. rank \in Surjection(K, 1 .. N)
    BY <2>2, <2>3, FS_Injection
  <2> QED BY <2>4 DEF Surjection
<1>6. ASSUME NEW n \in 1 .. N PROVE o[n] \in K /\ rank[o[n]] = n /\ Cardinality({j \in K : key[j] <= key[o[n]]}) = n
  <2>1. o[n] = CHOOSE i \in K : Cardinality({j \in K : key[j] <= key[i]}) = n
    BY DEF InOrder
  <2>2. \A i \in K : Cardinality({j \in K : key[j] <= key[i]}) = rank[i]
    BY DEF rank
  <2>3. PICK i \in K : rank[i] = n
    BY <1>5
  <2>4. \E i_1 \in K : Cardinality({j \in K : key[j] <= key[i_1]}) = n
    BY <2>2, <2>3
  <2>5. o[n] \in K /\ Cardinality({j \in K : key[j] <= key[o[n]]}) = n
    BY <2>1, <2>4
  <2> QED BY <2>2, <2>5
<1> HIDE DEF o
<1>7. ASSUME NEW a \in 1 .. N, NEW b \in 1 .. N, a < b PROVE key[o[a]] < key[o[b]]
  <2>1. o[a] \in K /\ o[b] \in K /\ rank[o[a]] < rank[o[b]]
    BY <1>1, <1>6, <1>7
  <2>2. key[o[a]] \in Nat /\ key[o[b]] \in Nat
    BY <1>0, <2>1
  <2>3. ~(key[o[b]] < key[o[a]])
    <3>1. key[o[b]] < key[o[a]] => rank[o[b]] < rank[o[a]]
      BY <1>3, <2>1
    <3>2. rank[o[a]] \in Nat /\ rank[o[b]] \in Nat
      BY <1>2, <2>1
    <3> QED BY <2>1, <3>1, <3>2
  <2>4. key[o[a]] # key[o[b]]
    <3>1. key[o[a]] = key[o[b]] => o[a] = o[b]
      BY <1>0, <2>1
    <3>2. rank[o[a]] \in Nat /\ rank[o[b]] \in Nat
      BY <1>2, <2>1
    <3> QED BY <2>1, <3>1, <3>2
  <2> QED BY <2>2, <2>3, <2>4
<1>8. ASSUME NEW i \in K PROVE \E n \in 1 .. N : o[n] = i
  BY <1>2, <1>4, <1>6
<1> HIDE DEF N
<1>9. /\ \A n \in 1 .. N : o[n] \in K /\ Cardinality({j \in K : key[j] <= key[o[n]]}) = n
      /\ \A a, b \in 1 .. N : a < b => key[o[a]] < key[o[b]]
      /\ \A i \in K : \E n \in 1 .. N : o[n] = i
  BY <1>6, <1>7, <1>8
<1> QED BY <1>1, <1>9 DEF o, N, OrderForm

(* A sequence of the elements of s at the places K, by ascending key. *)
PickedForm(P, s, K, key) ==
  /\ P \in Seq(Row) /\ Len(P) = Cardinality(K) /\ Cardinality(K) \in 0 .. Len(s)
  /\ \A a \in 1 .. Cardinality(K) : \E i \in K : P[a] = s[i]
  /\ \A i \in K : \E a \in 1 .. Cardinality(K) : P[a] = s[i]
  /\ \A a, b \in 1 .. Cardinality(K) : a < b =>
       \E i, j \in K : P[a] = s[i] /\ P[b] = s[j] /\ key[i] < key[j]

LEMMA PickedIs ==
  ASSUME NEW s \in Seq(Row), NEW K \in SUBSET (1 .. Len(s)), NEW key \in [K -> Nat],
         \A i, j \in K : key[i] = key[j] => i = j
  PROVE  PickedForm(Picked(s, K, key), s, K, key)
<1> DEFINE N == Cardinality(K)
           o == InOrder(K, key)
           p == [n \in 1 .. N |-> s[o[n]]]
<1>1. IsFiniteSet(K) /\ N \in 0 .. Len(s) /\ N \in Nat
  <2>1. Len(s) \in Nat
    OBVIOUS
  <2> QED BY <2>1, PlacesFinite
<1>2. /\ \A n \in 1 .. N : o[n] \in K
      /\ \A a, b \in 1 .. N : a < b => key[o[a]] < key[o[b]]
      /\ \A i \in K : \E n \in 1 .. N : o[n] = i
  <2>1. OneToOne(K, key)
    BY DEF OneToOne
  <2>2. OrderForm(o, K, key)
    BY <1>1, <2>1, InOrderIs
  <2> QED BY <2>2 DEF OrderForm
<1>3. Picked(s, K, key) = p
  BY DEF Picked
<1> HIDE DEF o, N
<1>4. \A n \in 1 .. N : p[n] = s[o[n]] /\ s[o[n]] \in Row
  <2>1. \A i \in 1 .. Len(s) : s[i] \in Row
    OBVIOUS
  <2>2. \A n \in 1 .. N : o[n] \in 1 .. Len(s)
    BY <1>2
  <2> QED BY <2>1, <2>2
<1>5. p \in Seq(Row) /\ Len(p) = N
  BY <1>1, <1>4
<1> HIDE DEF p
<1>6. \A a \in 1 .. N : \E i \in K : p[a] = s[i]
  BY <1>2, <1>4
<1>7. \A i \in K : \E a \in 1 .. N : p[a] = s[i]
  BY <1>2, <1>4
<1>8. \A a, b \in 1 .. N : a < b => \E i, j \in K : p[a] = s[i] /\ p[b] = s[j] /\ key[i] < key[j]
  BY <1>2, <1>4
<1> QED BY <1>1, <1>3, <1>5, <1>6, <1>7, <1>8 DEF N, PickedForm

-----------------------------------------------------------------------------
(* dedup_daily_csv *)

LEMMA KeptKey ==
  ASSUME NEW s \in Seq(Row)
  PROVE  /\ Kept(s) \in SUBSET (1 .. Len(s))
         /\ [i \in Kept(s) |-> s[i].day] \in [Kept(s) -> Nat]
         /\ \A i, j \in Kept(s) : s[i].day = s[j].day => i = j
<1>1. DOMAIN s = 1 .. Len(s) /\ Len(s) \in Nat /\ \A i \in 1 .. Len(s) : s[i] \in Row
  OBVIOUS
<1>2. Kept(s) \in SUBSET (1 .. Len(s)) /\ \A i \in Kept(s) : \A j \in i + 1 .. Len(s) : s[j].day # s[i].day
  BY <1>1 DEF Kept, LastOfDay
<1>3. \A i \in Kept(s) : s[i].day \in Nat
  BY <1>1, <1>2 DEF Row
<1>4. ASSUME NEW i \in Kept(s), NEW j \in Kept(s), s[i].day = s[j].day PROVE i = j
  <2>1. i \in 1 .. Len(s) /\ j \in 1 .. Len(s)
    BY <1>2
  <2>2. ~(i < j) /\ ~(j < i)
    BY <1>1, <1>2, <1>4, <2>1
  <2> QED BY <1>1, <2>1, <2>2
<1> QED BY <1>2, <1>3, <1>4

(* Whatever daily.csv holds, its clean-up leaves some of its rows, one per day,
   in order. *)
LEMMA DedupIs ==
  ASSUME NEW s \in Seq(Row)
  PROVE  /\ Deduplicated(s) \in Seq(Row) /\ Len(Deduplicated(s)) <= Len(s)
         /\ Ascending(Deduplicated(s))
         /\ \A n \in DOMAIN Deduplicated(s) : \E i \in DOMAIN s : Deduplicated(s)[n] = s[i]
<1> DEFINE K == Kept(s)
           key == [i \in K |-> s[i].day]
           d == Deduplicated(s)
<1>1. /\ K \in SUBSET (1 .. Len(s)) /\ key \in [K -> Nat]
      /\ \A i, j \in K : key[i] = key[j] => i = j
  BY KeptKey
<1>2. d = Picked(s, K, key)
  BY DEF Deduplicated
<1>3. \A i \in K : key[i] = s[i].day
  OBVIOUS
<1> HIDE DEF K, key, d
<1>4. /\ d \in Seq(Row) /\ Len(d) = Cardinality(K) /\ Cardinality(K) \in 0 .. Len(s)
      /\ \A a \in 1 .. Cardinality(K) : \E i \in K : d[a] = s[i]
      /\ \A a, b \in 1 .. Cardinality(K) : a < b =>
           \E i, j \in K : d[a] = s[i] /\ d[b] = s[j] /\ key[i] < key[j]
  <2>1. PickedForm(Picked(s, K, key), s, K, key)
    BY <1>1, PickedIs
  <2> QED BY <1>2, <2>1 DEF PickedForm
<1>5. DOMAIN d = 1 .. Cardinality(K) /\ DOMAIN s = 1 .. Len(s) /\ Len(s) \in Nat
  BY <1>4
<1>6. \A a, b \in DOMAIN d : a < b => d[a].day < d[b].day
  BY <1>3, <1>4, <1>5
<1>7. Ascending(d)
  BY <1>6 DEF Ascending
<1>8. \A n \in DOMAIN d : \E i \in DOMAIN s : d[n] = s[i]
  BY <1>1, <1>4, <1>5
<1>9. Len(d) <= Len(s)
  BY <1>4, <1>5
<1> QED BY <1>4, <1>7, <1>8, <1>9 DEF d

(* A set of places has a first one. *)
LEMMA FirstExists ==
  ASSUME NEW n \in Nat, NEW T \in SUBSET (1 .. n), T # {}
  PROVE  \E f \in T : \A j \in 1 .. f - 1 : j \notin T
<1> DEFINE key == [i \in T |-> i]
           o == InOrder(T, key)
<1>1. IsFiniteSet(T) /\ Cardinality(T) \in Nat /\ Cardinality(T) # 0
  <2>1. IsFiniteSet(T) /\ Cardinality(T) \in 0 .. n
    BY PlacesFinite
  <2> QED BY <2>1, FS_EmptySet
<1>2. key \in [T -> Nat] /\ \A i \in T : key[i] = i
  OBVIOUS
<1> HIDE DEF key
<1>3. /\ \A m \in 1 .. Cardinality(T) : o[m] \in T
      /\ \A a, b \in 1 .. Cardinality(T) : a < b => key[o[a]] < key[o[b]]
      /\ \A i \in T : \E m \in 1 .. Cardinality(T) : o[m] = i
  <2>1. OneToOne(T, key)
    BY <1>2 DEF OneToOne
  <2>2. OrderForm(o, T, key)
    BY <1>1, <2>1, InOrderIs DEF o
  <2> QED BY <2>2 DEF OrderForm
<1> HIDE DEF o
<1>4. PICK f \in T : f = o[1]
  <2>1. 1 \in 1 .. Cardinality(T)
    BY <1>1
  <2> QED BY <1>3, <2>1
<1>5. ASSUME NEW y \in T PROVE ~(y < f)
  <2>1. PICK m \in 1 .. Cardinality(T) : o[m] = y
    BY <1>3
  <2>2. CASE m = 1
    BY <1>4, <2>1, <2>2
  <2>3. CASE 1 < m
    <3>1. 1 \in 1 .. Cardinality(T)
      BY <1>1
    <3> QED BY <1>2, <1>3, <1>4, <2>1, <2>3, <3>1
  <2> QED BY <1>1, <2>2, <2>3
<1>6. \A j \in 1 .. f - 1 : j < f
  OBVIOUS
<1> QED BY <1>5, <1>6

LEMMA BelowIsInterval ==
  ASSUME NEW n \in Nat, NEW F \in SUBSET (1 .. n), NEW f \in 1 .. n
  PROVE  /\ Cardinality({g \in F : g < f}) \in Nat /\ Cardinality({g \in F : g < f}) <= f - 1
         /\ F = 1 .. n => Cardinality({g \in F : g < f}) = f - 1
<1>1. f - 1 \in Nat /\ {g \in F : g < f} \in SUBSET (1 .. f - 1)
  <2>1. f \in Nat /\ f >= 1 /\ \A g \in F : g \in Nat /\ g >= 1
    OBVIOUS
  <2>2. f - 1 \in Nat
    BY <2>1
  <2>3. \A g \in F : g < f => g \in 1 .. f - 1
    BY <2>1
  <2>4. {g \in F : g < f} \in SUBSET (1 .. f - 1)
    BY <2>3
  <2> QED BY <2>2, <2>4
<1>2. Cardinality({g \in F : g < f}) \in 0 .. f - 1
  BY <1>1, PlacesFinite
<1>3. ASSUME F = 1 .. n PROVE Cardinality({g \in F : g < f}) = f - 1
  <2>1. {g \in F : g < f} = 1 .. f - 1
    BY <1>3
  <2>2. 1 \in Int /\ f - 1 \in Int
    BY <1>1
  <2>3. Cardinality(1 .. f - 1) = IF 1 > f - 1 THEN 0 ELSE f - 1 - 1 + 1
    BY <2>2, FS_Interval, Zenon
  <2>4. Cardinality(1 .. f - 1) = f - 1
    BY <1>1, <2>3
  <2> QED BY <2>1, <2>4
<1> QED BY <1>1, <1>2, <1>3

(* dedup_daily_csv loses no day of a file whose rows fit its table: the last row
   of each day, which holds the whole day's minutes, is there after the boot. *)
THEOREM CleanUpKeepsEveryDay ==
  ASSUME NEW s \in Seq(Row), Len(s) <= RowCap, NEW i \in LastOfDay(s)
  PROVE  \E n \in DOMAIN Deduplicated(s) : Deduplicated(s)[n] = s[i]
<1> DEFINE K == Kept(s)
           key == [j \in K |-> s[j].day]
           d == Deduplicated(s)
           T == {j \in 1 .. Len(s) : s[j].day = s[i].day}
<1>1. DOMAIN s = 1 .. Len(s) /\ Len(s) \in Nat /\ RowCap \in Nat
  BY StoreAssumption
<1>2. i \in 1 .. Len(s)
  BY <1>1 DEF LastOfDay
<1>3. PICK f \in T : \A j \in 1 .. f - 1 : j \notin T
  <2>1. T \in SUBSET (1 .. Len(s)) /\ i \in T
    BY <1>2
  <2> HIDE DEF T
  <2>2. T # {}
    BY <2>1
  <2> QED BY <1>1, <2>1, <2>2, FirstExists
<1>4. f \in 1 .. Len(s) /\ s[f].day = s[i].day /\ \A j \in 1 .. f - 1 : s[j].day # s[f].day
  <2>1. f \in 1 .. Len(s) /\ s[f].day = s[i].day
    OBVIOUS
  <2>2. ASSUME NEW j \in 1 .. f - 1 PROVE j \in 1 .. Len(s)
    BY <1>1, <2>1
  <2> QED BY <1>3, <2>1, <2>2
<1>5. f \in FirstOfDay(s) /\ FirstOfDay(s) \in SUBSET (1 .. Len(s))
  BY <1>1, <1>4 DEF FirstOfDay
<1>6. Cardinality({g \in FirstOfDay(s) : g < f}) < RowCap
  <2>1. /\ Cardinality({g \in FirstOfDay(s) : g < f}) \in Nat
        /\ Cardinality({g \in FirstOfDay(s) : g < f}) <= f - 1
    BY <1>1, <1>4, <1>5, BelowIsInterval
  <2> QED BY <1>1, <1>4, <2>1
<1>7. i \in K
  BY <1>4, <1>5, <1>6 DEF Kept, DaysMet
<1>8. PickedForm(d, s, K, key)
  <2>1. /\ K \in SUBSET (1 .. Len(s)) /\ key \in [K -> Nat]
        /\ \A j, l \in K : key[j] = key[l] => j = l
    BY KeptKey
  <2>2. d = Picked(s, K, key)
    BY DEF Deduplicated
  <2> HIDE DEF K, key, d
  <2> QED BY <2>1, <2>2, PickedIs
<1> HIDE DEF K, key, d
<1>9. d \in Seq(Row) /\ Len(d) = Cardinality(K) /\ \E a \in 1 .. Cardinality(K) : d[a] = s[i]
  BY <1>7, <1>8 DEF PickedForm
<1>10. DOMAIN d = 1 .. Cardinality(K)
  BY <1>9
<1> QED BY <1>9, <1>10 DEF d

(* A file with one row per day, in order, is cut to the rows that dedup_daily_csv
   has room for, the oldest: none changes, and one that fits stays as it is. *)
THEOREM CleanUpKeepsTheFirstRows ==
  ASSUME NEW s \in Seq(Row), Ascending(s)
  PROVE  Deduplicated(s) = SubSeq(s, 1, IF Len(s) <= RowCap THEN Len(s) ELSE RowCap)
<1> DEFINE m == IF Len(s) <= RowCap THEN Len(s) ELSE RowCap
           K == Kept(s)
           key == [j \in K |-> s[j].day]
           o == InOrder(K, key)
<1>1. /\ DOMAIN s = 1 .. Len(s) /\ Len(s) \in Nat /\ RowCap \in Nat
      /\ \A j \in 1 .. Len(s) : s[j].day \in Nat
  <2>1. \A j \in 1 .. Len(s) : s[j] \in Row
    OBVIOUS
  <2> QED BY <2>1, StoreAssumption DEF Row
<1>2. m \in Nat /\ m <= Len(s) /\ \A j \in 1 .. Len(s) : j <= m <=> j - 1 < RowCap
  BY <1>1
<1>3. \A a, b \in 1 .. Len(s) : a < b => s[a].day < s[b].day
  BY <1>1 DEF Ascending
<1>4. \A a, b \in 1 .. Len(s) : s[a].day = s[b].day => a = b
  <2> SUFFICES ASSUME NEW a \in 1 .. Len(s), NEW b \in 1 .. Len(s), s[a].day = s[b].day
               PROVE  a = b
    OBVIOUS
  <2>1. ~(a < b) /\ ~(b < a)
    BY <1>1, <1>3
  <2> QED BY <1>1, <2>1
<1>5. FirstOfDay(s) = 1 .. Len(s) /\ LastOfDay(s) = 1 .. Len(s)
  <2>1. ASSUME NEW a \in 1 .. Len(s), NEW b \in 1 .. a - 1 PROVE s[b].day # s[a].day
    <3>1. b \in 1 .. Len(s) /\ b # a
      BY <1>1
    <3> QED BY <1>4, <3>1
  <2>2. ASSUME NEW a \in 1 .. Len(s), NEW b \in a + 1 .. Len(s) PROVE s[b].day # s[a].day
    <3>1. b \in 1 .. Len(s) /\ b # a
      BY <1>1
    <3> QED BY <1>4, <3>1
  <2>3. FirstOfDay(s) = 1 .. Len(s)
    BY <1>1, <2>1 DEF FirstOfDay
  <2>4. LastOfDay(s) = 1 .. Len(s)
    BY <1>1, <2>2 DEF LastOfDay
  <2> QED BY <2>3, <2>4
<1>6. ASSUME NEW f \in 1 .. Len(s)
      PROVE  Cardinality({g \in FirstOfDay(s) : g < f}) < RowCap <=> f <= m
  <2>1. Cardinality({g \in FirstOfDay(s) : g < f}) = f - 1
    BY <1>1, <1>5, BelowIsInterval
  <2> QED BY <1>2, <2>1
<1>7. K = 1 .. m
  <2>1. ASSUME NEW i \in K PROVE i \in 1 .. m
    <3>1. i \in 1 .. Len(s) /\ s[i].day \in DaysMet(s)
      BY <1>5 DEF Kept
    <3>2. PICK f \in FirstOfDay(s) : /\ Cardinality({g \in FirstOfDay(s) : g < f}) < RowCap
                                     /\ s[i].day = s[f].day
      BY <3>1 DEF DaysMet
    <3>3. f = i
      BY <1>4, <1>5, <3>1, <3>2
    <3>4. i <= m
      BY <1>6, <3>1, <3>2, <3>3
    <3> QED BY <1>2, <3>1, <3>4
  <2>2. ASSUME NEW i \in 1 .. m PROVE i \in K
    <3>1. i \in 1 .. Len(s) /\ i <= m
      BY <1>1, <1>2
    <3>2. Cardinality({g \in FirstOfDay(s) : g < i}) < RowCap
      BY <1>6, <3>1
    <3>3. s[i].day \in DaysMet(s)
      BY <1>5, <3>1, <3>2 DEF DaysMet
    <3> QED BY <1>5, <3>1, <3>3 DEF Kept
  <2> HIDE DEF K, m
  <2>3. \A i : i \in K <=> i \in 1 .. m
    BY <2>1, <2>2
  <2> QED BY <2>3
<1>8. Deduplicated(s) = [n \in 1 .. Cardinality(K) |-> s[o[n]]]
  BY DEF Deduplicated, Picked
<1>9. key \in [K -> Nat] /\ (\A i \in K : key[i] = s[i].day) /\ K \in SUBSET (1 .. Len(s))
      /\ \A i, j \in K : key[i] = key[j] => i = j
  BY KeptKey
<1> HIDE DEF m, K, key
<1>10. IsFiniteSet(K) /\ Cardinality(K) = m
  <2>1. 1 \in Int /\ m \in Int
    BY <1>2
  <2>2. IsFiniteSet(1 .. m) /\ Cardinality(1 .. m) = IF 1 > m THEN 0 ELSE m - 1 + 1
    BY <2>1, FS_Interval, Zenon
  <2>3. Cardinality(1 .. m) = m
    BY <1>2, <2>2
  <2> QED BY <1>7, <2>2, <2>3
<1>11. OrderForm(o, K, key)
  <2>1. OneToOne(K, key)
    BY <1>9 DEF OneToOne
  <2> QED BY <1>10, <2>1, InOrderIs
<1> HIDE DEF o
<1>12. ASSUME NEW n \in 1 .. m PROVE o[n] = n
  <2>1. o[n] \in K /\ Cardinality({j \in K : key[j] <= key[o[n]]}) = n
    BY <1>10, <1>11 DEF OrderForm
  <2>2. o[n] \in 1 .. m /\ o[n] \in Nat
    BY <1>2, <1>7, <2>1
  <2>3. ASSUME NEW j \in K PROVE key[j] <= key[o[n]] <=> j <= o[n]
    <3>1. /\ key[j] = s[j].day /\ key[o[n]] = s[o[n]].day
          /\ s[j].day \in Nat /\ s[o[n]].day \in Nat
          /\ j \in 1 .. Len(s) /\ o[n] \in 1 .. Len(s)
      BY <1>1, <1>9, <2>1
    <3>2. j <= o[n] \/ o[n] < j
      BY <1>1, <3>1
    <3>3. o[n] < j => s[o[n]].day < s[j].day
      BY <1>3, <3>1
    <3>4. j <= o[n] => s[j].day <= s[o[n]].day
      BY <1>1, <1>3, <3>1
    <3>5. j \in Nat
      BY <1>1, <3>1
    <3> QED BY <2>2, <3>1, <3>2, <3>3, <3>4, <3>5
  <2>4. {j \in K : key[j] <= key[o[n]]} = {j \in K : j <= o[n]}
    BY <2>3
  <2>5. {j \in K : j <= o[n]} = 1 .. o[n]
    <3>1. \A j \in 1 .. o[n] : j \in 1 .. m
      BY <1>2, <2>2
    <3>2. \A j \in 1 .. m : j <= o[n] => j \in 1 .. o[n]
      BY <1>2, <2>2
    <3>3. \A j \in 1 .. o[n] : j <= o[n]
      BY <2>2
    <3> QED BY <1>7, <3>1, <3>2, <3>3
  <2>6. 1 \in Int /\ o[n] \in Int
    BY <2>2
  <2>7. Cardinality(1 .. o[n]) = IF 1 > o[n] THEN 0 ELSE o[n] - 1 + 1
    BY <2>6, FS_Interval, Zenon
  <2>8. Cardinality(1 .. o[n]) = o[n]
    BY <2>2, <2>7
  <2> QED BY <2>1, <2>4, <2>5, <2>8
<1>13. Deduplicated(s) = [n \in 1 .. m |-> s[n]]
  BY <1>8, <1>10, <1>12
<1>14. SubSeq(s, 1, m) = [n \in 1 .. m |-> s[n]]
  <2>1. SubSeq(s, 1, m) = [n \in 1 .. (1 + m - 1) |-> s[n + 1 - 1]]
    BY <1>1, <1>2
  <2>2. 1 + m - 1 = m /\ \A n \in 1 .. m : n + 1 - 1 = n
    BY <1>2
  <2> QED BY <2>1, <2>2
<1> QED BY <1>13, <1>14 DEF m

-----------------------------------------------------------------------------
(* The samples of the current day *)

(* One more place, and maybe the places one lower. *)
Moved(n, m, d, A, B) ==
  /\ m = n + 1 - d /\ m >= 1
  /\ A \in SUBSET (1 .. n) /\ B \in SUBSET (1 .. m) /\ (d = 1 => 1 \notin A)
  /\ \A i \in 1 .. m - 1 : i \in B <=> i + d \in A

LEMMA MovedPlaces ==
  ASSUME NEW n \in Nat, NEW m \in Nat, NEW d \in {0, 1}, NEW A, NEW B, Moved(n, m, d, A, B)
  PROVE  Cardinality(B) = IF m \in B THEN Cardinality(A) + 1 ELSE Cardinality(A)
<1> DEFINE C == B \ {m}
           f == [i \in A |-> i - d]
<1>0. /\ m = n + 1 - d /\ m >= 1
      /\ A \in SUBSET (1 .. n) /\ B \in SUBSET (1 .. m) /\ (d = 1 => 1 \notin A)
      /\ \A i \in 1 .. m - 1 : i \in B <=> i + d \in A
  BY DEF Moved
<1>1. IsFiniteSet(A) /\ Cardinality(A) \in Nat /\ IsFiniteSet(B) /\ Cardinality(B) \in Nat
  <2>1. IsFiniteSet(A) /\ Cardinality(A) \in 0 .. n
    BY <1>0, PlacesFinite, Zenon
  <2>2. IsFiniteSet(B) /\ Cardinality(B) \in 0 .. m
    BY <1>0, PlacesFinite, Zenon
  <2> QED BY <2>1, <2>2
<1>2. Cardinality(C) = Cardinality(A)
  <2>1. \A i \in A : i - d \in C
    BY <1>0 DEF C
  <2>2. \A z \in C : z + d \in A /\ (z + d) - d = z
    BY <1>0
  <2>3. f \in [A -> C]
    BY <2>1
  <2>4. \A x, y \in A : f[x] = f[y] => x = y
    BY <1>0
  <2>5. \A z \in C : \E x \in A : f[x] = z
    BY <2>2
  <2> HIDE DEF f, C
  <2> QED BY <1>1, <2>3, <2>4, <2>5, SameSize
<1>3. Cardinality(B \ {m}) = IF m \in B THEN Cardinality(B) - 1 ELSE Cardinality(B)
  <2>1. IsFiniteSet(B)
    BY <1>1
  <2> HIDE DEF C, f
  <2> QED BY ONLY <2>1, FS_RemoveElement
<1> QED BY <1>1, <1>2, <1>3

LEMMA OnePlace ==
  ASSUME NEW m \in Nat, NEW B \in SUBSET {m}
  PROVE  Cardinality(B) = IF m \in B THEN 1 ELSE 0
<1>1. B = {} \/ B = {m}
  OBVIOUS
<1> QED BY <1>1, FS_EmptySet, FS_Singleton

(* Without accelerated minutes the samples are a minute apart or more, so that
   a ring of a day's length never loses one of the current day, and today
   counts what an aggregation would find. *)
GapInv ==
  ~wandered => \A i, j \in 1 .. count : i < j => Recorded[j].ts - Recorded[i].ts >= j - i

DayInv ==
  /\ count = 0 <=> curDay = NoDay
  /\ count > 0 => curDay = Day(Recorded[count].ts)
  /\ ~wandered => /\ today.known = Cardinality(KnownOf(Recorded, curDay))
                  /\ today.heat = Cardinality(HeatOf(Recorded, curDay))

LEMMA PlacesAre ==
  ASSUME RingInv, NEW d
  PROVE  /\ KnownOf(Recorded, d) = {i \in 1 .. count : Day(Recorded[i].ts) = d /\ Recorded[i].known}
         /\ HeatOf(Recorded, d) =
              {i \in 1 .. count : /\ Day(Recorded[i].ts) = d
                                  /\ Recorded[i].known /\ Recorded[i].heat}
<1>1. DOMAIN Recorded = 1 .. count
  BY RecordedIs DEF RecordedForm
<1> QED BY <1>1 DEF KnownOf, HeatOf

LEMMA PlacesThen ==
  ASSUME RingInv'
  PROVE  /\ DOMAIN Recorded' = 1 .. count' /\ count' \in Nat
         /\ \A i \in 1 .. count' : Recorded'[i] \in Sample
<1>1. Recorded' \in Seq(Sample) /\ Len(Recorded') = count'
  BY RecordedThen DEF RecordedForm
<1> QED BY <1>1

LEMMA GapRecord ==
  ASSUME RingInv, RingInv', OrderInv, GapInv, NEW s \in Sample, NEW written,
         Record(s, written), s.ts = virtual', ~wandered, virtual < virtual'
  PROVE  \A i, j \in 1 .. count' : i < j => Recorded'[j].ts - Recorded'[i].ts >= j - i
<1>1. PICK d \in {0, 1} :
         /\ count' = count + 1 - d /\ count' >= 1
         /\ \A i \in 1 .. count' - 1 : i + d \in 1 .. count /\ Recorded'[i] = Recorded[i + d]
         /\ Recorded'[count'] = s
  BY PushMoves
<1>2. /\ count \in Nat /\ count' \in Nat /\ virtual \in Nat /\ virtual' \in Nat
      /\ \A i \in 1 .. count : Recorded[i].ts \in Nat /\ Recorded[i].ts <= virtual
  <2>1. count \in Nat /\ count' \in Nat /\ \A i \in 1 .. count : Recorded[i].ts \in Nat
    BY RecordedTypes, PlacesThen
  <2>2. virtual \in Nat /\ virtual' \in Nat
    BY DEF RingInv
  <2>3. \A i \in 1 .. count : Recorded[i].ts <= virtual
    BY DEF OrderInv
  <2> QED BY <2>1, <2>2, <2>3
<1>3. SUFFICES ASSUME NEW i \in 1 .. count', NEW j \in 1 .. count', i < j
               PROVE  Recorded'[j].ts - Recorded'[i].ts >= j - i
  OBVIOUS
<1>4. i \in 1 .. count' - 1 /\ i + d \in 1 .. count /\ Recorded'[i] = Recorded[i + d]
  BY <1>1, <1>2, <1>3
<1>5. CASE j \in 1 .. count' - 1
  <2>1. j + d \in 1 .. count /\ Recorded'[j] = Recorded[j + d] /\ i + d < j + d
    BY <1>1, <1>3, <1>4, <1>5
  <2>2. Recorded[j + d].ts - Recorded[i + d].ts >= (j + d) - (i + d)
    BY <1>4, <2>1 DEF GapInv
  <2> QED BY <1>2, <1>4, <2>1, <2>2
<1>6. CASE j = count'
  <2>1. count \in 1 .. count /\ j = count + 1 - d
    BY <1>1, <1>2, <1>4, <1>6
  <2>2. Recorded[count].ts - Recorded[i + d].ts >= count - (i + d)
    <3>1. CASE i + d < count
      BY <1>4, <2>1, <3>1 DEF GapInv
    <3>2. CASE i + d = count
      BY <1>2, <2>1, <3>2
    <3> QED BY <1>2, <1>4, <3>1, <3>2
  <2>3. Recorded'[j].ts = virtual'
    BY <1>1, <1>6
  <2>4. Recorded[count].ts <= virtual
    BY <1>2, <2>1
  <2> QED BY <1>2, <1>4, <2>1, <2>2, <2>3, <2>4
<1> QED BY <1>2, <1>5, <1>6, LastOrBefore

LEMMA TodayAfter ==
  ASSUME NEW s \in Sample, NEW written, Record(s, written)
  PROVE  LET new == curDay = NoDay \/ Day(s.ts) # curDay
             k   == IF new THEN 0 ELSE today.known
             h   == IF new THEN 0 ELSE today.heat IN
         /\ today'.known = IF s.known THEN k + 1 ELSE k
         /\ today'.heat  = IF s.known /\ s.heat THEN h + 1 ELSE h
         /\ curDay' = Day(s.ts)
BY DEF Record, Sample

(* In another day none of the older samples is of the new day. *)
LEMMA OlderDays ==
  ASSUME RingInv, OrderInv, DayInv, NEW t \in Nat, ~wandered, virtual < t,
         curDay # NoDay, Day(t) # curDay
  PROVE  /\ \A i \in 1 .. count : Day(Recorded[i].ts) < Day(t)
         /\ count > 0 /\ curDay < Day(t)
<1>1. /\ count \in Nat /\ virtual \in Nat
      /\ \A i \in 1 .. count : Recorded[i].ts \in Nat
  BY RecordedTypes DEF RingInv
<1>2. /\ \A i \in 1 .. count : Recorded[i].ts <= virtual
      /\ \A i, j \in 1 .. count : i < j => Recorded[i].ts < Recorded[j].ts
  BY DEF OrderInv
<1>3. count > 0 /\ count \in 1 .. count /\ curDay = Day(Recorded[count].ts)
  BY <1>1 DEF DayInv
<1>4. Day(Recorded[count].ts) <= Day(t) /\ Day(t) \in Nat /\ curDay \in Nat
  <2>1. Recorded[count].ts \in Nat /\ Recorded[count].ts <= t
    BY <1>1, <1>2, <1>3
  <2> QED BY <1>3, <2>1, DayGoesUp, DayType
<1>5. ASSUME NEW i \in 1 .. count PROVE Day(Recorded[i].ts) <= curDay /\ Day(Recorded[i].ts) \in Nat
  <2>1. Recorded[i].ts <= Recorded[count].ts
    <3>1. i < count \/ i = count
      BY <1>1
    <3> QED BY <1>1, <1>2, <1>3, <3>1
  <2> QED BY <1>1, <1>3, <2>1, DayGoesUp, DayType
<1> QED BY <1>3, <1>4, <1>5

(* In the same day the sample that leaves a full ring is of another day. *)
LEMMA DroppedIsOlder ==
  ASSUME RingInv, OrderInv, GapInv, NEW t \in Nat, ~wandered, virtual < t, count = RingSize
  PROVE  Day(Recorded[1].ts) < Day(t)
<1>1. /\ count \in Nat /\ virtual \in Nat /\ count > 0 /\ 1 \in 1 .. count /\ count \in 1 .. count
      /\ \A i \in 1 .. count : Recorded[i].ts \in Nat
  BY RecordedTypes, SizeType DEF RingInv
<1>2. Recorded[count].ts <= virtual
  BY <1>1 DEF OrderInv
<1>3. Recorded[count].ts - Recorded[1].ts >= count - 1
  <2>1. CASE 1 < count
    BY <1>1, <2>1 DEF GapInv
  <2>2. CASE count = 1
    <3>1. Recorded[count].ts = Recorded[1].ts /\ Recorded[1].ts \in Nat
      BY <1>1, <2>2
    <3> QED BY <2>2, <3>1
  <2> QED BY <1>1, <2>1, <2>2
<1>4. t - Recorded[1].ts >= DayLen /\ Recorded[1].ts \in Nat
  <2>1. Recorded[1].ts \in Nat /\ Recorded[count].ts \in Nat
    BY <1>1
  <2> QED BY <1>1, <1>2, <1>3, <2>1, DayLenType
<1> QED BY <1>4, DayApart

LEMMA DayRecord ==
  ASSUME RingInv, RingInv', OrderInv, GapInv, DayInv, NEW s \in Sample, NEW written,
         Record(s, written), s.ts = virtual', ~wandered, virtual < virtual'
  PROVE  /\ today'.known = Cardinality(KnownOf(Recorded, curDay)')
         /\ today'.heat = Cardinality(HeatOf(Recorded, curDay)')
<1> DEFINE A == KnownOf(Recorded, curDay)
           B == HeatOf(Recorded, curDay)
           new == curDay = NoDay \/ Day(s.ts) # curDay
<1>1. PICK d \in {0, 1} :
         /\ count' = count + 1 - d /\ count' >= 1
         /\ \A i \in 1 .. count' - 1 : i + d \in 1 .. count /\ Recorded'[i] = Recorded[i + d]
         /\ Recorded'[count'] = s
  BY PushMoves
<1>2. count \in Nat /\ count' \in Nat /\ s.ts \in Nat /\ count \in 0 .. RingSize /\ RingSize \in Nat
  BY CountNat, PlacesThen, SizeType DEF Sample, RingInv
<1>3. PICK m \in Nat : m = count'
  BY <1>2
<1>4. PICK A1 : A1 = KnownOf(Recorded, curDay)'
  OBVIOUS
<1>5. PICK B1 : B1 = HeatOf(Recorded, curDay)'
  OBVIOUS
<1>6. /\ A = {i \in 1 .. count : Day(Recorded[i].ts) = curDay /\ Recorded[i].known}
      /\ B = {i \in 1 .. count : Day(Recorded[i].ts) = curDay /\ Recorded[i].known /\ Recorded[i].heat}
  BY PlacesAre
<1>7. /\ A1 = {i \in 1 .. m : Day(Recorded'[i].ts) = Day(s.ts) /\ Recorded'[i].known}
      /\ B1 = {i \in 1 .. m : Day(Recorded'[i].ts) = Day(s.ts) /\ Recorded'[i].known /\ Recorded'[i].heat}
  <2>1. DOMAIN Recorded' = 1 .. m /\ curDay' = Day(s.ts)
    BY <1>3, PlacesThen, TodayAfter
  <2> QED BY <1>4, <1>5, <2>1 DEF KnownOf, HeatOf
<1>8. (m \in A1 <=> s.known) /\ (m \in B1 <=> s.known /\ s.heat) /\ m \in 1 .. m
  BY <1>1, <1>3, <1>7
<1>9. /\ today.known = Cardinality(A) /\ today.heat = Cardinality(B)
      /\ A \in SUBSET (1 .. count) /\ B \in SUBSET (1 .. count)
  BY <1>6 DEF DayInv
<1> HIDE DEF A, B
<1>10. CASE new
  <2>1. ASSUME NEW i \in 1 .. m - 1 PROVE Day(Recorded'[i].ts) # Day(s.ts)
    <3>1. i + d \in 1 .. count /\ Recorded'[i] = Recorded[i + d]
      BY <1>1, <1>3
    <3>2. curDay # NoDay /\ Day(s.ts) # curDay
      BY <1>2, <1>10, <3>1 DEF DayInv
    <3>3. Day(Recorded[i + d].ts) < Day(s.ts)
      BY <1>2, <3>1, <3>2, OlderDays
    <3>4. Day(s.ts) \in Nat
      BY <1>2, DayType
    <3>5. Day(Recorded[i + d].ts) \in Nat
      BY <3>1, RecordedTypes, DayType
    <3> QED BY <3>1, <3>3, <3>4, <3>5
  <2>2. A1 \in SUBSET {m} /\ B1 \in SUBSET {m}
    BY <1>7, <2>1, LastOrBefore
  <2>3. Cardinality(A1) = (IF m \in A1 THEN 1 ELSE 0) /\ Cardinality(B1) = IF m \in B1 THEN 1 ELSE 0
    BY <2>2, OnePlace
  <2> QED BY <1>4, <1>5, <1>8, <1>10, <2>3, TodayAfter
<1>11. CASE ~new
  <2>1. d = 1 => 1 \notin A /\ 1 \notin B
    <3> SUFFICES ASSUME d = 1 PROVE 1 \notin A /\ 1 \notin B
      OBVIOUS
    <3>1. count = RingSize
      <4>1. count' = IF count < RingSize THEN count + 1 ELSE count
        BY DEF Record, CountUp
      <4> QED BY <1>1, <1>2, <4>1
    <3>2. Day(Recorded[1].ts) < Day(s.ts) /\ Day(s.ts) \in Nat
      BY <1>2, <3>1, DroppedIsOlder, DayType
    <3>3. Day(s.ts) = curDay
      BY <1>11
    <3>4. 1 \in 1 .. count
      BY <1>2, <3>1, SizeType
    <3>5. Day(Recorded[1].ts) \in Nat
      BY <3>4, RecordedTypes, DayType
    <3> QED BY <1>6, <3>2, <3>3, <3>5
  <2>2. \A i \in 1 .. m - 1 : (i \in A1 <=> i + d \in A) /\ (i \in B1 <=> i + d \in B)
    BY <1>1, <1>2, <1>3, <1>6, <1>7, <1>11
  <2>3. A1 \in SUBSET (1 .. m) /\ B1 \in SUBSET (1 .. m)
    BY <1>7
  <2>4. m = count + 1 - d /\ m >= 1
    BY <1>1, <1>3
  <2>5. Cardinality(A1) = IF m \in A1 THEN Cardinality(A) + 1 ELSE Cardinality(A)
    <3>1. Moved(count, m, d, A, A1)
      BY <1>9, <2>1, <2>2, <2>3, <2>4 DEF Moved
    <3> QED BY <1>2, <3>1, MovedPlaces
  <2>6. Cardinality(B1) = IF m \in B1 THEN Cardinality(B) + 1 ELSE Cardinality(B)
    <3>1. Moved(count, m, d, B, B1)
      BY <1>9, <2>1, <2>2, <2>3, <2>4 DEF Moved
    <3> QED BY <1>2, <3>1, MovedPlaces
  <2> QED BY <1>4, <1>5, <1>8, <1>9, <1>11, <2>5, <2>6, TodayAfter
<1> QED BY <1>10, <1>11

-----------------------------------------------------------------------------
(* The file of daily rows *)

DaysBefore(s, d) == \A i \in DOMAIN s : s[i].day < d

(* No row is older than the first boot. *)
FromStart ==
  \E t \in StartTimes :
    /\ t <= now /\ \A i \in DOMAIN rows : Day(t) <= rows[i].day
    /\ curReal => Day(t) <= curDay

ChartType == chart = Absent \/ chart \in [active : {TRUE}, rows : Seq(Row)]

ControlType ==
  /\ valid \in BOOLEAN /\ mode \in {"off", "plain", "accel"}
  /\ curDay \in Nat \cup {NoDay} /\ curReal \in BOOLEAN /\ fsUp \in BOOLEAN

(* Without accelerated minutes the rows are in order and of days that are over,
   and a day that will get a row is later than all of them. *)
FileOrder ==
  /\ Ascending(rows) /\ DaysBefore(rows, Day(now))
  /\ curReal => DaysBefore(rows, curDay)
  /\ FromStart
  /\ chart.active => Ascending(chart.rows) /\ DaysBefore(chart.rows, Day(now))

FileInv == ControlType /\ ChartType /\ rows \in Seq(Row) /\ (~wandered => FileOrder)

LEMMA ChartIs ==
  ASSUME ChartType, chart.active
  PROVE  chart \in [active : {TRUE}, rows : Seq(Row)] /\ chart.rows \in Seq(Row)
<1>1. Absent.active = FALSE
  BY DEF Absent
<1>2. chart \in [active : {TRUE}, rows : Seq(Row)]
  BY <1>1 DEF ChartType
<1> QED BY <1>2

LEMMA RowDays ==
  ASSUME NEW s \in Seq(Row)
  PROVE  DOMAIN s = 1 .. Len(s) /\ Len(s) \in Nat /\ \A i \in DOMAIN s : s[i] \in Row /\ s[i].day \in Nat
<1>1. DOMAIN s = 1 .. Len(s) /\ Len(s) \in Nat /\ \A i \in DOMAIN s : s[i] \in Row
  OBVIOUS
<1> QED BY <1>1 DEF Row

LEMMA AppendedRow ==
  ASSUME NEW s \in Seq(Row), NEW r \in Row
  PROVE  /\ Append(s, r) \in Seq(Row) /\ Len(Append(s, r)) = Len(s) + 1
         /\ DOMAIN Append(s, r) = 1 .. Len(s) + 1 /\ DOMAIN s = 1 .. Len(s) /\ Len(s) \in Nat
         /\ \A i \in DOMAIN s : Append(s, r)[i] = s[i]
         /\ Append(s, r)[Len(s) + 1] = r
OBVIOUS

LEMMA AppendAscends ==
  ASSUME NEW s \in Seq(Row), NEW r \in Row, Ascending(s), DaysBefore(s, r.day)
  PROVE  Ascending(Append(s, r))
<1>1. /\ DOMAIN Append(s, r) = 1 .. Len(s) + 1 /\ DOMAIN s = 1 .. Len(s) /\ Len(s) \in Nat
      /\ \A i \in DOMAIN s : Append(s, r)[i] = s[i]
      /\ Append(s, r)[Len(s) + 1] = r
  BY AppendedRow
<1>2. ASSUME NEW i \in 1 .. Len(s) + 1, NEW j \in 1 .. Len(s) + 1, i < j
      PROVE  Append(s, r)[i].day < Append(s, r)[j].day
  <2>1. i \in DOMAIN s
    BY <1>1, <1>2
  <2>2. CASE j \in DOMAIN s
    BY <1>1, <1>2, <2>1, <2>2 DEF Ascending
  <2>3. CASE j = Len(s) + 1
    BY <1>1, <2>1, <2>3 DEF DaysBefore
  <2> QED BY <1>1, <2>2, <2>3
<1> QED BY <1>1, <1>2 DEF Ascending

LEMMA LaterDays ==
  ASSUME NEW s \in Seq(Row), NEW a \in Nat, NEW b \in Nat, a <= b, DaysBefore(s, Day(a))
  PROVE  DaysBefore(s, Day(b))
<1>1. Day(a) \in Nat /\ Day(b) \in Nat /\ Day(a) <= Day(b)
  BY DayType, DayGoesUp
<1>2. \A i \in DOMAIN s : s[i].day \in Nat
  BY RowDays
<1> QED BY <1>1, <1>2 DEF DaysBefore

(* What one minute's record does to the file. *)
RowAdded(s) ==
  /\ curDay # NoDay /\ Day(s.ts) # curDay /\ curReal
  /\ KnownOf(Recorded, curDay) # {}
  /\ rows' = Append(rows, RowOf(Recorded, curDay))

LEMMA RecordRows ==
  ASSUME NEW s \in Sample, NEW written, Record(s, written)
  PROVE  rows' = rows \/ RowAdded(s)
BY DEF Record, Aggregated, RollsOver, RowAdded

LEMMA RowType ==
  ASSUME RingInv, NEW d \in Nat
  PROVE  RowOf(Recorded, d) \in Row /\ RowOf(Recorded, d).day = d
<1>1. HeatOf(Recorded, d) \in SUBSET (1 .. count) /\ count \in 0 .. RingSize /\ RingSize \in Nat
  BY PlacesAre, SizeType DEF RingInv
<1>2. count \in Nat
  BY <1>1
<1>3. Cardinality(HeatOf(Recorded, d)) \in 0 .. count
  BY <1>1, <1>2, PlacesFinite
<1>4. Cardinality(HeatOf(Recorded, d)) \in 0 .. RingSize
  BY <1>1, <1>3
<1> QED BY <1>4 DEF RowOf, Row

LEMMA FileRecord ==
  ASSUME RingInv, OrderInv, DayInv, FileInv, NEW s \in Sample, NEW written, Record(s, written),
         s.ts = virtual', ~wandered, virtual < virtual', virtual' <= now', now' \in Nat,
         now <= now', valid => virtual' = now', valid' = valid, chart' = chart,
         virtual' \in Nat
  PROVE  FileOrder'
<1>1. /\ FileOrder /\ rows \in Seq(Row) /\ ControlType /\ now \in Nat /\ virtual \in Nat
  BY DEF FileInv, RingInv
<1>2. /\ curDay' = Day(virtual') /\ Day(virtual') \in Nat /\ Day(now') \in Nat
      /\ Day(virtual') <= Day(now')
      /\ curReal' = IF curDay = NoDay \/ Day(virtual') # curDay THEN valid ELSE curReal
  BY DayType, DayGoesUp DEF Record
<1>3. DaysBefore(rows, Day(now'))
  BY <1>1, LaterDays DEF FileOrder
<1>4. CASE RowAdded(s)
  <2> DEFINE r == RowOf(Recorded, curDay)
  <2>1. /\ curDay # NoDay /\ curDay \in Nat /\ Day(virtual') # curDay /\ curReal
        /\ rows' = Append(rows, r)
    BY <1>1, <1>4 DEF RowAdded, ControlType
  <2>2. r \in Row /\ r.day = curDay
    BY <2>1, RowType
  <2>3. curDay < Day(virtual')
    BY <2>1, OlderDays
  <2> HIDE DEF r
  <2>4. DaysBefore(rows, curDay) /\ Ascending(rows)
    BY <1>1, <2>1 DEF FileOrder
  <2>5. Ascending(rows')
    BY <1>1, <2>1, <2>2, <2>4, AppendAscends
  <2>6. /\ DOMAIN rows' = 1 .. Len(rows) + 1 /\ DOMAIN rows = 1 .. Len(rows) /\ Len(rows) \in Nat
        /\ \A i \in DOMAIN rows : rows'[i] = rows[i]
        /\ rows'[Len(rows) + 1] = r
    BY <1>1, <2>1, <2>2, AppendedRow
  <2>7. \A i \in DOMAIN rows' : (i \in DOMAIN rows /\ rows'[i] = rows[i]) \/ rows'[i].day = curDay
    BY <2>2, <2>6
  <2>8. DaysBefore(rows', Day(now'))
    BY <1>2, <1>3, <2>1, <2>3, <2>7 DEF DaysBefore
  <2>9. curReal' => DaysBefore(rows', curDay')
    BY <1>2, <2>1, <2>8
  <2>10. FromStart'
    <3>1. PICK t \in StartTimes : /\ t <= now /\ \A i \in DOMAIN rows : Day(t) <= rows[i].day
                                  /\ curReal => Day(t) <= curDay
      BY <1>1 DEF FileOrder, FromStart
    <3>2. t \in Nat /\ t <= now' /\ Day(t) \in Nat
      <4>1. t \in Nat
        BY StoreAssumption
      <4> QED BY <1>1, <3>1, <4>1, DayType
    <3>3. Day(t) <= curDay
      BY <2>1, <3>1
    <3>4. Day(t) <= Day(virtual')
      BY <1>2, <2>1, <2>3, <3>2, <3>3
    <3>5. \A i \in DOMAIN rows' : Day(t) <= rows'[i].day
      BY <2>7, <3>1, <3>3
    <3> QED BY <1>2, <3>2, <3>4, <3>5 DEF FromStart
  <2>11. chart'.active => Ascending(chart'.rows) /\ DaysBefore(chart'.rows, Day(now'))
    <3> SUFFICES ASSUME chart.active
                 PROVE Ascending(chart.rows) /\ DaysBefore(chart.rows, Day(now'))
      OBVIOUS
    <3>1. chart.rows \in Seq(Row)
      BY ChartIs DEF FileInv
    <3> QED BY <1>1, <3>1, LaterDays DEF FileOrder
  <2> QED BY <2>5, <2>8, <2>9, <2>10, <2>11 DEF FileOrder
<1>5. CASE rows' = rows
  <2>1. Ascending(rows') /\ DaysBefore(rows', Day(now'))
    BY <1>1, <1>3, <1>5 DEF FileOrder
  <2>2. ASSUME curReal' PROVE DaysBefore(rows', curDay')
    <3>1. CASE curDay = NoDay \/ Day(virtual') # curDay
      BY <1>2, <2>1, <2>2, <3>1
    <3>2. CASE ~(curDay = NoDay \/ Day(virtual') # curDay)
      BY <1>1, <1>2, <1>5, <2>2, <3>2 DEF FileOrder
    <3> QED BY <3>1, <3>2
  <2>3. FromStart'
    <3>1. PICK t \in StartTimes : /\ t <= now /\ \A i \in DOMAIN rows : Day(t) <= rows[i].day
                                  /\ curReal => Day(t) <= curDay
      BY <1>1 DEF FileOrder, FromStart
    <3>2. t \in Nat /\ t <= now' /\ Day(t) <= Day(now')
      BY <1>1, <3>1, StoreAssumption, DayGoesUp
    <3>3. curReal' => Day(t) <= curDay'
      BY <1>2, <3>1, <3>2
    <3> QED BY <1>5, <3>1, <3>2, <3>3 DEF FromStart
  <2>4. chart'.active => Ascending(chart'.rows) /\ DaysBefore(chart'.rows, Day(now'))
    <3> SUFFICES ASSUME chart.active
                 PROVE Ascending(chart.rows) /\ DaysBefore(chart.rows, Day(now'))
      OBVIOUS
    <3>1. chart.rows \in Seq(Row)
      BY ChartIs DEF FileInv
    <3> QED BY <1>1, <3>1, LaterDays DEF FileOrder
  <2> QED BY <2>1, <2>2, <2>3, <2>4 DEF FileOrder
<1> QED BY <1>4, <1>5, RecordRows

-----------------------------------------------------------------------------
(* Every step *)

RowsInv == GapInv /\ DayInv /\ FileInv

LEMMA NothingRecorded ==
  ASSUME RingInv, RowsInv, UNCHANGED buffer, UNCHANGED <<curDay, today>>,
         ~wandered' => ~wandered
  PROVE  GapInv' /\ DayInv'
<1>1. count' = count /\ Recorded' = Recorded
  BY UntouchedRing DEF buffer
<1>2. KnownOf(Recorded, curDay)' = KnownOf(Recorded, curDay) /\ HeatOf(Recorded, curDay)' = HeatOf(Recorded, curDay)
  BY <1>1 DEF KnownOf, HeatOf
<1> QED BY <1>1, <1>2 DEF RowsInv, GapInv, DayInv

LEMMA TimePasses ==
  ASSUME RingInv, FileInv, now' \in Nat, now <= now', ~wandered,
         UNCHANGED <<curDay, curReal, rows, chart>>
  PROVE  FileOrder'
<1>1. FileOrder /\ rows \in Seq(Row) /\ now \in Nat /\ ChartType
  BY DEF FileInv, RingInv
<1>2. DaysBefore(rows, Day(now'))
  BY <1>1, LaterDays DEF FileOrder
<1>3. FromStart'
  <2>1. PICK t \in StartTimes : /\ t <= now /\ \A i \in DOMAIN rows : Day(t) <= rows[i].day
                                /\ curReal => Day(t) <= curDay
    BY <1>1 DEF FileOrder, FromStart
  <2>2. t \in Nat /\ t <= now'
    <3>1. t \in Nat
      BY StoreAssumption
    <3> QED BY <1>1, <2>1, <3>1
  <2> QED BY <2>1, <2>2 DEF FromStart
<1>4. chart.active => Ascending(chart.rows) /\ DaysBefore(chart.rows, Day(now'))
  BY <1>1, ChartIs, LaterDays DEF FileOrder
<1> QED BY <1>1, <1>2, <1>3, <1>4 DEF FileOrder

LEMMA RowsMinute ==
  ASSUME RingInv, RingInv', OrderInv, RowsInv, NEW kind \in Kinds, NEW written \in BOOLEAN,
         NEW answers \in BOOLEAN, Minute(kind, written, answers)
  PROVE  RowsInv'
<1> DEFINE s == [ts |-> virtual', known |-> kind.known, heat |-> kind.heat]
<1>1. /\ now' \in Nat /\ virtual' \in Nat /\ s \in Sample /\ s.ts = virtual'
      /\ now \in Nat /\ virtual \in Nat /\ now <= now'
  BY MinuteStamps DEF Minute, RingInv
<1>2. /\ chart' = chart /\ valid' = (valid \/ answers) /\ mode' = mode /\ fsUp' = fsUp
      /\ wandered' = (wandered \/ mode = "accel" \/ answers)
      /\ Record(s, written) \/ UNCHANGED <<buffer, curDay, curReal, rows, today>>
  BY DEF Minute, readers
<1>3. ~wandered' => /\ ~wandered /\ virtual < virtual' /\ virtual' <= now'
                    /\ valid => virtual' = now'
                    /\ valid' = valid
  <2>1. virtual' = VirtualAfter(now')
    BY DEF Minute
  <2>2. ~wandered' => valid' = valid
    <3>1. valid \in BOOLEAN
      BY DEF RowsInv, FileInv, ControlType
    <3> QED BY <1>2, <3>1
  <2>3. ~wandered' => mode # "accel"
    BY <1>2
  <2>4. ~wandered' => (valid => virtual' = now')
    BY <2>1, <2>3 DEF VirtualAfter
  <2> QED BY <2>2, <2>4, MinuteGoesUp
<1>4. GapInv /\ DayInv /\ FileInv /\ ControlType /\ ChartType /\ rows \in Seq(Row)
  BY DEF RowsInv, FileInv
<1> HIDE DEF s
<1>5. CASE Record(s, written)
  <2>1. GapInv'
    BY <1>1, <1>3, <1>4, <1>5, GapRecord DEF GapInv
  <2>2. DayInv'
    <3>1. curDay' = Day(virtual') /\ Day(virtual') \in Nat
      BY <1>1, <1>5, DayType DEF Record
    <3>2. count' >= 1 /\ Recorded'[count'] = s
      BY <1>1, <1>5, PushMoves
    <3>3. count' # 0 /\ curDay' # NoDay
      BY <3>1, <3>2 DEF NoDay
    <3>4. ~wandered' => /\ today'.known = Cardinality(KnownOf(Recorded, curDay)')
                        /\ today'.heat = Cardinality(HeatOf(Recorded, curDay)')
      BY <1>1, <1>3, <1>4, <1>5, DayRecord
    <3> QED BY <1>1, <3>1, <3>2, <3>3, <3>4 DEF DayInv
  <2>3. FileInv'
    <3>1. ~wandered' => FileOrder'
      BY <1>1, <1>2, <1>3, <1>4, <1>5, FileRecord
    <3>2. ControlType'
      <4>1. /\ curDay' = Day(virtual') /\ Day(virtual') \in Nat
            /\ curReal' = valid' \/ curReal' = curReal
        BY <1>1, <1>5, DayType DEF Record
      <4> QED BY <1>2, <1>4, <4>1 DEF ControlType
    <3>3. rows' \in Seq(Row)
      <4>1. CASE RowAdded(s)
        <5>1. curDay \in Nat /\ rows' = Append(rows, RowOf(Recorded, curDay))
          BY <1>4, <4>1 DEF RowAdded, ControlType
        <5> QED BY <1>4, <5>1, RowType, AppendedRow
      <4> QED BY <1>1, <1>4, <1>5, <4>1, RecordRows
    <3> QED BY <1>2, <1>4, <3>1, <3>2, <3>3 DEF FileInv, ChartType
  <2> QED BY <2>1, <2>2, <2>3 DEF RowsInv
<1>6. CASE UNCHANGED <<buffer, curDay, curReal, rows, today>>
  <2>1. GapInv' /\ DayInv'
    BY <1>3, <1>6, NothingRecorded
  <2>3. ~wandered' => FileOrder'
    BY <1>1, <1>2, <1>3, <1>4, <1>6, TimePasses
  <2>4. FileInv'
    BY <1>2, <1>4, <1>6, <2>3 DEF FileInv, ControlType, ChartType
  <2> QED BY <2>1, <2>4 DEF RowsInv
<1> QED BY <1>2, <1>5, <1>6

LEMMA RowsBoot ==
  ASSUME RingInv, RingInv', RowsInv, NEW outage \in Outages, NEW keepsTime \in BOOLEAN,
         NEW mounts \in BOOLEAN, NEW written, Boot(outage, keepsTime, mounts, written)
  PROVE  RowsInv'
<1>1. /\ count' = 0 /\ curDay' = NoDay /\ curReal' = FALSE /\ chart' = Absent
      /\ today' = [known |-> 0, heat |-> 0] /\ wandered' = wandered /\ mode' = mode
      /\ valid' = (valid /\ keepsTime) /\ fsUp' = mounts
      /\ rows' = rows \/ rows' = Deduplicated(rows)
  BY DEF Boot
<1>2. now \in Nat /\ now' \in Nat /\ now <= now'
  BY StoreAssumption DEF Boot, RingInv
<1>3. GapInv'
  BY <1>1 DEF GapInv
<1>4. DayInv'
  <2>1. KnownOf(Recorded, curDay)' = {} /\ HeatOf(Recorded, curDay)' = {}
    <3>1. DOMAIN Recorded' = 1 .. 0
      BY <1>1, PlacesThen
    <3> QED BY <3>1 DEF KnownOf, HeatOf
  <2> QED BY <1>1, <2>1, FS_EmptySet DEF DayInv
<1>5. FileInv /\ rows \in Seq(Row)
  BY DEF RowsInv, FileInv
<1>6. ControlType' /\ ChartType'
  BY <1>1, <1>5 DEF FileInv, ControlType, ChartType
<1>7. /\ rows' \in Seq(Row) /\ (Ascending(rows) => Ascending(rows'))
      /\ \A n \in DOMAIN rows' : \E i \in DOMAIN rows : rows'[n] = rows[i]
  <2>1. CASE rows' = rows
    BY <1>5, <2>1
  <2>2. CASE rows' = Deduplicated(rows)
    BY <1>5, <2>2, DedupIs
  <2> QED BY <1>1, <2>1, <2>2
<1>8. ASSUME ~wandered' PROVE FileOrder'
  <2>1. FileOrder
    BY <1>1, <1>5, <1>8 DEF FileInv
  <2>2. DaysBefore(rows, Day(now'))
    BY <1>2, <1>5, <2>1, LaterDays DEF FileOrder
  <2>3. Ascending(rows') /\ DaysBefore(rows', Day(now'))
    BY <1>7, <2>1, <2>2 DEF FileOrder, DaysBefore
  <2>4. FromStart'
    <3>1. PICK t \in StartTimes : t <= now /\ \A i \in DOMAIN rows : Day(t) <= rows[i].day
      BY <2>1 DEF FileOrder, FromStart
    <3>2. t <= now'
      <4>1. t \in Nat
        BY StoreAssumption
      <4> QED BY <1>2, <3>1, <4>1
    <3> QED BY <1>1, <1>7, <3>1, <3>2 DEF FromStart
  <2> QED BY <1>1, <2>3, <2>4 DEF FileOrder, Absent
<1> QED BY <1>3, <1>4, <1>6, <1>7, <1>8 DEF RowsInv, FileInv

(* The last rows of a file are as much in order as the file. *)
LEMMA TailOfRows ==
  ASSUME NEW s \in Seq(Row), NEW k \in 1 .. Len(s) + 1
  PROVE  LET u == SubSeq(s, k, Len(s)) IN
         /\ u \in Seq(Row)
         /\ Ascending(s) => Ascending(u)
         /\ \A d : DaysBefore(s, d) => DaysBefore(u, d)
<1> DEFINE u == SubSeq(s, k, Len(s))
<1>1. /\ DOMAIN s = 1 .. Len(s) /\ Len(s) \in Nat
      /\ u \in Seq(Row) /\ DOMAIN u = 1 .. Len(s) - k + 1
      /\ \A i \in DOMAIN u : u[i] = s[i + k - 1] /\ i + k - 1 \in DOMAIN s
  <2>1. DOMAIN s = 1 .. Len(s) /\ Len(s) \in Nat
    OBVIOUS
  <2> QED BY <2>1
<1> HIDE DEF u
<1>2. ASSUME Ascending(s) PROVE Ascending(u)
  <2> SUFFICES ASSUME NEW i \in DOMAIN u, NEW j \in DOMAIN u, i < j PROVE u[i].day < u[j].day
    BY DEF Ascending
  <2>1. i + k - 1 < j + k - 1
    BY <1>1
  <2> QED BY <1>1, <1>2, <2>1 DEF Ascending
<1>3. ASSUME NEW d, DaysBefore(s, d) PROVE DaysBefore(u, d)
  BY <1>1, <1>3 DEF DaysBefore
<1> QED BY <1>1, <1>2, <1>3 DEF u

LEMMA RowsRead ==
  ASSUME RingInv, RowsInv, ReadRows
  PROVE  RowsInv'
<1> DEFINE k == IF Len(rows) > ShownRows THEN Len(rows) - ShownRows + 1 ELSE 1
           u == SubSeq(rows, k, Len(rows))
<1>1. /\ UNCHANGED buffer /\ UNCHANGED <<curDay, today, wandered>>
      /\ UNCHANGED <<now, valid, mode, curReal, rows, fsUp>>
      /\ chart' = [active |-> TRUE, rows |-> IF fsUp THEN u ELSE <<>>]
  BY DEF ReadRows, clock, history
<1>2. GapInv' /\ DayInv'
  BY <1>1, NothingRecorded
<1>3. FileInv /\ rows \in Seq(Row) /\ ControlType /\ (~wandered => FileOrder)
  BY DEF RowsInv, FileInv
<1>4. k \in 1 .. Len(rows) + 1
  <2>1. Len(rows) \in Nat /\ ShownRows \in Nat /\ ShownRows > 0
    BY <1>3, StoreAssumption
  <2> QED BY <2>1
<1> HIDE DEF k
<1>5. /\ u \in Seq(Row) /\ (Ascending(rows) => Ascending(u))
      /\ DaysBefore(rows, Day(now)) => DaysBefore(u, Day(now))
  BY <1>3, <1>4, TailOfRows
<1> HIDE DEF u
<1>6. /\ chart'.rows \in Seq(Row) /\ chart' \in [active : {TRUE}, rows : Seq(Row)]
      /\ chart'.rows = u \/ chart'.rows = <<>>
  BY <1>1, <1>5
<1>7. Ascending(<<>>) /\ DaysBefore(<<>>, Day(now))
  BY DEF Ascending, DaysBefore
<1>8. ~wandered => Ascending(chart'.rows) /\ DaysBefore(chart'.rows, Day(now))
  BY <1>3, <1>5, <1>6, <1>7 DEF FileOrder
<1>9. ControlType' /\ ChartType'
  BY <1>1, <1>3, <1>6 DEF ControlType, ChartType
<1>10. ~wandered' => FileOrder'
  BY <1>1, <1>3, <1>8 DEF FileOrder, FromStart
<1> QED BY <1>1, <1>2, <1>3, <1>9, <1>10 DEF RowsInv, FileInv

LEMMA RowsNext ==
  RingInv /\ RingInv' /\ OrderInv /\ RowsInv /\ [Next]_vars => RowsInv'
<1> SUFFICES ASSUME RingInv, RingInv', OrderInv, RowsInv, [Next]_vars PROVE RowsInv'
  OBVIOUS
<1>1. ASSUME NEW kind \in Kinds, NEW written \in BOOLEAN,
             NEW answers \in BOOLEAN, Minute(kind, written, answers)
      PROVE  RowsInv'
  BY <1>1, RowsMinute
<1>2. ASSUME NEW outage \in Outages, NEW keepsTime \in BOOLEAN, NEW mounts \in BOOLEAN,
             NEW written \in BOOLEAN, Boot(outage, keepsTime, mounts, written)
      PROVE  RowsInv'
  BY <1>2, RowsBoot
<1>3. CASE ReadRows
  BY <1>3, RowsRead
<1>4. CASE \/ StartDownload \/ DownloadBatch \/ EndDownload \/ SendChart
           \/ Synchronise \/ (\E m \in {"off", "plain", "accel"} : SetMode(m)) \/ UNCHANGED vars
  <2>1. /\ UNCHANGED buffer /\ UNCHANGED <<curDay, today, wandered>>
        /\ UNCHANGED <<now, curReal, rows, fsUp>>
        /\ chart' = chart \/ chart' = Absent
        /\ valid' = valid \/ valid' = TRUE
        /\ mode' = mode \/ mode' \in {"off", "plain", "accel"}
    BY <1>4 DEF StartDownload, DownloadBatch, EndDownload, SendChart, Synchronise, SetMode,
       vars, clock, buffer, history, readers
  <2>2. GapInv' /\ DayInv'
    BY <2>1, NothingRecorded
  <2>3. FileInv'
    <3>1. FileInv
      BY DEF RowsInv
    <3>2. ControlType' /\ ChartType'
      BY <2>1, <3>1 DEF FileInv, ControlType, ChartType
    <3>3. ~wandered => FileOrder'
      BY <2>1, <3>1 DEF FileInv, FileOrder, FromStart, Absent
    <3> QED BY <2>1, <3>1, <3>2, <3>3 DEF FileInv
  <2> QED BY <2>2, <2>3 DEF RowsInv
<1> QED BY <1>1, <1>2, <1>3, <1>4 DEF Next, Reader

-----------------------------------------------------------------------------
(* What is promised of the file and the chart *)

LEMMA RowsTypes ==
  ASSUME RingInv, RowsInv
  PROVE  TypeOK
BY DEF RowsInv, FileInv, ControlType, RingInv, TypeOK

LEMMA RowsInOrder ==
  ASSUME RingInv, RowsInv
  PROVE  RowsAreDays
<1> SUFFICES ASSUME ~wandered PROVE RowsAreDays
  BY DEF RowsAreDays
<1>1. FileOrder /\ rows \in Seq(Row)
  BY DEF RowsInv, FileInv
<1>2. PICK t \in StartTimes : \A i \in DOMAIN rows : Day(t) <= rows[i].day
  BY <1>1 DEF FileOrder, FromStart
<1>3. Day(t) \in Nat /\ \A i \in DOMAIN rows : rows[i].day \in Nat
  <2>1. t \in Nat
    BY StoreAssumption
  <2> QED BY <1>1, <2>1, DayType, RowDays
<1>4. \A i \in DOMAIN rows : rows[i].day >= Day(t)
  BY <1>2, <1>3
<1> QED BY <1>1, <1>4 DEF FileOrder, RowsAreDays

(* The row added by a rollover is what today has counted. *)
LEMMA AddedIsToday ==
  ASSUME RingInv, RowsInv, NEW s, RowAdded(s), ~wandered
  PROVE  Last(rows') = [day |-> curDay, heat |-> today.heat] /\ today.known > 0
<1>1. /\ rows \in Seq(Row) /\ ControlType /\ DayInv
      /\ today.known = Cardinality(KnownOf(Recorded, curDay))
      /\ today.heat = Cardinality(HeatOf(Recorded, curDay))
  BY DEF RowsInv, FileInv, DayInv
<1>2. curDay \in Nat /\ KnownOf(Recorded, curDay) # {} /\ rows' = Append(rows, RowOf(Recorded, curDay))
  BY <1>1 DEF RowAdded, ControlType
<1>3. RowOf(Recorded, curDay) \in Row
  BY <1>2, RowType
<1>4. Last(rows') = RowOf(Recorded, curDay)
  BY <1>1, <1>2, <1>3, AppendedRow DEF Last
<1>5. KnownOf(Recorded, curDay) \in SUBSET (1 .. count) /\ count \in Nat
  BY PlacesAre, CountNat
<1>6. /\ IsFiniteSet(KnownOf(Recorded, curDay))
      /\ Cardinality(KnownOf(Recorded, curDay)) \in 0 .. count
  BY <1>5, PlacesFinite
<1>7. Cardinality(KnownOf(Recorded, curDay)) # 0
  BY <1>2, <1>6, FS_EmptySet
<1> QED BY <1>1, <1>4, <1>5, <1>6, <1>7 DEF RowOf

LEMMA StepCountsDay ==
  ASSUME RingInv, RingInv', OrderInv, RowsInv, [Next]_vars, Len(rows') > Len(rows), ~wandered'
  PROVE  Last(rows') = [day |-> curDay, heat |-> today.heat] /\ today.known > 0
<1>1. rows \in Seq(Row)
  BY DEF RowsInv, FileInv
<1>2. rows' # rows
  <2>1. Len(rows) \in Nat
    BY <1>1
  <2> QED BY <2>1
<1>3. ASSUME NEW kind \in Kinds, NEW written \in BOOLEAN,
             NEW answers \in BOOLEAN, Minute(kind, written, answers)
      PROVE  ~wandered /\ \E s : RowAdded(s)
  <2> DEFINE s == [ts |-> virtual', known |-> kind.known, heat |-> kind.heat]
  <2>1. ~wandered /\ s \in Sample /\ (Record(s, written) \/ rows' = rows)
    BY <1>3, MinuteStamps DEF Minute
  <2> HIDE DEF s
  <2>2. RowAdded(s)
    BY <1>2, <2>1, RecordRows
  <2> QED BY <2>1, <2>2
<1>4. ASSUME NEW outage \in Outages, NEW keepsTime \in BOOLEAN, NEW mounts \in BOOLEAN,
             NEW written \in BOOLEAN, Boot(outage, keepsTime, mounts, written)
      PROVE  FALSE
  <2>1. rows' = Deduplicated(rows)
    BY <1>2, <1>4 DEF Boot
  <2>2. Len(rows') <= Len(rows) /\ Len(rows') \in Nat /\ Len(rows) \in Nat
    <3>1. Len(Deduplicated(rows)) <= Len(rows) /\ Deduplicated(rows) \in Seq(Row)
      BY <1>1, DedupIs
    <3> QED BY <1>1, <2>1, <3>1
  <2> QED BY <2>2
<1>5. ~(\/ Synchronise \/ (\E m \in {"off", "plain", "accel"} : SetMode(m)) \/ Reader
        \/ UNCHANGED vars)
  BY <1>2 DEF Synchronise, SetMode, Reader, StartDownload, DownloadBatch, EndDownload,
     ReadRows, SendChart, vars, history
<1>6. ~wandered /\ \E s : RowAdded(s)
  BY <1>3, <1>4, <1>5 DEF Next
<1> QED BY <1>6, AddedIsToday

LEMMA JoinRows ==
  ASSUME NEW q \in Seq(Row), NEW r \in Seq(Row)
  PROVE  /\ DOMAIN (q \o r) = 1 .. Len(q) + Len(r) /\ Len(q) \in Nat /\ Len(r) \in Nat
         /\ \A j \in 1 .. Len(q) : (q \o r)[j] = q[j]
         /\ \A j \in 1 .. Len(r) : (q \o r)[Len(q) + j] = r[j]
OBVIOUS

LEMMA ChartStaysInOrder ==
  ASSUME RingInv, RowsInv, chart.active, NEW i \in DOMAIN Chart, NEW j \in DOMAIN Chart, i < j
  PROVE  /\ ~(valid /\ Chart[i].day = Day(now))
         /\ ~wandered => Chart[i].day < Chart[j].day
<1> DEFINE c == chart.rows
           key == [n \in Shown |-> n]
           P == Picked(c, Shown, key)
           d == Day(now)
<1>1. /\ c \in Seq(Row) /\ d \in Nat
      /\ ~wandered => Ascending(c) /\ DaysBefore(c, d)
  BY ChartIs, DayType DEF RowsInv, FileInv, FileOrder, RingInv
<1>2. DOMAIN c = 1 .. Len(c)
  BY <1>1
<1>3. /\ Shown \in SUBSET (1 .. Len(c)) /\ \A n \in Shown : ~(valid /\ c[n].day = d)
      /\ key \in [Shown -> Nat] /\ \A n \in Shown : key[n] = n
  BY <1>2 DEF Shown
<1> HIDE DEF c, key, d
<1>4. PickedForm(P, c, Shown, key)
  BY <1>1, <1>3, PickedIs
<1> HIDE DEF P
<1>5. /\ P \in Seq(Row) /\ Len(P) = Cardinality(Shown)
      /\ \A a \in 1 .. Len(P) : \E n \in Shown : P[a] = c[n]
      /\ \A a, b \in 1 .. Len(P) : a < b =>
           \E n, m \in Shown : P[a] = c[n] /\ P[b] = c[m] /\ n < m
  BY <1>3, <1>4 DEF PickedForm
<1>6. Live \in Seq(Row) /\ (Live = <<>> \/ (Len(Live) = 1 /\ Live[1].day = d))
  <2>1. RowOf(Recorded, d) \in Row /\ RowOf(Recorded, d).day = d
    BY <1>1, RowType
  <2> QED BY <2>1 DEF Live, d
<1>7. Chart = P \o Live
  BY DEF Chart, P, c, key
<1>8. /\ DOMAIN Chart = 1 .. Len(P) + Len(Live) /\ Len(P) \in Nat /\ Len(Live) \in 0 .. 1
      /\ \A a \in 1 .. Len(P) : Chart[a] = P[a]
      /\ \A a \in 1 .. Len(Live) : Chart[Len(P) + a] = Live[a]
  BY <1>5, <1>6, <1>7, JoinRows
<1>9. i \in 1 .. Len(P) /\ Chart[i] = P[i]
  BY <1>8
<1>10. PICK n \in Shown : Chart[i] = c[n]
  BY <1>5, <1>9
<1>11. ~(valid /\ Chart[i].day = Day(now))
  BY <1>3, <1>10 DEF d
<1>12. ASSUME ~wandered PROVE Chart[i].day < Chart[j].day
  <2>1. CASE j \in 1 .. Len(P)
    <3>1. PICK a \in Shown, b \in Shown : P[i] = c[a] /\ P[j] = c[b] /\ a < b
      BY <1>5, <1>9, <2>1
    <3>2. a \in DOMAIN c /\ b \in DOMAIN c
      BY <1>2, <1>3, <3>1 DEF c
    <3> QED BY <1>1, <1>8, <1>9, <1>12, <2>1, <3>1, <3>2 DEF Ascending
  <2>2. CASE j = Len(P) + 1
    <3>1. Len(Live) = 1 /\ Chart[j] = Live[1] /\ Live[1].day = d
      BY <1>6, <1>8, <2>2
    <3>2. n \in DOMAIN c
      BY <1>2, <1>3 DEF c
    <3> QED BY <1>1, <1>10, <1>12, <3>1, <3>2 DEF DaysBefore
  <2> QED BY <1>8, <2>1, <2>2
<1> QED BY <1>11, <1>12

-----------------------------------------------------------------------------
(* The theorems *)

StoreInv == RingInv /\ DownloadInv /\ OrderInv /\ RowsInv

LEMMA StoreStarts == Init => StoreInv
<1> SUFFICES ASSUME Init PROVE StoreInv
  OBVIOUS
<1>1. /\ download = Absent /\ chart = Absent /\ count = 0 /\ virtual = 0 /\ since = 0
      /\ now \in StartTimes /\ rows = <<>> /\ curDay = NoDay /\ curReal = FALSE
      /\ valid = FALSE /\ mode = "off" /\ fsUp = TRUE /\ today = [known |-> 0, heat |-> 0]
  BY DEF Init
<1>2. RingInv
  BY RingInit
<1>3. DownloadInv /\ OrderInv
  BY <1>1, EpochAssumption, StoreAssumption DEF DownloadInv, OrderInv, Absent
<1>4. GapInv
  BY <1>1 DEF GapInv
<1>5. DayInv
  <2>1. Recorded = <<>>
    BY <1>1, <1>2, EmptyRing
  <2>2. KnownOf(Recorded, curDay) = {} /\ HeatOf(Recorded, curDay) = {}
    BY <2>1 DEF KnownOf, HeatOf
  <2> QED BY <1>1, <2>2, FS_EmptySet DEF DayInv
<1>6. FileInv
  <2>1. FromStart
    <3>1. now \in Nat
      BY <1>2 DEF RingInv
    <3> QED BY <1>1, <3>1 DEF FromStart
  <2>2. ControlType /\ ChartType /\ rows \in Seq(Row)
    <3>1. ControlType
      BY <1>1 DEF ControlType, NoDay
    <3>2. ChartType
      BY <1>1 DEF ChartType, Absent
    <3>3. rows \in Seq(Row)
      BY <1>1
    <3> QED BY <3>1, <3>2, <3>3
  <2>3. Ascending(rows) /\ \A d : DaysBefore(rows, d)
    BY <1>1 DEF Ascending, DaysBefore
  <2>4. ~chart.active
    BY <1>1 DEF Absent
  <2>5. FileOrder
    BY <2>1, <2>3, <2>4 DEF FileOrder
  <2> QED BY <2>2, <2>5 DEF FileInv
<1> QED BY <1>2, <1>3, <1>4, <1>5, <1>6 DEF StoreInv, RowsInv

LEMMA StoreSteps == StoreInv /\ [Next]_vars => StoreInv'
<1> SUFFICES ASSUME StoreInv, [Next]_vars PROVE StoreInv'
  OBVIOUS
<1>1. RingInv /\ DownloadInv /\ OrderInv /\ RowsInv
  BY DEF StoreInv
<1>2. RingInv'
  BY <1>1, RingNext
<1>3. DownloadInv' /\ OrderInv' /\ RowsInv'
  BY <1>1, <1>2, DownloadNext, OrderNext, RowsNext
<1> QED BY <1>2, <1>3 DEF StoreInv

(* Every variable of the ring, the rollover and the file keeps its type; a
   row's heating minutes never exceed the ring. *)
THEOREM TypeCorrect == Spec => []TypeOK
<1>1. StoreInv => TypeOK
  BY RowsTypes DEF StoreInv
<1> QED BY <1>1, StoreStarts, StoreSteps, PTL DEF Spec

(* storage_record_minute writes a row only for days on a valid clock: without
   accelerated minutes daily.csv has one row per day, in order, none older than
   the first boot, through every restart, power failure and late SNTP answer,
   whatever the lengths of a day, of the ring and of dedup_daily_csv's table. *)
THEOREM FileHasOneRowPerDay == Spec => []RowsAreDays
<1>1. StoreInv => RowsAreDays
  BY RowsInOrder DEF StoreInv
<1> QED BY <1>1, StoreStarts, StoreSteps, PTL DEF Spec

(* aggregate_day finds every known minute of the day since the boot in the
   ring, whatever the length of a day that fits it: the row it appends counts
   all its heating minutes. *)
THEOREM RolloverCountsDay == Spec => RowCountsDay
<1>1. StoreInv /\ StoreInv' /\ [Next]_vars =>
        (Len(rows') > Len(rows) /\ ~wandered' =>
           Last(rows') = [day |-> curDay, heat |-> today.heat] /\ today.known > 0)
  BY StepCountsDay DEF StoreInv
<1>2. StoreInv /\ StoreInv' /\ [Next]_vars =>
        [Len(rows') > Len(rows) /\ ~wandered' =>
           Last(rows') = [day |-> curDay, heat |-> today.heat] /\ today.known > 0]_vars
  BY <1>1
<1> QED BY <1>2, StoreStarts, StoreSteps, PTL DEF Spec, RowCountsDay

(* h_daily reads the file and the buffer in two critical sections: the chart it
   sends still shows the current day once and last, and ascends. *)
THEOREM ChartIsInOrder == Spec => ChartInOrder
<1>1. StoreInv /\ StoreInv' /\ [Next]_vars =>
        (chart.active /\ ~chart'.active /\ now' = now =>
           \A i, j \in DOMAIN Chart : i < j =>
              /\ valid /\ Chart[i].day = Day(now) => i = Len(Chart)
              /\ ~wandered => Chart[i].day < Chart[j].day)
  BY ChartStaysInOrder DEF StoreInv
<1>2. StoreInv /\ StoreInv' /\ [Next]_vars =>
        [chart.active /\ ~chart'.active /\ now' = now =>
           \A i, j \in DOMAIN Chart : i < j =>
              /\ valid /\ Chart[i].day = Day(now) => i = Len(Chart)
              /\ ~wandered => Chart[i].day < Chart[j].day]_vars
  BY <1>1
<1> QED BY <1>2, StoreStarts, StoreSteps, PTL DEF Spec, ChartInOrder
=============================================================================
