--------------------------- MODULE Alerts_proofs ---------------------------
(***************************************************************************)
(* Proofs about Alerts for every value of its constants: any queue, any    *)
(* window, any set of events the limiter has slots for.                    *)
(***************************************************************************)
EXTENDS Alerts, FiniteSetTheorems, TLAPS

-----------------------------------------------------------------------------
(* Sequences and counters *)

LEMMA UpToBounded ==
  ASSUME NEW bound \in Nat, NEW n \in 0 .. bound
  PROVE  UpTo(n, bound) \in 0 .. bound
BY DEF UpTo

LEMMA AppendType ==
  ASSUME NEW S, NEW s \in Seq(S), NEW e \in S
  PROVE  /\ Append(s, e) \in Seq(S) /\ Len(Append(s, e)) = Len(s) + 1
         /\ DOMAIN Append(s, e) = DOMAIN s \cup {Len(s) + 1}
         /\ \A i \in DOMAIN s : Append(s, e)[i] = s[i]
         /\ Append(s, e)[Len(s) + 1] = e
OBVIOUS

LEMMA TailType ==
  ASSUME NEW S, NEW s \in Seq(S), s # <<>>
  PROVE  /\ Head(s) \in S /\ Tail(s) \in Seq(S) /\ Len(Tail(s)) = Len(s) - 1
         /\ Head(s) = s[1] /\ 1 \in DOMAIN s
         /\ DOMAIN Tail(s) = 1 .. Len(s) - 1
         /\ \A i \in DOMAIN Tail(s) : Tail(s)[i] = s[i + 1] /\ i + 1 \in DOMAIN s
OBVIOUS

-----------------------------------------------------------------------------
(* Operators of Notifier *)

LEMMA NotifierConstants ==
  /\ QueueLen \in Nat /\ Slots \in Nat \ {0} /\ Window \in Nat \ {0} /\ NetWait \in Nat
  /\ RepeatCap \in Nat \ {0} /\ Restart \in Events /\ IsFiniteSet(Events)
BY NotifierAssumption

LEMMA SlotFields ==
  ASSUME NEW t \in Seq(Slot), NEW i \in DOMAIN t
  PROVE  /\ t[i] \in Slot /\ t[i].key \in Events
         /\ t[i].age \in 0 .. Window /\ t[i].repeats \in 0 .. RepeatCap
<1>1. t[i] \in Slot
  OBVIOUS
<1> QED BY <1>1 DEF Slot

LEMMA FreshSlotType == ASSUME NEW e \in Events PROVE FreshSlot(e) \in Slot
BY NotifierConstants DEF FreshSlot, Slot

(* The search of email_rate_allow finds the event's slot, or 0. *)
LEMMA SlotOfFinds ==
  ASSUME NEW t \in Seq(Slot), NEW e
  PROVE  \/ SlotOf(t, e) = 0 /\ \A i \in DOMAIN t : t[i].key # e
         \/ SlotOf(t, e) # 0 /\ SlotOf(t, e) \in DOMAIN t /\ t[SlotOf(t, e)].key = e
<1>1. CASE \E i \in DOMAIN t : t[i].key = e
  <2>1. SlotOf(t, e) \in DOMAIN t /\ t[SlotOf(t, e)].key = e
    BY <1>1 DEF SlotOf
  <2> QED BY <2>1
<1>2. CASE ~ \E i \in DOMAIN t : t[i].key = e
  BY <1>2 DEF SlotOf
<1> QED BY <1>1, <1>2

OneSlotEach(t) == \A i, j \in DOMAIN t : t[i].key = t[j].key => i = j

(* While an event has no slot there is one free: none is ever taken from
   another event. *)
LEMMA RoomForNewcomer ==
  ASSUME NEW t \in Seq(Slot), OneSlotEach(t), NEW e \in Events,
         \A i \in DOMAIN t : t[i].key # e
  PROVE  Len(t) < Slots
<1> DEFINE f == [i \in 1 .. Len(t) |-> t[i].key]
<1>1. Len(t) \in Nat /\ DOMAIN t = 1 .. Len(t)
  OBVIOUS
<1>2. f \in Injection(1 .. Len(t), Events \ {e})
  BY <1>1, SlotFields DEF Injection, OneSlotEach, IsInjective
<1>3. /\ IsFiniteSet(Events \ {e})
      /\ Cardinality(Events \ {e}) = Cardinality(Events) - 1
  BY NotifierConstants, FS_RemoveElement
<1>4. Cardinality(1 .. Len(t)) <= Cardinality(Events) - 1
  <2> HIDE DEF f
  <2> QED BY <1>2, <1>3, FS_Injection
<1>5. Cardinality(1 .. Len(t)) = Len(t)
  <2>1. Cardinality(1 .. Len(t)) = IF 1 > Len(t) THEN 0 ELSE Len(t) - 1 + 1
    BY <1>1, 1 \in Int, Len(t) \in Int, FS_Interval, Zenon
  <2> QED BY <1>1, <2>1
<1>6. Cardinality(Events) \in Nat
  BY NotifierConstants, FS_CardinalityType
<1> QED BY <1>1, <1>4, <1>5, <1>6, SlotsAssumption, NotifierConstants

(* The table after an occurrence of e: the event has one slot, fresh when the
   mail goes out and counting when it does not, and no other slot changes. *)
LEMMA RateTableIs ==
  ASSUME NEW t \in Seq(Slot), OneSlotEach(t), Len(t) <= Slots, NEW e \in Events,
         NEW T, T = RateTable(t, e)
  PROVE  /\ T \in Seq(Slot) /\ Len(T) <= Slots /\ OneSlotEach(T)
         /\ \A i \in DOMAIN t : i \in DOMAIN T /\ T[i].key = t[i].key
         /\ \A i \in DOMAIN T : T[i].key # e => i \in DOMAIN t /\ T[i] = t[i]
         /\ \A i \in DOMAIN T : T[i].key = e =>
              \/ Allows(t, e) /\ T[i] = FreshSlot(e)
              \/ /\ ~Allows(t, e) /\ i \in DOMAIN t
                 /\ T[i].age = t[i].age /\ T[i].repeats = UpTo(t[i].repeats, RepeatCap)
         /\ \E i \in DOMAIN T : T[i].key = e
<1> DEFINE k == SlotOf(t, e)
<1>0. FreshSlot(e) \in Slot /\ FreshSlot(e).key = e
  BY FreshSlotType DEF FreshSlot
<1>1. CASE k = 0
  <2>1. \A i \in DOMAIN t : t[i].key # e
    BY <1>1, SlotOfFinds
  <2>2. Len(t) < Slots
    BY <2>1, RoomForNewcomer
  <2>3. T = Append(t, FreshSlot(e))
    BY <1>1, <2>2 DEF RateTable, TakeSlot
  <2>4. Allows(t, e)
    BY <1>1 DEF Allows
  <2>5. Len(t) \in Nat /\ DOMAIN t = 1 .. Len(t) /\ Slots \in Nat
    BY NotifierConstants
  <2> QED BY <1>0, <2>1, <2>2, <2>3, <2>4, <2>5, AppendType DEF OneSlotEach
<1>2. CASE k # 0
  <2>1. k \in DOMAIN t /\ t[k].key = e
    BY <1>2, SlotOfFinds
  <2>2. t[k] \in Slot
    BY <2>1, SlotFields
  <2>3. \A i \in DOMAIN t : t[i].key = e => i = k
    BY <2>1 DEF OneSlotEach
  <2>4. ASSUME NEW s \in Slot, s.key = e, T = [t EXCEPT ![k] = s]
        PROVE  /\ T \in Seq(Slot) /\ Len(T) = Len(t) /\ DOMAIN T = DOMAIN t /\ T[k] = s
               /\ \A i \in DOMAIN t : i # k => T[i] = t[i]
               /\ OneSlotEach(T)
    <3>1. /\ T \in Seq(Slot) /\ Len(T) = Len(t) /\ DOMAIN T = DOMAIN t /\ T[k] = s
          /\ \A i \in DOMAIN t : i # k => T[i] = t[i]
      BY <2>1, <2>4
    <3> QED BY <2>1, <2>4, <3>1 DEF OneSlotEach
  <2>5. CASE Lapsed(t, k)
    <3>1. T = [t EXCEPT ![k] = FreshSlot(e)] /\ Allows(t, e)
      BY <1>2, <2>5 DEF RateTable, Allows
    <3> QED BY <1>0, <2>1, <2>3, <2>4, <3>1
  <2>6. CASE ~Lapsed(t, k)
    <3> DEFINE s == [t[k] EXCEPT !.repeats = UpTo(@, RepeatCap)]
    <3>1. UpTo(t[k].repeats, RepeatCap) \in 0 .. RepeatCap
      BY <2>1, SlotFields, UpToBounded, NotifierConstants
    <3>2. /\ s \in Slot /\ s.key = e /\ s.age = t[k].age
          /\ s.repeats = UpTo(t[k].repeats, RepeatCap)
      BY <2>1, <2>2, <3>1 DEF Slot
    <3>3. T = [t EXCEPT ![k] = s] /\ ~Allows(t, e)
      BY <1>2, <2>1, <2>6 DEF RateTable, Allows
    <3> HIDE DEF s
    <3> QED BY <2>1, <2>3, <2>4, <3>2, <3>3
  <2> QED BY <2>5, <2>6
<1> QED BY <1>1, <1>2

-----------------------------------------------------------------------------
(* Types *)

Known == (Faults \cap Events) \cup {"NONE"}

TypeInv == TypeOK /\ fault \in Known

LEMMA SendType ==
  ASSUME NotifierTypeOK, NEW c \in Command, Send(c)
  PROVE  NotifierTypeOK'
<1>1. queue \in Seq(Command) /\ Len(queue) \in Nat /\ Len(queue) <= QueueLen /\ QueueLen \in Nat
  BY NotifierConstants DEF NotifierTypeOK
<1>2. CASE Len(queue) < QueueLen
  <2>1. queue' = Append(queue, c) /\ offer' = "accepted"
    BY <1>2 DEF Send
  <2>2. queue' \in Seq(Command) /\ Len(queue') = Len(queue) + 1
    BY <1>1, <2>1, AppendType
  <2> QED BY <1>1, <1>2, <2>1, <2>2 DEF Send, NotifierTypeOK
<1>3. CASE ~(Len(queue) < QueueLen)
  BY <1>3 DEF Send, NotifierTypeOK
<1> QED BY <1>2, <1>3

LEMMA QuietType == ASSUME NotifierTypeOK, Quietly PROVE NotifierTypeOK'
BY DEF Quietly, NotifierTypeOK

LEMMA JobFields ==
  ASSUME job \in Jobs, job.phase # "idle"
  PROVE  /\ job \in [cmd : Command, phase : Phases, waited : 0 .. NetWait]
         /\ job.cmd \in Command /\ job.cmd.event \in Events /\ job.cmd.mail \in BOOLEAN
         /\ job # Idle
<1>1. job # Idle
  BY DEF Idle
<1>2. job \in [cmd : Command, phase : Phases, waited : 0 .. NetWait]
  BY <1>1 DEF Jobs
<1> QED BY <1>1, <1>2 DEF Command

LEMMA ReceiveType == ASSUME NotifierTypeOK, Receive PROVE NotifierTypeOK'
<1>1. /\ Head(queue) \in Command /\ queue' \in Seq(Command)
      /\ Len(queue') <= QueueLen
  BY TailType, NotifierConstants DEF Receive, NotifierTypeOK
<1>2. job' \in [cmd : Command, phase : Phases, waited : 0 .. NetWait]
  BY <1>1, NotifierConstants DEF Receive, Start, Phases
<1> QED BY <1>1, <1>2 DEF Receive, Start, NotifierTypeOK, Jobs

(* A step of the worker on the command it has. *)
LEMMA PhaseType ==
  ASSUME job \in Jobs, job.phase # "idle", NEW p \in Phases, job' = [job EXCEPT !.phase = p]
  PROVE  job' \in Jobs
BY JobFields DEF Jobs

LEMMA DecideType ==
  ASSUME NotifierTypeOK, OneSlotEach(limiter), Decide
  PROVE  NotifierTypeOK'
<1> DEFINE e == job.cmd.event
<1>1. job.phase # "idle" /\ job \in Jobs
  BY DEF Decide, NotifierTypeOK
<1>2. e \in Events
  BY <1>1, JobFields
<1>3. job' \in Jobs
  BY <1>1, PhaseType DEF Decide, Phases
<1>4. limiter' \in Seq(Slot) /\ Len(limiter') <= Slots
  <2>1. limiter' = limiter \/ limiter' = RateTable(limiter, e)
    BY DEF Decide
  <2>2. limiter \in Seq(Slot) /\ Len(limiter) <= Slots
    BY DEF NotifierTypeOK
  <2> QED BY <1>2, <2>1, <2>2, RateTableIs
<1>5. mailed' \in [Events -> 0 .. Window]
  <2>1. mailed' = mailed \/ mailed' = [mailed EXCEPT ![e] = 0]
    BY DEF Decide
  <2>2. mailed \in [Events -> 0 .. Window] /\ 0 \in 0 .. Window
    BY NotifierConstants DEF NotifierTypeOK
  <2> QED BY <2>1, <2>2
<1>6. unreported' \in [Events -> 0 .. RepeatCap]
  <2>1. unreported[e] \in 0 .. RepeatCap
    BY <1>2 DEF NotifierTypeOK
  <2>2. UpTo(unreported[e], RepeatCap) \in 0 .. RepeatCap
    BY <2>1, UpToBounded, NotifierConstants
  <2> QED BY <1>2, <2>2, NotifierConstants DEF Decide, NotifierTypeOK
<1>7. queue' = queue /\ offer' = "none"
  BY DEF Decide
<1> QED BY <1>3, <1>4, <1>5, <1>6, <1>7 DEF NotifierTypeOK

LEMMA WorkerType ==
  ASSUME NotifierTypeOK, OneSlotEach(limiter), NEW up, Worker(up)
  PROVE  NotifierTypeOK'
<1>1. CASE EndWait(up)
  <2>1. job' \in Jobs
    BY <1>1, PhaseType DEF EndWait, NotifierTypeOK, Phases
  <2> QED BY <1>1, <2>1 DEF EndWait, NotifierTypeOK
<1>2. CASE Return
  BY <1>2 DEF Return, NotifierTypeOK, Jobs
<1> QED BY <1>1, <1>2, ReceiveType, DecideType DEF Worker

LEMMA AgeSlots ==
  ASSUME NotifierTypeOK, Age
  PROVE  /\ limiter' \in Seq(Slot) /\ Len(limiter') = Len(limiter)
         /\ DOMAIN limiter' = DOMAIN limiter
         /\ \A i \in DOMAIN limiter :
              /\ limiter'[i].key = limiter[i].key
              /\ limiter'[i].age = UpTo(limiter[i].age, Window)
              /\ limiter'[i].repeats = limiter[i].repeats
<1> DEFINE older(i) == [limiter[i] EXCEPT !.age = UpTo(@, Window)]
<1>1. limiter \in Seq(Slot) /\ Len(limiter) \in Nat /\ DOMAIN limiter = 1 .. Len(limiter)
  BY DEF NotifierTypeOK
<1>2. ASSUME NEW i \in DOMAIN limiter
      PROVE  /\ older(i) \in Slot /\ older(i).key = limiter[i].key
             /\ older(i).age = UpTo(limiter[i].age, Window)
             /\ older(i).repeats = limiter[i].repeats
  <2>1. UpTo(limiter[i].age, Window) \in 0 .. Window /\ limiter[i] \in Slot
    BY <1>1, SlotFields, UpToBounded, NotifierConstants
  <2> QED BY <2>1 DEF Slot
<1>3. limiter' = [i \in DOMAIN limiter |-> older(i)]
  BY DEF Age
<1> HIDE DEF older
<1>4. limiter' \in Seq(Slot) /\ Len(limiter') = Len(limiter)
  BY <1>1, <1>2, <1>3
<1> QED BY <1>2, <1>3, <1>4

LEMMA AgeType == ASSUME NotifierTypeOK, Age PROVE NotifierTypeOK'
<1>1. limiter' \in Seq(Slot) /\ Len(limiter') <= Slots
  BY AgeSlots DEF NotifierTypeOK
<1>2. mailed' \in [Events -> 0 .. Window]
  BY UpToBounded, NotifierConstants DEF Age, NotifierTypeOK
<1>3. job' \in Jobs
  <2>1. CASE job.phase = "waiting"
    <3>1. job \in [cmd : Command, phase : Phases, waited : 0 .. NetWait]
      BY <2>1, JobFields DEF NotifierTypeOK
    <3>2. UpTo(job.waited, NetWait) \in 0 .. NetWait
      BY <3>1, UpToBounded, NotifierConstants
    <3> QED BY <2>1, <3>1, <3>2 DEF Age, Jobs
  <2>2. CASE job.phase # "waiting"
    BY <2>2 DEF Age, NotifierTypeOK
  <2> QED BY <2>1, <2>2
<1> QED BY <1>1, <1>2, <1>3 DEF Age, NotifierTypeOK

LEMMA BlankType ==
  ASSUME NEW q, NEW j, NEW l, NEW m, NEW u, NEW o,
         q = Blank.queue, j = Blank.job, l = Blank.limiter, m = Blank.mailed,
         u = Blank.unreported, o = Blank.offer
  PROVE  /\ q = <<>> /\ j = Idle /\ l = <<>> /\ m = [e \in Events |-> Window]
         /\ u = [e \in Events |-> 0] /\ o = "none"
         /\ q \in Seq(Command) /\ Len(q) = 0 /\ l \in Seq(Slot) /\ Len(l) = 0
         /\ m \in [Events -> 0 .. Window] /\ u \in [Events -> 0 .. RepeatCap]
BY NotifierConstants DEF Blank

LEMMA InitBlank ==
  ASSUME NotifierInit
  PROVE  /\ NotifierTypeOK
         /\ queue = <<>> /\ job = Idle /\ limiter = <<>> /\ offer = "none"
         /\ mailed = [e \in Events |-> Window] /\ unreported = [e \in Events |-> 0]
<1>1. /\ queue = <<>> /\ job = Idle /\ limiter = <<>> /\ offer = "none"
      /\ mailed = [e \in Events |-> Window] /\ unreported = [e \in Events |-> 0]
  BY DEF NotifierInit, Blank
<1>2. <<>> \in Seq(Command) /\ <<>> \in Seq(Slot) /\ Len(<<>>) = 0
  OBVIOUS
<1> QED BY <1>1, <1>2, NotifierConstants DEF NotifierTypeOK, Jobs

LEMMA BootBlank ==
  ASSUME NotifierBoot
  PROVE  /\ NotifierTypeOK'
         /\ queue' = <<>> /\ job' = Idle /\ limiter' = <<>> /\ offer' = "none"
         /\ mailed' = [e \in Events |-> Window] /\ unreported' = [e \in Events |-> 0]
<1>1. /\ queue' = <<>> /\ job' = Idle /\ limiter' = <<>> /\ offer' = "none"
      /\ mailed' = [e \in Events |-> Window] /\ unreported' = [e \in Events |-> 0]
  BY DEF NotifierBoot, Blank
<1>2. <<>> \in Seq(Command) /\ <<>> \in Seq(Slot) /\ Len(<<>>) = 0
  OBVIOUS
<1> QED BY <1>1, <1>2, NotifierConstants DEF NotifierTypeOK, Jobs

(* A fault that is raised is one of the events, and never the restart. *)
LEMMA ObservedFault ==
  ASSUME fault \in Known, netUp \in BOOLEAN, NEW c \in Contexts
  PROVE  NextFault(fault, c.healthy, c.storageUp, netUp, c.judged, c.rise) \in Known
<1> DEFINE f == NextFault(fault, c.healthy, c.storageUp, netUp, c.judged, c.rise)
<1>1. f \in Events \cup {"NONE"}
  BY AlertsAssumption DEF Known
<1>2. f \in Faults
  BY DEF NextFault, Known, Faults, HeatFaults
<1> QED BY <1>1, <1>2 DEF Known

LEMMA RestartIsNoFault == Restart \notin Faults /\ Restart # "NONE"
BY DEF Restart, Faults, HeatFaults

LEMMA LoggedType ==
  ASSUME logged \in [class : Faults, age : 0 .. LogGap]
  PROVE  /\ \A f \in Faults : LogFault(f) => logged' \in [class : Faults, age : 0 .. LogGap]
         /\ Pass => logged' \in [class : Faults, age : 0 .. LogGap]
         /\ NoLine \in [class : Faults, age : 0 .. LogGap]
<1>0. LogGap \in Nat
  BY AlertsAssumption
<1>1. NoLine \in [class : Faults, age : 0 .. LogGap]
  BY <1>0 DEF NoLine, Faults
<1>2. ASSUME NEW f \in Faults, LogFault(f)
      PROVE  logged' \in [class : Faults, age : 0 .. LogGap]
  <2>1. [class |-> f, age |-> 0] \in [class : Faults, age : 0 .. LogGap]
    BY <1>0
  <2> QED BY <1>2, <2>1 DEF LogFault
<1>3. ASSUME Pass, ~(logged = NoLine \/ logged.age + 1 >= LogGap)
      PROVE  logged' \in [class : Faults, age : 0 .. LogGap]
  BY <1>0, <1>3 DEF Pass
<1> QED BY <1>1, <1>2, <1>3 DEF Pass

LEMMA TypeInit == Init => TypeInv
<1> SUFFICES ASSUME Init PROVE TypeInv
  OBVIOUS
<1>1. NotifierTypeOK
  BY InitBlank DEF Init
<1>2. /\ logged \in [class : Faults, age : 0 .. LogGap]
      /\ uptime \in 0 .. NoticeAge /\ sinceNotice \in 0 .. NoticeAge /\ settings \in Setting
  BY AlertsAssumption DEF Init, NoLine, Faults, Setting
<1>3. fault \in Faults /\ fault \in Known
  BY DEF Init, Faults, Known
<1> QED BY <1>1, <1>2, <1>3 DEF Init, TypeInv, TypeOK

LEMMA TypeNext == TypeInv /\ OneSlotEach(limiter) /\ [Next]_vars => TypeInv'
<1> SUFFICES ASSUME TypeInv, OneSlotEach(limiter), [Next]_vars PROVE TypeInv'
  OBVIOUS
<1>0. /\ NotifierTypeOK /\ fault \in Faults /\ fault \in Known
      /\ logged \in [class : Faults, age : 0 .. LogGap] /\ uptime \in 0 .. NoticeAge
      /\ sinceNotice \in 0 .. NoticeAge
      /\ notified \in BOOLEAN /\ netUp \in BOOLEAN /\ settings \in Setting
      /\ tick \in {"observe", "notice"} /\ noticed \in BOOLEAN
  BY DEF TypeInv, TypeOK
<1>1. Known \subseteq Faults /\ "NONE" \in Known
  BY DEF Known, Faults
<1>2. ASSUME NEW c \in Contexts, Observe(c) PROVE TypeInv'
  <2> DEFINE f == NextFault(fault, c.healthy, c.storageUp, netUp, c.judged, c.rise)
  <2>1. f \in Known
    BY <1>0, ObservedFault
  <2>2. /\ netUp' = netUp /\ settings' = settings /\ noticed' = noticed
        /\ uptime' = uptime /\ tick' = "notice" /\ sinceNotice' = sinceNotice
    BY <1>2 DEF Observe
  <2>3. CASE f = fault
    BY <1>0, <1>2, <2>2, <2>3, QuietType DEF Observe, fvars, TypeInv, TypeOK
  <2>4. CASE f # fault /\ f = "NONE"
    BY <1>0, <1>1, <1>2, <2>2, <2>4, QuietType DEF Observe, Clear, TypeInv, TypeOK
  <2>5. CASE f # fault /\ f # "NONE"
    <3>1. Raise(f)
      BY <1>2, <2>5 DEF Observe
    <3>2. /\ fault' = f /\ LogFault(f)
          /\ notified' = (notified \/ (~notified /\ settings.faults))
      BY <3>1 DEF Raise
    <3>3. f \in Faults /\ f \in Events
      BY <1>1, <2>1, <2>5 DEF Known
    <3>4. logged' \in [class : Faults, age : 0 .. LogGap]
      BY <1>0, <3>2, <3>3, LoggedType
    <3>5. [event |-> f, mail |-> settings.mail] \in Command
      BY <1>0, <3>3 DEF Setting, Command
    <3>6. NotifierTypeOK'
      BY <1>0, <3>1, <3>5, SendType, QuietType DEF Raise
    <3> HIDE DEF f
    <3> QED BY <1>0, <2>1, <2>2, <3>2, <3>3, <3>4, <3>6 DEF TypeInv, TypeOK, Setting
  <2> QED BY <2>3, <2>4, <2>5
<1>3. CASE Notice
  <2>1. [event |-> Restart, mail |-> settings.mail] \in Command
    BY <1>0, NotifierConstants DEF Setting, Command
  <2>2. NotifierTypeOK'
    BY <1>0, <1>3, <2>1, SendType, QuietType DEF Notice
  <2>3. noticed' \in BOOLEAN
    BY <1>0, <1>3 DEF Notice, NoticeDue
  <2> QED BY <1>0, <1>3, <2>2, <2>3 DEF Notice, fvars, TypeInv, TypeOK
<1>4. CASE ClearFault
  BY <1>0, <1>1, <1>4, QuietType DEF ClearFault, Clear, TypeInv, TypeOK
<1>5. ASSUME NEW s \in Settings, PutSettings(s) PROVE TypeInv'
  BY <1>0, <1>5, QuietType, AlertsAssumption DEF PutSettings, fvars, Setting, TypeInv, TypeOK
<1>6. ASSUME NEW up \in BOOLEAN, SetNetworkUp(up) PROVE TypeInv'
  BY <1>0, <1>6, QuietType DEF SetNetworkUp, fvars, TypeInv, TypeOK
<1>7. CASE WorkerStep
  <2>1. NotifierTypeOK'
    BY <1>0, <1>7, WorkerType DEF WorkerStep
  <2>2. sinceNotice' \in 0 .. NoticeAge
    BY <1>0, <1>7, AlertsAssumption DEF WorkerStep
  <2> QED BY <1>0, <1>7, <2>1, <2>2 DEF WorkerStep, avars, fvars, TypeInv, TypeOK
<1>8. CASE Pass
  <2>1. NotifierTypeOK' /\ logged' \in [class : Faults, age : 0 .. LogGap]
    BY <1>0, <1>8, AgeType, LoggedType DEF Pass
  <2>2. uptime' \in 0 .. NoticeAge /\ sinceNotice' \in 0 .. NoticeAge
    BY <1>0, <1>8, UpToBounded, AlertsAssumption DEF Pass
  <2> QED BY <1>0, <1>8, <2>1, <2>2 DEF Pass, TypeInv, TypeOK
<1>9. CASE Boot
  <2>1. NotifierTypeOK' /\ logged' \in [class : Faults, age : 0 .. LogGap]
    BY <1>0, <1>9, BootBlank, LoggedType DEF Boot
  <2>2. 0 \in 0 .. NoticeAge
    BY AlertsAssumption
  <2> QED BY <1>0, <1>1, <1>9, <2>1, <2>2 DEF Boot, TypeInv, TypeOK
<1>10. CASE UNCHANGED vars
  BY <1>0, <1>10 DEF vars, nvars, avars, fvars, TypeInv, TypeOK, NotifierTypeOK
<1> QED BY <1>2, <1>3, <1>4, <1>5, <1>6, <1>7, <1>8, <1>9, <1>10 DEF Next, NowStep

-----------------------------------------------------------------------------
(* The limiter against the clocks of what really went out *)

(* A slot tells the age and the count of its event; an event without a slot
   has not been mailed since the boot and nothing of it was kept back. *)
LimiterInv ==
  /\ OneSlotEach(limiter)
  /\ \A i \in DOMAIN limiter :
       /\ mailed[limiter[i].key] = limiter[i].age
       /\ unreported[limiter[i].key] = limiter[i].repeats
  /\ \A e \in Events : (\A i \in DOMAIN limiter : limiter[i].key # e) =>
       mailed[e] = Window /\ unreported[e] = 0

Untouched == UNCHANGED <<limiter, mailed, unreported>>

LEMMA UntouchedKeeps == ASSUME LimiterInv, Untouched PROVE LimiterInv'
BY DEF LimiterInv, Untouched, OneSlotEach

LEMMA AllowsExactly ==
  ASSUME NotifierTypeOK, LimiterInv, NEW e \in Events
  PROVE  Allows(limiter, e) <=> mailed[e] >= Window
<1> DEFINE k == SlotOf(limiter, e)
<1>0. limiter \in Seq(Slot) /\ Window \in Nat
  BY NotifierConstants DEF NotifierTypeOK
<1>1. CASE k = 0
  <2>1. mailed[e] = Window
    BY <1>0, <1>1, SlotOfFinds DEF LimiterInv
  <2> QED BY <1>0, <1>1, <2>1 DEF Allows
<1>2. CASE k # 0
  <2>1. k \in DOMAIN limiter /\ mailed[e] = limiter[k].age
    BY <1>0, <1>2, SlotOfFinds DEF LimiterInv
  <2>2. limiter[k].age \in Nat
    BY <1>0, <2>1, SlotFields
  <2> QED BY <1>0, <1>2, <2>1, <2>2 DEF Allows, Lapsed
<1> QED BY <1>1, <1>2

LEMMA DecideLimiter ==
  ASSUME NotifierTypeOK, LimiterInv, Decide
  PROVE  LimiterInv'
<1> DEFINE e == job.cmd.event
<1>1. job.phase # "idle" /\ job \in Jobs /\ limiter \in Seq(Slot) /\ Len(limiter) <= Slots
  BY DEF Decide, NotifierTypeOK
<1>2. e \in Events /\ job.cmd.mail \in BOOLEAN
  BY <1>1, JobFields
<1>3. CASE ~job.cmd.mail
  BY <1>3, UntouchedKeeps DEF Decide, Untouched
<1>4. CASE job.cmd.mail
  <2> DEFINE T == RateTable(limiter, e)
  <2>1. limiter' = T
    BY <1>4 DEF Decide
  <2>2. /\ OneSlotEach(T)
        /\ \A i \in DOMAIN limiter : i \in DOMAIN T /\ T[i].key = limiter[i].key
        /\ \A i \in DOMAIN T : T[i].key # e => i \in DOMAIN limiter /\ T[i] = limiter[i]
        /\ \A i \in DOMAIN T : T[i].key = e =>
             \/ Allows(limiter, e) /\ T[i] = FreshSlot(e)
             \/ /\ ~Allows(limiter, e) /\ i \in DOMAIN limiter
                /\ T[i].age = limiter[i].age
                /\ T[i].repeats = UpTo(limiter[i].repeats, RepeatCap)
        /\ \E i \in DOMAIN T : T[i].key = e
        /\ T \in Seq(Slot)
    <3> HIDE DEF e
    <3> QED BY <1>1, <1>2, RateTableIs DEF LimiterInv
  <2>3. /\ mailed \in [Events -> 0 .. Window]
        /\ unreported \in [Events -> 0 .. RepeatCap]
    BY DEF NotifierTypeOK
  <2>4. /\ mailed' = IF Allows(limiter, e) THEN [mailed EXCEPT ![e] = 0] ELSE mailed
        /\ unreported' = IF Allows(limiter, e) THEN [unreported EXCEPT ![e] = 0]
                         ELSE [unreported EXCEPT ![e] = UpTo(@, RepeatCap)]
    BY <1>4 DEF Decide
  <2> HIDE DEF T, e
  <2>5. \A d \in Events : d # e => mailed'[d] = mailed[d] /\ unreported'[d] = unreported[d]
    BY <1>2, <2>3, <2>4
  <2>6. /\ Allows(limiter, e) => mailed'[e] = 0 /\ unreported'[e] = 0
        /\ ~Allows(limiter, e) => /\ mailed'[e] = mailed[e]
                                  /\ unreported'[e] = UpTo(unreported[e], RepeatCap)
    BY <1>2, <2>3, <2>4
  <2>7. ASSUME NEW i \in DOMAIN T
        PROVE  mailed'[T[i].key] = T[i].age /\ unreported'[T[i].key] = T[i].repeats
    <3>0. T[i].key \in Events
      BY <2>2, SlotFields
    <3>1. CASE T[i].key # e
      BY <2>2, <2>5, <3>0, <3>1 DEF LimiterInv
    <3>2. CASE T[i].key = e /\ Allows(limiter, e)
      BY <2>2, <2>6, <3>2 DEF FreshSlot
    <3>3. CASE T[i].key = e /\ ~Allows(limiter, e)
      <4>1. /\ i \in DOMAIN limiter /\ limiter[i].key = e /\ T[i].age = limiter[i].age
            /\ T[i].repeats = UpTo(limiter[i].repeats, RepeatCap)
        BY <2>2, <3>3
      <4>2. mailed[e] = limiter[i].age /\ unreported[e] = limiter[i].repeats
        BY <4>1 DEF LimiterInv
      <4> QED BY <2>6, <3>3, <4>1, <4>2
    <3> QED BY <3>1, <3>2, <3>3
  <2>8. ASSUME NEW d \in Events, \A i \in DOMAIN T : T[i].key # d
        PROVE  mailed'[d] = Window /\ unreported'[d] = 0
    <3>1. d # e /\ \A i \in DOMAIN limiter : limiter[i].key # d
      BY <2>2, <2>8
    <3> QED BY <2>5, <3>1 DEF LimiterInv
  <2> QED BY <2>1, <2>2, <2>7, <2>8 DEF LimiterInv
<1> QED BY <1>2, <1>3, <1>4

LEMMA AgeLimiter == ASSUME NotifierTypeOK, LimiterInv, Age PROVE LimiterInv'
<1>1. /\ limiter \in Seq(Slot) /\ mailed \in [Events -> 0 .. Window] /\ Window \in Nat
      /\ unreported' = unreported
  BY NotifierConstants DEF Age, NotifierTypeOK
<1>2. \A e \in Events : mailed'[e] = UpTo(mailed[e], Window)
  BY DEF Age
<1>3. UpTo(Window, Window) = Window
  BY <1>1 DEF UpTo
<1>4. \A i \in DOMAIN limiter : limiter[i].key \in Events
  BY <1>1, SlotFields
<1>5. /\ DOMAIN limiter' = DOMAIN limiter
      /\ \A i \in DOMAIN limiter :
           /\ limiter'[i].key = limiter[i].key
           /\ limiter'[i].age = UpTo(limiter[i].age, Window)
           /\ limiter'[i].repeats = limiter[i].repeats
  BY AgeSlots
<1>6. OneSlotEach(limiter')
  BY <1>5 DEF LimiterInv, OneSlotEach
<1>7. \A i \in DOMAIN limiter' : /\ mailed'[limiter'[i].key] = limiter'[i].age
                                /\ unreported'[limiter'[i].key] = limiter'[i].repeats
  BY <1>1, <1>2, <1>4, <1>5 DEF LimiterInv
<1>8. ASSUME NEW e \in Events, \A i \in DOMAIN limiter' : limiter'[i].key # e
      PROVE  mailed'[e] = Window /\ unreported'[e] = 0
  BY <1>1, <1>2, <1>3, <1>5, <1>8 DEF LimiterInv
<1> QED BY <1>6, <1>7, <1>8 DEF LimiterInv

LEMMA EmptyLimiter ==
  ASSUME limiter = <<>>, mailed = [e \in Events |-> Window],
         unreported = [e \in Events |-> 0]
  PROVE  LimiterInv
BY DEF LimiterInv, OneSlotEach

LEMMA EmptyLimiterNext ==
  ASSUME limiter' = <<>>, mailed' = [e \in Events |-> Window],
         unreported' = [e \in Events |-> 0]
  PROVE  LimiterInv'
BY DEF LimiterInv, OneSlotEach

(* Only the worker's decision, the time and a reset touch the limiter. *)
LEMMA LimiterSteps ==
  ASSUME [Next]_vars
  PROVE  Untouched \/ Decide \/ Age \/ NotifierBoot
BY DEF Next, NowStep, Observe, Notice, ClearFault, Clear, Raise, PutSettings, SetNetworkUp,
       WorkerStep, Worker, Receive, Start, EndWait, Return, Pass, Boot, Send, Quietly,
       Untouched, vars, nvars

LEMMA JobSteps ==
  ASSUME [Next]_vars
  PROVE  \/ job' = job
         \/ Receive \/ (\E up : EndWait(up)) \/ Decide \/ Return
         \/ Age \/ NotifierBoot
BY DEF Next, NowStep, Observe, Notice, ClearFault, Clear, Raise, PutSettings, SetNetworkUp,
       WorkerStep, Worker, Pass, Boot, Send, Quietly, vars, nvars

LEMMA LimiterNext == TypeInv /\ LimiterInv /\ [Next]_vars => LimiterInv'
<1> SUFFICES ASSUME TypeInv, LimiterInv, [Next]_vars PROVE LimiterInv'
  OBVIOUS
<1>1. NotifierTypeOK
  BY DEF TypeInv, TypeOK
<1>2. CASE NotifierBoot
  BY <1>2, BootBlank, EmptyLimiterNext
<1> QED BY <1>1, <1>2, LimiterSteps, UntouchedKeeps, DecideLimiter, AgeLimiter

LEMMA LimiterInvariant == Spec => [](TypeInv /\ LimiterInv)
<1>1. Init => TypeInv /\ LimiterInv
  BY TypeInit, InitBlank, EmptyLimiter DEF Init
<1>2. TypeInv /\ LimiterInv /\ [Next]_vars => (TypeInv /\ LimiterInv)'
  BY TypeNext, LimiterNext DEF LimiterInv
<1> QED BY <1>1, <1>2, PTL DEF Spec

(* Every variable keeps its type; the queue and the limiter stay within their
   bounds. *)
THEOREM TypeCorrect == Spec => []TypeOK
<1>1. TypeInv => TypeOK
  BY DEF TypeInv
<1> QED BY <1>1, LimiterInvariant, PTL

(* email_rate_allow counts every occurrence it keeps back, once. *)
THEOREM RepeatsAreKept == Spec => []RepeatsKept
<1>1. TypeInv /\ LimiterInv => RepeatsKept
  <2> SUFFICES ASSUME TypeInv, LimiterInv, NEW e \in Events
               PROVE  unreported[e] = IF SlotOf(limiter, e) = 0 THEN 0
                                      ELSE limiter[SlotOf(limiter, e)].repeats
    BY DEF RepeatsKept
  <2>1. limiter \in Seq(Slot)
    BY DEF TypeInv, TypeOK, NotifierTypeOK
  <2> QED BY <2>1, SlotOfFinds DEF LimiterInv
<1> QED BY <1>1, LimiterInvariant, PTL

(* The mail a worker starts is the one the window lets out, whatever happened
   in between, because no event ever loses its slot to another. *)
THEOREM LimiterIsExact == Spec => LimiterExact
<1>1. ASSUME TypeInv, LimiterInv, [Next]_vars
      PROVE  [job.phase = "ready" /\ job'.phase \in {"mailing", "quiet"} /\ job.cmd.mail
                => (job'.phase = "mailing" <=> mailed[job.cmd.event] >= Window)]_vars
  <2> SUFFICES ASSUME job.phase = "ready", job'.phase \in {"mailing", "quiet"},
                      job.cmd.mail, job' # job
               PROVE  job'.phase = "mailing" <=> mailed[job.cmd.event] >= Window
    OBVIOUS
  <2>1. NotifierTypeOK
    BY <1>1 DEF TypeInv, TypeOK
  <2>2. job.cmd.event \in Events /\ job \in [cmd : Command, phase : Phases, waited : 0 .. NetWait]
    BY <2>1, JobFields DEF NotifierTypeOK
  <2>3. Decide
    BY <1>1, JobSteps, BootBlank DEF Receive, EndWait, Return, Age, Idle
  <2>4. job'.phase = "mailing" <=> Allows(limiter, job.cmd.event)
    BY <2>2, <2>3 DEF Decide
  <2> QED BY <1>1, <2>1, <2>2, <2>4, AllowsExactly
<1> QED BY <1>1, LimiterInvariant, PTL DEF Spec, LimiterExact

-----------------------------------------------------------------------------
(* The restart notice over the resets *)

Queued    == \E i \in DOMAIN queue : queue[i].event = Restart
InHand    == job # Idle /\ job.cmd.event = Restart
Undecided == InHand /\ job.phase \in {"waiting", "ready"}

(* A boot has at most one restart notice, in one place at a time.  Until it is
   dispatched the last restart mail is at least as old as the boot, and from
   then until the worker decides about it at least NoticeAge old. *)
RestartInv ==
  /\ ~noticed => ~Queued /\ ~InHand /\ sinceNotice >= uptime
  /\ \A i, j \in DOMAIN queue :
       queue[i].event = Restart /\ queue[j].event = Restart => i = j
  /\ InHand => ~Queued
  /\ Queued \/ Undecided => sinceNotice >= NoticeAge

Sent(c) == queue' = Append(queue, c) /\ UNCHANGED <<job, uptime, sinceNotice>>
Kept    == UNCHANGED <<queue, job, uptime, sinceNotice>>

LEMMA SendIs == ASSUME NEW c, Send(c), UNCHANGED <<uptime, sinceNotice>> PROVE Sent(c) \/ Kept
BY DEF Send, Sent, Kept

LEMMA RestartSteps ==
  ASSUME TypeInv, [Next]_vars
  PROVE  \/ Kept /\ (noticed => noticed')
         \/ \E c \in Command : c.event # Restart /\ Sent(c) /\ noticed' = noticed
         \/ \E c \in Command : c.event = Restart /\ Sent(c) /\ NoticeDue /\ noticed'
         \/ WorkerStep
         \/ Pass
         \/ Boot
<1>0. /\ fault \in Known /\ netUp \in BOOLEAN /\ settings \in Setting /\ noticed \in BOOLEAN
  BY DEF TypeInv, TypeOK
<1>1. ASSUME NEW c \in Contexts, Observe(c)
      PROVE  /\ noticed' = noticed
             /\ Kept \/ \E d \in Command : d.event # Restart /\ Sent(d)
  <2> DEFINE f == NextFault(fault, c.healthy, c.storageUp, netUp, c.judged, c.rise)
  <2>1. noticed' = noticed /\ UNCHANGED <<uptime, sinceNotice>>
    BY <1>1 DEF Observe
  <2>2. CASE f = fault \/ f = "NONE"
    BY <1>1, <2>1, <2>2 DEF Observe, Clear, Quietly, Kept
  <2>3. CASE f # fault /\ f # "NONE"
    <3>1. Raise(f)
      BY <1>1, <2>3 DEF Observe
    <3>2. f \in Faults /\ f \in Events
      BY <1>0, <2>3, ObservedFault DEF Known
    <3> DEFINE d == [event |-> f, mail |-> settings.mail]
    <3>3. d \in Command /\ d.event # Restart
      BY <1>0, <3>2, RestartIsNoFault DEF Command, Setting
    <3>4. Kept \/ Sent(d)
      BY <2>1, <3>1, SendIs DEF Raise, Quietly, Kept
    <3> QED BY <2>1, <3>3, <3>4
  <2> QED BY <2>1, <2>2, <2>3
<1>2. CASE Notice
  <2> DEFINE d == [event |-> Restart, mail |-> settings.mail]
  <2>1. d \in Command /\ d.event = Restart
    BY <1>0, NotifierConstants DEF Command, Setting
  <2>2. noticed' = (noticed \/ NoticeDue) /\ UNCHANGED <<uptime, sinceNotice>>
    BY <1>2 DEF Notice
  <2>3. CASE NoticeDue
    <3>1. Kept \/ Sent(d)
      BY <1>2, <2>2, SendIs DEF Notice, Quietly, Kept
    <3> QED BY <2>1, <2>2, <2>3, <3>1
  <2>4. CASE ~NoticeDue
    BY <1>2, <2>2, <2>4 DEF Notice, Quietly, Kept
  <2> QED BY <2>3, <2>4
<1>3. CASE \/ ClearFault \/ (\E s \in Settings : PutSettings(s))
           \/ (\E up \in BOOLEAN : SetNetworkUp(up)) \/ UNCHANGED vars
  BY <1>3 DEF ClearFault, Clear, PutSettings, SetNetworkUp, Quietly, Kept, vars, nvars, avars
<1> QED BY <1>1, <1>2, <1>3 DEF Next, NowStep

LEMMA SentKeeps ==
  ASSUME NotifierTypeOK, RestartInv, NEW c \in Command, Sent(c),
         \/ c.event # Restart /\ noticed' = noticed
         \/ c.event = Restart /\ ~noticed /\ sinceNotice >= NoticeAge /\ noticed'
  PROVE  RestartInv'
<1>1. /\ Len(queue) \in Nat /\ DOMAIN queue = 1 .. Len(queue)
      /\ DOMAIN queue' = DOMAIN queue \cup {Len(queue) + 1}
      /\ \A i \in DOMAIN queue : queue'[i] = queue[i]
      /\ queue'[Len(queue) + 1] = c
  BY AppendType DEF Sent, NotifierTypeOK
<1>2. /\ InHand' <=> InHand
      /\ Undecided' <=> Undecided
  BY DEF Sent, InHand, Undecided
<1>3. CASE c.event # Restart /\ noticed' = noticed
  <2>1. Queued' <=> Queued
    BY <1>1, <1>3 DEF Queued
  <2> QED BY <1>1, <1>2, <1>3, <2>1 DEF RestartInv, Sent
<1>4. CASE c.event = Restart /\ ~noticed /\ sinceNotice >= NoticeAge /\ noticed'
  <2>1. ~Queued /\ ~InHand /\ ~Undecided
    BY <1>4 DEF RestartInv, Undecided
  <2>2. \A i \in DOMAIN queue : queue[i].event # Restart
    BY <2>1 DEF Queued
  <2> QED BY <1>1, <1>2, <1>4, <2>1, <2>2 DEF RestartInv, Sent
<1> QED BY <1>3, <1>4

LEMMA ReceiveKeeps ==
  ASSUME NotifierTypeOK, RestartInv, Receive, UNCHANGED <<noticed, uptime, sinceNotice>>
  PROVE  RestartInv'
<1>1. /\ queue \in Seq(Command) /\ queue # <<>> /\ job = Idle
      /\ queue' = Tail(queue)
      /\ job' = [cmd |-> Head(queue), waited |-> 0,
                 phase |-> IF Head(queue).event = Restart THEN "waiting" ELSE "ready"]
  BY DEF Receive, Start, NotifierTypeOK
<1>2. /\ Head(queue) = queue[1] /\ 1 \in DOMAIN queue
      /\ DOMAIN queue' = 1 .. Len(queue) - 1
      /\ \A i \in DOMAIN queue' : queue'[i] = queue[i + 1] /\ i + 1 \in DOMAIN queue
      /\ Len(queue) \in Nat
  BY <1>1, TailType
<1>3. job'.cmd = queue[1]
  BY <1>1, <1>2
<1>4. Queued' => Queued
  BY <1>2 DEF Queued
<1>5. InHand' => Queued /\ ~Queued'
  <2> SUFFICES ASSUME InHand' PROVE Queued /\ ~Queued'
    OBVIOUS
  <2>1. queue[1].event = Restart
    BY <1>3 DEF InHand
  <2>2. ASSUME NEW i \in DOMAIN queue' PROVE queue'[i].event # Restart
    <3>1. i + 1 \in DOMAIN queue /\ i + 1 # 1
      BY <1>2
    <3> QED BY <1>2, <2>1, <3>1 DEF RestartInv
  <2> QED BY <1>2, <2>1, <2>2 DEF Queued
<1>6. \A i, j \in DOMAIN queue' :
        queue'[i].event = Restart /\ queue'[j].event = Restart => i = j
  BY <1>2 DEF RestartInv
<1> QED BY <1>4, <1>5, <1>6 DEF RestartInv, Undecided

(* The worker or the time goes on with the command in hand: the notice stays
   where it is, and the time since the last restart mail goes no way back. *)
LEMMA SameCommand ==
  ASSUME RestartInv, UNCHANGED <<queue, noticed>>,
         InHand' => InHand, Undecided' => Undecided,
         ~noticed /\ sinceNotice >= uptime => sinceNotice' >= uptime',
         sinceNotice >= NoticeAge => sinceNotice' >= NoticeAge
  PROVE  RestartInv'
<1>1. Queued' <=> Queued
  BY DEF Queued
<1> QED BY <1>1 DEF RestartInv

LEMMA WorkerKeeps ==
  ASSUME NotifierTypeOK, RestartInv, WorkerStep
  PROVE  RestartInv' /\ (RestartMailStarts => sinceNotice >= NoticeAge)
<1>0. noticed' = noticed /\ uptime' = uptime
  BY DEF WorkerStep, avars
<1>1. CASE Receive
  <2>1. job.phase # "ready"
    BY <1>1 DEF Receive, Idle
  <2> QED BY <1>0, <1>1, <2>1, ReceiveKeeps DEF WorkerStep, RestartMailStarts
<1>2. CASE EndWait(netUp) \/ Return
  <2>1. /\ queue' = queue /\ (InHand' => InHand) /\ (Undecided' => Undecided)
        /\ ~RestartMailStarts
    <3>1. CASE Return
      BY <3>1 DEF Return, InHand, Undecided, RestartMailStarts
    <3>2. CASE EndWait(netUp)
      <4>1. /\ job \in [cmd : Command, phase : Phases, waited : 0 .. NetWait] /\ job # Idle
            /\ job.phase = "waiting"
        BY <3>2, JobFields DEF EndWait, NotifierTypeOK
      <4>2. job'.cmd = job.cmd /\ job'.phase = "ready"
        BY <3>2, <4>1 DEF EndWait
      <4> QED BY <3>2, <4>1, <4>2 DEF EndWait, InHand, Undecided, RestartMailStarts
    <3> QED BY <1>2, <3>1, <3>2
  <2> QED BY <1>0, <2>1, SameCommand DEF WorkerStep
<1>3. CASE Decide
  <2>1. /\ job.phase = "ready" /\ job # Idle
        /\ job \in [cmd : Command, phase : Phases, waited : 0 .. NetWait]
    BY <1>3, JobFields DEF Decide, NotifierTypeOK
  <2>2. job'.cmd = job.cmd /\ job'.phase \in {"mailing", "quiet"} /\ queue' = queue
    BY <1>3, <2>1 DEF Decide
  <2>3. ~Undecided' /\ (InHand' => InHand)
    BY <2>1, <2>2 DEF InHand, Undecided
  <2>4. CASE RestartMailStarts
    <3>1. InHand /\ Undecided
      BY <2>1, <2>4 DEF RestartMailStarts, InHand, Undecided
    <3>2. noticed /\ ~Queued /\ sinceNotice >= NoticeAge
      BY <3>1 DEF RestartInv
    <3>3. ~Queued'
      BY <2>2, <3>2 DEF Queued
    <3> QED BY <1>0, <2>2, <2>3, <3>2, <3>3 DEF RestartInv
  <2>5. CASE ~RestartMailStarts
    BY <1>0, <2>2, <2>3, <2>5, SameCommand DEF WorkerStep
  <2> QED BY <2>4, <2>5
<1> QED BY <1>1, <1>2, <1>3 DEF WorkerStep, Worker

LEMMA PassKeeps ==
  ASSUME TypeInv, RestartInv, Pass
  PROVE  RestartInv'
<1>0. /\ NotifierTypeOK /\ uptime \in 0 .. NoticeAge /\ sinceNotice \in 0 .. NoticeAge
      /\ NoticeAge \in Nat
  BY AlertsAssumption DEF TypeInv, TypeOK
<1>1. /\ queue' = queue /\ noticed' = noticed
      /\ job' = job \/ (job.phase = "waiting" /\ job' = [job EXCEPT !.waited = UpTo(@, NetWait)])
  BY DEF Pass, Age
<1>2. (InHand' => InHand) /\ (Undecided' => Undecided)
  <2>1. CASE job' = job
    BY <2>1 DEF InHand, Undecided
  <2>2. CASE job.phase = "waiting" /\ job' = [job EXCEPT !.waited = UpTo(@, NetWait)]
    <3>1. job \in [cmd : Command, phase : Phases, waited : 0 .. NetWait] /\ job # Idle
      BY <1>0, <2>2, JobFields DEF NotifierTypeOK
    <3>2. job'.cmd = job.cmd /\ job'.phase = job.phase
      BY <2>2, <3>1
    <3> QED BY <2>2, <3>1, <3>2 DEF InHand, Undecided
  <2> QED BY <1>1, <2>1, <2>2
<1>3. /\ sinceNotice >= uptime => sinceNotice' >= uptime'
      /\ sinceNotice >= NoticeAge => sinceNotice' >= NoticeAge
  BY <1>0 DEF Pass, UpTo
<1> QED BY <1>1, <1>2, <1>3, SameCommand

LEMMA RestartNext == TypeInv /\ RestartInv /\ [Next]_vars => RestartInv'
<1> SUFFICES ASSUME TypeInv, RestartInv, [Next]_vars PROVE RestartInv'
  OBVIOUS
<1>0. /\ NotifierTypeOK /\ uptime \in 0 .. NoticeAge /\ sinceNotice \in 0 .. NoticeAge
      /\ NoticeAge \in Nat
  BY AlertsAssumption DEF TypeInv, TypeOK
<1>1. CASE Kept /\ (noticed => noticed')
  BY <1>1 DEF Kept, RestartInv, Queued, InHand, Undecided
<1>2. CASE Boot
  <2>1. /\ queue' = <<>> /\ job' = Idle /\ uptime' = 0 /\ sinceNotice' = sinceNotice
    BY <1>2, BootBlank DEF Boot
  <2>2. ~Queued' /\ ~InHand' /\ ~Undecided'
    BY <2>1 DEF Queued, InHand, Undecided
  <2> QED BY <1>0, <2>1, <2>2 DEF RestartInv
<1>3. CASE \E c \in Command : c.event # Restart /\ Sent(c) /\ noticed' = noticed
  BY <1>0, <1>3, SentKeeps
<1>4. CASE \E c \in Command : c.event = Restart /\ Sent(c) /\ NoticeDue /\ noticed'
  <2>1. NoticeDue => ~noticed /\ sinceNotice >= NoticeAge
    BY <1>0 DEF NoticeDue, RestartInv
  <2> QED BY <1>0, <1>4, <2>1, SentKeeps
<1> QED BY <1>0, <1>1, <1>2, <1>3, <1>4, RestartSteps, WorkerKeeps, PassKeeps

LEMMA RestartInit == Init => RestartInv
<1> SUFFICES ASSUME Init PROVE RestartInv
  OBVIOUS
<1>1. queue = <<>> /\ job = Idle
  BY InitBlank DEF Init
<1>2. ~Queued /\ ~InHand /\ ~Undecided
  BY <1>1 DEF Queued, InHand, Undecided
<1> QED BY <1>1, <1>2, AlertsAssumption DEF Init, RestartInv

(* Only the worker starts a mail. *)
LEMMA RestartMailIsWorkers ==
  ASSUME TypeInv, [Next]_vars, RestartMailStarts
  PROVE  WorkerStep
<1>1. job.phase = "ready" /\ job'.phase = "mailing"
  BY DEF RestartMailStarts
<1>2. CASE Pass
  BY <1>1, <1>2 DEF Pass, Age
<1>3. CASE Boot
  <2>1. job' = Idle
    BY <1>3, BootBlank DEF Boot
  <2> QED BY <1>1, <2>1 DEF Idle
<1> QED BY <1>1, <1>2, <1>3, RestartSteps DEF Kept, Sent

(* However the resets of a boot loop fall, restart mails are NoticeAge apart:
   a notice is not dispatched before the boot is that old, a boot dispatches
   one, and what was pending when the device was reset is gone. *)
THEOREM RestartMailsStayApart == Spec => RestartMailsApart
<1> DEFINE Inv == TypeInv /\ LimiterInv /\ RestartInv
<1>1. Init => Inv
  BY TypeInit, InitBlank, EmptyLimiter, RestartInit DEF Init
<1>2. Inv /\ [Next]_vars => Inv'
  BY TypeNext, LimiterNext, RestartNext DEF LimiterInv
<1>3. Inv /\ [Next]_vars => [RestartMailStarts => sinceNotice >= NoticeAge]_vars
  BY RestartMailIsWorkers, WorkerKeeps DEF TypeInv, TypeOK
<1> QED BY <1>1, <1>2, <1>3, PTL DEF Spec, RestartMailsApart

(* The flag of the one-shot alert outlives no fault. *)
THEOREM AlertStaysArmed == Spec => []AlertIsArmed
<1>1. Init => AlertIsArmed
  BY DEF Init, AlertIsArmed
<1>2. AlertIsArmed /\ [Next]_vars => AlertIsArmed'
  <2> SUFFICES ASSUME AlertIsArmed, [Next]_vars PROVE AlertIsArmed'
    OBVIOUS
  <2>1. ASSUME NEW c \in Contexts, Observe(c) PROVE AlertIsArmed'
    BY <2>1 DEF Observe, Clear, Raise, fvars, AlertIsArmed
  <2>2. CASE ClearFault \/ Boot
    BY <2>2 DEF ClearFault, Clear, Boot, AlertIsArmed
  <2>3. CASE Notice \/ Pass \/ WorkerStep \/ (\E s \in Settings : PutSettings(s))
             \/ (\E up \in BOOLEAN : SetNetworkUp(up)) \/ UNCHANGED vars
    BY <2>3 DEF Notice, Pass, WorkerStep, PutSettings, SetNetworkUp, vars, avars, fvars,
       AlertIsArmed
  <2> QED BY <2>1, <2>2, <2>3 DEF Next, NowStep
<1> QED BY <1>1, <1>2, PTL DEF Spec

-----------------------------------------------------------------------------
(* The queue and its worker implement the channel *)

Pending == (IF job = Idle THEN <<>> ELSE <<job.cmd>>) \o queue

LEMMA PendingType ==
  ASSUME NotifierTypeOK
  PROVE  /\ Pending \in Seq(Command) /\ queue \in Seq(Command)
         /\ job = Idle => Pending = queue
         /\ job # Idle => Pending = <<job.cmd>> \o queue /\ job.cmd \in Command
<1>1. job # Idle => job.cmd \in Command
  BY DEF NotifierTypeOK, Jobs
<1>2. queue \in Seq(Command) /\ <<>> \o queue = queue
  BY DEF NotifierTypeOK
<1>3. job # Idle => <<job.cmd>> \o queue \in Seq(Command)
  BY <1>1, <1>2
<1> QED BY <1>1, <1>2, <1>3 DEF Pending

LEMMA JoinAppend ==
  ASSUME NEW x \in Command, NEW q \in Seq(Command), NEW c \in Command
  PROVE  /\ <<x>> \o Append(q, c) = Append(<<x>> \o q, c)
         /\ Len(<<x>> \o q) = Len(q) + 1
OBVIOUS

LEMMA JoinHead ==
  ASSUME NEW x \in Command, NEW q \in Seq(Command)
  PROVE  /\ <<x>> \o q # <<>> /\ Tail(<<x>> \o q) = q
         /\ q # <<>> => <<Head(q)>> \o Tail(q) = q
OBVIOUS

(* A dispatch is an offer of the channel. *)
LEMMA SendOffers ==
  ASSUME NotifierTypeOK, NEW c \in Command, Send(c)
  PROVE  Channel!Next
<1>1. /\ queue \in Seq(Command) /\ Len(queue) \in Nat /\ QueueLen \in Nat
      /\ Len(queue) <= QueueLen
  BY NotifierConstants DEF NotifierTypeOK
<1>2. Len(Pending) \in {Len(queue), Len(queue) + 1}
  BY <1>1, PendingType, JoinAppend
<1>3. CASE Len(queue) < QueueLen
  <2>1. queue' = Append(queue, c) /\ offer' = "accepted" /\ job' = job
    BY <1>3 DEF Send
  <2>2. Pending' = Append(Pending, c)
    <3>1. CASE job = Idle
      BY <1>1, <2>1, <3>1 DEF Pending
    <3>2. CASE job # Idle
      BY <1>1, <2>1, <3>2, PendingType, JoinAppend DEF Pending
    <3> QED BY <3>1, <3>2
  <2>3. Len(Pending) <= QueueLen
    BY <1>1, <1>2, <1>3
  <2> QED BY <2>1, <2>2, <2>3 DEF Channel!Next, Channel!Accept, Pending
<1>4. CASE ~(Len(queue) < QueueLen)
  <2>1. queue' = queue /\ offer' = "refused" /\ job' = job
    BY <1>4 DEF Send
  <2>2. Pending' = Pending
    BY <2>1 DEF Pending
  <2>3. Len(Pending) >= QueueLen
    BY <1>1, <1>2, <1>4
  <2> QED BY <2>1, <2>2, <2>3 DEF Channel!Next, Channel!Refuse, Pending
<1> QED BY <1>3, <1>4

LEMMA OtherStep ==
  ASSUME offer' = "none", Pending' = Pending
  PROVE  Channel!Next
BY DEF Channel!Next, Channel!Other, Pending

LEMMA QuietIsOther == ASSUME Quietly PROVE Channel!Next
BY OtherStep DEF Quietly, Pending

(* Receiving a command leaves it pending; the end of its sending handles it. *)
LEMMA WorkerImplements ==
  ASSUME NotifierTypeOK, NEW up, Worker(up)
  PROVE  Channel!Next
<1>1. CASE Receive
  <2>1. /\ job = Idle /\ queue # <<>> /\ queue' = Tail(queue) /\ offer' = "none"
        /\ job' # Idle /\ job'.cmd = Head(queue)
    BY <1>1 DEF Receive, Start, Idle
  <2>2. Head(queue) \in Command /\ queue \in Seq(Command)
    BY <2>1 DEF NotifierTypeOK
  <2>3. Pending' = Pending
    BY <2>1, <2>2, PendingType, JoinHead DEF Pending
  <2> QED BY <2>1, <2>3, OtherStep
<1>2. CASE EndWait(up) \/ Decide
  <2>1. job \in [cmd : Command, phase : Phases, waited : 0 .. NetWait] /\ job # Idle
    BY <1>2, JobFields DEF EndWait, Decide, NotifierTypeOK
  <2>2. /\ job'.cmd = job.cmd /\ job' # Idle /\ queue' = queue /\ offer' = "none"
    BY <1>2, <2>1 DEF EndWait, Decide, Idle
  <2> QED BY <2>1, <2>2, OtherStep DEF Pending
<1>3. CASE Return
  <2>1. /\ job # Idle /\ job' = Idle /\ queue' = queue /\ offer' = "none"
    BY <1>3 DEF Return, Idle
  <2>2. queue \in Seq(Command) /\ job.cmd \in Command /\ Pending = <<job.cmd>> \o queue
    BY <2>1, PendingType
  <2>3. Pending' = queue
    BY <2>1, <2>2 DEF Pending
  <2>4. Pending # <<>> /\ Pending' = Tail(Pending)
    BY <2>2, <2>3, JoinHead
  <2> QED BY <2>1, <2>4 DEF Channel!Next, Channel!Handle, Pending
<1> QED BY <1>1, <1>2, <1>3 DEF Worker

LEMMA StepImplements ==
  ASSUME TypeInv, [Next]_vars
  PROVE  [Channel!Next]_(Channel!chan)
<1>0. /\ NotifierTypeOK /\ fault \in Known /\ netUp \in BOOLEAN /\ settings \in Setting
  BY DEF TypeInv, TypeOK
<1>1. ASSUME NEW c \in Contexts, Observe(c) PROVE Channel!Next
  <2> DEFINE f == NextFault(fault, c.healthy, c.storageUp, netUp, c.judged, c.rise)
  <2>1. CASE f = fault \/ f = "NONE"
    BY <1>1, <2>1, QuietIsOther DEF Observe, Clear
  <2>2. CASE f # fault /\ f # "NONE"
    <3>1. Raise(f)
      BY <1>1, <2>2 DEF Observe
    <3>2. [event |-> f, mail |-> settings.mail] \in Command
      BY <1>0, <2>2, ObservedFault DEF Known, Command, Setting
    <3> HIDE DEF f
    <3> QED BY <1>0, <3>1, <3>2, SendOffers, QuietIsOther DEF Raise
  <2> QED BY <2>1, <2>2
<1>2. CASE Notice
  <2>1. [event |-> Restart, mail |-> settings.mail] \in Command
    BY <1>0, NotifierConstants DEF Command, Setting
  <2> QED BY <1>0, <1>2, <2>1, SendOffers, QuietIsOther DEF Notice
<1>3. CASE \/ ClearFault \/ (\E s \in Settings : PutSettings(s))
           \/ (\E up \in BOOLEAN : SetNetworkUp(up))
  BY <1>3, QuietIsOther DEF ClearFault, Clear, PutSettings, SetNetworkUp
<1>4. CASE WorkerStep
  BY <1>0, <1>4, WorkerImplements DEF WorkerStep
<1>5. CASE Pass
  <2>1. queue' = queue /\ offer' = "none"
    BY <1>5 DEF Pass, Age
  <2>2. job' = job \/ (job # Idle /\ job' # Idle /\ job'.cmd = job.cmd)
    <3>1. CASE job.phase = "waiting"
      <4>1. job \in [cmd : Command, phase : Phases, waited : 0 .. NetWait] /\ job # Idle
        BY <1>0, <3>1, JobFields DEF NotifierTypeOK
      <4>2. job' = [job EXCEPT !.waited = UpTo(@, NetWait)]
        BY <1>5, <3>1 DEF Pass, Age
      <4> QED BY <3>1, <4>1, <4>2 DEF Idle
    <3>2. CASE job.phase # "waiting"
      BY <1>5, <3>2 DEF Pass, Age
    <3> QED BY <3>1, <3>2
  <2>3. Pending' = Pending
    BY <2>1, <2>2 DEF Pending
  <2> QED BY <2>1, <2>3, OtherStep
<1>6. CASE Boot
  <2>1. queue' = <<>> /\ job' = Idle /\ offer' = "none"
    BY <1>6, BootBlank DEF Boot
  <2>2. Pending' = <<>>
    BY <2>1 DEF Pending
  <2> QED BY <2>1, <2>2 DEF Channel!Next, Channel!Forget, Pending
<1>7. CASE UNCHANGED vars
  BY <1>7 DEF vars, nvars, Channel!chan
<1> QED BY <1>1, <1>2, <1>3, <1>4, <1>5, <1>6, <1>7 DEF Next, NowStep

(* The safety half of ImplementsChannel: whatever the worker waits for, the
   dispatch functions refuse only when QueueLen commands are pending, and what
   they accept is handled once and in order. *)
THEOREM ChannelIsKept == Spec => Channel!Safety
<1>1. Init => Channel!Init
  <2> SUFFICES ASSUME Init PROVE Channel!Init
    OBVIOUS
  <2>1. queue = <<>> /\ job = Idle /\ offer = "none"
    BY InitBlank DEF Init
  <2> QED BY <2>1 DEF Channel!Init
<1>2. TypeInv /\ [Next]_vars => [Channel!Next]_(Channel!chan)
  BY StepImplements
<1> QED BY <1>1, <1>2, LimiterInvariant, PTL DEF Spec, Channel!Safety
=============================================================================
