------------------------------ MODULE Notifier ------------------------------
(***************************************************************************)
(* main/notification_manager.c: the queue between the control task and the *)
(* worker, the worker's loop, and the limiter that lets one mail per event *)
(* and window out.                                                         *)
(*                                                                         *)
(* An event is what the limiter's key tells apart: a fault class (each has *)
(* one text) or the restart notice of this device.  A command carries the  *)
(* copy of the notification settings made when it was queued, of which only*)
(* "is mail on" decides anything here.  Talking to the servers takes any   *)
(* time, and its result is only logged.  mailed, unreported and offer are  *)
(* history: the time since the last mail about an event was started, the   *)
(* occurrences kept back since then, and the fate of the last offer.       *)
(*                                                                         *)
(* A definition marked "Slip" is a wrong form of the one after it, the way *)
(* this code could plausibly be wrong; the checks must notice each.        *)
(***************************************************************************)
EXTENDS Naturals, Sequences, FiniteSets

CONSTANTS
  Events,      \* the keys the limiter can see
  QueueLen,    \* NOTIFY_QUEUE_LEN
  Slots,       \* EMAIL_RATE_SLOTS
  Window,      \* EMAIL_RATE_WINDOW_US
  NetWait,     \* how long a restart notice waits for the network
  RepeatCap    \* where the repeat counter stops (65535 in the code)

Restart == "RESTART"

ASSUME NotifierAssumption ==
  /\ Restart \in Events /\ IsFiniteSet(Events)
  /\ QueueLen \in Nat \ {0} /\ Slots \in Nat \ {0}
  /\ Window \in Nat \ {0} /\ NetWait \in Nat /\ RepeatCap \in Nat \ {0}

(* The code can produce six keys and has eight slots. *)
ASSUME SlotsAssumption == Cardinality(Events) <= Slots

VARIABLES
  queue,       \* s_notify_queue
  job,         \* the worker's command and where it is with it
  limiter,     \* s_email_rate in the order its slots were taken
  mailed,      \* per event: the age of the last mail, up to Window
  unreported,  \* per event: occurrences kept back since, up to RepeatCap
  offer        \* what became of the command offered in this step

nvars == <<queue, job, limiter, mailed, unreported, offer>>

Command == [event : Events, mail : BOOLEAN]
Slot    == [key : Events, age : 0 .. Window, repeats : 0 .. RepeatCap]
Phases  == {"waiting", "ready", "mailing", "quiet"}

Idle == [phase |-> "idle"]
Jobs == {Idle} \cup [cmd : Command, phase : Phases, waited : 0 .. NetWait]

UpTo(n, bound) == IF n < bound THEN n + 1 ELSE bound

----------------------------------------------------------------------------
(* Slip: room for one more than the queue has. *)
SendPastEnd(c) ==
  /\ IF Len(queue) <= QueueLen
     THEN queue' = Append(queue, c) /\ offer' = "accepted"
     ELSE queue' = queue /\ offer' = "refused"
  /\ UNCHANGED <<job, limiter, mailed, unreported>>

(* xQueueSend without a timeout: a full queue drops the command. *)
Send(c) ==
  /\ IF Len(queue) < QueueLen
     THEN queue' = Append(queue, c) /\ offer' = "accepted"
     ELSE queue' = queue /\ offer' = "refused"
  /\ UNCHANGED <<job, limiter, mailed, unreported>>

(* email_rate_allow: the slot of an event, 0 if it has none. *)
SlotOf(t, e) ==
  IF \E i \in DOMAIN t : t[i].key = e THEN CHOOSE i \in DOMAIN t : t[i].key = e ELSE 0

Lapsed(t, i) == ~(t[i].age < Window)

Allows(t, e) == LET i == SlotOf(t, e) IN i = 0 \/ Lapsed(t, i)

FreshSlot(e) == [key |-> e, age |-> 0, repeats |-> 0]

(* The oldest slot is overwritten when all are taken. *)
TakeSlot(t, e) == Append(IF Len(t) = Slots THEN Tail(t) ELSE t, FreshSlot(e))

(* Slip: a mail after the window does not restart the slot's time. *)
RateTableNotRestarted(t, e) ==
  LET i == SlotOf(t, e) IN
  IF i = 0 THEN TakeSlot(t, e)
  ELSE IF Lapsed(t, i) THEN [t EXCEPT ![i].repeats = 0]
  ELSE [t EXCEPT ![i].repeats = UpTo(@, RepeatCap)]

(* Slip: the occurrences already reported are reported again. *)
RateTableKeepsRepeats(t, e) ==
  LET i == SlotOf(t, e) IN
  IF i = 0 THEN TakeSlot(t, e)
  ELSE IF Lapsed(t, i) THEN [t EXCEPT ![i].age = 0]
  ELSE [t EXCEPT ![i].repeats = UpTo(@, RepeatCap)]

RateTable(t, e) ==
  LET i == SlotOf(t, e) IN
  IF i = 0 THEN TakeSlot(t, e)
  ELSE IF Lapsed(t, i) THEN [t EXCEPT ![i] = FreshSlot(e)]
  ELSE [t EXCEPT ![i].repeats = UpTo(@, RepeatCap)]

----------------------------------------------------------------------------
(* notify_worker_task. *)
Start(c) ==
  /\ job' = [cmd |-> c, waited |-> 0,
             phase |-> IF c.event = Restart THEN "waiting" ELSE "ready"]
  /\ offer' = "none"
  /\ UNCHANGED <<limiter, mailed, unreported>>

(* Slip: the newest command first. *)
ReceiveNewest ==
  /\ job = Idle /\ queue # <<>>
  /\ Start(queue[Len(queue)])
  /\ queue' = SubSeq(queue, 1, Len(queue) - 1)

Receive ==
  /\ job = Idle /\ queue # <<>>
  /\ Start(Head(queue))
  /\ queue' = Tail(queue)

(* Slip: no deadline. *)
EndWaitWithNetwork(networkUp) ==
  /\ job.phase = "waiting"
  /\ networkUp
  /\ job' = [job EXCEPT !.phase = "ready"] /\ offer' = "none"
  /\ UNCHANGED <<queue, limiter, mailed, unreported>>

(* The wait before a restart notice ends with the network or the deadline. *)
EndWait(networkUp) ==
  /\ job.phase = "waiting"
  /\ networkUp \/ job.waited >= NetWait
  /\ job' = [job EXCEPT !.phase = "ready"] /\ offer' = "none"
  /\ UNCHANGED <<queue, limiter, mailed, unreported>>

(* notification_send_alert and _send_restart up to the first call that
   blocks: the limiter decides before the mail is tried, whatever comes of it. *)
Decide ==
  LET e == job.cmd.event
      go == job.cmd.mail /\ Allows(limiter, e) IN
  /\ job.phase = "ready"
  /\ job' = [job EXCEPT !.phase = IF go THEN "mailing" ELSE "quiet"]
  /\ limiter' = IF job.cmd.mail THEN RateTable(limiter, e) ELSE limiter
  /\ mailed' = IF go THEN [mailed EXCEPT ![e] = 0] ELSE mailed
  /\ unreported' = IF go THEN [unreported EXCEPT ![e] = 0]
                   ELSE IF job.cmd.mail THEN [unreported EXCEPT ![e] = UpTo(@, RepeatCap)]
                   ELSE unreported
  /\ offer' = "none"
  /\ UNCHANGED queue

(* smtp_send and sms_send have returned, with or without success. *)
Return ==
  /\ job.phase \in {"mailing", "quiet"}
  /\ job' = Idle /\ offer' = "none"
  /\ UNCHANGED <<queue, limiter, mailed, unreported>>

Worker(networkUp) == Receive \/ EndWait(networkUp) \/ Decide \/ Return

(* One unit of time. *)
Age ==
  /\ limiter' = [i \in DOMAIN limiter |-> [limiter[i] EXCEPT !.age = UpTo(@, Window)]]
  /\ mailed' = [e \in Events |-> UpTo(mailed[e], Window)]
  /\ job' = IF job.phase = "waiting" THEN [job EXCEPT !.waited = UpTo(@, NetWait)] ELSE job
  /\ offer' = "none"
  /\ UNCHANGED <<queue, unreported>>

(* Nothing of this survives a restart. *)
Blank ==
  [queue |-> <<>>, job |-> Idle, limiter |-> <<>>, offer |-> "none",
   mailed |-> [e \in Events |-> Window], unreported |-> [e \in Events |-> 0]]

NotifierInit ==
  /\ queue = Blank.queue /\ job = Blank.job /\ limiter = Blank.limiter
  /\ mailed = Blank.mailed /\ unreported = Blank.unreported /\ offer = Blank.offer

NotifierBoot ==
  /\ queue' = Blank.queue /\ job' = Blank.job /\ limiter' = Blank.limiter
  /\ mailed' = Blank.mailed /\ unreported' = Blank.unreported /\ offer' = Blank.offer

----------------------------------------------------------------------------
NotifierTypeOK ==
  /\ queue \in Seq(Command) /\ Len(queue) <= QueueLen
  /\ job \in Jobs
  /\ limiter \in Seq(Slot) /\ Len(limiter) <= Slots
  /\ mailed \in [Events -> 0 .. Window]
  /\ unreported \in [Events -> 0 .. RepeatCap]
  /\ offer \in {"none", "accepted", "refused"}
=============================================================================
