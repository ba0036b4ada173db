------------------------------- MODULE Alerts -------------------------------
(***************************************************************************)
(* From a fault to a mail: the control task's side of main/fault_manager.c *)
(* and main/control_engine.c composed with the worker of Notifier.         *)
(*                                                                         *)
(* A control tick is two steps, the fault manager's and the rest of the    *)
(* tick, because the worker and the Wi-Fi driver run beside it; the web    *)
(* handlers wait for the lock the tick holds.  What the tick observes is   *)
(* any of Contexts; the network flag it reads is the driver's.  Time is a  *)
(* step of its own, any number of ticks apart.  sinceNotice is history:    *)
(* the time since a restart mail was last started, over all resets.        *)
(*                                                                         *)
(* A definition marked "Slip" is a wrong form of the one after it, the way *)
(* this code could plausibly be wrong; the checks must notice each.        *)
(***************************************************************************)
EXTENDS Notifier, FaultDetect

CONSTANTS
  Contexts,    \* what fault_manager_observe can be shown
  Settings,    \* the notification settings a user can save
  LogGap,      \* how long a class is kept out of the log once logged
  NoticeAge    \* uptime at which the restart notice is due

(* Every fault that the Contexts can bring about is one of the Events. *)
ASSUME AlertsAssumption ==
  /\ LogGap \in Nat /\ NoticeAge \in Nat
  /\ Settings \subseteq [mail : BOOLEAN, sms : BOOLEAN, faults : BOOLEAN, restart : BOOLEAN]
  /\ \A f \in (Faults \cap Events) \cup {"NONE"}, c \in Contexts, up \in BOOLEAN :
       NextFault(f, c.healthy, c.storageUp, up, c.judged, c.rise) \in Events \cup {"NONE"}

VARIABLES
  fault,       \* s_fault
  notified,    \* s_notified
  logged,      \* s_last_log_fault and the age of s_last_log_us below LogGap
  netUp,       \* s_net_up
  settings,    \* notify and its two subscriptions
  tick,        \* where the control task is
  noticed,     \* s_restart_notified
  uptime,      \* up to NoticeAge
  sinceNotice  \* up to NoticeAge

fvars == <<fault, notified, logged>>
avars == <<fvars, netUp, settings, tick, noticed, uptime>>
vars  == <<nvars, avars, sinceNotice>>

Setting == [mail : BOOLEAN, sms : BOOLEAN, faults : BOOLEAN, restart : BOOLEAN]

(* Nothing has been logged within LogGap. *)
NoLine == [class |-> "NONE", age |-> 0]

----------------------------------------------------------------------------
(* The line of raise_fault: only the last class logged is remembered. *)
Throttled(f) == logged.class = f /\ logged.age < LogGap

LogFault(f) == logged' = IF Throttled(f) \/ LogGap = 0 THEN logged ELSE [class |-> f, age |-> 0]

Quietly == UNCHANGED <<queue, job, limiter, mailed, unreported>> /\ offer' = "none"

(* Slip: the flag is left to the next alert. *)
ClearFaultOnly == fault' = "NONE" /\ UNCHANGED <<notified, logged>> /\ Quietly

(* fault_manager_clear. *)
Clear == fault' = "NONE" /\ notified' = FALSE /\ UNCHANGED logged /\ Quietly

(* raise_fault of another fault than the active one.  A full queue counts as
   told. *)
Raise(f) ==
  LET tell == ~notified /\ settings.faults IN
  /\ fault' = f
  /\ LogFault(f)
  /\ notified' = (notified \/ tell)
  /\ IF tell THEN Send([event |-> f, mail |-> settings.mail]) ELSE Quietly

(* fault_manager_observe, in a control tick. *)
Observe(c) ==
  LET f == NextFault(fault, c.healthy, c.storageUp, netUp, c.judged, c.rise) IN
  /\ tick = "observe" /\ tick' = "notice"
  /\ CASE f = fault -> Quietly /\ UNCHANGED fvars
       [] f # fault /\ f = "NONE" -> Clear
       [] OTHER -> Raise(f)
  /\ UNCHANGED <<netUp, settings, noticed, uptime, sinceNotice>>

(* Slip: in the first tick after a boot. *)
NoticeDueAtOnce == ~noticed

NoticeDue == ~noticed /\ uptime >= NoticeAge

(* The end of control_tick with notification_dispatch_restart: one chance per
   boot, whether the notice is wanted or not. *)
Notice ==
  LET wanted == (settings.mail \/ settings.sms) /\ settings.restart IN
  /\ tick = "notice" /\ tick' = "observe"
  /\ noticed' = (noticed \/ NoticeDue)
  /\ IF NoticeDue /\ wanted
     THEN Send([event |-> Restart, mail |-> settings.mail]) ELSE Quietly
  /\ UNCHANGED <<fvars, netUp, settings, uptime, sinceNotice>>

(* h_fault_clear. *)
ClearFault ==
  /\ tick = "observe" /\ Clear
  /\ UNCHANGED <<netUp, settings, tick, noticed, uptime, sinceNotice>>

(* h_notify and h_notify_events, as far as the form sends. *)
PutSettings(s) ==
  /\ tick = "observe"
  /\ settings' = s
  /\ Quietly /\ UNCHANGED <<fvars, netUp, tick, noticed, uptime, sinceNotice>>

(* fault_manager_set_network_up, from the Wi-Fi events. *)
SetNetworkUp(up) ==
  /\ netUp # up /\ netUp' = up
  /\ Quietly /\ UNCHANGED <<fvars, settings, tick, noticed, uptime, sinceNotice>>

(* The limiter has let a restart mail out. *)
RestartMailStarts ==
  job.phase = "ready" /\ job'.phase = "mailing" /\ job.cmd.event = Restart

WorkerStep ==
  /\ Worker(netUp)
  /\ sinceNotice' = IF RestartMailStarts THEN 0 ELSE sinceNotice
  /\ UNCHANGED avars

Pass ==
  /\ Age
  /\ logged' = IF logged = NoLine \/ logged.age + 1 >= LogGap THEN NoLine
               ELSE [logged EXCEPT !.age = @ + 1]
  /\ uptime' = UpTo(uptime, NoticeAge)
  /\ sinceNotice' = UpTo(sinceNotice, NoticeAge)
  /\ UNCHANGED <<fault, notified, netUp, settings, tick, noticed>>

(* A reset: nothing but the saved settings survives. *)
Boot ==
  /\ NotifierBoot
  /\ fault' = "NONE" /\ notified' = FALSE /\ logged' = NoLine
  /\ netUp' = TRUE /\ tick' = "observe" /\ noticed' = FALSE /\ uptime' = 0
  /\ UNCHANGED <<settings, sinceNotice>>

Init ==
  /\ NotifierInit
  /\ fault = "NONE" /\ notified = FALSE /\ logged = NoLine
  /\ netUp = TRUE /\ tick = "observe" /\ noticed = FALSE /\ uptime = 0
  /\ sinceNotice = NoticeAge
  /\ settings \in Settings

(* What takes no time. *)
NowStep ==
  \/ \E c \in Contexts : Observe(c)
  \/ Notice
  \/ ClearFault
  \/ \E s \in Settings : PutSettings(s)
  \/ \E up \in BOOLEAN : SetNetworkUp(up)
  \/ WorkerStep

Next == NowStep \/ Pass \/ Boot

Spec == Init /\ [][Next]_vars

(* The worker runs whenever it can and time goes on; a reset is allowed, but
   never demanded. *)
FairSpec == Spec /\ WF_vars(WorkerStep) /\ WF_vars(Pass)

----------------------------------------------------------------------------
TypeOK ==
  /\ NotifierTypeOK
  /\ fault \in Faults /\ notified \in BOOLEAN
  /\ logged \in [class : Faults, age : 0 .. LogGap]
  /\ netUp \in BOOLEAN /\ settings \in Setting
  /\ tick \in {"observe", "notice"} /\ noticed \in BOOLEAN /\ uptime \in 0 .. NoticeAge
  /\ sinceNotice \in 0 .. NoticeAge

(* email_rate_allow against a clock of its own: the worker starts a mail about
   an event exactly when none about it was started within the window since the
   boot, whatever else was queued, dropped or kept back in between. *)
LimiterExact ==
  [][job.phase = "ready" /\ job'.phase \in {"mailing", "quiet"} /\ job.cmd.mail
       => (job'.phase = "mailing" <=> mailed[job.cmd.event] >= Window)]_vars

(* What the next mail about an event reports is what was kept back since the
   last one: no occurrence is lost, none reported twice. *)
RepeatsKept ==
  \A e \in Events :
    LET i == SlotOf(limiter, e) IN
    unreported[e] = IF i = 0 THEN 0 ELSE limiter[i].repeats

(* What holds back the mails of a boot loop.  The comment over the limiter's
   call for restart notices promises one mail per two hours, against exactly
   that; but its table is empty after each boot, and a boot sends one notice at
   most, so the window never applies to them.  What remains is the uptime the
   notice waits for: however the resets fall between the tick, the queue, the
   wait for the network and the mail, two restart mails are NoticeAge apart. *)
RestartMailsApart == [][RestartMailStarts => sinceNotice >= NoticeAge]_vars

(* Whichever way a fault ends, by itself, by hand or by a reset, the next one
   finds its alert armed; only a fault that replaces another one goes without. *)
AlertIsArmed == fault = "NONE" => ~notified

Channel == INSTANCE AlertChannel WITH
  Commands <- Command, Capacity <- QueueLen, offer <- offer,
  pending  <- (IF job = Idle THEN <<>> ELSE <<job.cmd>>) \o queue

(* The queue and its worker keep the promise of the dispatch functions: in
   order, once each, refused only when QueueLen commands are pending, and
   every accepted command is handled in the end. *)
ImplementsChannel == Channel!Spec

(* A restart notice does not wait for ever for a network that never comes. *)
NoticeEnds == job.phase = "waiting" ~> job.phase # "waiting"
=============================================================================
