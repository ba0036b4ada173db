---------------------------- MODULE AlertChannel ----------------------------
(***************************************************************************)
(* What notification_dispatch_alert and _restart promise the control task: *)
(* a bounded queue that never makes the caller wait.  A command is refused *)
(* only when Capacity commands are pending; one that was accepted is       *)
(* handled exactly once, in the order of the offers, unless a restart      *)
(* forgets everything.                                                     *)
(***************************************************************************)
EXTENDS Naturals, Sequences

CONSTANTS Commands,   \* what can be offered
          Capacity    \* how many are always accepted

VARIABLES pending,    \* accepted, not yet handled, oldest first
          offer       \* what became of the command just offered

chan == <<pending, offer>>

Init == pending = <<>> /\ offer = "none"

Accept(c) ==
  /\ Len(pending) <= Capacity     \* the handler may have taken one already
  /\ pending' = Append(pending, c)
  /\ offer' = "accepted"

Refuse ==
  /\ Len(pending) >= Capacity
  /\ offer' = "refused"
  /\ UNCHANGED pending

Handle ==
  /\ pending # <<>>
  /\ pending' = Tail(pending)
  /\ offer' = "none"

Forget == pending' = <<>> /\ offer' = "none"

(* Anything else the system does ends the caller's view of its last offer. *)
Other == offer' = "none" /\ UNCHANGED pending

Next ==
  \/ \E c \in Commands : Accept(c)
  \/ Refuse \/ Handle \/ Forget \/ Other

Safety == Init /\ [][Next]_chan

Spec == Safety /\ WF_chan(Handle)
=============================================================================
