--------------------------- MODULE NetworkManager ---------------------------
(***************************************************************************)
(* main/network_manager.c: the radio as client or access point, the event  *)
(* handler with its reconnections, and the two places that say whether     *)
(* there is a network: s_evt's bit (network_is_up, which the page shows)   *)
(* and fault_manager's flag.                                               *)
(*                                                                         *)
(* The driver is external, modelled from its use here: what it starts,     *)
(* joins, loses and posts.  Its events are handled one by one by another   *)
(* task, possibly after the radio has been stopped or set up anew.         *)
(*                                                                         *)
(* A definition marked "Slip" is a wrong form of the one after it, the way *)
(* this code could plausibly be wrong; the checks must notice each.        *)
(***************************************************************************)
EXTENDS Naturals, Sequences

CONSTANTS
  MaxRetry,     \* reconnections after a loss
  EventRoom     \* bound of the model: events waiting to be handled

ASSUME NetworkAssumption == MaxRetry \in Nat \ {0} /\ EventRoom \in Nat \ {0}

VARIABLES
  radio,     \* "off", "ap" or "sta"
  link,      \* the station: "down", "joining" or "up"
  events,    \* posted, not yet handled
  retry,     \* s_retry
  bit,       \* BIT_STA_CONNECTED
  netUp      \* fault_manager's s_net_up

net == <<radio, link, events, retry, bit, netUp>>

Room == Len(events) < EventRoom

NetworkTypeOK ==
  /\ radio \in {"off", "ap", "sta"} /\ link \in {"down", "joining", "up"}
  /\ events \in Seq({"start", "lost", "ip"}) /\ retry \in 0 .. MaxRetry
  /\ bit \in BOOLEAN /\ netUp \in BOOLEAN

----------------------------------------------------------------------------
(* The driver. *)
Post(e) == Room /\ events' = Append(events, e)

(* esp_wifi_connect does something only for a station that is not connected. *)
Connected == IF radio = "sta" /\ link = "down" THEN "joining" ELSE link

Joins(accepts) ==
  /\ link = "joining" /\ accepts
  /\ link' = "up" /\ Post("ip")
  /\ UNCHANGED <<radio, retry, bit, netUp>>

Fails(accepts) ==
  /\ link = "joining" /\ ~accepts
  /\ link' = "down" /\ Post("lost")
  /\ UNCHANGED <<radio, retry, bit, netUp>>

LosesLink ==
  /\ link = "up"
  /\ link' = "down" /\ Post("lost")
  /\ UNCHANGED <<radio, retry, bit, netUp>>

----------------------------------------------------------------------------
(* wifi_event_handler. *)
Handled(e) == events # <<>> /\ Head(events) = e /\ events' = Tail(events)

(* Slip: the connection is left to a later event. *)
OnStartWaits ==
  /\ Handled("start")
  /\ UNCHANGED <<radio, link, retry, bit, netUp>>

OnStart ==
  /\ Handled("start")
  /\ link' = Connected
  /\ UNCHANGED <<radio, retry, bit, netUp>>

(* Slip: the last reconnection is not tried. *)
GivesUpEarly == retry + 1 >= MaxRetry

(* Slip: one reconnection more than there is room for. *)
GivesUpLate == retry > MaxRetry

GivesUp == ~(retry < MaxRetry)

(* Slip: the bit is left to the next connection. *)
BitKept == bit

BitAfterLoss == bit /\ ~GivesUp

OnLost ==
  /\ Handled("lost")
  /\ netUp' = FALSE
  /\ bit' = BitAfterLoss
  /\ IF GivesUp THEN UNCHANGED <<link, retry>> ELSE link' = Connected /\ retry' = retry + 1
  /\ UNCHANGED radio

OnIp ==
  /\ Handled("ip")
  /\ retry' = 0 /\ bit' = TRUE /\ netUp' = TRUE
  /\ UNCHANGED <<radio, link>>

EventStep == OnStart \/ OnLost \/ OnIp

----------------------------------------------------------------------------
(* esp_wifi_stop in network_apply: the driver may or may not still say that
   the station was lost. *)
StopRadio ==
  /\ radio' = "off" /\ link' = "down"
  /\ IF link # "down" THEN UNCHANGED events \/ Post("lost") ELSE UNCHANGED events
  /\ UNCHANGED <<retry, bit, netUp>>

(* start_sta and start_ap. *)
StartRadio(sta) ==
  IF sta
  THEN /\ radio' = "sta" /\ retry' = 0 /\ Post("start") /\ UNCHANGED <<link, bit, netUp>>
  ELSE radio' = "ap" /\ UNCHANGED <<link, events, retry, bit, netUp>>

(* network_init after a reset. *)
BootRadio(sta) ==
  /\ radio' = (IF sta THEN "sta" ELSE "ap") /\ link' = "down"
  /\ events' = (IF sta THEN <<"start">> ELSE <<>>)
  /\ retry' = 0 /\ bit' = FALSE /\ netUp' = TRUE
=============================================================================
