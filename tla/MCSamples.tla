----------------------------- MODULE MCSamples -----------------------------
(* Small values for SampleStore, and a horizon: so many minutes, restarts and
   other events, in any order. *)
EXTENDS SampleClaims

CONSTANTS MaxMinutes, MaxBoots, MaxEvents

VARIABLES minutes, boots, events

mcvars == <<vars, minutes, boots, events>>

Warm  == [known |-> TRUE, heat |-> TRUE]
Blind == [known |-> FALSE, heat |-> TRUE]
MCKinds == {Warm, Blind}

MCInit == Init /\ minutes = 0 /\ boots = 0 /\ events = 0

Event == Synchronise \/ \E m \in {"off", "plain", "accel"} \ {mode} : SetMode(m)

MCBoot == \E outage \in Outages, keepsTime, mounts \in BOOLEAN : Boot(outage, keepsTime, mounts, TRUE)

MCNext ==
  \/ /\ minutes < MaxMinutes /\ minutes' = minutes + 1
     /\ \E kind \in Kinds, written \in BOOLEAN : Minute(kind, written, FALSE)
     /\ UNCHANGED <<boots, events>>
  \/ /\ minutes < MaxMinutes /\ minutes' = minutes + 1
     /\ ~valid /\ events < MaxEvents /\ events' = events + 1
     /\ \E kind \in Kinds, written \in BOOLEAN : Minute(kind, written, TRUE)
     /\ UNCHANGED boots
  \/ /\ events < MaxEvents /\ events' = events + 1
     /\ Event
     /\ UNCHANGED <<minutes, boots>>
  \/ /\ boots < MaxBoots /\ boots' = boots + 1
     /\ MCBoot
     /\ UNCHANGED <<minutes, events>>
  \/ Reader /\ UNCHANGED <<minutes, boots, events>>

MCSpec == MCInit /\ [][MCNext]_mcvars
=============================================================================
