----------------------------- MODULE MCSensors -----------------------------
(* Small values for Sensors, and a horizon: so many polls, and so many
   requests between them, in any order. *)
EXTENDS Sensors

CONSTANTS MaxPolls, MaxEdits

VARIABLES polls, edits

mcvars == <<vars, polls, edits>>

(* A warm room, one that fell by two and a half degrees, a broken line. *)
MCRaws == {2000, 1750, 9000}

MCMinLogical == -4000

(* A source that gives nothing is left to the proof. *)
MCSources == {"real", "value"}

MCInit == Init /\ polls = 0 /\ edits = 0

MCNext ==
  \/ Poll /\ polls < MaxPolls /\ polls' = polls + 1 /\ UNCHANGED edits
  \/ Handler /\ edits < MaxEdits /\ edits' = edits + 1 /\ UNCHANGED polls
  \/ polls = MaxPolls /\ edits = MaxEdits /\ UNCHANGED mcvars

MCSpec == MCInit /\ [][MCNext]_mcvars
=============================================================================
