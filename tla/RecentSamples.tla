--------------------------- MODULE RecentSamples ---------------------------
(***************************************************************************)
(* What the minute buffer promises its readers: the last Capacity samples  *)
(* recorded since the boot, oldest first.                                  *)
(***************************************************************************)
EXTENDS Naturals, SequencesExt

CONSTANTS Samples, Capacity

VARIABLE recent

LastOf(s, n) == IF Len(s) <= n THEN s ELSE SubSeq(s, Len(s) - n + 1, Len(s))

Init == recent = <<>>

(* The newest sample is any; what is kept before it is not. *)
Record ==
  /\ recent' # <<>> /\ Last(recent') \in Samples
  /\ recent' = LastOf(Append(recent, Last(recent')), Capacity)

Forget == recent' = <<>>

Next == Record \/ Forget

Spec == Init /\ [][Next]_recent
=============================================================================
