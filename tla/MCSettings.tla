----------------------------- MODULE MCSettings -----------------------------
(* Small values for Settings, and a horizon: so many requests and restarts, in
   any order; the network comes and goes without a bound. *)
EXTENDS Settings

CONSTANTS MaxEdits, MaxBoots

VARIABLES edits, boots

mcvars == <<vars, edits, boots>>

Mine == [Repair(Seed) EXCEPT !.name = "mine", !.faults = FALSE]

(* Nothing yet, an upgrade, and a damaged blob. *)
MCFlash ==
  {NoBlob, Blob(ShortBlob(Mine)), Blob([Mine EXCEPT !.profile = "bad", !.pass = "short"])}

Body(sta, ssid, pass) == [sta |-> sta, ssid |-> ssid, pass |-> pass]

MCNetwork == {Body(TRUE, "home", "home"), Body(FALSE, "", "short")}

Edit ==
  \/ \E result \in Results : Handler(result)
  \/ \E p \in Profiles, whole \in BOOLEAN : SaveProfileFile(p, whole)

MCBoot == \E readable \in BOOLEAN, result \in Results : Boot(readable, result)

MCInit == Init /\ edits = 0 /\ boots = 0

MCNext ==
  \/ edits < MaxEdits /\ edits' = edits + 1 /\ Edit /\ UNCHANGED boots
  \/ boots < MaxBoots /\ boots' = boots + 1 /\ MCBoot /\ UNCHANGED edits
  \/ (FinishApply \/ NetworkStep \/ Reachability) /\ UNCHANGED <<edits, boots>>

MCSpec ==
  MCInit /\ [][MCNext]_mcvars /\ WF_vars(NetworkStep /\ ~LosesLink) /\ WF_vars(FinishApply)
=============================================================================
