------------------------------ MODULE Settings ------------------------------
(***************************************************************************)
(* The settings a user sees: the configuration in force, in flash and on   *)
(* the air.  The handlers that change, save and apply it (web_ui_api.c),   *)
(* the reset button, and the restart, over ConfigStore and NetworkManager. *)
(*                                                                         *)
(* A handler holds the configuration lock throughout, but the Wi-Fi events *)
(* are handled beside it: network_apply is two steps, the radio's stop and *)
(* its start.  choice and kept are history: what the user last said about  *)
(* fault mails, and what had been said when the blob in flash was written. *)
(* What storage_healthy makes of a save is in ControlEngine.               *)
(***************************************************************************)
EXTENDS ConfigStore, NetworkManager

CONSTANTS
  FirstFlash,      \* what the flash can hold before the first boot
  NetworkInputs,   \* the bodies of /api/network; "" leaves a field as it is
  Results          \* how a save can end

ASSUME SettingsAssumption ==
  /\ FirstFlash \subseteq Flash /\ Results \subseteq SaveResults
  /\ NetworkInputs \subseteq
       [sta : BOOLEAN, ssid : Ssids \cup {""}, pass : Passes \cup {""}]

VARIABLES
  cfg,        \* g_cfg
  flash,      \* the blob in NVS
  slot,       \* a profile file: "none", "torn" or the profile saved
  applying,   \* network_apply has stopped the radio and not yet started it
  reachable,  \* the user's network is there
  choice, kept

store == <<cfg, flash, choice, kept>>
vars  == <<net, store, slot, applying, reachable>>

(* The home network lets in who knows its name and password. *)
Accepts == reachable /\ cfg.ssid = "home" /\ cfg.pass = "home"

----------------------------------------------------------------------------
(* storage_save_config of the new configuration c, as its callers use it: the
   result is not looked at.  said is the user's word on fault mails by now. *)
Save(c, said, result) ==
  /\ cfg' = c
  /\ flash' \in Saved(flash, c, result)
  /\ choice' = said
  /\ kept' = IF flash' = Blob(c) THEN said ELSE kept

(* h_notify_events. *)
PutEvents(on, result) ==
  /\ ~applying
  /\ Save([cfg EXCEPT !.faults = on, !.set = TRUE], IF on THEN "on" ELSE "off", result)
  /\ UNCHANGED <<net, slot, applying, reachable>>

(* h_device. *)
PutName(result) ==
  /\ ~applying
  /\ Save([cfg EXCEPT !.name = "mine"], choice, result)
  /\ UNCHANGED <<net, slot, applying, reachable>>

(* h_profile_post: a bad body is refused. *)
PutProfile(p, result) ==
  /\ ~applying /\ ValidProfile(p)
  /\ Save([cfg EXCEPT !.profile = p], choice, result)
  /\ UNCHANGED <<net, slot, applying, reachable>>

(* h_profile_file: the active profile, or one from the body, into a file whose
   writing is not checked; and back. *)
SaveProfileFile(p, whole) ==
  /\ ~applying /\ ValidProfile(p)
  /\ slot' = IF whole THEN p ELSE "torn"
  /\ UNCHANGED <<net, store, applying, reachable>>

LoadProfileFile(result) ==
  /\ ~applying /\ slot \in Profiles /\ ValidProfile(slot)
  /\ Save([cfg EXCEPT !.profile = slot], choice, result)
  /\ UNCHANGED <<net, slot, applying, reachable>>

(* h_network: what is sent and not empty, saved and applied. *)
WithNetwork(b) ==
  [cfg EXCEPT !.sta = b.sta, !.ssid = IF b.ssid = "" THEN @ ELSE b.ssid,
              !.pass = IF b.pass = "" THEN @ ELSE b.pass]

PutNetwork(b, result) ==
  /\ ~applying /\ applying' = TRUE
  /\ Save(WithNetwork(b), choice, result)
  /\ StopRadio
  /\ UNCHANGED <<slot, reachable>>

(* reset_button_task once the button has been held for five seconds. *)
ResetButton(result) ==
  /\ ~applying /\ applying' = TRUE
  /\ Save(FactoryNetwork(cfg), choice, result)
  /\ StopRadio
  /\ UNCHANGED <<slot, reachable>>

(* The rest of network_apply. *)
FinishApply ==
  /\ applying /\ applying' = FALSE
  /\ StartRadio(cfg.sta)
  /\ UNCHANGED <<store, slot, reachable>>

(* A reset, at any moment.  A flash that cannot be read counts as empty: the
   defaults are in force then, and may reach the flash or not. *)
Boot(readable, result) ==
  LET loads == Loads(flash, readable) IN
  /\ cfg' = Booted(flash, readable)
  /\ flash' \in IF loads THEN {flash} ELSE Saved(flash, Seed, result)
  /\ choice' = IF loads THEN kept ELSE "none"
  /\ kept' = IF ~loads /\ flash' = Blob(Seed) THEN "none" ELSE kept
  /\ BootRadio(Booted(flash, readable).sta)
  /\ applying' = FALSE
  /\ UNCHANGED <<slot, reachable>>

NetworkStep ==
  /\ \/ Joins(Accepts) \/ Fails(Accepts) \/ LosesLink
     \/ EventStep
  /\ UNCHANGED <<store, slot, applying, reachable>>

Reachability ==
  /\ reachable' = ~reachable
  /\ UNCHANGED <<net, store, slot, applying>>

Init ==
  /\ \E f \in FirstFlash :
       cfg = Booted(f, TRUE) /\ flash = IF f.blob THEN f ELSE Blob(Seed)
  /\ choice = "none" /\ kept = "none"
  /\ slot = "none" /\ applying = FALSE /\ reachable = TRUE
  /\ radio = (IF cfg.sta THEN "sta" ELSE "ap") /\ link = "down"
  /\ events = (IF cfg.sta THEN <<"start">> ELSE <<>>)
  /\ retry = 0 /\ bit = FALSE /\ netUp = TRUE

Handler(result) ==
  \/ \E on \in BOOLEAN : PutEvents(on, result)
  \/ PutName(result)
  \/ \E p \in Profiles : PutProfile(p, result)
  \/ LoadProfileFile(result)
  \/ \E b \in NetworkInputs : PutNetwork(b, result)
  \/ ResetButton(result)

Next ==
  \/ \E result \in Results : Handler(result)
  \/ \E p \in Profiles, whole \in BOOLEAN : SaveProfileFile(p, whole)
  \/ FinishApply
  \/ \E readable \in BOOLEAN, result \in Results : Boot(readable, result)
  \/ NetworkStep
  \/ Reachability

Spec == Init /\ [][Next]_vars

(* The event task and the driver go on, and a handler finishes. *)
FairSpec ==
  Spec /\ WF_vars(NetworkStep /\ ~LosesLink) /\ WF_vars(FinishApply)

----------------------------------------------------------------------------
TypeOK ==
  /\ NetworkTypeOK
  /\ cfg \in Config /\ flash \in Flash
  /\ slot \in {"none", "torn"} \cup Profiles
  /\ applying \in BOOLEAN /\ reachable \in BOOLEAN
  /\ choice \in {"none", "on", "off"} /\ kept \in {"none", "on", "off"}

(* repair_config turns fault mails on once, for a device that never asked: what
   the user said about them is in force until the user says otherwise or a
   restart falls back to what was written earlier, whose own choice then counts.
   Neither the repairs that every boot makes again nor a save of something else
   undo it, whichever saves failed, before or after the write, and whichever
   boots could not read the flash. *)
ChoiceSticks == choice # "none" => cfg.faults = (choice = "on")

(* The profile in force is always one that validates, whatever the flash or a
   profile file holds. *)
ProfileInForceValid == ValidProfile(cfg.profile)

(* With nothing posted, nothing joining and no handler at work, the flag and
   the bit both tell a client's user the truth about the link. *)
LinkReported ==
  radio = "sta" /\ events = <<>> /\ link # "joining" =>
    netUp = (link = "up") /\ bit = (link = "up")

(* A client that has stopped trying has tried MaxRetry times. *)
GivesUpOnlyAtTheEnd ==
  radio = "sta" /\ events = <<>> /\ link = "down" => retry >= MaxRetry

(* A client whose network is there from some time on, with settings left
   alone, joins it or has given up before. *)
ComesBack ==
  <>[](radio = "sta" /\ Accepts) => []<>(link = "up" \/ retry >= MaxRetry)
=============================================================================
