---------------------------- MODULE ConfigStore ----------------------------
(***************************************************************************)
(* The configuration in force and the copy in flash: loading, repairing    *)
(* and seeding at boot (main/main.c), saving and the profile files         *)
(* (main/storage_manager.c).  The operators say what each does; Settings   *)
(* has the actions.                                                        *)
(*                                                                         *)
(* A configuration is reduced to what its loading, repairing and saving    *)
(* tell apart: the network settings, the profile ("bad" does not validate),*)
(* the device name as an example of the fields that are appended at the    *)
(* tail and repaired when empty, and the subscription to fault mails with  *)
(* its "has been configured" mark.  The limits are in ControlEngine.       *)
(*                                                                         *)
(* A definition marked "Slip" is a wrong form of the one after it, the way *)
(* this code could plausibly be wrong; the checks must notice each.        *)
(***************************************************************************)
EXTENDS Naturals

Names    == {"", "default", "mine"}
Profiles == {"default", "mine", "bad"}
Ssids    == {"factory", "home"}
Passes   == {"factory", "home", "short"}    \* "short": fewer than 8 characters

Config == [sta : BOOLEAN, ssid : Ssids, pass : Passes, profile : Profiles,
           name : Names, set : BOOLEAN, faults : BOOLEAN]

NoBlob == [blob |-> FALSE]
Flash  == {NoBlob} \cup [blob : {TRUE}, cfg : Config]

Blob(c) == [blob |-> TRUE, cfg |-> c]

(* profile_validate, of which the profiles here either pass or not. *)
ValidProfile(p) == p # "bad"

(* seed_defaults; the subscription is left to repair_config. *)
Seed == [sta |-> FALSE, ssid |-> "factory", pass |-> "factory", profile |-> "default",
         name |-> "default", set |-> FALSE, faults |-> FALSE]

(* A blob written by firmware whose structure ended before the tail fields:
   storage_load_config zeroes what was not read. *)
ShortBlob(c) == [c EXCEPT !.name = "", !.set = FALSE, !.faults = FALSE]

(* Slip: the subscription is set to its default at every boot. *)
RepairEveryBoot(c) ==
  [c EXCEPT !.profile = IF ValidProfile(@) THEN @ ELSE "default",
            !.pass = IF ~c.sta /\ @ = "short" THEN "factory" ELSE @,
            !.name = IF @ = "" THEN "default" ELSE @,
            !.set = TRUE, !.faults = TRUE]

(* Slip: a stored profile is not validated. *)
RepairProfileKept(c) ==
  [c EXCEPT !.pass = IF ~c.sta /\ @ = "short" THEN "factory" ELSE @,
            !.name = IF @ = "" THEN "default" ELSE @,
            !.set = TRUE,
            !.faults = IF c.set THEN @ ELSE TRUE]

(* repair_config. *)
Repair(c) ==
  [c EXCEPT !.profile = IF ValidProfile(@) THEN @ ELSE "default",
            !.pass = IF ~c.sta /\ @ = "short" THEN "factory" ELSE @,
            !.name = IF @ = "" THEN "default" ELSE @,
            !.set = TRUE,
            !.faults = IF c.set THEN @ ELSE TRUE]

(* storage_save_config of c: what the flash may hold after a save that ends
   with result.  A write or commit error may come before or after the blob got
   there; a namespace that does not open leaves what was there. *)
SaveResults == {"ok", "failed", "unopened"}

Saved(f, c, result) ==
  CASE result = "ok" -> {Blob(c)} [] result = "failed" -> {f, Blob(c)} [] OTHER -> {f}

(* storage_reset_network. *)
FactoryNetwork(c) == [c EXCEPT !.sta = FALSE, !.ssid = "factory", !.pass = "factory"]

(* app_main: what the flash holds when it can be read, the defaults when not;
   only the latter are saved, and before they are repaired. *)
Loads(f, readable) == readable /\ f.blob

Booted(f, readable) == Repair(IF Loads(f, readable) THEN f.cfg ELSE Seed)
=============================================================================
