---------------------------- MODULE SampleClaims ----------------------------
(***************************************************************************)
(* What a comment in storage_manager.c says of daily.csv and the code does *)
(* not do.                                                                 *)
(***************************************************************************)
EXTENDS SampleStore

(* dedup_daily_csv: "a file that is already one-row-per-day and ascending is
   left untouched".  It has room for RowCap days: a longer file, however clean,
   is written back without its newest days at every boot. *)
CleanFileUntouched ==
  [][Ascending(rows) /\ virtual # 0 /\ virtual' = 0 => rows' = rows]_vars
=============================================================================
