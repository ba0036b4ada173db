------------------------------ MODULE MCFrames ------------------------------
(* The constants of sensor_manager.h, and a few room temperatures. *)
EXTENDS Frames

MCReadings == 1990 .. 2010
=============================================================================
