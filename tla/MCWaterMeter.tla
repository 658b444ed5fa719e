---------------------------- MODULE MCWaterMeter ----------------------------
(***************************************************************************)
(* The water meter with a register of 12 values, reads every other second  *)
(* and a window of three samples: the register restarts several times      *)
(* within the bound on time, and the window wraps.                         *)
(***************************************************************************)
EXTENDS WaterMeter
=============================================================================
