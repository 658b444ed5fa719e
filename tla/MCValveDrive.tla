---------------------------- MODULE MCValveDrive ----------------------------
(***************************************************************************)
(* ValveDrive for TLC.  The two timings differ by more than the settle      *)
(* window, so a change under a running sequence can end it with the coil    *)
(* still on; one has no pulse at all (motor_run_secs = 0) and one has no    *)
(* drain phase (drain_secs = 0), both of which the configuration accepts.   *)
(***************************************************************************)
EXTENDS ValveDrive

TwoTimings == {[motor_run |-> 4, drain_hold |-> 0],
               [motor_run |-> 0, drain_hold |-> 2]}
=============================================================================
