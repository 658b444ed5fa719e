---------------------------- MODULE AbstractValve ----------------------------
(***************************************************************************)
(* The water control as its users see it (WaterState of water_valve.rs and  *)
(* the NVS key wc.valve): two settled states, one transition between them   *)
(* in each direction that nothing interrupts but a reboot, and a stored     *)
(* copy of the settled state that a reboot brings back.  No time, no        *)
(* threads, no coils: modules that only need to know when the water is on   *)
(* use this instead of the sequencer.                                       *)
(***************************************************************************)
VARIABLES state,   \* WaterState
          stored   \* what NVS holds: "none", "off" or "on"

WaterState == {"Off", "TurningOn", "On", "TurningOff"}

\* user_state: a transition counts as its starting point until it completes.
Settled(s) == IF s \in {"On", "TurningOff"} THEN "on" ELSE "off"

Boot == IF stored = "on" THEN "On" ELSE "Off"

Init ==
  /\ stored \in {"none", "off", "on"}
  /\ state = Boot

TurnOn   == state = "Off" /\ state' = "TurningOn" /\ UNCHANGED stored
TurnOff  == state = "On" /\ state' = "TurningOff" /\ UNCHANGED stored
Complete ==
  /\ \/ state = "TurningOn" /\ state' = "On"
     \/ state = "TurningOff" /\ state' = "Off"
  /\ UNCHANGED stored
Save     == stored' = Settled(state) /\ UNCHANGED state
Reboot   == state' = Boot /\ UNCHANGED stored

Next == TurnOn \/ TurnOff \/ Complete \/ Save \/ Reboot

Spec == Init /\ [][Next]_<<state, stored>>
=============================================================================
