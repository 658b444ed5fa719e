--------------------------- MODULE MCDeviceEvents ---------------------------
(***************************************************************************)
(* DeviceEvents with two receivers: h1 takes the alarm and, with a method  *)
(* only the embassy firmware sends, h2 takes everything or nothing.        *)
(***************************************************************************)
EXTENDS DeviceEvents

CONSTANTS h1, h2

Hook(h, events, method, scheme) ==
  [name |-> h, enabled |-> TRUE, events |-> events, method |-> method,
   scheme |-> scheme]

First == Hook(h1, {"flow_alarm.fire", "flow_alarm.clear"}, "POST", "http")
Second == Hook(h2, Events, "GET", "https")

MCLists == {<<First, Second>>, <<[First EXCEPT !.enabled = FALSE]>>}
MCHooks == {h1, h2}
MCCap == [p \in {"std", "embassy", "host"} |-> IF p = "embassy" THEN 1 ELSE 2]
=============================================================================
