-------------------------- MODULE MCWifiSupervisor --------------------------
(* WifiSupervisor for TLC: no network, the good one, and the good one behind *)
(* one that may be out of range and one whose name is refused.              *)
EXTENDS WifiSupervisor

SomeLists == {<<>>, <<"home">>, <<"shed", "attic", "home">>}
=============================================================================
