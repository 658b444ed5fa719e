----------------------------- MODULE MCMqttLink -----------------------------
(***************************************************************************)
(* MqttLink with two base topics and two switches; a unit of time is 2.5 s.*)
(***************************************************************************)
EXTENDS MqttLink

CONSTANTS b1, b2, s1, s2

MCBases == {b1, b2}
MCKeys == <<s1, s2>>
=============================================================================
