---------------------------- MODULE TimedSwitch ----------------------------
(***************************************************************************)
(* The switch with an auto-off timer of crates/core/src/switch.rs, which    *)
(* drives each sprinkler.  The struct is a record and each method an        *)
(* operator on it.  Option<Duration> is a set of at most one duration.      *)
(***************************************************************************)
EXTENDS Naturals

Limit == {l \in SUBSET Nat : \A d, e \in l : d = e}

\* on_since is Some exactly while the switch is on; the model keeps it at 0
\* otherwise.
Switch == [on : BOOLEAN, on_since : Nat, auto_off : Limit,
           override_auto_off : Limit]

New(limit) == [on |-> FALSE, on_since |-> 0, auto_off |-> limit,
               override_auto_off |-> {}]

SetAutoOff(s, limit) == [s EXCEPT !.auto_off = limit]

\* Mutants of TurnOn: a repeated command restarts the timer, or the timer is
\* not started.
RestartTimer(s, now, override) ==
  [s EXCEPT !.on = TRUE, !.on_since = now, !.override_auto_off = override]

KeepOldTimer(s, now, override) ==
  IF s.on THEN s
  ELSE [s EXCEPT !.on = TRUE, !.override_auto_off = override]

\* turn_on and turn_on_for differ in the override; both leave a switch that
\* is already on alone.
TurnOn(s, now, override) ==
  IF s.on THEN s
  ELSE [s EXCEPT !.on = TRUE, !.on_since = now, !.override_auto_off = override]

TurnOff(s) == [s EXCEPT !.on = FALSE, !.on_since = 0, !.override_auto_off = {}]

EffectiveLimit(s) ==
  IF s.override_auto_off # {} THEN s.override_auto_off ELSE s.auto_off

Expired(s, now) ==
  \E d \in EffectiveLimit(s) :
    (IF now > s.on_since THEN now - s.on_since ELSE 0) >= d

Tick(s, now) == IF s.on /\ Expired(s, now) THEN TurnOff(s) ELSE s
=============================================================================
