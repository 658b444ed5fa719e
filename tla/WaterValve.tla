----------------------------- MODULE WaterValve -----------------------------
(***************************************************************************)
(* The composite water-control valve of crates/core/src/water_valve.rs: a   *)
(* motorised valve with one coil per direction, and a drain output.  The    *)
(* struct is a record and each method is an operator on that record, so     *)
(* that every module that owns a valve (behind a lock, as App does) uses    *)
(* one translation of it.                                                   *)
(*                                                                         *)
(* Time is a natural number of units; SettleMs is the settle window in that *)
(* unit.  A ValveTiming is given by its two durations, already converted.   *)
(***************************************************************************)
EXTENDS Naturals

CONSTANT SettleMs       \* SETTLE_MS: dead window before and after the pulse

ASSUME SettleAssumption == SettleMs \in Nat \ {0}

Phase == {"Idle", "TurningOn", "TurningOff", "Draining"}

Motors  == {"open_motor", "close_motor"}
Outputs == Motors \cup {"drain"}

ValveTiming == [motor_run : Nat, drain_hold : Nat]

\* Phase::Idle carries no start time; the model keeps it at 0 there.
Valve == [phase : Phase, start_ms : Nat, user_state : BOOLEAN,
          timing : ValveTiming]

WithTiming(t) ==
  [phase |-> "Idle", start_ms |-> 0, user_state |-> FALSE, timing |-> t]

SetTiming(v, t) == [v EXCEPT !.timing = t]

Restore(v, on) == [v EXCEPT !.user_state = on]

IsBusy(v) == v.phase \notin {"Idle", "Draining"}

\* WaterState: what the rest of the program sees of the phase.
State(v) ==
  CASE v.phase = "TurningOn"  -> "TurningOn"
    [] v.phase = "TurningOff" -> "TurningOff"
    [] v.phase = "Draining"   -> "Off"
    [] v.phase = "Idle"       -> IF v.user_state THEN "On" ELSE "Off"

\* Mutant of Enter: the start time of the previous phase is kept.
EnterWithoutStart(v, p, now) == [v EXCEPT !.phase = p]

Enter(v, p, now) == [v EXCEPT !.phase = p, !.start_ms = now]

GoIdle(v) == Enter(v, "Idle", 0)

TurnOn(v, now) ==
  IF (v.phase = "Idle" /\ ~v.user_state) \/ v.phase = "Draining"
  THEN Enter(v, "TurningOn", now)
  ELSE v

TurnOff(v, now) ==
  IF v.phase = "Idle" /\ v.user_state
  THEN Enter(v, "TurningOff", now)
  ELSE v

-----------------------------------------------------------------------------
(* tick(now): the new valve and the outputs it asks for.                    *)

\* u64::saturating_sub, which hides a start time later than the tick's now.
Elapsed(v, now) == IF now > v.start_ms THEN now - v.start_ms ELSE 0

\* Mutant of SequenceMs: the settle windows are counted twice.
SettleTwice(t) == SettleMs + SettleMs + t.motor_run + SettleMs + SettleMs

SequenceMs(t) == SettleMs + t.motor_run + SettleMs

\* Mutants of InMotorWindow: no settle window before the pulse, or no end of
\* the pulse before the sequence's.
NoSettleBefore(v, now) == Elapsed(v, now) < SettleMs + v.timing.motor_run

NoSettleAfter(v, now) == Elapsed(v, now) >= SettleMs

InMotorWindow(v, now) ==
  /\ Elapsed(v, now) >= SettleMs
  /\ Elapsed(v, now) < SettleMs + v.timing.motor_run

\* Mutant of SequenceDone: the pulse is left out of the length.
DoneAfterSettling(v, now) == Elapsed(v, now) >= SettleMs + SettleMs

SequenceDone(v, now) == Elapsed(v, now) >= SequenceMs(v.timing)

DrainDone(v, now) == Elapsed(v, now) >= v.timing.drain_hold

Tick(v, now) ==
  CASE v.phase = "TurningOn" /\ SequenceDone(v, now) ->
         [GoIdle(v) EXCEPT !.user_state = TRUE]
    [] v.phase = "TurningOff" /\ SequenceDone(v, now) ->
         [(IF v.timing.drain_hold = 0 THEN GoIdle(v)
                                      ELSE Enter(v, "Draining", now))
            EXCEPT !.user_state = FALSE]
    [] v.phase = "Draining" /\ DrainDone(v, now) -> GoIdle(v)
    [] OTHER -> v

TickOutputs(v, now) ==
  CASE v.phase = "TurningOn" /\ InMotorWindow(v, now)  -> {"open_motor"}
    [] v.phase = "TurningOff" /\ InMotorWindow(v, now) -> {"close_motor"}
    [] v.phase = "TurningOff" /\ SequenceDone(v, now)
         /\ v.timing.drain_hold # 0                    -> {"drain"}
    [] v.phase = "Draining" /\ ~DrainDone(v, now)      -> {"drain"}
    [] OTHER                                           -> {}
=============================================================================
