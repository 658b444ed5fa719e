----------------------------- MODULE FlowAlarm -----------------------------
(***************************************************************************)
(* The flow-rate alarm of crates/core/src/app.rs: App::evaluate_flow_alarm, *)
(* run by every App::tick, against everything else that touches the same    *)
(* state.                                                                   *)
(*                                                                         *)
(*  - the tick thread: the valve, the mirroring of switch states, the alarm *)
(*    rule (a clock delta, a snapshot, an update of the shared state), the  *)
(*    history of fires, the closing of the valve, the NVS write;            *)
(*  - App::clear_flow_alarm, from the HTTP servers and the serial console,  *)
(*    which reads the latch and resets it under two separate locks;         *)
(*  - the other callers of switch_command, and a crash.                     *)
(*                                                                         *)
(* The sensor task, the sprinklers and the configuration change between any *)
(* two steps and each is read once per tick: what is read is an input.      *)
(*                                                                         *)
(* The valve is AbstractValve, which ValveDrive implements.  Time is        *)
(* counted in units, Second of them to a second: what matters here is the   *)
(* time between two ticks, which the rule divides by 1000 ms.               *)
(***************************************************************************)
EXTENDS Naturals, Sequences, FiniteSets

CONSTANTS
  Second,      \* time units in a second
  TickGaps,    \* possible times between the clock reads of two ticks
  MaxGap,      \* the longest of them
  Durations,   \* the values config.flow_alarm.duration_secs may take
  MaxDuration, \* the longest of them
  MaxElapsed,  \* u32::MAX, where elapsed_secs saturates
  HistoryCap,  \* ALARM_HISTORY_CAP
  Clearers,    \* concurrent callers of clear_flow_alarm
  MaxStreak,   \* bound: where the history variable streak stops counting
  MaxFires     \* bound: nothing un-sets the latch after this many fires

ASSUME AlarmAssumption ==
  /\ Second \in Nat \ {0}
  /\ TickGaps \subseteq Nat /\ MaxGap \in Nat /\ \A g \in TickGaps : g <= MaxGap
  /\ Durations \subseteq Nat /\ Durations # {}
  /\ MaxDuration \in Nat /\ \A d \in Durations : d <= MaxDuration
  /\ MaxElapsed \in Nat /\ MaxDuration <= MaxElapsed
  /\ HistoryCap \in Nat \ {0}
  /\ MaxStreak \in Nat /\ MaxElapsed * Second <= MaxStreak
  /\ MaxFires \in Nat

VARIABLES
  water, stored,  \* the valve (AbstractValve)
  alarm,          \* DeviceSnapshot::alarm
  checked,        \* flow_alarm_last_check_ms is Some
  tick,           \* the tick thread: its next step and the locals it still needs
  clearing,       \* the callers of clear_flow_alarm that have read the latch
  saved,          \* alarm_history: the fires, numbered in order ...
  savedNvs,       \* ... and what NVS key wc.almhist holds
  streak,         \* history: time since the last tick with nothing to count
  fires,          \* history: how often the alarm fired
  expected        \* history: what alarm_history ought to hold, uncut

valveVars   == <<water, stored>>
historyVars == <<saved, savedNvs, fires, expected>>
vars == <<valveVars, alarm, checked, tick, clearing, historyVars, streak>>

Water == INSTANCE AbstractValve WITH state <- water

TickStep == {"sleep", "mirror", "delta", "snapshot", "update", "record",
             "close", "persist"}

Idle == [pc |-> "sleep", gap |-> 0, delta |-> 0, duration |-> 0,
         sprinkler |-> FALSE, water |-> "Off", above |-> FALSE,
         was_active |-> FALSE]

NoAlarm == [active |-> FALSE, elapsed |-> 0]

TypeOK ==
  /\ water \in Water!WaterState /\ stored \in {"none", "off", "on"}
  /\ checked \in BOOLEAN
  /\ alarm \in [active : BOOLEAN, elapsed : 0 .. MaxElapsed]
  /\ tick \in [pc : TickStep, gap : TickGaps \cup {0}, delta : Nat,
               duration : Durations \cup {0}, sprinkler : BOOLEAN,
               water : Water!WaterState, above : BOOLEAN,
               was_active : BOOLEAN]
  /\ clearing \subseteq Clearers
  /\ saved \in Seq(Nat) /\ savedNvs \in Seq(Nat) /\ expected \in Seq(Nat)
  /\ streak \in 0 .. MaxStreak /\ fires \in Nat

Init ==
  /\ Water!Init
  /\ alarm = NoAlarm /\ checked = FALSE
  /\ tick = Idle /\ clearing = {}
  /\ saved = <<>> /\ savedNvs = <<>> /\ expected = <<>>
  /\ streak = 0 /\ fires = 0

Least(a, b) == IF a < b THEN a ELSE b

\* The last n entries of a sequence.
Newest(s, n) == IF Len(s) <= n THEN s ELSE SubSeq(s, Len(s) - n + 1, Len(s))

-----------------------------------------------------------------------------
(* The tick thread.                                                         *)

(* App::tick reads the clock, g after the tick before, and ticks the valve, *)
(* which may be the end of a sequence.                                      *)
TickValve(g) ==
  /\ tick.pc = "sleep"
  /\ Water!Complete \/ UNCHANGED valveVars
  /\ tick' = [tick EXCEPT !.pc = "mirror", !.gap = g]
  /\ UNCHANGED <<alarm, checked, clearing,
                 historyVars, streak>>

(* The switch states go into the snapshot, which only this thread writes;   *)
(* s is whether any sprinkler is on.                                        *)
TickMirror(s) ==
  /\ tick.pc = "mirror"
  /\ tick' = [tick EXCEPT !.pc = "delta", !.sprinkler = s,
                          !.water = water]
  /\ UNCHANGED <<valveVars, alarm, checked,
                 clearing, historyVars, streak>>

(* evaluate_flow_alarm: config.flow_alarm is read (enabled and duration),   *)
(* then the whole seconds since the last evaluation are counted; a disabled *)
(* alarm is reset.                                                          *)
\* Mutant of WholeSeconds: off by one unit.
LessThanSeconds(g) == (g - 1) \div Second

WholeSeconds(g) == g \div Second

EvalDelta(enabled, duration) ==
  /\ tick.pc = "delta"
  /\ enabled \/ fires < MaxFires
  /\ checked' = TRUE
  /\ tick' = [tick EXCEPT !.pc = IF enabled THEN "snapshot" ELSE "persist",
                          !.gap = IF checked THEN tick.gap ELSE 0,
                          !.delta = IF checked THEN WholeSeconds(tick.gap) ELSE 0,
                          !.duration = duration]
  /\ IF enabled THEN UNCHANGED <<alarm, streak>>
                ELSE alarm' = NoAlarm /\ streak' = 0
  /\ UNCHANGED <<valveVars, clearing,
                 historyVars>>

(* The snapshot; h is whether flow_lph is at or above the threshold.         *)
EvalSnapshot(h) ==
  /\ tick.pc = "snapshot"
  /\ tick' = [tick EXCEPT !.pc = "update", !.above = h,
                          !.was_active = alarm.active]
  /\ UNCHANGED <<valveVars, alarm, checked,
                 clearing, historyVars, streak>>

(* The update of the shared alarm state, from that snapshot.                *)
Counting == tick.above /\ ~tick.sprinkler

\* Mutant of NewElapsed: the sprinklers do not reset it.
ElapsedUnderSprinkler ==
  IF tick.above THEN Least(alarm.elapsed + tick.delta, MaxElapsed) ELSE 0

NewElapsed ==
  IF Counting THEN Least(alarm.elapsed + tick.delta, MaxElapsed) ELSE 0

JustFired == ~tick.was_active /\ NewElapsed >= tick.duration

\* Mutant of EvalUpdate: the valve is closed only when the alarm fires.
UpdateWithoutRetry ==
  /\ tick.pc = "update"
  /\ alarm' = [active |-> alarm.active \/ JustFired, elapsed |-> NewElapsed]
  /\ streak' = IF Counting THEN Least(streak + tick.gap, MaxStreak) ELSE 0
  /\ tick' = [Idle EXCEPT !.pc = IF JustFired THEN "record" ELSE "persist"]
  /\ UNCHANGED <<valveVars, checked, clearing, historyVars>>

EvalUpdate ==
  /\ tick.pc = "update"
  /\ alarm' = [active  |-> alarm.active \/ JustFired, elapsed |-> NewElapsed]
  /\ streak' = IF Counting THEN Least(streak + tick.gap, MaxStreak) ELSE 0
  /\ tick' = [Idle EXCEPT !.pc =
                CASE JustFired                              -> "record"
                  [] tick.was_active /\ tick.water = "On"   -> "close"
                  [] OTHER                                  -> "persist"]
  /\ UNCHANGED <<valveVars, checked, clearing,
                 historyVars>>

\* Mutant of RecordAlarmEvent: a full ring drops the new entry.
DropNewEvent(h, e) == IF Len(h) = HistoryCap THEN h ELSE Append(h, e)

(* record_alarm_event: the ring drops its oldest entry when full; the NVS   *)
(* write's result is ignored.  The webhook event emitted after it goes to a *)
(* queue that nothing here reads.                                           *)
RecordAlarmEvent(h, e) ==
  Append(IF Len(h) = HistoryCap THEN Tail(h) ELSE h, e)

Record(ok) ==
  /\ tick.pc = "record"
  /\ fires' = fires + 1
  /\ saved' = RecordAlarmEvent(saved, fires')
  /\ expected' = Append(expected, fires')
  /\ savedNvs' = IF ok THEN saved' ELSE savedNvs
  /\ tick' = [tick EXCEPT !.pc = "close"]
  /\ UNCHANGED <<valveVars, alarm, checked,
                 clearing, streak>>

(* switch_command(off), whose outcome is ignored: a valve in mid-sequence   *)
(* refuses, and one that is off has nothing to do.                          *)
Close ==
  /\ tick.pc = "close"
  /\ IF water = "On" THEN Water!TurnOff ELSE UNCHANGED valveVars
  /\ tick' = [tick EXCEPT !.pc = "persist"]
  /\ UNCHANGED <<alarm, checked, clearing,
                 historyVars, streak>>

Persist(ok) ==
  /\ tick.pc = "persist"
  /\ IF ok THEN Water!Save ELSE UNCHANGED valveVars
  /\ tick' = Idle
  /\ UNCHANGED <<alarm, checked, clearing,
                 historyVars, streak>>

TickThread ==
  \/ \E g \in TickGaps : TickValve(g)
  \/ \E s \in BOOLEAN : TickMirror(s)
  \/ \E e \in BOOLEAN, d \in Durations : EvalDelta(e, d)
  \/ \E h \in BOOLEAN : EvalSnapshot(h)
  \/ EvalUpdate
  \/ Close
  \/ \E ok \in BOOLEAN : Record(ok)
  \/ \E ok \in BOOLEAN : Persist(ok)

-----------------------------------------------------------------------------
(* Everyone else.                                                           *)

(* clear_flow_alarm reads the latch, to know whether to announce the clear, *)
(* and resets it.                                                           *)
ClearRead(c) ==
  /\ c \notin clearing /\ fires < MaxFires
  /\ clearing' = clearing \cup {c}
  /\ UNCHANGED <<valveVars, alarm, checked,
                 tick, historyVars, streak>>

ClearUpdate(c) ==
  /\ c \in clearing
  /\ clearing' = clearing \ {c}
  /\ alarm' = NoAlarm
  /\ streak' = 0
  /\ UNCHANGED <<valveVars, checked, tick,
                 historyVars>>

(* Another caller of switch_command.                                        *)
UserSwitch ==
  /\ Water!TurnOn \/ Water!TurnOff
  /\ UNCHANGED <<alarm, checked, tick,
                 clearing, historyVars, streak>>

(* A crash and the boot after it (App::with_nvs): the latch is lost.        *)
Crash ==
  /\ fires < MaxFires
  /\ Water!Reboot
  /\ alarm' = NoAlarm /\ checked' = FALSE
  /\ tick' = Idle /\ clearing' = {}
  /\ saved' = Newest(savedNvs, HistoryCap)
  /\ expected' = savedNvs
  /\ streak' = 0
  /\ UNCHANGED <<savedNvs, fires>>

Next ==
  \/ TickThread
  \/ \E c \in Clearers : ClearRead(c) \/ ClearUpdate(c)
  \/ UserSwitch
  \/ Crash

(* The tick thread keeps running; and a sequence of the valve does not stay *)
(* incomplete for ever (ValveDrive's SequenceBounded).                      *)
Completion == \E g \in TickGaps : TickValve(g) /\ Water!Complete

Safety == Init /\ [][Next]_vars

Spec == Safety /\ WF_vars(TickThread) /\ SF_vars(Completion)

-----------------------------------------------------------------------------
(* Correctness.                                                             *)

(* The alarm never fires early: when evaluate_flow_alarm latches it, every  *)
(* evaluation for at least the configured time has seen high flow with all  *)
(* sprinklers off, in spite of clears, configuration changes and reboots    *)
(* between the steps of an evaluation.                                      *)
NotEarly ==
  [][(EvalUpdate /\ JustFired) => streak' >= tick.duration * Second]_vars

(* The alarm is not missed: high flow with all sprinklers off for twice the *)
(* longest duration (the rule drops fractions of a second at every tick)    *)
(* and one tick more, in an enabled alarm nobody clears, has latched it.    *)
NotMissed ==
  streak > 2 * MaxDuration * Second + MaxGap => alarm.active

(* alarm_history is the newest HistoryCap fires, in order, of those NVS     *)
(* brought back at boot and those since: nothing is dropped but the oldest, *)
(* however the ring wraps around reboots and failed writes.                 *)
HistoryIsNewest == saved = Newest(expected, HistoryCap)

(* A latched alarm closes the water, also when it fired while the valve was *)
(* opening and refused the command, or the water was turned on afterwards.  *)
LatchedCloses == alarm.active ~> (water = "Off" \/ ~alarm.active)
=============================================================================
