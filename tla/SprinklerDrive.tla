--------------------------- MODULE SprinklerDrive ---------------------------
(***************************************************************************)
(* One sprinkler as the firmware drives it, in real time: the tick thread   *)
(* of ValveDrive ticks the TimedSwitch, reads it AGAIN a few locks later,   *)
(* and writes what it read to the pin at the end; App::switch_command and   *)
(* App::fire_schedule_sprinkler read the clock before they take the         *)
(* switch's lock; a configuration change replaces the auto-off time under   *)
(* a running activation; the device may crash and reboot.  The two          *)
(* sprinklers have a lock each and share nothing but the tick.              *)
(***************************************************************************)
EXTENDS TimedSwitch

CONSTANTS
  Callers,   \* concurrent callers of switch_command, fire_schedule_sprinkler
  Limits,    \* configured auto-off times: {} for none, or {d}
  Overrides, \* the duration_secs of schedule rules: {} for none, or {d}
  CmdLag,    \* longest time from a command's clock read to its lock
  TickLag,   \* longest time from a tick's clock read to its pin write
  TickGap,   \* longest time between the clock reads of two ticks
  MaxClock   \* bound on the modelled time

ASSUME SprinklerAssumption ==
  /\ Limits \subseteq Limit /\ Overrides \subseteq Limit
  /\ CmdLag \in Nat /\ TickLag \in Nat /\ TickGap \in Nat /\ MaxClock \in Nat
  /\ TickLag <= TickGap

VARIABLES
  clock,     \* real time
  sw,        \* AppInner::sprinkler1 (or 2)
  pin,       \* the GPIO output
  tick,      \* the tick thread: its next step, its `now`, the s1_on it read
  cmd,       \* per caller: its next step, its `now`, its command
  changedAt, \* history: when sw.on last changed
  limitedAt  \* history: when the auto-off time was last configured

vars == <<clock, sw, pin, tick, cmd, changedAt, limitedAt>>

Command == [on : BOOLEAN, override : Limit]
NoCmd   == [pc |-> "none", now |-> 0,
            do |-> [on |-> FALSE, override |-> {}]]

TypeOK ==
  /\ clock \in Nat /\ sw \in Switch /\ pin \in BOOLEAN
  /\ tick \in [pc : {"sleep", "switch", "mirror", "pin"}, now : Nat,
               on : BOOLEAN]
  /\ cmd \in [Callers -> [pc : {"none", "lock"}, now : Nat, do : Command]]
  /\ changedAt \in Nat /\ limitedAt \in Nat

Init ==
  /\ clock = 0
  /\ \E l \in Limits : sw = New(l)
  /\ pin = FALSE
  /\ tick = [pc |-> "sleep", now |-> 0, on |-> FALSE]
  /\ cmd = [c \in Callers |-> NoCmd]
  /\ changedAt = 0 /\ limitedAt = 0

-----------------------------------------------------------------------------
\* The history follows every change of the switch.
RecordChange == changedAt' = IF sw'.on # sw.on THEN clock ELSE changedAt

(* Time passes, but no thread is starved beyond its bound.                  *)
Advance ==
  /\ clock < MaxClock
  /\ clock < tick.now + TickGap
  /\ tick.pc # "sleep" => clock < tick.now + TickLag
  /\ \A c \in Callers : cmd[c].pc = "lock" => clock < cmd[c].now + CmdLag
  /\ clock' = clock + 1
  /\ UNCHANGED <<sw, pin, tick, cmd, changedAt, limitedAt>>

(* switch_command(Sprinkler) and fire_schedule_sprinkler: the clock, ...    *)
CmdRead(c, do) ==
  /\ cmd[c].pc = "none"
  /\ cmd' = [cmd EXCEPT ![c] = [pc |-> "lock", now |-> clock, do |-> do]]
  /\ UNCHANGED <<clock, sw, pin, tick, changedAt, limitedAt>>

Manual    == [on : BOOLEAN, override : {{}}]
Scheduled == [on : {TRUE}, override : Overrides]

(* ... then the lock.                                                       *)
Commanded(s, do, now) ==
  IF do.on THEN TurnOn(s, now, do.override) ELSE TurnOff(s)

CmdExec(c) ==
  /\ cmd[c].pc = "lock"
  /\ sw' = Commanded(sw, cmd[c].do, cmd[c].now)
  /\ cmd' = [cmd EXCEPT ![c] = NoCmd]
  /\ RecordChange
  /\ UNCHANGED <<clock, pin, tick, limitedAt>>

(* App::replace_config_section, the part that reaches the switch.           *)
ReplaceLimit(l) ==
  /\ sw' = SetAutoOff(sw, l)
  /\ limitedAt' = clock
  /\ UNCHANGED <<clock, pin, tick, cmd, changedAt>>

TickRead ==
  /\ tick.pc = "sleep"
  /\ tick' = [pc |-> "switch", now |-> clock, on |-> FALSE]
  /\ UNCHANGED <<clock, sw, pin, cmd, changedAt, limitedAt>>

TickSwitch ==
  /\ tick.pc = "switch"
  /\ sw' = Tick(sw, tick.now)
  /\ tick' = [tick EXCEPT !.pc = "mirror"]
  /\ RecordChange
  /\ UNCHANGED <<clock, pin, cmd, limitedAt>>

(* The state is read again, so a command that came in between counts.       *)
TickMirror ==
  /\ tick.pc = "mirror"
  /\ tick' = [tick EXCEPT !.pc = "pin", !.on = sw.on]
  /\ UNCHANGED <<clock, sw, pin, cmd, changedAt, limitedAt>>

\* Mutant of TickPin: the pin is raised but never lowered.
RaisePin ==
  /\ tick.pc = "pin"
  /\ pin' = (pin \/ tick.on)
  /\ tick' = [tick EXCEPT !.pc = "sleep", !.on = FALSE]
  /\ UNCHANGED <<clock, sw, cmd, changedAt, limitedAt>>

TickPin ==
  /\ tick.pc = "pin"
  /\ pin' = tick.on
  /\ tick' = [tick EXCEPT !.pc = "sleep", !.on = FALSE]
  /\ UNCHANGED <<clock, sw, cmd, changedAt, limitedAt>>

(* A crash and the boot after it: the switch starts off.                    *)
Crash(l) ==
  /\ pin' = FALSE
  /\ sw' = New(l)
  /\ tick' = [pc |-> "sleep", now |-> clock, on |-> FALSE]
  /\ cmd' = [c \in Callers |-> NoCmd]
  /\ RecordChange
  /\ limitedAt' = clock
  /\ UNCHANGED clock

Next ==
  \/ Advance
  \/ \E c \in Callers, do \in Manual \cup Scheduled : CmdRead(c, do)
  \/ \E c \in Callers : CmdExec(c)
  \/ \E l \in Limits : ReplaceLimit(l)
  \/ TickRead \/ TickSwitch \/ TickMirror \/ TickPin
  \/ \E l \in Limits : Crash(l)

Spec == Init /\ [][Next]_vars

-----------------------------------------------------------------------------
(* Correctness.                                                             *)

Larger(a, b) == IF a > b THEN a ELSE b

(* A sprinkler with a time limit is switched off in time, whether the limit *)
(* is configured or came with the schedule rule, also when it was shortened *)
(* under the running activation, and whatever commands repeat meanwhile.    *)
RunIsLimited ==
  sw.on =>
    \A d \in EffectiveLimit(sw) :
      clock <= Larger(changedAt + d, limitedAt) + TickGap + TickLag

(* The water follows the switch: once the switch has been left alone for a  *)
(* tick and its delays, the pin has its value -- no update is lost between  *)
(* the tick of the switch, the second read and the pin write.               *)
PinFollowsSwitch ==
  clock > changedAt + TickGap + TickLag => pin = sw.on

(* The timer never cuts a run short: when it switches the sprinkler off,    *)
(* the limit in force has passed since it was switched on, up to the time   *)
(* a command may wait for the lock.                                         *)
NotCutShort ==
  [][(TickSwitch /\ sw.on /\ ~sw'.on) =>
       \A d \in EffectiveLimit(sw) : clock + CmdLag >= changedAt + d]_vars
=============================================================================
