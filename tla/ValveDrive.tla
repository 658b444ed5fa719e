----------------------------- MODULE ValveDrive -----------------------------
(***************************************************************************)
(* The valve as the firmware drives it, in real time.                       *)
(*                                                                         *)
(*  - the tick thread (firmware/src/main.rs) calls App::tick, which reads   *)
(*    the clock, ticks the valve under its lock, saves the user-visible     *)
(*    state to NVS when it changed, and then writes the three GPIO pins     *)
(*    one after the other;                                                  *)
(*  - any number of commanders (the two HTTP servers, MQTT, the serial      *)
(*    console, the flow alarm) call App::switch_command, which reads the    *)
(*    clock BEFORE it takes the valve's lock;                               *)
(*  - a configuration change calls WaterValve::set_timing at any moment;    *)
(*  - the device may crash between any two of these steps and reboot.       *)
(*                                                                         *)
(* The clock is real time.  A reboot restarts the program's monotonic       *)
(* clock, but it also forgets every time stamp taken before, so measuring   *)
(* on from the same origin is the same behaviour.                           *)
(***************************************************************************)
EXTENDS WaterValve, Integers, FiniteSets

CONSTANTS
  Commanders,  \* concurrent callers of App::switch_command
  Timings,     \* the ValveTiming values the configuration may hold
  CmdLag,      \* longest time from a command's clock read to its lock
  TickLag,     \* longest time from a tick's clock read to its last pin write
  TickGap,     \* longest time between the clock reads of two ticks
  MaxMotor,    \* longest motor_run a configuration may hold
  MaxClock     \* bound on the modelled time

ASSUME TimingsAssumption ==
  /\ Timings \subseteq ValveTiming /\ Timings # {}
  /\ MaxMotor \in Nat /\ \A t \in Timings : t.motor_run <= MaxMotor

ASSUME LagAssumption ==
  /\ CmdLag \in Nat /\ TickLag \in Nat /\ TickGap \in Nat /\ MaxClock \in Nat
  /\ TickLag <= TickGap

VARIABLES
  clock,      \* real time
  valve,      \* AppInner::valve
  pins,       \* the GPIO outputs that are high
  tick,       \* the tick thread: its next step, its `now`, its TickOutputs
  cmd,        \* per commander: its next step, its `now`, the command
  nvs,        \* NVS key wc.valve
  persisted,  \* AppInner::last_persisted_valve
  roseAt,     \* history: when each motor pin last went high ...
  fellAt,     \* ... and when it last went low
  retimed     \* history: the timing changed under the current sequence

history == <<roseAt, fellAt, retimed>>
vars == <<clock, valve, pins, tick, cmd, nvs, persisted, history>>

Saved == {"none", "off", "on"}
AsByte(on) == IF on THEN "on" ELSE "off"

PinStep  == Outputs     \* the three pin writes are steps named after the pin
TickStep == {"sleep", "valve", "persist"} \cup PinStep
NoCmd    == [pc |-> "none", now |-> 0, on |-> FALSE]

TypeOK ==
  /\ clock \in Nat
  /\ valve \in Valve /\ valve.timing \in Timings
  /\ pins \subseteq Outputs
  /\ tick \in [pc : TickStep, now : Nat, out : SUBSET Outputs]
  /\ cmd \in [Commanders -> [pc : {"none", "lock"}, now : Nat, on : BOOLEAN]]
  /\ nvs \in Saved /\ persisted \in Saved
  /\ roseAt \in [Motors -> Nat] /\ fellAt \in [Motors -> Nat]
  /\ retimed \in BOOLEAN

(* App::with_nvs builds the valve from the stored configuration and, when    *)
(* there is one, the stored state.                                          *)
BootValve(t, saved) ==
  IF saved = "none" THEN WithTiming(t) ELSE Restore(WithTiming(t), saved = "on")

Init ==
  /\ clock = 0
  /\ nvs \in Saved /\ persisted = nvs
  /\ \E t \in Timings : valve = BootValve(t, nvs)
  /\ pins = {}
  /\ tick = [pc |-> "sleep", now |-> 0, out |-> {}]
  /\ cmd = [c \in Commanders |-> NoCmd]
  /\ roseAt = [m \in Motors |-> 0] /\ fellAt = [m \in Motors |-> 0]
  /\ retimed = FALSE

-----------------------------------------------------------------------------
(* Time passes, but no thread is starved beyond its bound.                  *)
Advance ==
  /\ clock < MaxClock
  /\ clock < tick.now + TickGap
  /\ tick.pc # "sleep" => clock < tick.now + TickLag
  /\ \A c \in Commanders : cmd[c].pc = "lock" => clock < cmd[c].now + CmdLag
  /\ clock' = clock + 1
  /\ UNCHANGED <<valve, pins, tick, cmd, nvs, persisted, history>>

(* App::switch_command(WaterControl): first the clock, ...                  *)
CmdRead(c, on) ==
  /\ cmd[c].pc = "none"
  /\ cmd' = [cmd EXCEPT ![c] = [pc |-> "lock", now |-> clock, on |-> on]]
  /\ UNCHANGED <<clock, valve, pins, tick, nvs, persisted, history>>

(* ... then the lock: Busy is returned and nothing changes while a sequence *)
(* is under way.                                                            *)
CommandedValve(v, on, now) ==
  IF IsBusy(v) THEN v
  ELSE IF on THEN TurnOn(v, now) ELSE TurnOff(v, now)

CmdExec(c) ==
  /\ cmd[c].pc = "lock"
  /\ valve' = CommandedValve(valve, cmd[c].on, cmd[c].now)
  /\ cmd' = [cmd EXCEPT ![c] = NoCmd]
  /\ retimed' = (retimed /\ IsBusy(valve))
  /\ UNCHANGED <<clock, pins, tick, nvs, persisted, roseAt, fellAt>>

(* App::replace_config_section, the part that reaches the valve.            *)
ReplaceTiming(t) ==
  /\ valve' = SetTiming(valve, t)
  /\ retimed' = (retimed \/ (IsBusy(valve) /\ t # valve.timing))
  /\ UNCHANGED <<clock, pins, tick, cmd, nvs, persisted, roseAt, fellAt>>

(* App::tick, up to the valve's lock.                                       *)
TickRead ==
  /\ tick.pc = "sleep"
  /\ tick' = [tick EXCEPT !.pc = "valve", !.now = clock]
  /\ UNCHANGED <<clock, valve, pins, cmd, nvs, persisted, history>>

TickValve ==
  /\ tick.pc = "valve"
  /\ valve' = Tick(valve, tick.now)
  /\ tick' = [tick EXCEPT !.pc = "persist",
                          !.out = TickOutputs(valve, tick.now)]
  /\ UNCHANGED <<clock, pins, cmd, nvs, persisted, history>>

\* Mutant of TickPersist: a failed write is taken for a done one.
PersistForgetsFailure(ok) ==
  LET byte == AsByte(valve.user_state) IN
  /\ tick.pc = "persist"
  /\ tick' = [tick EXCEPT !.pc = "open_motor"]
  /\ nvs' = IF persisted # byte /\ ok THEN byte ELSE nvs
  /\ persisted' = byte
  /\ UNCHANGED <<clock, valve, pins, cmd, history>>

\* Mutant of TickPersist: the state the sequence leads to is saved.
PersistTarget(ok) ==
  LET byte == AsByte(State(valve) \in {"On", "TurningOn"}) IN
  /\ tick.pc = "persist"
  /\ tick' = [tick EXCEPT !.pc = "open_motor"]
  /\ IF persisted # byte /\ ok
     THEN nvs' = byte /\ persisted' = byte
     ELSE UNCHANGED <<nvs, persisted>>
  /\ UNCHANGED <<clock, valve, pins, cmd, history>>

(* The NVS write at the end of App::tick; `ok` is whether it succeeds.  The *)
(* valve is locked again, so this is the state after any command that came  *)
(* in between.                                                              *)
TickPersist(ok) ==
  LET byte == AsByte(valve.user_state) IN
  /\ tick.pc = "persist"
  /\ tick' = [tick EXCEPT !.pc = "open_motor"]
  /\ IF persisted # byte /\ ok
     THEN nvs' = byte /\ persisted' = byte
     ELSE UNCHANGED <<nvs, persisted>>
  /\ UNCHANGED <<clock, valve, pins, cmd, history>>

(* The pin writes, in the order of the tick thread's loop.                  *)
AfterPin(p) == CASE p = "open_motor"  -> "close_motor"
                 [] p = "close_motor" -> "drain"
                 [] p = "drain"       -> "sleep"

\* The history of the motor pins follows every change of the pins.
RecordPins ==
  /\ roseAt' = [m \in Motors |->
                  IF m \in pins' \ pins THEN clock ELSE roseAt[m]]
  /\ fellAt' = [m \in Motors |->
                  IF m \in pins \ pins' THEN clock ELSE fellAt[m]]

SetPin(p) ==
  /\ tick.pc = p
  /\ pins' = IF p \in tick.out THEN pins \cup {p} ELSE pins \ {p}
  /\ tick' = [tick EXCEPT !.pc = AfterPin(p), !.out = @ \ {p}]
  /\ RecordPins
  /\ UNCHANGED <<clock, valve, cmd, nvs, persisted, retimed>>

(* A crash or power loss, and the boot after it: the pins drop and every    *)
(* thread is gone.                                                          *)
Crash(t) ==
  /\ pins' = {}
  /\ valve' = BootValve(t, nvs)
  /\ tick' = [pc |-> "sleep", now |-> clock, out |-> {}]
  /\ cmd' = [c \in Commanders |-> NoCmd]
  /\ persisted' = nvs
  /\ RecordPins
  /\ retimed' = FALSE
  /\ UNCHANGED <<clock, nvs>>

Next ==
  \/ Advance
  \/ \E c \in Commanders, on \in BOOLEAN : CmdRead(c, on)
  \/ \E c \in Commanders : CmdExec(c)
  \/ \E t \in Timings : ReplaceTiming(t)
  \/ TickRead
  \/ TickValve
  \/ \E ok \in BOOLEAN : TickPersist(ok)
  \/ \E p \in PinStep : SetPin(p)
  \/ \E t \in Timings : Crash(t)

Spec == Init /\ [][Next]_vars

-----------------------------------------------------------------------------
(* Correctness.                                                             *)

Opposite(m) == IF m = "open_motor" THEN "close_motor" ELSE "open_motor"

(* The two coils are never energised together, not even between two pin     *)
(* writes of one tick: the electrical hazard named in the header of         *)
(* water_valve.rs.                                                          *)
NeverBothMotors == ~(Motors \subseteq pins)

(* An energised coil finds the opposite one off for at least the settle     *)
(* window, less what a stale `now` (CmdLag) and a late pin write (TickLag)  *)
(* can take from it -- however late the ticks, whatever the timing is       *)
(* changed to, and across crashes.                                          *)
DeadTime ==
  \A m \in pins \cap Motors :
    clock + CmdLag + TickLag >= fellAt[Opposite(m)] + SettleMs

(* Both of these, and that nothing else ever touches the coils, as the      *)
(* implementation of an abstract interlock: every pin write, crash and time *)
(* step is a step the interlock allows.                                     *)
Interlock == INSTANCE MotorInterlock WITH
  Coils  <- Motors,
  Dead   <- IF SettleMs > CmdLag + TickLag
            THEN SettleMs - (CmdLag + TickLag) ELSE 0,
  driven <- pins \cap Motors

ImplementsInterlock == Interlock!Spec

(* The sequencer with its lock, its phases and its drain implements the     *)
(* four-state water control the rest of the program is written against.     *)
Abstract == INSTANCE AbstractValve WITH
  state  <- State(valve),
  stored <- nvs

ImplementsAbstractValve == Abstract!Spec

(* The drain is off whenever a coil is energised: a drain that is cut over  *)
(* to an opening is switched off during the settle window.                  *)
DrainOffWhileMoving == "drain" \in pins => pins \cap Motors = {}

(* A coil is never energised for longer than one pulse of the longest       *)
(* configured length, plus the tick's own delays.                           *)
CoilOnTime ==
  \A m \in pins \cap Motors :
    clock <= roseAt[m] + MaxMotor + TickGap + TickLag

\* The longest pulse of the sequence under way: its own, unless the timing
\* was changed under it.
LongestPulse == IF retimed THEN MaxMotor ELSE valve.timing.motor_run

(* A sequence, during which every command is refused, is over in time: the  *)
(* valve cannot be stuck busy.                                              *)
SequenceBounded ==
  IsBusy(valve) =>
    clock <= valve.start_ms + SettleMs + LongestPulse + SettleMs
             + TickGap + TickLag

SequenceCompletes == TickValve /\ IsBusy(valve) /\ ~IsBusy(valve')

PulseWasDriven ==
  LET m == IF valve.phase = "TurningOn" THEN "open_motor" ELSE "close_motor"
  IN /\ m \notin pins
     /\ roseAt[m] >= valve.start_ms + SettleMs
     /\ fellAt[m] + TickGap + TickLag >= roseAt[m] + valve.timing.motor_run

(* When a sequence is reported complete the coil really has been driven for *)
(* the configured time, up to the tick's delays, and is off again -- unless *)
(* the configuration was changed under the sequence, or asks for a pulse    *)
(* too short for a tick to see.                                             *)
PulseDelivered ==
  [][(SequenceCompletes /\ ~retimed
        /\ valve.timing.motor_run > TickGap + TickLag) => PulseWasDriven]_vars

(* A failed NVS write is not taken for a done one: as long as NVS holds     *)
(* something else than the valve's state, the next tick writes again.       *)
FailedSaveIsRetried ==
  (tick.pc = "sleep" /\ nvs # AsByte(valve.user_state))
    => persisted # AsByte(valve.user_state)
=============================================================================
