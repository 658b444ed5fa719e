------------------------------ MODULE Schedule ------------------------------
(***************************************************************************)
(* The cron-like schedule: Schedule::evaluate_range of                      *)
(* crates/core/src/schedule.rs, and the task that calls it every 30 s       *)
(* (spawn_schedule_task in firmware/src/main.rs, schedule_task in           *)
(* firmware-nostd/src/schedule.rs) and fires what falls due, over a local   *)
(* wall clock that an SNTP sync or a change of daylight saving time may     *)
(* step.  The water control it commands is AbstractValve, which refuses     *)
(* commands while a sequence is under way, and which others command, too;   *)
(* a sequence may be longer than the task's sleep.                          *)
(*                                                                         *)
(* Local time is a number of units since midnight of some Monday, Minute    *)
(* units to a minute; the calendar's sizes are parameters.                  *)
(***************************************************************************)
EXTENDS Integers, Selection

CONSTANTS
  Rules,      \* cfg.schedule.rules, a sequence of rules
  Minute,     \* time units in a minute
  Hour, Day,  \* minutes in an hour, hours in a day
  MaxIters,   \* evaluate_range's cap of 25 * 60 minutes
  Periods,    \* possible times between two evaluations: 30 s and a little
  LongestMove,\* longest sequence of the valve (ValveDrive!SequenceBounded);
              \* motor_run_secs, which nothing limits, is most of it
  Steps,      \* by how much the local clock may be stepped
  MaxSteps,   \* bound on the number of steps
  MaxLocal    \* bound on the modelled local time

Rule ==
  [enabled : BOOLEAN, hours : SUBSET Nat, minutes : SUBSET Nat,
   days_of_week : SUBSET Nat,
   action : [kind : {"switch"}] \cup [kind : {"water_control"}, on : BOOLEAN]]

Calendar ==
  /\ Rules \in Seq(Rule)
  /\ Minute \in Nat \ {0} /\ Hour \in Nat \ {0} /\ Day \in Nat \ {0}
  /\ MaxIters \in Nat /\ LongestMove \in Nat
  /\ Periods \subseteq Nat /\ Steps \subseteq Int
  /\ MaxSteps \in Nat
  /\ MaxLocal \in Nat /\ Minute <= MaxLocal

ASSUME CalendarAssumption == Calendar

VARIABLES
  local,         \* the local wall clock
  last,          \* last_local
  hits,          \* the rules still to be fired, with the minute each is due
  water,         \* the valve (AbstractValve)
  slept,         \* how much of the task's sleep is over
  since,         \* real time since the valve was last set moving, up to
                 \* LongestMove + 1
  wanted,        \* history: the last water-control action fired, if no other
                 \* command has moved the valve after it
  tooSoon,       \* history: it came before LongestMove was over
  fired,         \* history: the hits fired so far, in order
  steps,         \* history: steps of the clock so far
  from           \* history: where the evaluated time begins

scheduleVars ==
  <<local, last, hits, water, slept, since, wanted, tooSoon, fired, steps, from>>

\* What the valve stores is left out: only a reboot reads it, which restarts
\* the task as well.
Water == INSTANCE AbstractValve WITH state <- water, stored <- "none"

-----------------------------------------------------------------------------
(* Rule::matches_minute, and the window of evaluate_range.                  *)

RuleIds == DOMAIN Rules

\* Minutes are counted from the same midnight as units are.
FloorToMinute(t) == t \div Minute

Matches(rule, m) ==
  /\ rule.enabled
  /\ (m \div Hour) % Day \in rule.hours
  /\ m % Hour \in rule.minutes
  /\ rule.days_of_week # {} => (m \div (Hour * Day)) % 7 \in rule.days_of_week

\* The rules that fall due in minute m, in the order of the configuration.
DueAt(m) ==
  SelectIn([i \in RuleIds |-> [rule |-> i, minute |-> m]],
           {hit \in [rule : RuleIds, minute : {m}] : Matches(Rules[hit.rule], m)})

\* The loop of evaluate_range: minute by minute from t to end, at most n.
Scan(t, end, n) ==
  LET iters == IF end - t + 1 < n THEN end - t + 1 ELSE n
  IN  Joined([i \in 1 .. iters |-> DueAt(t + i - 1)])

\* Mutant of EvaluateRange: the window includes its left end.
FromInclusive(from_, to) ==
  IF to <= from_ THEN <<>>
  ELSE Scan(FloorToMinute(from_), FloorToMinute(to), MaxIters)

EvaluateRange(from_, to) ==
  IF to <= from_ THEN <<>>
  ELSE Scan(FloorToMinute(from_) + 1, FloorToMinute(to), MaxIters)

-----------------------------------------------------------------------------
\* The minutes the model can reach.
Minutes == 0 .. FloorToMinute(MaxLocal)

Hit == [rule : RuleIds, minute : Minutes]

OfWater(hit) == Rules[hit.rule].action.kind = "water_control"

ScheduleInit ==
  /\ local \in 0 .. Minute /\ last = local /\ from = local
  /\ hits = <<>> /\ fired = <<>>
  /\ water \in {"Off", "On"}
  /\ slept = 0 /\ since = LongestMove + 1
  /\ wanted = "none" /\ tooSoon = FALSE
  /\ steps = 0

Moving == water \in {"TurningOn", "TurningOff"}

(* The task sleeps.  A sequence of the valve is over after LongestMove.     *)
Sleep ==
  /\ hits = <<>> /\ \E p \in Periods : slept < p
  /\ Moving => since < LongestMove
  /\ slept' = slept + 1
  /\ since' = IF since > LongestMove THEN since ELSE since + 1
  /\ UNCHANGED <<local, last, hits, water, wanted, tooSoon, fired, steps, from>>

(* It has slept for p, reads the clock and collects the rules that fall due *)
(* since the time it read before, whatever the valve is doing.  last_local  *)
(* is assigned after the hits are fired, to the time read here.             *)
Evaluate(p) ==
  /\ hits = <<>> /\ slept = p
  /\ local + p <= MaxLocal
  /\ local' = local + p
  /\ hits' = EvaluateRange(last, local')
  /\ last' = local'
  /\ slept' = 0
  /\ UNCHANGED <<water, since, wanted, tooSoon, fired, steps, from>>

\* Mutant of FireWater: what the action asks for is not looked at.
FireToggle(on) ==
  /\ IF water = "Off" THEN Water!TurnOn /\ since' = 0
     ELSE IF water = "On" THEN Water!TurnOff /\ since' = 0
     ELSE UNCHANGED <<water, since>>
  /\ wanted' = IF on THEN "on" ELSE "off"
  /\ tooSoon' = (since <= LongestMove)

\* A command that moves the valve.
Moves(on) ==
  /\ IF on THEN Water!TurnOn ELSE Water!TurnOff
  /\ since' = 0

(* One rule is fired.  What switch_command answers, that the valve is busy  *)
(* above all, is ignored.                                                   *)
FireWater(on) ==
  /\ \/ Moves(on)
     \/ /\ water # IF on THEN "Off" ELSE "On"
        /\ UNCHANGED <<water, since>>
  /\ wanted' = IF on THEN "on" ELSE "off"
  /\ tooSoon' = (since <= LongestMove)

FireNext ==
  LET hit == Head(hits)
      action == Rules[hit.rule].action
  IN /\ hits # <<>>
     /\ hits' = Tail(hits)
     /\ fired' = Append(fired, hit)
     /\ IF OfWater(hit) THEN FireWater(action.on)
        ELSE UNCHANGED <<water, since, wanted, tooSoon>>
     /\ UNCHANGED <<local, last, slept, steps, from>>

(* The local clock is stepped by an SNTP sync or a daylight saving change   *)
(* (a step while hits are fired is one after them: firing reads no clock).  *)
StepClock(d) ==
  /\ hits = <<>> /\ steps < MaxSteps
  /\ local + d \in 0 .. MaxLocal
  /\ local' = local + d
  /\ steps' = steps + 1
  /\ UNCHANGED <<last, hits, water, slept, since, wanted, tooSoon, fired, from>>

(* The tick thread: a sequence of the valve ends.                           *)
ValveTick ==
  /\ Water!Complete
  /\ UNCHANGED <<local, last, hits, slept, since, wanted, tooSoon, fired, steps, from>>

(* The user, the broker or the flow alarm moves the valve, at any moment.   *)
OtherCommand(on) ==
  /\ Moves(on)
  /\ wanted' = "none"
  /\ UNCHANGED <<local, last, hits, slept, tooSoon, fired, steps, from>>

ScheduleNext ==
  \/ Sleep
  \/ \E p \in Periods : Evaluate(p)
  \/ FireNext
  \/ \E d \in Steps : StepClock(d)
  \/ ValveTick
  \/ \E on \in BOOLEAN : OtherCommand(on)

ScheduleSpec == ScheduleInit /\ [][ScheduleNext]_scheduleVars

-----------------------------------------------------------------------------
(* Correctness.                                                             *)

\* The hits whose minute begins after a and not after b.
DueBetween(a, b) ==
  {hit \in Hit : /\ Matches(Rules[hit.rule], hit.minute)
                 /\ a < hit.minute * Minute /\ hit.minute * Minute <= b}

(* No firing is lost, invented or repeated: once the hits of an evaluation  *)
(* are fired, what has fired is exactly what fell due since the task        *)
(* started, once each, in spite of windows that begin and end inside a      *)
(* minute and of a clock stepped forward by less than evaluate_range's cap. *)
FiredOnce ==
  hits = <<>> =>
    /\ {fired[k] : k \in DOMAIN fired} = DueBetween(from, last)
    /\ \A k, l \in DOMAIN fired : fired[k] = fired[l] => k = l

(* What the schedule asked of the water control last is what the valve does *)
(* once it has settled, unless another command has moved it since.  The     *)
(* exception is the rule that falls due before the longest sequence from    *)
(* the valve's last movement is over, whoever moved it, in this window or   *)
(* an earlier one: it may be refused as busy, and nothing tries it again.   *)
WaterFollowsSchedule ==
  (wanted # "none" /\ ~tooSoon /\ ~Moving) => water = IF wanted = "on" THEN "On" ELSE "Off"
=============================================================================
