----------------------------- MODULE WaterMeter -----------------------------
(***************************************************************************)
(* The flow meter and the battery sensor, from the pulse counter's 16-bit  *)
(* register to the numbers of the device state.  Two programs read the     *)
(* same hardware and fold it differently, and fw says which one is flashed *)
(* on the device: "std" (the ESP-IDF firmware: EspPulseCounter::count and  *)
(* the sensor thread, which reads the register once per flow period) and   *)
(* "embassy" (the no_std firmware: sensor_task, which reads it every       *)
(* second).                                                                *)
(*                                                                         *)
(* One action is one pass of the sensor loop, d seconds after the pass     *)
(* before, with the n pulses that arrived in between.  Calibration and     *)
(* scaling are linear maps applied to the numbers kept here and are left   *)
(* out: a flow is a number of pulses per period, a battery sample is its   *)
(* position in the sequence of samples.                                    *)
(***************************************************************************)
EXTENDS Integers, Sequences

CONSTANTS
  Half,           \* 2^15: the register's values are those of an i16
  MaxStep,        \* most seconds between two passes of the sensor loop
  MaxPulses,      \* most pulses between two passes of the sensor loop
  FlowPeriod,     \* 60 s
  BatteryPeriod,  \* 600 s
  BatteryFirst,   \* 10 s: the embassy firmware's early first sample
  BatteryWindow,  \* 15 samples are averaged
  MaxNow          \* bound on time

ASSUME MeterAssumption ==
  /\ Half \in Nat /\ Half > 2
  /\ MaxStep \in Nat \ {0}
  /\ MaxPulses \in Nat /\ MaxPulses < Half
  /\ FlowPeriod \in Nat \ {0}
  /\ BatteryPeriod \in Nat \ {0}
  /\ BatteryFirst \in Nat
  /\ BatteryWindow \in Nat \ {0}
  /\ MaxNow \in Nat

VARIABLES
  fw,          \* the firmware the device runs
  now,         \* seconds since boot; the embassy loop counts its passes instead
  raw,         \* the register
  last_raw,    \* its value at the last read
  total,       \* the 64-bit total the program keeps
  last_count,  \* total at the last flow report
  last_flow,   \* time of the last flow report, 0 for none yet
  bat,         \* the battery window: [samples, len, pos, last, taken]
  sensors      \* what the device state shows: [flow, battery]

\* What really happened, for the properties only.
VARIABLES
  seen,        \* pulses up to the last read that succeeded
  unread,      \* pulses since then
  good_raw,    \* the register at that read
  lapped,      \* the register has started again from 0 since then
  allowance,   \* how far the total may lie above seen
  reports      \* the last flow report against the truth: [real, lap, ok, at]

device == <<fw, now, raw, last_raw, total, last_count, last_flow, bat, sensors>>
truth == <<seen, unread, good_raw, lapped, allowance, reports>>
meterVars == <<device, truth>>

-----------------------------------------------------------------------------
(* The hardware.                                                           *)

\* counter_h_lim of the std firmware: the register restarts from 0 when it
\* gets there.  The embassy firmware sets no limit: the register is an i16
\* that wraps to its negative end.
HighLimit == Half - 1

Wraps(n) == IF fw = "std" THEN raw + n >= HighLimit ELSE raw + n >= Half

Counted(n) ==
  IF ~Wraps(n) THEN raw + n
  ELSE IF fw = "std" THEN raw + n - HighLimit ELSE raw + n - 2 * Half

\* n pulses arrive; fewer than a whole lap of the register between two reads
\* that succeed, which a pipe of this size cannot exceed.
Pulses(n) ==
  /\ unread + n < HighLimit
  /\ raw' = Counted(n)

-----------------------------------------------------------------------------
(* EspPulseCounter::count: the delta of one read.  A read that fails       *)
(* counts as 0.                                                            *)

\* Mutant of CountDelta: a register that restarted is taken for a new count.
CountForgetsLap(last, r) ==
  IF r >= last THEN r - last ELSE r

CountDelta(last, r) ==
  IF r >= last THEN r - last ELSE HighLimit - last + r + 1

\* Mutant of WrappingSub: plain subtraction.
PlainSub(a, b) == a - b

\* i16::wrapping_sub
WrappingSub(a, b) ==
  LET d == a - b
  IN  IF d < -Half THEN d + 2 * Half ELSE IF d >= Half THEN d - 2 * Half ELSE d

-----------------------------------------------------------------------------
(* The battery window: a queue of at most BatteryWindow samples in the std *)
(* firmware, an array written round and round in the embassy one.          *)

Taken == bat.taken + 1

PushBattery ==
  LET grown == Append(bat.samples, Taken)
  IN  IF Len(grown) > BatteryWindow THEN Tail(grown) ELSE grown

\* Mutant of PutBattery: the position does not move on.
PutInPlace ==
  [samples |-> [bat.samples EXCEPT ![bat.pos + 1] = Taken],
   pos     |-> bat.pos,
   len     |-> IF bat.len < BatteryWindow THEN bat.len + 1 ELSE bat.len]

PutBattery ==
  [samples |-> [bat.samples EXCEPT ![bat.pos + 1] = Taken],
   pos     |-> (bat.pos + 1) % BatteryWindow,
   len     |-> IF bat.len < BatteryWindow THEN bat.len + 1 ELSE bat.len]

Averaged(b) == {b.samples[i] : i \in 1..b.len}

-----------------------------------------------------------------------------
MeterInit ==
  /\ fw \in {"std", "embassy"}
  /\ now = 0
  /\ raw = 0
  /\ last_raw = 0
  /\ total = 0
  /\ last_count = 0
  /\ last_flow = 0
  /\ bat = [samples |-> IF fw = "std" THEN <<>> ELSE [i \in 1..BatteryWindow |-> 0],
            len |-> 0, pos |-> 0, last |-> 0, taken |-> 0]
  /\ sensors = [flow |-> 0, battery |-> {}]
  /\ seen = 0
  /\ unread = 0
  /\ good_raw = 0
  /\ lapped = FALSE
  /\ allowance = 0
  /\ reports = [real |-> 0, lap |-> FALSE, ok |-> TRUE, at |-> 0]

-----------------------------------------------------------------------------
(* The std sensor thread.                                                  *)

StdBatteryDue(t) == t - bat.last >= BatteryPeriod \/ bat.last = 0

StdFlowDue(t) == t - last_flow >= FlowPeriod \/ last_flow = 0

StdBattery(t) ==
  IF StdBatteryDue(t)
  THEN LET w == PushBattery
       IN  [samples |-> w, len |-> Len(w), pos |-> 0, last |-> t, taken |-> Taken]
  ELSE bat

\* A pass that is not due for a flow report leaves the register alone.
StdIdlePass(d, n) ==
  /\ fw = "std"
  /\ Pulses(n)
  /\ ~StdFlowDue(now + d)
  /\ now' = now + d
  /\ bat' = StdBattery(now + d)
  /\ sensors' = [sensors EXCEPT !.battery = Averaged(bat')]
  /\ unread' = unread + n
  /\ lapped' = (lapped \/ Wraps(n))
  /\ UNCHANGED <<fw, last_raw, total, last_count, last_flow,
                 seen, good_raw, allowance, reports>>

\* A flow report: count() is the only read of the register, and it may fail.
StdFlowPass(d, n, ok) ==
  /\ fw = "std"
  /\ Pulses(n)
  /\ StdFlowDue(now + d)
  /\ now' = now + d
  /\ bat' = StdBattery(now + d)
  /\ last_raw' = IF ok THEN raw' ELSE 0
  /\ total' = total + CountDelta(last_raw, last_raw')
  /\ last_count' = total'
  /\ last_flow' = now + d
  /\ sensors' = [flow |-> total' - last_count, battery |-> Averaged(bat')]
  /\ IF ok
     THEN /\ seen' = seen + unread + n
          /\ unread' = 0
          /\ good_raw' = raw'
          /\ lapped' = FALSE
          /\ allowance' = IF lapped \/ Wraps(n) THEN allowance + 1 ELSE allowance
     ELSE /\ unread' = unread + n
          /\ lapped' = (lapped \/ Wraps(n))
          /\ allowance' = allowance + Half
          /\ UNCHANGED <<seen, good_raw>>
  /\ reports' = [real |-> unread + n, lap |-> lapped \/ Wraps(n),
                 ok |-> ok /\ last_raw = good_raw, at |-> seen']
  /\ UNCHANGED fw

-----------------------------------------------------------------------------
(* The embassy sensor task: now counts the passes of its loop.             *)

EmbassyBatteryDue(s) == s = BatteryFirst \/ s % BatteryPeriod = 0

EmbassyBattery(s) ==
  IF EmbassyBatteryDue(s)
  THEN LET p == PutBattery
       IN  [samples |-> p.samples, len |-> p.len, pos |-> p.pos, last |-> s,
            taken |-> Taken]
  ELSE bat

EmbassyPass(n) ==
  /\ fw = "embassy"
  /\ Pulses(n)
  /\ now' = now + 1
  /\ last_raw' = raw'
  /\ LET delta == WrappingSub(raw', last_raw)
     IN  total' = IF delta > 0 THEN total + delta ELSE total
  /\ bat' = EmbassyBattery(now')
  /\ IF now' % FlowPeriod = 0
     THEN /\ sensors' = [flow |-> total' - last_count, battery |-> Averaged(bat')]
          /\ last_count' = total'
          /\ last_flow' = now'
          /\ reports' = [real |-> seen + n - reports.at, lap |-> FALSE, ok |-> TRUE,
                         at |-> seen + n]
     ELSE /\ sensors' = [sensors EXCEPT !.battery = Averaged(bat')]
          /\ UNCHANGED <<last_count, last_flow, reports>>
  /\ seen' = seen + n
  /\ good_raw' = raw'
  /\ UNCHANGED <<fw, unread, lapped, allowance>>

Pass ==
  \E d \in 1..MaxStep, n \in 0..MaxPulses :
     /\ now + d <= MaxNow
     /\ \/ StdIdlePass(d, n)
        \/ \E ok \in BOOLEAN : StdFlowPass(d, n, ok)
        \/ d = 1 /\ EmbassyPass(n)

Done == now + 1 > MaxNow /\ UNCHANGED meterVars

MeterNext == Pass \/ Done

MeterSpec == MeterInit /\ [][MeterNext]_meterVars

-----------------------------------------------------------------------------
(* Properties.                                                             *)

\* No pulse is lost and none invented beyond what the reads explain: over
\* any number of turns of the 16-bit register, the total of count() is never
\* below the pulses seen, and above them by at most one for each restart of
\* the register (count() takes the lap for one longer than it is) and one lap
\* for each read that failed.  The embassy total is exact.
TotalIsTrue ==
  /\ seen <= total
  /\ total <= seen + allowance
  /\ fw = "embassy" => total = seen

\* A flow report is about the water of its own interval: the pulses shown are
\* the ones that came since the report before, plus one at most where the
\* register restarted, whenever neither of the two reads failed.
FlowIsReal ==
  reports.ok =>
    /\ sensors.flow >= reports.real
    /\ sensors.flow <= reports.real + (IF reports.lap THEN 1 ELSE 0)

\* The battery voltage shown is the mean of the newest samples, all of them
\* until the window is full, in both implementations of the window.
BatteryIsNewest ==
  sensors.battery =
    {k \in 1..bat.taken : k > bat.taken - BatteryWindow}
=============================================================================
