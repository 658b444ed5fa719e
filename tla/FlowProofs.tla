----------------------------- MODULE FlowProofs -----------------------------
(***************************************************************************)
(* Theorems about the flow of water: FlowAlarm, for every tick interval,    *)
(* duration, history size and set of clearers; and WaterMeter, for every    *)
(* width of the register, every period, window and number of pulses between *)
(* two passes.                                                              *)
(***************************************************************************)
EXTENDS FlowAlarm, WaterMeter, SequenceTheorems, TLAPS

-----------------------------------------------------------------------------
(* Arithmetic.                                                              *)

(* Multiplication by a natural number is monotone and distributes.          *)
LEMMA TimesMono ==
  ASSUME NEW a \in Nat, NEW b \in Nat, NEW s \in Nat, a <= b
  PROVE  a * s <= b * s
<1>1. PICK d \in Nat : b = a + d
  BY b - a \in Nat
<1>2. b * s = a * s + d * s
  BY <1>1
<1>3. a * s \in Nat /\ d * s \in Nat
  OBVIOUS
<1>4. QED BY <1>2, <1>3

(* What a count of whole seconds says about the time: it is not more than   *)
(* the time, and the time is less than one second more.                     *)
LEMMA WholeSecondsBounds ==
  ASSUME NEW g \in Nat
  PROVE  /\ WholeSeconds(g) \in Nat
         /\ WholeSeconds(g) * Second <= g
         /\ g < WholeSeconds(g) * Second + Second
         /\ g >= Second => WholeSeconds(g) >= 1
  BY AlarmAssumption DEF WholeSeconds

-----------------------------------------------------------------------------
(* The ring buffer.                                                         *)

(* Newest(s, n) has the last entries of s, at most n of them.               *)
LEMMA NewestProperties ==
  ASSUME NEW s \in Seq(Nat), NEW n \in Nat
  PROVE  /\ Newest(s, n) \in Seq(Nat)
         /\ Len(Newest(s, n)) = Least(Len(s), n)
         /\ \A i \in 1 .. Len(Newest(s, n)) :
              Newest(s, n)[i] = s[Len(s) - Least(Len(s), n) + i]
<1>0. Len(s) \in Nat
  BY LenProperties
<1>1. CASE Len(s) <= n
  <2>1. Newest(s, n) = s
    BY <1>1 DEF Newest
  <2>2. Least(Len(s), n) = Len(s)
    BY <1>0, <1>1 DEF Least
  <2>3. \A i \in 1 .. Len(s) : Len(s) - Len(s) + i = i
    BY <1>0
  <2>4. QED BY <2>1, <2>2, <2>3
<1>2. CASE Len(s) > n
  <2>1. Newest(s, n) = SubSeq(s, Len(s) - n + 1, Len(s))
    BY <1>0, <1>2 DEF Newest
  <2>2. Least(Len(s), n) = n
    BY <1>0, <1>2 DEF Least
  <2>3. /\ Len(s) - n + 1 \in 1 .. Len(s) + 1 /\ Len(s) \in Len(s) - n .. Len(s)
        /\ Len(s) - (Len(s) - n + 1) + 1 = n
    BY <1>0, <1>2
  <2>4. /\ Newest(s, n) \in Seq(Nat) /\ Len(Newest(s, n)) = n
        /\ \A i \in 1 .. n : Newest(s, n)[i] = s[Len(s) - n + 1 + i - 1]
    BY <1>0, <1>2, <2>1, <2>3, SubSeqProperties
  <2>5. \A i \in 1 .. n : Len(s) - n + 1 + i - 1 = Len(s) - n + i
    BY <1>0
  <2>6. QED BY <2>2, <2>4, <2>5
<1>3. QED BY <1>0, <1>1, <1>2

(* Recording an event in the ring keeps the newest entries of the list that *)
(* only grows.                                                              *)
LEMMA RingStep ==
  ASSUME NEW s \in Seq(Nat), NEW e \in Nat
  PROVE  RecordAlarmEvent(Newest(s, HistoryCap), e)
           = Newest(Append(s, e), HistoryCap)
<1> DEFINE h == Newest(s, HistoryCap)
           a == Append(s, e)
           l == RecordAlarmEvent(h, e)
           r == Newest(a, HistoryCap)
<1>1. /\ HistoryCap \in Nat /\ HistoryCap > 0 /\ Len(s) \in Nat
      /\ a \in Seq(Nat) /\ Len(a) = Len(s) + 1
  BY AlarmAssumption
<1>2. /\ h \in Seq(Nat) /\ Len(h) = Least(Len(s), HistoryCap)
      /\ \A i \in 1 .. Len(h) : h[i] = s[Len(s) - Len(h) + i]
  BY <1>1, NewestProperties
<1>3. /\ r \in Seq(Nat) /\ Len(r) = Least(Len(s) + 1, HistoryCap)
      /\ \A i \in 1 .. Len(r) : r[i] = a[Len(s) + 1 - Len(r) + i]
  <2>1. /\ r \in Seq(Nat) /\ Len(r) = Least(Len(a), HistoryCap)
        /\ \A i \in 1 .. Len(r) : r[i] = a[Len(a) - Least(Len(a), HistoryCap) + i]
    <3> HIDE DEF a
    <3>1. QED BY <1>1, NewestProperties
  <2>2. QED
    <3> HIDE DEF a, r
    <3>1. Len(r) = Least(Len(s) + 1, HistoryCap)
      BY <1>1, <2>1
    <3>2. Len(a) - Least(Len(a), HistoryCap) = Len(s) + 1 - Len(r)
      BY <1>1, <2>1
    <3>3. QED BY <2>1, <3>1, <3>2
<1>4. CASE Len(h) = HistoryCap
  <2>1. l = Append(Tail(h), e)
    BY <1>4 DEF RecordAlarmEvent
  <2>2. /\ Tail(h) \in Seq(Nat) /\ Len(Tail(h)) = HistoryCap - 1
        /\ \A i \in 1 .. HistoryCap - 1 : Tail(h)[i] = h[i + 1]
    BY <1>1, <1>2, <1>4
  <2>3. /\ l \in Seq(Nat) /\ Len(l) = HistoryCap
        /\ \A i \in 1 .. HistoryCap - 1 : l[i] = h[i + 1]
        /\ l[HistoryCap] = e
    BY <1>1, <2>1, <2>2
  <2>4. Len(r) = HistoryCap
    BY <1>1, <1>2, <1>3, <1>4 DEF Least
  <2>5. ASSUME NEW i \in 1 .. HistoryCap PROVE l[i] = r[i]
    <3>1. Len(s) >= HistoryCap
      BY <1>1, <1>2, <1>4 DEF Least
    <3>2. r[i] = a[Len(s) + 1 - HistoryCap + i]
      BY <1>3, <2>4
    <3>3. CASE i = HistoryCap
      <4>1. Len(s) + 1 - HistoryCap + i = Len(s) + 1
        BY <1>1, <3>3
      <4>2. QED BY <2>3, <3>2, <3>3, <4>1, AppendProperties
    <3>4. CASE i # HistoryCap
      <4>1. /\ i \in 1 .. HistoryCap - 1 /\ i + 1 \in 1 .. HistoryCap
            /\ Len(s) - HistoryCap + (i + 1) = Len(s) + 1 - HistoryCap + i
            /\ Len(s) + 1 - HistoryCap + i \in 1 .. Len(s)
        BY <1>1, <3>1, <3>4
      <4>2. l[i] = s[Len(s) + 1 - HistoryCap + i]
        BY <1>2, <1>4, <2>3, <4>1
      <4>3. QED BY <3>2, <4>1, <4>2, AppendProperties
    <3>5. QED BY <3>3, <3>4
  <2>6. QED BY <1>3, <2>3, <2>4, <2>5, SeqEqual
<1>5. CASE Len(h) # HistoryCap
  <2>1. Len(s) < HistoryCap /\ Len(h) = Len(s)
    BY <1>1, <1>2, <1>5 DEF Least
  <2>2. h = s /\ r = a
    BY <1>1, <2>1 DEF Newest
  <2>3. QED BY <1>5, <2>2 DEF RecordAlarmEvent
<1>6. QED BY <1>4, <1>5

-----------------------------------------------------------------------------
(* The types of the constants, without the arithmetic on them.              *)
LEMMA ConstantTypes ==
  /\ Second \in Nat /\ TickGaps \subseteq Nat /\ MaxGap \in Nat
  /\ Durations \subseteq Nat /\ MaxDuration \in Nat
  /\ MaxElapsed \in Nat /\ MaxStreak \in Nat
  /\ HistoryCap \in Nat /\ HistoryCap > 0
  /\ 0 \in 0 .. MaxElapsed /\ 0 \in 0 .. MaxStreak
  BY AlarmAssumption

(* Every step keeps every variable in its type.                             *)
LEMMA TypeStep == TypeOK /\ [Next]_vars => TypeOK'
<1> SUFFICES ASSUME TypeOK, [Next]_vars PROVE TypeOK'
  OBVIOUS
<1> USE ConstantTypes DEF valveVars, historyVars
<1>0. /\ tick.gap \in Nat /\ tick.delta \in Nat /\ alarm.elapsed \in 0 .. MaxElapsed
      /\ tick.gap \in TickGaps \cup {0}
  <2>1. /\ tick.gap \in TickGaps \cup {0} /\ tick.delta \in Nat
        /\ alarm.elapsed \in 0 .. MaxElapsed
    BY DEF TypeOK
  <2>2. \A g \in TickGaps \cup {0} : g \in Nat
    OBVIOUS
  <2>3. QED BY <2>1, <2>2, Zenon
<1>1. ASSUME NEW g \in TickGaps, TickValve(g) PROVE TypeOK'
  <2>1. water' \in Water!WaterState /\ stored' = stored
    BY <1>1 DEF TypeOK, TickValve, Water!Complete, Water!WaterState
  <2>2. QED BY <1>1, <2>1 DEF TypeOK, TickValve, TickStep
<1>2. ASSUME NEW b \in BOOLEAN, TickMirror(b) PROVE TypeOK'
  BY <1>2 DEF TypeOK, TickMirror, TickStep
<1>3. ASSUME NEW b \in BOOLEAN, NEW d \in Durations, EvalDelta(b, d) PROVE TypeOK'
  <2>1. WholeSeconds(tick.gap) \in Nat
    BY <1>0, WholeSecondsBounds
  <2>2. tick' \in [pc : TickStep, gap : TickGaps \cup {0}, delta : Nat,
                   duration : Durations \cup {0}, sprinkler : BOOLEAN,
                   water : Water!WaterState, above : BOOLEAN,
                   was_active : BOOLEAN]
    BY <1>0, <1>3, <2>1 DEF TypeOK, EvalDelta, TickStep
  <2>3. /\ alarm' \in [active : BOOLEAN, elapsed : 0 .. MaxElapsed]
        /\ streak' \in 0 .. MaxStreak
    <3>1. NoAlarm \in [active : BOOLEAN, elapsed : 0 .. MaxElapsed]
      BY DEF NoAlarm
    <3>2. CASE b
      BY <1>3, <3>2 DEF TypeOK, EvalDelta
    <3>3. CASE ~b
      BY <1>3, <3>1, <3>3 DEF EvalDelta
    <3>4. QED BY <3>2, <3>3
  <2>4. QED BY <1>3, <2>2, <2>3 DEF TypeOK, EvalDelta
<1>4. ASSUME NEW b \in BOOLEAN, EvalSnapshot(b) PROVE TypeOK'
  BY <1>4 DEF TypeOK, EvalSnapshot, TickStep
<1>5. CASE EvalUpdate
  <2>1. NewElapsed \in 0 .. MaxElapsed /\ JustFired \in BOOLEAN
    BY <1>0 DEF NewElapsed, Least, JustFired, TypeOK
  <2>2. streak' \in 0 .. MaxStreak
    BY <1>0, <1>5 DEF EvalUpdate, Least, TypeOK
  <2>3. alarm' \in [active : BOOLEAN, elapsed : 0 .. MaxElapsed]
    BY <1>5, <2>1 DEF EvalUpdate, TypeOK
  <2>4. QED
    BY <1>5, <2>2, <2>3 DEF EvalUpdate, TypeOK, Idle, TickStep, Water!WaterState
<1>6. ASSUME NEW ok \in BOOLEAN, Record(ok) PROVE TypeOK'
  <2>1. fires' \in Nat
    BY <1>6 DEF Record, TypeOK
  <2>2. saved' \in Seq(Nat) /\ expected' \in Seq(Nat)
    <3>1. saved # <<>> => Tail(saved) \in Seq(Nat)
      BY HeadTailProperties DEF TypeOK
    <3>2. Len(saved) = HistoryCap => saved # <<>>
      BY EmptySeq
    <3>3. QED
      BY <1>6, <2>1, <3>1, <3>2, AppendProperties
         DEF Record, RecordAlarmEvent, TypeOK
  <2>3. savedNvs' \in Seq(Nat)
    BY <1>6, <2>2 DEF Record, TypeOK
  <2>4. QED BY <1>6, <2>1, <2>2, <2>3 DEF Record, TypeOK, TickStep
<1>7. CASE Close
  <2>1. water' \in Water!WaterState /\ stored' = stored
    BY <1>7 DEF TypeOK, Close, Water!TurnOff, Water!WaterState
  <2>2. QED BY <1>7, <2>1 DEF TypeOK, Close, TickStep
<1>8. ASSUME NEW ok \in BOOLEAN, Persist(ok) PROVE TypeOK'
  <2>1. water' = water /\ stored' \in {"none", "off", "on"}
    BY <1>8 DEF TypeOK, Persist, Water!Save, Water!Settled
  <2>2. QED BY <1>8, <2>1 DEF TypeOK, Persist, Idle, TickStep, Water!WaterState
<1>9. ASSUME NEW c \in Clearers, ClearRead(c) \/ ClearUpdate(c) PROVE TypeOK'
  <2>1. CASE ClearRead(c)
    BY <2>1 DEF TypeOK, ClearRead
  <2>2. CASE ClearUpdate(c)
    <3>1. alarm' \in [active : BOOLEAN, elapsed : 0 .. MaxElapsed]
      BY <2>2 DEF ClearUpdate, NoAlarm
    <3>2. QED BY <2>2, <3>1 DEF TypeOK, ClearUpdate
  <2>3. QED BY <1>9, <2>1, <2>2
<1>10. CASE UserSwitch
  <2>1. water' \in Water!WaterState /\ stored' = stored
    BY <1>10 DEF TypeOK, UserSwitch, Water!TurnOn, Water!TurnOff, Water!WaterState
  <2>2. QED BY <1>10, <2>1 DEF TypeOK, UserSwitch
<1>11. CASE Crash
  <2>1. saved' \in Seq(Nat) /\ expected' \in Seq(Nat)
    BY <1>11, NewestProperties DEF Crash, TypeOK
  <2>2. water' \in Water!WaterState /\ stored' = stored
    BY <1>11 DEF TypeOK, Crash, Water!Reboot, Water!Boot, Water!WaterState
  <2>3. QED
    BY <1>11, <2>1, <2>2 DEF TypeOK, Crash, Idle, TickStep, Water!WaterState, NoAlarm
<1>12. CASE UNCHANGED vars
  BY <1>12 DEF TypeOK, vars
<1>13. QED
  BY <1>1, <1>2, <1>3, <1>4, <1>5, <1>6, <1>7, <1>8, <1>9, <1>10, <1>11, <1>12
     DEF Next, TickThread

-----------------------------------------------------------------------------
(* The invariants.                                                          *)

(* elapsed_secs never claims more time than has passed, and the seconds the *)
(* current evaluation is about to add are backed by the time since the one  *)
(* before.                                                                  *)
ElapsedInv ==
  /\ alarm.elapsed * Second <= streak
  /\ tick.pc \in {"snapshot", "update"} => tick.delta * Second <= tick.gap

(* Conversely, where every tick takes a second or more, elapsed_secs claims *)
(* at least half of the time that has passed; and the latch is set as soon  *)
(* as it claims enough, except for one evaluation that saw the latch set    *)
(* and was overtaken by a clear.                                            *)
LateInv ==
  /\ alarm.elapsed = MaxElapsed \/ streak <= 2 * (alarm.elapsed * Second)
  /\ tick.pc \in {"snapshot", "update"} =>
       tick.gap <= 2 * (tick.delta * Second)
  /\ (tick.pc = "update" /\ tick.was_active /\ ~alarm.active) => streak = 0
  /\ alarm.active \/ alarm.elapsed < MaxDuration \/ streak <= MaxGap

SlowTicks == \A g \in TickGaps : g >= Second

(* The inductive invariant.                                                 *)
Inv ==
  /\ TypeOK
  /\ ElapsedInv
  /\ HistoryIsNewest
  /\ SlowTicks => LateInv

(* The steps that leave alone everything the invariants on time are about:  *)
(* all but EvalDelta, EvalSnapshot, EvalUpdate, ClearUpdate and Crash.      *)
Untimed ==
  /\ alarm' = alarm /\ streak' = streak
  /\ tick' = tick \/ tick'.pc \notin {"snapshot", "update"}

LEMMA StepKinds ==
  ASSUME TypeOK, [Next]_vars
  PROVE  \/ Untimed
         \/ \E b \in BOOLEAN, d \in Durations : EvalDelta(b, d)
         \/ \E b \in BOOLEAN : EvalSnapshot(b)
         \/ EvalUpdate
         \/ alarm' = NoAlarm /\ streak' = 0
              /\ (tick' = tick \/ tick' = Idle)
<1>1. ASSUME NEW g \in TickGaps, TickValve(g) PROVE Untimed
  BY <1>1 DEF TypeOK, TickValve, Untimed
<1>2. ASSUME NEW b \in BOOLEAN, TickMirror(b) PROVE Untimed
  BY <1>2 DEF TypeOK, TickMirror, Untimed
<1>3. ASSUME NEW ok \in BOOLEAN, Record(ok) PROVE Untimed
  BY <1>3 DEF TypeOK, Record, Untimed
<1>4. ASSUME NEW ok \in BOOLEAN, Persist(ok) PROVE Untimed
  BY <1>4 DEF TypeOK, Persist, Untimed, Idle
<1>5. ASSUME Close PROVE Untimed
  BY <1>5 DEF TypeOK, Close, Untimed
<1>6. ASSUME NEW c \in Clearers, ClearRead(c) PROVE Untimed
  BY <1>6 DEF ClearRead, Untimed
<1>7. ASSUME UserSwitch \/ UNCHANGED vars PROVE Untimed
  BY <1>7 DEF UserSwitch, Untimed, vars
<1>8. ASSUME NEW c \in Clearers, ClearUpdate(c)
      PROVE  alarm' = NoAlarm /\ streak' = 0 /\ tick' = tick
  BY <1>8 DEF ClearUpdate
<1>9. ASSUME Crash PROVE alarm' = NoAlarm /\ streak' = 0 /\ tick' = Idle
  BY <1>9 DEF Crash
<1>10. QED
  BY <1>1, <1>2, <1>3, <1>4, <1>5, <1>6, <1>7, <1>8, <1>9 DEF Next, TickThread

(* EvalUpdate on the numbers alone.                                         *)
LEMMA UpdateNumbers ==
  ASSUME TypeOK, EvalUpdate
  PROVE  /\ alarm'.elapsed = NewElapsed /\ tick'.pc \notin {"snapshot", "update"}
         /\ alarm'.active <=> (alarm.active \/ JustFired)
         /\ \/ /\ Counting /\ NewElapsed = Least(alarm.elapsed + tick.delta, MaxElapsed)
               /\ streak' = Least(streak + tick.gap, MaxStreak)
            \/ NewElapsed = 0 /\ streak' = 0
<1>1. alarm' = [active |-> alarm.active \/ JustFired, elapsed |-> NewElapsed]
  BY DEF EvalUpdate
<1>2. alarm'.elapsed = NewElapsed
  BY <1>1
<1>3. alarm'.active = (alarm.active \/ JustFired)
  BY <1>1, Zenon
<1>4. tick'.pc \notin {"snapshot", "update"}
  BY DEF EvalUpdate, Idle
<1>5. streak' = IF Counting THEN Least(streak + tick.gap, MaxStreak) ELSE 0
  BY DEF EvalUpdate
<1>6. NewElapsed = IF Counting THEN Least(alarm.elapsed + tick.delta, MaxElapsed)
                               ELSE 0
  BY DEF NewElapsed
<1>7. \/ /\ Counting /\ NewElapsed = Least(alarm.elapsed + tick.delta, MaxElapsed)
         /\ streak' = Least(streak + tick.gap, MaxStreak)
      \/ NewElapsed = 0 /\ streak' = 0
  BY <1>5, <1>6, Zenon
<1>8. QED BY <1>2, <1>3, <1>4, <1>7, Zenon

(* What is counted stays below what has passed.                             *)
LEMMA ElapsedStep == TypeOK /\ ElapsedInv /\ [Next]_vars => ElapsedInv'
<1> SUFFICES ASSUME TypeOK, ElapsedInv, [Next]_vars PROVE ElapsedInv'
  OBVIOUS
<1> USE ConstantTypes
<1>0. /\ tick.delta \in Nat /\ alarm.elapsed \in Nat /\ streak \in Nat
      /\ tick.gap \in Nat /\ alarm.elapsed <= MaxElapsed
  <2>1. \A g \in TickGaps \cup {0} : g \in Nat
    OBVIOUS
  <2>2. tick.gap \in TickGaps \cup {0}
    BY DEF TypeOK
  <2>3. tick.gap \in Nat
    BY <2>1, <2>2, Zenon
  <2>4. QED BY <2>3 DEF TypeOK
<1>1. CASE Untimed
  BY <1>1 DEF Untimed, ElapsedInv
<1>2. ASSUME NEW b \in BOOLEAN, NEW d \in Durations, EvalDelta(b, d)
      PROVE  ElapsedInv'
  <2>1. alarm'.elapsed * Second <= streak'
    <3>1. CASE b
      BY <1>2, <3>1 DEF EvalDelta, ElapsedInv
    <3>2. CASE ~b
      BY <1>2, <3>2 DEF EvalDelta, NoAlarm
    <3>3. QED BY <3>1, <3>2
  <2>2. tick'.delta * Second <= tick'.gap
    <3>1. CASE checked
      <4>1. tick'.delta = WholeSeconds(tick.gap) /\ tick'.gap = tick.gap
        BY <1>2, <3>1 DEF EvalDelta, TypeOK
      <4>2. QED BY <1>0, <4>1, WholeSecondsBounds
    <3>2. CASE ~checked
      BY <1>2, <3>2 DEF EvalDelta, TypeOK
    <3>3. QED BY <3>1, <3>2
  <2>3. QED BY <2>1, <2>2 DEF ElapsedInv
<1>3. ASSUME NEW b \in BOOLEAN, EvalSnapshot(b) PROVE ElapsedInv'
  BY <1>3 DEF EvalSnapshot, ElapsedInv, TypeOK
<1>4. CASE EvalUpdate
  <2>1. CASE NewElapsed = 0 /\ streak' = 0
    BY <1>4, <2>1, UpdateNumbers DEF ElapsedInv
  <2>2. CASE /\ NewElapsed = Least(alarm.elapsed + tick.delta, MaxElapsed)
             /\ streak' = Least(streak + tick.gap, MaxStreak)
    <3>1. /\ NewElapsed \in Nat /\ NewElapsed <= alarm.elapsed + tick.delta
          /\ NewElapsed <= MaxElapsed
      BY <1>0, <2>2 DEF Least
    <3>2. NewElapsed * Second <= (alarm.elapsed + tick.delta) * Second
      BY <1>0, <3>1, TimesMono
    <3>3. (alarm.elapsed + tick.delta) * Second
            = alarm.elapsed * Second + tick.delta * Second
      BY <1>0
    <3>4. tick.delta * Second <= tick.gap /\ alarm.elapsed * Second <= streak
      BY <1>4 DEF ElapsedInv, EvalUpdate
    <3>5. NewElapsed * Second <= MaxElapsed * Second
      BY <3>1, TimesMono
    <3>6. MaxElapsed * Second <= MaxStreak
      BY AlarmAssumption
    <3>7. /\ NewElapsed * Second \in Nat /\ alarm.elapsed * Second \in Nat
          /\ tick.delta * Second \in Nat /\ MaxElapsed * Second \in Nat
      BY <1>0, <3>1
    <3>8. NewElapsed * Second <= streak'
      BY <1>0, <2>2, <3>2, <3>3, <3>4, <3>5, <3>6, <3>7 DEF Least
    <3>9. QED BY <1>4, <3>8, UpdateNumbers DEF ElapsedInv
  <2>3. QED BY <1>4, <2>1, <2>2, UpdateNumbers
<1>5. CASE alarm' = NoAlarm /\ streak' = 0 /\ (tick' = tick \/ tick' = Idle)
  BY <1>5 DEF ElapsedInv, NoAlarm, Idle
<1>6. QED BY <1>1, <1>2, <1>3, <1>4, <1>5, StepKinds

(* Where ticks are a second or more apart, what is counted does not fall    *)
(* behind by more than half.                                                *)
LEMMA LateStep ==
  ASSUME TypeOK, SlowTicks, LateInv, [Next]_vars
  PROVE  LateInv'
<1> USE ConstantTypes
<1>0. /\ tick.delta \in Nat /\ alarm.elapsed \in Nat /\ streak \in Nat
      /\ tick.gap \in Nat /\ alarm.elapsed <= MaxElapsed
      /\ tick.gap = 0 \/ tick.gap >= Second
      /\ tick.gap <= MaxGap
  <2>1. \A g \in TickGaps \cup {0} : g \in Nat
    OBVIOUS
  <2>2. \A g \in TickGaps \cup {0} : g = 0 \/ g >= Second
    BY DEF SlowTicks
  <2>3. \A g \in TickGaps \cup {0} : g <= MaxGap
    <3>1. \A g \in TickGaps : g <= MaxGap
      BY AlarmAssumption
    <3>2. QED BY <3>1
  <2>4. tick.gap \in TickGaps \cup {0}
    BY DEF TypeOK
  <2>5. tick.gap \in Nat /\ (tick.gap = 0 \/ tick.gap >= Second)
    BY <2>1, <2>2, <2>4, Zenon
  <2>6. tick.gap <= MaxGap
    BY <2>3, <2>4, Zenon
  <2>7. QED BY <2>5, <2>6 DEF TypeOK
<1>1. CASE Untimed
  BY <1>1 DEF Untimed, LateInv
<1>2. ASSUME NEW b \in BOOLEAN, NEW d \in Durations, EvalDelta(b, d)
      PROVE  LateInv'
  <2>1. /\ alarm'.elapsed = MaxElapsed \/ streak' <= 2 * (alarm'.elapsed * Second)
        /\ alarm'.active \/ alarm'.elapsed < MaxDuration \/ streak' <= MaxGap
    <3>1. CASE b
      BY <1>2, <3>1 DEF EvalDelta, LateInv
    <3>2. CASE ~b
      BY <1>2, <3>2 DEF EvalDelta, NoAlarm
    <3>3. QED BY <3>1, <3>2
  <2>2. tick'.pc # "update"
    BY <1>2 DEF EvalDelta, TypeOK
  <2>3. tick'.gap <= 2 * (tick'.delta * Second)
    <3>1. CASE checked /\ tick.gap >= Second
      <4> DEFINE n == WholeSeconds(tick.gap)
      <4>1. tick'.delta = n /\ tick'.gap = tick.gap
        BY <1>2, <3>1 DEF EvalDelta, TypeOK
      <4>2. n \in Nat /\ n >= 1 /\ tick.gap < n * Second + Second
        BY <1>0, <3>1, WholeSecondsBounds
      <4> HIDE DEF n
      <4>3. 1 * Second <= n * Second
        BY <4>2, TimesMono
      <4>4. n * Second \in Nat
        BY <4>2
      <4>5. tick.gap <= 2 * (n * Second)
        BY <1>0, <4>2, <4>3, <4>4
      <4>6. QED BY <4>1, <4>5
    <3>2. CASE ~checked \/ tick.gap = 0
      <4>1. tick'.gap = 0
        BY <1>2, <3>2 DEF EvalDelta, TypeOK
      <4>2. tick'.delta \in Nat
        BY <1>2, TypeStep DEF TypeOK
      <4>3. tick'.delta * Second \in Nat
        BY <4>2
      <4>4. QED BY <4>1, <4>3
    <3>3. QED BY <1>0, <3>1, <3>2
  <2>4. QED BY <2>1, <2>2, <2>3 DEF LateInv
<1>3. ASSUME NEW b \in BOOLEAN, EvalSnapshot(b) PROVE LateInv'
  <2>1. /\ alarm' = alarm /\ streak' = streak
        /\ tick'.gap = tick.gap /\ tick'.delta = tick.delta
        /\ tick'.was_active = alarm.active /\ tick.pc = "snapshot"
    BY <1>3 DEF EvalSnapshot, TypeOK
  <2>2. ~(tick'.was_active /\ ~alarm'.active)
    BY <2>1, Zenon
  <2>3. QED BY <2>1, <2>2 DEF LateInv
<1>4. CASE EvalUpdate
  <2>1. /\ alarm'.elapsed = NewElapsed /\ tick'.pc \notin {"snapshot", "update"}
        /\ tick.pc = "update"
    BY <1>4, UpdateNumbers DEF EvalUpdate
  <2>2. alarm'.elapsed = MaxElapsed \/ streak' <= 2 * (alarm'.elapsed * Second)
    <3>1. CASE NewElapsed = 0 /\ streak' = 0
      BY <2>1, <3>1
    <3>2. CASE /\ NewElapsed = Least(alarm.elapsed + tick.delta, MaxElapsed)
               /\ streak' = Least(streak + tick.gap, MaxStreak)
      <4>1. CASE alarm.elapsed + tick.delta >= MaxElapsed
        BY <1>0, <2>1, <3>2, <4>1 DEF Least
      <4>2. CASE alarm.elapsed + tick.delta < MaxElapsed
        <5>1. /\ NewElapsed = alarm.elapsed + tick.delta
              /\ alarm.elapsed # MaxElapsed
          BY <1>0, <3>2, <4>2 DEF Least
        <5>2. /\ streak <= 2 * (alarm.elapsed * Second)
              /\ tick.gap <= 2 * (tick.delta * Second)
          BY <2>1, <5>1 DEF LateInv
        <5>3. streak' <= streak + tick.gap
          BY <1>0, <3>2 DEF Least
        <5>4. (alarm.elapsed + tick.delta) * Second
                = alarm.elapsed * Second + tick.delta * Second
          BY <1>0
        <5>5. /\ alarm.elapsed * Second \in Nat /\ tick.delta * Second \in Nat
              /\ streak' \in Nat
          BY <1>0, <3>2 DEF Least
        <5>6. streak' <= 2 * (NewElapsed * Second)
          BY <1>0, <5>1, <5>2, <5>3, <5>4, <5>5
        <5>7. QED BY <2>1, <5>6
      <4>3. QED BY <1>0, <4>1, <4>2
    <3>3. QED BY <1>4, <3>1, <3>2, UpdateNumbers
  <2>3. alarm'.active \/ alarm'.elapsed < MaxDuration \/ streak' <= MaxGap
    <3>1. CASE alarm.active \/ JustFired
      BY <1>4, <3>1, UpdateNumbers, Zenon
    <3>2. CASE ~alarm.active /\ tick.was_active
      <4>1. streak = 0
        BY <2>1, <3>2 DEF LateInv
      <4>2. streak' <= MaxGap
        BY <1>0, <1>4, <4>1, UpdateNumbers DEF Least
      <4>3. QED BY <4>2
    <3>3. CASE ~tick.was_active /\ ~JustFired
      <4>1. tick.duration \in Nat /\ tick.duration <= MaxDuration
        <5>1. \A n \in Durations \cup {0} : n \in Nat /\ n <= MaxDuration
          BY AlarmAssumption
        <5>2. tick.duration \in Durations \cup {0}
          BY DEF TypeOK
        <5>3. QED BY <5>1, <5>2
      <4>2. ~(NewElapsed >= tick.duration)
        BY <3>3 DEF JustFired
      <4>3. NewElapsed \in Nat
        BY <1>0 DEF NewElapsed, Least
      <4>4. QED BY <2>1, <4>1, <4>2, <4>3
    <3>4. QED BY <3>1, <3>2, <3>3
  <2>4. QED BY <2>1, <2>2, <2>3 DEF LateInv
<1>5. CASE alarm' = NoAlarm /\ streak' = 0 /\ (tick' = tick \/ tick' = Idle)
  BY <1>5 DEF LateInv, NoAlarm, Idle
<1>6. QED BY <1>1, <1>2, <1>3, <1>4, <1>5, StepKinds

(* The ring stays the newest entries of the list that only grows.           *)
LEMMA HistoryStep == TypeOK /\ HistoryIsNewest /\ [Next]_vars => HistoryIsNewest'
<1> SUFFICES ASSUME TypeOK, HistoryIsNewest, [Next]_vars PROVE HistoryIsNewest'
  OBVIOUS
<1>1. ASSUME NEW ok \in BOOLEAN, Record(ok) PROVE HistoryIsNewest'
  <2>1. fires' \in Nat /\ expected \in Seq(Nat)
    BY <1>1 DEF Record, TypeOK
  <2>2. /\ saved' = RecordAlarmEvent(Newest(expected, HistoryCap), fires')
        /\ expected' = Append(expected, fires')
    BY <1>1 DEF Record, HistoryIsNewest
  <2>3. QED BY <2>1, <2>2, RingStep DEF HistoryIsNewest
<1>2. CASE Crash
  BY <1>2 DEF Crash, HistoryIsNewest
<1>3. CASE saved' = saved /\ expected' = expected
  BY <1>3 DEF HistoryIsNewest
<1>4. QED
  BY <1>1, <1>2, <1>3
     DEF Next, TickThread, TickValve, TickMirror, EvalDelta, EvalSnapshot,
         EvalUpdate, Close, Persist, ClearRead, ClearUpdate, UserSwitch, vars,
         historyVars

-----------------------------------------------------------------------------
(* The theorems.                                                            *)

LEMMA InitInv == Init => Inv
<1> SUFFICES ASSUME Init PROVE Inv
  OBVIOUS
<1> USE ConstantTypes
<1>1. TypeOK
  <2>1. water \in Water!WaterState /\ stored \in {"none", "off", "on"}
    BY DEF Init, Water!Init, Water!WaterState, Water!Boot
  <2>2. alarm \in [active : BOOLEAN, elapsed : 0 .. MaxElapsed]
    BY DEF Init, NoAlarm
  <2>3. tick \in [pc : TickStep, gap : TickGaps \cup {0}, delta : Nat,
                  duration : Durations \cup {0}, sprinkler : BOOLEAN,
                  water : Water!WaterState, above : BOOLEAN,
                  was_active : BOOLEAN]
    BY DEF Init, Idle, TickStep, Water!WaterState
  <2>4. saved \in Seq(Nat) /\ savedNvs \in Seq(Nat) /\ expected \in Seq(Nat)
    BY DEF Init
  <2>5. checked \in BOOLEAN /\ clearing \subseteq Clearers
    BY DEF Init
  <2>6. streak \in 0 .. MaxStreak /\ fires \in Nat
    BY DEF Init
  <2>7. QED BY <2>1, <2>2, <2>3, <2>4, <2>5, <2>6 DEF TypeOK
<1>2. ElapsedInv /\ LateInv
  BY DEF Init, ElapsedInv, LateInv, NoAlarm, Idle
<1>3. HistoryIsNewest
  BY DEF Init, HistoryIsNewest, Newest
<1>4. QED BY <1>1, <1>2, <1>3 DEF Inv

(* The conjunction of the invariants is inductive.                          *)
LEMMA Inductive == Spec => []Inv
<1>1. Inv /\ [Next]_vars => Inv'
  BY TypeStep, ElapsedStep, HistoryStep, LateStep DEF Inv, SlowTicks
<1>2. QED BY InitInv, <1>1, PTL DEF Spec, Safety

(* Type correctness: among other things the u32 elapsed_secs of             *)
(* evaluate_flow_alarm never passes its maximum, and the history is a list  *)
(* of fires.                                                                *)
THEOREM TypeCorrect == Spec => []TypeOK
<1>1. Inv => TypeOK
  BY DEF Inv
<1>2. QED BY Inductive, <1>1, PTL

(* evaluate_flow_alarm never latches the alarm early, whatever clears,      *)
(* configuration changes and crashes come between its steps: every          *)
(* evaluation for at least duration_secs saw high flow and no sprinkler.    *)
THEOREM AlarmNotEarly == Spec => NotEarly
<1>1. ASSUME Inv, Inv', [Next]_vars, EvalUpdate, JustFired
      PROVE  streak' >= tick.duration * Second
  <2> USE ConstantTypes
  <2>1. alarm'.elapsed = NewElapsed
    BY <1>1, UpdateNumbers DEF Inv
  <2>2. NewElapsed \in Nat /\ streak' \in Nat /\ tick.duration \in Nat
    <3>1. \A d \in Durations \cup {0} : d \in Nat
      OBVIOUS
    <3>2. tick.duration \in Durations \cup {0}
      BY <1>1 DEF Inv, TypeOK
    <3>3. tick.duration \in Nat
      BY <3>1, <3>2, Zenon
    <3>4. QED BY <1>1, <2>1, <3>3 DEF Inv, TypeOK
  <2>3. NewElapsed >= tick.duration
    BY <1>1 DEF JustFired
  <2>4. tick.duration * Second <= NewElapsed * Second
    BY <2>2, <2>3, TimesMono
  <2>5. NewElapsed * Second <= streak'
    BY <1>1, <2>1 DEF Inv, ElapsedInv
  <2>6. NewElapsed * Second \in Nat /\ tick.duration * Second \in Nat
    BY <2>2
  <2>7. QED BY <2>2, <2>4, <2>5, <2>6
<1>2. Inv /\ Inv' /\ [Next]_vars =>
        [(EvalUpdate /\ JustFired) => streak' >= tick.duration * Second]_vars
  BY <1>1
<1>3. QED BY Inductive, <1>2, PTL DEF Spec, Safety, NotEarly

(* Where every tick is at least a second after the one before (the Embassy  *)
(* firmware's tick_task), evaluate_flow_alarm misses no leak.  The run      *)
(* flow_alarm_fast_tick shows that the condition is needed.                 *)
THEOREM AlarmNotMissed ==
  ASSUME \A g \in TickGaps : g >= Second
  PROVE  Spec => []NotMissed
<1>1. SlowTicks
  BY DEF SlowTicks
<1>2. TypeOK /\ LateInv => NotMissed
  <2> SUFFICES ASSUME TypeOK, LateInv, ~alarm.active
               PROVE  ~(streak > 2 * MaxDuration * Second + MaxGap)
    BY DEF NotMissed
  <2> USE ConstantTypes
  <2>1. streak \in Nat /\ alarm.elapsed \in Nat
    BY DEF TypeOK
  <2>2. MaxDuration * Second \in Nat /\ alarm.elapsed * Second \in Nat
    BY <2>1
  <2>3. 2 * MaxDuration * Second = 2 * (MaxDuration * Second)
    OBVIOUS
  <2>4. CASE streak <= MaxGap
    BY <2>1, <2>2, <2>3, <2>4
  <2>5. CASE alarm.elapsed < MaxDuration
    <3>1. alarm.elapsed # MaxElapsed
      <4>1. MaxDuration <= MaxElapsed
        BY AlarmAssumption
      <4>2. QED BY <2>1, <2>5, <4>1
    <3>2. streak <= 2 * (alarm.elapsed * Second)
      BY <3>1 DEF LateInv
    <3>3. alarm.elapsed * Second <= MaxDuration * Second
      BY <2>1, <2>5, TimesMono
    <3>4. QED BY <2>1, <2>2, <2>3, <3>2, <3>3
  <2>6. QED BY <2>4, <2>5 DEF LateInv
<1>3. Inv => NotMissed
  BY <1>1, <1>2 DEF Inv
<1>4. QED BY Inductive, <1>3, PTL

(* record_alarm_event keeps the newest HistoryCap fires in order, through   *)
(* reboots and failed NVS writes.                                           *)
THEOREM HistoryCorrect == Spec => []HistoryIsNewest
<1>1. Inv => HistoryIsNewest
  BY DEF Inv
<1>2. QED BY Inductive, <1>1, PTL

-----------------------------------------------------------------------------
(* The water meter: the register and the total.                             *)

\* The register and the readings of it.
RegisterInv ==
  /\ fw \in {"std", "embassy"}
  /\ raw \in Int /\ last_raw \in Int /\ good_raw \in Int
  /\ unread \in Nat /\ unread < HighLimit
  /\ lapped \in BOOLEAN
  /\ fw = "std" =>
       /\ raw \in 0..(HighLimit - 1)
       /\ good_raw \in 0..(HighLimit - 1)
       /\ raw = IF lapped THEN good_raw + unread - HighLimit ELSE good_raw + unread
  /\ fw = "embassy" =>
       /\ raw \in (-Half)..(Half - 1)
       /\ last_raw = raw
       /\ unread = 0

\* The total against the truth.  After reads that failed it is already ahead
\* by what the next good read will find: a lap less the last good reading.
TotalInv ==
  /\ total \in Nat /\ seen \in Nat /\ allowance \in Nat
  /\ fw = "embassy" => total = seen
  /\ fw = "std" /\ last_raw = good_raw => seen <= total /\ total <= seen + allowance
  /\ fw = "std" /\ last_raw # good_raw =>
       /\ last_raw = 0
       /\ seen + Half - good_raw <= total
       /\ total <= seen + allowance - good_raw

\* The reports: where the last one ended.
ReportInv ==
  /\ last_count \in Nat
  /\ fw = "std" => last_count = total
  /\ fw = "embassy" => last_count = reports.at

MeterInv == RegisterInv /\ TotalInv /\ ReportInv /\ FlowIsReal

LEMMA MeterInvInit == MeterInit => MeterInv
<1> SUFFICES ASSUME MeterInit PROVE MeterInv
  OBVIOUS
<1>1. RegisterInv
  <2>1. /\ fw \in {"std", "embassy"} /\ raw = 0 /\ last_raw = 0 /\ good_raw = 0
        /\ unread = 0 /\ lapped = FALSE
    BY DEF MeterInit
  <2>2. 0 \in 0..(HighLimit - 1) /\ 0 \in (-Half)..(Half - 1) /\ 0 < HighLimit
    BY MeterAssumption DEF HighLimit
  <2>3. raw = good_raw + unread /\ raw \in Int /\ unread \in Nat
    BY <2>1
  <2>4. raw = IF lapped THEN good_raw + unread - HighLimit ELSE good_raw + unread
    BY <2>1, <2>3
  <2>5. /\ raw \in 0..(HighLimit - 1) /\ good_raw \in 0..(HighLimit - 1)
        /\ raw \in (-Half)..(Half - 1) /\ last_raw = raw /\ unread < HighLimit
        /\ last_raw \in Int /\ good_raw \in Int
    BY <2>1, <2>2, MeterAssumption DEF HighLimit
  <2>6. lapped \in BOOLEAN
    BY <2>1
  <2>7. QED BY <2>1, <2>3, <2>4, <2>5, <2>6 DEF RegisterInv
<1>2. TotalInv
  BY MeterAssumption DEF MeterInit, TotalInv
<1>3. ReportInv /\ FlowIsReal
  BY DEF MeterInit, ReportInv, FlowIsReal
<1>4. QED BY <1>1, <1>2, <1>3 DEF MeterInv

\* Where the register of the std firmware is after n more pulses.
LEMMA StdRegister ==
  ASSUME MeterInv, fw = "std", NEW n \in 0..MaxPulses, unread + n < HighLimit
  PROVE  /\ Counted(n) \in 0..(HighLimit - 1)
         /\ Counted(n) = IF lapped \/ Wraps(n) THEN good_raw + unread + n - HighLimit
                                              ELSE good_raw + unread + n
<1> USE MeterAssumption
<1>1. /\ raw \in 0..(HighLimit - 1) /\ good_raw \in 0..(HighLimit - 1)
      /\ unread \in Nat /\ lapped \in BOOLEAN /\ HighLimit \in Nat
      /\ raw = IF lapped THEN good_raw + unread - HighLimit ELSE good_raw + unread
  BY DEF MeterInv, RegisterInv, HighLimit
<1>2. CASE Wraps(n)
  <2>1. raw + n >= HighLimit /\ Counted(n) = raw + n - HighLimit
    BY <1>2 DEF Counted, Wraps
  <2>2. ~lapped
    BY <1>1, <2>1
  <2>3. QED BY <1>1, <1>2, <2>1, <2>2
<1>3. CASE ~Wraps(n)
  <2>1. ~(raw + n >= HighLimit) /\ Counted(n) = raw + n
    BY <1>3 DEF Counted, Wraps
  <2>2. QED BY <1>1, <1>3, <2>1
<1>4. QED BY <1>2, <1>3

\* A pass that does not read the register.
LEMMA IdleStep ==
  ASSUME MeterInv, NEW d \in 1..MaxStep, NEW n \in 0..MaxPulses, StdIdlePass(d, n)
  PROVE  MeterInv'
<1> USE MeterAssumption
<1>1. /\ fw = "std" /\ fw' = fw /\ last_raw' = last_raw /\ good_raw' = good_raw
      /\ total' = total /\ seen' = seen /\ allowance' = allowance
      /\ last_count' = last_count /\ reports' = reports
      /\ sensors'.flow = sensors.flow
      /\ unread + n < HighLimit /\ raw' = Counted(n)
      /\ unread' = unread + n /\ lapped' = (lapped \/ Wraps(n))
  BY DEF StdIdlePass, Pulses
<1>2. RegisterInv'
  <2>1. /\ raw' \in 0..(HighLimit - 1)
        /\ raw' = IF lapped \/ Wraps(n) THEN good_raw + unread + n - HighLimit
                                        ELSE good_raw + unread + n
    BY <1>1, StdRegister
  <2>2. /\ last_raw \in Int /\ good_raw \in 0..(HighLimit - 1) /\ unread \in Nat
        /\ (lapped \/ Wraps(n)) \in BOOLEAN
    BY <1>1 DEF MeterInv, RegisterInv
  <2> DEFINE lap == lapped \/ Wraps(n)
  <2>3. lapped' = lap /\ lap \in BOOLEAN
        /\ raw' = IF lap THEN good_raw + unread + n - HighLimit ELSE good_raw + unread + n
    BY <1>1, <2>1, <2>2
  <2> HIDE DEF lap
  <2>4. unread' \in Nat /\ unread' < HighLimit /\ raw' \in Int /\ fw' = "std"
        /\ raw' = IF lapped' THEN good_raw' + unread' - HighLimit ELSE good_raw' + unread'
    BY <1>1, <2>1, <2>2, <2>3 DEF HighLimit
  <2>5. QED BY <1>1, <2>1, <2>2, <2>3, <2>4 DEF RegisterInv
<1>3. TotalInv' /\ ReportInv' /\ FlowIsReal'
  BY <1>1 DEF MeterInv, TotalInv, ReportInv, FlowIsReal
<1>4. QED BY <1>2, <1>3 DEF MeterInv

\* A flow report of the std firmware.
LEMMA FlowStep ==
  ASSUME MeterInv, NEW d \in 1..MaxStep, NEW n \in 0..MaxPulses, NEW ok \in BOOLEAN,
         StdFlowPass(d, n, ok)
  PROVE  MeterInv'
<1> USE MeterAssumption
<1> DEFINE lap == lapped \/ Wraps(n)
<1>1. /\ fw = "std" /\ fw' = fw
      /\ unread + n < HighLimit /\ raw' = Counted(n)
      /\ last_raw' = IF ok THEN raw' ELSE 0
      /\ total' = total + CountDelta(last_raw, last_raw')
      /\ last_count' = total' /\ sensors'.flow = total' - last_count
      /\ reports' = [real |-> unread + n, lap |-> lap,
                     ok |-> ok /\ last_raw = good_raw, at |-> seen']
  BY DEF StdFlowPass, Pulses
<1>2. /\ raw' \in 0..(HighLimit - 1)
      /\ raw' = IF lap THEN good_raw + unread + n - HighLimit ELSE good_raw + unread + n
      /\ lap \in BOOLEAN
  BY <1>1, StdRegister DEF MeterInv, RegisterInv
<1>3. last_raw \in 0..(HighLimit - 1) /\ good_raw \in 0..(HighLimit - 1)
  BY <1>1 DEF MeterInv, RegisterInv, TotalInv, HighLimit
<1>4. CASE ok
  <2>1. /\ seen' = seen + unread + n /\ unread' = 0 /\ good_raw' = raw'
        /\ lapped' = FALSE
        /\ allowance' = IF lap THEN allowance + 1 ELSE allowance
        /\ last_raw' = raw'
    BY <1>4, <1>1 DEF StdFlowPass
  <2> HIDE DEF lap
  <2>2. RegisterInv'
    <3>1. /\ fw' = "std" /\ raw' \in Int /\ 0 \in Nat /\ 0 < HighLimit
          /\ raw' = good_raw' + 0
      BY <1>1, <1>2, <2>1 DEF HighLimit
    <3>2. QED BY <1>2, <2>1, <3>1 DEF RegisterInv
  <2>3. TotalInv' /\ last_count' \in Nat
    <3>1. CASE last_raw = good_raw
      BY <1>1, <1>2, <1>3, <2>1, <3>1
         DEF MeterInv, RegisterInv, TotalInv, CountDelta, HighLimit
    <3>2. CASE last_raw # good_raw
      BY <1>1, <1>2, <1>3, <2>1, <3>2
         DEF MeterInv, RegisterInv, TotalInv, CountDelta, HighLimit
    <3>3. QED BY <3>1, <3>2
  <2>4. ReportInv'
    BY <1>1, <2>3 DEF ReportInv
  <2>5. FlowIsReal'
    <3>1. ASSUME last_raw = good_raw
          PROVE  /\ CountDelta(last_raw, raw') >= unread + n
                 /\ CountDelta(last_raw, raw') <= unread + n + (IF lap THEN 1 ELSE 0)
      <4>1. /\ unread \in Nat /\ unread + n \in Nat /\ unread + n < HighLimit
            /\ HighLimit \in Nat
        BY <1>1 DEF MeterInv, RegisterInv, HighLimit
      <4>2. CASE lap
        <5>1. raw' = last_raw + (unread + n) - HighLimit
          BY <1>2, <1>3, <3>1, <4>1, <4>2
        <5>2. raw' \in Int /\ last_raw \in Int /\ ~(raw' >= last_raw)
          BY <1>2, <1>3, <4>1, <5>1
        <5>3. CountDelta(last_raw, raw') = unread + n + 1
          BY <4>1, <5>1, <5>2 DEF CountDelta
        <5>4. QED BY <4>1, <4>2, <5>3
      <4>3. CASE ~lap
        <5>1. raw' = last_raw + (unread + n)
          BY <1>2, <1>3, <3>1, <4>1, <4>3
        <5>2. raw' \in Int /\ last_raw \in Int /\ raw' >= last_raw
          BY <1>2, <1>3, <4>1, <5>1
        <5>3. CountDelta(last_raw, raw') = unread + n
          BY <4>1, <5>1, <5>2 DEF CountDelta
        <5>4. QED BY <4>1, <4>3, <5>3
      <4>4. QED BY <1>2, <4>2, <4>3
    <3>2. total' - last_count = CountDelta(last_raw, raw')
      BY <1>1, <1>2, <1>3, <2>1 DEF MeterInv, ReportInv, TotalInv, CountDelta, HighLimit
    <3>3. QED BY <1>1, <2>1, <3>1, <3>2 DEF FlowIsReal
  <2>6. QED BY <2>2, <2>3, <2>4, <2>5 DEF MeterInv
<1>5. CASE ~ok
  <2>1. /\ unread' = unread + n /\ lapped' = lap
        /\ allowance' = allowance + Half /\ seen' = seen /\ good_raw' = good_raw
        /\ last_raw' = 0
    BY <1>5, <1>1 DEF StdFlowPass
  <2> HIDE DEF lap
  <2>2. RegisterInv'
    BY <1>1, <1>2, <1>3, <2>1 DEF MeterInv, RegisterInv, HighLimit
  <2>3. TotalInv' /\ last_count' \in Nat
    <3>1. CASE last_raw = good_raw
      BY <1>1, <1>3, <2>1, <3>1 DEF MeterInv, TotalInv, CountDelta, HighLimit
    <3>2. CASE last_raw # good_raw
      BY <1>1, <1>3, <2>1, <3>2 DEF MeterInv, TotalInv, CountDelta, HighLimit
    <3>3. QED BY <3>1, <3>2
  <2>4. ReportInv'
    BY <1>1, <2>3 DEF ReportInv
  <2>5. FlowIsReal'
    BY <1>1, <1>5 DEF FlowIsReal
  <2>6. QED BY <2>2, <2>3, <2>4, <2>5 DEF MeterInv
<1>6. QED BY <1>4, <1>5

\* i16::wrapping_sub finds the pulses of a pass, wherever the register is.
LEMMA WrapExact ==
  ASSUME RegisterInv, fw = "embassy", NEW n \in 0..MaxPulses
  PROVE  /\ WrappingSub(Counted(n), raw) = n
         /\ Counted(n) \in (-Half)..(Half - 1)
<1> USE MeterAssumption
<1>1. CASE raw + n >= Half
  <2>1. Counted(n) = raw + n - 2 * Half
    BY <1>1 DEF Counted, Wraps
  <2>2. QED BY <1>1, <2>1 DEF RegisterInv, WrappingSub
<1>2. CASE ~(raw + n >= Half)
  <2>1. Counted(n) = raw + n
    BY <1>2 DEF Counted, Wraps
  <2>2. QED BY <1>2, <2>1 DEF RegisterInv, WrappingSub
<1>3. QED BY <1>1, <1>2

\* A pass of the embassy firmware.
LEMMA EmbassyStep ==
  ASSUME MeterInv, NEW n \in 0..MaxPulses, EmbassyPass(n)
  PROVE  MeterInv'
<1> USE MeterAssumption
<1>1. /\ fw = "embassy" /\ fw' = fw /\ raw' = Counted(n) /\ last_raw' = raw'
      /\ total' = IF WrappingSub(raw', last_raw) > 0
                  THEN total + WrappingSub(raw', last_raw) ELSE total
      /\ seen' = seen + n /\ good_raw' = raw'
      /\ unread' = unread /\ lapped' = lapped /\ allowance' = allowance
  BY DEF EmbassyPass, Pulses
<1>2. last_raw = raw /\ RegisterInv
  BY <1>1 DEF MeterInv, RegisterInv
<1>3. total' = total + n /\ raw' \in (-Half)..(Half - 1)
  BY <1>1, <1>2, WrapExact DEF MeterInv, TotalInv
<1>4. RegisterInv'
  BY <1>1, <1>2, <1>3 DEF RegisterInv
<1>5. TotalInv'
  BY <1>1, <1>3 DEF MeterInv, TotalInv
<1>6. ReportInv' /\ FlowIsReal'
  <2>1. CASE now' % FlowPeriod = 0
    <3>1. /\ last_count' = total' /\ sensors'.flow = total' - last_count
          /\ reports' = [real |-> seen + n - reports.at, lap |-> FALSE, ok |-> TRUE,
                         at |-> seen + n]
      BY <2>1 DEF EmbassyPass
    <3>2. /\ total = seen /\ last_count = reports.at
          /\ total \in Nat /\ last_count \in Nat
      BY <1>1 DEF MeterInv, TotalInv, ReportInv
    <3>3. QED BY <1>1, <1>3, <3>1, <3>2 DEF ReportInv, FlowIsReal
  <2>2. CASE now' % FlowPeriod # 0
    <3>1. /\ last_count' = last_count /\ reports' = reports
          /\ sensors' = [sensors EXCEPT !.battery = Averaged(bat')]
      BY <2>2 DEF EmbassyPass
    <3>2. sensors'.flow = sensors.flow
      BY <3>1
    <3>3. QED BY <1>1, <3>1, <3>2 DEF MeterInv, ReportInv, FlowIsReal
  <2>3. QED BY <2>1, <2>2
<1>7. QED BY <1>4, <1>5, <1>6 DEF MeterInv

LEMMA MeterCorrect == MeterSpec => []MeterInv
<1>1. MeterInv /\ [MeterNext]_meterVars => MeterInv'
  <2> SUFFICES ASSUME MeterInv, [MeterNext]_meterVars PROVE MeterInv'
    OBVIOUS
  <2>1. CASE Pass
    <3>1. PICK d \in 1..MaxStep, n \in 0..MaxPulses :
            \/ StdIdlePass(d, n)
            \/ \E ok \in BOOLEAN : StdFlowPass(d, n, ok)
            \/ EmbassyPass(n)
      BY <2>1 DEF Pass
    <3>2. QED BY <3>1, IdleStep, FlowStep, EmbassyStep
  <2>2. CASE UNCHANGED meterVars
    BY <2>2 DEF meterVars, device, truth, MeterInv, RegisterInv, TotalInv, ReportInv, FlowIsReal
  <2>3. QED BY <2>1, <2>2 DEF MeterNext, Done
<1>2. QED BY <1>1, MeterInvInit, PTL DEF MeterSpec

(* No pulse is lost, and none invented but one for each restart of the     *)
(* register and a lap for each read that failed: EspPulseCounter::count    *)
(* and the accumulation of the embassy firmware's sensor_task.             *)
THEOREM TrueTotal == MeterSpec => []TotalIsTrue
<1>1. MeterInv => TotalIsTrue
  <2> SUFFICES ASSUME MeterInv PROVE TotalIsTrue
    OBVIOUS
  <2>1. /\ fw \in {"std", "embassy"} /\ total \in Nat /\ seen \in Nat
        /\ allowance \in Nat /\ good_raw \in Int
        /\ fw = "std" => good_raw >= 0 /\ good_raw < Half
    BY MeterAssumption DEF MeterInv, RegisterInv, TotalInv, HighLimit
  <2>2. CASE fw = "embassy"
    BY <2>1, <2>2 DEF MeterInv, TotalInv, TotalIsTrue
  <2>3. CASE fw = "std"
    BY <2>1, <2>3, MeterAssumption DEF MeterInv, TotalInv, TotalIsTrue
  <2>4. QED BY <2>1, <2>2, <2>3
<1>2. QED BY <1>1, MeterCorrect, PTL

(* A flow report is about the pulses of its own interval, in both          *)
(* firmwares, whenever neither of its two reads failed.                    *)
THEOREM RealFlow == MeterSpec => []FlowIsReal
<1>1. MeterInv => FlowIsReal
  BY DEF MeterInv
<1>2. QED BY <1>1, MeterCorrect, PTL

-----------------------------------------------------------------------------
(* The battery window.                                                      *)

\* The queue of the std firmware: the newest of k samples, the oldest first.
Queue(s, k, len) ==
  /\ s \in Seq(Nat) /\ len = Len(s)
  /\ len = IF k < BatteryWindow THEN k ELSE BatteryWindow
  /\ \A i \in 1..len : s[i] = k - len + i

\* The ring of the embassy firmware: up to pos the lap under way, which began
\* after k - pos samples; behind it the lap before.
Ring(s, k, pos, len) ==
  /\ s \in [1..BatteryWindow -> Nat]
  /\ pos \in 0..(BatteryWindow - 1)
  /\ k - pos = 0 \/ k - pos >= BatteryWindow
  /\ len = IF k - pos = 0 THEN pos ELSE BatteryWindow
  /\ \A i \in 1..len :
       s[i] = IF i <= pos THEN k - pos + i ELSE k - pos - BatteryWindow + i

WindowInv ==
  /\ fw \in {"std", "embassy"}
  /\ bat.taken \in Nat
  /\ fw = "std" => Queue(bat.samples, bat.taken, bat.len)
  /\ fw = "embassy" => Ring(bat.samples, bat.taken, bat.pos, bat.len)
  /\ sensors = [flow |-> sensors.flow, battery |-> Averaged(bat)]

LEMMA WindowInit == MeterInit => WindowInv
<1> SUFFICES ASSUME MeterInit PROVE WindowInv
  OBVIOUS
<1> USE MeterAssumption
<1>1. /\ fw \in {"std", "embassy"}
      /\ bat.samples = IF fw = "std" THEN <<>> ELSE [i \in 1..BatteryWindow |-> 0]
      /\ bat.len = 0 /\ bat.pos = 0 /\ bat.taken = 0
      /\ sensors = [flow |-> 0, battery |-> {}]
  BY DEF MeterInit
<1>2. Averaged(bat) = {}
  BY <1>1 DEF Averaged
<1>3. fw = "std" => Queue(bat.samples, bat.taken, bat.len)
  BY <1>1 DEF Queue
<1>4. fw = "embassy" => Ring(bat.samples, bat.taken, bat.pos, bat.len)
  BY <1>1 DEF Ring
<1>5. QED BY <1>1, <1>2, <1>3, <1>4 DEF WindowInv

(* VecDeque: push_back, and pop_front when there are more than the window   *)
(* holds.                                                                   *)
LEMMA QueueNext ==
  ASSUME NEW s, NEW k \in Nat, NEW len, Queue(s, k, len)
  PROVE  LET grown == Append(s, k + 1)
             w == IF Len(grown) > BatteryWindow THEN Tail(grown) ELSE grown
         IN  Queue(w, k + 1, Len(w))
<1> USE MeterAssumption
<1> DEFINE grown == Append(s, k + 1)
           w == IF Len(grown) > BatteryWindow THEN Tail(grown) ELSE grown
<1>1. s \in Seq(Nat) /\ len = Len(s) /\ len \in Nat
  BY DEF Queue
<1>2. /\ grown \in Seq(Nat) /\ Len(grown) = len + 1
      /\ \A i \in 1..len : grown[i] = s[i]
      /\ grown[len + 1] = k + 1
  BY <1>1
<1>3. \A i \in 1..len : s[i] = k - len + i
  BY DEF Queue
<1> HIDE DEF grown
<1>4. ASSUME NEW i \in 1..(len + 1) PROVE grown[i] = k - len + i
  <2>1. CASE i = len + 1
    BY <1>1, <1>2, <2>1
  <2>2. CASE i # len + 1
    <3>1. i \in 1..len
      BY <1>1, <2>2
    <3>2. QED BY <1>2, <1>3, <3>1
  <2>3. QED BY <2>1, <2>2
<1>5. CASE k < BatteryWindow
  <2>1. len = k
    BY <1>5 DEF Queue
  <2>2. w = grown /\ Len(w) = k + 1
    BY <1>2, <1>5, <2>1
  <2> HIDE DEF w
  <2>3. ASSUME NEW i \in 1..Len(w) PROVE w[i] = k + 1 - Len(w) + i
    <3>1. i \in 1..(len + 1) /\ w[i] = grown[i]
      BY <2>1, <2>2
    <3>2. grown[i] = k - len + i
      BY <1>4, <3>1
    <3>3. QED BY <2>1, <2>2, <3>1, <3>2
  <2>4. Queue(w, k + 1, Len(w))
    BY <1>2, <1>5, <2>2, <2>3 DEF Queue
  <2>5. QED BY <2>4 DEF w, grown
<1>6. CASE k >= BatteryWindow
  <2>1. len = BatteryWindow
    BY <1>6 DEF Queue
  <2>2. w = Tail(grown) /\ Len(grown) = BatteryWindow + 1
    BY <1>2, <2>1
  <2> HIDE DEF w
  <2>3. /\ w \in Seq(Nat) /\ Len(w) = BatteryWindow
        /\ \A i \in 1..BatteryWindow : w[i] = grown[i + 1]
    BY <1>2, <2>2
  <2>4. ASSUME NEW i \in 1..BatteryWindow PROVE w[i] = k + 1 - BatteryWindow + i
    <3>1. i + 1 \in 1..(len + 1) /\ w[i] = grown[i + 1]
      BY <2>1, <2>3
    <3>2. grown[i + 1] = k - len + (i + 1)
      BY <1>4, <3>1
    <3>3. QED BY <2>1, <3>1, <3>2
  <2>5. Queue(w, k + 1, Len(w))
    BY <1>6, <2>3, <2>4 DEF Queue
  <2>6. QED BY <2>5 DEF w, grown
<1>7. QED BY <1>5, <1>6

LEMMA RoundPosition ==
  ASSUME NEW W \in Nat \ {0}, NEW p \in 0..(W - 1)
  PROVE  (p + 1) % W = IF p + 1 = W THEN 0 ELSE p + 1
  OBVIOUS

(* The array: a write at pos, which goes round.                             *)
LEMMA RingNext ==
  ASSUME NEW s, NEW k \in Nat, NEW pos, NEW len, Ring(s, k, pos, len)
  PROVE  Ring([s EXCEPT ![pos + 1] = k + 1], k + 1, (pos + 1) % BatteryWindow,
              IF len < BatteryWindow THEN len + 1 ELSE len)
<1> USE MeterAssumption
<1> DEFINE r == [s EXCEPT ![pos + 1] = k + 1]
           len2 == IF len < BatteryWindow THEN len + 1 ELSE len
<1>1. /\ s \in [1..BatteryWindow -> Nat] /\ pos \in 0..(BatteryWindow - 1)
      /\ pos + 1 \in 1..BatteryWindow
      /\ k - pos = 0 \/ k - pos >= BatteryWindow
      /\ len = IF k - pos = 0 THEN pos ELSE BatteryWindow
      /\ len \in 0..BatteryWindow
  BY DEF Ring
<1>2. /\ r \in [1..BatteryWindow -> Nat] /\ r[pos + 1] = k + 1
      /\ \A i \in 1..BatteryWindow : i # pos + 1 => r[i] = s[i]
  BY <1>1
<1>3. \A i \in 1..len :
        s[i] = IF i <= pos THEN k - pos + i ELSE k - pos - BatteryWindow + i
  BY DEF Ring
<1> HIDE DEF r
<1>4. CASE pos + 1 < BatteryWindow
  <2>1. (pos + 1) % BatteryWindow = pos + 1
    BY <1>1, <1>4, RoundPosition
  <2>2. len2 = IF k - pos = 0 THEN pos + 1 ELSE BatteryWindow
    BY <1>1, <1>4
  <2> HIDE DEF len2
  <2>3. ASSUME NEW i \in 1..len2
        PROVE  r[i] = IF i <= pos + 1 THEN (k + 1) - (pos + 1) + i
                      ELSE (k + 1) - (pos + 1) - BatteryWindow + i
    <3>1. CASE i = pos + 1
      BY <1>1, <1>2, <3>1
    <3>2. CASE i # pos + 1
      <4>1. i \in 1..len /\ i \in 1..BatteryWindow
        BY <1>1, <2>2, <3>2
      <4>2. r[i] = s[i]
        BY <1>2, <3>2, <4>1
      <4>3. s[i] = IF i <= pos THEN k - pos + i ELSE k - pos - BatteryWindow + i
        BY <1>3, <4>1
      <4>4. QED BY <1>1, <3>2, <4>1, <4>2, <4>3
    <3>3. QED BY <3>1, <3>2
  <2>4. Ring(r, k + 1, pos + 1, len2)
    BY <1>1, <1>2, <1>4, <2>2, <2>3 DEF Ring
  <2>5. QED BY <2>1, <2>4 DEF r, len2
<1>5. CASE pos + 1 = BatteryWindow
  <2>1. (pos + 1) % BatteryWindow = 0
    BY <1>1, <1>5, RoundPosition
  <2>2. len2 = BatteryWindow
    BY <1>1, <1>5
  <2> HIDE DEF len2
  <2>3. ASSUME NEW i \in 1..BatteryWindow PROVE r[i] = k + 1 - BatteryWindow + i
    <3>1. CASE i = pos + 1
      BY <1>1, <1>2, <1>5, <3>1
    <3>2. CASE i # pos + 1
      <4>1. i \in 1..len /\ i <= pos
        BY <1>1, <1>5, <3>2
      <4>2. r[i] = s[i]
        BY <1>2, <3>2
      <4>3. s[i] = k - pos + i
        BY <1>3, <4>1
      <4>4. QED BY <1>1, <1>5, <4>2, <4>3
    <3>3. QED BY <3>1, <3>2
  <2>4. Ring(r, k + 1, 0, len2)
    BY <1>1, <1>2, <1>5, <2>2, <2>3 DEF Ring
  <2>5. QED BY <2>1, <2>4 DEF r, len2
<1>6. QED BY <1>1, <1>4, <1>5

LEMMA SampleQueue ==
  ASSUME bat.taken \in Nat, Queue(bat.samples, bat.taken, bat.len),
         NEW t, bat' = StdBattery(t)
  PROVE  bat'.taken \in Nat /\ Queue(bat'.samples, bat'.taken, bat'.len)
<1>1. CASE ~StdBatteryDue(t)
  BY <1>1 DEF StdBattery
<1>2. CASE StdBatteryDue(t)
  <2>1. /\ bat'.samples = PushBattery /\ bat'.len = Len(PushBattery)
        /\ bat'.taken = bat.taken + 1
    BY <1>2 DEF StdBattery, Taken
  <2>2. Queue(PushBattery, bat.taken + 1, Len(PushBattery))
    BY QueueNext DEF PushBattery, Taken
  <2>3. QED BY <2>1, <2>2
<1>3. QED BY <1>1, <1>2

LEMMA SampleRing ==
  ASSUME bat.taken \in Nat, Ring(bat.samples, bat.taken, bat.pos, bat.len),
         NEW s, bat' = EmbassyBattery(s)
  PROVE  bat'.taken \in Nat /\ Ring(bat'.samples, bat'.taken, bat'.pos, bat'.len)
<1>1. CASE ~EmbassyBatteryDue(s)
  BY <1>1 DEF EmbassyBattery
<1>2. CASE EmbassyBatteryDue(s)
  <2>1. /\ bat'.samples = [bat.samples EXCEPT ![bat.pos + 1] = bat.taken + 1]
        /\ bat'.pos = (bat.pos + 1) % BatteryWindow
        /\ bat'.len = IF bat.len < BatteryWindow THEN bat.len + 1 ELSE bat.len
        /\ bat'.taken = bat.taken + 1
    BY <1>2 DEF EmbassyBattery, PutBattery, Taken
  <2>2. Ring([bat.samples EXCEPT ![bat.pos + 1] = bat.taken + 1], bat.taken + 1,
             (bat.pos + 1) % BatteryWindow,
             IF bat.len < BatteryWindow THEN bat.len + 1 ELSE bat.len)
    BY RingNext
  <2>3. QED BY <2>1, <2>2
<1>3. QED BY <1>1, <1>2

(* Each pass takes a sample where one is due and shows their mean.          *)
LEMMA WindowStep == WindowInv /\ [MeterNext]_meterVars => WindowInv'
<1> SUFFICES ASSUME WindowInv, [MeterNext]_meterVars PROVE WindowInv'
  OBVIOUS
<1>1. CASE Pass
  <2>1. /\ fw' = fw /\ fw \in {"std", "embassy"}
        /\ \/ fw = "std" /\ \E t : bat' = StdBattery(t)
           \/ fw = "embassy" /\ \E s : bat' = EmbassyBattery(s)
        /\ \/ sensors' = [sensors EXCEPT !.battery = Averaged(bat')]
           \/ \E f : sensors' = [flow |-> f, battery |-> Averaged(bat')]
    <3>1. PICK d \in 1..MaxStep, n \in 0..MaxPulses :
            \/ StdIdlePass(d, n)
            \/ \E ok \in BOOLEAN : StdFlowPass(d, n, ok)
            \/ EmbassyPass(n)
      BY <1>1 DEF Pass
    <3>2. CASE StdIdlePass(d, n)
      BY <3>2 DEF StdIdlePass
    <3>3. CASE \E ok \in BOOLEAN : StdFlowPass(d, n, ok)
      BY <3>3 DEF StdFlowPass
    <3>4. CASE EmbassyPass(n)
      BY <3>4 DEF EmbassyPass
    <3>5. QED BY <3>1, <3>2, <3>3, <3>4
  <2>2. sensors' = [flow |-> sensors'.flow, battery |-> Averaged(bat')]
    BY <2>1 DEF WindowInv
  <2>3. CASE fw = "std"
    BY <2>1, <2>2, <2>3, SampleQueue DEF WindowInv, Averaged
  <2>4. CASE fw = "embassy"
    BY <2>1, <2>2, <2>4, SampleRing DEF WindowInv, Averaged
  <2>5. QED BY <2>1, <2>3, <2>4
<1>2. CASE UNCHANGED meterVars
  BY <1>2 DEF meterVars, device, WindowInv, Averaged
<1>3. QED BY <1>1, <1>2 DEF MeterNext, Done

(* Both windows hold the newest samples and no others.                      *)
LEMMA QueueHolds ==
  ASSUME NEW s, NEW k \in Nat, NEW len, Queue(s, k, len)
  PROVE  {s[i] : i \in 1..len} = {j \in 1..k : j > k - BatteryWindow}
<1> USE MeterAssumption
<1>1. len \in Nat /\ len = IF k < BatteryWindow THEN k ELSE BatteryWindow
  BY DEF Queue
<1>2. \A i \in 1..len : s[i] = k - len + i
  BY DEF Queue
<1>3. ASSUME NEW i \in 1..len PROVE s[i] \in 1..k /\ s[i] > k - BatteryWindow
  BY <1>1, <1>2
<1>4. ASSUME NEW j \in 1..k, j > k - BatteryWindow
      PROVE  \E i \in 1..len : s[i] = j
  <2>1. j - k + len \in 1..len /\ k - len + (j - k + len) = j
    BY <1>1, <1>4
  <2>2. QED BY <1>2, <2>1
<1>5. QED BY <1>3, <1>4

LEMMA RingHolds ==
  ASSUME NEW s, NEW k \in Nat, NEW pos, NEW len, Ring(s, k, pos, len)
  PROVE  {s[i] : i \in 1..len} = {j \in 1..k : j > k - BatteryWindow}
<1> USE MeterAssumption
<1>1. /\ pos \in 0..(BatteryWindow - 1)
      /\ k - pos = 0 \/ k - pos >= BatteryWindow
      /\ len = IF k - pos = 0 THEN pos ELSE BatteryWindow
  BY DEF Ring
<1>2. \A i \in 1..len :
        s[i] = IF i <= pos THEN k - pos + i ELSE k - pos - BatteryWindow + i
  BY DEF Ring
<1>3. ASSUME NEW i \in 1..len PROVE s[i] \in 1..k /\ s[i] > k - BatteryWindow
  <2>1. s[i] = IF i <= pos THEN k - pos + i ELSE k - pos - BatteryWindow + i
    BY <1>2
  <2>2. QED BY <1>1, <2>1
<1>4. ASSUME NEW j \in 1..k, j > k - BatteryWindow
      PROVE  \E i \in 1..len : s[i] = j
  <2> DEFINE i == IF j > k - pos THEN j - (k - pos) ELSE j - (k - pos) + BatteryWindow
  <2>1. /\ i \in 1..len
        /\ j = IF i <= pos THEN k - pos + i ELSE k - pos - BatteryWindow + i
    BY <1>1, <1>4
  <2> HIDE DEF i
  <2>2. QED BY <1>2, <2>1
<1>5. QED BY <1>3, <1>4

(* The battery voltage shown is the mean of the newest samples, for every   *)
(* window, in the std firmware's queue and in the embassy firmware's array. *)
THEOREM NewestBattery == MeterSpec => []BatteryIsNewest
<1>1. WindowInv => BatteryIsNewest
  <2> SUFFICES ASSUME WindowInv PROVE BatteryIsNewest
    OBVIOUS
  <2>1. /\ sensors.battery = {bat.samples[i] : i \in 1..bat.len}
        /\ bat.taken \in Nat /\ fw \in {"std", "embassy"}
        /\ fw = "std" => Queue(bat.samples, bat.taken, bat.len)
        /\ fw = "embassy" => Ring(bat.samples, bat.taken, bat.pos, bat.len)
    BY DEF WindowInv, Averaged
  <2>2. QED BY <2>1, QueueHolds, RingHolds DEF BatteryIsNewest
<1>2. QED BY <1>1, WindowInit, WindowStep, PTL DEF MeterSpec
=============================================================================
