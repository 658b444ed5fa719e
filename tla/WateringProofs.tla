--------------------------- MODULE WateringProofs ---------------------------
(***************************************************************************)
(* Theorems about what waters on its own: SprinklerDrive, for every set of  *)
(* callers, limits and overrides, and every bound on the threads' delays;   *)
(* and Schedule, for every list of rules, calendar and step of the clock.   *)
(***************************************************************************)
EXTENDS SprinklerDrive, Schedule, SelectionProofs

(* A method of the switch yields a switch; the limit in force is made of    *)
(* numbers.                                                                 *)
LEMMA SwitchMethodsType ==
  ASSUME NEW s \in Switch, NEW now \in Nat, NEW l \in Limit
  PROVE  /\ New(l) \in Switch /\ SetAutoOff(s, l) \in Switch
         /\ TurnOn(s, now, l) \in Switch /\ TurnOff(s) \in Switch
         /\ Tick(s, now) \in Switch
         /\ EffectiveLimit(s) \subseteq Nat
<1>1. {} \in Limit /\ \A x \in Limit : x \subseteq Nat
  BY DEF Limit
<1>2. New(l) \in Switch /\ SetAutoOff(s, l) \in Switch /\ TurnOff(s) \in Switch
  BY <1>1 DEF Switch, New, SetAutoOff, TurnOff
<1>3. TurnOn(s, now, l) \in Switch
  BY <1>1 DEF Switch, TurnOn
<1>4. Tick(s, now) \in Switch
  BY <1>2 DEF Tick
<1>5. EffectiveLimit(s) \subseteq Nat
  BY <1>1 DEF Switch, EffectiveLimit
<1>6. QED BY <1>2, <1>3, <1>4, <1>5

(* Every step keeps every variable in its type.                             *)
LEMMA TypeStep == TypeOK /\ [Next]_vars => TypeOK'
<1> SUFFICES ASSUME TypeOK, [Next]_vars PROVE TypeOK'
  OBVIOUS
<1> USE SprinklerAssumption
<1>0. {} \in Limit /\ NoCmd \in [pc : {"none", "lock"}, now : Nat, do : Command]
  BY DEF Limit, NoCmd, Command
<1>1. CASE Advance
  BY <1>1 DEF TypeOK, Advance
<1>2. ASSUME NEW c \in Callers, NEW do \in Manual \cup Scheduled, CmdRead(c, do)
      PROVE  TypeOK'
  <2>1. do \in Command
    BY <1>0, <1>2 DEF Manual, Scheduled, Command
  <2>2. QED BY <1>2, <2>1 DEF TypeOK, CmdRead
<1>3. ASSUME NEW c \in Callers, CmdExec(c)
      PROVE  TypeOK'
  <2>1. sw' \in Switch
    BY <1>3, SwitchMethodsType DEF TypeOK, CmdExec, Commanded, Command
  <2>2. QED BY <1>0, <1>3, <2>1 DEF TypeOK, CmdExec, RecordChange
<1>4. ASSUME NEW l \in Limits, ReplaceLimit(l)
      PROVE  TypeOK'
  <2>1. sw' \in Switch
    BY <1>4, SwitchMethodsType DEF TypeOK, ReplaceLimit
  <2>2. QED BY <1>4, <2>1 DEF TypeOK, ReplaceLimit
<1>5. CASE TickRead
  BY <1>5 DEF TypeOK, TickRead
<1>6. CASE TickSwitch
  <2>1. sw' \in Switch
    BY <1>0, <1>6, SwitchMethodsType DEF TypeOK, TickSwitch
  <2>2. QED BY <1>6, <2>1 DEF TypeOK, TickSwitch, RecordChange
<1>7. CASE TickMirror
  BY <1>7 DEF TypeOK, TickMirror, Switch
<1>8. CASE TickPin
  BY <1>8 DEF TypeOK, TickPin
<1>9. ASSUME NEW l \in Limits, Crash(l)
      PROVE  TypeOK'
  <2>1. sw' \in Switch
    BY <1>9, SwitchMethodsType DEF TypeOK, Crash
  <2>2. QED BY <1>0, <1>9, <2>1 DEF TypeOK, Crash, RecordChange
<1>10. CASE UNCHANGED vars
  BY <1>10 DEF TypeOK, vars
<1>11. QED
  BY <1>1, <1>2, <1>3, <1>4, <1>5, <1>6, <1>7, <1>8, <1>9, <1>10 DEF Next

-----------------------------------------------------------------------------
(* The delays: no thread acts on a clock reading older than its bound, and  *)
(* the switch's own time stamp is at most CmdLag older than the change.     *)
TimeInv ==
  /\ tick.now <= clock /\ clock <= tick.now + TickGap
  /\ tick.pc # "sleep" => clock <= tick.now + TickLag
  /\ changedAt <= clock /\ limitedAt <= clock
  /\ \A c \in Callers :
       cmd[c].pc = "lock" => /\ cmd[c].now <= clock
                            /\ clock <= cmd[c].now + CmdLag
  /\ sw.on => sw.on_since <= changedAt /\ changedAt <= sw.on_since + CmdLag

(* A tick that has been through the switch leaves it on only if its limit   *)
(* had not passed, or a command or a new limit came after it; one that has  *)
(* not is at most TickGap later than one that has.                          *)
Due(d) == Larger(changedAt + d, limitedAt)

RunInv ==
  sw.on =>
    \A d \in EffectiveLimit(sw) :
      /\ tick.now <= Due(d) + TickGap
      /\ tick.pc # "switch" => tick.now <= Due(d)

(* What a tick has read and written is the switch's state, unless the       *)
(* switch changed after the tick's clock reading.                           *)
PinInv ==
  /\ tick.pc = "sleep" => (pin = sw.on \/ changedAt >= tick.now)
  /\ tick.pc # "sleep" => (pin = sw.on \/ changedAt + TickGap >= tick.now)
  /\ tick.pc = "pin"   => (tick.on = sw.on \/ changedAt >= tick.now)

Inv == TypeOK /\ TimeInv /\ RunInv /\ PinInv

(* A tick leaves the switch alone, or switches it off at its limit.         *)
LEMMA TickEffect ==
  ASSUME NEW s \in Switch, NEW now \in Nat
  PROVE  \/ Tick(s, now) = s
         \/ s.on /\ Expired(s, now) /\ ~Tick(s, now).on
  BY DEF Tick, TurnOff, Switch

(* A command leaves the switch alone, switches it off, or switches it on    *)
(* from off and stamps it.                                                  *)
LEMMA CommandEffect ==
  ASSUME NEW s \in Switch, NEW now \in Nat, NEW do \in Command
  PROVE  LET r == Commanded(s, do, now)
         IN  r = s \/ ~r.on \/ (~s.on /\ r.on /\ r.on_since = now)
<1>1. CASE do.on
  BY <1>1 DEF Commanded, TurnOn, Switch
<1>2. CASE ~do.on
  BY <1>2 DEF Commanded, TurnOff, Switch
<1>3. QED BY <1>1, <1>2

LEMMA TimeStep == TypeOK /\ TypeOK' /\ TimeInv /\ [Next]_vars => TimeInv'
<1> SUFFICES ASSUME TypeOK, TypeOK', TimeInv, [Next]_vars PROVE TimeInv'
  OBVIOUS
<1> USE SprinklerAssumption
<1>0. /\ clock \in Nat /\ tick.now \in Nat /\ changedAt \in Nat
      /\ limitedAt \in Nat /\ sw.on_since \in Nat
      /\ \A c \in Callers : cmd[c].now \in Nat
  BY DEF TypeOK, Switch
<1>1. CASE Advance
  BY <1>0, <1>1 DEF TimeInv, Advance
<1>2. ASSUME NEW c \in Callers, NEW do \in Manual \cup Scheduled, CmdRead(c, do)
      PROVE  TimeInv'
  BY <1>0, <1>2 DEF TimeInv, CmdRead, TypeOK
<1>3. ASSUME NEW c \in Callers, CmdExec(c)
      PROVE  TimeInv'
  <2>1. /\ cmd[c].now <= clock /\ clock <= cmd[c].now + CmdLag
        /\ \/ sw' = sw
           \/ ~sw'.on
           \/ ~sw.on /\ sw'.on /\ sw'.on_since = cmd[c].now
    BY <1>3, CommandEffect DEF TimeInv, CmdExec, TypeOK
  <2>2. changedAt' = IF sw'.on # sw.on THEN clock ELSE changedAt
    BY <1>3 DEF CmdExec, RecordChange
  <2>3. sw'.on => sw'.on_since <= changedAt' /\ changedAt' <= sw'.on_since + CmdLag
    BY <1>0, <2>1, <2>2 DEF TimeInv
  <2>4. QED BY <1>0, <1>3, <2>2, <2>3 DEF TimeInv, CmdExec, TypeOK, NoCmd
<1>4. ASSUME NEW l \in Limits, ReplaceLimit(l)
      PROVE  TimeInv'
  BY <1>0, <1>4 DEF TimeInv, ReplaceLimit, SetAutoOff, TypeOK, Switch
<1>5. CASE TickRead
  BY <1>0, <1>5 DEF TimeInv, TickRead
<1>6. CASE TickSwitch
  <2>1. sw' = sw \/ ~sw'.on
    BY <1>6, TickEffect DEF TickSwitch, TypeOK
  <2>2. tick'.now = tick.now /\ tick'.pc = "mirror" /\ tick.pc = "switch"
    BY <1>6 DEF TickSwitch, TypeOK
  <2>3. changedAt' = IF sw'.on # sw.on THEN clock ELSE changedAt
    BY <1>6 DEF TickSwitch, RecordChange
  <2>4. QED BY <1>0, <1>6, <2>1, <2>2, <2>3 DEF TimeInv, TickSwitch
<1>7. CASE TickMirror
  BY <1>0, <1>7 DEF TimeInv, TickMirror, TypeOK
<1>8. CASE TickPin
  BY <1>0, <1>8 DEF TimeInv, TickPin, TypeOK
<1>9. ASSUME NEW l \in Limits, Crash(l)
      PROVE  TimeInv'
  <2>1. ~sw'.on /\ (changedAt' = clock \/ changedAt' = changedAt)
    BY <1>9 DEF Crash, RecordChange, New
  <2>2. \A c \in Callers : cmd'[c].pc = "none"
    BY <1>9 DEF Crash, NoCmd
  <2>3. /\ tick'.now = clock /\ tick'.pc = "sleep" /\ clock' = clock
        /\ limitedAt' = clock
    BY <1>9 DEF Crash
  <2>4. QED BY <1>0, <2>1, <2>2, <2>3 DEF TimeInv
<1>10. CASE UNCHANGED vars
  BY <1>10 DEF TimeInv, vars
<1>11. QED
  BY <1>1, <1>2, <1>3, <1>4, <1>5, <1>6, <1>7, <1>8, <1>9, <1>10 DEF Next

-----------------------------------------------------------------------------
(* A command keeps the deadline, and a tick that has looked at the switch   *)
(* has no expired one left on.                                              *)
LEMMA RunStep ==
  TypeOK /\ TypeOK' /\ TimeInv /\ RunInv /\ [Next]_vars => RunInv'
<1> SUFFICES ASSUME TypeOK, TypeOK', TimeInv, RunInv, [Next]_vars,
                    sw'.on, NEW d \in EffectiveLimit(sw)'
             PROVE  /\ tick'.now <= Due(d)' + TickGap
                    /\ tick'.pc # "switch" => tick'.now <= Due(d)'
  BY DEF RunInv
<1> USE SprinklerAssumption
<1>0. /\ clock \in Nat /\ tick.now \in Nat /\ changedAt \in Nat
      /\ limitedAt \in Nat /\ sw.on_since \in Nat /\ sw \in Switch
      /\ sw' \in Switch /\ EffectiveLimit(sw)' \subseteq Nat
      /\ tick.now <= clock /\ clock <= tick.now + TickGap
  <2>1. sw' \in Switch
    BY DEF TypeOK
  <2>2. {} \in Limit
    BY DEF Limit
  <2>3. EffectiveLimit(sw)' \subseteq Nat
    BY <2>1, <2>2, SwitchMethodsType DEF EffectiveLimit
  <2>4. QED BY <2>1, <2>3 DEF TypeOK, Switch, TimeInv
<1>1. ASSUME NEW c \in Callers, CmdExec(c)
      PROVE  /\ tick'.now <= Due(d)' + TickGap
             /\ tick'.pc # "switch" => tick'.now <= Due(d)'
  <2>1. /\ tick' = tick /\ limitedAt' = limitedAt /\ cmd[c].now \in Nat
        /\ cmd[c].do \in Command
        /\ sw' = Commanded(sw, cmd[c].do, cmd[c].now)
        /\ changedAt' = IF sw'.on # sw.on THEN clock ELSE changedAt
    BY <1>1 DEF CmdExec, RecordChange, TypeOK
  <2>2. CASE sw' = sw
    BY <1>0, <2>1, <2>2 DEF RunInv, EffectiveLimit, Due
  <2>3. CASE ~sw.on
    <3>1. sw'.on # sw.on
      BY <2>3
    <3>2. changedAt' = clock
      BY <2>1, <3>1
    <3>3. d \in Nat /\ tick'.now = tick.now
      BY <1>0, <2>1
    <3>4. Due(d)' = Larger(clock + d, limitedAt)
      BY <2>1, <3>2 DEF Due
    <3>5. QED BY <1>0, <3>3, <3>4 DEF Larger
  <2>4. sw' = sw \/ ~sw'.on \/ ~sw.on
    BY <1>0, <2>1, CommandEffect
  <2>5. QED BY <2>2, <2>3, <2>4
<1>2. ASSUME NEW l \in Limits, ReplaceLimit(l)
      PROVE  /\ tick'.now <= Due(d)' + TickGap
             /\ tick'.pc # "switch" => tick'.now <= Due(d)'
  BY <1>0, <1>2 DEF ReplaceLimit, Due, Larger
<1>3. ASSUME TickRead
      PROVE  /\ tick'.now <= Due(d)' + TickGap
             /\ tick'.pc # "switch" => tick'.now <= Due(d)'
  <2>1. /\ sw' = sw /\ Due(d)' = Due(d) /\ d \in EffectiveLimit(sw)
        /\ tick.now <= Due(d) /\ Due(d) \in Nat
        /\ tick'.now = clock /\ tick'.pc = "switch"
    BY <1>0, <1>3 DEF TickRead, Due, Larger, EffectiveLimit, RunInv
  <2>2. QED BY <1>0, <2>1
<1>4. ASSUME TickSwitch
      PROVE  /\ tick'.now <= Due(d)' + TickGap
             /\ tick'.pc # "switch" => tick'.now <= Due(d)'
  <2>1. sw' = sw /\ tick'.now = tick.now
    BY <1>0, <1>4, TickEffect DEF TickSwitch, TypeOK
  <2>2. ~Expired(sw, tick.now)
    BY <1>4, <2>1 DEF TickSwitch, Tick, TurnOff, TypeOK, Switch
  <2>3. tick.now < sw.on_since + d
    BY <1>0, <2>1, <2>2 DEF Expired, EffectiveLimit
  <2>4. changedAt' = changedAt /\ limitedAt' = limitedAt /\ sw.on
    BY <1>4, <2>1 DEF TickSwitch, RecordChange
  <2>5. QED BY <1>0, <2>1, <2>3, <2>4 DEF TimeInv, Due, Larger
<1>5. ASSUME NEW l \in Limits, Crash(l)
      PROVE  FALSE
  BY <1>5 DEF Crash, New
<1>6. ASSUME sw' = sw, changedAt' = changedAt, limitedAt' = limitedAt,
             tick'.now = tick.now, tick'.pc # "switch" => tick.pc # "switch"
      PROVE  /\ tick'.now <= Due(d)' + TickGap
             /\ tick'.pc # "switch" => tick'.now <= Due(d)'
  BY <1>0, <1>6 DEF RunInv, EffectiveLimit, Due
<1>7. QED
  BY <1>1, <1>2, <1>3, <1>4, <1>5, <1>6
     DEF Next, Advance, CmdRead, TickMirror, TickPin, vars, TypeOK

(* No state of the switch is lost on its way to the pin.                    *)
LEMMA PinStep ==
  TypeOK /\ TypeOK' /\ TimeInv /\ PinInv /\ [Next]_vars => PinInv'
<1> SUFFICES ASSUME TypeOK, TypeOK', TimeInv, PinInv, [Next]_vars PROVE PinInv'
  OBVIOUS
<1> USE SprinklerAssumption
<1>0. /\ clock \in Nat /\ tick.now \in Nat /\ changedAt \in Nat
      /\ pin \in BOOLEAN /\ sw.on \in BOOLEAN /\ tick.on \in BOOLEAN
      /\ sw'.on \in BOOLEAN /\ tick.now <= clock /\ clock <= tick.now + TickGap
  BY DEF TypeOK, Switch, TimeInv
<1>1. ASSUME tick' = tick, pin' = pin,
             changedAt' = IF sw'.on # sw.on THEN clock ELSE changedAt
      PROVE  PinInv'
  BY <1>0, <1>1 DEF PinInv
<1>2. CASE TickRead
  BY <1>0, <1>2 DEF PinInv, TickRead
<1>3. CASE TickSwitch
  <2>1. /\ tick'.now = tick.now /\ tick'.pc = "mirror" /\ tick.pc = "switch"
        /\ changedAt' = IF sw'.on # sw.on THEN clock ELSE changedAt
        /\ pin' = pin
    BY <1>3 DEF TickSwitch, RecordChange, TypeOK
  <2>2. QED BY <1>0, <2>1 DEF PinInv
<1>4. CASE TickMirror
  BY <1>0, <1>4 DEF PinInv, TickMirror, TypeOK
<1>5. CASE TickPin
  BY <1>0, <1>5 DEF PinInv, TickPin, TypeOK
<1>6. ASSUME NEW l \in Limits, Crash(l) PROVE PinInv'
  BY <1>0, <1>6 DEF PinInv, Crash, New, RecordChange
<1>7. QED
  BY <1>1, <1>2, <1>3, <1>4, <1>5, <1>6
     DEF Next, Advance, CmdRead, CmdExec, ReplaceLimit, SetAutoOff,
         RecordChange, vars, TypeOK, Switch

-----------------------------------------------------------------------------
(* The inductive invariant.                                                 *)
LEMMA Inductive == Spec => []Inv
<1>1. ASSUME Init PROVE Inv
  <2>1. PICK l \in Limits : sw = New(l)
    BY <1>1 DEF Init
  <2>2. {} \in Limit /\ l \in Limit
    BY SprinklerAssumption DEF Limit
  <2>3. sw \in Switch /\ ~sw.on
    BY <2>1, <2>2 DEF New, Switch
  <2>4. TypeOK
    BY <1>1, <2>2, <2>3 DEF Init, TypeOK, NoCmd, Command
  <2>5. TimeInv /\ RunInv /\ PinInv
    BY <1>1, <2>3, SprinklerAssumption DEF Init, TimeInv, RunInv, PinInv, NoCmd
  <2>6. QED BY <2>4, <2>5 DEF Inv
<1>2. Inv /\ [Next]_vars => Inv'
  BY TypeStep, TimeStep, RunStep, PinStep DEF Inv
<1>3. QED BY <1>1, <1>2, PTL DEF Spec

(* Type correctness.                                                        *)
THEOREM TypeCorrect == Spec => []TypeOK
  BY Inductive, PTL DEF Inv

(* A sprinkler with a time limit is switched off in time.                   *)
THEOREM LimitedRun == Spec => []RunIsLimited
<1>1. Inv => RunIsLimited
  <2> SUFFICES ASSUME Inv, sw.on, NEW d \in EffectiveLimit(sw)
               PROVE  clock <= Due(d) + TickGap + TickLag
    BY DEF RunIsLimited, Due
  <2>1. {} \in Limit /\ sw \in Switch
    BY DEF Limit, Inv, TypeOK
  <2>2. d \in Nat
    BY <2>1, SwitchMethodsType
  <2>3. Due(d) \in Nat
    BY <2>2 DEF Inv, TypeOK, Due, Larger
  <2>4. QED
    BY <2>3, SprinklerAssumption DEF Inv, TypeOK, TimeInv, RunInv
<1>2. QED BY <1>1, Inductive, PTL

(* The pin follows the switch within a tick and its delays.                 *)
THEOREM PinTracking == Spec => []PinFollowsSwitch
<1>1. Inv => PinFollowsSwitch
  BY SprinklerAssumption DEF Inv, TypeOK, TimeInv, PinInv, PinFollowsSwitch
<1>2. QED BY <1>1, Inductive, PTL

(* The timer never cuts a run short by more than CmdLag.                    *)
THEOREM FullRun == Spec => NotCutShort
<1>1. Inv /\ [Next]_vars =>
        [(TickSwitch /\ sw.on /\ ~sw'.on) =>
           \A d \in EffectiveLimit(sw) : clock + CmdLag >= changedAt + d]_vars
  <2> SUFFICES ASSUME Inv, TickSwitch, sw.on, ~sw'.on,
                      NEW d \in EffectiveLimit(sw)
               PROVE  clock + CmdLag >= changedAt + d
    OBVIOUS
  <2>1. /\ {} \in Limit /\ sw \in Switch /\ sw.on_since \in Nat
        /\ clock \in Nat /\ changedAt \in Nat /\ tick.now \in Nat
        /\ tick.now <= clock /\ changedAt <= clock
        /\ sw.on_since <= changedAt /\ changedAt <= sw.on_since + CmdLag
    BY DEF Limit, Inv, TypeOK, Switch, TimeInv
  <2>2. d \in Nat
    BY <2>1, SwitchMethodsType
  <2>3. Expired(sw, tick.now)
    BY <2>1, TickEffect DEF TickSwitch
  <2>4. \A e \in EffectiveLimit(sw) : e = d
    BY <2>1 DEF Switch, Limit, EffectiveLimit
  <2>5. (IF tick.now > sw.on_since THEN tick.now - sw.on_since ELSE 0) >= d
    BY <2>3, <2>4 DEF Expired
  <2>6. QED BY <2>1, <2>2, <2>5, SprinklerAssumption
<1>2. QED BY <1>1, Inductive, PTL DEF Spec, NotCutShort

-----------------------------------------------------------------------------
(* The calendar.                                                            *)

\* The minutes that have begun by t are those up to t's own.
LEMMA MinuteOf ==
  ASSUME NEW M \in Nat \ {0}, NEW t \in Nat, NEW m \in Nat
  PROVE  /\ t \div M \in Nat
         /\ m <= t \div M <=> m * M <= t
<1> DEFINE q == t \div M
<1>1. q \in Nat /\ q * M <= t /\ t < q * M + M
  OBVIOUS
<1> HIDE DEF q
<1>2. ASSUME m <= q PROVE m * M <= t
  <2>1. PICK d \in Nat : q = m + d
    <3>1. q - m \in Nat /\ q = m + (q - m)
      BY <1>1, <1>2
    <3>2. QED BY <3>1
  <2>2. q * M = m * M + d * M /\ d * M \in Nat /\ m * M \in Nat
    BY <2>1
  <2>3. q * M \in Nat
    BY <1>1
  <2>4. QED BY <1>1, <2>2, <2>3
<1>3. ASSUME ~(m <= q) PROVE ~(m * M <= t)
  <2>1. PICK d \in Nat : m = q + 1 + d
    <3>1. m - (q + 1) \in Nat /\ m = q + 1 + (m - (q + 1))
      BY <1>1, <1>3
    <3>2. QED BY <3>1
  <2>2. m * M = q * M + M + d * M /\ d * M \in Nat /\ q * M \in Nat
    BY <1>1, <2>1
  <2>3. m * M \in Nat
    OBVIOUS
  <2>4. QED BY <1>1, <2>2, <2>3
<1>4. QED BY <1>1, <1>2, <1>3 DEF q

\* The rules of one minute, in their order.
LEMMA DueAtOnce ==
  ASSUME Calendar, NEW m \in Minutes
  PROVE  /\ DueAt(m) \in Seq(Hit)
         /\ \A k \in DOMAIN DueAt(m) :
              /\ DueAt(m)[k].minute = m
              /\ Matches(Rules[DueAt(m)[k].rule], m)
         /\ \A hit \in Hit : hit.minute = m /\ Matches(Rules[hit.rule], m) =>
              \E k \in DOMAIN DueAt(m) : DueAt(m)[k] = hit
         /\ \A k, l \in DOMAIN DueAt(m) : DueAt(m)[k] = DueAt(m)[l] => k = l
<1> DEFINE all == [i \in RuleIds |-> [rule |-> i, minute |-> m]]
           T == {hit \in [rule : RuleIds, minute : {m}] : Matches(Rules[hit.rule], m)}
           r == SelectIn(all, T)
<1>1. Rules \in Seq(Rule) /\ RuleIds = 1 .. Len(Rules) /\ Len(Rules) \in Nat
  BY DEF Calendar, RuleIds
<1>2. all \in Seq(Hit) /\ Len(all) = Len(Rules)
  <2>1. \A i \in RuleIds : [rule |-> i, minute |-> m] \in Hit
    BY DEF Hit
  <2>2. QED BY <1>1, <2>1
<1>3. \A i \in RuleIds : all[i] = [rule |-> i, minute |-> m]
  OBVIOUS
<1>4. \A hit : hit \in T <=> /\ hit \in [rule : RuleIds, minute : {m}]
                             /\ Matches(Rules[hit.rule], m)
  OBVIOUS
<1>5. DueAt(m) = r
  BY DEF DueAt
<1> HIDE DEF all, T
<1>6. r \in Seq(Hit) /\ \E at : Selects(r, at, all, T, Len(all))
  BY <1>2, SelectInSelects
<1>7. PICK at : Selects(r, at, all, T, Len(all))
  BY <1>6
<1> HIDE DEF r
<1>8. DOMAIN r = 1 .. Len(r) /\ Len(r) \in Nat
  BY <1>6
<1>9. ASSUME NEW k \in DOMAIN r
      PROVE  /\ at[k] \in RuleIds /\ r[k] = [rule |-> at[k], minute |-> m]
             /\ Matches(Rules[at[k]], m)
  <2>1. at[k] \in RuleIds /\ r[k] = all[at[k]] /\ r[k] \in T
    BY <1>1, <1>2, <1>7, <1>8 DEF Selects
  <2>2. r[k] = [rule |-> at[k], minute |-> m]
    BY <1>3, <2>1
  <2>3. Matches(Rules[r[k].rule], m)
    BY <1>4, <2>1
  <2>4. QED BY <2>1, <2>2, <2>3
<1>10. ASSUME NEW hit \in Hit, hit.minute = m, Matches(Rules[hit.rule], m)
       PROVE  \E k \in DOMAIN r : r[k] = hit
  <2>1. hit.rule \in RuleIds /\ hit = [rule |-> hit.rule, minute |-> m]
    BY <1>10 DEF Hit
  <2>2. all[hit.rule] = hit
    BY <1>3, <2>1
  <2>3. hit \in T
    BY <1>4, <1>10, <2>1
  <2>4. PICK k \in 1 .. Len(r) : at[k] = hit.rule
    BY <1>1, <1>2, <1>7, <2>1, <2>2, <2>3 DEF Selects
  <2>5. QED BY <1>8, <1>9, <2>1, <2>4
<1>11. ASSUME NEW k \in DOMAIN r, NEW l \in DOMAIN r, r[k] = r[l] PROVE k = l
  <2>1. at[k] = at[l]
    BY <1>9, <1>11
  <2>2. at[k] \in Nat /\ at[l] \in Nat /\ k \in Nat /\ l \in Nat
    BY <1>1, <1>8, <1>9
  <2>3. (k < l => at[k] < at[l]) /\ (l < k => at[l] < at[k])
    BY <1>7, <1>8 DEF Selects
  <2>4. QED BY <2>1, <2>2, <2>3
<1>12. QED BY <1>5, <1>6, <1>9, <1>10, <1>11

\* The loop of evaluate_range: what falls due in the minutes it visits, once.
LEMMA ScanOnce ==
  ASSUME Calendar, NEW t \in Nat, NEW end \in Minutes, t <= end + 1, NEW n \in Nat
  PROVE  LET s == Scan(t, end, n)
         IN  /\ s \in Seq(Hit)
             /\ \A k \in DOMAIN s :
                  /\ Matches(Rules[s[k].rule], s[k].minute)
                  /\ t <= s[k].minute /\ s[k].minute <= end
             /\ end - t + 1 <= n =>
                  \A hit \in Hit :
                    /\ Matches(Rules[hit.rule], hit.minute)
                    /\ t <= hit.minute /\ hit.minute <= end
                    => \E k \in DOMAIN s : s[k] = hit
             /\ \A k, l \in DOMAIN s : s[k] = s[l] => k = l
<1> DEFINE iters == IF end - t + 1 < n THEN end - t + 1 ELSE n
           ss == [i \in 1 .. iters |-> DueAt(t + i - 1)]
           s == Joined(ss)
<1>1. Scan(t, end, n) = s
  BY DEF Scan
<1>2. /\ end \in Nat /\ Minutes \subseteq Nat
      /\ \A m \in Nat : m <= end => m \in Minutes
  <2>1. MaxLocal \div Minute \in Nat
    BY MinuteOf DEF Calendar
  <2>2. Minutes = 0 .. (MaxLocal \div Minute)
    BY DEF Minutes, FloorToMinute
  <2>3. QED BY <2>1, <2>2
<1>3. iters \in Nat /\ iters <= end - t + 1 /\ (end - t + 1 <= n => iters = end - t + 1)
  BY <1>2
<1> HIDE DEF iters
<1>4. \A i \in 1 .. iters : t + i - 1 \in Minutes /\ t <= t + i - 1 /\ t + i - 1 <= end
  BY <1>2, <1>3
<1>5. \A i \in 1 .. iters : DueAt(t + i - 1) \in Seq(Hit)
  BY <1>4, DueAtOnce
<1>6. ss \in Seq(Seq(Hit)) /\ Len(ss) = iters
  BY <1>3, <1>5
<1>7. \A i \in 1 .. iters : ss[i] = DueAt(t + i - 1)
  OBVIOUS
<1> HIDE DEF ss
<1>8. ASSUME NEW i \in 1 .. iters
      PROVE  /\ \A k \in DOMAIN ss[i] :
                  /\ ss[i][k].minute = t + i - 1
                  /\ Matches(Rules[ss[i][k].rule], t + i - 1)
             /\ \A hit \in Hit :
                  hit.minute = t + i - 1 /\ Matches(Rules[hit.rule], t + i - 1) =>
                  \E k \in DOMAIN ss[i] : ss[i][k] = hit
             /\ \A k, l \in DOMAIN ss[i] : ss[i][k] = ss[i][l] => k = l
  <2>1. ss[i] = DueAt(t + i - 1) /\ t + i - 1 \in Minutes
    BY <1>4, <1>7
  <2>2. QED BY <2>1, DueAtOnce
<1>9. ASSUME NEW i \in 1 .. iters, NEW j \in 1 .. iters,
             NEW k \in DOMAIN ss[i], NEW l \in DOMAIN ss[j], ss[i][k] = ss[j][l]
      PROVE  i = j /\ k = l
  <2>1. t + i - 1 = t + j - 1
    BY <1>8, <1>9
  <2>2. i = j
    BY <2>1
  <2>3. QED BY <1>8, <1>9, <2>2
<1>10. /\ s \in Seq(Hit)
       /\ \A k \in DOMAIN s : \E i \in 1 .. iters : \E l \in DOMAIN ss[i] : s[k] = ss[i][l]
       /\ \A i \in 1 .. iters : \A l \in DOMAIN ss[i] : \E k \in DOMAIN s : s[k] = ss[i][l]
       /\ \A k, l \in DOMAIN s : s[k] = s[l] => k = l
  <2>1. \A i, j \in 1 .. Len(ss) : \A k \in DOMAIN ss[i], l \in DOMAIN ss[j] :
          ss[i][k] = ss[j][l] => i = j /\ k = l
    BY <1>6, <1>9
  <2>2. /\ Joined(ss) \in Seq(Hit)
        /\ \A k \in DOMAIN Joined(ss) :
             \E i \in 1 .. Len(ss) : \E l \in DOMAIN ss[i] : Joined(ss)[k] = ss[i][l]
        /\ \A i \in 1 .. Len(ss) : \A l \in DOMAIN ss[i] :
             \E k \in DOMAIN Joined(ss) : Joined(ss)[k] = ss[i][l]
    BY <1>6, JoinedCollects
  <2>3. \A k, l \in DOMAIN Joined(ss) : Joined(ss)[k] = Joined(ss)[l] => k = l
    BY <1>6, <2>1, JoinedCollects
  <2>4. QED BY <1>6, <2>2, <2>3
<1> HIDE DEF s
<1>11. ASSUME NEW k \in DOMAIN s
       PROVE  /\ Matches(Rules[s[k].rule], s[k].minute)
              /\ t <= s[k].minute /\ s[k].minute <= end
  <2>1. PICK i \in 1 .. iters : \E l \in DOMAIN ss[i] : s[k] = ss[i][l]
    BY <1>10
  <2>2. s[k].minute = t + i - 1 /\ Matches(Rules[s[k].rule], t + i - 1)
    BY <1>8, <2>1
  <2>3. QED BY <1>4, <2>2
<1>12. ASSUME end - t + 1 <= n, NEW hit \in Hit, Matches(Rules[hit.rule], hit.minute),
              t <= hit.minute, hit.minute <= end
       PROVE  \E k \in DOMAIN s : s[k] = hit
  <2> DEFINE i == hit.minute - t + 1
  <2>1. hit.minute \in Nat
    BY <1>2 DEF Hit
  <2>2. i \in 1 .. iters /\ hit.minute = t + i - 1
    BY <1>2, <1>3, <1>12, <2>1
  <2> HIDE DEF i
  <2>3. PICK l \in DOMAIN ss[i] : ss[i][l] = hit
    BY <1>8, <1>12, <2>2
  <2>4. QED BY <1>10, <2>2, <2>3
<1>13. QED BY <1>1, <1>10, <1>11, <1>12

\* Every window of evaluate_range shorter than its cap, wherever in a minute it
\* begins and ends.
LEMMA EvaluateOnce ==
  ASSUME Calendar, NEW a \in 0 .. MaxLocal, NEW b \in 0 .. MaxLocal
  PROVE  /\ EvaluateRange(a, b) \in Seq(Hit)
         /\ a <= b /\ b - a <= MaxIters * Minute =>
              /\ \A k \in DOMAIN EvaluateRange(a, b) :
                   EvaluateRange(a, b)[k] \in DueBetween(a, b)
              /\ \A hit \in DueBetween(a, b) :
                   \E k \in DOMAIN EvaluateRange(a, b) : EvaluateRange(a, b)[k] = hit
              /\ \A k, l \in DOMAIN EvaluateRange(a, b) :
                   EvaluateRange(a, b)[k] = EvaluateRange(a, b)[l] => k = l
<1> DEFINE t == FloorToMinute(a) + 1
           end == FloorToMinute(b)
           s == Scan(t, end, MaxIters)
<1>1. /\ Minute \in Nat \ {0} /\ MaxIters \in Nat /\ MaxLocal \in Nat
      /\ a \in Nat /\ b \in Nat
  BY DEF Calendar
<1>2. /\ FloorToMinute(a) \in Nat /\ end \in Nat
      /\ \A m \in Nat : /\ m <= FloorToMinute(a) <=> m * Minute <= a
                        /\ m <= end <=> m * Minute <= b
  BY <1>1, MinuteOf DEF FloorToMinute
<1>3. Minutes = 0 .. FloorToMinute(MaxLocal) /\ FloorToMinute(MaxLocal) \in Nat
      /\ \A m \in Nat : m <= FloorToMinute(MaxLocal) <=> m * Minute <= MaxLocal
  BY <1>1, MinuteOf DEF Minutes, FloorToMinute
<1>4. t \in Nat /\ end \in Minutes
  <2>1. end * Minute <= b
    BY <1>2
  <2>2. end * Minute <= MaxLocal /\ end * Minute \in Nat
    BY <1>1, <1>2, <2>1
  <2>3. end <= FloorToMinute(MaxLocal)
    BY <1>2, <1>3, <2>2
  <2>4. QED BY <1>2, <1>3, <2>3
<1>5. \A hit \in Hit : hit.minute \in Nat
  BY <1>3 DEF Hit
<1>6. CASE b <= a
  <2>1. EvaluateRange(a, b) = <<>>
    BY <1>6 DEF EvaluateRange
  <2>2. <<>> \in Seq(Hit) /\ DOMAIN <<>> = {}
    OBVIOUS
  <2>3. ASSUME a <= b, NEW hit \in DueBetween(a, b) PROVE FALSE
    <3>1. a = b /\ a < hit.minute * Minute /\ hit.minute * Minute <= b
      BY <1>1, <1>6, <2>3 DEF DueBetween
    <3>2. hit.minute * Minute \in Int
      BY <1>1, <1>5 DEF DueBetween
    <3>3. QED BY <1>1, <3>1, <3>2
  <2>4. QED BY <2>1, <2>2, <2>3
<1>7. CASE ~(b <= a)
  <2>1. EvaluateRange(a, b) = s
    BY <1>7 DEF EvaluateRange
  <2>2. t <= end + 1
    <3>1. FloorToMinute(a) * Minute <= a
      BY <1>2
    <3>2. FloorToMinute(a) * Minute <= b /\ FloorToMinute(a) * Minute \in Nat
      BY <1>1, <1>2, <1>7, <3>1
    <3>3. FloorToMinute(a) <= end
      BY <1>2, <3>2
    <3>4. QED BY <1>2, <3>3
  <2> HIDE DEF t, end
  <2>3. /\ s \in Seq(Hit)
        /\ \A k \in DOMAIN s :
             /\ Matches(Rules[s[k].rule], s[k].minute)
             /\ t <= s[k].minute /\ s[k].minute <= end
        /\ end - t + 1 <= MaxIters =>
             \A hit \in Hit :
               /\ Matches(Rules[hit.rule], hit.minute)
               /\ t <= hit.minute /\ hit.minute <= end
               => \E k \in DOMAIN s : s[k] = hit
        /\ \A k, l \in DOMAIN s : s[k] = s[l] => k = l
    BY <1>1, <1>4, <2>2, ScanOnce
  <2> HIDE DEF s
\* A minute is visited when it begins after a and not after b.
  <2>4. ASSUME NEW m \in Nat
        PROVE  t <= m /\ m <= end <=> a < m * Minute /\ m * Minute <= b
    <3>1. t <= m <=> ~(m <= FloorToMinute(a))
      BY <1>2 DEF t
    <3>2. m * Minute \in Nat
      BY <1>1
    <3>3. QED BY <1>1, <1>2, <3>1, <3>2
  <2>5. ASSUME NEW k \in DOMAIN s PROVE s[k] \in DueBetween(a, b)
    <3>1. s[k] \in Hit /\ s[k].minute \in Nat
      BY <1>5, <2>3
    <3>2. a < s[k].minute * Minute /\ s[k].minute * Minute <= b
      BY <2>3, <2>4, <3>1
    <3>3. QED BY <2>3, <3>1, <3>2 DEF DueBetween
\* The first minute begins after a and the last not after b: no more of them
\* than the cap lie between.
  <2>6. ASSUME b - a <= MaxIters * Minute PROVE end - t + 1 <= MaxIters
    <3>1. SUFFICES ASSUME ~(end - t + 1 <= MaxIters) PROVE FALSE
      OBVIOUS
    <3>2. PICK d \in Nat : end = t + MaxIters + d
      <4>1. end - (t + MaxIters) \in Nat
            /\ end = t + MaxIters + (end - (t + MaxIters))
        BY <1>1, <1>2, <1>4, <3>1
      <4>2. QED BY <4>1
    <3>3. end * Minute = t * Minute + MaxIters * Minute + d * Minute
          /\ t * Minute \in Nat /\ MaxIters * Minute \in Nat /\ d * Minute \in Nat
      BY <1>1, <1>4, <3>2
    <3>4. end * Minute <= b
      BY <1>2
    <3>5. ~(t <= FloorToMinute(a))
      BY <1>2 DEF t
    <3>6. ~(t * Minute <= a)
      BY <1>2, <1>4, <3>5
    <3>7. QED BY <1>1, <2>6, <3>3, <3>4, <3>6
  <2>7. ASSUME b - a <= MaxIters * Minute, NEW hit \in DueBetween(a, b)
        PROVE  \E k \in DOMAIN s : s[k] = hit
    <3>1. /\ hit \in Hit /\ Matches(Rules[hit.rule], hit.minute)
          /\ a < hit.minute * Minute /\ hit.minute * Minute <= b
          /\ hit.minute \in Nat
      BY <1>5 DEF DueBetween
    <3>2. t <= hit.minute /\ hit.minute <= end
      BY <2>4, <3>1
    <3>3. QED BY <2>3, <2>6, <2>7, <3>1, <3>2
  <2>8. QED BY <2>1, <2>3, <2>5, <2>7
<1>8. QED BY <1>6, <1>7

-----------------------------------------------------------------------------
(* What was fired.                                                          *)

ScheduleType ==
  /\ local \in 0 .. MaxLocal /\ last \in 0 .. MaxLocal /\ from \in 0 .. MaxLocal
  /\ hits \in Seq(Hit) /\ fired \in Seq(Hit)
  /\ steps \in 0 .. MaxSteps
  /\ water \in Water!WaterState
  /\ wanted \in {"none", "on", "off"}
  /\ slept \in Nat /\ since \in 0 .. LongestMove + 1
  /\ tooSoon \in BOOLEAN

LEMMA ScheduleStart == Calendar /\ ScheduleInit => ScheduleType
<1> SUFFICES ASSUME Calendar, ScheduleInit PROVE ScheduleType
  OBVIOUS
<1>1. /\ local \in 0 .. Minute /\ last = local /\ from = local
      /\ hits = <<>> /\ fired = <<>> /\ tooSoon = FALSE /\ steps = 0
      /\ slept = 0 /\ since = LongestMove + 1
      /\ wanted = "none" /\ water \in {"Off", "On"}
  BY DEF ScheduleInit
<1>2. water \in Water!WaterState /\ LongestMove + 1 \in 0 .. LongestMove + 1
  BY <1>1 DEF Calendar, Water!WaterState
<1>3. <<>> \in Seq(Hit)
  OBVIOUS
<1>4. local \in 0 .. MaxLocal /\ 0 \in 0 .. MaxSteps
  BY <1>1 DEF Calendar
<1>5. QED BY <1>1, <1>2, <1>3, <1>4 DEF ScheduleType

LEMMA FireFirst ==
  ASSUME NEW S, NEW s \in Seq(S), s # <<>>, NEW f \in Seq(S)
  PROVE  /\ Head(s) \in S /\ Tail(s) \in Seq(S) /\ Append(f, Head(s)) \in Seq(S)
         /\ 1 \in DOMAIN s /\ Head(s) = s[1]
         /\ DOMAIN f = 1 .. Len(f) /\ Len(f) \in Nat
         /\ \A k \in DOMAIN Tail(s) :
              k + 1 \in DOMAIN s /\ Tail(s)[k] = s[k + 1] /\ k + 1 # 1
         /\ \A k \in DOMAIN s : k # 1 => \E l \in DOMAIN Tail(s) : Tail(s)[l] = s[k]
         /\ \A k \in DOMAIN f : k \in DOMAIN Append(f, Head(s))
                                /\ Append(f, Head(s))[k] = f[k]
         /\ Append(f, Head(s))[Len(f) + 1] = Head(s)
         /\ DOMAIN Append(f, Head(s)) = DOMAIN f \cup {Len(f) + 1}
<1>1. /\ Len(s) \in Nat /\ Len(s) >= 1 /\ DOMAIN s = 1 .. Len(s)
      /\ DOMAIN Tail(s) = 1 .. (Len(s) - 1)
      /\ \A k \in 1 .. (Len(s) - 1) : Tail(s)[k] = s[k + 1]
  OBVIOUS
<1>2. ASSUME NEW k \in DOMAIN s, k # 1
      PROVE  \E l \in DOMAIN Tail(s) : Tail(s)[l] = s[k]
  <2>1. k - 1 \in DOMAIN Tail(s) /\ (k - 1) + 1 = k
    BY <1>1, <1>2
  <2>2. QED BY <1>1, <2>1
<1>3. \A k \in DOMAIN Tail(s) : k + 1 \in DOMAIN s /\ Tail(s)[k] = s[k + 1] /\ k + 1 # 1
  BY <1>1
<1>4. QED BY <1>1, <1>2, <1>3

LEMMA ScheduleStep == ASSUME Calendar, ScheduleType, [ScheduleNext]_scheduleVars PROVE ScheduleType'
<1>1. ASSUME NEW p \in Periods, Evaluate(p) PROVE ScheduleType'
  <2>1. /\ local + p <= MaxLocal /\ local' = local + p /\ last' = local'
        /\ hits' = EvaluateRange(last, local')
        /\ water' = water /\ fired' = fired /\ steps' = steps /\ from' = from
        /\ wanted' = wanted /\ slept' = 0 /\ since' = since /\ tooSoon' = tooSoon
    BY <1>1 DEF Evaluate
  <2>2. local' \in 0 .. MaxLocal
    BY <2>1 DEF ScheduleType, Calendar
  <2>3. hits' \in Seq(Hit)
    BY <2>1, <2>2, EvaluateOnce DEF ScheduleType
  <2>4. QED BY <2>1, <2>2, <2>3 DEF ScheduleType
<1>2. CASE FireNext
  <2>1. /\ hits # <<>> /\ hits' = Tail(hits) /\ fired' = Append(fired, Head(hits))
        /\ local' = local /\ last' = last /\ steps' = steps
        /\ from' = from /\ slept' = slept
        /\ since' = since \/ since' = 0
        /\ tooSoon' = tooSoon \/ tooSoon' = (since <= LongestMove)
        /\ water' = water \/ water' = "TurningOn" \/ water' = "TurningOff"
        /\ wanted' = wanted \/ wanted' = "on" \/ wanted' = "off"
    BY <1>2 DEF FireNext, FireWater, Moves, Water!TurnOn, Water!TurnOff
  <2>2. hits' \in Seq(Hit) /\ fired' \in Seq(Hit)
    BY <2>1, FireFirst DEF ScheduleType
  <2>3. water' \in Water!WaterState
    BY <2>1 DEF ScheduleType, Water!WaterState
  <2>4. since' \in 0 .. LongestMove + 1
    BY <2>1 DEF ScheduleType, Calendar
  <2>5. tooSoon' \in BOOLEAN
    <3>1. (since <= LongestMove) \in BOOLEAN
      OBVIOUS
    <3>2. tooSoon \in BOOLEAN
      BY DEF ScheduleType
    <3>3. QED BY <2>1, <3>1, <3>2
  <2>6. QED BY <2>1, <2>2, <2>3, <2>4, <2>5 DEF ScheduleType
<1>3. ASSUME NEW d \in Steps, StepClock(d) PROVE ScheduleType'
  BY <1>3 DEF StepClock, ScheduleType, Calendar
<1>4. CASE ValveTick
  BY <1>4 DEF ValveTick, Water!Complete, ScheduleType, Water!WaterState
<1>5. CASE Sleep
  BY <1>5 DEF Sleep, ScheduleType, Calendar
<1>6. ASSUME NEW on \in BOOLEAN, OtherCommand(on) PROVE ScheduleType'
  BY <1>6 DEF OtherCommand, Moves, Water!TurnOn, Water!TurnOff, ScheduleType,
              Water!WaterState, Calendar
<1>7. CASE UNCHANGED scheduleVars
  BY <1>7 DEF scheduleVars, ScheduleType
<1>8. QED BY <1>1, <1>2, <1>3, <1>4, <1>5, <1>6, <1>7 DEF ScheduleNext

\* The clock is only ever stepped forward, and all its steps together with one
\* sleep fit into a window of evaluate_range's cap.
WithinCap(longest) ==
  /\ \A d \in Steps : 0 <= d /\ d <= longest
  /\ \A p \in Periods : MaxSteps * longest + p <= MaxIters * Minute

\* What has been fired and what is still to be are together what fell due.
FiredInv(longest) ==
  /\ last <= local /\ from <= last
  /\ local - last <= steps * longest
  /\ \A k \in DOMAIN fired : fired[k] \in DueBetween(from, last)
  /\ \A k \in DOMAIN hits : hits[k] \in DueBetween(from, last)
  /\ \A hit \in DueBetween(from, last) :
       \/ \E k \in DOMAIN fired : fired[k] = hit
       \/ \E k \in DOMAIN hits : hits[k] = hit
  /\ \A k, l \in DOMAIN fired : fired[k] = fired[l] => k = l
  /\ \A k, l \in DOMAIN hits : hits[k] = hits[l] => k = l
  /\ \A k \in DOMAIN fired, l \in DOMAIN hits : fired[k] # hits[l]

LEMMA HitMinute ==
  ASSUME Calendar, NEW hit \in Hit PROVE hit.minute * Minute \in Nat
<1>1. hit.minute \in Minutes /\ Minute \in Nat
  BY DEF Hit, Calendar
<1>2. PICK m \in Nat : m = hit.minute
  BY <1>1 DEF Minutes
<1>3. m * Minute \in Nat
  BY <1>1
<1>4. QED BY <1>2, <1>3

LEMMA FiredInit ==
  ASSUME Calendar, ScheduleInit, NEW longest \in Nat
  PROVE  FiredInv(longest)
<1>1. /\ local \in 0 .. Minute /\ last = local /\ from = local
      /\ hits = <<>> /\ fired = <<>> /\ steps = 0 /\ Minute \in Nat
  BY DEF ScheduleInit, Calendar
<1>2. DOMAIN hits = {} /\ DOMAIN fired = {}
  BY <1>1
<1>3. ASSUME NEW hit \in DueBetween(from, last) PROVE FALSE
  <2>1. hit \in Hit /\ from < hit.minute * Minute /\ hit.minute * Minute <= last
    BY DEF DueBetween
  <2>2. hit.minute * Minute \in Nat
    BY <2>1, HitMinute
  <2>3. QED BY <1>1, <2>1, <2>2
<1>4. last <= local /\ from <= last /\ local - last <= steps * longest
  BY <1>1
<1>5. QED BY <1>2, <1>3, <1>4 DEF FiredInv

\* A new window begins where the last one ended.
LEMMA FiredEvaluate ==
  ASSUME Calendar, ScheduleType, NEW longest \in Nat, WithinCap(longest),
         FiredInv(longest), NEW p \in Periods, Evaluate(p)
  PROVE  FiredInv(longest)'
<1>1. /\ hits = <<>> /\ local + p <= MaxLocal /\ local' = local + p /\ last' = local'
      /\ hits' = EvaluateRange(last, local')
      /\ fired' = fired /\ steps' = steps /\ from' = from
  BY DEF Evaluate
<1>2. /\ local \in Nat /\ last \in Nat /\ from \in Nat /\ steps \in 0 .. MaxSteps
      /\ p \in Nat /\ MaxSteps \in Nat /\ MaxIters * Minute \in Nat /\ MaxLocal \in Nat
      /\ last \in 0 .. MaxLocal /\ local' \in 0 .. MaxLocal
  BY <1>1 DEF ScheduleType, Calendar
<1>3. last <= local /\ from <= last /\ local - last <= steps * longest
  BY DEF FiredInv
<1>4. last <= local' /\ local' - last <= MaxIters * Minute
  <2>1. steps * longest <= MaxSteps * longest
    <3>1. PICK d \in Nat : MaxSteps = steps + d
      <4>1. MaxSteps - steps \in Nat /\ MaxSteps = steps + (MaxSteps - steps)
        BY <1>2
      <4>2. QED BY <4>1
    <3>2. MaxSteps * longest = steps * longest + d * longest
          /\ d * longest \in Nat /\ steps * longest \in Nat
      BY <1>2, <3>1
    <3>3. QED BY <3>2
  <2>2. MaxSteps * longest + p <= MaxIters * Minute
    BY DEF WithinCap
  <2>3. steps * longest \in Nat /\ MaxSteps * longest \in Nat
    BY <1>2
  <2>4. QED BY <1>1, <1>2, <1>3, <2>1, <2>2, <2>3
<1>5. /\ \A k \in DOMAIN hits' : hits'[k] \in DueBetween(last, local')
      /\ \A hit \in DueBetween(last, local') : \E k \in DOMAIN hits' : hits'[k] = hit
      /\ \A k, l \in DOMAIN hits' : hits'[k] = hits'[l] => k = l
  BY <1>1, <1>2, <1>4, EvaluateOnce
<1>6. ASSUME NEW hit
      PROVE  /\ hit \in DueBetween(from, local') <=>
                  hit \in DueBetween(from, last) \/ hit \in DueBetween(last, local')
             /\ ~(hit \in DueBetween(from, last) /\ hit \in DueBetween(last, local'))
  <2>1. hit \in Hit => hit.minute * Minute \in Nat
    BY HitMinute
  <2>2. QED BY <1>1, <1>2, <1>3, <1>4, <2>1 DEF DueBetween
<1>7. /\ DOMAIN hits = {}
      /\ \A k \in DOMAIN fired : fired[k] \in DueBetween(from, last)
      /\ \A hit \in DueBetween(from, last) : \E k \in DOMAIN fired : fired[k] = hit
      /\ \A k, l \in DOMAIN fired : fired[k] = fired[l] => k = l
  <2>1. DOMAIN hits = {}
    BY <1>1
  <2>2. QED BY <2>1 DEF FiredInv
<1>8. DueBetween(from, last)' = DueBetween(from, local')
  BY <1>1 DEF DueBetween
<1>9. last' <= local' /\ from' <= last' /\ local' - last' <= steps' * longest
  <2>1. steps * longest \in Nat
    BY <1>2
  <2>2. QED BY <1>1, <1>2, <1>3, <1>4, <2>1
<1>10. QED BY <1>1, <1>5, <1>6, <1>7, <1>8, <1>9 DEF FiredInv

LEMMA FiredNext ==
  ASSUME Calendar, ScheduleType, NEW longest \in Nat, FiredInv(longest), FireNext
  PROVE  FiredInv(longest)'
<1>1. /\ hits # <<>> /\ hits' = Tail(hits) /\ fired' = Append(fired, Head(hits))
      /\ local' = local /\ last' = last /\ steps' = steps /\ from' = from
  BY DEF FireNext
<1>2. hits \in Seq(Hit) /\ fired \in Seq(Hit)
  BY DEF ScheduleType
<1> DEFINE hit == Head(hits)
           n == Len(fired) + 1
<1>3. /\ 1 \in DOMAIN hits /\ hit = hits[1]
      /\ \A k \in DOMAIN hits' : k + 1 \in DOMAIN hits /\ hits'[k] = hits[k + 1] /\ k + 1 # 1
      /\ \A k \in DOMAIN hits : k # 1 => \E l \in DOMAIN hits' : hits'[l] = hits[k]
      /\ \A k \in DOMAIN fired : k \in DOMAIN fired' /\ fired'[k] = fired[k]
      /\ fired'[n] = hit /\ DOMAIN fired' = DOMAIN fired \cup {n}
      /\ DOMAIN hits' \subseteq Nat
  <2>1. hits' \in Seq(Hit)
    BY <1>1, <1>2
  <2>2. DOMAIN hits' \subseteq Nat
    BY <2>1
  <2>3. /\ 1 \in DOMAIN hits /\ Head(hits) = hits[1]
        /\ \A k \in DOMAIN Tail(hits) :
             k + 1 \in DOMAIN hits /\ Tail(hits)[k] = hits[k + 1] /\ k + 1 # 1
        /\ \A k \in DOMAIN hits :
             k # 1 => \E l \in DOMAIN Tail(hits) : Tail(hits)[l] = hits[k]
    BY <1>1, <1>2, FireFirst
  <2>4. /\ \A k \in DOMAIN fired : k \in DOMAIN Append(fired, Head(hits))
                                  /\ Append(fired, Head(hits))[k] = fired[k]
        /\ Append(fired, Head(hits))[n] = Head(hits)
        /\ DOMAIN Append(fired, Head(hits)) = DOMAIN fired \cup {n}
    BY <1>1, <1>2, FireFirst
  <2>5. QED BY <1>1, <2>2, <2>3, <2>4
<1> HIDE DEF hit, n
<1>4. DueBetween(from, last)' = DueBetween(from, last)
  BY <1>1 DEF DueBetween
<1>5. \A k \in DOMAIN fired' : fired'[k] \in DueBetween(from, last)
  BY <1>3 DEF FiredInv
<1>6. \A k \in DOMAIN hits' : hits'[k] \in DueBetween(from, last)
  BY <1>3 DEF FiredInv
<1>7. ASSUME NEW h \in DueBetween(from, last)
      PROVE  \/ \E k \in DOMAIN fired' : fired'[k] = h
             \/ \E k \in DOMAIN hits' : hits'[k] = h
  <2>1. CASE \E k \in DOMAIN fired : fired[k] = h
    BY <1>3, <2>1
  <2>2. ASSUME NEW k \in DOMAIN hits, hits[k] = h
        PROVE  \/ \E l \in DOMAIN fired' : fired'[l] = h
               \/ \E l \in DOMAIN hits' : hits'[l] = h
    BY <1>3, <2>2
  <2>3. QED BY <2>1, <2>2 DEF FiredInv
<1>8. ASSUME NEW k \in DOMAIN fired', NEW l \in DOMAIN fired', fired'[k] = fired'[l]
      PROVE  k = l
  <2>1. \A j \in DOMAIN fired : fired[j] # hit
    BY <1>3 DEF FiredInv
  <2>2. QED BY <1>3, <1>8, <2>1 DEF FiredInv
<1>9. ASSUME NEW k \in DOMAIN hits', NEW l \in DOMAIN hits', hits'[k] = hits'[l]
      PROVE  k = l
  <2>1. k + 1 = l + 1
    BY <1>3, <1>9 DEF FiredInv
  <2>2. k \in Nat /\ l \in Nat
    BY <1>3
  <2>3. QED BY <2>1, <2>2
<1>10. ASSUME NEW k \in DOMAIN fired', NEW l \in DOMAIN hits'
       PROVE  fired'[k] # hits'[l]
  <2>1. l + 1 \in DOMAIN hits /\ hits'[l] = hits[l + 1] /\ l + 1 # 1
    BY <1>3
  <2>2. CASE k \in DOMAIN fired
    BY <1>3, <2>1, <2>2 DEF FiredInv
  <2>3. CASE k = n
    BY <1>3, <2>1, <2>3 DEF FiredInv
  <2>4. QED BY <1>3, <2>2, <2>3
<1>11. last' <= local' /\ from' <= last' /\ local' - last' <= steps' * longest
  BY <1>1 DEF FiredInv
<1>12. QED BY <1>4, <1>5, <1>6, <1>7, <1>8, <1>9, <1>10, <1>11 DEF FiredInv

LEMMA FiredStep ==
  ASSUME Calendar, ScheduleType, NEW longest \in Nat, WithinCap(longest),
         FiredInv(longest), [ScheduleNext]_scheduleVars
  PROVE  FiredInv(longest)'
<1>1. ASSUME NEW p \in Periods, Evaluate(p) PROVE FiredInv(longest)'
  BY <1>1, FiredEvaluate
<1>2. CASE FireNext
  BY <1>2, FiredNext
<1>3. ASSUME NEW d \in Steps, StepClock(d) PROVE FiredInv(longest)'
  <2>1. /\ local' = local + d /\ steps' = steps + 1
        /\ last' = last /\ hits' = hits /\ fired' = fired /\ from' = from
    BY <1>3 DEF StepClock
  <2>2. /\ local \in Nat /\ last \in Nat /\ steps \in Nat
        /\ d \in Nat /\ d <= longest
    BY DEF ScheduleType, Calendar, WithinCap
  <2>3. last <= local /\ from <= last /\ local - last <= steps * longest
    BY DEF FiredInv
  <2>4. (steps + 1) * longest = steps * longest + longest /\ steps * longest \in Nat
    BY <2>2
  <2>5. last' <= local' /\ from' <= last' /\ local' - last' <= steps' * longest
    BY <2>1, <2>2, <2>3, <2>4
  <2>6. DueBetween(from, last)' = DueBetween(from, last)
    BY <2>1 DEF DueBetween
  <2>7. QED BY <2>1, <2>5, <2>6 DEF FiredInv
<1>4. CASE Sleep \/ ValveTick \/ (\E on \in BOOLEAN : OtherCommand(on))
           \/ UNCHANGED scheduleVars
  <2>1. /\ local' = local /\ steps' = steps
        /\ last' = last /\ hits' = hits /\ fired' = fired /\ from' = from
    BY <1>4 DEF Sleep, ValveTick, OtherCommand, scheduleVars
  <2>2. DueBetween(from, last)' = DueBetween(from, last)
    BY <2>1 DEF DueBetween
  <2>3. QED BY <2>1, <2>2 DEF FiredInv
<1>5. QED BY <1>1, <1>2, <1>3, <1>4 DEF ScheduleNext

(* evaluate_range and the task around it: once the hits of an evaluation    *)
(* are fired, what has fired is exactly what fell due since the task        *)
(* started, once each, for every schedule and calendar and whatever windows *)
(* the sleeps and the steps of the clock cut out of the minutes.            *)
THEOREM FiresOnce ==
  ASSUME \E longest \in Nat : WithinCap(longest)
  PROVE  ScheduleSpec => []FiredOnce
<1>1. PICK longest \in Nat : WithinCap(longest)
  OBVIOUS
<1>2. ScheduleInit => ScheduleType /\ FiredInv(longest)
  BY CalendarAssumption, ScheduleStart, FiredInit
<1>3. ScheduleType /\ FiredInv(longest) /\ [ScheduleNext]_scheduleVars
        => ScheduleType' /\ FiredInv(longest)'
  BY <1>1, CalendarAssumption, ScheduleStep, FiredStep
<1>4. ScheduleType /\ FiredInv(longest) => FiredOnce
  <2> SUFFICES ASSUME FiredInv(longest), hits = <<>>
      PROVE  /\ {fired[k] : k \in DOMAIN fired} = DueBetween(from, last)
             /\ \A k, l \in DOMAIN fired : fired[k] = fired[l] => k = l
    BY DEF FiredOnce
  <2>1. DOMAIN hits = {}
    OBVIOUS
  <2>2. QED BY <2>1 DEF FiredInv
<1>5. QED BY <1>2, <1>3, <1>4, PTL DEF ScheduleSpec

-----------------------------------------------------------------------------
(* What the water does.                                                     *)

\* A valve that moves has not moved for long; and it is, or is on its way to
\* be, as the schedule asked last, where the command came in time.
WaterInv ==
  /\ Moving => since <= LongestMove
  /\ tooSoon = FALSE =>
       /\ wanted = "on" => water \in {"TurningOn", "On"}
       /\ wanted = "off" => water \in {"TurningOff", "Off"}

LEMMA WaterInit == ScheduleInit => WaterInv
  BY DEF ScheduleInit, WaterInv, Moving

(* A command that comes in time finds the valve at rest, and is obeyed.     *)
LEMMA WaterFire ==
  ASSUME Calendar, ScheduleType, WaterInv, NEW on, FireWater(on)
  PROVE  WaterInv'
<1>1. /\ wanted' = IF on THEN "on" ELSE "off"
      /\ tooSoon' = (since <= LongestMove)
      /\ \/ Moves(on)
         \/ water # (IF on THEN "Off" ELSE "On") /\ water' = water /\ since' = since
  BY DEF FireWater
<1>2. Moving' => since' <= LongestMove
  <2>1. 0 <= LongestMove
    BY DEF Calendar
  <2>2. since' = 0 \/ (water' = water /\ since' = since)
    BY <1>1 DEF Moves
  <2>3. QED BY <2>1, <2>2 DEF WaterInv, Moving
<1>3. ASSUME tooSoon' = FALSE
      PROVE  IF on THEN water' \in {"TurningOn", "On"} ELSE water' \in {"TurningOff", "Off"}
  <2>1. ~(since <= LongestMove)
    BY <1>1, <1>3
  <2>2. water \in {"Off", "On"}
    BY <2>1 DEF WaterInv, Moving, ScheduleType, Water!WaterState
  <2>3. CASE on
    BY <1>1, <2>2, <2>3 DEF Moves, Water!TurnOn
  <2>4. CASE ~on
    BY <1>1, <2>2, <2>4 DEF Moves, Water!TurnOff
  <2>5. QED BY <2>3, <2>4
<1>4. QED BY <1>1, <1>2, <1>3 DEF WaterInv

LEMMA WaterStep ==
  ASSUME Calendar, ScheduleType, WaterInv, [ScheduleNext]_scheduleVars
  PROVE  WaterInv'
<1>1. CASE FireNext
  <2>1. \/ FireWater(Rules[Head(hits).rule].action.on)
        \/ UNCHANGED <<water, since, wanted, tooSoon>>
    BY <1>1 DEF FireNext
  <2>2. QED BY <2>1, WaterFire DEF WaterInv, Moving
<1>2. CASE Sleep
  <2>1. /\ water' = water /\ wanted' = wanted /\ tooSoon' = tooSoon
        /\ Moving => since < LongestMove
        /\ since' = IF since > LongestMove THEN since ELSE since + 1
    BY <1>2 DEF Sleep
  <2>2. since \in Nat /\ LongestMove \in Nat
    BY DEF ScheduleType, Calendar
  <2>3. QED BY <2>1, <2>2 DEF WaterInv, Moving
<1>3. CASE ValveTick
  <2>1. /\ wanted' = wanted /\ tooSoon' = tooSoon
        /\ \/ water = "TurningOn" /\ water' = "On"
           \/ water = "TurningOff" /\ water' = "Off"
    BY <1>3 DEF ValveTick, Water!Complete
  <2>2. QED BY <2>1 DEF WaterInv, Moving
<1>4. ASSUME NEW on \in BOOLEAN, OtherCommand(on) PROVE WaterInv'
  <2>1. since' = 0 /\ wanted' = "none" /\ 0 <= LongestMove
    BY <1>4 DEF OtherCommand, Moves, Calendar
  <2>2. QED BY <2>1 DEF WaterInv
<1>5. CASE \/ \E p \in Periods : Evaluate(p)
           \/ \E d \in Steps : StepClock(d)
           \/ UNCHANGED scheduleVars
  <2>1. UNCHANGED <<water, since, wanted, tooSoon>>
    BY <1>5 DEF Evaluate, StepClock, scheduleVars
  <2>2. QED BY <2>1 DEF WaterInv, Moving
<1>6. QED BY <1>1, <1>2, <1>3, <1>4, <1>5 DEF ScheduleNext

(* What the schedule asked of the water control last is what the valve does *)
(* once it has settled, for every schedule, every length of a sequence and  *)
(* of the sleeps and whatever others command in between, unless the rule    *)
(* fell due before the longest sequence from the last movement was over.    *)
THEOREM WaterFollows == ScheduleSpec => []WaterFollowsSchedule
<1>1. ScheduleInit => ScheduleType /\ WaterInv
  BY CalendarAssumption, ScheduleStart, WaterInit
<1>2. ScheduleType /\ WaterInv /\ [ScheduleNext]_scheduleVars => ScheduleType' /\ WaterInv'
  BY CalendarAssumption, ScheduleStep, WaterStep
<1>3. ScheduleType /\ WaterInv => WaterFollowsSchedule
  <2> SUFFICES ASSUME ScheduleType, WaterInv, wanted # "none", ~tooSoon, ~Moving
               PROVE  water = IF wanted = "on" THEN "On" ELSE "Off"
    BY DEF WaterFollowsSchedule
  <2>1. tooSoon = FALSE
    BY DEF ScheduleType
  <2>2. QED BY <2>1 DEF WaterInv, Moving, ScheduleType
<1>4. QED BY <1>1, <1>2, <1>3, PTL DEF ScheduleSpec
=============================================================================
