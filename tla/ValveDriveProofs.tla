-------------------------- MODULE ValveDriveProofs --------------------------
(***************************************************************************)
(* Theorems about ValveDrive, for every settle window, every set of         *)
(* commanders and timings, and every bound on the threads' delays.          *)
(***************************************************************************)
EXTENDS ValveDrive, TLAPS

-----------------------------------------------------------------------------
(* What the operators of WaterValve return.                                 *)

(* A method of the valve yields a valve; only set_timing touches the timing.*)
LEMMA ValveMethodsType ==
  ASSUME NEW v \in Valve, NEW now \in Nat, NEW on \in BOOLEAN,
         NEW t \in ValveTiming
  PROVE  /\ Tick(v, now) \in Valve /\ Tick(v, now).timing = v.timing
         /\ CommandedValve(v, on, now) \in Valve
         /\ CommandedValve(v, on, now).timing = v.timing
         /\ SetTiming(v, t) \in Valve /\ SetTiming(v, t).timing = t
         /\ TickOutputs(v, now) \subseteq Outputs
<1>1. Tick(v, now) \in Valve /\ Tick(v, now).timing = v.timing
  BY DEF Tick, Valve, Phase, GoIdle, Enter
<1>2. CommandedValve(v, on, now) \in Valve
      /\ CommandedValve(v, on, now).timing = v.timing
  BY DEF CommandedValve, TurnOn, TurnOff, Enter, Valve, Phase
<1>3. SetTiming(v, t) \in Valve /\ SetTiming(v, t).timing = t
  BY DEF SetTiming, Valve
<1>4. TickOutputs(v, now) \subseteq Outputs
  BY DEF TickOutputs, Outputs, Motors
<1>5. QED BY <1>1, <1>2, <1>3, <1>4

(* Booting yields an idle valve with the configured timing.                 *)
LEMMA BootValveType ==
  ASSUME NEW t \in ValveTiming, NEW saved \in Saved
  PROVE  /\ BootValve(t, saved) \in Valve
         /\ BootValve(t, saved).timing = t
         /\ BootValve(t, saved).phase = "Idle"
  BY DEF BootValve, WithTiming, Restore, Valve, Phase
-----------------------------------------------------------------------------
(* Every step keeps every variable in its type.                             *)
LEMMA TypeStep == TypeOK /\ [Next]_vars => TypeOK'
<1> SUFFICES ASSUME TypeOK, [Next]_vars PROVE TypeOK'
  OBVIOUS
<1> USE TimingsAssumption, LagAssumption, SettleAssumption
<1>1. CASE Advance
  BY <1>1 DEF TypeOK, Advance, history
<1>2. ASSUME NEW c \in Commanders, NEW on \in BOOLEAN, CmdRead(c, on)
      PROVE  TypeOK'
  BY <1>2 DEF TypeOK, CmdRead, history
<1>3. ASSUME NEW c \in Commanders, CmdExec(c)
      PROVE  TypeOK'
  <2>1. valve' \in Valve /\ valve'.timing = valve.timing
    BY <1>3, ValveMethodsType DEF TypeOK, CmdExec
  <2>2. QED BY <1>3, <2>1 DEF TypeOK, CmdExec, NoCmd
<1>4. ASSUME NEW t \in Timings, ReplaceTiming(t)
      PROVE  TypeOK'
  <2>1. valve' \in Valve /\ valve'.timing = t
    BY <1>4, ValveMethodsType DEF TypeOK, ReplaceTiming
  <2>2. QED BY <1>4, <2>1 DEF TypeOK, ReplaceTiming
<1>5. CASE TickRead
  BY <1>5 DEF TypeOK, TickRead, TickStep, history
<1>6. CASE TickValve
  <2>1. /\ valve' \in Valve /\ valve'.timing = valve.timing
        /\ TickOutputs(valve, tick.now) \subseteq Outputs
    BY <1>6, ValveMethodsType DEF TypeOK, TickValve
  <2>2. QED BY <1>6, <2>1 DEF TypeOK, TickValve, TickStep, history
<1>7. ASSUME NEW ok \in BOOLEAN, TickPersist(ok)
      PROVE  TypeOK'
  BY <1>7 DEF TypeOK, TickPersist, TickStep, PinStep, Outputs, Motors,
              AsByte, Saved, history
<1>8. ASSUME NEW p \in PinStep, SetPin(p)
      PROVE  TypeOK'
  <2>1. AfterPin(p) \in TickStep
    BY DEF AfterPin, TickStep, PinStep, Outputs, Motors
  <2>2. QED BY <1>8, <2>1 DEF TypeOK, SetPin, RecordPins, PinStep
<1>9. ASSUME NEW t \in Timings, Crash(t)
      PROVE  TypeOK'
  <2>1. BootValve(t, nvs) \in Valve /\ BootValve(t, nvs).timing = t
    BY BootValveType DEF TypeOK
  <2>2. QED BY <1>9, <2>1 DEF TypeOK, Crash, RecordPins, NoCmd, TickStep
<1>10. CASE UNCHANGED vars
  BY <1>10 DEF TypeOK, vars, history
<1>11. QED
  BY <1>1, <1>2, <1>3, <1>4, <1>5, <1>6, <1>7, <1>8, <1>9, <1>10 DEF Next

(* Type correctness of the whole system.                                    *)
THEOREM TypeCorrect == Spec => []TypeOK
<1>1. ASSUME Init PROVE TypeOK
  <2>1. PICK t \in Timings : valve = BootValve(t, nvs)
    BY <1>1 DEF Init
  <2>2. valve \in Valve /\ valve.timing \in Timings
    BY <1>1, <2>1, BootValveType, TimingsAssumption DEF Init
  <2>3. QED
    BY <1>1, <2>2 DEF Init, TypeOK, NoCmd, TickStep
<1>2. QED BY <1>1, TypeStep, PTL DEF Spec

-----------------------------------------------------------------------------
(* The delays: no thread acts on a clock reading older than its bound.      *)
TimeInv ==
  /\ tick.now <= clock /\ clock <= tick.now + TickGap
  /\ tick.pc # "sleep" => clock <= tick.now + TickLag
  /\ \A c \in Commanders :
       cmd[c].pc = "lock" => /\ cmd[c].now <= clock
                            /\ clock <= cmd[c].now + CmdLag
  /\ \A m \in Motors : fellAt[m] <= clock

(* The pins the current tick has computed but not yet written.              *)
Pending ==
  IF tick.pc \in {"persist", "open_motor"} THEN Outputs
  ELSE IF tick.pc = "close_motor" THEN {"close_motor", "drain"}
  ELSE IF tick.pc = "drain" THEN {"drain"}
  ELSE {}

(* The sequence under way in v, if any, is the one that drives coil m.      *)
Drives(v, m) == v.phase = IF m = "open_motor" THEN "TurningOn" ELSE "TurningOff"

(* The strengthening that makes NeverBothMotors and DeadTime inductive.  A  *)
(* coil is asked for only by its own sequence, past its settle window; a    *)
(* coil that is on without its sequence is about to be written off by a     *)
(* tick that drives no coil and that read the clock no later than the new   *)
(* sequence's start (plus CmdLag); and once written off it was released     *)
(* early enough.                                                            *)
CoilInv(m) ==
  /\ m \in tick.out =>
       /\ m \in Pending /\ Drives(valve, m)
       /\ tick.now >= valve.start_ms + SettleMs
  /\ (m \in pins /\ ~Drives(valve, m)) =>
       /\ m \in Pending /\ tick.out \cap Motors = {}
       /\ IsBusy(valve) => tick.now <= valve.start_ms + CmdLag
  /\ (m \notin pins /\ IsBusy(valve) /\ ~Drives(valve, m)) =>
       fellAt[m] <= valve.start_ms + CmdLag + TickLag

CoilSafety == NeverBothMotors /\ DeadTime /\ \A m \in Motors : CoilInv(m)

(* A tick asks for a coil only in the motor window of its own sequence, and *)
(* then leaves the valve as it is; a tick that moves the valve on asks for  *)
(* no coil and leaves no sequence under way.                                *)
LEMMA TickEffect ==
  ASSUME NEW v \in Valve, NEW now \in Nat
  PROVE  /\ \/ Tick(v, now) = v
            \/ /\ ~IsBusy(Tick(v, now))
               /\ TickOutputs(v, now) \cap Motors = {}
         /\ \A m \in Motors : m \in TickOutputs(v, now) =>
              Drives(v, m) /\ now >= v.start_ms + SettleMs
<1> USE SettleAssumption
<1>1. v.start_ms \in Nat /\ v.timing.motor_run \in Nat
  BY DEF Valve, ValveTiming
<1>2. ASSUME SequenceDone(v, now) PROVE ~InMotorWindow(v, now)
  BY <1>1, <1>2 DEF SequenceDone, SequenceMs, InMotorWindow, Elapsed
<1>3. ASSUME InMotorWindow(v, now) PROVE now >= v.start_ms + SettleMs
  BY <1>1, <1>3 DEF InMotorWindow, Elapsed
<1>4. Tick(v, now) = v \/ ~IsBusy(Tick(v, now))
  BY DEF Tick, GoIdle, Enter, IsBusy, Valve
<1>5. Tick(v, now) # v => TickOutputs(v, now) \cap Motors = {}
  BY <1>2 DEF Tick, TickOutputs, Motors
<1>6. \A m \in Motors : m \in TickOutputs(v, now) =>
        Drives(v, m) /\ now >= v.start_ms + SettleMs
  BY <1>3 DEF TickOutputs, Motors, Drives
<1>7. QED BY <1>4, <1>5, <1>6

(* A command changes the valve only when no sequence is under way, and then *)
(* starts one at the time the command read.                                 *)
LEMMA CommandEffect ==
  ASSUME NEW v \in Valve, NEW now \in Nat, NEW on \in BOOLEAN
  PROVE  \/ CommandedValve(v, on, now) = v
         \/ /\ ~IsBusy(v) /\ IsBusy(CommandedValve(v, on, now))
            /\ CommandedValve(v, on, now).start_ms = now
  BY DEF CommandedValve, TurnOn, TurnOff, Enter, IsBusy, Valve

(* The delays stay within their bounds, whatever happens.                   *)
LEMMA TimeStep == TypeOK /\ TimeInv /\ [Next]_vars => TimeInv'
<1> SUFFICES ASSUME TypeOK, TimeInv, [Next]_vars PROVE TimeInv'
  OBVIOUS
<1> USE LagAssumption DEF TypeOK, TimeInv
<1>1. CASE Advance
  BY <1>1 DEF Advance, history
<1>2. ASSUME NEW c \in Commanders, NEW on \in BOOLEAN, CmdRead(c, on)
      PROVE  TimeInv'
  BY <1>2 DEF CmdRead, history
<1>3. ASSUME NEW c \in Commanders, CmdExec(c)
      PROVE  TimeInv'
  BY <1>3 DEF CmdExec, NoCmd
<1>4. ASSUME NEW t \in Timings, ReplaceTiming(t)
      PROVE  TimeInv'
  BY <1>4 DEF ReplaceTiming
<1>5. CASE TickRead
  BY <1>5 DEF TickRead, history
<1>6. CASE TickValve
  BY <1>6 DEF TickValve, history
<1>7. ASSUME NEW ok \in BOOLEAN, TickPersist(ok)
      PROVE  TimeInv'
  BY <1>7 DEF TickPersist, history
<1>8. ASSUME NEW p \in PinStep, SetPin(p)
      PROVE  TimeInv'
  BY <1>8 DEF SetPin, RecordPins, PinStep, Outputs, Motors
<1>9. ASSUME NEW t \in Timings, Crash(t)
      PROVE  TimeInv'
  BY <1>9 DEF Crash, RecordPins, NoCmd
<1>10. CASE UNCHANGED vars
  BY <1>10 DEF vars, history
<1>11. QED
  BY <1>1, <1>2, <1>3, <1>4, <1>5, <1>6, <1>7, <1>8, <1>9, <1>10 DEF Next

(* Every step keeps the coils safe; only the tick thread's valve step, its  *)
(* pin writes, a command and a crash can disturb them.                      *)
LEMMA CoilStep ==
  TypeOK /\ TimeInv /\ CoilSafety /\ [Next]_vars => CoilSafety'
<1> SUFFICES ASSUME TypeOK, TimeInv, CoilSafety, [Next]_vars
             PROVE  CoilSafety'
  OBVIOUS
<1> USE LagAssumption, SettleAssumption
<1>1. CASE Advance
  BY <1>1 DEF Advance, history, TypeOK, CoilSafety, NeverBothMotors, DeadTime,
              CoilInv, Pending, Drives, Motors, Opposite
<1>2. ASSUME NEW c \in Commanders, NEW on \in BOOLEAN, CmdRead(c, on)
      PROVE  CoilSafety'
  BY <1>2 DEF CmdRead, history, CoilSafety, NeverBothMotors, DeadTime, CoilInv,
              Pending, Drives
<1>3. ASSUME NEW c \in Commanders, CmdExec(c)
      PROVE  CoilSafety'
  <2>1. /\ cmd[c].now \in Nat /\ cmd[c].on \in BOOLEAN
        /\ cmd[c].now <= clock /\ clock <= cmd[c].now + CmdLag
        /\ valve \in Valve /\ tick.now \in Nat /\ tick.now <= clock
        /\ \A m \in Motors : fellAt[m] \in Nat /\ fellAt[m] <= clock
        /\ clock \in Nat
    BY <1>3 DEF CmdExec, TypeOK, TimeInv
  <2>2. (NeverBothMotors /\ DeadTime)'
    BY <1>3 DEF CmdExec, CoilSafety, NeverBothMotors, DeadTime
  <2>3. CASE valve' = valve
    BY <1>3, <2>2, <2>3 DEF CmdExec, CoilSafety, CoilInv, Pending, Drives
  <2>4. CASE ~IsBusy(valve) /\ IsBusy(valve') /\ valve'.start_ms = cmd[c].now
    <3>1. ASSUME NEW m \in Motors PROVE ~Drives(valve, m)
      BY <2>4 DEF IsBusy, Drives
    <3>2. ASSUME NEW m \in Motors PROVE CoilInv(m)'
      BY <1>3, <2>1, <2>4, <3>1 DEF CmdExec, CoilSafety, CoilInv, Pending
    <3>3. QED BY <2>2, <3>2 DEF CoilSafety
  <2>5. QED BY <1>3, <2>1, <2>3, <2>4, CommandEffect DEF CmdExec
<1>4. ASSUME NEW t \in Timings, ReplaceTiming(t)
      PROVE  CoilSafety'
  <2>1. valve'.phase = valve.phase /\ valve'.start_ms = valve.start_ms
    BY <1>4 DEF ReplaceTiming, SetTiming, TypeOK, Valve
  <2>2. QED
    BY <1>4, <2>1 DEF ReplaceTiming, CoilSafety, NeverBothMotors, DeadTime,
                      CoilInv, Pending, Drives, IsBusy
<1>5. CASE TickRead
  BY <1>5 DEF TickRead, history, TypeOK, CoilSafety, NeverBothMotors, DeadTime,
              CoilInv, Pending, Drives
<1>6. CASE TickValve
  <2>1. /\ tick.now \in Nat /\ valve \in Valve /\ Pending = {}
        /\ Pending' = Outputs /\ tick'.out = TickOutputs(valve, tick.now)
        /\ tick'.now = tick.now
    BY <1>6 DEF TickValve, TypeOK, Pending
  <2>2. (NeverBothMotors /\ DeadTime)'
    BY <1>6 DEF TickValve, history, CoilSafety, NeverBothMotors, DeadTime
  <2>3. ASSUME NEW m \in Motors PROVE CoilInv(m)'
    <3>1. m \in pins => Drives(valve, m)
      BY <2>1 DEF CoilSafety, CoilInv
    <3>2. CASE valve' = valve
      BY <1>6, <2>1, <3>1, <3>2, TickEffect
         DEF TickValve, history, CoilSafety, CoilInv, Outputs
    <3>3. CASE ~IsBusy(valve') /\ TickOutputs(valve, tick.now) \cap Motors = {}
      BY <1>6, <2>1, <3>3 DEF TickValve, CoilInv, Outputs
    <3>4. QED BY <1>6, <2>1, <3>2, <3>3, TickEffect DEF TickValve
  <2>4. QED BY <2>2, <2>3 DEF CoilSafety
<1>7. ASSUME NEW ok \in BOOLEAN, TickPersist(ok)
      PROVE  CoilSafety'
  BY <1>7 DEF TickPersist, history, TypeOK, CoilSafety, NeverBothMotors,
              DeadTime, CoilInv, Pending, Drives
<1>8. ASSUME NEW p \in PinStep, SetPin(p)
      PROVE  CoilSafety'
  <2>1. /\ tick.pc = p /\ tick'.pc = AfterPin(p) /\ tick'.now = tick.now
        /\ tick'.out = tick.out \ {p} /\ tick.now \in Nat /\ clock \in Nat
        /\ tick.now <= clock /\ clock <= tick.now + TickLag
        /\ valve' = valve /\ valve.start_ms \in Nat /\ clock' = clock
        /\ \A m \in Motors : fellAt[m] \in Nat
    BY <1>8 DEF SetPin, TypeOK, TimeInv, PinStep, Outputs, Motors, Valve
  <2>2. CASE p = "drain"
    <3>1. \A m \in Motors : /\ m \in pins' <=> m \in pins
                            /\ fellAt'[m] = fellAt[m]
      BY <1>8, <2>2 DEF SetPin, RecordPins, Motors
    <3>2. Pending = {"drain"} /\ Pending' = {}
      BY <2>1, <2>2 DEF Pending, AfterPin
    <3>3. QED
      BY <2>1, <2>2, <3>1, <3>2 DEF CoilSafety, NeverBothMotors, DeadTime,
         CoilInv, Drives, IsBusy, Motors, Opposite
  <2>3. CASE p \in Motors
    <3> DEFINE q == Opposite(p)
    <3>1. q \in Motors /\ q # p /\ Opposite(q) = p /\ Motors = {p, q}
      BY <2>3 DEF Motors, Opposite
    <3>2. /\ q \in pins' <=> q \in pins
          /\ fellAt'[q] = fellAt[q]
          /\ p \in pins' <=> p \in tick.out
          /\ fellAt'[p] = IF p \in pins /\ p \notin tick.out
                          THEN clock ELSE fellAt[p]
      BY <1>8, <2>3, <3>1 DEF SetPin, RecordPins
    <3>3. p \notin Pending' /\ (q \in Pending => q \in Pending')
      BY <2>1, <2>3 DEF Pending, AfterPin, Motors, Outputs, Opposite
    <3>4. CoilInv(p) /\ CoilInv(q) /\ NeverBothMotors /\ DeadTime
      BY <2>3, <3>1 DEF CoilSafety
    <3>5. Drives(valve, p) => ~Drives(valve, q) /\ IsBusy(valve)
      BY <2>3 DEF Drives, IsBusy, Motors, Opposite
    <3>6. CASE p \in tick.out
      <4>1. /\ Drives(valve, p) /\ tick.now >= valve.start_ms + SettleMs
            /\ q \notin pins /\ q \notin tick.out
        BY <2>3, <3>4, <3>5, <3>6 DEF CoilInv
      <4>2. fellAt[q] <= valve.start_ms + CmdLag + TickLag
        BY <3>4, <3>5, <4>1 DEF CoilInv
      <4>3. (NeverBothMotors /\ DeadTime)'
        BY <2>1, <3>1, <3>2, <4>1, <4>2 DEF NeverBothMotors, DeadTime
      <4>4. (CoilInv(p) /\ CoilInv(q))'
        BY <2>1, <3>1, <3>2, <3>4, <4>1 DEF CoilInv, Drives, IsBusy
      <4>5. QED BY <3>1, <4>3, <4>4 DEF CoilSafety, Motors
    <3>7. CASE p \notin tick.out
      <4>1. (NeverBothMotors /\ DeadTime)'
        BY <2>1, <3>1, <3>2, <3>4, <3>7 DEF NeverBothMotors, DeadTime
      <4>2. CoilInv(p)'
        BY <2>1, <3>1, <3>2, <3>4, <3>7 DEF CoilInv, Drives, IsBusy
      <4>3. CoilInv(q)'
        BY <2>1, <3>1, <3>2, <3>3, <3>4, <3>7 DEF CoilInv, Drives, IsBusy
      <4>4. QED BY <3>1, <4>1, <4>2, <4>3 DEF CoilSafety, Motors
    <3>8. QED BY <3>6, <3>7
  <2>4. QED BY <2>2, <2>3 DEF PinStep, Outputs
<1>9. ASSUME NEW t \in Timings, Crash(t)
      PROVE  CoilSafety'
  <2>1. ~IsBusy(valve') /\ pins' = {} /\ tick'.out = {}
    BY <1>9, BootValveType, TimingsAssumption DEF Crash, TypeOK, IsBusy
  <2>2. QED
    BY <2>1 DEF CoilSafety, NeverBothMotors, DeadTime, CoilInv, Motors
<1>10. CASE UNCHANGED vars
  BY <1>10 DEF vars, history, CoilSafety, NeverBothMotors, DeadTime, CoilInv,
               Pending, Drives
<1>11. QED
  BY <1>1, <1>2, <1>3, <1>4, <1>5, <1>6, <1>7, <1>8, <1>9, <1>10 DEF Next

(* The inductive invariant holds in every reachable state.                  *)
LEMMA Inductive == Spec => [](TypeOK /\ TimeInv /\ CoilSafety)
<1>1. ASSUME Init PROVE TimeInv /\ CoilSafety
  <2>1. ~IsBusy(valve)
    BY <1>1, BootValveType, TimingsAssumption DEF Init, IsBusy
  <2>2. QED
    BY <1>1, <2>1, LagAssumption DEF Init, TimeInv, NoCmd, CoilSafety,
       NeverBothMotors, DeadTime, CoilInv, Motors
<1>2. QED BY <1>1, TypeCorrect, TimeStep, CoilStep, PTL DEF Spec

(* The open and the close coil are never energised together.                *)
THEOREM MutualExclusion == Spec => []NeverBothMotors
<1>1. CoilSafety => NeverBothMotors
  BY DEF CoilSafety
<1>2. QED BY <1>1, Inductive, PTL

(* Reversing the motor leaves both coils off for the settle window less the *)
(* two threads' delays.                                                     *)
THEOREM ReversalDeadTime == Spec => []DeadTime
<1>1. CoilSafety => DeadTime
  BY DEF CoilSafety
<1>2. QED BY <1>1, Inductive, PTL

-----------------------------------------------------------------------------
(* Refinement.                                                              *)

(* The driver implements the interlock: time steps are its time steps, a    *)
(* pin write or a crash drives or releases at most one coil, and no other   *)
(* step touches one.                                                        *)
THEOREM InterlockRefinement == Spec => ImplementsInterlock
<1> USE LagAssumption, SettleAssumption
<1> DEFINE ivars == <<clock, pins \cap Motors, fellAt>>
<1>1. Init => Interlock!Init
  BY DEF Init, Interlock!Init
<1>2. TypeOK /\ TimeInv /\ CoilSafety /\ CoilSafety' /\ [Next]_vars
        => [Interlock!Next]_ivars
  <2> SUFFICES ASSUME TypeOK, TimeInv, CoilSafety, CoilSafety', [Next]_vars
               PROVE  [Interlock!Next]_ivars
    OBVIOUS
  <2>1. CASE Advance
    BY <2>1 DEF Advance, history, Interlock!Next, Interlock!Pass
  <2>2. ASSUME NEW p \in PinStep, SetPin(p)
        PROVE  [Interlock!Next]_ivars
    <3>1. CASE p = "drain"
      <4>1. fellAt' = fellAt
        BY <2>2, <3>1 DEF SetPin, RecordPins, TypeOK, Motors
      <4>2. QED BY <2>2, <3>1, <4>1 DEF SetPin, Motors
    <3>2. CASE p \in Motors
      <4> DEFINE q == Opposite(p)
      <4>1. q # p /\ Opposite(p) = q /\ Motors = {p, q}
        BY <3>2 DEF Motors, Opposite
      <4>2. CASE pins' = pins
        BY <2>2, <4>2 DEF SetPin, RecordPins, TypeOK
      <4>3. CASE pins' = pins \cup {p} /\ p \notin pins
        <5>1. fellAt' = fellAt
          BY <2>2, <4>3 DEF SetPin, RecordPins, TypeOK
        <5>2. pins \cap Motors = {} /\ pins' \cap Motors = {p}
          BY <4>1, <4>3 DEF CoilSafety, NeverBothMotors
        <5>3. /\ clock + CmdLag + TickLag >= fellAt[q] + SettleMs
              /\ clock >= fellAt[q] /\ clock \in Nat /\ fellAt[q] \in Nat
          BY <2>2, <3>2, <4>1, <4>3, <5>1
             DEF CoilSafety, DeadTime, SetPin, TimeInv, TypeOK
        <5>4. \A d \in Motors \ {p} : d = q
          BY <4>1
        <5>5. Interlock!Energise(p)
          BY <2>2, <3>2, <4>1, <5>1, <5>2, <5>3, <5>4
             DEF SetPin, Interlock!Energise
        <5>6. QED BY <3>2, <5>5 DEF Interlock!Next
      <4>4. CASE pins' = pins \ {p} /\ p \in pins
        <5>1. fellAt' = [fellAt EXCEPT ![p] = clock]
          BY <2>2, <4>4 DEF SetPin, RecordPins, TypeOK
        <5>2. pins \cap Motors = {p} /\ pins' \cap Motors = {}
          BY <4>1, <4>4 DEF CoilSafety, NeverBothMotors
        <5>3. Interlock!Release(p)
          BY <2>2, <5>1, <5>2 DEF SetPin, Interlock!Release
        <5>4. QED BY <3>2, <5>3 DEF Interlock!Next
      <4>5. QED BY <2>2, <4>2, <4>3, <4>4 DEF SetPin
    <3>3. QED BY <3>1, <3>2 DEF PinStep, Outputs
  <2>3. ASSUME NEW t \in Timings, Crash(t)
        PROVE  [Interlock!Next]_ivars
    <3>1. CASE pins \cap Motors = {}
      <4>1. fellAt' = fellAt
        BY <2>3, <3>1 DEF Crash, RecordPins, TypeOK
      <4>2. QED BY <2>3, <3>1, <4>1 DEF Crash
    <3>2. ASSUME NEW p \in pins \cap Motors
          PROVE  [Interlock!Next]_ivars
      <4>1. pins \cap Motors = {p}
        BY DEF CoilSafety, NeverBothMotors, Motors
      <4>2. fellAt' = [fellAt EXCEPT ![p] = clock]
        BY <2>3, <4>1 DEF Crash, RecordPins, TypeOK
      <4>3. Interlock!Release(p)
        BY <2>3, <4>1, <4>2 DEF Crash, Interlock!Release
      <4>4. QED BY <4>3 DEF Interlock!Next
    <3>3. QED BY <3>1, <3>2
  <2>4. CASE UNCHANGED <<clock, pins, fellAt>>
    BY <2>4
  <2>5. QED
    BY <2>1, <2>2, <2>3, <2>4 DEF Next, CmdRead, CmdExec, ReplaceTiming,
       TickRead, TickValve, TickPersist, vars, history
<1>3. QED
  BY <1>1, <1>2, Inductive, PTL DEF Spec, ImplementsInterlock, Interlock!Spec

(* user_state is the state a sequence started from until it completes.      *)
UserInv ==
  /\ valve.phase \in {"TurningOn", "Draining"} => ~valve.user_state
  /\ valve.phase = "TurningOff" => valve.user_state

(* The sequencer implements the four-state water control of AbstractValve.  *)
THEOREM ValveRefinement == Spec => ImplementsAbstractValve
<1> DEFINE avars == <<State(valve), nvs>>
<1>1. ASSUME Init PROVE UserInv /\ Abstract!Init
  <2>1. PICK t \in Timings : valve = BootValve(t, nvs)
    BY <1>1 DEF Init
  <2>2. valve.phase = "Idle" /\ (valve.user_state <=> nvs = "on")
    BY <2>1 DEF BootValve, WithTiming, Restore
  <2>3. QED
    BY <1>1, <2>2 DEF Init, Saved, UserInv, State, Abstract!Init, Abstract!Boot
<1>2. TypeOK /\ UserInv /\ [Next]_vars => UserInv' /\ [Abstract!Next]_avars
  <2> SUFFICES ASSUME TypeOK, UserInv, [Next]_vars
               PROVE  UserInv' /\ [Abstract!Next]_avars
    OBVIOUS
  <2>0. valve \in Valve /\ nvs \in Saved /\ persisted \in Saved
    BY DEF TypeOK
  <2>1. ASSUME NEW c \in Commanders, CmdExec(c)
        PROVE  UserInv' /\ [Abstract!Next]_avars
    <3>1. cmd[c].on \in BOOLEAN /\ cmd[c].now \in Nat /\ nvs' = nvs
          /\ valve' = CommandedValve(valve, cmd[c].on, cmd[c].now)
      BY <2>1 DEF CmdExec, TypeOK
    <3>2. CASE valve' = valve
      BY <3>1, <3>2 DEF UserInv
    <3>3. CASE /\ State(valve) = "Off"
               /\ valve' = Enter(valve, "TurningOn", cmd[c].now)
      BY <2>0, <3>1, <3>3 DEF Enter, Valve, Phase, UserInv, State,
         Abstract!Next, Abstract!TurnOn
    <3>4. CASE /\ State(valve) = "On"
               /\ valve' = Enter(valve, "TurningOff", cmd[c].now)
      BY <2>0, <3>1, <3>4 DEF Enter, Valve, Phase, UserInv, State,
         Abstract!Next, Abstract!TurnOff
    <3>5. QED
      BY <2>0, <3>1, <3>2, <3>3, <3>4
         DEF CommandedValve, TurnOn, TurnOff, State, Valve, Phase
  <2>2. ASSUME NEW t \in Timings, ReplaceTiming(t)
        PROVE  UserInv' /\ [Abstract!Next]_avars
    BY <2>0, <2>2 DEF ReplaceTiming, SetTiming, Valve, UserInv, State
  <2>3. CASE TickValve
    <3>1. valve' = Tick(valve, tick.now) /\ nvs' = nvs
      BY <2>3 DEF TickValve
    <3>2. CASE valve' = valve
      BY <3>1, <3>2 DEF UserInv
    <3>3. CASE /\ valve.phase = "TurningOn"
               /\ valve'.phase = "Idle" /\ valve'.user_state
      BY <3>1, <3>3 DEF UserInv, State, Abstract!Next, Abstract!Complete
    <3>4. CASE /\ valve.phase = "TurningOff"
               /\ valve'.phase \in {"Idle", "Draining"} /\ ~valve'.user_state
      BY <3>1, <3>4 DEF UserInv, State, Abstract!Next, Abstract!Complete
    <3>5. CASE /\ valve.phase = "Draining" /\ valve'.phase = "Idle"
               /\ valve'.user_state = valve.user_state
      BY <3>1, <3>5 DEF UserInv, State
    <3>6. QED
      BY <2>0, <3>1, <3>2, <3>3, <3>4, <3>5
         DEF Tick, GoIdle, Enter, Valve, Phase
  <2>4. ASSUME NEW ok \in BOOLEAN, TickPersist(ok)
        PROVE  UserInv' /\ [Abstract!Next]_avars
    <3>1. valve' = valve
      BY <2>4 DEF TickPersist
    <3>2. nvs' = nvs \/ nvs' = AsByte(valve.user_state)
      BY <2>4 DEF TickPersist
    <3>3. AsByte(valve.user_state) = Abstract!Settled(State(valve))
      BY <2>0 DEF UserInv, State, AsByte, Abstract!Settled, Valve, Phase
    <3>4. QED
      BY <3>1, <3>2, <3>3 DEF UserInv, Abstract!Next, Abstract!Save
  <2>5. ASSUME NEW t \in Timings, Crash(t)
        PROVE  UserInv' /\ [Abstract!Next]_avars
    <3>1. valve'.phase = "Idle" /\ (valve'.user_state <=> nvs = "on")
      BY <2>5 DEF Crash, BootValve, WithTiming, Restore
    <3>2. QED
      BY <2>0, <2>5, <3>1 DEF Crash, UserInv, State, Abstract!Next,
         Abstract!Reboot, Abstract!Boot
  <2>6. CASE UNCHANGED <<valve, nvs>>
    BY <2>6 DEF UserInv
  <2>7. QED
    BY <2>1, <2>2, <2>3, <2>4, <2>5, <2>6 DEF Next, Advance, CmdRead,
       TickRead, SetPin, vars, history
<1>3. QED
  BY <1>1, <1>2, TypeCorrect, PTL
     DEF Spec, ImplementsAbstractValve, Abstract!Spec

-----------------------------------------------------------------------------
(* No sequence outlives its time.                                           *)

LongestSequence == SettleMs + LongestPulse + SettleMs

(* A tick that left a sequence under way read the clock before its end.     *)
BusyInv ==
  IsBusy(valve) =>
    /\ tick.pc # "valve" => tick.now <= valve.start_ms + LongestSequence
    /\ tick.now <= valve.start_ms + LongestSequence + TickGap

(* A sequence ends in time, whatever its timing is changed to, if commands  *)
(* take their lock within the settle window.                                *)
THEOREM BoundedSequence ==
  ASSUME CmdLag <= SettleMs
  PROVE  Spec => []SequenceBounded
<1> USE LagAssumption, SettleAssumption, TimingsAssumption
<1>1. Init => BusyInv
  BY BootValveType DEF Init, BusyInv, IsBusy
<1>2. TypeOK /\ TimeInv /\ BusyInv /\ [Next]_vars => BusyInv'
  <2> SUFFICES ASSUME TypeOK, TimeInv, BusyInv, [Next]_vars
               PROVE  BusyInv'
    OBVIOUS
  <2>0. /\ valve \in Valve /\ valve.start_ms \in Nat /\ tick.now \in Nat
        /\ clock \in Nat /\ tick.now <= clock /\ clock <= tick.now + TickGap
        /\ valve.timing.motor_run \in Nat /\ valve.timing.motor_run <= MaxMotor
        /\ retimed \in BOOLEAN
    BY DEF TypeOK, TimeInv, Valve, ValveTiming
  <2>a. /\ LongestPulse \in Nat /\ LongestSequence \in Nat
        /\ valve.timing.motor_run <= LongestPulse
    BY <2>0 DEF LongestPulse, LongestSequence
  <2>1. ASSUME NEW c \in Commanders, CmdExec(c) PROVE BusyInv'
    <3>1. /\ cmd[c].on \in BOOLEAN /\ cmd[c].now \in Nat
          /\ clock <= cmd[c].now + CmdLag
          /\ valve' = CommandedValve(valve, cmd[c].on, cmd[c].now)
          /\ tick' = tick /\ retimed' = (retimed /\ IsBusy(valve))
      BY <2>1 DEF CmdExec, TypeOK, TimeInv
    <3>2. CASE valve' = valve
      <4>1. IsBusy(valve) => LongestPulse' = LongestPulse
        BY <2>0, <3>1, <3>2 DEF LongestPulse
      <4>2. QED BY <3>1, <3>2, <4>1 DEF BusyInv, LongestSequence
    <3>3. CASE valve'.start_ms = cmd[c].now
      <4>1. valve'.timing = valve.timing
        BY <2>0, <3>1 DEF CommandedValve, TurnOn, TurnOff, Enter, Valve
      <4>2. LongestPulse' \in Nat
        BY <2>0, <4>1 DEF LongestPulse
      <4>3. QED BY <2>0, <3>1, <3>3, <4>2 DEF BusyInv, LongestSequence
    <3>4. QED BY <2>0, <3>1, <3>2, <3>3, CommandEffect
  <2>2. ASSUME NEW t \in Timings, ReplaceTiming(t) PROVE BusyInv'
    <3>1. /\ tick' = tick /\ valve' = [valve EXCEPT !.timing = t]
          /\ retimed' = (retimed \/ (IsBusy(valve) /\ t # valve.timing))
      BY <2>2 DEF ReplaceTiming, SetTiming
    <3>2. valve'.start_ms = valve.start_ms /\ IsBusy(valve') = IsBusy(valve)
          /\ valve'.timing = t
      BY <2>0, <3>1 DEF Valve, IsBusy
    <3>3. t.motor_run \in Nat
      BY DEF ValveTiming
    <3>4. IsBusy(valve) => LongestPulse' \in Nat /\ LongestPulse <= LongestPulse'
      <4>1. CASE t = valve.timing
        BY <2>0, <3>1, <3>2, <3>3, <4>1 DEF LongestPulse
      <4>2. CASE IsBusy(valve) /\ t # valve.timing
        <5>1. retimed'
          BY <3>1, <4>2
        <5>2. QED BY <2>0, <5>1 DEF LongestPulse
      <4>3. QED BY <4>1, <4>2
    <3>5. SUFFICES ASSUME IsBusy(valve')
                   PROVE  /\ tick.pc # "valve" =>
                               tick.now <= valve.start_ms + LongestSequence'
                          /\ tick.now <= valve.start_ms + LongestSequence' + TickGap
      BY <3>1, <3>2 DEF BusyInv
    <3>6. LongestSequence' \in Nat /\ LongestSequence <= LongestSequence'
      BY <2>0, <2>a, <3>2, <3>4, <3>5 DEF LongestSequence
    <3>7. QED BY <2>0, <2>a, <3>2, <3>5, <3>6 DEF BusyInv
  <2>3. CASE TickRead
    <3>1. valve' = valve /\ LongestPulse' = LongestPulse
      BY <2>3 DEF TickRead, history, LongestPulse
    <3>2. QED BY <2>0, <2>a, <2>3, <3>1 DEF TickRead, TypeOK, BusyInv, LongestSequence
  <2>4. CASE TickValve
    <3>1. /\ valve' = Tick(valve, tick.now) /\ tick'.now = tick.now
          /\ tick'.pc = "persist" /\ retimed' = retimed
      BY <2>4 DEF TickValve, TypeOK, history
    <3>3. ASSUME IsBusy(valve') PROVE valve' = valve /\ ~SequenceDone(valve, tick.now)
      BY <2>0, <3>1, <3>3 DEF Tick, GoIdle, Enter, IsBusy, Valve, Phase
    <3>4. ASSUME ~SequenceDone(valve, tick.now)
          PROVE  tick.now <= valve.start_ms + LongestSequence
      BY <2>0, <2>a, <3>4 DEF SequenceDone, SequenceMs, Elapsed, LongestSequence
    <3>5. QED BY <2>0, <2>a, <3>1, <3>3, <3>4 DEF BusyInv, LongestSequence, LongestPulse
  <2>5. ASSUME NEW ok \in BOOLEAN, TickPersist(ok) PROVE BusyInv'
    BY <2>5 DEF TickPersist, TypeOK, BusyInv, LongestSequence, LongestPulse, history
  <2>6. ASSUME NEW p \in PinStep, SetPin(p) PROVE BusyInv'
    BY <2>6 DEF SetPin, TypeOK, BusyInv, LongestSequence, LongestPulse, PinStep, Outputs,
       Motors
  <2>7. ASSUME NEW t \in Timings, Crash(t) PROVE BusyInv'
    BY <2>7, BootValveType DEF Crash, TypeOK, BusyInv, IsBusy
  <2>8. CASE UNCHANGED <<valve, tick, retimed>>
    BY <2>8 DEF BusyInv, LongestSequence, LongestPulse
  <2>9. QED
    BY <2>1, <2>2, <2>3, <2>4, <2>5, <2>6, <2>7, <2>8
       DEF Next, Advance, CmdRead, vars, history
<1>3. TypeOK /\ TimeInv /\ BusyInv => SequenceBounded
  BY DEF TypeOK, TimeInv, BusyInv, SequenceBounded, LongestSequence, LongestPulse, Valve,
     ValveTiming
<1>4. QED BY <1>1, <1>2, <1>3, Inductive, PTL DEF Spec

-----------------------------------------------------------------------------
(* The NVS key.                                                             *)

\* AppInner::last_persisted_valve is what NVS holds: it changes with a write
\* that succeeded, and a boot reads it back.
PersistedIsStored == persisted = nvs

LEMMA PersistedStep == PersistedIsStored /\ [Next]_vars => PersistedIsStored'
<1> SUFFICES ASSUME PersistedIsStored, [Next]_vars
             PROVE  persisted' = nvs'
  BY DEF PersistedIsStored
<1> USE DEF PersistedIsStored
<1>1. CASE Advance
  BY <1>1 DEF Advance
<1>2. ASSUME NEW c \in Commanders, NEW on \in BOOLEAN, CmdRead(c, on)
      PROVE  persisted' = nvs'
  BY <1>2 DEF CmdRead
<1>3. ASSUME NEW c \in Commanders, CmdExec(c)
      PROVE  persisted' = nvs'
  BY <1>3 DEF CmdExec
<1>4. ASSUME NEW t \in Timings, ReplaceTiming(t)
      PROVE  persisted' = nvs'
  BY <1>4 DEF ReplaceTiming
<1>5. CASE TickRead
  BY <1>5 DEF TickRead
<1>6. CASE TickValve
  BY <1>6 DEF TickValve
<1>7. ASSUME NEW ok \in BOOLEAN, TickPersist(ok)
      PROVE  persisted' = nvs'
  BY <1>7 DEF TickPersist
<1>8. ASSUME NEW p \in PinStep, SetPin(p)
      PROVE  persisted' = nvs'
  BY <1>8 DEF SetPin
<1>9. ASSUME NEW t \in Timings, Crash(t)
      PROVE  persisted' = nvs'
  BY <1>9 DEF Crash
<1>10. CASE UNCHANGED vars
  BY <1>10 DEF vars
<1> QED
  BY <1>1, <1>2, <1>3, <1>4, <1>5, <1>6, <1>7, <1>8, <1>9, <1>10 DEF Next

\* A failed NVS write of the valve's state is repeated by the next tick, for
\* any number of commanders: NVS never differs from the state while the
\* program believes it saved.
THEOREM SavesAreRetried == Spec => []FailedSaveIsRetried
<1>1. Init => PersistedIsStored
  BY DEF Init, PersistedIsStored
<1>2. PersistedIsStored => FailedSaveIsRetried
  BY DEF PersistedIsStored, FailedSaveIsRetried
<1> QED
  BY <1>1, <1>2, PersistedStep, PTL DEF Spec

-----------------------------------------------------------------------------
(* The drain and the length of a pulse.                                     *)

TickStages == {"persist", "open_motor", "close_motor", "drain"}

(* A drain that is asked for is asked for alone, by a tick whose coils are  *)
(* written off first; a drain that is on when a sequence starts is looked   *)
(* at again before the settle window has passed.                            *)
DrainInv ==
  /\ "drain" \in tick.out =>
       /\ tick.out = {"drain"} /\ tick.pc \in TickStages
       /\ tick.pc \in {"close_motor", "drain"} => "open_motor" \notin pins
       /\ tick.pc = "drain" => "close_motor" \notin pins
       /\ IsBusy(valve) => tick.now <= valve.start_ms + CmdLag
  /\ ("drain" \in pins /\ IsBusy(valve)) =>
       /\ tick.pc = "sleep" => tick.now <= valve.start_ms + CmdLag
       /\ tick.pc = "valve" => tick.now <= valve.start_ms + CmdLag + TickGap
       /\ tick.pc \in TickStages => tick.out \cap Motors = {}

(* What a tick asks for, by where the sequence is.                          *)
LEMMA OutputEffect ==
  ASSUME NEW v \in Valve, NEW now \in Nat
  PROVE  /\ "drain" \in TickOutputs(v, now) =>
              TickOutputs(v, now) = {"drain"} /\ ~IsBusy(Tick(v, now))
         /\ (IsBusy(v) /\ now < v.start_ms + SettleMs) =>
              TickOutputs(v, now) = {} /\ Tick(v, now) = v
         /\ \A m \in Motors : m \in TickOutputs(v, now) =>
              now < v.start_ms + SettleMs + v.timing.motor_run
<1> USE SettleAssumption
<1>1. v.start_ms \in Nat /\ v.timing.motor_run \in Nat /\ v.phase \in Phase
  BY DEF Valve, ValveTiming
<1>2. "drain" \in TickOutputs(v, now) =>
        TickOutputs(v, now) = {"drain"} /\ ~IsBusy(Tick(v, now))
  <2>1. SUFFICES ASSUME "drain" \in TickOutputs(v, now)
                 PROVE  TickOutputs(v, now) = {"drain"} /\ ~IsBusy(Tick(v, now))
    OBVIOUS
  <2>2. /\ TickOutputs(v, now) = {"drain"}
        /\ \/ v.phase = "TurningOff" /\ SequenceDone(v, now)
                /\ v.timing.drain_hold # 0
           \/ v.phase = "Draining" /\ ~DrainDone(v, now)
    BY <2>1 DEF TickOutputs
  <2>3. QED
    BY <2>2 DEF Tick, GoIdle, Enter, IsBusy, Valve
<1>3. ASSUME IsBusy(v), now < v.start_ms + SettleMs
      PROVE  TickOutputs(v, now) = {} /\ Tick(v, now) = v
  <2>1. Elapsed(v, now) < SettleMs /\ Elapsed(v, now) \in Nat
    BY <1>1, <1>3 DEF Elapsed
  <2>2. ~InMotorWindow(v, now) /\ ~SequenceDone(v, now)
    BY <1>1, <2>1 DEF InMotorWindow, SequenceDone, SequenceMs
  <2>3. QED BY <1>1, <1>3, <2>2 DEF Tick, TickOutputs, IsBusy
<1>4. ASSUME NEW m \in Motors, m \in TickOutputs(v, now)
      PROVE  now < v.start_ms + SettleMs + v.timing.motor_run
  <2>1. InMotorWindow(v, now)
    BY <1>4 DEF TickOutputs, Motors
  <2>2. QED BY <1>1, <2>1 DEF InMotorWindow, Elapsed
<1>5. QED BY <1>2, <1>3, <1>4

LEMMA DrainStep ==
  ASSUME CmdLag + TickGap < SettleMs
  PROVE  TypeOK /\ TimeInv /\ CoilSafety /\ DrainInv /\ DrainOffWhileMoving /\ [Next]_vars
           => DrainInv' /\ DrainOffWhileMoving'
<1> SUFFICES ASSUME TypeOK, TimeInv, CoilSafety, DrainInv, DrainOffWhileMoving, [Next]_vars
             PROVE  DrainInv' /\ DrainOffWhileMoving'
  OBVIOUS
<1> USE LagAssumption, SettleAssumption
<1>0. /\ valve \in Valve /\ valve.start_ms \in Nat /\ tick.now \in Nat
      /\ clock \in Nat /\ tick.now <= clock /\ clock <= tick.now + TickGap
      /\ tick \in [pc : TickStep, now : Nat, out : SUBSET Outputs]
  BY DEF TypeOK, TimeInv, Valve
<1>1. ASSUME NEW c \in Commanders, CmdExec(c)
      PROVE  DrainInv' /\ DrainOffWhileMoving'
  <2>1. /\ cmd[c].now \in Nat /\ cmd[c].on \in BOOLEAN
        /\ clock <= cmd[c].now + CmdLag
        /\ valve' = CommandedValve(valve, cmd[c].on, cmd[c].now)
        /\ tick' = tick /\ pins' = pins
    BY <1>1 DEF CmdExec, TypeOK, TimeInv
  <2>2. CASE valve' = valve
    BY <2>1, <2>2 DEF DrainInv, DrainOffWhileMoving
  <2>3. CASE ~IsBusy(valve) /\ IsBusy(valve') /\ valve'.start_ms = cmd[c].now
    <3>1. tick.now <= valve'.start_ms + CmdLag
      BY <1>0, <2>1, <2>3
    <3>2. "drain" \in pins /\ tick.pc \in TickStages => tick.out \cap Motors = {}
      <4>1. ASSUME NEW m \in Motors, m \in tick.out PROVE FALSE
        <5>1. Drives(valve, m)
          BY <4>1 DEF CoilSafety, CoilInv
        <5>2. QED BY <2>3, <5>1 DEF Drives, IsBusy
      <4>2. QED BY <4>1
    <3>3. tick.now <= valve'.start_ms + CmdLag + TickGap
      BY <1>0, <2>1, <2>3, <3>1
    <3>4. QED BY <2>1, <3>1, <3>2, <3>3 DEF DrainInv, DrainOffWhileMoving
  <2>4. QED BY <1>0, <2>1, <2>2, <2>3, CommandEffect
<1>2. ASSUME NEW t \in Timings, ReplaceTiming(t)
      PROVE  DrainInv' /\ DrainOffWhileMoving'
  <2>1. valve'.start_ms = valve.start_ms /\ IsBusy(valve') = IsBusy(valve)
    BY <1>2, <1>0 DEF ReplaceTiming, SetTiming, Valve, IsBusy
  <2>2. QED BY <1>2, <2>1 DEF ReplaceTiming, DrainInv, DrainOffWhileMoving
<1>3. CASE TickRead
  <2>1. /\ tick.pc = "sleep" /\ tick'.pc = "valve" /\ tick'.now = clock
        /\ tick'.out = tick.out /\ valve' = valve /\ pins' = pins
    BY <1>3, <1>0 DEF TickRead
  <2>2. "drain" \notin tick.out
    BY <2>1 DEF DrainInv, TickStages
  <2>3. ("drain" \in pins /\ IsBusy(valve)) =>
           tick'.now <= valve.start_ms + CmdLag + TickGap
    BY <1>0, <2>1 DEF DrainInv
  <2>4. QED BY <2>1, <2>2, <2>3 DEF DrainInv, DrainOffWhileMoving, TickStages
<1>4. CASE TickValve
  <2>1. /\ tick.pc = "valve" /\ tick'.pc = "persist" /\ tick'.now = tick.now
        /\ tick'.out = TickOutputs(valve, tick.now) /\ pins' = pins
        /\ valve' = Tick(valve, tick.now)
    BY <1>4, <1>0 DEF TickValve
  <2>2. "drain" \in tick'.out => tick'.out = {"drain"} /\ ~IsBusy(valve')
    BY <1>0, <2>1, OutputEffect
  <2>3. "drain" \in pins /\ IsBusy(valve') => tick'.out \cap Motors = {}
    <3>1. SUFFICES ASSUME "drain" \in pins, IsBusy(valve')
                   PROVE  tick'.out \cap Motors = {}
      OBVIOUS
    <3>2. valve' = valve
      BY <1>0, <2>1, <3>1, TickEffect
    <3>3. tick.now <= valve.start_ms + CmdLag + TickGap
      BY <2>1, <3>1, <3>2 DEF DrainInv
    <3>4. tick.now < valve.start_ms + SettleMs
      BY <1>0, <3>3
    <3>5. QED BY <1>0, <2>1, <3>1, <3>2, <3>4, OutputEffect
  <2>4. QED BY <2>1, <2>2, <2>3 DEF DrainInv, DrainOffWhileMoving, TickStages
<1>5. ASSUME NEW ok \in BOOLEAN, TickPersist(ok)
      PROVE  DrainInv' /\ DrainOffWhileMoving'
  <2>1. /\ tick.pc = "persist" /\ tick'.pc = "open_motor" /\ tick'.now = tick.now
        /\ tick'.out = tick.out /\ pins' = pins /\ valve' = valve
    BY <1>5, <1>0 DEF TickPersist
  <2>2. QED BY <2>1 DEF DrainInv, DrainOffWhileMoving, TickStages
<1>6. ASSUME NEW p \in PinStep, SetPin(p)
      PROVE  DrainInv' /\ DrainOffWhileMoving'
  <2>1. /\ tick.pc = p /\ tick'.pc = AfterPin(p) /\ tick'.now = tick.now
        /\ tick'.out = tick.out \ {p} /\ valve' = valve
        /\ pins' = IF p \in tick.out THEN pins \cup {p} ELSE pins \ {p}
        /\ p \in TickStages
    BY <1>6, <1>0 DEF SetPin, PinStep, Outputs, Motors, TickStages
  <2>2. CASE p = "drain"
    <3>1. tick'.pc = "sleep"
      BY <2>1, <2>2 DEF AfterPin
    <3>2. "drain" \notin tick'.out
      BY <2>1, <2>2
    <3>3. CASE "drain" \in tick.out
      <4>1. pins' = pins \cup {"drain"} /\ pins \cap Motors = {}
        BY <2>1, <2>2, <3>3 DEF DrainInv, Motors
      <4>2. IsBusy(valve) => tick.now <= valve.start_ms + CmdLag
        BY <3>3 DEF DrainInv
      <4>3. QED
        BY <2>1, <3>1, <3>2, <4>1, <4>2 DEF DrainInv, DrainOffWhileMoving, Motors,
           TickStages
    <3>4. CASE "drain" \notin tick.out
      <4>1. "drain" \notin pins'
        BY <2>1, <2>2, <3>4
      <4>2. QED BY <3>2, <4>1 DEF DrainInv, DrainOffWhileMoving
    <3>5. QED BY <3>3, <3>4
  <2>3. CASE p \in Motors
    <3>1. /\ "drain" \in pins' <=> "drain" \in pins
          /\ "drain" \in tick'.out <=> "drain" \in tick.out
      BY <2>1, <2>3 DEF Motors
    <3>2. tick'.pc \in TickStages
      BY <2>1, <2>3 DEF AfterPin, Motors, TickStages
    <3>3. CASE p \in tick.out
      <4>1. IsBusy(valve)
        BY <2>3, <3>3 DEF CoilSafety, CoilInv, Drives, IsBusy, Motors
      <4>2. "drain" \notin pins /\ "drain" \notin tick.out
        BY <2>1, <2>3, <3>3, <4>1 DEF DrainInv, Motors
      <4>3. QED BY <3>1, <4>2 DEF DrainInv, DrainOffWhileMoving
    <3>4. CASE p \notin tick.out
      <4>1. pins' = pins \ {p} /\ tick'.out = tick.out
        BY <2>1, <3>4
      <4>2. "drain" \in tick'.out =>
              /\ tick'.pc \in {"close_motor", "drain"} => "open_motor" \notin pins'
              /\ tick'.pc = "drain" => "close_motor" \notin pins'
        BY <2>1, <2>3, <4>1 DEF DrainInv, Motors, AfterPin
      <4>3. DrainInv'
        BY <2>1, <3>1, <3>2, <4>1, <4>2 DEF DrainInv, TickStages
      <4>4. QED BY <4>1, <4>3 DEF DrainOffWhileMoving
    <3>5. QED BY <3>3, <3>4
  <2>4. QED BY <2>2, <2>3 DEF PinStep, Outputs
<1>7. ASSUME NEW t \in Timings, Crash(t)
      PROVE  DrainInv' /\ DrainOffWhileMoving'
  BY <1>7 DEF Crash, DrainInv, DrainOffWhileMoving
<1>8. CASE UNCHANGED <<valve, tick, pins>>
  BY <1>8 DEF DrainInv, DrainOffWhileMoving
<1>9. QED
  BY <1>1, <1>2, <1>3, <1>4, <1>5, <1>6, <1>7, <1>8
     DEF Next, Advance, CmdRead, vars, history

(* The drain is off whenever a coil is energised, if a command's lag and    *)
(* the time between two ticks together are shorter than the settle window:  *)
(* WaterValve::tick_outputs, over the pin writes one at a time.             *)
THEOREM DrainIsOff ==
  ASSUME CmdLag + TickGap < SettleMs
  PROVE  Spec => []DrainOffWhileMoving
<1>1. Init => DrainInv /\ DrainOffWhileMoving
  BY DEF Init, DrainInv, DrainOffWhileMoving
<1>2. QED BY <1>1, DrainStep, Inductive, PTL DEF Spec

(* How old the tick is that last asked for a coil which is on, and where    *)
(* the coil stands in its sequence.                                         *)
PulseInv(m) ==
  m \in pins =>
    /\ roseAt[m] <= clock
    /\ Drives(valve, m) => roseAt[m] >= valve.start_ms + SettleMs
    /\ ~IsBusy(valve) => (m = "open_motor" <=> (valve.phase = "Idle" /\ valve.user_state))
    /\ tick.now <= roseAt[m] + MaxMotor + TickGap
    /\ (tick.pc = "sleep" \/ m \in tick.out \/ (tick.pc \in TickStages /\ m \notin Pending))
         => tick.now <= roseAt[m] + MaxMotor

LEMMA PulseStep ==
  ASSUME NEW m \in Motors
  PROVE  TypeOK /\ TimeInv /\ CoilSafety /\ PulseInv(m) /\ [Next]_vars => PulseInv(m)'
<1> SUFFICES ASSUME TypeOK, TimeInv, CoilSafety, PulseInv(m), [Next]_vars, m \in pins'
             PROVE  PulseInv(m)'
  BY DEF PulseInv
<1> USE LagAssumption, SettleAssumption, TimingsAssumption
<1>0. /\ valve \in Valve /\ valve.start_ms \in Nat /\ tick.now \in Nat
      /\ clock \in Nat /\ tick.now <= clock /\ clock <= tick.now + TickGap
      /\ tick \in [pc : TickStep, now : Nat, out : SUBSET Outputs]
      /\ roseAt[m] \in Nat /\ roseAt \in [Motors -> Nat]
      /\ valve.timing.motor_run \in Nat /\ valve.timing.motor_run <= MaxMotor
  BY DEF TypeOK, TimeInv, Valve, ValveTiming
<1>1. ASSUME NEW c \in Commanders, CmdExec(c) PROVE PulseInv(m)'
  <2>1. /\ cmd[c].now \in Nat /\ cmd[c].on \in BOOLEAN
        /\ valve' = CommandedValve(valve, cmd[c].on, cmd[c].now)
        /\ tick' = tick /\ pins' = pins /\ clock' = clock /\ roseAt' = roseAt
    BY <1>1 DEF CmdExec, TypeOK
  <2>2. Pending' = Pending
    BY <2>1 DEF Pending
  <2>3. CASE valve' = valve
    BY <2>1, <2>2, <2>3 DEF PulseInv, Drives
  <2>4. CASE ~IsBusy(valve) /\ IsBusy(valve')
    <3>1. ~Drives(valve', m)
      BY <1>0, <2>1, <2>4
         DEF CommandedValve, TurnOn, TurnOff, Enter, IsBusy, Drives, PulseInv, Motors, Valve
    <3>2. QED BY <2>1, <2>2, <2>4, <3>1 DEF PulseInv, Drives
  <2>5. QED BY <1>0, <2>1, <2>3, <2>4, CommandEffect
<1>2. ASSUME NEW t \in Timings, ReplaceTiming(t) PROVE PulseInv(m)'
  <2>1. /\ valve'.start_ms = valve.start_ms /\ valve'.phase = valve.phase
        /\ valve'.user_state = valve.user_state
        /\ tick' = tick /\ pins' = pins /\ clock' = clock /\ roseAt' = roseAt
    BY <1>2, <1>0 DEF ReplaceTiming, SetTiming, Valve
  <2>2. QED BY <2>1 DEF PulseInv, Drives, IsBusy, Pending
<1>3. CASE TickRead
  <2>1. /\ tick.pc = "sleep" /\ tick'.pc = "valve" /\ tick'.now = clock
        /\ tick'.out = tick.out /\ valve' = valve /\ pins' = pins
        /\ clock' = clock /\ roseAt' = roseAt
    BY <1>3, <1>0 DEF TickRead, history
  <2>2. m \notin tick.out
    BY <2>1 DEF CoilSafety, CoilInv, Pending
  <2>3. clock <= roseAt[m] + MaxMotor + TickGap
    BY <1>0, <2>1 DEF PulseInv
  <2>4. QED BY <2>1, <2>2, <2>3 DEF PulseInv, Drives, IsBusy, TickStages
<1>4. CASE TickValve
  <2>1. /\ tick.pc = "valve" /\ tick'.pc = "persist" /\ tick'.now = tick.now
        /\ tick'.out = TickOutputs(valve, tick.now) /\ pins' = pins
        /\ valve' = Tick(valve, tick.now) /\ clock' = clock /\ roseAt' = roseAt
    BY <1>4, <1>0 DEF TickValve, history
  <2>2. Drives(valve, m) /\ roseAt[m] >= valve.start_ms + SettleMs /\ m \in Pending'
    BY <2>1 DEF CoilSafety, CoilInv, Pending, PulseInv, Outputs
  <2>3. Drives(valve', m) => valve'.start_ms = valve.start_ms
    BY <1>0, <2>1, <2>2, TickEffect DEF Drives, IsBusy, Motors
  <2>4. ~IsBusy(valve') =>
          (m = "open_motor" <=> (valve'.phase = "Idle" /\ valve'.user_state))
    BY <1>0, <2>1, <2>2 DEF Tick, GoIdle, Enter, Drives, Valve, Motors, IsBusy
  <2>5. m \in tick'.out => tick.now <= roseAt[m] + MaxMotor
    <3>1. m \in tick'.out => tick.now < valve.start_ms + SettleMs + valve.timing.motor_run
      BY <1>0, <2>1, OutputEffect
    <3>2. QED BY <1>0, <2>2, <3>1
  <2>6. QED
    BY <2>1, <2>2, <2>3, <2>4, <2>5 DEF PulseInv
<1>5. ASSUME NEW ok \in BOOLEAN, TickPersist(ok) PROVE PulseInv(m)'
  <2>1. /\ tick.pc = "persist" /\ tick'.pc = "open_motor" /\ tick'.now = tick.now
        /\ tick'.out = tick.out /\ pins' = pins /\ valve' = valve
        /\ clock' = clock /\ roseAt' = roseAt
    BY <1>5, <1>0 DEF TickPersist, history
  <2>2. Pending' = Pending
    BY <2>1 DEF Pending
  <2>3. QED BY <2>1, <2>2 DEF PulseInv, Drives, IsBusy, TickStages
<1>6. ASSUME NEW p \in PinStep, SetPin(p) PROVE PulseInv(m)'
  <2>1. /\ tick.pc = p /\ tick'.pc = AfterPin(p) /\ tick'.now = tick.now
        /\ tick'.out = tick.out \ {p} /\ valve' = valve /\ clock' = clock
        /\ pins' = IF p \in tick.out THEN pins \cup {p} ELSE pins \ {p}
        /\ p \in TickStages
        /\ roseAt'[m] = IF m \in pins' \ pins THEN clock ELSE roseAt[m]
    BY <1>6, <1>0 DEF SetPin, RecordPins, PinStep, Outputs, Motors, TickStages
  <2>2. CASE p = m
    <3>1. m \in tick.out
      BY <2>1, <2>2
    <3>2. /\ Drives(valve, m) /\ tick.now >= valve.start_ms + SettleMs /\ IsBusy(valve)
      BY <3>1 DEF CoilSafety, CoilInv, Drives, IsBusy, Motors
    <3>3. roseAt'[m] \in Nat /\ roseAt'[m] <= clock
          /\ roseAt'[m] >= valve.start_ms + SettleMs
          /\ tick.now <= roseAt'[m] + MaxMotor
      <4>1. CASE m \in pins
        BY <1>0, <2>1, <3>1, <3>2, <4>1 DEF PulseInv
      <4>2. CASE m \notin pins
        BY <1>0, <2>1, <3>2, <4>2
      <4>3. QED BY <4>1, <4>2
    <3>4. tick.now <= roseAt'[m] + MaxMotor + TickGap
      BY <1>0, <3>3
    <3>5. QED BY <2>1, <3>2, <3>3, <3>4 DEF PulseInv, Drives, IsBusy
  <2>3. CASE p # m
    <3>1. m \in pins /\ roseAt'[m] = roseAt[m] /\ (m \in tick'.out <=> m \in tick.out)
      BY <2>1, <2>3
    <3>2. (tick'.pc = "sleep" \/ (tick'.pc \in TickStages /\ m \notin Pending')) =>
             m \notin Pending
      <4>1. CASE p = "drain"
        BY <2>1, <4>1 DEF Pending, Motors
      <4>2. CASE p = "close_motor"
        BY <2>1, <2>3, <4>2 DEF Pending, Motors
      <4>3. CASE p = "open_motor"
        <5>1. tick'.pc = "close_motor" /\ m = "close_motor"
          BY <2>1, <2>3, <4>3 DEF AfterPin, Motors
        <5>2. QED BY <5>1 DEF Pending
      <4>4. QED BY <4>1, <4>2, <4>3 DEF PinStep, Outputs, Motors
    <3>3. QED BY <2>1, <3>1, <3>2 DEF PulseInv, Drives, IsBusy, TickStages
  <2>4. QED BY <2>2, <2>3
<1>7. ASSUME NEW t \in Timings, Crash(t) PROVE PulseInv(m)'
  BY <1>7 DEF Crash, PulseInv
<1>8. CASE Advance \/ UNCHANGED <<clock, valve, tick, pins, roseAt>>
  <2>1. /\ valve' = valve /\ tick' = tick /\ pins' = pins /\ roseAt' = roseAt
        /\ clock' \in {clock, clock + 1}
    BY <1>8 DEF Advance, history
  <2>2. Pending' = Pending
    BY <2>1 DEF Pending
  <2>3. QED BY <1>0, <2>1, <2>2 DEF PulseInv, Drives, IsBusy
<1>9. QED
  BY <1>1, <1>2, <1>3, <1>4, <1>5, <1>6, <1>7, <1>8
     DEF Next, CmdRead, vars, history

(* A coil is energised no longer than the longest pulse and the tick's own  *)
(* delays, whatever the timing is changed to and however commands come.     *)
THEOREM PulseIsBounded == Spec => []CoilOnTime
<1> USE LagAssumption, TimingsAssumption
<1> DEFINE AllPulses == \A m \in Motors : PulseInv(m)
<1>1. Init => AllPulses
  BY DEF Init, PulseInv
<1>2. TypeOK /\ TimeInv /\ CoilSafety /\ AllPulses /\ [Next]_vars => AllPulses'
  BY PulseStep
<1>3. TypeOK /\ TimeInv /\ AllPulses => CoilOnTime
  <2> SUFFICES ASSUME TypeOK, TimeInv, NEW m \in Motors, m \in pins, PulseInv(m)
               PROVE  clock <= roseAt[m] + MaxMotor + TickGap + TickLag
    BY DEF CoilOnTime
  <2>1. /\ clock \in Nat /\ tick.now \in Nat /\ roseAt[m] \in Nat
        /\ tick.now <= roseAt[m] + MaxMotor + TickGap
        /\ tick.pc = "sleep" => tick.now <= roseAt[m] + MaxMotor
        /\ clock <= tick.now + TickGap
        /\ tick.pc # "sleep" => clock <= tick.now + TickLag
    BY DEF TypeOK, TimeInv, PulseInv
  <2>2. QED BY <2>1
<1> HIDE DEF AllPulses
<1>4. QED BY <1>1, <1>2, <1>3, Inductive, PTL DEF Spec

-----------------------------------------------------------------------------
(* A pulse that is reported was driven.                                     *)

\* The window in which the sequence under way asks for its coil.
WindowStart == valve.start_ms + SettleMs
WindowEnd   == WindowStart + valve.timing.motor_run

\* The coil is on, and went on with the first tick of the window ...
Driven(m) ==
  m \in pins /\ roseAt[m] <= WindowStart + TickGap + TickLag

\* ... or it is off again, after a pulse as long as PulseWasDriven asks.
Released(m) ==
  /\ m \notin pins
  /\ roseAt[m] >= WindowStart
  /\ fellAt[m] + TickGap + TickLag >= roseAt[m] + valve.timing.motor_run

(* How far the pulse of coil m is, by the tick that was last evaluated: no  *)
(* tick of its window has been, or one has, or one past the window has.     *)
(* While a tick's pins are being written, a coil that is still Pending is   *)
(* as the tick before left it.                                              *)
Delivery(m) ==
  (/\ Drives(valve, m) /\ ~retimed
   /\ valve.timing.motor_run > TickGap + TickLag) =>
    /\ tick.pc = "sleep" =>
         /\ tick.now < WindowStart => m \notin pins
         /\ tick.now >= WindowStart /\ tick.now < WindowEnd => Driven(m)
         /\ tick.now >= WindowEnd => Released(m)
    /\ tick.pc = "valve" =>
         \/ m \notin pins /\ tick.now < WindowStart + TickGap
         \/ /\ Driven(m)
            /\ tick.now >= WindowStart /\ tick.now < WindowEnd + TickGap
         \/ Released(m) /\ tick.now >= WindowEnd
    /\ tick.pc \in TickStages =>
         /\ tick.now < WindowStart => m \notin pins
         /\ tick.now >= WindowStart /\ tick.now < WindowEnd =>
              /\ m \in Pending => m \in tick.out
              /\ \/ Driven(m)
                 \/ /\ m \in Pending /\ m \notin pins
                    /\ tick.now < WindowStart + TickGap
         /\ tick.now >= WindowEnd =>
              /\ m \notin tick.out
              /\ Released(m) \/ (m \in Pending /\ Driven(m))

\* The tick asks for the coil of the sequence under way just in its window.
LEMMA WindowOutput ==
  ASSUME NEW m \in Motors, valve \in Valve, Drives(valve, m), tick.now \in Nat
  PROVE  m \in TickOutputs(valve, tick.now)
           <=> (tick.now >= WindowStart /\ tick.now < WindowEnd)
<1> USE SettleAssumption
<1>1. valve.start_ms \in Nat /\ valve.timing.motor_run \in Nat
  BY DEF Valve, ValveTiming
<1>2. InMotorWindow(valve, tick.now)
        <=> (tick.now >= WindowStart /\ tick.now < WindowEnd)
  BY <1>1 DEF InMotorWindow, Elapsed, WindowStart, WindowEnd
<1>3. InMotorWindow(valve, tick.now) => ~SequenceDone(valve, tick.now)
  BY <1>1 DEF SequenceDone, SequenceMs, InMotorWindow, Elapsed
<1>4. CASE m = "open_motor"
  BY <1>2, <1>4 DEF TickOutputs, Drives
<1>5. CASE m = "close_motor"
  BY <1>2, <1>3, <1>5 DEF TickOutputs, Drives
<1>6. QED BY <1>4, <1>5 DEF Motors

LEMMA DeliveryStep ==
  ASSUME NEW m \in Motors, CmdLag + TickGap < SettleMs
  PROVE  TypeOK /\ TimeInv /\ CoilSafety /\ PulseInv(m) /\ Delivery(m) /\ [Next]_vars
           => Delivery(m)'
<1> SUFFICES ASSUME TypeOK, TimeInv, CoilSafety, PulseInv(m), Delivery(m), [Next]_vars,
                    Drives(valve', m), ~retimed',
                    valve'.timing.motor_run > TickGap + TickLag
             PROVE  Delivery(m)'
  BY DEF Delivery
<1> USE LagAssumption, SettleAssumption
<1>0. /\ valve \in Valve /\ valve.start_ms \in Nat /\ tick.now \in Nat
      /\ clock \in Nat /\ tick.now <= clock /\ clock <= tick.now + TickGap
      /\ tick.pc # "sleep" => clock <= tick.now + TickLag
      /\ tick \in [pc : TickStep, now : Nat, out : SUBSET Outputs]
      /\ roseAt[m] \in Nat /\ fellAt[m] \in Nat
      /\ valve.timing.motor_run \in Nat
  BY DEF TypeOK, TimeInv, Valve, ValveTiming
<1>a. IsBusy(valve')
  BY DEF Drives, IsBusy, Motors
<1>1. ASSUME UNCHANGED <<valve, tick, pins, roseAt, fellAt>>, retimed' = retimed
      PROVE  Delivery(m)'
  <2>1. Pending' = Pending
    BY <1>1 DEF Pending
  <2>2. QED
    BY <1>1, <2>1 DEF Delivery, Driven, Released, WindowStart, WindowEnd
<1>2. ASSUME NEW c \in Commanders, CmdExec(c) PROVE Delivery(m)'
  <2>1. /\ cmd[c].now \in Nat /\ cmd[c].on \in BOOLEAN
        /\ clock <= cmd[c].now + CmdLag
        /\ valve' = CommandedValve(valve, cmd[c].on, cmd[c].now)
        /\ UNCHANGED <<tick, pins, roseAt, fellAt>>
        /\ retimed' = (retimed /\ IsBusy(valve))
    BY <1>2 DEF CmdExec, TypeOK, TimeInv
  <2>2. CASE valve' = valve
    <3>1. retimed' = retimed
      BY <1>a, <2>1, <2>2 DEF TypeOK
    <3>2. QED BY <1>1, <2>1, <2>2, <3>1
  <2>3. CASE ~IsBusy(valve) /\ valve'.start_ms = cmd[c].now
    <3>1. m \notin pins
      BY <1>0, <2>1, <2>3
         DEF CommandedValve, TurnOn, TurnOff, Enter, IsBusy, Drives, PulseInv, Motors, Valve
    <3>2. valve'.timing = valve.timing
      BY <1>0, <2>1 DEF CommandedValve, TurnOn, TurnOff, Enter, Valve
    <3>3. tick.now < WindowStart' /\ WindowStart' \in Nat
      BY <1>0, <2>1, <2>3 DEF WindowStart
    <3>4. WindowEnd' \in Nat /\ WindowEnd' >= WindowStart'
      BY <1>0, <3>2, <3>3 DEF WindowEnd
    <3>5. QED
      BY <1>0, <2>1, <3>1, <3>3, <3>4 DEF Delivery
  <2>4. QED BY <1>0, <2>1, <2>2, <2>3, CommandEffect
<1>3. ASSUME NEW t \in Timings, ReplaceTiming(t) PROVE Delivery(m)'
  <2>1. /\ valve' = [valve EXCEPT !.timing = t]
        /\ retimed' = (retimed \/ (IsBusy(valve) /\ t # valve.timing))
        /\ UNCHANGED <<tick, pins, roseAt, fellAt>>
    BY <1>3 DEF ReplaceTiming, SetTiming
  <2>2. IsBusy(valve)
    BY <1>0, <1>a, <2>1 DEF IsBusy, Valve
  <2>3. t = valve.timing
    BY <2>1, <2>2
  <2>4. valve' = valve
    BY <1>0, <2>1, <2>3 DEF Valve
  <2>5. retimed' = retimed
    BY <2>1, <2>3 DEF TypeOK
  <2>6. QED BY <1>1, <2>1, <2>4, <2>5
<1>4. CASE TickRead
  <2>1. /\ tick.pc = "sleep" /\ tick'.pc = "valve" /\ tick'.now = clock
        /\ UNCHANGED <<valve, pins, roseAt, fellAt, retimed>>
    BY <1>4, <1>0 DEF TickRead, history
  <2>2. /\ WindowStart' = WindowStart /\ WindowEnd' = WindowEnd
        /\ Driven(m)' = Driven(m) /\ Released(m)' = Released(m)
        /\ WindowStart \in Nat /\ WindowEnd \in Nat
    BY <1>0, <2>1 DEF WindowStart, WindowEnd, Driven, Released
  <2>3. /\ tick.now < WindowStart => m \notin pins
        /\ tick.now >= WindowStart /\ tick.now < WindowEnd => Driven(m)
        /\ tick.now >= WindowEnd => Released(m)
    BY <2>1 DEF Delivery
  <2>4. QED
    BY <1>0, <2>1, <2>2, <2>3 DEF Delivery, TickStages
<1>5. CASE TickValve
  <2>1. /\ tick.pc = "valve" /\ tick'.pc = "persist" /\ tick'.now = tick.now
        /\ tick'.out = TickOutputs(valve, tick.now) /\ valve' = Tick(valve, tick.now)
        /\ UNCHANGED <<pins, roseAt, fellAt, retimed>>
    BY <1>5, <1>0 DEF TickValve, history
  <2>2. valve' = valve
    BY <1>0, <1>a, <2>1, TickEffect
  <2>3. /\ WindowStart' = WindowStart /\ WindowEnd' = WindowEnd
        /\ Driven(m)' = Driven(m) /\ Released(m)' = Released(m)
        /\ WindowStart \in Nat /\ WindowEnd \in Nat
        /\ WindowStart + TickGap < WindowEnd
    BY <1>0, <2>1, <2>2 DEF WindowStart, WindowEnd, Driven, Released
  <2>4. m \in tick'.out <=> (tick.now >= WindowStart /\ tick.now < WindowEnd)
    BY <1>0, <2>1, <2>2, WindowOutput
  <2>5. m \in Pending'
    BY <2>1 DEF Pending, Outputs
  <2>6. \/ m \notin pins /\ tick.now < WindowStart + TickGap
        \/ /\ Driven(m)
           /\ tick.now >= WindowStart /\ tick.now < WindowEnd + TickGap
        \/ Released(m) /\ tick.now >= WindowEnd
    BY <2>1, <2>2 DEF Delivery
  <2>7. QED
    BY <1>0, <2>1, <2>3, <2>4, <2>5, <2>6 DEF Delivery
<1>6. ASSUME NEW ok \in BOOLEAN, TickPersist(ok) PROVE Delivery(m)'
  <2>1. /\ tick.pc = "persist" /\ tick'.pc = "open_motor" /\ tick'.now = tick.now
        /\ tick'.out = tick.out
        /\ UNCHANGED <<valve, pins, roseAt, fellAt, retimed>>
    BY <1>6, <1>0 DEF TickPersist, history
  <2>2. /\ Pending' = Pending /\ WindowStart' = WindowStart /\ WindowEnd' = WindowEnd
        /\ Driven(m)' = Driven(m) /\ Released(m)' = Released(m)
    BY <2>1 DEF Pending, WindowStart, WindowEnd, Driven, Released
  <2>3. QED BY <2>1, <2>2 DEF Delivery, TickStages
<1>7. ASSUME NEW p \in PinStep, SetPin(p) PROVE Delivery(m)'
  <2>1. /\ tick.pc = p /\ tick'.pc = AfterPin(p) /\ tick'.now = tick.now
        /\ tick'.out = tick.out \ {p} /\ valve' = valve /\ clock' = clock
        /\ pins' = IF p \in tick.out THEN pins \cup {p} ELSE pins \ {p}
        /\ p \in TickStages /\ retimed' = retimed
        /\ roseAt'[m] = IF m \in pins' \ pins THEN clock ELSE roseAt[m]
        /\ fellAt'[m] = IF m \in pins \ pins' THEN clock ELSE fellAt[m]
    BY <1>7, <1>0 DEF SetPin, RecordPins, PinStep, Outputs, Motors, TickStages
  <2>2. /\ WindowStart' = WindowStart /\ WindowEnd' = WindowEnd
        /\ WindowStart \in Nat /\ WindowEnd \in Nat /\ WindowStart < WindowEnd
        /\ WindowEnd = WindowStart + valve.timing.motor_run
    BY <1>0, <2>1 DEF WindowStart, WindowEnd
  <2>3. /\ tick.now < WindowStart => m \notin pins
        /\ tick.now >= WindowStart /\ tick.now < WindowEnd =>
              /\ m \in Pending => m \in tick.out
              /\ \/ Driven(m)
                 \/ /\ m \in Pending /\ m \notin pins
                    /\ tick.now < WindowStart + TickGap
        /\ tick.now >= WindowEnd =>
              /\ m \notin tick.out
              /\ Released(m) \/ (m \in Pending /\ Driven(m))
    BY <2>1 DEF Delivery
  <2>4. m \in tick.out => tick.now >= WindowStart
    BY DEF CoilSafety, CoilInv, WindowStart
  <2>5. CASE p # m
    <3>1. /\ m \in pins' <=> m \in pins
          /\ roseAt'[m] = roseAt[m] /\ fellAt'[m] = fellAt[m]
          /\ m \in tick'.out <=> m \in tick.out
      BY <2>1, <2>5
    <3>2. /\ Driven(m)' <=> Driven(m)
          /\ Released(m)' <=> Released(m)
      BY <2>1, <2>2, <3>1 DEF Driven, Released
    <3>3. tick'.pc # "valve" /\ (tick'.pc = "sleep" => m \notin Pending)
          /\ (tick'.pc \in TickStages => (m \in Pending' <=> m \in Pending))
      <4>1. CASE p = "drain"
        BY <2>1, <4>1 DEF Pending, Motors, AfterPin, TickStages
      <4>2. CASE p = "close_motor"
        BY <2>1, <2>5, <4>2 DEF Pending, Motors, AfterPin, TickStages
      <4>3. CASE p = "open_motor"
        BY <2>1, <2>5, <4>3 DEF Pending, Motors, AfterPin, TickStages, Outputs
      <4>4. QED BY <4>1, <4>2, <4>3 DEF PinStep, Outputs, Motors
    <3>4. QED
      BY <2>1, <2>2, <2>3, <3>1, <3>2, <3>3 DEF Delivery
  <2>6. CASE p = m
    <3>1. m \in Pending /\ m \notin Pending' /\ tick'.pc \in TickStages
          /\ tick'.pc # "sleep" /\ tick'.pc # "valve"
      BY <2>1, <2>6 DEF Pending, Motors, Outputs, AfterPin, TickStages
    <3>2. CASE m \in tick.out
      <4>1. m \in pins' /\ tick.now >= WindowStart /\ tick.now < WindowEnd
        BY <1>0, <2>1, <2>2, <2>3, <2>4, <2>6, <3>2
      <4>2. Driven(m)'
        <5>1. CASE m \in pins
          BY <2>1, <2>2, <2>3, <4>1, <5>1 DEF Driven
        <5>2. CASE m \notin pins
          <6>1. roseAt'[m] = clock /\ clock <= tick.now + TickLag
            BY <1>0, <2>1, <4>1, <5>2, <3>1 DEF TickStages
          <6>2. tick.now < WindowStart + TickGap
            BY <2>3, <4>1, <5>2 DEF Driven
          <6>3. QED BY <1>0, <2>2, <4>1, <6>1, <6>2 DEF Driven
        <5>3. QED BY <5>1, <5>2
      <4>3. QED
        BY <1>0, <2>1, <2>2, <3>1, <4>1, <4>2 DEF Delivery
    <3>3. CASE m \notin tick.out
      <4>1. m \notin pins' /\ m \notin tick'.out /\ roseAt'[m] = roseAt[m]
        BY <2>1, <2>6, <3>3
      <4>2. ~(tick.now >= WindowStart /\ tick.now < WindowEnd)
        BY <2>3, <3>1, <3>3
      <4>3. tick.now >= WindowEnd => Released(m)'
        <5> SUFFICES ASSUME tick.now >= WindowEnd PROVE Released(m)'
          OBVIOUS
        <5>1. CASE Released(m)
          <6>1. fellAt'[m] = fellAt[m]
            BY <2>1, <5>1 DEF Released
          <6>2. QED BY <2>1, <2>2, <4>1, <5>1, <6>1 DEF Released
        <5>2. CASE Driven(m)
          <6>1. fellAt'[m] = clock /\ roseAt[m] >= WindowStart
                /\ roseAt[m] <= WindowStart + TickGap + TickLag
            BY <2>1, <4>1, <5>2 DEF Driven, PulseInv, WindowStart
          <6>2. clock >= WindowEnd
            BY <1>0, <2>2
          <6>3. fellAt'[m] + TickGap + TickLag >= roseAt'[m] + valve.timing.motor_run
            BY <1>0, <2>2, <4>1, <6>1, <6>2
          <6>4. QED BY <2>1, <2>2, <4>1, <6>1, <6>3 DEF Released
        <5>3. QED BY <2>3, <5>1, <5>2
      <4>4. QED
        BY <1>0, <2>1, <2>2, <3>1, <4>1, <4>2, <4>3 DEF Delivery
    <3>4. QED BY <3>2, <3>3
  <2>7. QED BY <2>5, <2>6
<1>8. ASSUME NEW t \in Timings, Crash(t) PROVE Delivery(m)'
  BY <1>8, <1>a, BootValveType, TimingsAssumption DEF Crash, TypeOK, IsBusy
<1>9. QED
  BY <1>1, <1>2, <1>3, <1>4, <1>5, <1>6, <1>7, <1>8
     DEF Next, Advance, CmdRead, vars, history

(* When a sequence is reported complete its coil has been on for the        *)
(* configured time, up to the tick's delays, and is off: WaterValve::tick   *)
(* and the pin writes, if a command's lag and the time between two ticks    *)
(* together are shorter than the settle window.                             *)
THEOREM PulseIsDelivered ==
  ASSUME CmdLag + TickGap < SettleMs
  PROVE  Spec => PulseDelivered
<1> USE LagAssumption, SettleAssumption
<1> DEFINE AllPulses == \A m \in Motors : PulseInv(m)
           AllDelivery == \A m \in Motors : Delivery(m)
           Reported == SequenceCompletes /\ ~retimed
                         /\ valve.timing.motor_run > TickGap + TickLag
<1>1. Init => AllPulses /\ AllDelivery
  <2>1. ASSUME Init PROVE ~IsBusy(valve) /\ pins = {}
    BY <2>1, BootValveType, TimingsAssumption DEF Init, IsBusy
  <2>2. ASSUME Init, NEW m \in Motors PROVE ~Drives(valve, m)
    BY <2>1, <2>2 DEF Drives, IsBusy, Motors
  <2>3. QED BY <2>1, <2>2 DEF PulseInv, Delivery
<1>2. TypeOK /\ TimeInv /\ CoilSafety /\ AllPulses /\ AllDelivery /\ [Next]_vars
        => AllPulses' /\ AllDelivery'
  BY PulseStep, DeliveryStep
<1>3. TypeOK /\ AllDelivery => (Reported => PulseWasDriven)
  <2> SUFFICES ASSUME TypeOK, AllDelivery, Reported
               PROVE  PulseWasDriven
    OBVIOUS
  <2> DEFINE m == IF valve.phase = "TurningOn" THEN "open_motor" ELSE "close_motor"
  <2>0. /\ valve \in Valve /\ valve.start_ms \in Nat /\ tick.now \in Nat
        /\ valve.timing.motor_run \in Nat
    BY DEF TypeOK, Valve, ValveTiming
  <2>1. /\ tick.pc = "valve" /\ valve' = Tick(valve, tick.now)
        /\ IsBusy(valve) /\ ~IsBusy(valve')
    BY DEF SequenceCompletes, TickValve
  <2>2. m \in Motors /\ Drives(valve, m)
    BY <2>0, <2>1 DEF Motors, Drives, IsBusy, Valve, Phase
  <2>3. SequenceDone(valve, tick.now)
    BY <2>0, <2>1 DEF Tick, IsBusy
  <2>4. tick.now >= WindowEnd + SettleMs
    BY <2>0, <2>3 DEF SequenceDone, SequenceMs, Elapsed, WindowEnd, WindowStart
  <2>5. WindowStart \in Nat /\ WindowEnd = WindowStart + valve.timing.motor_run
    BY <2>0 DEF WindowStart, WindowEnd
  <2>6. \/ tick.now < WindowStart + TickGap
        \/ tick.now < WindowEnd + TickGap
        \/ Released(m)
    BY <2>1, <2>2 DEF Delivery
  <2>7. Released(m)
    BY <2>0, <2>4, <2>5, <2>6
  <2>8. QED BY <2>7 DEF Released, PulseWasDriven, WindowStart
<1>4. TypeOK /\ AllDelivery /\ [Next]_vars => [Reported => PulseWasDriven]_vars
  BY <1>3
<1> HIDE DEF AllPulses, AllDelivery
<1>5. QED
  BY <1>1, <1>2, <1>4, Inductive, PTL DEF Spec, PulseDelivered
=============================================================================
