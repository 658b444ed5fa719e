---------------------------- MODULE NetworkProofs ----------------------------
(***************************************************************************)
(* Proofs about WifiSupervisor and EmbassyBoot, how each firmware finds its *)
(* way onto a network, for every set of lists.                              *)
(*                                                                         *)
(* For WifiSupervisor, whatever the number of callers and the rhythm of the *)
(* probe, one inductive invariant carries all of them; its parts that are   *)
(* not themselves properties are                                            *)
(*                                                                         *)
(*  - ServingInv: a caller whose channel the supervisor holds is still      *)
(*    waiting, and has no second channel in the slot, so that the answer    *)
(*    never makes the owner of a request in the slot disappear;             *)
(*  - DeafInv: the sleeps spent on a deaf link are covered by the failed    *)
(*    probes, ProbeEvery for each, and the sleeps since the last probe.     *)
(*                                                                         *)
(* For EmbassyBoot the invariant, TaskInv, counts the attempts: EvenTries   *)
(* says that the failures in a row are shared evenly by the places of the   *)
(* list, the rest being the distance from a place to its next turn.  It     *)
(* survives a new list because one is only put in place when there are no   *)
(* failures to carry over.                                                  *)
(***************************************************************************)
EXTENDS WifiSupervisor, EmbassyBoot, TLAPS

ServingInv == \A c \in serving : caller[c] = "waiting" /\ c \notin slot

DeafInv ==
  /\ deaf <= sup.fails * ProbeEvery + sup.ticks
  /\ sup.pc \notin Linked => deaf = 0

WifiInv ==
  TypeOK /\ ServingInv /\ SlotIsLive /\ NewListPending /\ DeafInv

\* The environment's and the callers' steps, which leave the supervisor alone.
Outside ==
  \/ \E c \in Callers, l \in Lists : Connect(c, l)
  \/ \E c \in Callers : \/ Signal(c) \/ Reconnect(c)
                        \/ Scan(c) \/ GiveUp(c) \/ ClearSlot(c)
  \/ \E l \in {"none", "up", "ghost"} : LinkTurns(l)
  \/ BeaconTimeout

-----------------------------------------------------------------------------
(* The count of sleeps goes round at ProbeEvery.                            *)
LEMMA TickCount ==
  ASSUME NEW t \in 0 .. ProbeEvery - 1
  PROVE  (t + 1) % ProbeEvery = IF t + 1 = ProbeEvery THEN 0 ELSE t + 1
BY WifiAssumption

(* Products the arithmetic of DeafInv needs.                                *)
LEMMA OneMoreProbe ==
  ASSUME NEW f \in Nat
  PROVE  /\ (f + 1) * ProbeEvery = f * ProbeEvery + ProbeEvery
         /\ f * ProbeEvery \in Nat
BY WifiAssumption

LEMMA InitInv == Init => WifiInv
<1> SUFFICES ASSUME Init PROVE WifiInv
  OBVIOUS
<1>1. TypeOK
  <2>1. sup \in Sup
    BY WifiAssumption DEF Init, Sup, SupStep
  <2> QED
    BY <2>1 DEF Init, TypeOK
<1>2. ServingInv /\ SlotIsLive /\ NewListPending
  BY DEF Init, ServingInv, SlotIsLive, NewListPending
<1>3. DeafInv
  BY WifiAssumption DEF Init, DeafInv
<1> QED
  BY <1>1, <1>2, <1>3 DEF WifiInv

(* What callers and the radio do keeps every part.                          *)
LEMMA OutsideInv ==
  ASSUME WifiInv, Outside
  PROVE  WifiInv'
<1> USE DEF WifiInv
<1>1. TypeOK'
  <2> USE DEF TypeOK, radio
  <2>1. ASSUME NEW c \in Callers, NEW l \in Lists, Connect(c, l)
        PROVE  TypeOK'
    BY <2>1 DEF Connect
  <2>2. ASSUME NEW c \in Callers, Signal(c) \/ Reconnect(c)
        PROVE  TypeOK'
    BY <2>2 DEF Signal, Reconnect
  <2>3. ASSUME NEW c \in Callers, Scan(c)
        PROVE  TypeOK'
    BY <2>3 DEF Scan
  <2>4. ASSUME NEW c \in Callers, GiveUp(c)
        PROVE  TypeOK'
    BY <2>4 DEF GiveUp
  <2>5. ASSUME NEW c \in Callers, ClearSlot(c)
        PROVE  TypeOK'
    BY <2>5 DEF ClearSlot
  <2>6. ASSUME NEW l \in {"none", "up", "ghost"}, LinkTurns(l)
        PROVE  TypeOK'
    BY <2>6 DEF LinkTurns
  <2>7. CASE BeaconTimeout
    BY <2>7 DEF BeaconTimeout
  <2> QED
    BY <2>1, <2>2, <2>3, <2>4, <2>5, <2>6, <2>7 DEF Outside
<1>2. ServingInv'
  BY DEF TypeOK, ServingInv, SlotIsLive, Outside, Connect, Signal, Reconnect,
         Scan, GiveUp, ClearSlot, LinkTurns, BeaconTimeout, radio
<1>3. SlotIsLive'
  BY DEF TypeOK, SlotIsLive, Outside, Connect, Signal, Reconnect, Scan,
         GiveUp, ClearSlot, LinkTurns, BeaconTimeout, radio
<1>4. NewListPending'
  BY DEF TypeOK, NewListPending, Outside, Connect, Signal, Reconnect, Scan,
         GiveUp, ClearSlot, LinkTurns, BeaconTimeout, radio
<1>5. DeafInv'
  <2>1. sup.fails * ProbeEvery + sup.ticks \in Nat
    BY OneMoreProbe, WifiAssumption DEF TypeOK, Sup
  <2>2. sup' = sup /\ (deaf' = deaf \/ deaf' = 0)
    BY DEF Outside, Connect, Signal, Reconnect, Scan, GiveUp, ClearSlot,
           LinkTurns, BeaconTimeout
  <2> QED
    BY <2>1, <2>2 DEF TypeOK, DeafInv
<1> QED
  BY <1>1, <1>2, <1>3, <1>4, <1>5

(* A panic brings back a state like the first.                              *)
LEMMA PanicInv ==
  ASSUME WifiInv, DriverPanics
  PROVE  WifiInv'
<1> USE DEF DriverPanics
<1>1. TypeOK'
  <2>1. sup' \in Sup
    BY WifiAssumption DEF Sup, SupStep
  <2> QED
    BY <2>1 DEF TypeOK
<1>2. ServingInv' /\ SlotIsLive' /\ NewListPending'
  BY DEF ServingInv, SlotIsLive, NewListPending
<1>3. DeafInv'
  BY WifiAssumption DEF DeafInv
<1> QED
  BY <1>1, <1>2, <1>3 DEF WifiInv

-----------------------------------------------------------------------------
(* The supervisor's steps, part by part.                                    *)
LEMMA SupFields ==
  ASSUME NEW s \in Sup, NEW p \in SupStep, NEW l \in Lists,
         NEW n \in Nat \ {0}
  PROVE  /\ [s EXCEPT !.pc = p] \in Sup
         /\ [s EXCEPT !.pc = p, !.list = l] \in Sup
         /\ [s EXCEPT !.next = n] \in Sup
         /\ [s EXCEPT !.pc = p, !.next = n] \in Sup
         /\ [s EXCEPT !.pc = p, !.next = n, !.ticks = 0, !.fails = 0] \in Sup
<1>1. 0 \in 0 .. ProbeEvery - 1 /\ 0 \in 0 .. ProbeLimit - 1
  BY WifiAssumption
<1> QED
  BY <1>1 DEF Sup

LEMMA SupervisorLocals ==
  ASSUME WifiInv, Supervisor, ~DriverPanics
  PROVE  sup' \in Sup
<1>0. sup \in Sup /\ networks \in Lists
  BY DEF WifiInv, TypeOK
<1>a. sup.next \in Nat \ {0} /\ sup.next + 1 \in Nat \ {0} /\ 1 \in Nat \ {0}
  BY <1>0 DEF Sup
<1>b. {"copy", "reset", "try", "configure", "announce", "back_off",
       "start_ap", "configure_ap", "linked", "ap"} \subseteq SupStep
  BY DEF SupStep, Linked, Portal
<1>c. \A p \in SupStep, n \in Nat \ {0} :
        [sup EXCEPT !.pc = p, !.next = n] \in Sup
  BY <1>0, SupFields
<1>d. /\ \A p \in SupStep : [sup EXCEPT !.pc = p] \in Sup
      /\ \A n \in Nat \ {0} : [sup EXCEPT !.next = n] \in Sup
  BY <1>0, <1>a, <1>b, SupFields
<1>1. CASE Copy \/ Reset \/ TryNext \/ TryRefused \/ Announce
  <2>1. CASE Reset \/ Announce
    BY <1>b, <1>d, <2>1 DEF Reset, Announce
  <2>4. CASE Copy
    <3>1. sup' = [sup EXCEPT !.pc = "reset", !.list = networks]
      BY <2>4 DEF Copy
    <3> QED
      BY <1>0, <1>a, <1>b, <3>1, SupFields
  <2>2. CASE TryNext
    <3>1. \/ sup' = [sup EXCEPT !.pc = "configure"]
          \/ sup' = [sup EXCEPT !.pc = "start_ap"]
          \/ sup' = [sup EXCEPT !.pc = "back_off"]
      BY <2>2 DEF TryNext
    <3> QED
      BY <1>b, <1>d, <3>1
  <2>3. CASE TryRefused
    <3>1. sup' = [sup EXCEPT !.next = sup.next + 1]
      BY <2>3 DEF TryRefused
    <3> QED
      BY <1>a, <1>d, <3>1
  <2> QED
    BY <1>1, <2>1, <2>2, <2>3, <2>4
<1>2. CASE \/ \E g \in BOOLEAN : Connected(g)
           \/ \E d \in {"stopped", "sta", driver}, l \in {"none", "up", link} :
                NotConnected(d, l)
  <2>1. CASE \E g \in BOOLEAN : Connected(g)
    <3>1. sup' = [sup EXCEPT !.pc = "announce", !.next = 1]
      BY <2>1 DEF Connected
    <3> QED
      BY <1>a, <1>b, <1>c, <3>1
  <2>2. CASE \E d \in {"stopped", "sta", driver}, l \in {"none", "up", link} :
               NotConnected(d, l)
    <3>1. sup' = [sup EXCEPT !.pc = "try", !.next = sup.next + 1]
      BY <2>2 DEF NotConnected
    <3> QED
      BY <1>a, <1>b, <1>c, <3>1
  <2> QED
    BY <1>2, <2>1, <2>2
<1>3. Leave \in Sup
  BY <1>0, <1>a, <1>b, SupFields DEF Leave
<1> USE DEF WifiInv, TypeOK, Sup, SupStep, Linked, Portal
<1>4. CASE BackOff \/ LinkedTop
  BY <1>3, <1>4 DEF BackOff, LinkedTop
<1>5. ASSUME NEW ok \in BOOLEAN, LinkedCheck(ok)
      PROVE  sup' \in Sup
  <2> DEFINE tick == (sup.ticks + 1) % ProbeEvery
             failed == NewFails(tick, ok)
  <2>1. tick \in 0 .. ProbeEvery - 1
    BY TickCount, WifiAssumption
  <2>2. failed \in 0 .. ProbeLimit
    BY WifiAssumption DEF NewFails
  <2>3. LinkIsDead(failed) \/ failed \in 0 .. ProbeLimit - 1
    BY <2>2, WifiAssumption DEF LinkIsDead
  <2>4. \/ sup' = Leave
        \/ /\ ~LinkIsDead(failed)
           /\ sup' = [sup EXCEPT !.pc = "linked", !.ticks = tick,
                                 !.fails = failed]
    BY <1>5 DEF LinkedCheck
  <2> HIDE DEF tick, failed
  <2> QED
    BY <1>3, <2>1, <2>3, <2>4
<1>6. CASE StartAp \/ ApRefused \/ \E ok \in BOOLEAN : ApStarted(ok)
  BY <1>6 DEF StartAp, ApRefused, ApStarted
<1>7. CASE ApTop
  BY <1>3, <1>7 DEF ApTop
<1>8. CASE TakeRequest \/ Answer
  BY <1>8 DEF TakeRequest, Answer, AfterServe, ScanStep
<1> QED
  BY <1>1, <1>2, <1>4, <1>5, <1>6, <1>7, <1>8 DEF Supervisor

LEMMA SupervisorType ==
  ASSUME WifiInv, Supervisor, ~DriverPanics
  PROVE  TypeOK'
<1>1. sup' \in Sup
  BY SupervisorLocals
<1> USE <1>1 DEF WifiInv, TypeOK, radio
<1>2. CASE Copy \/ Reset \/ TryNext \/ TryRefused \/ BackOff \/ Announce
  BY <1>2 DEF Copy, Reset, TryNext, TryRefused, Stop, BackOff, Announce
<1>3. CASE \/ \E g \in BOOLEAN : Connected(g)
           \/ \E d \in {"stopped", "sta", driver}, l \in {"none", "up", link} :
                NotConnected(d, l)
  BY <1>3 DEF Connected, NotConnected
<1>4. CASE LinkedTop
  BY <1>4 DEF LinkedTop
<1>5. CASE \E ok \in BOOLEAN : LinkedCheck(ok)
  BY <1>5 DEF LinkedCheck
<1>6. CASE StartAp \/ ApRefused \/ ApTop \/ \E ok \in BOOLEAN : ApStarted(ok)
  BY <1>6 DEF StartAp, ApRefused, ApTop, ApStarted, Stop
<1>7. CASE TakeRequest \/ Answer
  BY <1>7 DEF TakeRequest, Answer
<1> QED
  BY <1>2, <1>3, <1>4, <1>5, <1>6, <1>7 DEF Supervisor

(* Scans: only the supervisor's answer, and its taking of a request, touch  *)
(* the slot or a caller here.                                               *)
LEMMA SupervisorScans ==
  ASSUME WifiInv, Supervisor, ~DriverPanics
  PROVE  ServingInv' /\ SlotIsLive'
<1> USE DEF WifiInv, TypeOK, ServingInv, SlotIsLive
<1>1. CASE TakeRequest
  BY <1>1 DEF TakeRequest
<1>2. CASE Answer
  BY <1>2 DEF Answer
<1>3. CASE ~(TakeRequest \/ Answer)
  <2>1. slot' = slot /\ caller' = caller /\ serving' = serving
    BY <1>3 DEF Supervisor, Copy, Reset, TryNext, TryRefused, Connected,
       NotConnected, BackOff, Announce, LinkedTop, LinkedCheck, StartAp,
       ApRefused, ApStarted, ApTop
  <2> QED
    BY <2>1
<1> QED
  BY <1>1, <1>2, <1>3

(* The list: it is copied, or the signal stays as it is.                    *)
LEMMA SupervisorList ==
  ASSUME WifiInv, Supervisor, ~DriverPanics
  PROVE  NewListPending'
<1> USE DEF WifiInv, TypeOK, Sup, NewListPending
<1>1. CASE Copy
  BY <1>1 DEF Copy
<1>2. CASE Reset
  BY <1>2 DEF Reset
<1>3. CASE TakeRequest \/ Answer
  BY <1>3 DEF TakeRequest, Answer, ServingInv
<1>4. CASE ~(Copy \/ Reset \/ TakeRequest \/ Answer)
  <2>1. /\ networks' = networks /\ rescan' = rescan /\ caller' = caller
        /\ overtaken' = overtaken
    BY <1>4 DEF Supervisor, TryNext, TryRefused, Connected, NotConnected,
       BackOff, Announce, LinkedTop, LinkedCheck, StartAp, ApRefused,
       ApStarted, ApTop
  <2>4. sup.pc \notin {"copy", "reset"}
    BY <1>4 DEF Supervisor, TryNext, TryRefused, Connected, NotConnected,
       BackOff, Announce, LinkedTop, LinkedCheck, StartAp, ApRefused,
       ApStarted, ApTop
  <2>2. Leave.list = sup.list
    BY DEF Leave
  <2>3. sup'.list = sup.list
    <3>1. CASE BackOff \/ LinkedTop \/ ApTop \/ \E ok \in BOOLEAN : LinkedCheck(ok)
      BY <2>2, <3>1 DEF BackOff, LinkedTop, ApTop, LinkedCheck
    <3>2. CASE ~(BackOff \/ LinkedTop \/ ApTop \/ \E ok \in BOOLEAN : LinkedCheck(ok))
      BY <1>4, <3>2 DEF Supervisor, TryNext, TryRefused, Connected,
         NotConnected, Announce, StartAp, ApRefused, ApStarted
    <3> QED
      BY <3>1, <3>2
  <2> QED
    BY <2>1, <2>3, <2>4
<1> QED
  BY <1>1, <1>2, <1>3, <1>4

(* Sleeps on a deaf link are paid for by failed probes.                     *)
LEMMA SupervisorDeaf ==
  ASSUME WifiInv, Supervisor, ~DriverPanics
  PROVE  DeafInv'
<1>0. /\ sup \in Sup /\ deaf \in Nat
      /\ sup.ticks \in Nat /\ sup.fails \in Nat
      /\ sup.fails * ProbeEvery \in Nat
  BY OneMoreProbe, WifiAssumption DEF WifiInv, TypeOK, Sup
<1>a. 0 * ProbeEvery = 0
  BY WifiAssumption
<1>b. Leave.pc = "copy" /\ Leave.ticks = 0 /\ Leave.fails = 0
  BY <1>0 DEF Sup, Leave
<1>1. ASSUME NEW ok \in BOOLEAN, LinkedCheck(ok)
      PROVE  DeafInv'
  <2> DEFINE tick == (sup.ticks + 1) % ProbeEvery
             failed == NewFails(tick, ok)
  <2>1. CASE sup' = Leave /\ deaf' = 0
    BY <1>a, <1>b, <2>1 DEF DeafInv, Linked
  <2>2. CASE /\ sup' = [sup EXCEPT !.pc = "linked", !.ticks = tick,
                                   !.fails = failed]
             /\ deaf' = IF link = "ghost" /\ gateway THEN deaf + 1 ELSE 0
    <3>1. sup'.pc = "linked" /\ sup'.ticks = tick /\ sup'.fails = failed
      BY <1>0, <2>2 DEF Sup
    <3>2. /\ tick = (IF sup.ticks + 1 = ProbeEvery THEN 0 ELSE sup.ticks + 1)
          /\ tick \in Nat
      BY <1>0, TickCount DEF Sup
    <3>3. failed \in Nat /\ failed * ProbeEvery \in Nat
      <4>1. failed = sup.fails \/ failed = 0 \/ failed = sup.fails + 1
        BY DEF NewFails
      <4> HIDE DEF failed
      <4>2. failed \in Nat
        BY <1>0, <4>1
      <4> QED
        BY <4>2, OneMoreProbe
    <3>4. CASE ~(link = "ghost" /\ gateway)
      <4>1. deaf' = 0
        BY <2>2, <3>4
      <4> HIDE DEF tick, failed
      <4> QED
        BY <3>1, <3>2, <3>3, <4>1 DEF DeafInv, Linked
    <3>5. CASE link = "ghost" /\ gateway
      <4>1. ~ProbeOk(ok) /\ deaf' = deaf + 1
        BY <2>2, <3>5 DEF ProbeOk
      <4>2. deaf <= sup.fails * ProbeEvery + sup.ticks
        BY DEF WifiInv, DeafInv
      <4>3. CASE sup.ticks + 1 = ProbeEvery
        <5>1. tick = 0 /\ failed = sup.fails + 1
          BY <3>2, <4>1, <4>3 DEF NewFails
        <5>2. failed * ProbeEvery = sup.fails * ProbeEvery + ProbeEvery
          BY <1>0, <5>1, OneMoreProbe
        <5> HIDE DEF tick, failed
        <5> QED
          BY <1>0, <3>1, <4>1, <4>2, <4>3, <5>1, <5>2 DEF DeafInv, Linked
      <4>4. CASE sup.ticks + 1 # ProbeEvery
        <5>1. tick = sup.ticks + 1 /\ failed = sup.fails
          BY <1>0, <3>2, <4>4 DEF NewFails
        <5> HIDE DEF tick, failed
        <5> QED
          BY <1>0, <3>1, <4>1, <4>2, <5>1 DEF DeafInv, Linked
      <4> QED
        BY <4>3, <4>4
    <3> QED
      BY <3>4, <3>5
  <2> QED
    BY <1>1, <2>1, <2>2 DEF LinkedCheck
<1>2. CASE LinkedTop
  BY <1>0, <1>a, <1>b, <1>2 DEF LinkedTop, DeafInv, WifiInv, Linked, Sup
<1>3. CASE BackOff \/ ApTop
  BY <1>0, <1>a, <1>b, <1>3
     DEF BackOff, ApTop, DeafInv, WifiInv, Linked, Portal, Sup
<1>4. CASE ~(BackOff \/ ApTop \/ LinkedTop
             \/ \E ok \in BOOLEAN : LinkedCheck(ok))
  <2>1. deaf' = deaf
    BY <1>4 DEF Supervisor, Copy, Reset, TryNext, TryRefused, Connected,
       NotConnected, Announce, StartAp, ApRefused, ApStarted, TakeRequest,
       Answer
  <2>2. sup'.fails = sup.fails /\ sup'.ticks = sup.ticks
    BY <1>0, <1>4 DEF Sup, Supervisor, Copy, Reset, TryNext, TryRefused,
       Connected, NotConnected, Announce, StartAp, ApRefused, ApStarted,
       TakeRequest, Answer
  <2>3. sup.pc \in Linked => sup'.pc \in Linked
    BY <1>0, <1>4 DEF Sup, Linked, Supervisor, Copy, Reset, TryNext,
       TryRefused, Connected, NotConnected, Announce, StartAp, ApRefused,
       ApStarted, TakeRequest, Answer, AfterServe, ScanStep
  <2> QED
    BY <2>1, <2>2, <2>3 DEF WifiInv, DeafInv
<1> QED
  BY <1>1, <1>2, <1>3, <1>4

-----------------------------------------------------------------------------
LEMMA StepInv == WifiInv /\ [Next]_vars => WifiInv'
<1> SUFFICES ASSUME WifiInv, [Next]_vars PROVE WifiInv'
  OBVIOUS
<1>1. CASE Supervisor /\ ~DriverPanics
  BY <1>1, SupervisorType, SupervisorScans, SupervisorList, SupervisorDeaf
     DEF WifiInv
<1>4. CASE DriverPanics
  BY <1>4, PanicInv
<1>2. CASE Outside
  BY <1>2, OutsideInv
<1>3. CASE UNCHANGED vars
  BY <1>3 DEF vars, radio, WifiInv, TypeOK, ServingInv, SlotIsLive,
     NewListPending, DeafInv
<1> QED
  BY <1>1, <1>2, <1>3, <1>4 DEF Next, Outside

LEMMA InvHolds == Spec => []WifiInv
BY InitInv, StepInv, PTL DEF Spec, Safety

(* Every step of the supervisor, its callers and the radio keeps every      *)
(* variable in its type; the count of failed probes, above all, never       *)
(* passes the limit that forces a reconnect.                                *)
THEOREM TypeCorrect == Spec => []TypeOK
<1>1. WifiInv => TypeOK
  BY DEF WifiInv
<1> QED
  BY <1>1, InvHolds, PTL

(* A list given to connect() is pending until the supervisor copies it,     *)
(* unless it came between the copy and the reset of the signal: for any     *)
(* number of callers, any lists, and any interleaving of the two locks.     *)
THEOREM ListIsPending == Spec => []NewListPending
<1>1. WifiInv => NewListPending
  BY DEF WifiInv
<1> QED
  BY <1>1, InvHolds, PTL

(* No scan request outlives its caller in the slot, whichever timeouts,     *)
(* late answers and clears of other callers come in between.                *)
THEOREM LiveSlot == Spec => []SlotIsLive
<1>1. WifiInv => SlotIsLive
  BY DEF WifiInv
<1> QED
  BY <1>1, InvHolds, PTL

(* A deaf link is left within ProbeLimit probes, for every rhythm and every *)
(* limit, and whatever failures and recoveries came before.                 *)
THEOREM GhostLinkLeft == Spec => []GhostIsLeft
<1>1. WifiInv => GhostIsLeft
  <2> SUFFICES ASSUME WifiInv PROVE deaf < ProbeLimit * ProbeEvery
    BY DEF GhostIsLeft
  <2>1. /\ sup.fails \in 0 .. ProbeLimit - 1 /\ sup.ticks \in 0 .. ProbeEvery - 1
        /\ deaf \in Nat /\ deaf <= sup.fails * ProbeEvery + sup.ticks
    BY DEF WifiInv, TypeOK, Sup, DeafInv
  <2>2. \A a, b, p \in Nat : a <= b => a * p <= b * p
    OBVIOUS
  <2>3. (sup.fails + 1) * ProbeEvery <= ProbeLimit * ProbeEvery
    BY <2>1, <2>2, WifiAssumption
  <2>4. (sup.fails + 1) * ProbeEvery = sup.fails * ProbeEvery + ProbeEvery
    BY <2>1, OneMoreProbe
  <2>5. ProbeLimit * ProbeEvery \in Nat /\ sup.fails * ProbeEvery \in Nat
    BY <2>1, OneMoreProbe, WifiAssumption
  <2> QED
    BY <2>1, <2>3, <2>4, <2>5, WifiAssumption
<1> QED
  BY <1>1, InvHolds, PTL

-----------------------------------------------------------------------------
(* The round over the list: connection_task of the Embassy firmware.        *)


\* Attempts until the network in place q of list l is next.
Until(l, i, q) ==
  LET at == (i % Len(l)) + 1 IN IF q >= at THEN q - at ELSE q - at + Len(l)

\* After f failures in a row, with i the position and t the attempts on each
\* network since the first of them, every network of l has had its turns.
EvenTries(l, t, i, f) ==
  \A q \in 1..Len(l) : f <= Len(l) * t[l[q]] + Len(l) - 1 - Until(l, i, q)

LEMMA Remainder ==
  ASSUME NEW n \in Nat \ {0}, NEW i \in Nat
  PROVE  i % n \in 0..(n - 1)
  OBVIOUS

LEMMA NextPosition ==
  ASSUME NEW n \in Nat \ {0}, NEW c \in 0..(n - 1)
  PROVE  (c + 1) % n = IF c + 1 = n THEN 0 ELSE c + 1
  OBVIOUS

LEMMA UntilType ==
  ASSUME NEW l \in Seq(Networks), NEW i \in Nat, NEW q \in 1..Len(l)
  PROVE  Until(l, i, q) \in 0..(Len(l) - 1)
<1>1. Len(l) \in Nat \ {0}
  OBVIOUS
<1>2. i % Len(l) \in 0..(Len(l) - 1)
  BY <1>1, Remainder
<1>3. QED BY <1>1, <1>2 DEF Until

LEMMA NoFailures ==
  ASSUME NEW l \in Seq(Networks), NEW t \in [Networks -> Nat], NEW i \in Nat
  PROVE  EvenTries(l, t, i, 0)
<1> SUFFICES ASSUME NEW q \in 1..Len(l)
             PROVE  0 <= Len(l) * t[l[q]] + Len(l) - 1 - Until(l, i, q)
  BY DEF EvenTries
<1>1. l[q] \in Networks /\ Len(l) \in Nat
  OBVIOUS
<1>2. t[l[q]] \in Nat
  BY <1>1
<1>3. Len(l) * t[l[q]] \in Nat
  BY <1>1, <1>2
<1>4. Until(l, i, q) \in 0..(Len(l) - 1)
  BY UntilType
<1>5. QED BY <1>1, <1>3, <1>4

LEMMA OneMoreFailure ==
  ASSUME NEW l \in Seq(Networks), l # <<>>, NEW t \in [Networks -> Nat],
         NEW i \in Nat, NEW f \in Nat, EvenTries(l, t, i, f)
  PROVE  LET c == i % Len(l)
         IN  EvenTries(l, [t EXCEPT ![l[c + 1]] = @ + 1], c + 1, f + 1)
<1> DEFINE n == Len(l)
           c == i % Len(l)
           u == [t EXCEPT ![l[c + 1]] = @ + 1]
<1>1. n \in Nat \ {0}
  OBVIOUS
<1>2. c \in 0..(n - 1)
  BY <1>1, Remainder
<1>3. (c + 1) % n = IF c + 1 = n THEN 0 ELSE c + 1
  BY <1>1, <1>2, NextPosition
<1>4. l[c + 1] \in Networks
  <2>1. c + 1 \in 1..Len(l)
    BY <1>1, <1>2
  <2> HIDE DEF c
  <2>2. QED BY <2>1
<1>5. ASSUME NEW q \in 1..Len(l)
      PROVE  /\ l[q] \in Networks /\ t[l[q]] \in Nat /\ u[l[q]] \in Nat
             /\ n * t[l[q]] \in Nat /\ n * (t[l[q]] + 1) = n * t[l[q]] + n
             /\ u[l[q]] = IF l[q] = l[c + 1] THEN t[l[q]] + 1 ELSE t[l[q]]
             /\ Until(l, i, q) = IF q >= c + 1 THEN q - (c + 1) ELSE q - (c + 1) + n
             /\ Until(l, c + 1, q) =
                  LET at == (IF c + 1 = n THEN 0 ELSE c + 1) + 1
                  IN  IF q >= at THEN q - at ELSE q - at + n
             /\ f <= n * t[l[q]] + n - 1 - Until(l, i, q)
  <2>1. l[q] \in Networks /\ t[l[q]] \in Nat
    OBVIOUS
  <2>2. u[l[q]] = IF l[q] = l[c + 1] THEN t[l[q]] + 1 ELSE t[l[q]]
    BY <2>1
  <2>3. f <= n * t[l[q]] + n - 1 - Until(l, i, q)
    BY DEF EvenTries
  <2>4. Until(l, i, q) = IF q >= c + 1 THEN q - (c + 1) ELSE q - (c + 1) + n
    BY DEF Until
  <2>5. Until(l, c + 1, q) =
          LET at == (IF c + 1 = n THEN 0 ELSE c + 1) + 1
          IN  IF q >= at THEN q - at ELSE q - at + n
    BY <1>3 DEF Until
  <2>6. n * t[l[q]] \in Nat /\ n * (t[l[q]] + 1) = n * t[l[q]] + n
    <3> DEFINE k == t[l[q]]
    <3>1. k \in Nat
      BY <2>1
    <3> HIDE DEF k, n
    <3>2. n * k \in Nat /\ n * (k + 1) = n * k + n
      BY <1>1, <3>1
    <3>3. QED BY <3>2 DEF k
  <2>7. u[l[q]] \in Nat
    BY <2>1, <2>2
  <2>8. QED BY <2>1, <2>2, <2>3, <2>4, <2>5, <2>6, <2>7
<1> HIDE DEF c, n, u
<1>6. ASSUME NEW q \in 1..n
      PROVE  f + 1 <= n * u[l[q]] + n - 1 - Until(l, c + 1, q)
  <2>0. q \in 1..Len(l)
    BY DEF n
  <2> DEFINE k == t[l[q]]
             p == n * k
             before == Until(l, i, q)
             after == Until(l, c + 1, q)
             w == n * u[l[q]]
  <2>1. /\ k \in Nat /\ p \in Nat /\ n * (k + 1) = p + n
        /\ u[l[q]] = IF l[q] = l[c + 1] THEN k + 1 ELSE k
        /\ before = IF q >= c + 1 THEN q - (c + 1) ELSE q - (c + 1) + n
        /\ after = LET at == (IF c + 1 = n THEN 0 ELSE c + 1) + 1
                   IN  IF q >= at THEN q - at ELSE q - at + n
        /\ f <= p + n - 1 - before
    BY <1>5, <2>0
  <2> HIDE DEF k, p, before, after, w
  <2>2. CASE q = c + 1
    <3>1. before = 0 /\ after = n - 1
      BY <1>1, <1>2, <2>1, <2>2
    <3>2. w = p + n
      BY <2>1, <2>2 DEF w
    <3>3. f <= p + n - 1 /\ p \in Nat /\ n \in Nat
      BY <1>1, <2>1, <3>1
    <3>4. f + 1 <= w + n - 1 - after
      BY <3>1, <3>2, <3>3
    <3>5. QED BY <3>4 DEF after, w
  <2>3. CASE q # c + 1
    <3>1. after = before - 1 /\ before \in Nat
      BY <1>1, <1>2, <2>1, <2>3
    <3>2. w = p \/ w = p + n
      BY <2>1 DEF p, w
    <3>3. f <= p + n - 1 - before /\ p \in Nat /\ n \in Nat
      BY <1>1, <2>1
    <3>4. f + 1 <= w + n - 1 - after
      BY <3>1, <3>2, <3>3
    <3>5. QED BY <3>4 DEF after, w
  <2>4. QED BY <2>2, <2>3
<1>7. EvenTries(l, u, c + 1, f + 1)
  BY <1>6 DEF EvenTries, n
<1>8. QED BY <1>7 DEF u, c

LEMMA TurnsOfAll ==
  ASSUME NEW l \in Seq(Networks), NEW t \in [Networks -> Nat], NEW i \in Nat,
         NEW f \in Nat, NEW rounds \in Nat, EvenTries(l, t, i, f),
         f >= Len(l) * rounds, NEW q \in 1..Len(l)
  PROVE  t[l[q]] >= rounds
<1> DEFINE n == Len(l)
           k == t[l[q]]
<1>1. n \in Nat /\ k \in Nat
  <2>1. l[q] \in Networks
    OBVIOUS
  <2>2. QED BY <2>1
<1>2. f <= n * k + n - 1 - Until(l, i, q)
  BY DEF EvenTries
<1>3. Until(l, i, q) \in Nat
  BY UntilType
<1>4. f >= n * rounds
  OBVIOUS
<1> HIDE DEF n, k
<1>5. ASSUME ~(k >= rounds) PROVE FALSE
  <2>1. PICK d \in Nat : rounds = k + 1 + d
    <3>1. rounds - (k + 1) \in Nat /\ rounds = k + 1 + (rounds - (k + 1))
      BY <1>1, <1>5
    <3>2. QED BY <3>1
  <2>2. n * rounds = n * k + n + n * d /\ n * d \in Nat /\ n * k \in Nat
    BY <1>1, <2>1
  <2> DEFINE u == Until(l, i, q)
             a == n * k
             b == n * d
             c == n * rounds
  <2>3. /\ c = a + n + b /\ a \in Nat /\ b \in Nat /\ f >= c
        /\ u \in Nat /\ f <= a + n - 1 - u
    BY <1>2, <1>3, <1>4, <2>2
  <2> HIDE DEF u, a, b, c
  <2>4. QED BY <1>1, <2>3
<1>6. QED BY <1>5 DEF k

-----------------------------------------------------------------------------
(* The task's failures in a row, between boots, joins and changes of the    *)
(* list.                                                                    *)

Settled == flush.phase = "idle" => flush = Idle

\* Where nothing is sought there are no failures: so none outlast a change of
\* the list, which is made through a link or the portal.
TaskInv ==
  /\ BootTypeOK
  /\ connected \/ up # "sta" => fails = 0
  /\ scan \in {"watching", "done"} => up = "ap"
  /\ Settled
  /\ flush.then = "replace" => flush.list \in NetworkLists /\ fails = 0
  /\ EvenTries(live, tries, idx, fails)

LEMMA ListTypes ==
  /\ NetworkLists \cup {<<>>} \subseteq Seq(Networks)
  /\ NoTries \in [Networks -> Nat]
<1>1. <<>> \in Seq(Networks)
  OBVIOUS
<1>2. NetworkLists \subseteq Seq(Networks)
  BY BootAssumption
<1>3. NoTries \in [Networks -> Nat]
  BY DEF NoTries
<1>4. QED BY <1>1, <1>2, <1>3

LEMMA LoadedType ==
  ASSUME NEW s \in Store
  PROVE  Loaded(s) \in NetworkLists
  BY BootAssumption DEF Loaded, Store

\* A boot, from whatever a power loss or an orderly reset left.
LEMMA BootStep ==
  ASSUME NEW s \in Store \cup {Torn}, Boot(s),
         range' \subseteq Networks, requests' \in 0..MaxRequests, losses' \in 0..MaxLosses
  PROVE  TaskInv'
<1>1. /\ flash' = s /\ flush' = Idle /\ connected' = FALSE /\ idx' = 0 /\ fails' = 0
      /\ reboot' = FALSE /\ tries' = NoTries
      /\ cache' \in Store /\ live' \in NetworkLists \cup {<<>>}
      /\ up' \in {"sta", "ap", "panic"}
      /\ scan' \in {"none", "watching", "refused"}
      /\ scan' = "watching" => up' = "ap"
  <2>1. CASE Loads(s)
    <3>1. s \in Store
      BY <2>1 DEF Loads
    <3>2. BootFrom(s)
      BY <2>1 DEF Boot
    <3>3. Loaded(s) \in NetworkLists
      BY <3>1, LoadedType
    <3>4. BootMode(s) \in {"sta", "ap"}
      BY DEF BootMode
    <3>5. QED BY <3>1, <3>2, <3>3, <3>4 DEF BootFrom
  <2>2. CASE ~Loads(s)
    <3>1. PanicLoop(s)
      BY <2>2 DEF Boot
    <3>2. Blank \in Store
      BY DEF Blank, Store, Modes
    <3>3. QED BY <3>1, <3>2 DEF PanicLoop
  <2>3. QED BY <2>1, <2>2
<1>2. Idle \in Flushes /\ Idle.then = "none"
  BY DEF Idle, Flushes
<1>3. live' \in Seq(Networks) /\ tries' \in [Networks -> Nat]
  BY <1>1, ListTypes
<1>4. EvenTries(live', tries', idx', fails')
  BY <1>1, <1>3, NoFailures
<1>5. BootTypeOK'
  BY <1>1, <1>2, <1>3 DEF BootTypeOK, KvTypeOK
<1>6. QED BY <1>1, <1>2, <1>4, <1>5 DEF TaskInv, Settled

\* What a boot may find in the flash.
LEMMA FlashFound ==
  ASSUME BootTypeOK
  PROVE  flash \in Store \cup {Torn} /\ Interrupted \subseteq Store \cup {Torn}
<1>1. flash \in Store \cup {Torn}
  BY DEF BootTypeOK, KvTypeOK
<1>2. Blank \in Store
  BY DEF Blank, Store, Modes
<1>3. QED BY <1>1, <1>2 DEF Interrupted

\* A write that starts: no flush was under way.
LEMMA SetType ==
  ASSUME BootTypeOK,
         \/ \E m \in {"sta", "ap"}, then \in {"none", "always"} : SetMode(m, then)
         \/ \E l \in NetworkLists \cup {NoConfig}, then \in {"none", "reboot"} :
              SetConfig(l, then)
         \/ \E l \in NetworkLists : SetConfig(l, "replace")
         \/ UNCHANGED kv
  PROVE  KvTypeOK'
<1>1. cache \in Store /\ flash \in Store \cup {Torn} /\ flush \in Flushes
  BY DEF BootTypeOK, KvTypeOK
<1>2. ASSUME NEW m \in {"sta", "ap"}, NEW then \in {"none", "always"}, SetMode(m, then)
      PROVE  KvTypeOK'
  BY <1>1, <1>2 DEF SetMode, KvTypeOK, Store, Modes, Flushes
<1>3. ASSUME NEW l \in NetworkLists \cup {NoConfig},
             NEW then \in {"none", "reboot", "replace"}, SetConfig(l, then)
      PROVE  KvTypeOK'
  BY <1>1, <1>3 DEF SetConfig, KvTypeOK, Store, Flushes
<1>4. CASE UNCHANGED kv
  BY <1>1, <1>4 DEF kv, KvTypeOK
<1>5. QED BY <1>2, <1>3, <1>4

\* A step that leaves the round over the list alone.
LEMMA OtherStep ==
  ASSUME TaskInv, KvTypeOK', Settled',
         UNCHANGED <<live, tries, idx, fails, up>>,
         connected' => connected \/ fails = 0, connected' \in BOOLEAN,
         reboot' \in BOOLEAN,
         scan' \in {"none", "watching", "done", "refused"},
         scan' \in {"watching", "done"} => up = "ap",
         flush'.then = "replace" => flush'.list \in NetworkLists /\ fails = 0,
         range' \subseteq Networks, requests' \in 0..MaxRequests, losses' \in 0..MaxLosses
  PROVE  TaskInv'
<1>1. BootTypeOK'
  BY DEF TaskInv, BootTypeOK
<1>2. EvenTries(live', tries', idx', fails')
  BY DEF TaskInv
<1>3. QED BY <1>1, <1>2 DEF TaskInv

\* write_boot_mode.
LEMMA ModeStep ==
  ASSUME TaskInv, NEW m \in {"sta", "ap"}, NEW then \in {"none", "always"},
         WriteBootMode(m, then), flush.phase = "idle"
  PROVE  KvTypeOK' /\ Settled' /\ reboot' \in BOOLEAN /\ flush'.then # "replace"
<1>0. flush = Idle /\ Idle.then = "none" /\ reboot \in BOOLEAN
  BY DEF TaskInv, Settled, Idle, BootTypeOK
<1>1. CASE ReadBootMode(cache) = m
  <2>1. UNCHANGED kv /\ reboot' = (reboot \/ then = "always")
    BY <1>1 DEF WriteBootMode
  <2>2. KvTypeOK'
    BY <2>1, SetType DEF TaskInv
  <2>3. QED BY <1>0, <2>1, <2>2 DEF kv, Settled
<1>2. CASE ReadBootMode(cache) # m
  <2>1. SetMode(m, then) /\ reboot' = reboot
    BY <1>2 DEF WriteBootMode
  <2>2. KvTypeOK'
    BY <2>1, SetType DEF TaskInv
  <2>3. flush'.then = then /\ flush'.phase = "erase"
    BY <2>1 DEF SetMode
  <2>4. QED BY <1>0, <2>1, <2>2, <2>3 DEF Settled
<1>3. QED BY <1>1, <1>2

LEMMA FlushingStep == ASSUME TaskInv, Flushing PROVE TaskInv'
<1>1. /\ flush \in Flushes /\ cache \in Store /\ reboot \in BOOLEAN
      /\ range \subseteq Networks /\ requests \in 0..MaxRequests /\ losses \in 0..MaxLosses
      /\ connected \in BOOLEAN /\ scan \in {"none", "watching", "done", "refused"}
      /\ scan \in {"watching", "done"} => up = "ap"
      /\ flush.then = "replace" => flush.list \in NetworkLists /\ fails = 0
      /\ idx \in Nat
  BY DEF TaskInv, BootTypeOK, KvTypeOK
<1>2. Idle \in Flushes /\ Idle.then = "none" /\ Blank \in Store
  BY DEF Idle, Flushes, Blank, Store, Modes
<1>3. CASE FlushErase /\ UNCHANGED <<task, live, reboot, range, requests, losses, tries>>
  <2>1. /\ flash' = Blank /\ flush' = [flush EXCEPT !.phase = "write"] /\ cache' = cache
        /\ UNCHANGED <<up, connected, idx, fails, scan, live, reboot, range, requests,
                       losses, tries>>
    BY <1>3 DEF FlushErase, task
  <2>2. /\ flush' \in Flushes /\ flush'.then = flush.then /\ flush'.list = flush.list
        /\ flush'.phase = "write"
    BY <1>1, <2>1 DEF Flushes
  <2>3. KvTypeOK' /\ Settled'
    BY <1>1, <1>2, <2>1, <2>2 DEF KvTypeOK, Settled
  <2>4. QED BY <1>1, <2>1, <2>2, <2>3, OtherStep
<1>4. ASSUME NEW ok \in BOOLEAN, flush' = Idle, cache' = cache,
             flash' \in Store \cup {Torn}, AfterFlush(ok)
      PROVE  TaskInv'
  <2>1. /\ reboot' = (reboot \/ flush.then = "always" \/ (ok /\ flush.then = "reboot"))
        /\ IF ok /\ flush.then = "replace"
           THEN live' = flush.list /\ tries' = NoTries
           ELSE UNCHANGED <<live, tries>>
        /\ UNCHANGED <<up, connected, idx, fails, scan, range, requests, losses>>
    BY <1>4 DEF AfterFlush, task
  <2>2. KvTypeOK' /\ Settled'
    BY <1>1, <1>2, <1>4 DEF KvTypeOK, Settled
  <2>3. reboot' \in BOOLEAN
    BY <2>1
  <2>4. CASE ok /\ flush.then = "replace"
    <3>1. /\ live' = flush.list /\ tries' = NoTries /\ fails = 0
          /\ live' \in NetworkLists \cup {<<>>}
      BY <1>1, <2>1, <2>4
    <3>2. live' \in Seq(Networks) /\ tries' \in [Networks -> Nat]
      BY <3>1, ListTypes
    <3>3. EvenTries(live', tries', idx', fails')
      BY <1>1, <2>1, <3>1, <3>2, NoFailures
    <3>4. BootTypeOK'
      BY <2>1, <2>2, <2>3, <3>1, <3>2 DEF TaskInv, BootTypeOK
    <3>5. QED BY <1>1, <1>2, <1>4, <2>1, <2>2, <3>1, <3>3, <3>4 DEF TaskInv
  <2>5. CASE ~(ok /\ flush.then = "replace")
    BY <1>1, <1>2, <1>4, <2>1, <2>2, <2>3, <2>5, OtherStep
  <2>6. QED BY <2>4, <2>5
<1>5. CASE FlushWrite /\ AfterFlush(TRUE)
  <2>1. flush' = Idle /\ cache' = cache /\ flash' = cache
    BY <1>5 DEF FlushWrite
  <2>2. QED BY <1>1, <1>4, <1>5, <2>1
<1>6. CASE FlushFails /\ AfterFlush(FALSE)
  <2>1. flush' = Idle /\ cache' = cache /\ flash' \in Interrupted
    BY <1>6 DEF FlushFails
  <2>2. flash' \in Store \cup {Torn}
    BY <2>1, FlashFound DEF TaskInv
  <2>3. QED BY <1>4, <1>6, <2>1, <2>2
<1>7. QED BY <1>3, <1>5, <1>6 DEF Flushing

LEMMA AttemptStep == ASSUME TaskInv, AttemptFails \/ AttemptSucceeds PROVE TaskInv'
<1>0. /\ live \in Seq(Networks) /\ tries \in [Networks -> Nat] /\ idx \in Nat
      /\ fails \in Nat /\ EvenTries(live, tries, idx, fails)
      /\ range \subseteq Networks /\ requests \in 0..MaxRequests /\ losses \in 0..MaxLosses
      /\ connected \in BOOLEAN
  BY ListTypes DEF TaskInv, BootTypeOK
<1>1. /\ live # <<>> /\ ~connected /\ up = "sta" /\ flush.phase = "idle"
      /\ At = idx % Len(live)
  BY DEF AttemptFails, AttemptSucceeds, Trying, Seeking, Running, At
<1>2. At \in Nat
  <2>1. Len(live) \in Nat \ {0}
    BY <1>0, <1>1
  <2>2. QED BY <1>0, <1>1, <2>1, Remainder
<1>3. CASE AttemptFails
  <2>1. /\ idx' = At + 1 /\ fails' = fails + 1
        /\ tries' = [tries EXCEPT ![live[At + 1]] = @ + 1]
        /\ UNCHANGED <<kv, up, connected, scan, live, reboot, range, requests, losses>>
        /\ ~(flush.then = "replace" /\ fails # 0)
    BY <1>3 DEF AttemptFails, TaskInv
  <2>2. EvenTries(live', tries', idx', fails')
    BY <1>0, <1>1, <2>1, OneMoreFailure
  <2>3. idx' \in Nat /\ fails' \in Nat /\ tries' \in [Networks -> Nat]
    <3>1. live[At + 1] \in Networks
      <4>1. Len(live) \in Nat \ {0}
        BY <1>0, <1>1
      <4>2. At \in 0..(Len(live) - 1)
        BY <1>0, <1>1, <4>1, Remainder
      <4>3. At + 1 \in 1..Len(live)
        BY <4>1, <4>2
      <4>4. QED BY <1>0, <4>3
    <3>2. \A n \in Networks : [tries EXCEPT ![n] = @ + 1] \in [Networks -> Nat]
      BY <1>0
    <3>3. QED BY <1>0, <1>2, <2>1, <3>1, <3>2
  <2>4. flush' = flush /\ KvTypeOK' /\ Settled'
    BY <2>1 DEF kv, TaskInv, BootTypeOK, KvTypeOK, Settled
  <2>5. BootTypeOK'
    BY <2>1, <2>3, <2>4 DEF TaskInv, BootTypeOK
  <2>6. flush.then # "replace"
    BY <1>1 DEF TaskInv, Settled, Idle
  <2>7. QED BY <1>1, <2>1, <2>2, <2>4, <2>5, <2>6 DEF TaskInv
<1>4. CASE AttemptSucceeds
  <2>1. /\ idx' = At /\ fails' = 0 /\ connected' = TRUE /\ tries' = NoTries
        /\ WriteBootMode("sta", "none")
        /\ UNCHANGED <<up, scan, live, range, requests, losses>>
    BY <1>4 DEF AttemptSucceeds
  <2>2. KvTypeOK' /\ Settled' /\ reboot' \in BOOLEAN /\ flush'.then # "replace"
    BY <1>1, <2>1, ModeStep
  <2>3. EvenTries(live', tries', idx', fails')
    BY <1>0, <1>2, <2>1, NoFailures, ListTypes
  <2>4. idx' \in Nat /\ tries' \in [Networks -> Nat]
    BY <1>2, <2>1, ListTypes
  <2>5. BootTypeOK'
    BY <2>1, <2>2, <2>4 DEF TaskInv, BootTypeOK
  <2>6. QED BY <2>1, <2>2, <2>3, <2>5 DEF TaskInv
<1>5. QED BY <1>3, <1>4

LEMMA UserStep == ASSUME TaskInv, Users PROVE TaskInv'
<1>1. /\ Running /\ requests < MaxRequests /\ requests' = requests + 1
      /\ UNCHANGED <<up, connected, idx, fails, scan, live, range, losses, tries>>
  BY DEF Users, ApiPut, FactoryReset, SerialConfigReset, SerialAp, SerialReset, Request, task
<1>2. /\ reboot \in BOOLEAN /\ requests \in 0..MaxRequests /\ losses \in 0..MaxLosses
      /\ connected \in BOOLEAN /\ scan \in {"none", "watching", "done", "refused"}
      /\ scan \in {"watching", "done"} => up = "ap"
      /\ range \subseteq Networks /\ flush.phase = "idle"
  BY <1>1 DEF TaskInv, BootTypeOK, Running
<1>3. requests' \in 0..MaxRequests
  BY <1>1, <1>2, BootAssumption
<1>4. /\ KvTypeOK' /\ Settled' /\ reboot' \in BOOLEAN
      /\ flush'.then = "replace" => flush'.list \in NetworkLists /\ fails = 0
  <2>1. ASSUME NEW l \in NetworkLists, ApiPut(l)
        PROVE  KvTypeOK' /\ Settled' /\ reboot' = reboot /\ flush'.list = l /\ fails = 0
    <3>1. Reachable /\ SetConfig(l, "replace") /\ reboot' = reboot
      BY <2>1 DEF ApiPut
    <3>2. fails = 0
      BY <3>1 DEF Reachable, TaskInv
    <3>3. KvTypeOK'
      BY <3>1, SetType DEF TaskInv
    <3>4. QED BY <3>1, <3>2, <3>3 DEF SetConfig, Settled
  <2>2. ASSUME NEW then \in {"none", "reboot"}, SetConfig(NoConfig, then),
               reboot' = reboot
        PROVE  KvTypeOK' /\ Settled' /\ flush'.then = then
    <3>1. KvTypeOK'
      BY <2>2, SetType DEF TaskInv
    <3>2. QED BY <2>2, <3>1 DEF SetConfig, Settled
  <2>3. CASE \E l \in NetworkLists : ApiPut(l)
    BY <1>2, <2>1, <2>3
  <2>4. CASE FactoryReset \/ SerialConfigReset
    <3>1. PICK then \in {"none", "reboot"} : SetConfig(NoConfig, then) /\ reboot' = reboot
      BY <2>4 DEF FactoryReset, SerialConfigReset
    <3>2. QED BY <1>2, <2>2, <3>1
  <2>5. CASE SerialAp
    <3>1. WriteBootMode("ap", "always")
      BY <2>5 DEF SerialAp
    <3>2. QED BY <1>2, <3>1, ModeStep
  <2>6. CASE SerialReset
    <3>1. UNCHANGED kv /\ reboot' = TRUE
      BY <2>6 DEF SerialReset
    <3>2. KvTypeOK'
      BY <3>1, SetType DEF TaskInv
    <3>3. QED BY <3>1, <3>2 DEF kv, TaskInv, Settled
  <2>7. QED BY <2>3, <2>4, <2>5, <2>6 DEF Users
<1>5. QED BY <1>1, <1>2, <1>3, <1>4, OtherStep

LEMMA TaskStep == TaskInv /\ [BootNext]_bootVars => TaskInv'
<1> SUFFICES ASSUME TaskInv, [BootNext]_bootVars PROVE TaskInv'
  OBVIOUS
<1>0. /\ reboot \in BOOLEAN /\ requests \in 0..MaxRequests /\ losses \in 0..MaxLosses
      /\ connected \in BOOLEAN /\ scan \in {"none", "watching", "done", "refused"}
      /\ scan \in {"watching", "done"} => up = "ap"
      /\ range \subseteq Networks /\ BootTypeOK
      /\ flush.then = "replace" => flush.list \in NetworkLists /\ fails = 0
  BY DEF TaskInv, BootTypeOK
<1>1. CASE RebootTask
  <2>1. Boot(flash) /\ UNCHANGED <<range, requests, losses>>
    BY <1>1 DEF RebootTask
  <2>2. flash \in Store \cup {Torn}
    BY <1>0, FlashFound
  <2>3. QED BY <1>0, <2>1, <2>2, BootStep
<1>2. CASE PowerLoss
  <2>1. PICK s \in Interrupted : Boot(s)
    BY <1>2 DEF PowerLoss
  <2>2. s \in Store \cup {Torn}
    BY <1>0, FlashFound
  <2>3. range' \subseteq Networks /\ requests' \in 0..MaxRequests /\ losses' \in 0..MaxLosses
    BY <1>0, <1>2, BootAssumption DEF PowerLoss
  <2>4. QED BY <2>1, <2>2, <2>3, BootStep
<1>3. CASE Fallback
  <2>1. /\ flush.phase = "idle" /\ WriteBootMode("ap", "always")
        /\ UNCHANGED <<up, connected, idx, fails, scan, live, range, requests, losses,
                       tries>>
    BY <1>3 DEF Fallback, Seeking, Running, task
  <2>2. KvTypeOK' /\ Settled' /\ reboot' \in BOOLEAN /\ flush'.then # "replace"
    BY <2>1, ModeStep
  <2>3. QED BY <1>0, <2>1, <2>2, OtherStep
<1>4. CASE ScanFinds
  <2>1. /\ flush.phase = "idle" /\ WriteBootMode("sta", "always")
        /\ scan = "watching" /\ scan' = "done"
        /\ UNCHANGED <<up, connected, idx, fails, live, range, requests, losses, tries>>
    BY <1>4 DEF ScanFinds, Running
  <2>2. KvTypeOK' /\ Settled' /\ reboot' \in BOOLEAN /\ flush'.then # "replace"
    BY <2>1, ModeStep
  <2>3. QED BY <1>0, <2>1, <2>2, OtherStep
<1>5. CASE Disconnected
  <2>1. /\ connected /\ connected' = FALSE
        /\ UNCHANGED <<kv, up, idx, fails, scan, live, reboot, range, requests, losses,
                       tries>>
    BY <1>5 DEF Disconnected
  <2>2. KvTypeOK'
    BY <1>0, <2>1, SetType
  <2>3. flush' = flush /\ Settled'
    BY <2>1 DEF kv, TaskInv, Settled
  <2>4. QED BY <1>0, <2>1, <2>2, <2>3, OtherStep
<1>6. CASE RangeChanges
  <2>1. /\ range' \subseteq Networks
        /\ UNCHANGED <<kv, up, connected, idx, fails, scan, live, reboot, requests,
                       losses, tries>>
    BY <1>0, <1>6 DEF RangeChanges, task
  <2>2. KvTypeOK'
    BY <1>0, <2>1, SetType
  <2>3. flush' = flush /\ Settled'
    BY <2>1 DEF kv, TaskInv, Settled
  <2>4. QED BY <1>0, <2>1, <2>2, <2>3, OtherStep
<1>7. CASE UNCHANGED bootVars
  <2>1. UNCHANGED <<cache, flash, flush, up, connected, idx, fails, scan, live, reboot,
                    range, requests, losses, tries>>
    BY <1>7 DEF bootVars, kv, task
  <2>2. KvTypeOK' /\ Settled'
    BY <1>0, <2>1, SetType DEF kv, TaskInv, Settled
  <2>3. QED BY <1>0, <2>1, <2>2, OtherStep
<1>8. QED
  BY <1>1, <1>2, <1>3, <1>4, <1>5, <1>6, <1>7, FlushingStep, AttemptStep, UserStep
     DEF BootNext

LEMMA TaskStart == BootInit => TaskInv
<1> SUFFICES ASSUME BootInit PROVE TaskInv
  OBVIOUS
<1>1. PICK l \in (NetworkLists \ TooBig) \cup {NoConfig} :
        /\ cache = [mode |-> "none", config |-> l]
        /\ flash = cache /\ flush = Idle /\ live = Loaded(cache) /\ up = BootMode(cache)
        /\ scan = (IF up = "ap" THEN "watching" ELSE "none")
        /\ connected = FALSE /\ idx = 0 /\ fails = 0 /\ reboot = FALSE
        /\ range \in SUBSET Networks /\ requests = 0 /\ losses = 0 /\ tries = NoTries
  BY DEF BootInit
<1>2. cache \in Store
  BY <1>1 DEF Store, Modes
<1>3. live \in NetworkLists /\ up \in {"sta", "ap"}
  BY <1>1, <1>2, LoadedType DEF BootMode
<1>4. Idle \in Flushes /\ Idle.then = "none"
  BY DEF Idle, Flushes
<1>5. live \in Seq(Networks) /\ tries \in [Networks -> Nat]
  BY <1>1, <1>3, ListTypes
<1>6. EvenTries(live, tries, idx, fails)
  BY <1>1, <1>5, NoFailures
<1>7. BootTypeOK
  <2>1. KvTypeOK
    BY <1>1, <1>2, <1>4 DEF KvTypeOK
  <2>2. requests \in 0..MaxRequests /\ losses \in 0..MaxLosses
    BY <1>1, BootAssumption
  <2>3. QED BY <1>1, <1>3, <1>5, <2>1, <2>2 DEF BootTypeOK
<1>8. QED BY <1>1, <1>3, <1>4, <1>6, <1>7 DEF TaskInv, Settled

LEMMA TaskHolds == BootSpec => []TaskInv
BY TaskStart, TaskStep, PTL DEF BootSpec

(* Every variable of the Embassy firmware's network code, its flash store   *)
(* included, stays in its type, whatever a power loss leaves.               *)
THEOREM BootTypes == BootSpec => []BootTypeOK
<1>1. TaskInv => BootTypeOK
  BY DEF TaskInv
<1>2. QED BY <1>1, TaskHolds, PTL

(* connection_task gives up on station mode only after it has tried every   *)
(* network of its list Passes times, for every list, through joins, losses  *)
(* of the link, changes of the list, failed flushes, resets and power       *)
(* losses.                                                                  *)
THEOREM TriedBeforeFallback == BootSpec => FallbackTriedAll
<1>1. TaskInv /\ [BootNext]_bootVars
        => [Fallback => \A n \in Known : tries[n] >= Passes]_bootVars
  <2> SUFFICES ASSUME TaskInv, Fallback, NEW n \in Known PROVE tries[n] >= Passes
    OBVIOUS
  <2>1. /\ live \in Seq(Networks) /\ tries \in [Networks -> Nat] /\ idx \in Nat
        /\ fails \in Nat /\ EvenTries(live, tries, idx, fails)
    BY ListTypes DEF TaskInv, BootTypeOK
  <2>2. PICK q \in 1..Len(live) : n = live[q]
    BY <2>1 DEF Known
  <2>3. fails >= Len(live) * Passes /\ Passes \in Nat
    BY BootAssumption DEF Fallback
  <2>4. tries[live[q]] >= Passes
    BY <2>1, <2>3, TurnsOfAll
  <2>5. QED BY <2>2, <2>4
<1>2. QED BY <1>1, TaskHolds, PTL DEF BootSpec, FallbackTriedAll
=============================================================================
