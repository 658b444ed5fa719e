--------------------------- MODULE WifiSupervisor ---------------------------
(***************************************************************************)
(* The WiFi supervisor of crates/firmware/src/net_wifi.rs: the thread that  *)
(* owns the driver, and the calls of the Wifi trait that the HTTP servers   *)
(* and the serial console make on it.                                       *)
(*                                                                         *)
(*  - run(): copy the network list, reset rescan_signal, try each network,  *)
(*    then stay connected, back off, or serve the access point;             *)
(*  - connect() replaces the list and THEN raises rescan_signal, under two  *)
(*    locks; reconnect() only raises it;                                    *)
(*  - scan() puts a channel into a slot of one and waits for the answer     *)
(*    with a timeout; the supervisor takes it out when its loop comes by;   *)
(*  - the driver's event task sets a flag when beacons stop.                *)
(*                                                                         *)
(* The radio is the environment: a link may come up, be lost, or turn into  *)
(* a "ghost", which the driver still reports as connected (the ESP-IDF bug  *)
(* the code guards against).                                                *)
(***************************************************************************)
EXTENDS Naturals, Sequences, FiniteSets

CONSTANTS
  Lists,       \* the network lists that may be configured
  TooLong,     \* networks with a name or password the driver cannot hold
  GoodNetworks,\* networks an attempt may always succeed on: in range, with
               \* the right password
  Callers,     \* threads that call the Wifi trait
  ProbeEvery,  \* loop iterations between two probes of the link (12)
  ProbeLimit   \* failed probes in a row that force a reconnect (3)

ASSUME WifiAssumption ==
  /\ \A l \in Lists : Len(l) \in Nat
  /\ GoodNetworks \cap TooLong = {}
  /\ ProbeEvery \in Nat \ {0} /\ ProbeLimit \in Nat \ {0}

VARIABLES
  networks,   \* WifiSupervisor::networks
  rescan,     \* rescan_signal
  beacon,     \* beacon_timeout
  slot,       \* scan_request: {} or the caller whose channel is in it
  state,      \* the kind of the reported WifiState
  sup,        \* the supervisor: its next step and its locals
  serving,    \* whose channel serve_scan_request holds, while it is open
  caller,     \* per caller: where it is in connect() or scan()
  driver,     \* the EspWifi driver: stopped, or started as sta or ap
  link,       \* environment: the station's link, as it really is
  gateway,    \* environment: the link came with a gateway's address
  deaf,       \* history: sleeps of the connected loop on a ghost link
  overtaken   \* history: the list was replaced between its copy and the reset

radio == <<link, gateway>>
vars == <<networks, rescan, beacon, slot, state, sup, serving, caller, driver,
          radio, deaf, overtaken>>

Linked  == {"linked", "linked_serve", "linked_scan", "linked_check"}
Portal  == {"ap", "ap_serve", "ap_scan"}
SupStep == {"copy", "reset", "try", "configure", "announce", "back_off",
            "start_ap", "configure_ap"} \cup Linked \cup Portal

Sup == [pc : SupStep, list : Lists, next : Nat \ {0},
        ticks : 0 .. ProbeEvery - 1, fails : 0 .. ProbeLimit - 1]

TypeOK ==
  /\ networks \in Lists /\ rescan \in BOOLEAN /\ beacon \in BOOLEAN
  /\ slot \subseteq Callers /\ serving \subseteq Callers
  /\ state \in {"Disconnected", "Connecting", "Connected", "ApMode"}
  /\ sup \in Sup
  /\ caller \in [Callers -> {"idle", "signal", "waiting", "clearing"}]
  /\ driver \in {"stopped", "sta", "ap"}
  /\ link \in {"none", "up", "ghost"} /\ gateway \in BOOLEAN
  /\ deaf \in Nat /\ overtaken \in BOOLEAN

Init ==
  /\ networks \in Lists
  /\ rescan = TRUE /\ beacon = FALSE /\ slot = {} /\ serving = {}
  /\ state = "Disconnected"
  /\ sup = [pc |-> "copy", list |-> networks, next |-> 1, ticks |-> 0,
            fails |-> 0]
  /\ caller = [c \in Callers |-> "idle"]
  /\ driver = "stopped" /\ link = "none" /\ gateway = FALSE
  /\ deaf = 0 /\ overtaken = FALSE

-----------------------------------------------------------------------------
(* The supervisor's loop.                                                   *)

Copy ==
  /\ sup.pc = "copy"
  /\ sup' = [sup EXCEPT !.pc = "reset", !.list = networks]
  /\ overtaken' = FALSE
  /\ UNCHANGED <<networks, rescan, beacon, slot, state, serving, caller,
                 driver, radio, deaf>>

Reset ==
  /\ sup.pc = "reset"
  /\ rescan' = FALSE
  /\ overtaken' = (networks # sup.list)
  /\ sup' = [sup EXCEPT !.pc = "try"]
  /\ UNCHANGED <<networks, beacon, slot, state, serving, caller, driver,
                 radio, deaf>>

\* wifi.stop(), which ends the link.  Its error is ignored, and is_started()
\* taken for false when it fails: then the driver stays as it is.
Stop ==
  \/ driver' = "stopped" /\ link' = "none" /\ gateway' = FALSE
  \/ UNCHANGED <<driver, radio>>

(* try_connect_any: the next network of the list is tried, on a stopped     *)
(* driver if it can be stopped; after the last one the supervisor backs     *)
(* off, and with an empty list it opens the access point.                   *)
\* Mutant of TryNext: the driver is configured without being stopped.
TryWithoutStop ==
  /\ sup.pc = "try"
  /\ IF sup.next <= Len(sup.list)
     THEN /\ sup.list[sup.next] \notin TooLong
          /\ state' = "Connecting"
          /\ sup' = [sup EXCEPT !.pc = "configure"]
     ELSE /\ sup' = [sup EXCEPT !.pc = IF sup.list = <<>> THEN "start_ap"
                                       ELSE "back_off"]
          /\ UNCHANGED state
  /\ UNCHANGED <<networks, rescan, beacon, slot, serving, caller, driver, radio,
                 deaf, overtaken>>

TryNext ==
  /\ sup.pc = "try"
  /\ IF sup.next <= Len(sup.list)
     THEN /\ sup.list[sup.next] \notin TooLong
          /\ state' = "Connecting"
          /\ Stop
          /\ sup' = [sup EXCEPT !.pc = "configure"]
     ELSE /\ sup' = [sup EXCEPT !.pc = IF sup.list = <<>> THEN "start_ap"
                                       ELSE "back_off"]
          /\ UNCHANGED <<state, driver, radio>>
  /\ UNCHANGED <<networks, rescan, beacon, slot, serving, caller, deaf,
                 overtaken>>

(* A name or password that is too long is refused before anything else.     *)
TryRefused ==
  /\ sup.pc = "try" /\ sup.next <= Len(sup.list)
  /\ sup.list[sup.next] \in TooLong
  /\ state' = "Connecting"
  /\ sup' = [sup EXCEPT !.next = @ + 1]
  /\ UNCHANGED <<networks, rescan, beacon, slot, serving, caller, driver,
                 radio, deaf, overtaken>>

(* try_connect_sta: set_configuration, start, connect and the wait for an   *)
(* address.  On a driver that did not stop the wait may be satisfied by the *)
(* old association, deaf or not.                                            *)
Connected(g) ==
  /\ sup.pc = "configure"
  /\ driver' = "sta"
  /\ link' = "up" \/ (link # "none" /\ link' = link)
  /\ gateway' = g
  /\ sup' = [sup EXCEPT !.pc = "announce", !.next = 1]
  /\ UNCHANGED <<networks, rescan, beacon, slot, state, serving, caller, deaf,
                 overtaken>>

(* A failure of set_configuration leaves the driver as it was, one of start *)
(* stopped or started; the wait fails on a link that has no address, too.   *)
NotConnected(d, l) ==
  /\ sup.pc = "configure"
  /\ d # "sta" => l = "none"
  /\ driver' = d /\ link' = l
  /\ sup' = [sup EXCEPT !.pc = "try", !.next = @ + 1]
  /\ UNCHANGED <<networks, rescan, beacon, slot, state, serving, caller,
                 gateway, deaf, overtaken>>

(* The driver is configured while it runs: null dereferences in             *)
(* BlockingWifi::start or wifi_set_mode_process, as the comments of         *)
(* try_connect_sta and start_ap say.  The chip resets and boots with the    *)
(* stored list; the callers' requests are gone.                             *)
DriverPanics ==
  /\ sup.pc \in {"configure", "configure_ap"} /\ driver # "stopped"
  /\ networks' \in Lists
  /\ rescan' = TRUE /\ beacon' = FALSE /\ slot' = {} /\ serving' = {}
  /\ state' = "Disconnected"
  /\ sup' = [pc |-> "copy", list |-> networks', next |-> 1, ticks |-> 0,
             fails |-> 0]
  /\ caller' = [c \in Callers |-> "idle"]
  /\ driver' = "stopped" /\ link' = "none" /\ gateway' = FALSE
  /\ deaf' = 0 /\ overtaken' = FALSE

\* The locals of a loop end with it.
Leave == [sup EXCEPT !.pc = "copy", !.next = 1, !.ticks = 0, !.fails = 0]

BackOff ==
  /\ sup.pc = "back_off"
  /\ sup' = Leave
  /\ UNCHANGED <<networks, rescan, beacon, slot, state, serving, caller,
                 driver, radio, deaf, overtaken>>

(* announce_connected, and run_connected up to its loop.                    *)
Announce ==
  /\ sup.pc = "announce"
  /\ beacon' = FALSE
  /\ state' = "Connected"
  /\ sup' = [sup EXCEPT !.pc = "linked"]
  /\ UNCHANGED <<networks, rescan, slot, serving, caller, driver, radio, deaf,
                 overtaken>>

(* run_connected: the head of the loop, a scan if one is requested, the     *)
(* signal, and five seconds of sleep.                                       *)
LinkedTop ==
  /\ sup.pc = "linked"
  /\ IF link = "none" \/ beacon
     THEN sup' = Leave /\ deaf' = 0
     ELSE sup' = [sup EXCEPT !.pc = "linked_serve"] /\ UNCHANGED deaf
  /\ beacon' = (beacon /\ link = "none")
  /\ UNCHANGED <<networks, rescan, slot, state, serving, caller, driver,
                 radio, overtaken>>

\* Mutant of ProbeOk: only the association is probed.
AssociationOk(ok) == link # "none"

(* probe_link: the association, and a TCP round trip to the gateway where   *)
(* there is one.  A link that works may still fail the probe.               *)
ProbeOk(ok) ==
  /\ link # "none"
  /\ ~gateway \/ (link = "up" /\ ok)

NewFails(tick, ok) ==
  IF tick # 0 THEN sup.fails ELSE IF ProbeOk(ok) THEN 0 ELSE sup.fails + 1

LinkIsDead(fails) == fails >= ProbeLimit

\* Mutant of LinkedCheck: the signal is not looked at.
CheckWithoutSignal(ok) ==
  LET tick  == (sup.ticks + 1) % ProbeEvery
      fails == NewFails(tick, ok)
  IN /\ sup.pc = "linked_check"
     /\ IF LinkIsDead(fails)
        THEN sup' = Leave /\ deaf' = 0
        ELSE /\ sup' = [sup EXCEPT !.pc = "linked", !.ticks = tick,
                                   !.fails = fails]
             /\ deaf' = IF link = "ghost" /\ gateway THEN deaf + 1 ELSE 0
     /\ UNCHANGED <<networks, rescan, beacon, slot, state, serving, caller,
                    driver, radio, overtaken>>

LinkedCheck(ok) ==
  LET tick  == (sup.ticks + 1) % ProbeEvery
      fails == NewFails(tick, ok)
  IN /\ sup.pc = "linked_check"
     /\ IF rescan \/ LinkIsDead(fails)
        THEN sup' = Leave /\ deaf' = 0
        ELSE /\ sup' = [sup EXCEPT !.pc = "linked", !.ticks = tick,
                                   !.fails = fails]
             /\ deaf' = IF link = "ghost" /\ gateway THEN deaf + 1 ELSE 0
     /\ UNCHANGED <<networks, rescan, beacon, slot, state, serving, caller,
                    driver, radio, overtaken>>

(* run_ap_permanent: enter_ap_mode, which may fail, and the loop that only  *)
(* the signal ends.                                                         *)
StartAp ==
  /\ sup.pc = "start_ap"
  /\ Stop
  /\ sup' = [sup EXCEPT !.pc = "configure_ap"]
  /\ UNCHANGED <<networks, rescan, beacon, slot, state, serving, caller, deaf,
                 overtaken>>

\* As TryRefused: start_ap returns before it stops the driver.
ApRefused ==
  /\ sup.pc = "start_ap"
  /\ sup' = [sup EXCEPT !.pc = "ap"]
  /\ UNCHANGED <<networks, rescan, beacon, slot, state, serving, caller,
                 driver, radio, deaf, overtaken>>

\* As in NotConnected, a failure leaves the driver in any of its states.
ApStarted(ok) ==
  /\ sup.pc = "configure_ap"
  /\ IF ok THEN driver' = "ap" /\ state' = "ApMode"
           ELSE driver' \in {driver, "stopped", "ap"} /\ UNCHANGED state
  /\ IF driver' = "sta" THEN UNCHANGED radio ELSE link' = "none" /\ gateway' = FALSE
  /\ sup' = [sup EXCEPT !.pc = "ap"]
  /\ UNCHANGED <<networks, rescan, beacon, slot, serving, caller, deaf, overtaken>>

ApTop ==
  /\ sup.pc = "ap"
  /\ IF rescan
     THEN Stop /\ sup' = Leave
     ELSE /\ sup' = [sup EXCEPT !.pc = "ap_serve"]
          /\ UNCHANGED <<driver, radio>>
  /\ UNCHANGED <<networks, rescan, beacon, slot, state, serving, caller,
                 deaf, overtaken>>

(* serve_scan_request, in either loop: the slot is emptied, the scan runs,  *)
(* and its result goes to the channel if someone still listens.             *)
AfterServe == [linked_serve |-> "linked_check", ap_serve |-> "ap",
               linked_scan  |-> "linked_check", ap_scan  |-> "ap"]
ScanStep   == [linked_serve |-> "linked_scan", ap_serve |-> "ap_scan"]

TakeRequest ==
  /\ sup.pc \in {"linked_serve", "ap_serve"}
  /\ slot' = {}
  /\ serving' = {c \in slot : caller[c] = "waiting"}
  /\ sup' = [sup EXCEPT !.pc = IF slot = {} THEN AfterServe[sup.pc]
                               ELSE ScanStep[sup.pc]]
  /\ UNCHANGED <<networks, rescan, beacon, state, caller, driver, radio, deaf,
                 overtaken>>

Answer ==
  /\ sup.pc \in {"linked_scan", "ap_scan"}
  /\ caller' = [c \in Callers |-> IF c \in serving THEN "idle" ELSE caller[c]]
  /\ serving' = {}
  /\ sup' = [sup EXCEPT !.pc = AfterServe[sup.pc]]
  /\ UNCHANGED <<networks, rescan, beacon, slot, state, driver, radio, deaf,
                 overtaken>>

Supervisor ==
  \/ Copy \/ Reset \/ TryNext \/ BackOff \/ Announce
  \/ \E g \in BOOLEAN : Connected(g)
  \/ TryRefused
  \/ \E d \in {"stopped", "sta", driver}, l \in {"none", "up", link} : NotConnected(d, l)
  \/ DriverPanics
  \/ LinkedTop
  \/ \E ok \in BOOLEAN : LinkedCheck(ok)
  \/ StartAp \/ ApRefused \/ ApTop
  \/ \E ok \in BOOLEAN : ApStarted(ok)
  \/ TakeRequest \/ Answer

-----------------------------------------------------------------------------
(* The Wifi trait.                                                          *)

(* connect() with a list that is not the current one (with the same list it *)
(* does nothing), and its second lock.                                      *)
Connect(c, l) ==
  /\ caller[c] = "idle" /\ l # networks
  /\ networks' = l
  /\ caller' = [caller EXCEPT ![c] = "signal"]
  /\ UNCHANGED <<rescan, beacon, slot, state, sup, serving, driver, radio,
                 deaf, overtaken>>

\* Mutant of Signal: the supervisor is only woken from the access point.
SignalInPortal(c) ==
  /\ caller[c] = "signal"
  /\ rescan' = (rescan \/ state = "ApMode")
  /\ caller' = [caller EXCEPT ![c] = "idle"]
  /\ UNCHANGED <<networks, beacon, slot, state, sup, serving, driver, radio,
                 deaf, overtaken>>

Signal(c) ==
  /\ caller[c] = "signal"
  /\ rescan' = TRUE
  /\ caller' = [caller EXCEPT ![c] = "idle"]
  /\ UNCHANGED <<networks, beacon, slot, state, sup, serving, driver, radio,
                 deaf, overtaken>>

Reconnect(c) ==
  /\ caller[c] = "idle"
  /\ rescan' = TRUE
  /\ UNCHANGED <<networks, beacon, slot, state, sup, serving, caller, driver,
                 radio, deaf, overtaken>>

(* scan(): refused when the slot is taken.                                  *)
Scan(c) ==
  /\ caller[c] = "idle" /\ slot = {}
  /\ slot' = {c}
  /\ caller' = [caller EXCEPT ![c] = "waiting"]
  /\ UNCHANGED <<networks, rescan, beacon, state, sup, serving, driver, radio,
                 deaf, overtaken>>

(* recv_timeout ends without an answer: after 20 s, or at once when the     *)
(* channel was thrown out of the slot.  From here on nobody listens.        *)
GiveUp(c) ==
  /\ caller[c] = "waiting"
  /\ caller' = [caller EXCEPT ![c] = "clearing"]
  /\ serving' = serving \ {c}
  /\ UNCHANGED <<networks, rescan, beacon, slot, state, sup, driver, radio,
                 deaf, overtaken>>

\* Mutant of ClearSlot: a caller that gives up leaves its channel behind.
LeaveSlot(c) ==
  /\ caller[c] = "clearing"
  /\ caller' = [caller EXCEPT ![c] = "idle"]
  /\ UNCHANGED <<networks, rescan, beacon, slot, state, sup, serving, driver,
                 radio, deaf, overtaken>>

(* The slot is cleared, whoever's channel it holds by now.                  *)
ClearSlot(c) ==
  /\ caller[c] = "clearing"
  /\ slot' = {}
  /\ caller' = [caller EXCEPT ![c] = "idle"]
  /\ UNCHANGED <<networks, rescan, beacon, state, sup, serving, driver, radio,
                 deaf, overtaken>>

-----------------------------------------------------------------------------
(* The radio: a link fails or recovers, as the driver knows or not; the     *)
(* event task sets the flag when beacons stop, rightly or not.              *)
LinkTurns(l) ==
  /\ link # "none" /\ l # link
  /\ link' = l
  /\ deaf' = 0
  /\ UNCHANGED <<networks, rescan, beacon, slot, state, sup, serving, caller,
                 driver, gateway, overtaken>>

BeaconTimeout ==
  /\ driver = "sta"
  /\ beacon' = TRUE
  /\ UNCHANGED <<networks, rescan, slot, state, sup, serving, caller, driver,
                 radio, deaf, overtaken>>

Next ==
  \/ Supervisor
  \/ \E c \in Callers, l \in Lists : Connect(c, l)
  \/ \E c \in Callers : \/ Signal(c) \/ Reconnect(c)
                        \/ Scan(c) \/ GiveUp(c) \/ ClearSlot(c)
  \/ \E l \in {"none", "up", "ghost"} : LinkTurns(l)
  \/ BeaconTimeout

GoodIsNext ==
  sup.next <= Len(sup.list) /\ sup.list[sup.next] \in GoodNetworks

\* A stop before an attempt on a good network, and the attempt, that succeed.
StopsForGood == GoodIsNext /\ TryNext /\ driver' = "stopped"
JoinsGood    == GoodIsNext /\ driver = "stopped" /\ \E g \in BOOLEAN : Connected(g)

Safety == Init /\ [][Next]_vars

(* The supervisor's thread never ends, and neither does a call between its  *)
(* two locks; a driver that is told to stop for a good network again and    *)
(* again does so for once, and a good network that a stopped driver tries   *)
(* again and again is joined for once.                                      *)
WifiFairness ==
  /\ WF_vars(Supervisor)
  /\ \A c \in Callers : WF_vars(Signal(c))
  /\ SF_vars(StopsForGood)
  /\ SF_vars(JoinsGood)

Spec == Safety /\ WifiFairness

-----------------------------------------------------------------------------
(* Correctness.                                                             *)

(* A new list is not forgotten: while the supervisor works with another     *)
(* list than the configured one, the signal that will make it copy the list *)
(* again is up, or is about to be.  The one exception is the list that      *)
(* connect() replaces between the supervisor's copy and its reset of the    *)
(* signal, which wipes out the signal for the new list.                     *)
NewListPending ==
  (networks # sup.list /\ sup.pc \notin {"copy", "reset"} /\ ~overtaken)
    => rescan \/ \E c \in Callers : caller[c] = "signal"

(* The slot never holds the channel of a caller that has gone, so no        *)
(* request blocks the scans after it.                                       *)
SlotIsLive ==
  \A c \in slot : slot = {c} /\ caller[c] \in {"waiting", "clearing"}

(* A ghost link, which the driver reports as connected, is left after at    *)
(* most ProbeLimit probes, whether or not the beacon event was seen, and    *)
(* whatever failed probes or recoveries there were before -- where the link *)
(* has a gateway to probe.                                                  *)
GhostIsLeft == sup.pc \in Linked => deaf < ProbeLimit * ProbeEvery

(* A request to reconnect, or to take up a new list, is served: whatever    *)
(* the supervisor is doing, it comes back to the head of its loop.          *)
SignalIsServed == rescan ~> (sup.pc \in {"copy", "reset"})

(* With a good network in the list the supervisor comes back to a link,     *)
(* again and again: past the networks before it, refused or out of range,   *)
(* from the access point, from a driver that would not stop and the panic   *)
(* of configuring it so.  (A list whose signal the reset wiped out may stay *)
(* unread for good, and the access point with it.)                          *)
ListIsJoined ==
  (<>[](\E i \in 1..Len(networks) : networks[i] \in GoodNetworks) /\ []<>~overtaken)
    => []<>(sup.pc \in Linked)
=============================================================================
