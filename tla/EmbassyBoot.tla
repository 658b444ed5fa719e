----------------------------- MODULE EmbassyBoot -----------------------------
(***************************************************************************)
(* How the embassy firmware finds its way onto a network.  A boot brings   *)
(* up one radio mode for its whole life: station, or the access point with *)
(* the setup portal.  connection_task joins the configured networks in     *)
(* turn and, after three passes without a success, writes the boot-mode    *)
(* hint and reboots into the access point; there scan_task watches for a   *)
(* configured network and reboots back.  The hint and the configuration    *)
(* live in FlashKv; the power may fail at any time, in the middle of a     *)
(* flush too.                                                              *)
(***************************************************************************)
EXTENDS FlashKv

CONSTANTS
  Networks,     \* the SSIDs there are
  Joinable,     \* the ones whose stored password is right
  DefaultList,  \* the list a configuration starts with (the build's .env)
  Passes,       \* 3 passes over the list before the fallback
  MaxRequests,  \* bound on what users ask of one run of the model
  MaxLosses     \* bound on power losses

ASSUME BootAssumption ==
  /\ NetworkLists \subseteq Seq(Networks)
  /\ DefaultList \in NetworkLists \ TooBig
  /\ Joinable \subseteq Networks
  /\ Passes \in Nat \ {0}
  /\ MaxRequests \in Nat
  /\ MaxLosses \in Nat

VARIABLES
  up,        \* radio mode of this boot; panic when the boot never gets there
  live,      \* the networks of app.config()
  connected, \* connection_task is joined to a network
  idx,       \* its position in the list
  fails,     \* its consecutive failed attempts
  scan,      \* scan_task: none in station mode, watching, done, or refused
             \* when the radio would not take the AP configuration
  reboot,    \* OTA_REBOOT is signalled: a reset comes within 800 ms
  range,     \* the networks in range
  requests,  \* user requests made
  losses     \* power losses so far

\* For the properties: attempts on each network since the last success, boot
\* or change of the list.
VARIABLE tries

task == <<up, connected, idx, fails, scan>>
bootVars == <<kv, task, live, reboot, range, requests, losses, tries>>

NoTries == [n \in Networks |-> 0]

BootTypeOK ==
  /\ KvTypeOK
  /\ up \in {"sta", "ap", "panic"}
  /\ live \in NetworkLists \cup {<<>>}
  /\ connected \in BOOLEAN
  /\ idx \in Nat
  /\ fails \in Nat
  /\ scan \in {"none", "watching", "done", "refused"}
  /\ reboot \in BOOLEAN
  /\ range \subseteq Networks
  /\ requests \in 0..MaxRequests
  /\ losses \in 0..MaxLosses
  /\ tries \in [Networks -> Nat]

-----------------------------------------------------------------------------
(* main.                                                                   *)

\* read_boot_mode: anything but a stored AP hint is STA.
ReadBootMode(s) == IF s.mode = "ap" THEN "ap" ELSE "sta"

\* Config::load, or the defaults
Loaded(s) == IF s.config = NoConfig THEN DefaultList ELSE s.config

BootMode(s) ==
  IF Loaded(s) = <<>> \/ ReadBootMode(s) = "ap" THEN "ap" ELSE "sta"

\* The state main() builds.  scan_task ends at once when the radio refuses
\* the AP configuration.
BootFrom(s) ==
  /\ cache' = s
  /\ flash' = s
  /\ flush' = Idle
  /\ live' = Loaded(s)
  /\ up' = BootMode(s)
  /\ scan' \in (IF BootMode(s) = "ap" THEN {"watching", "refused"} ELSE {"none"})
  /\ connected' = FALSE
  /\ idx' = 0
  /\ fails' = 0
  /\ reboot' = FALSE
  /\ tries' = NoTries

PanicLoop(s) ==
  /\ cache' = Blank
  /\ flash' = s
  /\ flush' = Idle
  /\ live' = <<>>
  /\ up' = "panic"
  /\ scan' = "none"
  /\ connected' = FALSE
  /\ idx' = 0
  /\ fails' = 0
  /\ reboot' = FALSE
  /\ tries' = NoTries

\* A boot from the flash contents s.  FlashKv::new comes first: a panic there
\* ends in custom_halt, which resets the chip into the same panic.
Boot(s) == IF Loads(s) THEN BootFrom(s) ELSE PanicLoop(s)

BootInit ==
  \E l \in (NetworkLists \ TooBig) \cup {NoConfig} :
    /\ cache = [mode |-> "none", config |-> l]
    /\ flash = cache
    /\ flush = Idle
    /\ live = Loaded(cache)
    /\ up = BootMode(cache)
    /\ scan = (IF up = "ap" THEN "watching" ELSE "none")
    /\ connected = FALSE
    /\ idx = 0
    /\ fails = 0
    /\ reboot = FALSE
    /\ range \in SUBSET Networks
    /\ requests = 0
    /\ losses = 0
    /\ tries = NoTries

\* No task runs in the middle of a flush.
Running == flush.phase = "idle" /\ up # "panic"

\* reboot_task
RebootTask ==
  /\ Running
  /\ reboot
  /\ Boot(flash)
  /\ UNCHANGED <<range, requests, losses>>

-----------------------------------------------------------------------------
(* write_boot_mode: only a change is written.                              *)

WriteBootMode(m, then) ==
  IF ReadBootMode(cache) = m
  THEN /\ UNCHANGED kv
       /\ reboot' = (reboot \/ then = "always")
  ELSE /\ SetMode(m, then)
       /\ reboot' = reboot

\* The caller's code after the flush, for a flush that succeeded or not.
AfterFlush(ok) ==
  /\ reboot' = (reboot \/ flush.then = "always" \/ (ok /\ flush.then = "reboot"))
  /\ IF ok /\ flush.then = "replace"
     THEN live' = flush.list /\ tries' = NoTries
     ELSE UNCHANGED <<live, tries>>
  /\ UNCHANGED <<task, range, requests, losses>>

Flushing ==
  \/ FlushErase /\ UNCHANGED <<task, live, reboot, range, requests, losses, tries>>
  \/ FlushWrite /\ AfterFlush(TRUE)
  \/ FlushFails /\ AfterFlush(FALSE)

-----------------------------------------------------------------------------
(* connection_task, in station mode.                                       *)

Seeking == up = "sta" /\ ~connected /\ Running /\ live # <<>>

\* Mutants of Fallback: the number of networks is left out, or the reboot is.
FallbackTooEarly ==
  /\ Seeking
  /\ fails >= Passes
  /\ WriteBootMode("ap", "always")
  /\ UNCHANGED <<task, live, range, requests, losses, tries>>

FallbackStays ==
  /\ Seeking
  /\ fails >= Len(live) * Passes
  /\ WriteBootMode("ap", "none")
  /\ UNCHANGED <<task, live, range, requests, losses, tries>>

\* All networks unreachable: hint and reboot, again after 10 s.
Fallback ==
  /\ Seeking
  /\ fails >= Len(live) * Passes
  /\ WriteBootMode("ap", "always")
  /\ UNCHANGED <<task, live, range, requests, losses, tries>>

At == idx % Len(live)

Trying == Seeking /\ fails < Len(live) * Passes

AttemptFails ==
  /\ Trying
  /\ idx' = At + 1
  /\ fails' = fails + 1
  /\ tries' = [tries EXCEPT ![live[At + 1]] = @ + 1]
  /\ UNCHANGED <<kv, up, connected, scan, live, reboot, range, requests, losses>>

AttemptSucceeds ==
  /\ Trying
  /\ live[At + 1] \in range \cap Joinable
  /\ idx' = At
  /\ fails' = 0
  /\ connected' = TRUE
  /\ tries' = NoTries
  /\ WriteBootMode("sta", "none")
  /\ UNCHANGED <<up, scan, live, range, requests, losses>>

\* The link ends: the network went out of range, or dropped the station.
Disconnected ==
  /\ connected
  /\ Running
  /\ connected' = FALSE
  /\ UNCHANGED <<kv, up, idx, fails, scan, live, reboot, range, requests,
                 losses, tries>>

-----------------------------------------------------------------------------
(* ap::scan_task.                                                          *)

Known == {live[i] : i \in DOMAIN live}

\* Mutant of ScanFinds: the hint stays.
ScanKeepsHint ==
  /\ scan = "watching"
  /\ Running
  /\ Known \cap range # {}
  /\ scan' = "done"
  /\ reboot' = TRUE
  /\ UNCHANGED <<kv, up, connected, idx, fails, live, range, requests, losses, tries>>

ScanFinds ==
  /\ scan = "watching"
  /\ Running
  /\ Known \cap range # {}
  /\ scan' = "done"
  /\ WriteBootMode("sta", "always")
  /\ UNCHANGED <<up, connected, idx, fails, live, range, requests, losses, tries>>

-----------------------------------------------------------------------------
(* The users: the web API, reachable through the link or the portal, and   *)
(* the serial console.                                                     *)

Request == Running /\ requests < MaxRequests /\ requests' = requests + 1

Reachable == connected \/ scan \in {"watching", "done"}

\* PUT /api/config: save, then replace the live configuration.
ApiPut(l) ==
  /\ Reachable
  /\ Request
  /\ SetConfig(l, "replace")
  /\ UNCHANGED <<task, live, reboot, range, losses, tries>>

\* POST /api/factory_reset: erase the configuration, then reboot.
FactoryReset ==
  /\ Reachable
  /\ Request
  /\ SetConfig(NoConfig, "reboot")
  /\ UNCHANGED <<task, live, reboot, range, losses, tries>>

\* Serial "config reset", "ap" and "reset".
SerialConfigReset ==
  /\ Request
  /\ SetConfig(NoConfig, "none")
  /\ UNCHANGED <<task, live, reboot, range, losses, tries>>

SerialAp ==
  /\ Request
  /\ WriteBootMode("ap", "always")
  /\ UNCHANGED <<task, live, range, losses, tries>>

SerialReset ==
  /\ Request
  /\ reboot' = TRUE
  /\ UNCHANGED <<kv, task, live, range, losses, tries>>

-----------------------------------------------------------------------------
(* The surroundings.                                                       *)

RangeChanges ==
  /\ \E n \in Networks :
        range' = IF n \in range THEN range \ {n} ELSE range \cup {n}
  /\ UNCHANGED <<kv, task, live, reboot, requests, losses, tries>>

\* The power fails and returns: the device boots from whatever the flash
\* holds, an erased or half-written region in the middle of a flush.
PowerLoss ==
  /\ losses < MaxLosses
  /\ losses' = losses + 1
  /\ \E s \in Interrupted : Boot(s)
  /\ UNCHANGED <<range, requests>>

Users ==
  \/ \E l \in NetworkLists : ApiPut(l)
  \/ FactoryReset
  \/ SerialConfigReset
  \/ SerialAp
  \/ SerialReset

BootNext ==
  \/ RebootTask
  \/ Flushing
  \/ Fallback
  \/ AttemptFails
  \/ AttemptSucceeds
  \/ Disconnected
  \/ ScanFinds
  \/ Users
  \/ RangeChanges
  \/ PowerLoss

\* The tasks never stop polling.  A flush that is tried again and again
\* succeeds in the end, and so does joining a network that is in range with
\* the right password, and finding it in a scan.
Fairness ==
  /\ WF_bootVars(RebootTask)
  /\ WF_bootVars(Flushing)
  /\ SF_bootVars(FlushErase /\ UNCHANGED <<task, live, reboot, range, requests, losses, tries>>)
  /\ SF_bootVars(FlushWrite /\ AfterFlush(TRUE))
  /\ WF_bootVars(Fallback)
  /\ WF_bootVars(AttemptFails \/ AttemptSucceeds)
  /\ SF_bootVars(AttemptSucceeds)
  /\ WF_bootVars(ScanFinds)

BootSpec == BootInit /\ [][BootNext]_bootVars /\ Fairness

-----------------------------------------------------------------------------
(* Properties.                                                             *)

\* The device gives up on station mode only after it has tried every network
\* of its list Passes times: the round-robin position and the failure count of
\* connection_task agree.
FallbackTriedAll ==
  [][Fallback => \A n \in Known : tries[n] >= Passes]_bootVars

\* Whatever the networks around it do, the device is within reach of its user
\* again and again, on a network or through its portal, as long as its list
\* is not empty and the radio takes the AP configuration.  (With an empty list
\* connection_task waits in station mode for good; a half-written
\* flash region is CorruptIsEmpty's matter.)
NeverStranded ==
  <>[](live # <<>> /\ scan # "refused" /\ up # "panic") => []<>Reachable

\* A configured network that stays in range, with the right password, is
\* joined: from station mode past the other networks of the list, or from the
\* portal by way of the scan, the hint and the reboot.
JoinsInTheEnd ==
  <>[](Known \cap range \cap Joinable # {} /\ scan # "refused") => []<>connected

\* A flash region left half-written is taken for an empty store, as the
\* comment of FlashKv::load says of corruption: the device still boots.
CorruptIsEmpty == up # "panic"
=============================================================================
