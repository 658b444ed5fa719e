---------------------------- MODULE DeviceEvents ----------------------------
(***************************************************************************)
(* What the device tells the outside world of its own life, and how it     *)
(* comes to trust a new firmware: the main loop of the std firmware, the   *)
(* flow alarm's latch with its tick and its clear, the API's configuration *)
(* write and webhook test, and the OTA upload, all feeding the webhook     *)
(* queue, over resets at any time.                                         *)
(*                                                                         *)
(* Threads interleave at every lock in the std firmware and the host       *)
(* simulator.  The embassy tasks give way only at an await, and there is   *)
(* none in the tick, the clear and the configuration write.                *)
(***************************************************************************)
EXTENDS WebhookQueue, OtaSlots

CONSTANTS
  TestKinds,   \* the kinds of event that are tested by hand
  Healthy,     \* 6 polls of the main loop: 60 s
  MaxStimuli   \* bound on alarms, requests, uploads and resets

ASSUME EventsAssumption ==
  /\ TestKinds \subseteq Events
  /\ Healthy \in Nat
  /\ MaxStimuli \in Nat

VARIABLES
  wifi,      \* wifi.state() is Connected
  station,   \* embassy: booted in station mode, webhook_task is there
  uptime,    \* polls of the main loop since the boot, up to Healthy
  low_heap,  \* the heap has been below the floor since the boot
  main,      \* [booted : boot event emitted, marked : app_marked_valid]
  reason,    \* reset reason of this boot
  active,    \* alarm.active
  tick,      \* evaluate_flow_alarm: its next step and its was_active
  clear,     \* clear_flow_alarm: its next step and its was_active
  writer,    \* replace_config_section: its next step
  reboot,    \* an OTA reboot is on its way
  stimuli    \* stimuli so far

\* For the properties: the alarm event emitted last, whether a clear and an
\* alarm overlapped since, and the numbers of the alarm events.
VARIABLES told, overlapped, fires

threads == <<tick, clear, writer>>
boot == <<station, uptime, low_heap, main, reason>>
ghosts == <<told, overlapped, fires>>
fixed == <<program, tls>>
vars == <<fixed, webhooks, queueVars, slotVars, wifi, boot, active, threads,
          reboot, stimuli, ghosts>>

AtRest == [pc |-> "idle", was_active |-> FALSE]

Init ==
  /\ QueueInit
  /\ SlotsInit
  /\ wifi = FALSE
  /\ station \in BOOLEAN
  /\ program # "embassy" => station
  /\ uptime = 0
  /\ low_heap = FALSE
  /\ main = [booted |-> FALSE, marked |-> FALSE]
  /\ reason = "power"
  /\ active = FALSE
  /\ tick = AtRest
  /\ clear = AtRest
  /\ writer = "idle"
  /\ reboot = FALSE
  /\ stimuli = 0
  /\ told = "none"
  /\ overlapped = FALSE
  /\ fires = {}

Stimulus == stimuli < MaxStimuli /\ stimuli' = stimuli + 1

\* No embassy task is in the middle of a step of another.
Resting == tick.pc = "idle" /\ clear.pc = "idle" /\ writer = "idle"
GivesWay(pc) == program = "embassy" => (pc # "idle" \/ Resting)

-----------------------------------------------------------------------------
(* The main loop of the std firmware, every 10 s.                          *)

BootKind == IF reason = "panic" THEN "panic_boot" ELSE "boot"

\* Mutant of ShouldMark: the network is not asked for.
MarkWithoutWifi(up) == ~main.marked /\ up >= Healthy /\ ~low_heap

ShouldMark(up) == ~main.marked /\ up >= Healthy /\ ~low_heap /\ wifi

\* The boot event once WiFi is up; then, once healthy, the slot is marked
\* valid (which may fail: mark_app_valid only logs) and the update announced.
MainLoop(ok) ==
  LET up == IF uptime < Healthy THEN uptime + 1 ELSE uptime
      announces == ~main.booted /\ wifi
      m1 == IF announces THEN Emitted(mail, BootKind) ELSE mail
  IN  /\ program = "std"
      /\ uptime < Healthy \/ announces \/ ShouldMark(up)
      /\ uptime' = up
      /\ mail' = IF ShouldMark(up) THEN Emitted(m1, "ota.completed") ELSE m1
      /\ ota' = IF ShouldMark(up) /\ ok THEN MarkValid(ota, running) ELSE ota
      /\ main' = [booted |-> main.booted \/ announces,
                  marked |-> main.marked \/ ShouldMark(up)]
      /\ UNCHANGED <<fixed, webhooks, job, sent, due, handled, image, selected,
                     running, uploads, wifi, station, low_heap, reason, active,
                     threads, reboot, stimuli, ghosts>>

-----------------------------------------------------------------------------
(* The flow alarm: App::tick's evaluation and the user's clear.            *)

TickSnapshot ==
  /\ tick.pc = "idle"
  /\ GivesWay("idle")
  /\ Stimulus
  /\ tick' = [pc |-> "update", was_active |-> active]
  /\ UNCHANGED <<fixed, webhooks, queueVars, slotVars, wifi, boot, active, clear,
                 writer, reboot, ghosts>>

\* The flow has been high for long enough (high) or not.
TickUpdate(high) ==
  /\ tick.pc = "update"
  /\ IF ~tick.was_active /\ high
     THEN /\ active' = TRUE
          /\ tick' = [tick EXCEPT !.pc = "emit"]
          /\ overlapped' = (overlapped \/ clear.pc # "idle")
     ELSE /\ tick' = AtRest
          /\ UNCHANGED <<active, overlapped>>
  /\ UNCHANGED <<fixed, webhooks, queueVars, slotVars, wifi, boot, clear, writer,
                 reboot, stimuli, told, fires>>

TickEmit ==
  /\ tick.pc = "emit"
  /\ tick' = AtRest
  /\ mail' = Emitted(mail, "flow_alarm.fire")
  /\ told' = "fire"
  /\ fires' = fires \cup {mail'.emitted}
  /\ UNCHANGED <<fixed, webhooks, job, sent, due, handled, slotVars, wifi, boot,
                 active, clear, writer, reboot, stimuli, overlapped>>

ClearRead ==
  /\ clear.pc = "idle"
  /\ GivesWay("idle")
  /\ Stimulus
  /\ clear' = [pc |-> "update", was_active |-> active]
  /\ overlapped' = (overlapped \/ tick.pc # "idle")
  /\ UNCHANGED <<fixed, webhooks, queueVars, slotVars, wifi, boot, active, tick,
                 writer, reboot, told, fires>>

\* Mutant of ClearUpdate: the latch stays.
ClearKeepsLatch ==
  /\ clear.pc = "update"
  /\ clear' = IF clear.was_active THEN [clear EXCEPT !.pc = "emit"] ELSE AtRest
  /\ UNCHANGED <<fixed, webhooks, queueVars, slotVars, wifi, boot, active, tick,
                 writer, reboot, stimuli, ghosts>>

ClearUpdate ==
  /\ clear.pc = "update"
  /\ active' = FALSE
  /\ clear' = IF clear.was_active THEN [clear EXCEPT !.pc = "emit"] ELSE AtRest
  /\ UNCHANGED <<fixed, webhooks, queueVars, slotVars, wifi, boot, tick, writer,
                 reboot, stimuli, ghosts>>

ClearEmit ==
  /\ clear.pc = "emit"
  /\ clear' = AtRest
  /\ mail' = Emitted(mail, "flow_alarm.clear")
  /\ told' = "clear"
  /\ UNCHANGED <<fixed, webhooks, job, sent, due, handled, slotVars, wifi, boot,
                 active, tick, writer, reboot, stimuli, overlapped, fires>>

-----------------------------------------------------------------------------
(* The API: a configuration write, and the webhook test.                   *)

ReplaceWebhooks(ws) ==
  /\ writer = "idle"
  /\ GivesWay("idle")
  /\ Stimulus
  /\ webhooks' = ws
  /\ writer' = "emit"
  /\ UNCHANGED <<fixed, queueVars, slotVars, wifi, boot, active, tick, clear,
                 reboot, ghosts>>

ReplaceEmit ==
  /\ writer = "emit"
  /\ writer' = "idle"
  /\ mail' = Emitted(mail, "config.changed")
  /\ UNCHANGED <<fixed, webhooks, job, sent, due, handled, slotVars, wifi, boot,
                 active, tick, clear, reboot, stimuli, ghosts>>

\* POST /api/webhooks/test and the console's webhook command: a made-up event.
WebhooksTest(kind) ==
  /\ GivesWay("idle")
  /\ Stimulus
  /\ mail' = Emitted(mail, kind)
  /\ UNCHANGED <<fixed, webhooks, job, sent, due, handled, slotVars, wifi, boot,
                 active, threads, reboot, ghosts>>

-----------------------------------------------------------------------------
(* The worker.  In the embassy firmware's access point mode there is none. *)

Working == station /\ GivesWay("idle")

Worker ==
  /\ Working
  /\ TakeEvent \/ \E ok \in BOOLEAN : PostNext(ok)
  /\ UNCHANGED <<fixed, webhooks, slotVars, wifi, boot, active, threads, reboot,
                 stimuli, ghosts>>

-----------------------------------------------------------------------------
(* Updates and resets of the two firmwares.                                *)

Flashable == program # "host" /\ GivesWay("idle")

OtaBegins ==
  /\ Flashable
  /\ Stimulus
  /\ program = "std" => Initiates
  /\ \E c \in Clients, img \in Uploads : UploadBegins(c, img)
  /\ UNCHANGED <<fixed, webhooks, queueVars, wifi, boot, active, threads, reboot,
                 ghosts>>

OtaFails ==
  /\ Flashable
  /\ \E c \in Clients : UploadFails(c)
  /\ UNCHANGED <<fixed, webhooks, queueVars, wifi, boot, active, threads, reboot,
                 stimuli, ghosts>>

\* Both handlers ask for a reset, half a second or 800 ms later.
OtaCompletes ==
  /\ program = "std"
  /\ \E c \in Clients : UploadCompletes(c, uploads[c].slot)
  /\ reboot' = TRUE
  /\ UNCHANGED <<fixed, webhooks, queueVars, wifi, boot, active, threads, stimuli,
                 ghosts>>

WriteImageCompletes ==
  /\ program = "embassy"
  /\ GivesWay("idle")
  /\ \E c \in Clients : UploadCompletes(c, Other(selected))
  /\ reboot' = TRUE
  /\ UNCHANGED <<fixed, webhooks, queueVars, wifi, boot, active, threads, stimuli,
                 ghosts>>

\* The chip resets and boots: the bootloader chooses the slot, the embassy
\* firmware confirms the selected image first thing (unless that fails), and
\* the program starts afresh.
Reset(why) ==
  /\ QueueReset
  /\ running' = BootSlot
  /\ selected' = NextSelected
  /\ ota' \in {Booted} \cup (IF program = "embassy" THEN {MarkValid(Booted, NextSelected)}
                            ELSE {})
  /\ uploads' = NoUploads
  /\ wifi' = FALSE
  /\ station' \in (IF program = "embassy" THEN BOOLEAN ELSE {TRUE})
  /\ uptime' = 0
  /\ low_heap' = FALSE
  /\ main' = [booted |-> FALSE, marked |-> FALSE]
  /\ reason' = why
  /\ active' = FALSE
  /\ tick' = AtRest
  /\ clear' = AtRest
  /\ writer' = "idle"
  /\ reboot' = FALSE
  /\ told' = "none"
  /\ overlapped' = FALSE
  /\ UNCHANGED <<fixed, webhooks, image, fires>>

OtaReboot == program # "host" /\ reboot /\ Reset("software") /\ UNCHANGED stimuli

Crash == program # "host" /\ Stimulus /\ Reset("panic")

-----------------------------------------------------------------------------
(* The surroundings.                                                       *)

\* A bad image never gets onto the network.
WifiChanges ==
  /\ program = "std"
  /\ wifi' = ~wifi
  /\ wifi' => image[running] = "good"
  /\ UNCHANGED <<fixed, webhooks, queueVars, slotVars, boot, active, threads,
                 reboot, stimuli, ghosts>>

HeapLow ==
  /\ program = "std"
  /\ ~low_heap
  /\ Stimulus
  /\ low_heap' = TRUE
  /\ UNCHANGED <<fixed, webhooks, queueVars, slotVars, wifi, station, uptime, main,
                 reason, active, threads, reboot, ghosts>>

Tick == TickSnapshot \/ (\E high \in BOOLEAN : TickUpdate(high)) \/ TickEmit

Clear == ClearRead \/ ClearUpdate \/ ClearEmit

Write == (\E ws \in WebhookLists : ReplaceWebhooks(ws)) \/ ReplaceEmit

Next ==
  \/ \E ok \in BOOLEAN : MainLoop(ok)
  \/ Tick
  \/ Clear
  \/ Write
  \/ \E kind \in TestKinds : WebhooksTest(kind)
  \/ Worker
  \/ OtaBegins \/ OtaFails \/ OtaCompletes \/ WriteImageCompletes
  \/ OtaReboot \/ Crash
  \/ WifiChanges \/ HeapLow

\* Threads go on with what they have begun, and a request ends: every one
\* has a timeout.
Fairness ==
  /\ WF_vars(Worker)
  /\ WF_vars((\E high \in BOOLEAN : TickUpdate(high)) \/ TickEmit)
  /\ WF_vars(ClearUpdate \/ ClearEmit)
  /\ WF_vars(ReplaceEmit)
  /\ WF_vars(OtaReboot)

Spec == Init /\ [][Next]_vars /\ Fairness

-----------------------------------------------------------------------------
(* Properties.                                                             *)

\* Every receiver gets the events it is subscribed to, in the order they were
\* emitted and once each, whatever the other receivers answer and however
\* the configuration changes: when the worker is free, it has been sent just
\* the events taken while it was subscribed, save those its own webhook does
\* not allow to go out, and those a reset interrupted.
DeliveredOnce ==
  \A h \in Hooks :
    /\ Increasing(sent[h])
    /\ \A i \in DOMAIN sent[h] : \E j \in DOMAIN due[h] : due[h][j] = sent[h][i]
    /\ job = Free /\ (\A ws \in WebhookLists : \A i \in DOMAIN ws :
                        ws[i].name = h => GoesOut(ws[i]))
         => \A j \in DOMAIN due[h] :
              due[h][j] \in mail.dropped \/ \E i \in DOMAIN sent[h] : sent[h][i] = due[h][j]

\* The news of a flow alarm does not stay in the device: its event has been
\* handled in the end, unless it met a full queue or a reset.  (In the
\* embassy firmware's access point mode nothing is ever sent.)
AlarmIsHeard ==
  (fires # {} /\ station) ~> (fires \subseteq handled \cup mail.dropped)

\* What was last told is what is: when the alarm is latched and nobody is in
\* the middle of changing that, the last alarm event was its firing -- unless
\* a clear and an alarm overlapped, which read and reset the latch under two
\* locks.
LatchIsAnnounced ==
  active /\ tick.pc = "idle" /\ clear.pc = "idle" /\ ~overlapped => told = "fire"

\* The image that runs stays whole, whatever is uploaded and however often,
\* also in the moment between an upload and its reboot: a device that runs
\* can boot again.
RunningIsKept == image[running] # "torn" /\ image[BootSlot] # "torn"

\* An image that cannot get onto the network is never confirmed by the std
\* firmware, and the reset after it brings the previous image back: while it
\* runs unconfirmed, the other slot is there to return to.
BadImageLeft ==
  program = "std" =>
    /\ ota[selected] = "valid" => image[selected] # "bad"
    /\ image[running] = "bad" => BootSlot # running /\ image[BootSlot] = "good"
=============================================================================
