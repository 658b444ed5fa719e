# Verification of watercontroller

TLA+ models of the *watercontroller* firmware: a motorised water valve with a
drain, two sprinklers, a flow-rate alarm and a schedule, on an ESP32, with a
web API, MQTT, webhooks and a serial console around them. The logic is in
`src/crates/core` (portable, tested on the host). Two firmwares embed it:
`src/crates/firmware` (ESP-IDF, std, one OS thread per task) and
`src/crates/firmware-nostd` (Embassy, cooperative tasks); `src/crates/host` is a
simulator for development.

The models are checked by TLC on small instances (the `.cfg` files), and the
theorems of the `*Proofs` modules by TLAPS for every value of the constants.
Every definition that models code is tied to its source lines in
`PROJECT.json` ("map"), which also lists the hazards the properties are aimed at.

## 1. Inventory

| component | state | operations | shared with | what makes it correct |
|---|---|---|---|---|
| water valve sequencer (`core/water_valve.rs`) | `user_state`, phase (idle, turning on, turning off, draining) with its start, timing | `turn_on`, `turn_off`, `set_timing`, `restore`, `tick` | everything that commands the water, through a lock in `App` | settle, pulse and drain windows; busy while moving; ends |
| valve drive (`core/app.rs`, the tick loops of both firmwares) | the valve's lock, the last persisted state, the three output pins | `switch_command`, `App::tick`, NVS write, three pin writes | tick thread, HTTP(S), console, MQTT and schedule threads | never both coils; dead time on reversal; drain off while the motor runs; state survives a reset |
| flow-rate alarm (`App::evaluate_flow_alarm`) | last evaluation, elapsed seconds, latch, history, the stored history | evaluate (once a tick), clear, boot | the state lock, the configuration lock, the valve | neither early nor missed; a latched alarm closes the water; history is the newest fires |
| sprinklers (`core/switch.rs`, `App`) | on, activation time, auto-off, override | set, scheduled fire, `set_auto_off`, tick; the pin | as the valve | a limited run ends; not early; pin follows |
| schedule (`core/schedule.rs` and its task) | `last_local` | `evaluate_range` over `(last, now]`, fire | local wall clock, sprinklers, valve | every due minute once |
| configuration (`core/config.rs`, HTTP handlers, console, `replace_config`) | NVS copy, memory copy, the components' live copies, the WiFi supervisor's list | copy, merge secrets, save, push live, replace; factory reset; load and key generation at boot | all threads | what is in effect was saved; copies agree; secrets survive redaction |
| WiFi supervisor (`firmware/net_wifi.rs`) | network list, rescan signal, one-slot scan request, beacon flag, the driver | `connect`, `reconnect`, `scan`; the supervisor's loop: try, stay linked, back off, serve the access point | HTTP threads, console, the driver's event task | a new list and a reconnect are taken up; a dead link is left; scans do not block each other; a good network in the list is joined again |
| WiFi of the Embassy firmware (`nostd/main.rs`, `ap.rs`) | radio mode of this boot, position and failures of the round robin, a hint in flash | choose at boot, join in turn, fall back, scan, reboot to change | configuration, flash store | the user can always reach the device; a configured network in range is joined |
| flash store of the Embassy firmware (`nostd/nvs.rs`) | a map in RAM, two flash sectors | load, set, remove, flush (erase, write) | configuration, boot mode | what was set is read again; corruption is an empty store |
| MQTT (`core/mqtt_dispatch.rs`, `firmware/mqtt_client.rs`, `nostd/mqtt.rs`, the supervisor in `firmware/main.rs`) | client and its connected flag, back-off, handler, subscriptions at the broker | connect, announce, subscribe, publish, receive, reconnect | configuration, WiFi state, components | commands arrive while the device publishes; a good link is found again; the state shown is the device's |
| Home Assistant discovery (`core/ha_discovery.rs`) | none | the entities and their topics | MQTT | what is announced is what is published and subscribed |
| webhooks (`core/webhook.rs`, three dispatchers) | bounded queue of events, the event being sent | enqueue or drop, look up subscribers, send | alarm, configuration, main loop | in order, once per subscriber, nobody blocked by another's failure |
| OTA (`net_ota.rs`, `nostd/ota.rs`, `POST /api/ota`, main loop) | two slots, otadata, uploads under way | write, select, reboot, confirm, roll back | main loop, WiFi state | the device can always boot; a bad image is left |
| sensors (`hw_pcnt.rs`, the sensor thread, `nostd/sensors.rs`) | 16-bit hardware counter, running total, battery window | sample, report | alarm, device state | no pulse lost or invented; a report is about its own interval |
| log buffer and telnet | ring, subscriber channels | append, subscribe, replay, drop | all threads | order |
| HTTP servers, console | none of their own besides a request | call `App` | `App` | modelled as the callers in the component modules |

How they interact: every command source holds an `Arc<App>` and calls the same
methods. `App` has **one lock per part** (valve, sprinkler 1, sprinkler 2,
state, configuration, alarm) and never holds two, so a method that touches
several parts is a *sequence* of atomic steps, and time is often read before
the first lock is taken. The tick thread calls `App::tick` and then writes the
pins one by one. These are the atomic steps of the models.

What is hard here: values read before one lock and used under the next; the
tick's delay against windows of a second; timing and configuration changed
under a running sequence; a reset between any two steps; NVS writes that fail; a
wall clock that is stepped; refused ("busy") commands that nobody retries.

## 2. Modules

| module | models | role |
|---|---|---|
| `WaterValve` | `water_valve.rs` | operators, one per method, on a record |
| `ValveDrive` | `App`'s valve part, tick loop, pins, NVS, reset, in real time | state machine; uses `WaterValve` |
| `MotorInterlock` | what the motor may rely on | abstract specification |
| `AbstractValve` | the four-state water control users see | abstract specification |
| `TimedSwitch` | `switch.rs` | operators, one per method |
| `SprinklerDrive` | one sprinkler, command to pin | state machine; uses `TimedSwitch` |
| `FlowAlarm` | the alarm, its history, clears, commands, configuration changes, resets | state machine |
| `Schedule` | rules, `evaluate_range`, the firing task, the wall clock | state machine |
| `ConfigStore` | configuration writers, copies, factory reset, boot | state machine |
| `WifiSupervisor` | the WiFi thread, the calls on it, and the radio | state machine |
| `WaterMeter` | pulse counter, both sensor loops, both battery windows | state machine |
| `FlashKv` | the Embassy flash store | operators and steps on its three variables |
| `EmbassyBoot` | radio mode, joining, fallback, portal and scan of the Embassy firmware | state machine; uses `FlashKv` |
| `MqttLink` | the MQTT tasks of both firmwares, the client and the broker, discovery topics | state machine |
| `WebhookQueue` | queue and worker of the three programs | steps on its variables |
| `OtaSlots` | slots, otadata, uploads, bootloader | steps on its variables |
| `DeviceEvents` | main loop, alarm latch, configuration write and webhook test as producers of events; updates and resets | composes `WebhookQueue` and `OtaSlots` |
| `Selection` | what loops over a list collect: `retain`, `filter`, a push in an inner loop | operators, used by `Schedule`, `ConfigStore` and `WebhookQueue` |
| `MC*` | values for TLC | |
| `ValveDriveProofs`, `WateringProofs` (sprinkler and schedule), `FlowProofs` (alarm and meter), `ConfigStoreProofs`, `NetworkProofs` (both firmwares' WiFi), `MqttLinkProofs`, `DeviceEventsProofs`, `SelectionProofs` | theorems | |

Where one proof module extends two state machines, the second one's
specification has a name of its own: `ScheduleSpec` beside the sprinkler's
`Spec`, `MeterSpec` beside the alarm's, `BootSpec` beside the supervisor's.

### Valve

`ValveDrive` has real time (`clock`). A commander first reads the time
(`CmdRead`: the `now_ms` at the top of `switch_command`) and then takes the
lock (`CmdExec`), up to `CmdLag` later. The tick reads the time
(`TickRead`), ticks the valve under its lock (`TickValve`), writes a changed
state to NVS, which may fail (`TickPersist`), and writes `open_motor`,
`close_motor` and `drain` one at a time (`SetPin`), all within `TickLag`; the
next tick begins at most `TickGap` after this one began. A new timing may come
at any moment (`ReplaceTiming`). `Crash` loses everything but NVS and drops the
pins; the boot restores `user_state`. `Advance` lets time pass, but starves no
thread beyond its lag. `roseAt`, `fellAt` and `retimed` are history variables.

`MotorInterlock` promises that at most one coil is driven, and that a coil is
driven only when every other one has been released for a dead time (the settle
window less the two lags). `AbstractValve` promises two settled states, one
transition each way that nothing interrupts but a reboot, and a stored copy of
the settled state that a reboot brings back. `FlowAlarm` and `Schedule` use
`AbstractValve` as their valve, which the refinement justifies.

### Sprinklers

`SprinklerDrive` has callers with stamped commands (manual with the configured
limit, scheduled with a limit of its own), changes of `auto_off`, and the tick, which
calls `TimedSwitch::tick`, later reads the state *again* and later still writes
the pin. One sprinkler is enough: two share no lock and no state.

### Flow alarm

An evaluation is several steps, with the locks of the code between them:
the elapsed whole seconds and the configuration (`EvalDelta`), the snapshot of
flow and latch (`EvalSnapshot`), the update of the shared state from that
snapshot (`EvalUpdate`), the history and its NVS write (`Record`), the close
command (`Close`). Clears (in two steps, as `clear_flow_alarm` takes two
locks), user commands and resets come between any two; the flow, the
sprinklers, the enabling and the duration are inputs of the step that reads them. The history variable
`streak` is the time since the last evaluation that had nothing to count;
`fires` and `expected` are what the stored history is compared with.

### Schedule

Time is the local clock, in units smaller than a minute; `StepClock` is an SNTP
correction or a daylight-saving change. The task sleeps unit by unit (`Sleep`), reads the clock and
evaluates (`Evaluate`) whatever the valve is doing, and fires hit by hit; the user, the broker or the
alarm may move the valve at any moment (`OtherCommand`). A sequence of the valve takes up to
`LongestMove`, as `SequenceBounded` of `ValveDrive` bounds it; `motor_run_secs` is not limited
by the code, so it may outlast the sleep, and a command may meet the sequence
of an earlier window. `since` is the time since the valve was last set moving, whoever did. `EvaluateRange` is the loop of
the code, minute by minute with its cap and rule by rule, and is compared with the set of
rules whose minute begins in the time passed (`DueBetween`). Its two nested loops are
`SelectIn` and `Joined` of `Selection`: recursive functions and not `RECURSIVE`
operators, so that theorems can be proved of them. `MCSchedule` checks them
against `SelectSeq` and `FlattenSeq` of the community modules on short lists (`LoopsCollect`). `to_local` is modelled by
the steps it causes.

### Configuration

A writer is a thread in a handler: copy the configuration, merge the request
into the copy (redacted secrets restored from the copy), save to NVS (may
fail: the request ends), push the two switch settings and the valve's timing,
one lock each, replace the memory copy. `PUT /api/config/wifi` informs the WiFi
supervisor *before* the save; the console's `wifi` commands *after* the
replacement; `PUT /api/config` never. Factory reset erases, and reboots later.
A boot loads what is stored, or the default, and generates and saves a TLS key
when there is none. History variables record which configurations were
accepted, whether two writers ever overlapped, and whether the supervisor was
left out.

The Embassy firmware's handlers run from the copy to the replacement without an `await`, so
its writers do not overlap: its behaviours are those with one writer.
Sections without secrets are represented by `switches`; secrets outside lists by
the TLS key.

### WiFi

`WifiSupervisor` has the supervisor's thread as a program counter with its
locals (`sup`), the callers of the `Wifi` trait, and the radio. The steps are
the lock sections of the code: `Copy` and `Reset` at the head of the loop, `Connect` and
`Signal` of one `connect()`, the taking of a scan request and its answer, a
caller's timeout and its clearing of the slot. The connected loop's
check, sleep and probe are one step (`LinkedCheck`), since nothing it reads twice lies
between them. `link` is what the link really is: `"ghost"` is the state the code's comments
describe, reported as connected by the driver with no data path; `BeaconTimeout` may or
may not report it. A link without a gateway's address, or whose probe
fails although it works, is among the behaviours. The errors of `is_started()` and
`wifi.stop()` are ignored by the code, so `Stop` may leave the driver and its link as they are;
the driver is then configured while it runs, which may go well, fail, find the old association, or
panic (`DriverPanics`, as the comments of `try_connect_sta` and `start_ap` tell): the chip resets.
`TooLong` are the networks whose name or password does not fit the driver's type: they are passed
over without an attempt. `GoodNetworks` are those an attempt may always succeed on. `run_ap_fallback` and `known_ssid_visible` are
called by nothing and not modelled; the file's header still promises them.

`NewListPending` has an exception, in the history variable `overtaken`: the
supervisor copies the list and resets `rescan_signal` under two locks, and a
`connect()` that falls between them is lost, its signal wiped out by the
reset. The supervisor then keeps the old list while that network is up, or the
access point if the old list was empty, until the next `reconnect()`, change or loss of the link. Resetting the
signal before the copy would remove the exception.

### Water meter

One pass of a sensor loop is one action, with the pulses that came since the
pass before. `fw` says which firmware runs. The std firmware's register
restarts from 0 at its high limit and is read through `count()` once per
report; a read may fail, and then counts as 0 (`StdFlowPass`). The Embassy
register is an `i16` that wraps, read every second and subtracted with
`wrapping_sub`. `seen`, `unread`, `good_raw`, `lapped`, `allowance` and `reports` are what really
happened. The property `TotalIsTrue` says how far the total can be off: `count()`
takes a lap for one pulse longer than it is, and a failed read adds a lap
that never was. Battery samples are their positions in the sequence of samples, so
the two windows (a queue, and an array written round and round) can be compared
with "the newest 15".

### Embassy boot and flash store

A boot is one step (`BootFrom`): it loads the store, the configuration and the
hint, and brings up one radio mode. A set of the store changes the map
in RAM and then flushes it, in two steps (`FlushErase`, `FlushWrite`), because
the power may fail between or in them; `flush.then` is what the caller does after it. What a
failed or interrupted flush leaves in flash is `Interrupted`: the old contents, an
erased region, or a torn one. Parsing a torn region panics (`Loads`), and the
panic handler resets the chip: `PanicLoop`. A configuration may be too big for the
region (`TooBig`).

### MQTT

The std supervisor's steps are those between which other threads may run: the
poll, the three parts of `EspMqtt::connect`, the 3 s pause, the second reading of the
flag, `on_connect` subscription by subscription, the publishing loop. The client of
the ESP-IDF (external) connects, loses the link, and reconnects after its own pause
with a clean session, at any time. The Embassy task runs a session at a time.
Time is in units of the sleeps, counted down while the task waits. Topics are
records of a base, a key and a suffix; the discovery messages are the entities with their
topics, so that what Home Assistant is told can be compared with what is subscribed and
published.

### Events and updates

`DeviceEvents` runs in the std firmware, the Embassy firmware or the host
simulator (`program`). Emitting is `try_send`. The worker takes one event, looks
up the subscribers in the configuration of that moment and sends them one request
each. The alarm's tick and its clear are cut at their locks; the flow and the
elapsed time, which `FlowAlarm` has, are an input here, and so is the rule's
being enabled. In the Embassy firmware no task gives way inside these.

A slot holds a good image, a bad one (it runs but never gets onto the network)
or a torn one. The std firmware takes one upload at a time; the Embassy web
server runs three connections, whose uploads may overlap and mix. Completion selects the
slot written (std) or the one after the selected one (`activate_next_partition`). The
bootloader tries a new image once and returns to the other slot unless it
was confirmed: by the main loop after a minute with WiFi (std), or first
thing at boot (Embassy).

## 3. Runs

| run | cfg | result | shows |
|---|---|---|---|
| `valve` | `ValveDrive` | pass | refinement of `MotorInterlock` (never both coils, dead time on reversal) and of `AbstractValve`; `DrainOffWhileMoving`, `CoilOnTime` (a coil is on no longer than the longest pulse and the delays), `PulseDelivered` (an undisturbed sequence delivers its pulse), `SequenceBounded`, `FailedSaveIsRetried` |
| `flow_alarm` | `FlowAlarm` | pass | `NotEarly`, `NotMissed`, `LatchedCloses` (liveness), `HistoryIsNewest` |
| `sprinkler` | `SprinklerDrive` | pass | `RunIsLimited`, `NotCutShort`, `PinFollowsSwitch` |
| `schedule` | `Schedule` | pass | `FiredOnce` and `WaterFollowsSchedule`, when the clock only steps forward, with sequences of the valve longer than the sleep and other commands in between |
| `config_store` | `ConfigStore` | pass | `EffectiveWasSaved`, `CopiesAgree`, `RoundTrip`, `ResetForgets` |
| `wifi` | `WifiSupervisor` | pass | `NewListPending`, `SlotIsLive`, `GhostIsLeft`, `SignalIsServed` and `ListIsJoined` (liveness), with two callers and a driver that may not stop |
| `water_meter` | `WaterMeter` | pass | `TotalIsTrue`, `FlowIsReal`, `BatteryIsNewest`, over several turns of the register and failed reads |
| `embassy_boot` | `EmbassyBoot` | pass | `FallbackTriedAll`, `NeverStranded`, `JoinsInTheEnd` (liveness), over reboots, failed and interrupted flushes |
| `mqtt_link` | `MqttLink` | pass | `FlagIsFresh`, `SubscribedWhileServed`, `Recovers` and `StateIsShown` (liveness) |
| `device_events` | `DeviceEvents` | pass | `DeliveredOnce`, `AlarmIsHeard` (liveness), `LatchIsAnnounced`, `RunningIsKept`, `BadImageLeft` |
| `flow_alarm_fast_tick` | `FlowAlarmFastTick` | violation | with the 10 ms tick of the std firmware every evaluation adds 0 s and the alarm never fires |
| `flash_torn` | `FlashTorn` | violation | a power loss during a flush leaves the Embassy firmware in a panic loop, where a comment says the store is taken for empty |

The two violations are disagreements between the code and a comment in it, quoted
in `PROJECT.json` ("findings"). Other things seen while modelling, for
which no run is kept:

* Valve: no recovery sequence is driven after a reset in mid-pulse, though
  `core/app.rs:31-34` says so: the boot restores `user_state` and stays idle. With a tick as
  long as the settle window, as the 1 Hz tick of firmware-nostd (`TickGap = SettleMs`),
  `DrainOffWhileMoving` does not hold, because the first tick of an opening that
  cuts a drain phase short may already be in the motor window and the drain's pin is
  written last.
* Schedule: `last_local` follows a clock that is stepped back, and the repeated minutes fire
  again, though `nostd/schedule.rs:6-7` says they do not. The outcome of a
  scheduled water command is dropped: an off command that meets a moving valve, set in motion by
  a rule of the same window, by one of an earlier window if the motor runs for longer than the sleep, or by
  someone else, is refused as busy and lost, and the water stays on. `WaterFollowsSchedule` excepts
  the commands that come `tooSoon` like this, and shows that there are no others. The std firmware never
  starts SNTP.
* Configuration: two overlapping writers can leave a component with the one's value
  and the configuration of the other, since `replace_config_section` takes
  four locks in turn; `CopiesAgree` is about writers that do not overlap. The per-section
  PUT handlers call `replace_config`, whose event says "all", although
  `core/app.rs:240-243` says they pass their section. Two networks with the same
  SSID both get the first one's password on a merge; `RoundTrip` is therefore
  about lists with distinct SSIDs.
* WiFi: a `stop()` that fails goes on to `set_configuration` on a running driver, which the comments
  beside it say panics. When the access point cannot be started the supervisor enters its loop all the
  same and the reported state stays what it was; a scan that times out may
  clear another caller's request, which then fails at once.
* Flash store: the map in RAM keeps a value whose flush failed. A configuration PUT
  answered with an error is written by the next flush, and one that is too big
  makes every later flush fail, the boot-mode hint's included, until it is replaced or the
  device resets.
* Embassy WiFi: with its list emptied the station waits for good (`nostd/main.rs:632`); with
  a wrong password for a network in range it goes back and forth between station and
  portal; if the radio refuses the access point's configuration, `scan_task` ends and only a
  reset helps.
* MQTT: a base topic changed while connected moves the std firmware's publications but
  neither subscriptions nor discovery, until the next connection; `loop_time` is announced
  and never published; the Embassy firmware publishes one of the nine
  sensors announced; its 5 s wait starts anew with every message received.
* Events: a clear and an alarm that overlap (`overlapped`) can leave the latch set and
  the clear announced last, or the reverse. `ota.completed` is emitted a minute after every boot, and
  also when marking the slot failed. `main.rs:308` says WiFi must have been connected
  "once"; the code asks whether it is at that very poll. In the Embassy access
  point mode nothing takes events from the queue.
* OTA, Embassy: a second upload before the reboot selects the old slot again (`activate_next_partition`),
  though the comment says "the freshly-written slot"; and overlapping uploads mix. The
  device still boots (`RunningIsKept`), given a bootloader that checks images.

### Bounds, and why they are enough

* **Time units.** Only the order of windows and lags matters, so windows are two
  to four units. `SettleMs = 3 > TickGap + CmdLag` in `valve` is the relation the std
  firmware has (1000 ms against 10 ms and a lock's wait). `Second = 2` lets a tick be a whole
  second, one and a half, or (fast tick) half a second.
* `MaxClock` (valve, sprinkler) bounds the observation, long enough for a full
  sequence, a change in it, a crash and another sequence. The timings include
  a pulse of 0 and a drain of 0, and differ by more than the settle window.
* `MaxStreak`, `MaxElapsed`, `MaxFires`, `HistoryCap` (alarm): the streak
  saturates above every threshold a property compares it with; the elapsed
  counter saturates one above the longest duration as `u32::MAX` does; three fires
  overflow a history of two.
* `MaxLocal`, `MaxSteps`, `MaxIters` (schedule): two forward steps over a
  day and a third, of three hours of four minutes; windows stay below the cap, as a
  daylight-saving step stays below 25 h. `LongestMove = 4` is longer than either sleep (1 or 2) and
  than a minute (3), so that a sequence spans windows and rules. The theorems have no such bound.
* WiFi: two callers, lists of no, one and three networks (the next network after a failed or
  a refused one, the access point, and every change among them); one of the networks is good.
  `ProbeEvery = 2` stands for 12 sleeps between probes and `ProbeLimit = 2` for 3 failures; nothing
  else is bounded, the state space is finite by itself.
* Water meter: a register of 12 values and up to 3 pulses a pass, so that it
  turns several times within `MaxNow`; at most one lap between two good reads, which a
  pipe of this size cannot exceed in a minute.
* Embassy boot: a joinable and an unjoinable network, lists without, with one and
  with both, one of them too big; `Passes = 2` for 3; one user request and one
  power loss, at any step.
* MQTT: two base topics, two switches; the back-off doubles twice (2, 4, 8 units of
  2.5 s) and the broker may take longer than the first (`ConnectTime = 4`), which is the case
  it is for. One configuration change.
* Events: queues of 2 (1 in the Embassy program) for 16 (8), so that they overflow;
  two receivers, one subscribed to everything and one to the alarm; three stimuli (alarms, clears,
  writes, tests, uploads, crashes, low heap) in any order. When they are used up the
  model may stop, so deadlock is not checked in this run.
* `MaxRequests = 2` (configuration): two requests in all, so that every pair
  of handlers interleaves at every lock with crashes and failed saves. The
  theorems have no such bound.

### Fairness

`LatchedCloses`: weak fairness of the tick's steps: the tick loop of
both firmwares never ends. Strong fairness of the completion of a valve
movement: a sequence that is under way ends within a bound, which is
`SequenceBounded` of `ValveDrive`, proved. Nothing is assumed of users, of
the flow or of resets, and the property is conditional on them.

`SignalIsServed`: weak fairness of the supervisor's thread, which loops for
ever and whose waits (sleeps, a scan, a connection attempt, a probe) all have time limits.
Nothing is assumed of the radio, and of callers only that a `connect()` between its two locks goes on.

`ListIsJoined`: besides these, strong fairness of a driver that stops and of an attempt that succeeds:
a driver that is told to stop for a good network again and again does so for once (`StopsForGood`), and a
good network that a stopped driver tries again and again is joined for once (`JoinsGood`). The
property is conditional on a list that keeps a good network, and on not being `overtaken` for good.
Without the stop before the configuration (its mutant) the driver may never be in a state from which
joining is certain.

`NeverStranded`, `JoinsInTheEnd`: weak fairness of the tasks, which poll for ever, and
strong fairness of what is tried again and again: a flush that can succeed,
and joining a network that is in range with the right password. Networks come and go
as they like; the properties are conditional on them.

`Recovers`, `StateIsShown`: weak fairness of threads and time; strong fairness of
an attempt (memory is not short every time it is looked at) and of the creation of a client. A
good broker answers within `ConnectTime` (below the longest back-off).

`AlarmIsHeard`: weak fairness of the worker, whose requests have a timeout, of threads
in the middle of a method, and of the reboot that was asked for.

All other properties are safety properties.

## 4. Proofs

All proofs use only the named `ASSUME`s of the constants' types and the
inequalities stated with a theorem. Every invariant that a run checks is proved, every action
property, and both refinements; of the runs' properties only the liveness ones are
left to TLC. The hypotheses of the theorems, and where they come from:

| theorem | hypothesis | why the code justifies it |
|---|---|---|
| `BoundedSequence` | `CmdLag <= SettleMs` | a command waits for a lock for less than a second |
| `DrainIsOff`, `PulseIsDelivered` | `CmdLag + TickGap < SettleMs` | 10 ms tick against 1000 ms in the std firmware. The Embassy tick is as long as the settle window: there the theorems say nothing, and `DrainOffWhileMoving` does not hold (section 3) |
| `AlarmNotMissed` | ticks at least a second apart | true of the Embassy firmware; without it the fast-tick run is the counterexample |
| `FiresOnce` | `WithinCap`: the clock only steps forward, and a sleep with all the steps fits into the cap of `evaluate_range` | the cap is 25 h, "to defend against extreme jumps"; a step backwards repeats minutes (section 3). The model counts all the steps of a run together, the code only those between two evaluations |
| `OnceAndInOrder` | `NamedOnce`: no list names a receiver twice | in the model a receiver *is* the name of a webhook, so two entries have two names |

The instances that TLC checks satisfy the hypotheses.

**`ValveDriveProofs`**: `TypeCorrect`, `MutualExclusion`, `ReversalDeadTime`,
`InterlockRefinement`, `ValveRefinement`, `BoundedSequence`, `SavesAreRetried`,
`DrainIsOff`, `PulseIsBounded`, `PulseIsDelivered`, for every settle
window, set of timings, lags and number of commanders. Mutual exclusion is not
inductive: between two writes the pins are a mixture of two ticks, and a command or a
new timing may have changed the sequence since the tick looked at it. The
invariant says how old any clock reading in use can be (`TimeInv`), and ties
every coil that is on, or that the current tick has still to write, to the
sequence or to the last release of the opposite coil. A reversal needs a new
sequence, whose start is at most `CmdLag` in the past: the dead time
follows. `ValveRefinement` needs that `user_state` is where a sequence started from
(`UserInv`), `BoundedSequence` that a tick which left a sequence under way read the
clock before its end (`BusyInv`). `DrainIsOff` needs
that a drain which is on when a sequence starts is looked at again before the settle
window has passed (`DrainInv`);
`PulseIsBounded` how old the tick is that last asked for a coil which is on (`PulseInv`).
`PulseIsDelivered` is the converse bound, from below: `Delivery` follows a coil through the
window of its sequence (off before it, on from its first tick, released after its last),
separately for a tick that sleeps, that is evaluating and that is half-way
through its pin writes. The hypothesis keeps the window ahead of the tick that is under
way when the sequence starts.

**`SelectionProofs`**: what a loop over a list collects, for every list:
`SelectInSelects` (`SelectIn` has exactly the elements inside the set, in their order) and `JoinedCollects`
(`Joined` has every element of every part, and twice only what the parts have twice). These are inductions over data. The library's
induction theorems take an operator as a parameter, which the provers used here cannot
instantiate; the module states the least-number principle with *sets* instead
(`LeastNatural`, from well-foundedness), and derives from it an induction over the
prefixes of a sequence (`InductionUpTo`) and the existence of a recursive function
(`RecursionExists`). Only `RECURSIVE` operators stay out of reach, and no module has one.

**`WateringProofs`**, sprinkler: `TypeCorrect`, `LimitedRun`, `PinTracking`,
`FullRun`. `TimeInv` bounds the age of clock readings and relates `on_since` to
when the switch really changed; `RunInv` says that a tick that left the switch
on did so before its limit; `PinInv` that what a tick has read and written is the
switch's state unless it changed after the tick began.

**`WateringProofs`**, schedule: `FiresOnce` and `WaterFollows`, for every list of rules,
calendar and sequence of steps of the clock. `EvaluateOnce` says what `EvaluateRange` returns for a
window below its cap: each rule that falls due in it, once. `FiredInv` joins
the windows: what was fired and what is still to be fired are together what fell due
up to the end of the last window, and share no hit; the distance of the clock from that end is bounded
by the steps taken, which keeps the next window below the cap. `WaterInv` says that a valve which
moves was set moving at most `LongestMove` ago, so that a command that comes later finds it at rest
and is obeyed, and that from then on the valve is, or is on its way to be, as asked: for every
length of a sequence, every sleep and whatever others command in between.

**`FlowProofs`**, alarm: `TypeCorrect`, `AlarmNotEarly`, `AlarmNotMissed`,
`HistoryCorrect`. `ElapsedInv` bounds the counted seconds by
the streak from above, `LateInv` from below (a tick of a second to less than two
counts at least half of it, hence *twice* the duration in `NotMissed`);
`HistoryIsNewest` is inductive with the stored copy's relation.

**`FlowProofs`**, meter: `TrueTotal`, `RealFlow` and `NewestBattery`, for every width of the
register, period and window. `RegisterInv` ties the register to the last good
reading and the pulses since, once round or not; `TotalInv` says how far ahead the total is
after failed reads: a failed read counts a lap less the last reading, which the
next good one then counts again. `WindowInv` says which sample each place holds: the
std firmware's queue the newest ones in order (`Queue`), the Embassy firmware's array the lap under
way up to the position and the lap before behind it (`Ring`); both are the newest
`BatteryWindow`.

**`ConfigStoreProofs`**: `TypeCorrect`, `SaveComesFirst`, `QuietAgreement`, `CleanReset`,
`SecretsSurvive` and `RedactionRoundTrip` (a lemma on the merge, for every list of networks with
distinct SSIDs), for any number of writers and requests. `Shape` says what a writer holds at each
step; `SavedInv` that whatever is being pushed, or is in effect, was accepted by NVS;
`QuietInv` that as long as no writers overlapped, the writer under way is the
only difference between the copies. `SecretsSurvive` is about every configuration that can come about,
hence needs that merge, console edits and removal (`SelectIn`) yield configurations: `TypeCorrect`.

**`NetworkProofs`**, std firmware: `TypeCorrect`, `ListIsPending`, `LiveSlot`,
`GhostLinkLeft`, for every set of lists, number of callers, probe
rhythm and limit. One inductive invariant carries them: `SlotIsLive` needs that
a caller whose channel is being served is waiting and has none in the slot (`ServingInv`);
`GhostIsLeft` that the sleeps on a deaf link are at most `ProbeEvery` for each failed
probe and the sleeps since the last one (`DeafInv`).

**`NetworkProofs`**, Embassy firmware: `BootTypes` and `TriedBeforeFallback`, for every set of
networks and lists and every number of passes, over failed and torn flushes, resets and
power losses. That `3 * len` failures mean three attempts on *every* network is an
arithmetic fact about the position, which is kept across joins and changes of the list.
`EvenTries` states it for any position: the failures in a row are at most the attempts on the network
in a place, times the length, plus `len - 1` less the attempts until that place is next
(`OneMoreFailure` is its step). A list put in place while failures are counted would break it;
`TaskInv` rules that out, because the list is only replaced after a flush
that a request through a link or the portal began, and no attempt is made, so no failure counted,
while that flush is under way.

**`MqttLinkProofs`**: `FreshFlag`, `CommandableSwitches`, for every list of switches and
every timing in which the client's pause is longer than the publishing period.
`FlagInv` says that the flag can outlive its client only between dropping it and
clearing the flag; `LinkInv` that a link lost under the task cannot be back before the
task looks at the flag again, so that it never publishes over a session without
its subscriptions; `ProgressInv` and `SubscribedInv` what `on_connect` has done so far.

**`DeviceEventsProofs`**: `KeptImage`, `RolledBack`, `AnnouncedLatch`, `OnceAndInOrder`, for any number of
clients, uploads, alarms, resets and receivers, and every queue capacity. `TrialInv` says that a slot
runs confirmed, and then
its image is good, or on trial, and then it is the selected one, nothing is being uploaded
and the other slot is good; `LatchInv` where tick and clear can be as long as they
have not overlapped. `OnceAndInOrder` needs that the queue is in order and that everything taken from it was emitted
before what is in it (`MailOrder`, `TakenBefore`), that the receivers still to be served are due
the event in hand and were sent nothing as new (`JobInv`), and that whatever a receiver is due was
sent, is about to be, or met a reset (`PendingInv`).

**Only model-checked**: liveness under fairness, which the provers do not reach (`LatchedCloses`,
`SignalIsServed`, `ListIsJoined`, `NeverStranded`, `JoinsInTheEnd`, `Recovers`, `StateIsShown`, `AlarmIsHeard`). That
`Torn` is what an interrupted flush may leave, and not more, is a matter of the model of
the flash, not of a theorem.

## 5. Not modelled, and why

* The log buffer and its telnet readers: text lines nothing else depends on.
* HTTP and console parsing, authentication, templates, mDNS, captive DNS and DHCP,
  certificates: formats and input/output; what the requests do to the state is in the
  component models.
* The wording of discovery messages: only the entities and their topics are modelled.
* Calibration: floating-point interpolation; pressure, which is read and shown.
* The std firmware's NVS, a library: a write is atomic and may fail.
* A stored configuration that does not parse.
* The host simulator's fakes.

## 6. Plan

Done: every component with state of its own but the log buffer. Next:

1. Theorems: the safety half of the liveness properties (for `LatchedCloses`, that the close
   command of a latched alarm is repeated until the valve takes it; for `NeverStranded`, that
   a boot with the hint of a fallback is in the portal); the liveness theorems themselves are
   out of the provers' reach.
2. Abstract specifications: an atomic configuration register implemented by
   `ConfigStore` with one writer; a lossy first-in-first-out channel implemented by `WebhookQueue`.
3. `LogBuffer`: replay then live, drops of a slow subscriber.
