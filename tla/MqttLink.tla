------------------------------ MODULE MqttLink ------------------------------
(***************************************************************************)
(* The MQTT link of both firmwares, and what Home Assistant sees of it.    *)
(*                                                                         *)
(* std: the supervisor thread (spawn_mqtt_supervisor) polls every 5 s,     *)
(* builds an EspMqtt client under an exponential backoff, and once the     *)
(* client's callback has raised the connected flag runs on_connect and     *)
(* publishes the state every 5 s until the flag falls.  The ESP-IDF client *)
(* reconnects on its own, with a clean session, so the broker has          *)
(* forgotten the subscriptions when the link is back.                      *)
(*                                                                         *)
(* embassy: mqtt_task runs one session after the other, each on a socket   *)
(* of its own; any error ends the session.                                 *)
(*                                                                         *)
(* Topics are records, payloads are left out but for the one bit of state  *)
(* a command changes.  The thread's own steps take no time against its     *)
(* sleeps, and other threads run between any two of them.                  *)
(***************************************************************************)
EXTENDS Naturals, Sequences

CONSTANTS
  Bases,           \* base topics the configuration may have
  SwitchKeys,      \* the keys of the switches, in on_connect's order
  Poll,            \* 5 s: the supervisor's sleep, and the publishing period
  Settle,          \* 3 s after a connect
  BackoffInitial,  \* 5 s
  BackoffMax,      \* 300 s
  ReconnectDelay,  \* 10 s: the ESP-IDF client's pause before it reconnects
  ConnectTime,     \* most time a connection to a good broker takes
  NoBase,          \* no handler, nothing announced
  MaxChanges       \* bound on configuration changes

ASSUME LinkAssumption ==
  /\ NoBase \notin Bases
  /\ SwitchKeys # <<>> /\ Len(SwitchKeys) \in Nat \ {0}
  /\ DOMAIN SwitchKeys = 1..Len(SwitchKeys)
  /\ \A i, j \in DOMAIN SwitchKeys : SwitchKeys[i] = SwitchKeys[j] => i = j
  /\ Poll \in Nat \ {0}
  /\ Settle \in Nat \ {0}
  /\ BackoffInitial \in Nat \ {0}
  /\ BackoffMax \in Nat /\ BackoffMax >= BackoffInitial
  /\ ReconnectDelay \in Nat /\ ReconnectDelay > Poll
  /\ ConnectTime \in Nat /\ ConnectTime < BackoffMax
  /\ MaxChanges \in Nat

VARIABLES
  fw,         \* the firmware the device runs
  mqtt,       \* the configuration: [enabled, base]
  net,        \* "off": no WiFi; "dark": WiFi, no broker; "good"
  pc,         \* the task's next step
  wake,       \* time left of its sleep
  pos,        \* subscriptions made by the on_connect under way
  base,       \* the base topic that on_connect read
  backoff,    \* backoff_ms
  since,      \* time since last_attempt, up to BackoffMax
  client,     \* the client or the session's socket
  timer,      \* client: time until it reconnects, or spent connecting
  connected,  \* the connected flag; MQTT_UP in the embassy firmware
  handler,    \* base topic of the installed handler
  state,      \* the state of the device
  changes     \* configuration changes so far

\* The broker, and for the properties whether a subscription was refused.
VARIABLES
  subs,       \* topics the session is subscribed to
  announced,  \* base topic of the retained discovery messages
  published,  \* the last state published: [topics, state]
  refused     \* a subscribe of this on_connect failed

task == <<pc, wake, pos, base, backoff, since>>
link == <<client, timer, connected>>
brokerSide == <<subs, announced, published, refused>>
world == <<fw, mqtt, net, changes>>
vars == <<task, link, handler, state, brokerSide, world>>

-----------------------------------------------------------------------------
(* Topics, discovery and dispatch.                                         *)

Topic(b, key, suffix) == [base |-> b, key |-> key, suffix |-> suffix]

SwitchCommandTopic(b, key) == Topic(b, key, "set")

StateTopic(b, key) == Topic(b, key, "state")

Switches == {SwitchKeys[i] : i \in DOMAIN SwitchKeys}

Sensors ==
  {"battery", "pressure", "water_flow", "water_total", "loop_time", "wifi_rssi",
   "free_heap", "uptime", "reset_reason"}

\* The entities of all_messages, as their retained configuration messages
\* describe them to Home Assistant.
SensorEntity(b, k) == [component |-> "sensor", key |-> k, state |-> StateTopic(b, k)]

BinarySensorEntity(b, k) ==
  [component |-> "binary_sensor", key |-> k, state |-> StateTopic(b, k)]

SwitchEntity(b, k) ==
  [component |-> "switch", key |-> k, state |-> StateTopic(b, k),
   command |-> SwitchCommandTopic(b, k)]

AllMessages(b) ==
  {SensorEntity(b, k) : k \in Sensors} \cup {SwitchEntity(b, k) : k \in Switches}
    \cup {BinarySensorEntity(b, "flow_alarm")}

\* The keys publish_state publishes, all sensors having a value.  The embassy
\* firmware publishes no sensor but the uptime, and neither the loop time.
StateKeys ==
  Switches \cup {"flow_alarm"}
    \cup (IF fw = "std" THEN Sensors \ {"loop_time"} ELSE {"uptime"})

\* parse_command: the switch a topic names, if it is one of this device's.
ParseCommand(b, t) ==
  IF t.base = b /\ t.suffix = "set" /\ t.key \in Switches THEN {t.key} ELSE {}

-----------------------------------------------------------------------------
Init ==
  /\ fw \in {"std", "embassy"}
  /\ mqtt \in [enabled : BOOLEAN, base : Bases]
  /\ net \in {"off", "dark", "good"}
  /\ pc = "sleep"
  /\ wake = IF fw = "std" THEN Poll ELSE 0
  /\ pos = 0
  /\ base = NoBase
  /\ backoff = BackoffInitial
  /\ since = 0
  /\ client = "none"
  /\ timer = 0
  /\ connected = FALSE
  /\ handler = NoBase
  /\ state \in BOOLEAN
  /\ changes = 0
  /\ subs = {}
  /\ announced = NoBase
  /\ published = [topics |-> {}, state |-> FALSE]
  /\ refused = FALSE

At(step) == pc = step /\ wake = 0

GoTo(step, time) == pc' = step /\ wake' = time

-----------------------------------------------------------------------------
(* The supervisor thread of the std firmware.                              *)

Supervisor(step) == fw = "std" /\ At(step)

\* Mutant of Doubled: a constant backoff.
NotDoubled(b) == b

Doubled(b) == IF 2 * b < BackoffMax THEN 2 * b ELSE BackoffMax

Wanted == mqtt.enabled /\ net # "off"

\* A poll with nothing to do: not wanted, or the backoff has not run out.
PollIdle ==
  /\ Supervisor("sleep")
  /\ ~Wanted \/ (~connected /\ since < backoff)
  /\ GoTo("sleep", Poll)
  /\ UNCHANGED <<pos, base, backoff, since, link, handler, state, brokerSide, world>>

\* Internal memory is short: no attempt, and the backoff grows.
PollTight ==
  /\ Supervisor("sleep")
  /\ Wanted /\ ~connected /\ since >= backoff
  /\ backoff' = Doubled(backoff)
  /\ GoTo("sleep", Poll)
  /\ UNCHANGED <<pos, base, since, link, handler, state, brokerSide, world>>

PollAttempts ==
  /\ Supervisor("sleep")
  /\ Wanted /\ ~connected /\ since >= backoff
  /\ since' = 0
  /\ GoTo("drop", 0)
  /\ UNCHANGED <<pos, base, backoff, link, handler, state, brokerSide, world>>

PollConnected ==
  /\ Supervisor("sleep")
  /\ Wanted /\ connected
  /\ GoTo("check", 0)
  /\ UNCHANGED <<pos, base, backoff, since, link, handler, state, brokerSide, world>>

\* Mutant of ConnectDrop: the old client lives until the new one replaces it.
ConnectOverlaps ==
  /\ Supervisor("drop")
  /\ GoTo("reset", 0)
  /\ UNCHANGED <<pos, base, backoff, since, link, handler, state, brokerSide, world>>

\* EspMqtt::connect: the old client is dropped, then the flag cleared, then
\* the new client built.  Dropping it stops its callbacks.
ConnectDrop ==
  /\ Supervisor("drop")
  /\ client' = "none"
  /\ timer' = 0
  /\ subs' = {}
  /\ GoTo("reset", 0)
  /\ UNCHANGED <<pos, base, backoff, since, connected, handler, state,
                 announced, published, refused, world>>

ConnectReset ==
  /\ Supervisor("reset")
  /\ connected' = FALSE
  /\ GoTo("create", 0)
  /\ UNCHANGED <<pos, base, backoff, since, client, timer, handler, state,
                 brokerSide, world>>

ConnectCreate ==
  /\ Supervisor("create")
  /\ client' = "connecting"
  /\ timer' = 0
  /\ GoTo("settle", Settle)
  /\ UNCHANGED <<pos, base, backoff, since, connected, handler, state,
                 brokerSide, world>>

CreateFails ==
  /\ Supervisor("create")
  /\ backoff' = Doubled(backoff)
  /\ GoTo("sleep", Poll)
  /\ UNCHANGED <<pos, base, since, link, handler, state, brokerSide, world>>

\* After the pause: the broker has not accepted, or it has.
Settled ==
  /\ Supervisor("settle")
  /\ IF connected
     THEN GoTo("check", 0) /\ backoff' = backoff
     ELSE GoTo("sleep", Poll) /\ backoff' = Doubled(backoff)
  /\ UNCHANGED <<pos, base, since, link, handler, state, brokerSide, world>>

\* The flag is read again before on_connect.
Check ==
  /\ Supervisor("check")
  /\ IF connected
     THEN GoTo("announce", 0) /\ backoff' = BackoffInitial
     ELSE GoTo("sleep", Poll) /\ backoff' = backoff
  /\ UNCHANGED <<pos, base, since, link, handler, state, brokerSide, world>>

-----------------------------------------------------------------------------
(* on_connect: discovery and the online marker, a subscription per switch, *)
(* the handler.  The configuration is read once, at its start.  In the std *)
(* firmware a failure is only logged; publishing is an enqueue that waits  *)
(* for the link.  In the embassy firmware it ends the session.             *)

Announce ==
  /\ At("announce")
  /\ fw = "embassy" => net = "good"
  /\ base' = mqtt.base
  /\ announced' = IF client = "none" THEN announced ELSE mqtt.base
  /\ handler' = IF fw = "embassy" THEN mqtt.base ELSE handler
  /\ pos' = 0
  /\ refused' = FALSE
  /\ GoTo("subscribe", 0)
  /\ UNCHANGED <<backoff, since, link, state, subs, published, world>>

AfterSubscribe ==
  /\ pos' = pos + 1
  /\ IF pos + 1 = Len(SwitchKeys)
     THEN IF fw = "std" THEN GoTo("handler", 0) ELSE GoTo("serve", Poll)
     ELSE GoTo("subscribe", 0)

Subscribe ==
  /\ At("subscribe")
  /\ client = "up"
  /\ fw = "embassy" => net = "good"
  /\ subs' = subs \cup {SwitchCommandTopic(base, SwitchKeys[pos + 1])}
  /\ AfterSubscribe
  /\ UNCHANGED <<base, backoff, since, link, handler, state, announced, published,
                 refused, world>>

SubscribeFails ==
  /\ Supervisor("subscribe")
  /\ refused' = (refused \/ client = "up")
  /\ AfterSubscribe
  /\ UNCHANGED <<base, backoff, since, link, handler, state, subs, announced,
                 published, world>>

SetHandler ==
  /\ Supervisor("handler")
  /\ handler' = base
  /\ GoTo("serve", 0)
  /\ UNCHANGED <<pos, base, backoff, since, link, state, brokerSide, world>>

-----------------------------------------------------------------------------
(* The publishing loop.                                                    *)

\* The std firmware reads the base topic anew for every publication, the
\* embassy one keeps the session's.
PublishBase == IF fw = "std" THEN mqtt.base ELSE base

StateTopics == {StateTopic(PublishBase, k) : k \in StateKeys}

\* Mutant of PublishState: the snapshot is not taken anew.
PublishStale == published' = [published EXCEPT !.topics = StateTopics]

PublishState == published' = [topics |-> StateTopics, state |-> state]

Serve ==
  /\ At("serve")
  /\ IF fw = "std" THEN connected ELSE net = "good"
  /\ PublishState
  /\ GoTo("serve", Poll)
  /\ UNCHANGED <<pos, base, backoff, since, link, handler, state, subs, announced,
                 refused, world>>

\* Mutant of ServeEnds: the loop waits for the client to reconnect.
ServeWaits ==
  /\ Supervisor("serve")
  /\ ~connected
  /\ GoTo("serve", Poll)
  /\ UNCHANGED <<pos, base, backoff, since, link, handler, state, brokerSide, world>>

ServeEnds ==
  /\ Supervisor("serve")
  /\ ~connected
  /\ GoTo("sleep", Poll)
  /\ UNCHANGED <<pos, base, backoff, since, link, handler, state, brokerSide, world>>

-----------------------------------------------------------------------------
(* The embassy task.                                                       *)

\* The socket connects and the broker accepts.
SessionStarts ==
  /\ fw = "embassy"
  /\ At("sleep")
  /\ net = "good"
  /\ client' = "up"
  /\ connected' = TRUE
  /\ GoTo("announce", 0)
  /\ UNCHANGED <<pos, base, backoff, since, timer, handler, state, brokerSide, world>>

\* An error anywhere in the session: again in 5 s.
SessionEnds ==
  /\ fw = "embassy"
  /\ At("sleep") \/ client = "up"
  /\ net # "good"
  /\ client' = "none"
  /\ connected' = FALSE
  /\ subs' = {}
  /\ GoTo("sleep", Poll)
  /\ UNCHANGED <<pos, base, backoff, since, timer, handler, state, announced,
                 published, refused, world>>

-----------------------------------------------------------------------------
(* The ESP-IDF client (external) and its callback on_event.                *)

ClientConnects ==
  /\ client = "connecting"
  /\ net = "good"
  /\ client' = "up"
  /\ timer' = 0
  /\ connected' = TRUE
  /\ subs' = {}
  /\ UNCHANGED <<task, handler, state, announced, published, refused, world>>

\* A connection refused or lost: the Disconnected event.
ClientDisconnects ==
  /\ fw = "std"
  /\ client \in {"connecting", "up"}
  /\ net # "good"
  /\ client' = "waiting"
  /\ timer' = ReconnectDelay
  /\ connected' = FALSE
  /\ subs' = {}
  /\ UNCHANGED <<task, handler, state, announced, published, refused, world>>

ClientRetries ==
  /\ client = "waiting"
  /\ timer = 0
  /\ client' = "connecting"
  /\ UNCHANGED <<task, timer, connected, handler, state, brokerSide, world>>

\* Someone publishes v to a topic the session is subscribed to.  In the
\* embassy firmware the message ends the wait for the next publication,
\* which then starts anew.
Receive(t, v) ==
  /\ client = "up"
  /\ t \in subs
  /\ fw = "embassy" => pc = "serve"
  /\ state' = IF ParseCommand(handler, t) = {} THEN state ELSE v
  /\ wake' = IF fw = "embassy" THEN Poll ELSE wake
  /\ UNCHANGED <<pc, pos, base, backoff, since, link, handler, brokerSide, world>>

-----------------------------------------------------------------------------
(* Time, the network and the user.                                         *)

\* Time passes while the task sleeps.  A good broker answers in time.
Tick ==
  /\ wake > 0
  /\ ~(client = "connecting" /\ net = "good" /\ timer >= ConnectTime)
  /\ wake' = wake - 1
  /\ since' = IF since < BackoffMax THEN since + 1 ELSE since
  /\ timer' = CASE client = "waiting" /\ timer > 0 -> timer - 1
                [] client = "connecting" /\ timer < ConnectTime -> timer + 1
                [] OTHER -> timer
  /\ UNCHANGED <<pc, pos, base, backoff, client, connected, handler, state,
                 brokerSide, world>>

NetChanges ==
  /\ net' \in {"off", "dark", "good"} \ {net}
  /\ UNCHANGED <<task, link, handler, state, brokerSide, fw, mqtt, changes>>

\* replace_config, from the web API or the console.
ReplaceConfig ==
  /\ changes < MaxChanges
  /\ changes' = changes + 1
  /\ mqtt' \in [enabled : BOOLEAN, base : Bases]
  /\ UNCHANGED <<task, link, handler, state, brokerSide, fw, net>>

SupervisorSteps ==
  \/ PollIdle \/ PollTight \/ PollAttempts \/ PollConnected
  \/ ConnectDrop \/ ConnectReset \/ ConnectCreate \/ CreateFails
  \/ Settled \/ Check
  \/ Announce \/ Subscribe \/ SubscribeFails \/ SetHandler
  \/ Serve \/ ServeEnds
  \/ SessionStarts \/ SessionEnds

ClientSteps == ClientConnects \/ ClientDisconnects \/ ClientRetries

Next ==
  \/ SupervisorSteps
  \/ ClientSteps
  \/ \E t \in subs, v \in BOOLEAN : Receive(t, v)
  \/ Tick
  \/ NetChanges
  \/ ReplaceConfig

\* Threads and time go on.  Memory is not short, and a client not refused,
\* every time.
Fairness ==
  /\ WF_vars(SupervisorSteps)
  /\ WF_vars(ClientSteps)
  /\ WF_vars(Tick)
  /\ SF_vars(PollAttempts)
  /\ SF_vars(ConnectCreate)

Spec == Init /\ [][Next]_vars /\ Fairness

-----------------------------------------------------------------------------
(* Properties.                                                             *)

\* The connected flag speaks of the client there is: no event of a client that
\* was replaced, and no flag left from it, makes the supervisor take a client
\* that never connected for one that did.
FlagIsFresh == connected => client = "up" \/ pc = "reset"

Served == pc = "serve" /\ client = "up"

\* While the task publishes over a link that is up, every switch Home
\* Assistant was told of can be commanded: its command topic is subscribed to
\* in the present session, and the handler takes a message there for this
\* switch.  A lost link and a reconnection of the client's own, which loses
\* the subscriptions, never go unnoticed; only a refused subscribe does.
SubscribedWhileServed ==
  Served /\ ~refused =>
    /\ announced = base
    /\ \A d \in AllMessages(announced) : d.component = "switch" =>
         d.command \in subs /\ ParseCommand(handler, d.command) = {d.key}

\* The link recovers: once WiFi and broker stay good and MQTT enabled, the
\* device ends up publishing and stays there, also when the broker takes
\* longer to accept than the first backoffs last.
Recovers ==
  <>[](net = "good" /\ mqtt.enabled) => <>[](Served /\ connected)

\* Home Assistant follows the device: over a link that lasts, once no more
\* commands come, the last publication has the device's state, on the state
\* topics of the entities announced, the switches and the alarm among them,
\* unless the base topic was changed in the meantime.  (A stream of messages
\* keeps the embassy task from publishing at all.)
StateIsShown ==
  (<>[]Served /\ <>[][\A t \in subs, v \in BOOLEAN : ~Receive(t, v)]_vars)
     => <>[](/\ published.state = state
             /\ PublishBase = announced =>
                  LET told == AllMessages(announced)
                  IN  /\ published.topics \subseteq {d.state : d \in told}
                      /\ \A d \in told :
                           d.component # "sensor" => d.state \in published.topics)
=============================================================================
