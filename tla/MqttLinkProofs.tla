--------------------------- MODULE MqttLinkProofs ---------------------------
(***************************************************************************)
(* Theorems about MqttLink, for every list of switches, set of base topics *)
(* and timing in which the client's pause before it reconnects is longer   *)
(* than the publishing period.                                             *)
(***************************************************************************)
EXTENDS MqttLink, TLAPS

\* on_connect and the publishing loop.
Live == {"announce", "subscribe", "handler", "serve"}

Steps == {"sleep", "drop", "reset", "create", "settle", "check"} \cup Live

TaskInv ==
  /\ fw \in {"std", "embassy"}
  /\ pc \in Steps
  /\ fw = "embassy" => pc \in {"sleep", "announce", "subscribe", "serve"}
  /\ wake \in Nat
  /\ pc \in Live => wake <= Poll

\* The flag and the client.
FlagInv ==
  /\ connected \in BOOLEAN
  /\ connected => client = "up" \/ pc = "reset"
  /\ client = "up" => connected
  /\ pc \in {"reset", "create"} => client = "none"
  /\ pc = "create" => ~connected

\* The link the task was let in with is up, or was lost so recently that the
\* client cannot be back before the task looks at the flag again.
LinkInv ==
  /\ timer \in Nat
  /\ client \in {"none", "connecting", "up", "waiting"}
  /\ pc \in Live => client = "up" \/ (client = "waiting" /\ timer > wake)
  /\ fw = "embassy" /\ pc \in Live => client = "up"

Subscribed(k) == \A i \in 1..k : SwitchCommandTopic(base, SwitchKeys[i]) \in subs

\* What on_connect has done so far.
ProgressInv ==
  /\ pos \in Nat
  /\ pc = "subscribe" => pos < Len(SwitchKeys)
  /\ pc \in {"handler", "serve"} => pos = Len(SwitchKeys)
  /\ pc \in {"subscribe", "handler", "serve"} => announced = base
  /\ pc = "serve" \/ (pc = "subscribe" /\ fw = "embassy") => handler = base

SubscribedInv ==
  pc \in {"subscribe", "handler", "serve"} /\ client = "up" /\ refused = FALSE
    => Subscribed(pos)

RefusedInv == refused \in BOOLEAN

MqttInv ==
  TaskInv /\ FlagInv /\ LinkInv /\ ProgressInv /\ SubscribedInv /\ RefusedInv

LEMMA MqttInit == Init => MqttInv
<1> SUFFICES ASSUME Init PROVE MqttInv
  OBVIOUS
<1>1. TaskInv
  BY LinkAssumption DEF Init, TaskInv, Steps, Live
<1>2. FlagInv /\ LinkInv /\ RefusedInv
  BY DEF Init, FlagInv, LinkInv, RefusedInv, Live
<1>3. ProgressInv /\ SubscribedInv
  BY DEF Init, ProgressInv, SubscribedInv
<1>4. QED BY <1>1, <1>2, <1>3 DEF MqttInv

\* A step of the supervisor that ends outside on_connect and the publishing
\* loop, with the client as it was.
LEMMA PollStep ==
  ASSUME MqttInv,
         PollIdle \/ PollTight \/ PollAttempts \/ PollConnected \/ CreateFails
           \/ Settled \/ ServeEnds
  PROVE  MqttInv'
<1>1. /\ fw = "std" /\ fw' = fw /\ pc' \in {"sleep", "drop", "check"}
      /\ wake' \in {0, Poll}
      /\ connected' = connected /\ client' = client /\ timer' = timer
      /\ pos' = pos /\ refused' = refused
      /\ pc # "reset"
  BY DEF PollIdle, PollTight, PollAttempts, PollConnected, CreateFails, Settled,
         ServeEnds, Supervisor, At, GoTo, link, world, brokerSide
<1>2. TaskInv'
  BY <1>1, LinkAssumption DEF MqttInv, TaskInv, Steps, Live
<1>3. FlagInv'
  BY <1>1 DEF MqttInv, FlagInv
<1>4. LinkInv'
  BY <1>1 DEF MqttInv, LinkInv, Live
<1>5. ProgressInv' /\ SubscribedInv' /\ RefusedInv'
  BY <1>1 DEF MqttInv, ProgressInv, SubscribedInv, RefusedInv
<1>6. QED BY <1>2, <1>3, <1>4, <1>5 DEF MqttInv

\* EspMqtt::connect replaces the client.
LEMMA ConnectStep ==
  ASSUME MqttInv, ConnectDrop \/ ConnectReset \/ ConnectCreate
  PROVE  MqttInv'
<1>1. /\ fw = "std" /\ fw' = fw
      /\ wake' \in {0, Settle} /\ pos' = pos /\ refused' = refused
      /\ timer' \in {timer, 0}
      /\ \/ pc' = "reset" /\ client' = "none" /\ connected' = connected
         \/ pc = "reset" /\ pc' = "create" /\ client' = client /\ connected' = FALSE
         \/ pc = "create" /\ pc' = "settle" /\ client' = "connecting"
              /\ connected' = connected
  BY DEF ConnectDrop, ConnectReset, ConnectCreate, Supervisor, At, GoTo, world,
         brokerSide
<1>2. TaskInv'
  BY <1>1, LinkAssumption DEF MqttInv, TaskInv, Steps, Live
<1>3. FlagInv'
  <2>1. CASE pc' = "reset" /\ client' = "none" /\ connected' = connected
    BY <2>1 DEF MqttInv, FlagInv
  <2>2. CASE pc = "reset" /\ pc' = "create" /\ client' = client /\ connected' = FALSE
    BY <2>2 DEF MqttInv, FlagInv
  <2>3. CASE pc = "create" /\ pc' = "settle" /\ client' = "connecting"
               /\ connected' = connected
    BY <2>3 DEF MqttInv, FlagInv
  <2>4. QED BY <1>1, <2>1, <2>2, <2>3
<1>4. LinkInv'
  BY <1>1 DEF MqttInv, LinkInv, Live
<1>5. ProgressInv' /\ SubscribedInv' /\ RefusedInv'
  BY <1>1 DEF MqttInv, ProgressInv, SubscribedInv, RefusedInv
<1>6. QED BY <1>2, <1>3, <1>4, <1>5 DEF MqttInv

\* The flag lets the task into on_connect, or it does not.
LEMMA CheckStep == ASSUME MqttInv, Check PROVE MqttInv'
<1>1. /\ fw = "std" /\ fw' = fw /\ pc = "check" /\ pc' \in {"announce", "sleep"}
      /\ wake' \in {0, Poll} /\ pos' = pos /\ client' = client /\ timer' = timer
      /\ pc' = "announce" => wake' = 0
  BY DEF Check, Supervisor, At, GoTo, world, link
<1>2. TaskInv'
  BY <1>1, LinkAssumption DEF MqttInv, TaskInv, Steps, Live
<1>3. connected' = connected /\ refused' = refused /\ (pc' = "announce" => connected)
  BY DEF Check, GoTo, link, brokerSide
<1>4. pc' = "announce" => client = "up"
  BY <1>1, <1>3 DEF MqttInv, FlagInv
<1>5. FlagInv'
  <2>1. pc' # "reset" /\ pc' # "create" /\ pc # "reset"
    BY <1>1
  <2>2. QED BY <1>1, <1>3, <2>1 DEF MqttInv, FlagInv
<1>6. LinkInv'
  BY <1>1, <1>4 DEF MqttInv, LinkInv, Live
<1>7. ProgressInv' /\ SubscribedInv' /\ RefusedInv'
  BY <1>1, <1>3 DEF MqttInv, ProgressInv, SubscribedInv, RefusedInv
<1>8. QED BY <1>2, <1>5, <1>6, <1>7 DEF MqttInv

LEMMA AnnounceStep == ASSUME MqttInv, Announce PROVE MqttInv'
<1>1. /\ fw' = fw /\ pc = "announce" /\ wake = 0 /\ pc' = "subscribe" /\ wake' = 0
      /\ client' = client /\ timer' = timer
      /\ base' = mqtt.base /\ pos' = 0
      /\ announced' = IF client = "none" THEN announced ELSE mqtt.base
      /\ handler' = IF fw = "embassy" THEN mqtt.base ELSE handler
  BY DEF Announce, At, GoTo, world, link
<1>2. TaskInv'
  BY <1>1, LinkAssumption DEF MqttInv, TaskInv, Steps, Live
<1>3. connected' = connected /\ refused' = FALSE
  BY DEF Announce, link
<1>4. FlagInv'
  BY <1>1, <1>3 DEF MqttInv, FlagInv
<1>5. LinkInv' /\ client # "none"
  BY <1>1 DEF MqttInv, LinkInv, Live
<1>6. ProgressInv'
  BY <1>1, <1>5, LinkAssumption DEF ProgressInv
<1>7. SubscribedInv' /\ RefusedInv'
  <2>1. Subscribed(pos)'
    BY <1>1 DEF Subscribed
  <2>2. QED BY <1>3, <2>1 DEF SubscribedInv, RefusedInv
<1>8. QED BY <1>2, <1>4, <1>5, <1>6, <1>7 DEF MqttInv

\* One subscription, made or refused.
LEMMA SubscribeStep == ASSUME MqttInv, Subscribe \/ SubscribeFails PROVE MqttInv'
<1>1. /\ fw' = fw /\ pc = "subscribe" /\ wake = 0
      /\ client' = client /\ timer' = timer
      /\ base' = base /\ pos' = pos + 1 /\ announced' = announced
      /\ handler' = handler
      /\ IF pos + 1 = Len(SwitchKeys)
         THEN IF fw = "std" THEN pc' = "handler" /\ wake' = 0
              ELSE pc' = "serve" /\ wake' = Poll
         ELSE pc' = "subscribe" /\ wake' = 0
  BY DEF Subscribe, SubscribeFails, AfterSubscribe, Supervisor, At, GoTo, world, link
<1>2. TaskInv'
  BY <1>1, LinkAssumption DEF MqttInv, TaskInv, Steps, Live
<1>3. FlagInv'
  <2>1. connected' = connected
    BY DEF Subscribe, SubscribeFails, link
  <2>2. pc' # "reset" /\ pc' # "create" /\ pc # "reset"
    BY <1>1
  <2>3. QED BY <1>1, <2>1, <2>2 DEF MqttInv, FlagInv
<1>4. LinkInv'
  <2>1. /\ client = "up" \/ (client = "waiting" /\ timer > 0)
        /\ fw \in {"std", "embassy"} /\ (fw = "embassy" => client = "up")
    BY <1>1 DEF MqttInv, TaskInv, LinkInv, Live
  <2>2. client = "waiting" => wake' = 0
    BY <1>1, <2>1
  <2>3. QED BY <1>1, <2>1, <2>2 DEF MqttInv, LinkInv
<1>5. ProgressInv'
  <2>1. pos \in Nat /\ pos < Len(SwitchKeys) /\ announced = base
        /\ (fw = "embassy" => handler = base) /\ fw \in {"std", "embassy"}
    BY <1>1 DEF MqttInv, ProgressInv, TaskInv
  <2>2. CASE pos + 1 = Len(SwitchKeys)
    BY <1>1, <2>1, <2>2, LinkAssumption DEF ProgressInv
  <2>3. CASE pos + 1 # Len(SwitchKeys)
    <3>1. pc' = "subscribe"
      BY <1>1, <2>3
    <3>2. pos' \in Nat /\ pos' < Len(SwitchKeys)
      <4>1. Len(SwitchKeys) \in Nat
        BY LinkAssumption
      <4>2. pos' = pos + 1
        BY <1>1
      <4> DEFINE len == Len(SwitchKeys)
      <4>3. len \in Nat /\ pos \in Nat /\ pos < len /\ pos + 1 # len
        BY <2>1, <2>3, <4>1
      <4> HIDE DEF len
      <4>4. pos + 1 < len
        BY <4>3
      <4>5. QED BY <4>2, <4>3, <4>4 DEF len
    <3>3. announced' = base' /\ fw' = fw /\ (fw = "embassy" => handler' = base')
      BY <1>1, <2>1
    <3>4. QED BY <3>1, <3>2, <3>3 DEF ProgressInv
  <2>4. QED BY <2>2, <2>3
<1>6. SubscribedInv' /\ RefusedInv'
  <2>1. CASE Subscribe
    <3>1. /\ subs' = subs \cup {SwitchCommandTopic(base, SwitchKeys[pos + 1])}
          /\ refused' = refused /\ client = "up"
      BY <2>1 DEF Subscribe
    <3>2. ASSUME refused = FALSE, NEW i \in 1..(pos + 1)
          PROVE  SwitchCommandTopic(base, SwitchKeys[i]) \in subs'
      <4>1. Subscribed(pos) /\ pos \in Nat
        BY <1>1, <3>1, <3>2 DEF MqttInv, SubscribedInv, ProgressInv
      <4>2. i \in 1..pos \/ i = pos + 1
        BY <4>1
      <4>3. QED BY <3>1, <4>1, <4>2 DEF Subscribed
    <3>3. QED
      BY <1>1, <3>1, <3>2
         DEF MqttInv, SubscribedInv, Subscribed, RefusedInv, SwitchCommandTopic, Topic
  <2>2. CASE SubscribeFails
    BY <1>1, <2>2 DEF SubscribeFails, MqttInv, SubscribedInv, RefusedInv
  <2>3. QED BY <2>1, <2>2
<1>7. QED BY <1>2, <1>3, <1>4, <1>5, <1>6 DEF MqttInv

\* The handler is set, and the state published: the link is not touched.
LEMMA ServeStep == ASSUME MqttInv, SetHandler \/ Serve PROVE MqttInv'
<1>1. /\ fw' = fw /\ pc \in {"handler", "serve"} /\ wake = 0
      /\ pc' = "serve" /\ wake' \in Nat /\ wake' <= Poll
      /\ pc = "handler" => wake' = 0 /\ handler' = base
      /\ pc = "serve" => handler' = handler
      /\ client' = client /\ timer' = timer
      /\ base' = base /\ pos' = pos /\ announced' = announced
      /\ subs' = subs
  BY LinkAssumption DEF SetHandler, Serve, Supervisor, At, GoTo, world, link, brokerSide
<1>2. TaskInv'
  BY <1>1 DEF MqttInv, TaskInv, Steps, Live
<1>3. /\ connected' = connected /\ refused' = refused
      /\ pc = "serve" /\ fw = "std" => connected
  <2>1. CASE SetHandler
    <3>1. pc = "handler"
      BY <2>1 DEF SetHandler, Supervisor, At
    <3>2. QED BY <2>1, <3>1 DEF SetHandler, link, brokerSide
  <2>2. CASE Serve
    BY <2>2 DEF Serve, link
  <2>3. QED BY <2>1, <2>2
<1>4. FlagInv'
  BY <1>1, <1>3 DEF MqttInv, FlagInv
<1>5. pc = "serve" => client = "up"
  BY <1>1, <1>3 DEF MqttInv, TaskInv, FlagInv, LinkInv, Live
<1>6. LinkInv'
  <2>1. /\ client = "up" \/ (client = "waiting" /\ timer > 0 /\ pc = "handler")
        /\ fw = "embassy" => client = "up"
    BY <1>1, <1>5 DEF MqttInv, TaskInv, LinkInv, Live
  <2>2. client = "waiting" => wake' = 0
    BY <1>1, <2>1
  <2>3. QED BY <1>1, <2>1, <2>2 DEF MqttInv, LinkInv
<1>7. ProgressInv' /\ RefusedInv'
  BY <1>1, <1>3 DEF MqttInv, ProgressInv, RefusedInv
<1>8. SubscribedInv'
  BY <1>1, <1>3 DEF MqttInv, SubscribedInv, Subscribed, SwitchCommandTopic, Topic
<1>9. QED BY <1>2, <1>4, <1>6, <1>7, <1>8 DEF MqttInv

\* A session of the embassy firmware.
LEMMA SessionStep == ASSUME MqttInv, SessionStarts \/ SessionEnds PROVE MqttInv'
<1>1. /\ fw = "embassy" /\ fw' = fw /\ timer' = timer /\ pos' = pos
      /\ refused' = refused
      /\ \/ pc' = "announce" /\ wake' = 0 /\ client' = "up" /\ connected' = TRUE
         \/ pc' = "sleep" /\ wake' = Poll /\ client' = "none" /\ connected' = FALSE
  BY DEF SessionStarts, SessionEnds, GoTo, world, brokerSide
<1>2. TaskInv'
  BY <1>1, LinkAssumption DEF MqttInv, TaskInv, Steps, Live
<1>3. FlagInv'
  BY <1>1 DEF FlagInv
<1>4. LinkInv'
  <2>1. /\ timer' = timer /\ timer \in Nat /\ fw' = "embassy"
        /\ client' = "up" \/ (client' = "none" /\ pc' = "sleep")
    BY <1>1 DEF MqttInv, LinkInv
  <2>2. QED BY <2>1 DEF LinkInv, Live
<1>5. ProgressInv' /\ SubscribedInv' /\ RefusedInv'
  BY <1>1 DEF MqttInv, ProgressInv, SubscribedInv, RefusedInv
<1>6. QED BY <1>2, <1>3, <1>4, <1>5 DEF MqttInv

\* The ESP-IDF client.  It does not come back while the task is live.
LEMMA ClientStep == ASSUME MqttInv, ClientSteps PROVE MqttInv'
<1>1. /\ fw' = fw /\ pc' = pc /\ wake' = wake /\ pos' = pos /\ base' = base
      /\ announced' = announced /\ handler' = handler /\ refused' = refused
      /\ client' # client /\ timer' \in {0, timer, ReconnectDelay}
      /\ \/ client = "connecting" /\ client' = "up" /\ connected' = TRUE
         \/ /\ client \in {"connecting", "up"} /\ client' = "waiting"
            /\ fw = "std" /\ connected' = FALSE /\ timer' = ReconnectDelay
         \/ /\ client = "waiting" /\ timer = 0 /\ client' = "connecting"
            /\ connected' = connected
  BY DEF ClientSteps, ClientConnects, ClientDisconnects, ClientRetries, task, world,
         brokerSide
<1>2. TaskInv'
  BY <1>1 DEF MqttInv, TaskInv
<1>3. FlagInv'
  <2>1. CASE client' = "up" /\ connected' = TRUE
    BY <1>1, <2>1 DEF MqttInv, FlagInv
  <2>2. CASE client' = "waiting" /\ connected' = FALSE
    BY <1>1, <2>2 DEF MqttInv, FlagInv
  <2>3. CASE client = "waiting" /\ client' = "connecting" /\ connected' = connected
    BY <1>1, <2>3 DEF MqttInv, FlagInv
  <2>4. QED BY <1>1, <2>1, <2>2, <2>3
<1>4. LinkInv'
  BY <1>1, LinkAssumption DEF MqttInv, TaskInv, LinkInv
<1>5. ProgressInv' /\ RefusedInv'
  BY <1>1 DEF MqttInv, ProgressInv, RefusedInv
<1>6. SubscribedInv'
  BY <1>1 DEF MqttInv, TaskInv, LinkInv, SubscribedInv, Live
<1>7. QED BY <1>2, <1>3, <1>4, <1>5, <1>6 DEF MqttInv

\* Messages, time, the network and the configuration.
LEMMA WorldStep ==
  ASSUME MqttInv,
         \/ \E t \in subs, v \in BOOLEAN : Receive(t, v)
         \/ Tick \/ NetChanges \/ ReplaceConfig \/ UNCHANGED vars
  PROVE  MqttInv'
<1>1. /\ fw' = fw /\ pc' = pc /\ pos' = pos /\ base' = base
      /\ connected' = connected /\ client' = client
      /\ announced' = announced /\ handler' = handler /\ refused' = refused
      /\ subs' = subs
  BY DEF Receive, Tick, NetChanges, ReplaceConfig, vars, task, link, world, brokerSide
<1>2. /\ wake' \in Nat /\ timer' \in Nat
      /\ wake <= Poll => wake' <= Poll
      /\ (client = "waiting" /\ timer > wake) => (timer' > wake' \/ fw = "embassy")
  <2>1. CASE \E t \in subs, v \in BOOLEAN : Receive(t, v)
    BY <2>1, LinkAssumption DEF MqttInv, TaskInv, LinkInv, Receive, link
  <2>2. CASE Tick
    BY <2>2, LinkAssumption DEF MqttInv, TaskInv, LinkInv, Tick
  <2>3. CASE NetChanges \/ ReplaceConfig \/ UNCHANGED vars
    BY <2>3 DEF MqttInv, TaskInv, LinkInv, NetChanges, ReplaceConfig, vars, task, link
  <2>4. QED BY <2>1, <2>2, <2>3
<1>3. TaskInv'
  BY <1>1, <1>2 DEF MqttInv, TaskInv
<1>4. FlagInv'
  BY <1>1 DEF MqttInv, FlagInv
<1>5. LinkInv'
  <2>1. /\ fw' = fw /\ pc' = pc /\ client' = client /\ timer' \in Nat
        /\ (client = "waiting" /\ timer > wake) => (timer' > wake' \/ fw = "embassy")
    BY <1>1, <1>2
  <2>2. QED BY <2>1 DEF MqttInv, LinkInv
<1>6. ProgressInv' /\ RefusedInv'
  BY <1>1 DEF MqttInv, ProgressInv, RefusedInv
<1>7. SubscribedInv'
  BY <1>1 DEF MqttInv, SubscribedInv, Subscribed, SwitchCommandTopic, Topic
<1>8. QED BY <1>3, <1>4, <1>5, <1>6, <1>7 DEF MqttInv

LEMMA MqttCorrect == Spec => []MqttInv
<1>1. MqttInv /\ [Next]_vars => MqttInv'
  BY PollStep, ConnectStep, CheckStep, AnnounceStep, SubscribeStep, ServeStep,
     SessionStep, ClientStep, WorldStep
     DEF Next, SupervisorSteps
<1>2. QED BY <1>1, MqttInit, PTL DEF Spec

(* No event of a client that was replaced, and no flag left from it, makes *)
(* spawn_mqtt_supervisor take a client that never connected for a          *)
(* connected one.                                                          *)
THEOREM FreshFlag == Spec => []FlagIsFresh
<1>1. MqttInv => FlagIsFresh
  BY DEF MqttInv, FlagInv, FlagIsFresh
<1>2. QED BY <1>1, MqttCorrect, PTL

(* While the device publishes over a link that is up and nothing was       *)
(* refused, every switch it announced has its command topic subscribed to  *)
(* in the present session, and on_command acts on a message there.         *)
THEOREM CommandableSwitches == Spec => []SubscribedWhileServed
<1>1. MqttInv => SubscribedWhileServed
  <2> SUFFICES ASSUME MqttInv, Served, ~refused
               PROVE  /\ announced = base
                      /\ \A d \in AllMessages(announced) : d.component = "switch" =>
                           /\ d.command \in subs
                           /\ ParseCommand(handler, d.command) = {d.key}
    BY DEF SubscribedWhileServed
  <2>1. refused = FALSE /\ pc = "serve" /\ client = "up"
    BY DEF Served, MqttInv, RefusedInv
  <2>2. announced = base /\ handler = base /\ Subscribed(Len(SwitchKeys))
    BY <2>1 DEF MqttInv, ProgressInv, SubscribedInv
  <2>3. ASSUME NEW d \in AllMessages(announced), d.component = "switch"
        PROVE  d.command \in subs /\ ParseCommand(handler, d.command) = {d.key}
    <3>1. PICK k \in Switches : d = SwitchEntity(base, k)
      BY <2>2, <2>3 DEF AllMessages, SensorEntity, BinarySensorEntity
    <3>2. PICK i \in 1..Len(SwitchKeys) : k = SwitchKeys[i]
      BY LinkAssumption DEF Switches
    <3>3. d.command = SwitchCommandTopic(base, k) /\ d.key = k
      BY <3>1 DEF SwitchEntity
    <3>4. d.command \in subs
      BY <2>2, <3>2, <3>3 DEF Subscribed
    <3>5. ParseCommand(base, SwitchCommandTopic(base, k)) = {k}
      BY DEF ParseCommand, SwitchCommandTopic, Topic
    <3>6. QED BY <2>2, <3>3, <3>4, <3>5
  <2>4. QED BY <2>2, <2>3
<1>2. QED BY <1>1, MqttCorrect, PTL
=============================================================================
