# A formal model of wyostat

Wyostat is an ESP32 thermostat: a TMP102 temperature sensor, a DS3231 clock, an
OLED, three relays (furnace, compressor, blower) and a web dashboard reached
through a message broker. This directory holds TLA+ modules of its firmware and
of the conversation with its dashboard, TLC runs on small instances, and
theorems checked by TLAPS for all values of the constants. Paths below are
relative to `src/arduino/`.

## 1. Inventory

| Component | State | Operations | Modelled by |
|---|---|---|---|
| **OpenThermostat**, the current firmware (`OpenThermostat/OpenThermostat.ino`) | relays, `away`, `hvacmode`, `targettemps[2]`, `localtemp`, `last_furnace_state_change` | `setup()`, `loop()`, `set_furnace` (60 s lockout), `set_ac`, `set_fan`, `mqtt_connect`, `mqtt_reconnect`, seven message handlers | `HvacControl`, `WyostatMqtt`; both together in `WyostatSystem` |
| **EEPROM emulation** (ESP32 core) | RAM buffer, dirty flag, one flash sector | `begin`, `read`, `write`, `commit` (erase, then write) | inside each firmware's module |
| **Node-RED dashboard** (`OpenThermostat/OpenThermostat.json`; two older exports) | the dial's target and state, a drag in progress, the away switch | drag, buttons, Connect, reception of reports, the injects of a deployment | `WyostatMqtt`, `WyostatSystem` |
| **MQTT broker** (external) | messages on their way to either client | deliver in order per client, forget what a lost client has not read | `WyostatMqtt` |
| **PubSubClient** | connection state, two activity times, the outstanding ping, bytes in the socket | `connect`, `loop` (one packet), `publish` (QoS 0), `connected` | `Keepalive`; only its effect in `HvacControl`, `MqttStat`, `WyostatMqtt` |
| **mqtt_stat**, the first MQTT firmware (`mqtt_stat/mqtt_stat.ino`) | relays, `settemplo`, `settemphi`, `localtemperature` | two set point callbacks that keep each other in order, control without lockout | `MqttStat` |
| **ThermoCentral**, the Adafruit IO firmware (`ThermoCentral/ThermoCentral.ino`) | relays, two set points, `localtemperature` | heater control, AC control, feed handlers, three buttons | `ThermoCentral`; the press and its echo in `CentralFeeds` |
| **Adafruit IO and MQTT clients** | socket, one packet buffer, `_status` | `status`, `run`, `mqttStatus`, `connect` with retries, `processPackets`, `ping`, `publish` | `CentralFeeds`; as an environment in `ThermoCentral` |
| **WiFiManager and the ESP32's WiFi station** | status, stored credentials, portal, event queue | `autoConnect`, the portal, `begin`, `waitForConnectResult`, `_eventCallback` | `StationLink` |
| TMP102 driver | - | one reading | only the reading that is no number, in the three firmwares |
| Display, icons, fonts | a frame buffer | drawing | no: reads state, changes none |
| Clock and time zone (`set_timezone_from_ip`, `get_time.h`) | the DS3231 | set once, in `setup()` | no: the hour may turn at any moment in the models; `get_time.cpp` is not in the repository |
| `mqtt_ESP32`, `DisplayTemp`, `test_mqtt.py` | - | print what they sense or receive, publish by hand | no: control nothing |
| RTClib, NTPClient, rest of the ESP32 core, other libraries | - | I/O | no: inputs of the models |
| `kicad_rev3`, `kicad_rev4`, `fabricate` | - | board and enclosure | no: not a program |

**How they interact.** One processor runs `loop()`: sense, reconnect if the
connection is lost (this blocks), take at most one message (its handler runs to
the end, EEPROM commit included), decide about the relays. Handlers write
globals that the decision reads. A relay that changes publishes a report; the
thermostat is itself subscribed to two of the topics it reports on, so its own
words come back to it between the dashboard's. The clock runs beside all this
and turns the index of the target in force at 6:00 and 22:00.

**What is hard.** A refused `set_furnace()` leaves the rest of the pass to run
as if it had worked; a decision reads the hour twice; a power failure can fall
between erase and write; echoes, drags, lost messages and restarts interleave
in an order nobody chose; a report obeyed by its own sender closes a loop through
the relays; ThermoCentral's two controllers share a blower, and its client one
buffer for all packets, dropping those it does not await; a sensor may answer
with no number; the WiFi comes back, or does not, by rules of three libraries. The
full list, with lines, is `hazards` in `PROJECT.json`.

**What makes each part correct.**

* OpenThermostat control: the compressor never without the blower, the furnace
  never short-cycled, no ignition beside the compressor, overlaps end, *off*
  means off, a cold room is heated.
* OpenThermostat settings: the away setting survives a restart.
* Messaging and dashboard: the two ends can always be brought to agree, the
  settings come to rest, no message feeds itself, a topic means one thing.
* mqtt_stat: never both sources, the blower exactly with a source, set points
  kept in order and kept across a restart.
* PubSubClient: a broker that answers is not hung up on and hears from the
  client in time; a dead connection is given up in bounded time.
* ThermoCentral: the blower follows the sources (as far as it does: see
  `orderly`), the controllers do not oppose
  each other, hysteresis protects the relays, set points survive a restart.
* The system: what the loop and the conversation promise alone holds of both
  together, and the circle of reports and decisions comes to rest.
* Adafruit clients: no feed is forgotten, a connection is one the server has
  accepted, the sketch ends with the value of its feed.
* WiFi: the loop is reached again when the router is, the portal lets the right
  credentials in.

## 2. The modules

### RelayPlant: the abstract specification
What the relays promise the furnace and the compressor, without temperatures,
modes or messages: `Ignite` and `Quench` need a rest longer than `MinRest`; an
ignition comes with the blower and without the compressor; the compressor joins
a burning furnace only inside the lockout. `PowerCut` opens every relay and
forgets the rest time, as the code does (the time is in RAM).

### HvacControl: the control loop of OpenThermostat
`pc` cuts a pass where something else may happen in between: `sense` →
(`reconnect`) → `poll` → (`erase` → `write`) → `control` → (`recheck`).

| Code | Model |
|---|---|
| `setup()`, `loadSettings()` | `Setup`, `Loaded` |
| sensing and filter | `Sense`: a move to a near class |
| `mqtt_reconnect()` | `Reconnect` (blocks the loop) |
| `targettemp_cb`, `away_cb`, `hvacmode_cb` | `TargettempCb`, `AwayCb`, `HvacmodeCb`; requests change nothing: `PollNothing` |
| `EEPROM.commit()` | `EraseSector`, `WriteSector` |
| heating branches | `HeatAway`, `HeatTooHot`, `HeatNotTooHot` then `HeatRecheck` |
| cooling branches | `CoolAway`, `CoolTooHot`, `CoolNotTooHot` then `CoolRecheck` |
| every other mode | `AllOff` |
| `set_furnace` | `SetFurnace`; `age` is the clock minus `last_furnace_state_change`, saturated one above the lockout |
| `get_target_index` at 6:00 and 22:00 | `HourTurns` |

Temperatures are *classes* of half a degree (class 2n is exactly n, class 2n+1
is everything strictly between n and n+1): the away branches compare the float,
the home branches its `int()`, and classes tell the two apart. The branches of
`*NotTooHot` and `*Recheck` are two steps because the code calls
`get_targettemp()` twice and the hour may turn between. The environment may send
any accepted message at any pass, so the echo of the firmware's own reports is
included.

With `SensorMayFail` the first, unchecked reading may be `NaN` (`setup_temp`); the
filter keeps it for good. Comparisons with it are false; a test behind `int()` is
undefined in C++ and goes either way (`IntAbove`, `IntNotAbove` both hold).
`Leftover` are bytes another firmware may have left at `AWAY_ADDR`.

### WyostatMqtt: thermostat, broker and dial
`toStat` and `toDial` are what the broker still has to deliver. The link is *up*,
*dead* (broker gone, not yet noticed), *down* (noticed) or *boot*. A publication
is a pair of message sequences, one per client, by their subscriptions (`Sent`,
`Then`); the thermostat's get out over a live link only. The listener table is
modelled by what it does: six listeners, the first with a topic gets the message,
so `requeststate` reaches `requestmode_cb` and `requestmode` reaches nobody. The
dial keeps a drag's `startTemperature`; a report moves it under the finger; a
drag that ends where it started is not published. `MoveRelays` moves one relay or
both for no stated reason (`WyostatSystem` has the reasons), and each move
publishes a report, with the other relay still in its old place in the first of
two. `Deploy` is a restart of Node-RED: a new page, and the two injects with
`once` set, in either order, as far as they get through.

`MCWyostatMqtt` bounds the disturbances and the presses of Connect together and
adds the history variable `asked`: Connect was pressed with the link up and no
drag, and nothing else has disturbed the system since. Connect may be pressed at
any moment, among echoes and the answers to earlier presses. While the module
was written TLC showed that the dial and the thermostat can disagree for ever
without a Connect (a report moves the dial during a drag which is then moved
back); `ConnectRefreshes` is therefore about one press after the last disturbance.
The inject wired to the Connect button every 60 s does not press it (its
`passthru` is false), so no fairness is assumed of it.

`SettingsSettle` has a premise: from some moment on the programs only respond.
Without it the property is false of the code. A request is answered with the
target in force; if it is answered while an older or newer target is still on its
way, two targets are in circulation, and pressing Connect again each time between
the two keeps them alternating for ever. A queue of ten messages is enough, and
TLC finds the lasso when presses are bounded by that instead of by number.

### WyostatSystem: loop and conversation together
The composition of the two, sharing settings, relays and clock. A message the
loop takes is the head of `toStat`; a decision moves the relays as `HvacControl`
says and publishes as `WyostatMqtt` says, when and only when it moves one.
`connected` is a link up or dead, and the away setting the conversation speaks
of is, during a restart, the one `setup()` will load. The two are instances of
the proof modules, not of the specifications, so that their lemmas can be cited
by `WyostatSystem_proofs`. `ControlHolds` and `ConversationHolds` say that the
system implements both.

What only the composition shows: a moved relay reports the target, the
thermostat obeys its own report, and that may move a relay. In heating the
lockout breaks the circle. In cooling nothing does, since `set_ac` has no
lockout: two different targets on their way at once keep the compressor
switching with every other message for ever. `RestUnlessCooling` and
`RefreshesUnlessCooling` therefore exclude cooling. `OffReachesRelays` asks that
nothing was on its way when *off* was pressed, because the mode report of
`requestmode_cb`, taken before, returns after it and undoes it.

`MCWyostatSystem` bounds the disturbances and Node-RED's queue, and remembers
`asked` and `off`.

### Keepalive: PubSubClient's connection
`WyostatMqtt` lets a link die and be noticed at some moment; this module says
when. Times are ages, counted up by `Tick`, which stops at the longest pass
(`MaxPass`) or read (`MQTT_SOCKET_TIMEOUT`). The peer is alive and answers
within `MaxDelay`, silent (gone without a word, perhaps inside a packet), or
closed.

| Code (`libraries/pubsubclient/src/PubSubClient.cpp`) | Model |
|---|---|
| `connect()` | `Connect`, then `Connected` or `ConnectFails` |
| `loop()`: `connected()`, the time-out, the ping | `NoticeClosed`, `TimesOut`, `Ping` with `After` |
| `loop()`: what it reads | `LoopReadsNothing`, `LoopReadsMessage` (the callback may publish), `LoopSkipsMessage` (longer than the buffer, counts as no activity), `LoopReadsPingresp` |
| `readByte()` waiting for the rest of a packet | state `stalled`, `StallEnds` |
| `publish()` | `Publish`: activity whatever becomes of the bytes |

`heard` and `quiet` are history variables: since the broker heard of the client,
and since the client read a packet.

### MqttStat: the first MQTT firmware
A callback stores and commits one set point, then looks at the pair and may
store and commit the other: `SettemploCb` → commit → `LoGuard` → commit, with
`resume` saying where `commit()` returns to. `Control` is one pass's decision.

### ThermoCentral: the Adafruit IO firmware
`io.run()` hands over any number of messages (`pc = "io"`), then a pass goes
`sense` → `heater` → `cooler` → `buttons`. Bytes are bytes: `EEPROM.write` takes
the int modulo 256 and 255 means empty. The handlers assign the set point after
`commit()`; nothing reads it in between and a power failure forgets it, so the
assignment is part of the handler's action.

`orderly` is a history variable about set points and readings since power-up. It
stays true as long as in every pass the low set point is not above the high one,
nor, with the compressor running, above the high one of the pass before
(`cooledTo`; both are in `InOrder`), and no reading is colder than the last by more
than the gap (`Gently`). Where it is false the code may leave a burning furnace
without its blower, and TLC finds it do so when any one of the three conditions is
dropped:

* crossed set points: both sources run, and the one that stops takes the blower;
* set points in order and a steady room: at 75 degrees with 60/70 the compressor
  runs, one `io.run()` brings 80/82, the heater's half lights furnace and blower
  (428-434) and the cooler's half stops compressor and blower (464-470);
* a room that falls through the dead band between two passes (the filter makes
  that unlikely above 45 degrees).

### CentralFeeds: ThermoCentral and its feed, packet by packet
The set point handler and buttons of the sketch, `AdafruitIO::status()`, `run()`
and `mqttStatus()`, `Adafruit_MQTT::connect()`, `processPacketsUntil()`,
`processPackets()` and `ping()` over one socket and one buffer, with the server
beside them.

| Code (`libraries/Adafruit_*`) | Model |
|---|---|
| `status()` with the network down; `mqttStatus()` | `NoNetwork`, `AlreadyOpen`, `Connect` |
| `connect()`: CONNACK, three tries for each SUBACK | `ReadConnack`, `ConnackTimesOut`, `ReadSuback`, `SubackTimesOut` |
| a packet beside the awaited one | `DropPacket` |
| the rest of a PINGRESP, which has no bytes: `readPacket()` with `maxlen` 0 swallows all that comes | `ReadPingresp`, `ReadTrail`, `TrailEnds` (the buffer's old message is handled again) |
| `processPackets()`, `handleSetTempLo` | `ReadMessage`, `HandleSetTempLo` |
| `handleButtons`: set point and `save()` | `Press` |

`told` and `fresh` are history variables: what `connect()` learnt on this socket,
and whether the last message of the feed was handled. A feed that is written
while the client is away, or whose message was dropped, stays unread until it
changes again; `AgreesWithFeed` is about the other cases.

### StationLink: the way into the WiFi
`setup_wifi()` and what it stands on: WiFiManager, the station interface of the
ESP32 core, its event task. The radio is a library in binary form and external.

| Code | Model |
|---|---|
| `autoConnect`, `startConfigPortal`, `connectWifi` | places `first`, `portal`, `saved`, `trying`; `Result`, `Try` |
| `handleWifiSave`, `handleReset` | `Save`, `PowerCut` |
| `waitForConnectResult`: any status but two ends it | `Waiting`, `TenSeconds` |
| `_eventCallback` | `OnEvent`, `StatusAfter`; only `AUTH_EXPIRE` begins again |
| `setup_wifi`'s last loop, `mqtt_connect`, `mqtt_reconnect` | `Settle`, `MqttConnect`, `MqttLost` |

`trouble` is a history variable: since the power came the router was out of reach or
slow, or the credentials were not the right ones. A router that keeps ending the
session (`AUTH_EXPIRE`) for the ten seconds `autoConnect()` waits is slow in this sense.

What it shows: the portal has no timeout, so a router that is late after a power
failure leaves the house without control until a visitor comes; the first right
credentials may be refused on a stale status, the next are not; after
`setup_wifi()` an outage of the router is final, and `mqtt_reconnect()` holds the
relays where they are until the power is cut.

### The rest
`MCHvacControl` extends `HvacControl` with the assumption that the small degrees
still make every comparison go both ways; `MCCentralFeeds` bounds the disturbances
of `CentralFeeds`. The modules `*_proofs` hold the theorems. Operators whose name ends in
`_<What>` beside a definition (`SetFurnace_NoRecord`) are that definition with a
plausible bug; they are used by no specification and serve to test the properties.

## 3. The runs

| Run | Question | Bounds |
|---|---|---|
| `hvac_safety` | do the relays implement `RelayPlant`; compressor with blower; blower leaves a burning furnace only in the lockout; an idle blower only in the dead band of cooling; away survives a restart; the loop waits for nothing but the network; the lockout ends, overlap ends, off means off, a cold room is heated | 17 classes and NaN, lockout 2 s, payloads one below and one in range, a left-over byte 80; 292 thousand states |
| `hvac_toohot` | violation: the furnace goes off while the room is below the target | as `hvac_safety`, no NaN |
| `stat_safety` | one source with its blower, set points survive | range 3..5, payloads 2..6: both limits and all in between; NaN |
| `stat_crossing` | violation: the announced reset of a crossing does not happen | as `stat_safety` |
| `mqtt_dial` | one Connect brings both ends to agree for good; any report brings them in step and nothing under way takes them out; settings settle, queues drain | 3 disturbances or presses of Connect, 3 targets, drags to beyond both ends, two mode buttons, both injects; 593 thousand states |
| `mqtt_actopic` | violation: the compressor is announced on the furnace's topic | 2 disturbances or presses |
| `central_safety` | blower follows, opposed only when crossed, high set point survives, a steady room stops moving the relays | 17 classes and NaN, gap 2, readings that fall by less and by more than the gap, payloads in range, crossing, 255 and 260 (wraps); 128 thousand states |
| `keepalive_timing` | a live broker is not hung up on and hears in time; a dead link is found | keepalive 5, socket timeout 3, pass 1, answer within 2, backlog 2; 26 thousand states |
| `system` | loop and conversation together implement both; rest, *off* and Connect out of cooling | 2 disturbances, targets 4..7 with one slot at each end, temperatures from 5 to 6 degrees, lockout 1 s, 7 messages waiting for Node-RED; 406 thousand states |
| `feeds` | no feed forgotten, the sketch agrees with its feed when nothing is under way and ends with its value | 3 disturbances, 2 subscriptions, 2 tries, 3 values; 1.0 million states |
| `feeds_session` | violation: packets are handled on a socket without a session | no disturbance at all |
| `station_link` | the loop is reached again, an outage is final, the portal opens only in trouble and yields | none but one event per millisecond; 1.9 thousand states, all of them |

**Why the bounds are enough.** The code compares temperatures with a handful of
thresholds and nothing else; the degrees of `constants.h` are moved together so
that all thresholds remain, in order and with room on both sides. A lockout of
two seconds has ages below, at and above it; the only test is `>`. Dead time of
any length is stuttering. For messages: every hazard found here needs at most
two disturbances, or one and an earlier press of Connect, and the recovery from them (one of them may restart Node-RED
with both injects, the other the thermostat), and `Drags` go beyond both ends of
the dial. Two tries and two subscriptions are enough for a late answer to be
counted for another feed; the theorem `EveryFeedKnown` has no bound on either. In
`system` the two slots lie on either side of the room, so that an hour, a drag or
an echo moves the relays. `MaxTemp` and `Payloads` are parameters of the theorems as well, so
there they bound nothing. Queues are not bounded as such:
disturbances and presses of Connect are (`MaxEvents`), in `mqtt_dial` and `system`
alike. A third event in `mqtt_dial` is the press that has to set right what two
others left under way: a drag and an earlier press, say, whose targets differ.
(When the events are used up and the queues are empty nothing is left to happen,
so its cfg does not check for deadlock.) `MaxWaiting` in `system` holds a report back
until Node-RED has read some, which in cooling the circle would never let happen.
The times of `Keepalive` meet its `Roomy` with equality, and with the first bound
of `Roomy` one looser TLC finds `HealthyStaysUp` violated: the answer that comes as late as it may, behind a
full backlog, is among the behaviours. All its properties are proved for every choice
of times.

**Fairness.** `HvacControl`: `loop()` is called for ever by the Arduino core and
waits for nobody except in the two connecting loops, so `Loop` is weakly fair;
the DS3231 ticks; the broker accepts sooner or later (`Setup`, `Reconnect`).
Without that last assumption the code guarantees nothing, because connecting
blocks the relays, and `StationLink` says how far it is justified: `ControlGoesOn`
holds with the right credentials, a router in reach since the power came and
power that stays; after an outage it does not. `WyostatMqtt`: messages at the
head of a queue are handled, a dead link is noticed (`DeadLinkFound` of
`Keepalive`), reconnection and boot succeed, a drag ends; nobody has to press
anything. `WyostatSystem`: the same, with strong fairness of `Receive` (a message
overtaken by empty polls arrives all the same) and of `Tick` (the clock runs, but
no second passes while a message is on its way). `ThermoCentral`: the loop, and
strong fairness of `RunReturns`, since `run()` ends by its timeout however many
messages come. `CentralFeeds`: every wait ends by the packet or its timeout, the
loop goes on, the server answers, the Wi-Fi returns; strong fairness of `Reading`,
since a `run()` that finds a packet reads it. `StationLink`: the event task and
the loops run, an attempt that fails is reported; strong fairness of `Join` and
`MqttConnect`: a router or broker asked often enough accepts. Nobody has to
visit the portal.

## 4. The theorems

All are of the form `Spec => ...` (liveness of the control loop: `FairSpec` and
`LoopGoesOn`, a property of a run, `=> ...`) and hold for every value of the constants
under the named assumptions (`DegreesAssumption`, `LockoutAssumption`, `TimesAssumption`, the two
`SetPointAssumption`, `DialAssumption`, `SystemAssumption`, `FeedsAssumption`): defaults within the range, a natural lockout, set points
that fit a byte, at least one try.

* **HvacControl_proofs.** `IInv` = types, `ACNeedsFan`, `RecheckInv`,
  `PassInv`, `EepromInv`. `RecheckInv` is needed because the ignition happens one step after
  the heating branch has stopped the compressor: only if that still holds at
  `recheck` is the ignition a `RelayPlant!Ignite`. `EepromInv` ties the buffer to
  `away` and, outside a commit, the sector to the buffer; `AwaySurvivesRestart`
  alone is not inductive because it says nothing of the buffer. From `IInv`:
  `TypeCorrect`, `CompressorNeedsBlower`, `RestartKeepsAway`, the refinement
  `ImplementsPlant` (each action is an action of the plant or a stutter), and
  `BlowerLeavesInLockout`. `PassInv` adds that a pass reads the target twice only
  for a user at home and a mode that is not *off* (no message comes in between),
  which `BlowerIdlesInDeadBand` needs.
  Liveness: `HeldOverlapEnds`, `OffOpensRelays` and `ColdRoomIsHeated` hold of
  `FairSpec`, from `LoopGoesOn`, which `hvac_safety` checks and no prover here
  can: `OnlyConnectingWaits`, which says where steps are ENABLED (with it the
  fairness becomes `Scheduled`, which has no ENABLED), and `LockoutEnds`, for which
  seconds would have to be counted by induction. The argument: `PassesGoOn` (unless
  the power fails for ever, decisions go on for ever); under the property's
  hypothesis each relay moves one way only (`OffOpens`, `ColdHeats`), so that it
  comes to rest; while the furnace rests the lockout, once over, stays over
  (`LockoutStaysOver`); and the next decision then moves it.
  `ColdRoomIsHeated` asks for `HILOGAP >= 2` (the code has 4).
* **MqttStat_proofs.** `IInv` = types, `OneSourceWithBlower`, `EepromInv` (what
  loading the buffer would give is in force). `TypeCorrect`, `NeverBothSources`,
  `RestartKeepsSetPoints`, `NoRestWhenCrossed`.
* **ThermoCentral_proofs.** `IInv` adds to types and `BlowerFollows`: `CoolerDone`
  (a compressor that runs has a room above the high set point of the last pass,
  and after an orderly reading at most the gap below it: so the heater's half does
  not light the furnace beside it), `Exclusive` (orderly, never both sources),
  `HeaterDone` (after the heater's half a burning furnace has a room under the low
  set point, so that the compressor's half cannot join it while the set points of
  the pass are in order) and `EepromInv`.
  `TypeCorrect`, `BlowerFollowsSources`, `RestartKeepsHighSetPoint`,
  `OpposedNeedsCrossing`. `HysteresisHolds` is a liveness property, but one that
  needs no fairness: in a steady room the heater and the compressor each move at
  most one way (`OneWay`), so they come to rest, and the blower with them.
* **Keepalive_proofs.** `IInv` = types, `TimesInv` (an activity time exceeds the
  keepalive by at most the pass under way and one stalled read), `QuietInv` (the
  silence is no older than the activity, or one period more while a ping is
  outstanding, since the second overdue period ends in `TimesOut`), `PeerInv`
  (a read stalls only when the peer is not alive; an answer is owed only by one
  that is) and `HeardInv`.
  `TypeCorrect`, `BrokerHearsInTime`, `DeadLinkIsFound`. None of the properties
  is inductive alone: each speaks of a history variable that only the activity
  times bound. `LiveBrokerIsKept` needs `PingInv` beside `IInv`: the answer to an
  outstanding ping, wherever it is in the backlog, has fewer passes and less delay
  before it than the period has time left.
* **WyostatMqtt_proofs.** `TypeCorrect`: the clamp of the dial and the range check
  keep every target in every queue in range. Sequences of messages are handled by
  lemmas about `For`, `Sent` and `Then`. `InStep` says what a queue *comes to*: the
  last value in it for a topic, or else what its reader has. Two values that
  may differ now are in step if they come to the same. A step that appends to
  both queues (`PublishingAll`) or takes the head of one keeps that; hence
  `ReportsRefresh`, `InStepStays` and, for queues that are empty, `QuietDialIsRight`,
  which is `ConnectRefreshes` without its liveness. `DialKeepsInStep` joins the first two.
* **WyostatSystem_proofs.** `SInv` = `HvacControl`'s `IInv`, `WyostatMqtt`'s
  `TypeOK` and `LinkInv` (a processor out of `setup()` has left the link of a restart). Step by step the system
  does a step of either module or leaves it alone: `ImplementsControl`,
  `ImplementsConversation`. The second needs `RecheckInv` of `IInv` again:
  `MoveRelays` asks that a furnace is lit only in heating and never beside the
  compressor. Through the two refinements what is proved of the parts holds of the
  whole: `SystemIsSafe`, `SystemStaysInStep`.
* **CentralFeeds_proofs.** `IInv` adds to the types `SoFarKnown`: the feeds up
  to the one in hand are subscribed or on their way (each try sends before it
  waits), so that it does not matter whose answer ends the wait. `TypeCorrect`, `EveryFeedKnown`.
  `FeedInv`, for `FeedAgreesWhenQuiet`, adds that the last set point on its way to the
  sketch is the one the feed has (`LastIsFeed`), that a sketch that has handled it is
  subscribed and holds nothing else in the buffer that may be handled once more
  (`FreshIsKept`), and that handlers run only after `setup()`.
* **StationLink_proofs.** `IInv` = types, `NothingUnderWay` (with a status other
  than CONNECTED after `setup_wifi()` the radio is idle and no good news waits) and
  `BadNewsIsTrue` (news of a loss under a status that still says CONNECTED comes
  from an idle radio, so that reading it leaves nothing under way).
  `TypeCorrect`, `OutageStays`. `NobodyIsNeeded` rests on `TroubleInv`: without trouble the
  station joins, has joined, or is about to hear that it may join again, so that
  no wait ends in failure.

**Only model-checked** is liveness that needs fairness and an induction:
`ConnectRefreshes`, `SettingsSettle`, `NoEchoStorm`, `RestUnlessCooling`,
`OffReachesRelays`, `RefreshesUnlessCooling`, `AgreesWithFeed` (queues of any length
drain), `LoopGoesOn` (seconds add up, and it speaks of ENABLED itself); and what
rests on ENABLED alone: `ControlGoesOn` and `PortalYields` of `StationLink`, whose
model is finite without any bound on constants, so that its run is complete. Induction over
lengths and numbers of steps takes an operator as a parameter, which no
prover here can instantiate, and ENABLED is opaque to them all. Every safety property
the runs check is proved. `NoRestWhenCrossed`, `QuietDialIsRight` and
the `TypeCorrect` of `StationLink` are theorems without a run of their own.

## 5. Where the code disagrees with itself

1. `OpenThermostat.ino:865`: "too hot" and "too cold" overlap; the furnace is
   switched off one degree below the target, and "just right" is reached only in a
   pass in which the hour turns between its two readings of the target.
2. `mqtt_stat.ino:92`: "Lo > Hi!  Resetting Hi to" 99 is printed and refused,
   since the accepted range is strict. The set points stay crossed, and the house
   is heated and cooled in turn.
3. `OpenThermostat.ino:464`: the compressor's state is published as the furnace's.

4. `libraries/Adafruit_IO_Arduino/src/AdafruitIO.cpp:232`: an open socket is taken
   for a connection although `connect()` has failed half way, while
   `Adafruit_MQTT.h:171` says "connected to the MQTT server". The feeds are then
   never subscribed, and the ping every 60 s keeps the socket.

Seen while modelling, without a run of its own: `run()` does not keep the result
of `mqttStatus()`, so a refusal after `setup()` is retried at once; the guards
`if(_err_sub)` and `if(_throttle_sub)` of `AdafruitIO::connect()` are inverted and
the two subscriptions never made; the result of `ping()` is not looked at; an away
switch of the dashboard is never told of `wyostat.away`; credentials submitted
while the station is already connected are accepted unread; whoever keeps pressing
Connect may keep two targets alternating; in ThermoCentral set points that move
up together, in order, may leave the furnace without its blower.

## 6. Not modelled

Wording, drawing and serial output; the topics `wyostat.temp` and
`wyostat.fan_state`, which no modelled reader acts on; failures of the flash
operations themselves; length and content of payloads that are no number, word or
mode; payload conversions are modelled by their result; of
PubSubClient the byte layout of packets, `subscribe`, `publish_P`, QoS 1 and the
wrap of `millis()` after 49 days; of the Adafruit clients QoS 1, wills, groups and
the HTTP side; of WiFiManager static addresses, WPS, scans and pages; the time
zone (`set_timezone_from_ip`: the DS3231 is set only at a start whose first site
answers with `utc`, and the methods of the clock are not in the repository).

Nearly all of the repository's lines are the ESP32 SDK's headers, its core and
libraries, icons and board files: declarations and third-party code that the
firmwares do not reach, or reach through the few functions modelled here. The
program of this repository is the three sketches and the flow, and the state
changes of all four are in the modules.

## 7. Plan

Order of the plan: relays first, since a wrong relay is the failure that
matters; then what the user set; then the conversation; then the older firmwares
and the connections; then the composition. Done: all modules above, their runs
and the theorems. What could follow:

1. Theorems: liveness of the conversation from `Scheduled`-like hypotheses, as far as
   it does not need an induction over the length of a queue.
2. Pure operators with reference definitions: TMP102 conversion, UTC offset and
   `jsonLookup`, RTClib's calendar, `get_target_index` over the hours of a day.
3. Two thermostats, or both MQTT firmwares, at one broker: both connect as
   "ESP32Client", and a broker hangs up on the first when the second comes.
