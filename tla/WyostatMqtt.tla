----------------------------- MODULE WyostatMqtt -----------------------------
(***************************************************************************)
(* The thermostat, the broker and the Node-RED dial, talking on the        *)
(* "wyostat." topics.                                                      *)
(*                                                                         *)
(* The thermostat subscribes to topics it publishes itself, so the broker  *)
(* sends its own reports back to it among the messages of the dial, and it *)
(* obeys them as it obeys the dial's.  Everything is QoS 0 in a clean      *)
(* session: what the broker holds for a client is lost with the connection *)
(* and what a client publishes into a dead connection is lost too.  The    *)
(* broker and Node-RED run on one host and do not lose each other.         *)
(*                                                                         *)
(* The relays move here for no stated reason, and the away setting comes   *)
(* back from a restart in no stated way: HvacControl has the reasons, and  *)
(* WyostatSystem puts the two together.  Each move of a relay publishes a  *)
(* report.  The "wyostat.temp" topic is left out.  Nothing bounds the      *)
(* behaviours here; MCWyostatMqtt counts the disturbances.                 *)
(***************************************************************************)
EXTENDS Integers, Sequences

CONSTANTS
    LOWEST_TEMP, HIGHEST_TEMP,   \* accepted targets, also the ends of the dial
    NightTemp, DayTemp,          \* the initial targettemps
    Drags,                       \* bound: where a drag may put the dial
    PressedModes,                \* bound: the mode buttons a user may press
    Injected                     \* bound: the injects that may get through at a start

ASSUME DialAssumption ==
    /\ LOWEST_TEMP \in Nat /\ HIGHEST_TEMP \in Nat
    /\ NightTemp \in LOWEST_TEMP .. HIGHEST_TEMP
    /\ DayTemp \in LOWEST_TEMP .. HIGHEST_TEMP
    /\ Drags \subseteq Int
    /\ PressedModes \subseteq {"heating", "cooling", "off"}
    /\ Injected \subseteq {"heating", "cooling"}

VARIABLES
    targettemps, index, away, hvacmode,   \* the thermostat's settings
    furnace_state, ac_state,              \* its relays, as it reports them
    link,       \* the thermostat's connection: see Links
    toStat,     \* what the broker still has to send to the thermostat
    toDial,     \* ... and to Node-RED
    dial,       \* the template's state
    drag,       \* the drag in progress: its startTemperature, or NoDrag
    monitor     \* the last payload on the topic wyostat.furnace_state

stat == <<targettemps, index, away, hvacmode, furnace_state, ac_state>>
queues == <<toStat, toDial, monitor>>
vars == <<stat, link, queues, dial, drag>>

Temps == LOWEST_TEMP .. HIGHEST_TEMP
Modes == {"heating", "cooling", "off"}
HvacStates == {"heating", "cooling", "off"}
Links == {"up",      \* connected
          "dead",    \* the broker has dropped it and the thermostat has not noticed
          "down",    \* noticed: mqtt_reconnect() blocks the loop
          "boot"}    \* restarted, in setup()
NoDrag == -1

\* A message is its topic and its payload.
Message(topic, value) == <<topic, value>>
Topic(m) == m[1]
Value(m) == m[2]

Messages ==
    ({"targettemp"} \X Temps) \cup ({"away"} \X BOOLEAN) \cup ({"hvacmode"} \X Modes)
    \cup ({"hvac_state"} \X HvacStates)
    \cup ({"requesttemp", "requesttargettemp", "requeststate"} \X {""})

\* subscribe() covers the first n_topic_listeners = 6 listeners; nobody listens
\* to wyostat.requestmode.
StatTopics == {"targettemp", "away", "hvacmode", "requesttemp", "requesttargettemp", "requeststate"}
DialTopics == {"targettemp", "hvac_state"}

StatMessages == {m \in Messages : Topic(m) \in StatTopics}
DialMessages == {m \in Messages : Topic(m) \in DialTopics}

TypeOK ==
    /\ targettemps \in [{0, 1} -> Temps] /\ index \in {0, 1}
    /\ away \in BOOLEAN /\ hvacmode \in Modes
    /\ furnace_state \in BOOLEAN /\ ac_state \in BOOLEAN
    /\ link \in Links
    /\ toStat \in Seq(StatMessages) /\ toDial \in Seq(DialMessages)
    /\ dial \in [target : Temps, away : BOOLEAN, hvac : HvacStates]
    /\ drag \in Temps \cup {NoDrag}
    /\ monitor \in {"", "on", "off", "0"}

-----------------------------------------------------------------------------
(* The broker.                                                             *)

\* What each client gets of a publication, and of one after the other.
For(topics, m) == IF Topic(m) \in topics THEN <<m>> ELSE <<>>
Sent(m) == [stat |-> For(StatTopics, m), dial |-> For(DialTopics, m)]
Then(p, q) == [stat |-> p.stat \o q.stat, dial |-> p.dial \o q.dial]

\* The thermostat publishes: its own subscriptions are served like any other.
StatPublishes(p, rest) ==
    IF link' = "up"
    THEN toStat' = rest \o p.stat /\ toDial' = toDial \o p.dial
    ELSE toStat' = rest /\ toDial' = toDial

\* Node-RED publishes; without a session the thermostat's copy is dropped.
DialPublishes(p) ==
    /\ toStat' = IF link = "up" THEN toStat \o p.stat ELSE toStat
    /\ toDial' = toDial \o p.dial

-----------------------------------------------------------------------------
(* The thermostat.                                                         *)

get_targettemp == targettemps[index]

HvacState(furnace, ac) == IF ac THEN "cooling" ELSE IF furnace THEN "heating" ELSE "off"
hvac_state == HvacState(furnace_state, ac_state)

StateReport_NoTarget(furnace, ac) ==     \* mutant: the report leaves the target out
    Then(Sent(Message("hvac_state", HvacState(furnace, ac))), Sent(Message("away", away)))

\* publish_hvac_state(), with the relays in a given position.
StateReport(furnace, ac) ==
    Then(Then(Sent(Message("hvac_state", HvacState(furnace, ac))), Sent(Message("away", away))),
         Sent(Message("targettemp", get_targettemp)))

NewDial == [target |-> LOWEST_TEMP, away |-> FALSE, hvac |-> "off"]

Init ==
    /\ targettemps = [i \in {0, 1} |-> IF i = 0 THEN NightTemp ELSE DayTemp]
    /\ index \in {0, 1}
    /\ away \in BOOLEAN /\ hvacmode = "heating"
    /\ furnace_state = FALSE /\ ac_state = FALSE
    /\ link = "boot"
    /\ toStat = <<>> /\ toDial = <<>>
    /\ dial = NewDial /\ drag = NoDrag
    /\ monitor = ""

\* One message per pass, by the first listener of its topic.
Arrives(topic) == link = "up" /\ toStat # <<>> /\ Topic(Head(toStat)) = topic

\* Mutant: the setting is confirmed by a report.
TargettempCb_Confirms ==
    /\ Arrives("targettemp")
    /\ targettemps' = [targettemps EXCEPT ![index] = Value(Head(toStat))]
    /\ UNCHANGED <<link, index, away, hvacmode, furnace_state, ac_state, dial, drag, monitor>>
    /\ StatPublishes(Sent(Message("targettemp", Value(Head(toStat)))), Tail(toStat))

\* The value goes to the slot of the hour it arrives in.
TargettempCb ==
    /\ Arrives("targettemp")
    /\ targettemps' = IF Value(Head(toStat)) \in Temps
                      THEN [targettemps EXCEPT ![index] = Value(Head(toStat))]
                      ELSE targettemps
    /\ toStat' = Tail(toStat)
    /\ UNCHANGED <<link, index, away, hvacmode, furnace_state, ac_state, toDial, dial, drag, monitor>>

\* Mutant: the handler reports, and before it sets.
AwayCb_ReportsFirst ==
    /\ Arrives("away")
    /\ away' = Value(Head(toStat))
    /\ UNCHANGED <<link, targettemps, index, hvacmode, furnace_state, ac_state, dial, drag, monitor>>
    /\ StatPublishes(StateReport(furnace_state, ac_state), Tail(toStat))

AwayCb ==
    /\ Arrives("away")
    /\ away' = Value(Head(toStat))
    /\ toStat' = Tail(toStat)
    /\ UNCHANGED <<link, targettemps, index, hvacmode, furnace_state, ac_state, toDial, dial, drag, monitor>>

HvacmodeCb ==
    /\ Arrives("hvacmode")
    /\ hvacmode' = Value(Head(toStat))
    /\ toStat' = Tail(toStat)
    /\ UNCHANGED <<link, targettemps, index, away, furnace_state, ac_state, toDial, dial, drag, monitor>>

\* requesttemp_cb and requesttargettemp_cb.
RequestCb ==
    /\ Arrives("requesttemp") \/ Arrives("requesttargettemp")
    /\ UNCHANGED <<stat, link, dial, drag, monitor>>
    /\ StatPublishes(StateReport(furnace_state, ac_state), Tail(toStat))

\* wyostat.requeststate reaches requestmode_listener, the first one with that
\* topic; requeststate_cb is behind it and is never called.
RequestmodeCb ==
    /\ Arrives("requeststate")
    /\ UNCHANGED <<stat, link, dial, drag, monitor>>
    /\ StatPublishes(Then(Sent(Message("hvacmode", hvacmode)), StateReport(furnace_state, ac_state)),
                     Tail(toStat))

Handle == TargettempCb \/ AwayCb \/ HvacmodeCb \/ RequestCb \/ RequestmodeCb

OnOff(state) == IF state THEN "on" ELSE "off"

MoveReports_Early(furnace, ac) ==    \* mutant: the report goes out before the move
    StateReport(furnace_state, ac_state)

\* The reports of a decision that moves the relays from where they are: one
\* for each relay that moved, in the order the branch calls set_furnace() and
\* set_ac().  The other relay is still where it was in the first of two.
MoveReports(furnace, ac) ==
    LET both == furnace # furnace_state /\ ac # ac_state
        first == IF hvacmode = "cooling" THEN StateReport(furnace, ac_state)
                                         ELSE StateReport(furnace_state, ac)
    IN IF both THEN Then(first, StateReport(furnace, ac)) ELSE StateReport(furnace, ac)

\* What set_furnace() and set_ac() put on the topic wyostat.furnace_state: the
\* last of them wins.
Announced(furnace, ac) ==
    IF ac # ac_state /\ (hvacmode = "cooling" \/ furnace = furnace_state)
    THEN OnOff(ac) ELSE OnOff(furnace)

\* One decision of the loop moves one relay or both.  A burning furnace may
\* outlive its mode; the loop never lights it in another, nor beside the
\* compressor, which only cooling starts.
MoveRelays(furnace, ac) ==
    /\ link # "boot"
    /\ furnace # furnace_state \/ ac # ac_state
    /\ furnace /\ ~furnace_state => hvacmode = "heating" /\ ~ac
    /\ ac => hvacmode = "cooling"
    /\ furnace_state' = furnace /\ ac_state' = ac
    /\ monitor' = IF link = "up" THEN Announced(furnace, ac) ELSE monitor
    /\ UNCHANGED <<link, targettemps, index, away, hvacmode, dial, drag>>
    /\ StatPublishes(MoveReports(furnace, ac), toStat)

HourTurns ==
    /\ index' = 1 - index
    /\ UNCHANGED <<targettemps, away, hvacmode, furnace_state, ac_state, link, queues, dial, drag>>

-----------------------------------------------------------------------------
(* The connection.                                                         *)

LinkDies ==
    /\ link = "up"
    /\ link' = "dead" /\ toStat' = <<>>
    /\ UNCHANGED <<stat, toDial, dial, drag, monitor>>

\* connected() turns false, at the latest when the keepalive runs out.
Notice ==
    /\ link = "dead" /\ link' = "down"
    /\ UNCHANGED <<stat, queues, dial, drag>>

\* mqtt_reconnect() subscribes again and reports nothing.
Reconnect ==
    /\ link = "down" /\ link' = "up"
    /\ UNCHANGED <<stat, queues, dial, drag>>

\* The targets and the mode are lost.  The away setting comes back from the
\* EEPROM, unless the power failed inside commit(): which value is then found
\* is left open here.
PowerCut ==
    /\ away' \in BOOLEAN
    /\ link' = "boot" /\ toStat' = <<>>
    /\ targettemps' = [i \in {0, 1} |-> IF i = 0 THEN NightTemp ELSE DayTemp]
    /\ hvacmode' = "heating"
    /\ furnace_state' = FALSE /\ ac_state' = FALSE
    /\ UNCHANGED <<index, toDial, dial, drag, monitor>>

\* setup() ends in mqtt_connect(), which announces relays and target.
Boot ==
    /\ link = "boot" /\ link' = "up"
    /\ monitor' = "0"
    /\ UNCHANGED <<stat, dial, drag>>
    /\ StatPublishes(Sent(Message("targettemp", get_targettemp)), toStat)

-----------------------------------------------------------------------------
(* The dial and the buttons of the Node-RED flow.                          *)

restrictTargetTemperature_No(t) == t     \* mutant: the range is not checked
restrictTargetTemperature(t) ==
    IF t < LOWEST_TEMP THEN LOWEST_TEMP ELSE IF t > HIGHEST_TEMP THEN HIGHEST_TEMP ELSE t

\* A message moves the dial even under the user's finger.
DialReceives ==
    /\ toDial # <<>>
    /\ dial' = IF Topic(Head(toDial)) = "targettemp"
               THEN [dial EXCEPT !.target = restrictTargetTemperature(Value(Head(toDial)))]
               ELSE [dial EXCEPT !.hvac = Value(Head(toDial))]
    /\ toDial' = Tail(toDial)
    /\ UNCHANGED <<stat, link, toStat, drag, monitor>>

DragStart ==
    /\ drag = NoDrag
    /\ drag' = dial.target
    /\ UNCHANGED <<stat, link, queues, dial>>

DragMove ==
    /\ drag # NoDrag
    /\ \E t \in Drags : dial' = [dial EXCEPT !.target = restrictTargetTemperature(t)]
    /\ UNCHANGED <<stat, link, queues, drag>>

\* Only a dial that ends elsewhere than it started is published.
DragEnd ==
    /\ drag # NoDrag
    /\ drag' = NoDrag
    /\ IF dial.target # drag
       THEN DialPublishes(Sent(Message("targettemp", dial.target)))
       ELSE UNCHANGED <<toStat, toDial>>
    /\ UNCHANGED <<stat, link, dial, monitor>>

PressAway ==
    /\ \E value \in BOOLEAN :
          /\ dial' = [dial EXCEPT !.away = value]
          /\ DialPublishes(Sent(Message("away", value)))
    /\ UNCHANGED <<stat, link, drag, monitor>>

PressMode ==
    /\ \E mode \in PressedModes : DialPublishes(Sent(Message("hvacmode", mode)))
    /\ UNCHANGED <<stat, link, dial, drag, monitor>>

\* The Connect button.  (The inject that is wired to it every 60 s does not
\* press it: its passthru is false.)
Connect ==
    /\ DialPublishes(Then(Then(Sent(Message("requesttemp", "")), Sent(Message("requeststate", ""))),
                          Sent(Message("requesttargettemp", ""))))
    /\ UNCHANGED <<stat, link, dial, drag, monitor>>

\* The two injects with "once" set send cooling and heating, as far as the
\* connection to the broker is up by then, in the order Node-RED happens to
\* start them.
Starts ==
    LET Inject(mode) == Message("hvacmode", mode)
    IN {<<>>} \cup {<<Inject(mode)>> : mode \in Injected}
       \cup {<<Inject(p[1]), Inject(p[2])>> : p \in {q \in Injected \X Injected : q[1] # q[2]}}

\* Node-RED is started again, or the flow deployed again, and the page is
\* loaded anew.
Deploy ==
    /\ \E injects \in Starts : toStat' = IF link = "up" THEN toStat \o injects ELSE toStat
    /\ toDial' = <<>>
    /\ dial' = NewDial /\ drag' = NoDrag
    /\ UNCHANGED <<stat, link, monitor>>

-----------------------------------------------------------------------------

\* What the user, the plant, the clock and the network do unasked.
Disturbance ==
    \/ \E furnace, ac \in BOOLEAN : MoveRelays(furnace, ac)
    \/ HourTurns \/ LinkDies \/ PowerCut
    \/ DragStart \/ PressAway \/ PressMode \/ Deploy

\* What the three programs do about it.
Response ==
    \/ Handle \/ Notice \/ Reconnect \/ Boot
    \/ DialReceives \/ DragMove \/ DragEnd

Next == Disturbance \/ Response \/ Connect

Spec == Init /\ [][Next]_vars

\* The loop handles what arrives, the keepalive finds a dead connection, the
\* broker accepts the thermostat again, and a drag ends.  Nobody has to press
\* Connect.
Fairness ==
    /\ WF_vars(Handle) /\ WF_vars(Notice) /\ WF_vars(Reconnect) /\ WF_vars(Boot)
    /\ WF_vars(DialReceives) /\ WF_vars(DragEnd)

-----------------------------------------------------------------------------
(* Properties.                                                             *)

\* The thermostat obeys its own reports, old ones included: two targets or two
\* away settings may be on their way at once, and each arrives after the other.
\* Once nobody disturbs it and nobody presses Connect any more, the settings come
\* to rest whatever is then under way.  (Not sooner: each press of Connect while
\* an older target is under way reports the one in force behind it, so presses
\* that go on keep the two alternating.)
SettingsSettle ==
    <>[][Response]_vars => <>[][UNCHANGED <<targettemps, away, hvacmode>>]_vars

\* The thermostat listens to its own reports and does not answer them: after
\* finitely many disturbances and presses the queues drain, no echo feeds itself.
NoEchoStorm == []<>(toStat = <<>> /\ toDial = <<>>)

\* What the receiver of a queue, who holds "now", will hold on a topic when the
\* queue is empty: the last value in it.
EndsWith(value, topic, queue) ==
    \E i \in DOMAIN queue :
        /\ queue[i] = Message(topic, value)
        /\ \A j \in DOMAIN queue : j > i => Topic(queue[j]) # topic
Silent(topic, queue) == \A i \in DOMAIN queue : Topic(queue[i]) # topic
ComesTo(value, topic, queue, now) ==
    EndsWith(value, topic, queue) \/ (Silent(topic, queue) /\ value = now)

\* What is under way brings the thermostat and the dial to the same target, and
\* the dial to the state in force.
InStep ==
    /\ \E t \in Temps : /\ ComesTo(t, "targettemp", toStat, get_targettemp)
                         /\ ComesTo(t, "targettemp", toDial, dial.target)
    /\ ComesTo(hvac_state, "hvac_state", toDial, dial.hvac)

Reports == RequestCb \/ RequestmodeCb \/ \E furnace, ac \in BOOLEAN : MoveRelays(furnace, ac)
Undisturbed == link' = "up" /\ UNCHANGED index /\ ~DragMove /\ ~Deploy

\* Whatever was under way, lost or overtaken before: a report that gets through
\* brings thermostat and dial in step, one that a decision of the loop publishes
\* between two messages as well as one that was asked for.
ReportsBringInStep == [][link = "up" /\ Reports => InStep']_vars

\* Once in step they stay so while the connection lasts and the hour does, but
\* for a finger on the dial and a new page: the thermostat's reports come back
\* to it among the dial's messages and either end obeys whatever arrives, yet
\* no order of them sets the two apart.
StaysInStep == [][InStep /\ link = "up" /\ Undisturbed => InStep']_vars

\* Both: a report sets dial and thermostat right, and they stay right.
KeepsInStep == ReportsBringInStep /\ StaysInStep

\* What the announcements of mqtt_connect say: the topic wyostat.furnace_state
\* carries the furnace's state, wyostat.ac_state the compressor's.
FurnaceTopicTellsFurnace ==
    [][monitor' # monitor => (monitor' = "on") = furnace_state']_vars
===============================================================================
