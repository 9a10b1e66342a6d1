---------------------------- MODULE WyostatSystem ----------------------------
(***************************************************************************)
(* The thermostat with its dashboard: HvacControl and WyostatMqtt as one   *)
(* system.  The messages the loop takes are those the broker holds for it, *)
(* and the relays move, and are reported, because the loop decides so.     *)
(*                                                                         *)
(* The two modules share the settings, the relays and the clock.  What     *)
(* HvacControl calls connected is a link that is up, or dead and not yet   *)
(* noticed; the away setting WyostatMqtt speaks of is, while the processor *)
(* restarts, the one setup() will load.                                    *)
(***************************************************************************)
EXTENDS Integers, Sequences

CONSTANTS
    LOWEST_TEMP, HIGHEST_TEMP, HILOGAP, AWAYMIN, AWAYMAX, MIN_CHANGE_DURATION,
    NightTemp, DayTemp, MinTemp, MaxTemp, SensorMayFail, Leftover,     \* see HvacControl
    Drags, PressedModes, Injected                       \* see WyostatMqtt

ASSUME SystemAssumption ==
    /\ LOWEST_TEMP \in Nat /\ HIGHEST_TEMP \in Nat
    /\ NightTemp \in LOWEST_TEMP .. HIGHEST_TEMP /\ DayTemp \in LOWEST_TEMP .. HIGHEST_TEMP
    /\ HILOGAP \in Nat /\ AWAYMIN \in Nat /\ AWAYMAX \in Nat
    /\ MinTemp \in Nat /\ MaxTemp \in Nat /\ MinTemp < MaxTemp
    /\ SensorMayFail \in BOOLEAN /\ Leftover \subseteq 0 .. 255
    /\ MIN_CHANGE_DURATION \in Nat
    /\ Drags \subseteq Int /\ PressedModes \subseteq {"heating", "cooling", "off"}
    /\ Injected \subseteq {"heating", "cooling"}

VARIABLES
    pc, furnace_state, ac_state, fan_state, away, hvacmode, targettemps,
    localtemp, index, age, ram, flash,                  \* the thermostat
    link, toStat, toDial, dial, drag, monitor           \* the conversation

thermostat == <<pc, furnace_state, ac_state, fan_state, away, hvacmode, targettemps,
                localtemp, index, age, ram, flash>>
conversation == <<link, toStat, toDial, dial, drag, monitor>>
vars == <<thermostat, conversation>>

connected == link \in {"up", "dead"}

\* The two modules, with the lemmas that WyostatSystem_proofs builds on.
Hvac == INSTANCE HvacControl_proofs WITH
    Payloads <- LOWEST_TEMP .. HIGHEST_TEMP

AwayInForce == IF pc = "setup" THEN Hvac!Loaded(flash) ELSE away

Mqtt == INSTANCE WyostatMqtt_proofs WITH
    away <- AwayInForce

Init ==
    /\ link = "boot" /\ toStat = <<>> /\ toDial = <<>>
    /\ Hvac!Init
    /\ dial = Mqtt!NewDial /\ drag = Mqtt!NoDrag
    /\ monitor = ""

-----------------------------------------------------------------------------
(* Time.  Messages take milliseconds, the lockout a minute: bound: no      *)
(* second passes while a message is on its way to the thermostat.          *)

Prompt == toStat = <<>>

Tick == Prompt /\ UNCHANGED conversation /\ Hvac!Tick

HourTurns == UNCHANGED conversation /\ Hvac!HourTurns

-----------------------------------------------------------------------------
(* Power and connection.                                                   *)

PowerCut ==
    /\ link' = "boot" /\ toStat' = <<>>
    /\ UNCHANGED <<toDial, dial, drag, monitor>>
    /\ Hvac!PowerCut

\* setup(): mqtt_connect() announces the target when the settings are loaded.
Boot ==
    /\ link' = "up"
    /\ Hvac!Setup
    /\ Mqtt!Boot

LinkDies == UNCHANGED thermostat /\ Mqtt!LinkDies

Notice == link' = "down" /\ Hvac!Disconnect /\ Mqtt!Notice

Reconnect_BehindTheLoop ==     \* mutant: the client connects again by itself
    link' = "up" /\ UNCHANGED thermostat /\ Mqtt!Reconnect
Reconnect == link' = "up" /\ Hvac!Reconnect /\ Mqtt!Reconnect

-----------------------------------------------------------------------------
(* One pass of the loop.                                                   *)

Sense == UNCHANGED <<localtemp, conversation>> /\ Hvac!Sense

\* The room changes under the sensor.
Drift == UNCHANGED conversation /\ Hvac!Sense /\ localtemp' # localtemp

\* A message on its way may not have arrived yet.
PollNothing == UNCHANGED conversation /\ Hvac!PollNothing

TargettempCb ==
    /\ Mqtt!Arrives("targettemp")
    /\ toStat' = Tail(toStat)
    /\ UNCHANGED <<link, toDial, dial, drag, monitor>>
    /\ Hvac!TargettempCb(Mqtt!Value(Head(toStat)))

AwayCb ==
    /\ Mqtt!Arrives("away")
    /\ toStat' = Tail(toStat)
    /\ UNCHANGED <<link, toDial, dial, drag, monitor>>
    /\ Hvac!AwayCb(Mqtt!Value(Head(toStat)))

HvacmodeCb ==
    /\ Mqtt!Arrives("hvacmode")
    /\ toStat' = Tail(toStat)
    /\ UNCHANGED <<link, toDial, dial, drag, monitor>>
    /\ Hvac!HvacmodeCb(Mqtt!Value(Head(toStat)))

RequestCb == UNCHANGED link /\ Hvac!PollNothing /\ (Mqtt!RequestCb \/ Mqtt!RequestmodeCb)

Receive == TargettempCb \/ AwayCb \/ HvacmodeCb \/ RequestCb

Commit == UNCHANGED conversation /\ (Hvac!EraseSector \/ Hvac!WriteSector)

\* Mutant: every decision is reported.
Decide_ReportsAlways ==
    /\ UNCHANGED <<link, dial, drag, monitor>>
    /\ Hvac!Decide
    /\ Mqtt!StatPublishes(Mqtt!MoveReports(furnace_state', ac_state'), toStat)

\* set_furnace() and set_ac() publish when, and only when, they move a relay.
Decide ==
    /\ UNCHANGED <<link, dial, drag>>
    /\ Hvac!Decide
    /\ IF UNCHANGED <<furnace_state, ac_state>>
       THEN UNCHANGED <<toStat, toDial, monitor>>
       ELSE /\ monitor' = IF link = "up" THEN Mqtt!Announced(furnace_state', ac_state') ELSE monitor
            /\ Mqtt!StatPublishes(Mqtt!MoveReports(furnace_state', ac_state'), toStat)

\* The dashboard.
DialDoes(action) == UNCHANGED thermostat /\ action

-----------------------------------------------------------------------------

Disturbance ==
    \/ HourTurns \/ PowerCut \/ LinkDies \/ Drift
    \/ DialDoes(Mqtt!DragStart) \/ DialDoes(Mqtt!PressAway)
    \/ DialDoes(Mqtt!PressMode) \/ DialDoes(Mqtt!Deploy)

Loop == Sense \/ PollNothing \/ Receive \/ Commit \/ Decide

Response ==
    \/ Tick \/ Boot \/ Notice \/ Reconnect \/ Loop
    \/ DialDoes(Mqtt!DialReceives) \/ DialDoes(Mqtt!DragMove) \/ DialDoes(Mqtt!DragEnd)

Connect == DialDoes(Mqtt!Connect)

Next == Disturbance \/ Response \/ Connect

Spec == Init /\ [][Next]_vars

\* What the two modules assume, each for its part; a message that has been
\* overtaken by empty polls arrives all the same.
Fairness ==
    /\ WF_vars(Loop) /\ SF_vars(Receive) /\ SF_vars(Tick)
    /\ WF_vars(Boot) /\ WF_vars(Notice) /\ WF_vars(Reconnect)
    /\ WF_vars(DialDoes(Mqtt!DialReceives)) /\ WF_vars(DialDoes(Mqtt!DragEnd))

-----------------------------------------------------------------------------
(* Properties.                                                             *)

\* With its relays moved by the decisions of the loop, and the away setting
\* loaded from the EEPROM, the system still is what WyostatMqtt says of the
\* conversation: the furnace is lit only in heating and never beside the
\* compressor, and the reports are those of relays that moved.
ConversationHolds == Mqtt!Spec

\* The loop sees no message that HvacControl does not expect.
ControlHolds == Hvac!Spec
==============================================================================
