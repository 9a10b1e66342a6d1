------------------------------- MODULE MqttStat -------------------------------
(***************************************************************************)
(* The older MQTT firmware, mqtt_stat.ino: two set points instead of a     *)
(* mode and a target, three relays without a lockout, the callbacks that   *)
(* keep the set points apart, and their two bytes of EEPROM.               *)
(*                                                                         *)
(* Each callback runs up to two commit()s; a commit erases the sector and  *)
(* writes the buffer back, and the power may fail in between.  Messages    *)
(* come from the environment, the echo of "wyostat.settemphi" included.    *)
(* Temperatures are half-degree classes as in HvacControl, because the     *)
(* float localtemperature is compared with whole set points.               *)
(***************************************************************************)
EXTENDS Integers

CONSTANTS
    LOWEST_TEMP, HIGHEST_TEMP,             \* set points lie strictly between
    DEFAULT_SETTEMPLO, DEFAULT_SETTEMPHI,  \* set points of an erased EEPROM
    MaxTemp,       \* bound: localtemperature, which starts at 0, ends here
    Payloads       \* bound: integers a set point message may carry

ASSUME SetPointAssumption ==
    /\ LOWEST_TEMP \in Nat /\ HIGHEST_TEMP \in 1 .. 254
    /\ DEFAULT_SETTEMPLO \in LOWEST_TEMP + 1 .. HIGHEST_TEMP - 1
    /\ DEFAULT_SETTEMPHI \in LOWEST_TEMP + 1 .. HIGHEST_TEMP - 1
    /\ DEFAULT_SETTEMPLO <= DEFAULT_SETTEMPHI
    /\ MaxTemp \in Nat
    /\ Payloads \subseteq Int

VARIABLES
    pc,            \* where the processor is
    resume,        \* where it goes on when commit() returns
    furnace_state, ac_state, fan_state,
    settemplo, settemphi,
    localtemperature,
    connected,
    ram, flash     \* the bytes at SETTEMPLO_ADDR and SETTEMPHI_ADDR

relays == <<furnace_state, ac_state, fan_state>>
setpoints == <<settemplo, settemphi>>
eeprom == <<ram, flash>>
vars == <<pc, resume, relays, setpoints, localtemperature, connected, eeprom>>

Places == {"setup", "loop", "reconnect", "poll", "erase", "write",
           "lo_guard", "hi_guard", "control"}
SetPoints == LOWEST_TEMP + 1 .. HIGHEST_TEMP - 1
Classes == 0 .. 2 * MaxTemp
NaN == -1       \* what the sensor's library makes of two bytes of ones
ERASED == 255
Bytes == [lo : SetPoints \cup {ERASED}, hi : SetPoints \cup {ERASED}]
Blank == [lo |-> ERASED, hi |-> ERASED]

TypeOK ==
    /\ pc \in Places /\ resume \in {"lo_guard", "hi_guard", "control"}
    /\ furnace_state \in BOOLEAN /\ ac_state \in BOOLEAN /\ fan_state \in BOOLEAN
    /\ settemplo \in SetPoints /\ settemphi \in SetPoints
    /\ localtemperature \in Classes \cup {NaN}
    /\ connected \in BOOLEAN
    /\ ram \in Bytes /\ flash \in Bytes

\* loadSettings()
LoadedLo(bytes) == IF bytes.lo = ERASED THEN DEFAULT_SETTEMPLO ELSE bytes.lo
LoadedHi(bytes) == IF bytes.hi = ERASED THEN DEFAULT_SETTEMPHI ELSE bytes.hi

Init ==
    /\ pc = "setup" /\ resume = "control"
    /\ furnace_state = FALSE /\ ac_state = FALSE /\ fan_state = FALSE
    /\ settemplo = DEFAULT_SETTEMPLO /\ settemphi = DEFAULT_SETTEMPHI
    /\ localtemperature = 0
    /\ connected = FALSE
    /\ ram = Blank /\ flash = Blank

\* The globals settemplo and settemphi are not looked at before setup() has
\* loaded them, so they keep their values here.
PowerCut ==
    /\ pc' = "setup"
    /\ furnace_state' = FALSE /\ ac_state' = FALSE /\ fan_state' = FALSE
    /\ localtemperature' = 0
    /\ connected' = FALSE
    /\ UNCHANGED <<resume, setpoints, eeprom>>

\* setup() does not connect: the first pass of loop() finds the client down.
Setup ==
    /\ pc = "setup"
    /\ pc' = "loop"
    /\ ram' = flash
    /\ settemplo' = LoadedLo(flash) /\ settemphi' = LoadedHi(flash)
    /\ UNCHANGED <<resume, relays, localtemperature, connected, flash>>

Disconnect ==
    /\ connected
    /\ connected' = FALSE
    /\ UNCHANGED <<pc, resume, relays, setpoints, localtemperature, eeprom>>

\* One reading weighs 0.01, and readings are not checked: while the filter
\* climbs from 0 it may cross several classes in a pass.  One reading that is no
\* number leaves it none until the next restart.
Sense ==
    /\ pc = "loop"
    /\ localtemperature' \in IF localtemperature = NaN THEN {NaN} ELSE Classes \cup {NaN}
    /\ pc' = IF connected THEN "poll" ELSE "reconnect"
    /\ UNCHANGED <<resume, relays, setpoints, connected, eeprom>>

Reconnect ==
    /\ pc = "reconnect"
    /\ pc' = "poll"
    /\ connected' = TRUE
    /\ UNCHANGED <<resume, relays, setpoints, localtemperature, eeprom>>

PollNothing ==
    /\ pc = "poll"
    /\ pc' = "control"
    /\ UNCHANGED <<resume, relays, setpoints, localtemperature, connected, eeprom>>

Accepted_Highest(temp) == LOWEST_TEMP < temp /\ temp <= HIGHEST_TEMP    \* mutant
Accepted(temp) == LOWEST_TEMP < temp /\ temp < HIGHEST_TEMP

\* Mutant: the low set point is saved at the address of the high one.
_settemplo_WrongAddress(temp, next) ==
    /\ UNCHANGED <<settemphi, flash>>
    /\ IF Accepted(temp) /\ temp # settemplo
       THEN /\ settemplo' = temp
            /\ ram' = [ram EXCEPT !.hi = temp]
            /\ pc' = "erase" /\ resume' = next
       ELSE pc' = next /\ UNCHANGED <<settemplo, ram, resume>>

\* _settemplo() and _settemphi(): a new value is stored and committed.
_settemplo(temp, next) ==
    /\ UNCHANGED <<settemphi, flash>>
    /\ IF Accepted(temp) /\ temp # settemplo
       THEN /\ settemplo' = temp
            /\ ram' = [ram EXCEPT !.lo = temp]
            /\ pc' = "erase" /\ resume' = next
       ELSE pc' = next /\ UNCHANGED <<settemplo, ram, resume>>

_settemphi(temp, next) ==
    /\ UNCHANGED <<settemplo, flash>>
    /\ IF Accepted(temp) /\ temp # settemphi
       THEN /\ settemphi' = temp
            /\ ram' = [ram EXCEPT !.hi = temp]
            /\ pc' = "erase" /\ resume' = next
       ELSE pc' = next /\ UNCHANGED <<settemphi, ram, resume>>

SettemploCb(temp) ==
    /\ pc = "poll" /\ connected
    /\ _settemplo(temp, "lo_guard")
    /\ UNCHANGED <<relays, localtemperature, connected>>

SettemphiCb(temp) ==
    /\ pc = "poll" /\ connected
    /\ _settemphi(temp, "hi_guard")
    /\ UNCHANGED <<relays, localtemperature, connected>>

\* The second half of settemplo_cb, once its commit() has returned: a low set
\* point above the high one resets the high one.
LoGuard ==
    /\ pc = "lo_guard"
    /\ IF settemplo > settemphi
       THEN _settemphi(HIGHEST_TEMP, "control")
       ELSE pc' = "control" /\ UNCHANGED <<resume, setpoints, eeprom>>
    /\ UNCHANGED <<relays, localtemperature, connected>>

\* The second half of settemphi_cb.
HiGuard ==
    /\ pc = "hi_guard"
    /\ IF settemphi <= settemplo
       THEN _settemplo(LOWEST_TEMP, "control")
       ELSE pc' = "control" /\ UNCHANGED <<resume, setpoints, eeprom>>
    /\ UNCHANGED <<relays, localtemperature, connected>>

EraseSector ==
    /\ pc = "erase"
    /\ pc' = "write"
    /\ flash' = Blank
    /\ UNCHANGED <<resume, relays, setpoints, localtemperature, connected, ram>>

WriteSector ==
    /\ pc = "write"
    /\ pc' = resume
    /\ flash' = ram
    /\ UNCHANGED <<resume, relays, setpoints, localtemperature, connected, ram>>

\* Every comparison with NaN is false.
TooCold == localtemperature # NaN /\ localtemperature < 2 * settemplo
TooHot == localtemperature # NaN /\ localtemperature > 2 * settemphi

\* Mutant: the two tests are independent, as if the "else" were missing.
Control_NoElse ==
    /\ pc = "control"
    /\ furnace_state' = TooCold
    /\ ac_state' = TooHot
    /\ fan_state' = (TooCold \/ TooHot)
    /\ pc' = "loop"
    /\ UNCHANGED <<resume, setpoints, localtemperature, connected, eeprom>>

\* loop() after the message: cold, else hot, else nothing.
Control ==
    /\ pc = "control"
    /\ furnace_state' = TooCold
    /\ ac_state' = (~TooCold /\ TooHot)
    /\ fan_state' = (TooCold \/ TooHot)
    /\ pc' = "loop"
    /\ UNCHANGED <<resume, setpoints, localtemperature, connected, eeprom>>

Next ==
    \/ PowerCut \/ Setup \/ Disconnect \/ Reconnect
    \/ Sense \/ PollNothing
    \/ \E temp \in Payloads : SettemploCb(temp) \/ SettemphiCb(temp)
    \/ LoGuard \/ HiGuard
    \/ EraseSector \/ WriteSector
    \/ Control

Spec == Init /\ [][Next]_vars

-----------------------------------------------------------------------------
(* Properties.                                                             *)

\* Furnace and compressor are never on together, crossed set points included,
\* and the blower runs exactly when one of them does.
OneSourceWithBlower ==
    ~(furnace_state /\ ac_state) /\ (fan_state <=> furnace_state \/ ac_state)

\* A restart outside commit() brings back the set points in force.
SetPointsSurviveRestart ==
    pc \notin {"setup", "erase", "write"} =>
        settemplo = LoadedLo(flash) /\ settemphi = LoadedHi(flash)

\* While the set points are crossed there is no dead band left: every pass
\* ends with a source running, whatever the temperature.  Once the sensor has
\* failed, nothing runs, however cold the room.
CrossedNeverRests ==
    [][pc = "control" /\ pc' = "loop" =>
          IF localtemperature = NaN THEN ~fan_state'
          ELSE settemplo > settemphi => fan_state']_vars

\* What settemplo_cb announces ("Lo > Hi!  Resetting Hi to") when a low set
\* point arrives above the high one: after the callback they are in order.
CrossingIsReset ==
    [][pc = "lo_guard" /\ pc' = "control" => settemplo' <= settemphi']_vars
===============================================================================
