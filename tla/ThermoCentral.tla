----------------------------- MODULE ThermoCentral -----------------------------
(***************************************************************************)
(* The Adafruit IO firmware, ThermoCentral.ino: two independent hysteresis *)
(* controllers, one for the furnace and one for the compressor, that share *)
(* one blower; set points that come from feeds (kept in the EEPROM) and    *)
(* from two buttons (sent to the feed, not kept).                          *)
(*                                                                         *)
(* io.run() hands over any number of messages in a pass, and blocks while  *)
(* the connection is down; what the feeds carry, the echo of the buttons   *)
(* included, is the environment.  Temperatures are half-degree classes as  *)
(* in HvacControl: localtemperature is a float, the set points are whole.  *)
(***************************************************************************)
EXTENDS Integers

CONSTANTS
    DEFAULT_SET_TEMP_LO, DEFAULT_SET_TEMP_HI,
    tempgap,       \* the hysteresis gap, in degrees
    FilterFrom,    \* readings are filtered from this temperature on
    MaxTemp,       \* bound: localtemperature, which starts at 0, ends here
    Drift,         \* bound: classes one filtered reading moves localtemperature
    Payloads,      \* bound: integers a set point message may carry
    Buttons        \* bound: low set points the buttons can reach

ASSUME SetPointAssumption ==
    /\ DEFAULT_SET_TEMP_LO \in 0 .. 254 /\ DEFAULT_SET_TEMP_HI \in 0 .. 254
    /\ DEFAULT_SET_TEMP_LO <= DEFAULT_SET_TEMP_HI
    /\ tempgap \in Nat \ {0} /\ FilterFrom \in Nat /\ MaxTemp \in Nat /\ Drift \in Nat
    /\ Payloads \subseteq Int /\ Buttons \subseteq Int

VARIABLES
    pc,                                        \* where the processor is
    furnacestate, acstate, fanstate,           \* the relays
    settemperature_lo, settemperature_hi,
    localtemperature,
    ram, flash,     \* the two bytes: EEPROM's buffer and its sector
    cooledTo,       \* history: the high set point of the last pass
    orderly         \* history, since power-up: see InOrder and Gently

relays == <<furnacestate, acstate, fanstate>>
setpoints == <<settemperature_lo, settemperature_hi>>
eeprom == <<ram, flash>>
vars == <<pc, relays, setpoints, localtemperature, eeprom, cooledTo, orderly>>

Places == {"setup", "io", "erase", "write", "sense", "heater", "cooler", "buttons"}
Classes == 0 .. 2 * MaxTemp
NaN == -1       \* what the sensor's library makes of two bytes of ones
ERASED == 255
Bytes == [lo : 0 .. 255, hi : 0 .. 255]
Blank == [lo |-> ERASED, hi |-> ERASED]

TypeOK ==
    /\ pc \in Places
    /\ furnacestate \in BOOLEAN /\ acstate \in BOOLEAN /\ fanstate \in BOOLEAN
    /\ settemperature_lo \in Int /\ settemperature_hi \in Int
    /\ localtemperature \in Classes \cup {NaN}
    /\ ram \in Bytes /\ flash \in Bytes
    /\ cooledTo \in Int /\ orderly \in BOOLEAN

-----------------------------------------------------------------------------
(* Power-up and settings.                                                  *)

Init ==
    /\ pc = "setup"
    /\ furnacestate = FALSE /\ acstate = FALSE /\ fanstate = FALSE
    /\ settemperature_lo = DEFAULT_SET_TEMP_LO
    /\ settemperature_hi = DEFAULT_SET_TEMP_HI
    /\ localtemperature = 0
    /\ ram = Blank /\ flash = Blank
    /\ cooledTo = DEFAULT_SET_TEMP_HI /\ orderly = TRUE

\* The power fails at any point and comes back.
PowerCut ==
    /\ pc' = "setup"
    /\ furnacestate' = FALSE /\ acstate' = FALSE /\ fanstate' = FALSE
    /\ settemperature_lo' = DEFAULT_SET_TEMP_LO
    /\ settemperature_hi' = DEFAULT_SET_TEMP_HI
    /\ localtemperature' = 0
    /\ cooledTo' = DEFAULT_SET_TEMP_HI /\ orderly' = TRUE
    /\ UNCHANGED eeprom

\* loadSettings()
LoadedLo(bytes) == IF bytes.lo = ERASED THEN DEFAULT_SET_TEMP_LO ELSE bytes.lo
LoadedHi(bytes) == IF bytes.hi = ERASED THEN DEFAULT_SET_TEMP_HI ELSE bytes.hi

\* setup() returns only once Adafruit IO is connected.
Setup ==
    /\ pc = "setup"
    /\ pc' = "io"
    /\ ram' = flash
    /\ settemperature_lo' = LoadedLo(flash) /\ settemperature_hi' = LoadedHi(flash)
    /\ UNCHANGED <<relays, localtemperature, flash, cooledTo, orderly>>

-----------------------------------------------------------------------------
(* io.run().  A handler commits the byte first and assigns the set point   *)
(* when commit() has returned; nothing reads it in between and a power cut *)
(* forgets it, so both are one action here, followed by the commit.        *)

Byte_NoWrap(temp) == temp    \* mutant: the byte is as wide as the int
Byte(temp) == temp % 256     \* EEPROM.write() takes a uint8_t

Commits == pc' = IF ram' = ram THEN "io" ELSE "erase"

\* A message that repeats the set point changes nothing and is left out.
handleSetTempLo(temp) ==
    /\ pc = "io" /\ temp # settemperature_lo
    /\ settemperature_lo' = temp
    /\ ram' = [ram EXCEPT !.lo = Byte(temp)]
    /\ Commits
    /\ UNCHANGED <<relays, settemperature_hi, localtemperature, flash, cooledTo, orderly>>

\* Mutant: the high set point is saved at the address of the low one.
handleSetTempHi_WrongAddress(temp) ==
    /\ pc = "io" /\ temp # settemperature_hi
    /\ settemperature_hi' = temp
    /\ ram' = [ram EXCEPT !.lo = Byte(temp)]
    /\ Commits
    /\ UNCHANGED <<relays, settemperature_lo, localtemperature, flash, cooledTo, orderly>>

handleSetTempHi(temp) ==
    /\ pc = "io" /\ temp # settemperature_hi
    /\ settemperature_hi' = temp
    /\ ram' = [ram EXCEPT !.hi = Byte(temp)]
    /\ Commits
    /\ UNCHANGED <<relays, settemperature_lo, localtemperature, flash, cooledTo, orderly>>

EraseSector ==
    /\ pc = "erase"
    /\ pc' = "write"
    /\ flash' = Blank
    /\ UNCHANGED <<relays, setpoints, localtemperature, ram, cooledTo, orderly>>

WriteSector ==
    /\ pc = "write"
    /\ pc' = "io"
    /\ flash' = ram
    /\ UNCHANGED <<relays, setpoints, localtemperature, ram, cooledTo, orderly>>

RunReturns ==
    /\ pc = "io"
    /\ pc' = "sense"
    /\ UNCHANGED <<relays, setpoints, localtemperature, eeprom, cooledTo, orderly>>

-----------------------------------------------------------------------------
(* Sensing and the two controllers.                                        *)

\* Below FilterFrom a reading replaces localtemperature, whatever it is; NaN is
\* not below anything, and no reading added to it makes it a number again.
Near(class) == IF class < 2 * FilterFrom THEN Int ELSE class - Drift .. class + Drift

Filtered(temp) ==
    IF temp = NaN THEN {NaN}
    ELSE {NaN} \cup {class \in Classes : class = temp \/ class \in Near(temp)}

\* What orderly asks of the room: from one pass to the next it is not read colder
\* by more than the gap.
Gently == localtemperature' = NaN \/ localtemperature' >= localtemperature - 2 * tempgap

\* Once a second; the first passes may control on the initial 0.
Sense ==
    /\ pc = "sense"
    /\ pc' = "heater"
    /\ localtemperature' \in Filtered(localtemperature)
    /\ orderly' = (orderly /\ Gently)
    /\ UNCHANGED <<relays, setpoints, eeprom, cooledTo>>

\* Every comparison with NaN is false: both controllers hold.
RoomBelow(class) == localtemperature # NaN /\ localtemperature < class
RoomFrom(class) == localtemperature # NaN /\ localtemperature >= class

TooCold == RoomBelow(2 * (settemperature_lo - tempgap))
WarmEnough_Gap ==      \* mutant: the furnace stops as soon as it may start again
    RoomFrom(2 * (settemperature_lo - tempgap) - 1)
WarmEnough == RoomFrom(2 * settemperature_lo)
TooHot == RoomFrom(2 * (settemperature_hi + tempgap) + 1)
CoolEnough_Gap ==      \* mutant: the compressor overshoots by the gap
    RoomBelow(2 * (settemperature_hi - tempgap) + 1)
CoolEnough == RoomBelow(2 * settemperature_hi + 1)

HeaterOn ==
    /\ ~furnacestate /\ TooCold
    /\ furnacestate' = TRUE /\ fanstate' = TRUE

HeaterOff ==
    /\ furnacestate /\ WarmEnough
    /\ furnacestate' = FALSE /\ fanstate' = FALSE

HeaterHolds ==
    /\ IF furnacestate THEN ~WarmEnough ELSE ~TooCold
    /\ UNCHANGED <<furnacestate, fanstate>>

\* What orderly asks of the set points: the low one is not above the high one,
\* and with the compressor running not above the high one of the last pass either.
\* (Both may move up between two passes and be in order in each.)
InOrder ==
    /\ settemperature_lo <= settemperature_hi
    /\ acstate => settemperature_lo <= cooledTo

Heater ==
    /\ pc = "heater"
    /\ pc' = "cooler"
    /\ HeaterOn \/ HeaterOff \/ HeaterHolds
    /\ orderly' = (orderly /\ InOrder)
    /\ UNCHANGED <<acstate, setpoints, localtemperature, eeprom, cooledTo>>

AcOn_NoFan == ~acstate /\ TooHot /\ acstate' = TRUE /\ UNCHANGED fanstate    \* mutant
AcOn ==
    /\ ~acstate /\ TooHot
    /\ acstate' = TRUE /\ fanstate' = TRUE

AcOff ==
    /\ acstate /\ CoolEnough
    /\ acstate' = FALSE /\ fanstate' = FALSE

AcHolds ==
    /\ IF acstate THEN ~CoolEnough ELSE ~TooHot
    /\ UNCHANGED <<acstate, fanstate>>

Cooler ==
    /\ pc = "cooler"
    /\ pc' = "buttons"
    /\ AcOn \/ AcOff \/ AcHolds
    /\ cooledTo' = settemperature_hi
    /\ UNCHANGED <<furnacestate, setpoints, localtemperature, eeprom, orderly>>

\* handleButtons(), when ui.update() left time for it: each press moves the low
\* set point and saves it to the feed only.
handleButtons ==
    /\ pc = "buttons"
    /\ pc' = "io"
    /\ \E step \in {-1, 1} :
          settemperature_lo' \in {settemperature_lo} \cup ({settemperature_lo + step} \cap Buttons)
    /\ UNCHANGED <<relays, settemperature_hi, localtemperature, eeprom, cooledTo, orderly>>

-----------------------------------------------------------------------------

Receive == \E temp \in Payloads : handleSetTempLo(temp) \/ handleSetTempHi(temp)

\* What one pass does by itself, the connection being up.
Loop == EraseSector \/ WriteSector \/ RunReturns \/ Sense \/ Heater \/ Cooler \/ handleButtons

Next == PowerCut \/ Setup \/ Receive \/ Loop

Spec == Init /\ [][Next]_vars

\* loop() is called forever and io.run() returns: Adafruit IO lets the client
\* in again, and no feed sends messages faster than the timeout of io.run().
FairSpec == Spec /\ WF_vars(Loop) /\ SF_vars(RunReturns)

-----------------------------------------------------------------------------
(* Properties.                                                             *)

\* The shared blower never runs alone.  No source runs without it as long as,
\* since power-up, no pass found the low set point above the high one, nor above
\* the one the running compressor cooled to in the pass before, and no reading was
\* colder than the last by more than the gap.  Each of the three is needed: the
\* code lets a furnace burn without blower when set points are crossed, and also
\* when both move up, in order, within one io.run() with the compressor on, or the
\* room falls through the dead band in one pass; the heater's half then lights the
\* furnace and the cooler's half stops the compressor and, with it, the blower.
BlowerFollows ==
    /\ fanstate => furnacestate \/ acstate
    /\ orderly /\ (furnacestate \/ acstate) => fanstate

\* The two controllers work against each other at the end of a pass only if
\* the set points that pass used are crossed, or if the sensor failed once, which
\* freezes the relays as they are; nothing else in the code keeps them apart.
OpposedOnlyWhenCrossed ==
    [][pc = "cooler" /\ pc' = "buttons" /\ furnacestate' /\ acstate'
           => settemperature_lo > settemperature_hi \/ localtemperature = NaN]_vars

\* The high set point, as far as a byte can hold it, survives a restart
\* outside commit().  (The low one does not: the buttons never save it.)
HighSetPointSurvivesRestart ==
    pc \notin {"setup", "erase", "write"} /\ settemperature_hi \in 0 .. 254 =>
        LoadedHi(flash) = settemperature_hi

\* What "temp gap for hysteresis control" is for: with the set points left
\* alone, a room that wavers by no more than the gap does not wear the relays.
SteadyRoomSteadyRelays ==
    \A coldest \in Classes :
        <>[][/\ pc # "setup" /\ pc' # "setup"
             /\ UNCHANGED setpoints
             /\ localtemperature' \in coldest .. coldest + 2 * tempgap]_vars
        => <>[][UNCHANGED relays]_vars
================================================================================
