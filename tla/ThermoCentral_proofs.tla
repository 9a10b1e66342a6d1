------------------------- MODULE ThermoCentral_proofs -------------------------
(***************************************************************************)
(* Theorems about ThermoCentral for every choice of its constants.         *)
(***************************************************************************)
EXTENDS ThermoCentral, TLAPS

(* The inductive invariant.  A compressor that runs has a room above the   *)
(* set point of the last pass, and an orderly reading takes it down by no  *)
(* more than the gap: the heater's half finds no reason to light the       *)
(* furnace beside it.  After that half a furnace that burns has a room     *)
(* under the low set point, which keeps the compressor's half from joining *)
(* it while the set points are in order.                                   *)
Warm(class) == acstate => localtemperature = NaN \/ localtemperature > class
CoolerDone ==
    /\ pc \notin {"heater", "cooler"} => Warm(2 * cooledTo)
    /\ pc = "heater" /\ orderly => Warm(2 * (cooledTo - tempgap))
Exclusive == orderly => ~(furnacestate /\ acstate)
HeaterDone ==
    pc = "cooler" =>
        /\ furnacestate => ~WarmEnough
        /\ orderly => settemperature_lo <= settemperature_hi
EepromInv ==
    /\ pc # "setup" /\ settemperature_hi \in 0 .. 254 => LoadedHi(ram) = settemperature_hi
    /\ pc \notin {"setup", "erase", "write"} => flash = ram
IInv == TypeOK /\ BlowerFollows /\ CoolerDone /\ Exclusive /\ HeaterDone /\ EepromInv

(* A byte is a byte, and an int that fits keeps its value.                 *)
LEMMA ByteRange ==
    ASSUME NEW temp \in Int
    PROVE  /\ Byte(temp) \in 0 .. 255
           /\ temp \in 0 .. 254 => Byte(temp) = temp
BY DEF Byte

LEMMA Defaults ==
    /\ DEFAULT_SET_TEMP_LO \in Int /\ DEFAULT_SET_TEMP_HI \in Int
    /\ 0 \in Classes
    /\ Blank \in Bytes
BY SetPointAssumption DEF Classes, Blank, Bytes, ERASED

LEMMA InitIInv == Init => IInv
<1> SUFFICES ASSUME Init PROVE IInv
  OBVIOUS
<1>1. TypeOK
  BY Defaults DEF Init, TypeOK, Places
<1>2. BlowerFollows /\ CoolerDone /\ Exclusive /\ HeaterDone /\ EepromInv
  BY DEF Init, BlowerFollows, CoolerDone, Warm, Exclusive, HeaterDone, EepromInv
<1> QED BY <1>1, <1>2 DEF IInv

LEMMA StepKeepsType == ASSUME TypeOK, [Next]_vars PROVE TypeOK'
<1> USE DEF TypeOK, Places, relays, setpoints, eeprom
<1>1. CASE PowerCut
  BY <1>1, Defaults DEF PowerCut
<1>2. CASE Setup
  <2>1. LoadedLo(flash) \in Int /\ LoadedHi(flash) \in Int
    BY SetPointAssumption DEF LoadedLo, LoadedHi, Bytes
  <2> QED BY <1>2, <2>1 DEF Setup
<1>3. ASSUME NEW temp \in Payloads, handleSetTempLo(temp) PROVE TypeOK'
  <2>1. temp \in Int /\ Byte(temp) \in 0 .. 255
    BY SetPointAssumption, ByteRange
  <2>2. ram' \in Bytes
    BY <1>3, <2>1 DEF handleSetTempLo, Bytes
  <2> QED BY <1>3, <2>1, <2>2 DEF handleSetTempLo, Commits
<1>4. ASSUME NEW temp \in Payloads, handleSetTempHi(temp) PROVE TypeOK'
  <2>1. temp \in Int /\ Byte(temp) \in 0 .. 255
    BY SetPointAssumption, ByteRange
  <2>2. ram' \in Bytes
    BY <1>4, <2>1 DEF handleSetTempHi, Bytes
  <2> QED BY <1>4, <2>1, <2>2 DEF handleSetTempHi, Commits
<1>5. CASE EraseSector
  BY <1>5, Defaults DEF EraseSector
<1>6. CASE WriteSector
  BY <1>6 DEF WriteSector
<1>7. CASE RunReturns
  BY <1>7 DEF RunReturns
<1>8. CASE Sense
  <2>1. localtemperature' \in Classes \cup {NaN}
    BY <1>8 DEF Sense, Filtered
  <2>2. orderly' \in BOOLEAN
    BY <1>8 DEF Sense
  <2> QED BY <1>8, <2>1, <2>2 DEF Sense
<1>9. CASE Heater
  <2>1. furnacestate' \in BOOLEAN /\ fanstate' \in BOOLEAN
    BY <1>9 DEF Heater, HeaterOn, HeaterOff, HeaterHolds
  <2>2. orderly' \in BOOLEAN
    BY <1>9 DEF Heater
  <2> QED BY <1>9, <2>1, <2>2 DEF Heater
<1>10. CASE Cooler
  <2>1. acstate' \in BOOLEAN /\ fanstate' \in BOOLEAN
    BY <1>10 DEF Cooler, AcOn, AcOff, AcHolds
  <2> QED BY <1>10, <2>1 DEF Cooler
<1>11. CASE handleButtons
  BY <1>11 DEF handleButtons
<1>12. CASE UNCHANGED vars
  BY <1>12 DEF vars
<1> QED
  BY <1>1, <1>2, <1>3, <1>4, <1>5, <1>6, <1>7, <1>8, <1>9, <1>10, <1>11, <1>12
  DEF Next, Receive, Loop

(* The two halves of a pass, the only steps besides a power cut that move  *)
(* a relay.                                                                *)
LEMMA HeaterKeepsRelays ==
    ASSUME IInv, Heater
    PROVE  BlowerFollows' /\ CoolerDone' /\ Exclusive' /\ HeaterDone'
<1> USE DEF IInv, TypeOK
<1>1. orderly' => ~(acstate /\ TooCold)
  <2> SUFFICES ASSUME orderly', acstate, localtemperature # NaN
               PROVE  localtemperature >= 2 * (settemperature_lo - tempgap)
    BY SetPointAssumption DEF TooCold, RoomBelow, Classes, NaN
  <2>1. settemperature_lo <= cooledTo /\ localtemperature > 2 * (cooledTo - tempgap)
    BY DEF Heater, InOrder, CoolerDone, Warm
  <2> QED BY <2>1, SetPointAssumption DEF Classes
<1>2. /\ acstate' = acstate /\ pc' = "cooler"
      /\ WarmEnough' = WarmEnough
      /\ settemperature_lo' = settemperature_lo /\ settemperature_hi' = settemperature_hi
      /\ orderly' => orderly /\ ~(acstate /\ TooCold) /\ settemperature_lo <= settemperature_hi
      /\ CoolerDone'
  BY <1>1 DEF Heater, InOrder, setpoints, WarmEnough, RoomFrom, CoolerDone
<1>3. CASE HeaterOn
  <2>1. TooCold => ~WarmEnough
    BY SetPointAssumption DEF TooCold, WarmEnough, RoomBelow, RoomFrom, Classes, NaN
  <2> QED BY <1>2, <1>3, <2>1 DEF HeaterOn, BlowerFollows, Exclusive, HeaterDone
<1>4. CASE HeaterOff
  BY <1>2, <1>4 DEF HeaterOff, BlowerFollows, Exclusive, HeaterDone
<1>5. CASE HeaterHolds
  BY <1>2, <1>5 DEF HeaterHolds, BlowerFollows, Exclusive, HeaterDone
<1> QED BY <1>3, <1>4, <1>5 DEF Heater

LEMMA CoolerKeepsRelays ==
    ASSUME IInv, Cooler
    PROVE  /\ BlowerFollows' /\ CoolerDone' /\ Exclusive' /\ HeaterDone'
           /\ furnacestate' /\ acstate' =>
                 settemperature_lo > settemperature_hi \/ localtemperature = NaN
<1> USE DEF IInv, TypeOK
<1>1. /\ pc = "cooler" /\ pc' = "buttons"
      /\ furnacestate' = furnacestate /\ orderly' = orderly
  BY DEF Cooler
<1>2. furnacestate => localtemperature < 2 * settemperature_lo \/ localtemperature = NaN
  BY <1>1 DEF HeaterDone, WarmEnough, RoomFrom, Classes
<1>3. acstate' => localtemperature > 2 * settemperature_hi \/ localtemperature = NaN
  <2>1. TooHot => ~CoolEnough
    BY SetPointAssumption DEF TooHot, CoolEnough, RoomBelow, RoomFrom, Classes, NaN
  <2>2. acstate' => ~CoolEnough
    BY <2>1 DEF Cooler, AcOn, AcOff, AcHolds
  <2> QED BY <2>2 DEF CoolEnough, RoomBelow, Classes
<1>4. furnacestate' /\ acstate' =>
        settemperature_lo > settemperature_hi \/ localtemperature = NaN
  BY <1>1, <1>2, <1>3 DEF Classes, NaN
<1>5. Exclusive'
  <2>1. CASE localtemperature = NaN
    <3>1. acstate' => acstate
      BY <2>1 DEF Cooler, AcOn, AcOff, AcHolds, TooHot, RoomFrom
    <3> QED BY <1>1, <3>1 DEF Exclusive
  <2>2. CASE localtemperature # NaN
    BY <1>1, <1>4, <2>2 DEF Exclusive, HeaterDone
  <2> QED BY <2>1, <2>2
<1>6. BlowerFollows'
  BY <1>1, <1>5 DEF Cooler, AcOn, AcOff, AcHolds, BlowerFollows, Exclusive
<1>7. CoolerDone'
  BY <1>1, <1>3 DEF Cooler, CoolerDone, Warm
<1> QED BY <1>1, <1>4, <1>5, <1>6, <1>7 DEF HeaterDone

(* The reading, the step that may bring a cold room to a running           *)
(* compressor.                                                             *)
LEMMA SenseKeepsRelays ==
    ASSUME IInv, Sense
    PROVE  BlowerFollows' /\ CoolerDone' /\ Exclusive' /\ HeaterDone'
<1> USE DEF IInv, TypeOK
<1>1. /\ pc = "sense" /\ pc' = "heater" /\ UNCHANGED <<furnacestate, acstate, fanstate, cooledTo>>
      /\ orderly' => orderly /\ Gently
  BY DEF Sense, relays
<1>2. localtemperature = NaN => localtemperature' = NaN
  BY DEF Sense, Filtered
<1>3. localtemperature' \in Classes \cup {NaN}
  BY DEF Sense, Filtered
<1>4. CoolerDone'
  <2> SUFFICES ASSUME orderly', acstate, localtemperature' # NaN
               PROVE  localtemperature' > 2 * (cooledTo - tempgap)
    BY <1>1 DEF CoolerDone, Warm
  <2>1. localtemperature \in Classes /\ localtemperature > 2 * cooledTo
    BY <1>1, <1>2 DEF CoolerDone, Warm
  <2>2. localtemperature' >= localtemperature - 2 * tempgap
    BY <1>1 DEF Gently
  <2> QED BY <1>3, <2>1, <2>2, SetPointAssumption DEF Classes
<1> QED BY <1>1, <1>4 DEF BlowerFollows, Exclusive, HeaterDone

LEMMA StepKeepsRelays ==
    ASSUME IInv, [Next]_vars
    PROVE  BlowerFollows' /\ CoolerDone' /\ Exclusive' /\ HeaterDone'
<1>1. CASE PowerCut
  BY <1>1 DEF PowerCut, BlowerFollows, CoolerDone, Warm, Exclusive, HeaterDone
<1>2. CASE Heater
  BY <1>2, HeaterKeepsRelays
<1>3. CASE Cooler
  BY <1>3, CoolerKeepsRelays
<1>4. CASE UNCHANGED vars
  BY <1>4 DEF IInv, vars, relays, setpoints, BlowerFollows, CoolerDone, Warm, Exclusive,
             HeaterDone, WarmEnough, RoomFrom
<1>5. CASE Sense
  BY <1>5, SenseKeepsRelays
<1>6. CASE Setup \/ Receive \/ EraseSector \/ WriteSector \/ RunReturns \/ handleButtons
  <2>1. /\ UNCHANGED <<relays, localtemperature, cooledTo, orderly>>
        /\ pc \notin {"heater", "cooler"} /\ pc' \notin {"heater", "cooler"}
    BY <1>6 DEF Setup, Receive, handleSetTempLo, handleSetTempHi, Commits, EraseSector,
                WriteSector, RunReturns, handleButtons
  <2> QED BY <2>1 DEF IInv, relays, BlowerFollows, CoolerDone, Warm, Exclusive, HeaterDone
<1> QED BY <1>1, <1>2, <1>3, <1>4, <1>5, <1>6 DEF Next, Loop

LEMMA StepKeepsEeprom == ASSUME IInv, [Next]_vars PROVE EepromInv'
<1> USE DEF IInv, EepromInv
<1>1. CASE PowerCut
  BY <1>1 DEF PowerCut
<1>2. CASE Setup
  BY <1>2 DEF Setup, LoadedHi
<1>3. ASSUME NEW temp \in Payloads, handleSetTempLo(temp) PROVE EepromInv'
  <2>1. ram'.hi = ram.hi
    BY <1>3 DEF handleSetTempLo, TypeOK, Bytes
  <2> QED BY <1>3, <2>1 DEF handleSetTempLo, Commits, LoadedHi
<1>4. ASSUME NEW temp \in Payloads, handleSetTempHi(temp) PROVE EepromInv'
  <2>1. ram'.hi = Byte(temp)
    BY <1>4 DEF handleSetTempHi, TypeOK, Bytes
  <2>2. temp \in 0 .. 254 => Byte(temp) = temp /\ temp # ERASED
    BY SetPointAssumption, ByteRange DEF ERASED
  <2> QED BY <1>4, <2>1, <2>2 DEF handleSetTempHi, Commits, LoadedHi
<1>5. CASE EraseSector
  BY <1>5 DEF EraseSector, setpoints, LoadedHi
<1>6. CASE WriteSector
  BY <1>6 DEF WriteSector, setpoints, LoadedHi
<1>7. CASE RunReturns
  BY <1>7 DEF RunReturns, setpoints, eeprom, LoadedHi
<1>8. CASE Sense
  BY <1>8 DEF Sense, setpoints, eeprom, LoadedHi
<1>9. CASE Heater
  BY <1>9 DEF Heater, setpoints, eeprom, LoadedHi
<1>10. CASE Cooler
  BY <1>10 DEF Cooler, setpoints, eeprom, LoadedHi
<1>11. CASE handleButtons
  BY <1>11 DEF handleButtons, eeprom, LoadedHi
<1>12. CASE UNCHANGED vars
  BY <1>12 DEF vars, setpoints, eeprom, LoadedHi
<1> QED
  BY <1>1, <1>2, <1>3, <1>4, <1>5, <1>6, <1>7, <1>8, <1>9, <1>10, <1>11, <1>12
  DEF Next, Receive, Loop

(* The inductive invariant, types with the relays and the EEPROM image,      *)
(* holds in every state of the firmware: the theorems below read it off.   *)
THEOREM IInvAlways == Spec => []IInv
<1>1. IInv /\ [Next]_vars => IInv'
  BY StepKeepsType, StepKeepsRelays, StepKeepsEeprom DEF IInv
<1> QED BY <1>1, InitIInv, PTL DEF Spec

-----------------------------------------------------------------------------

(* Every variable keeps its type.                                          *)
THEOREM TypeCorrect == Spec => []TypeOK
BY IInvAlways, PTL DEF IInv

(* The shared blower never runs alone, and runs with every source as long  *)
(* as the set points are in order in every pass and, while the compressor  *)
(* runs, from one pass to the next, and no reading falls by more than the  *)
(* gap: conditions on set points and readings, whatever the relays do.     *)
THEOREM BlowerFollowsSources == Spec => []BlowerFollows
BY IInvAlways, PTL DEF IInv

(* The high set point survives a restart outside commit().                 *)
THEOREM RestartKeepsHighSetPoint == Spec => []HighSetPointSurvivesRestart
<1>1. IInv => HighSetPointSurvivesRestart
  BY DEF IInv, EepromInv, HighSetPointSurvivesRestart
<1> QED BY <1>1, IInvAlways, PTL

(* Furnace and compressor end a pass together only on crossed set points,  *)
(* or after the sensor has failed.                                         *)
THEOREM OpposedNeedsCrossing == Spec => OpposedOnlyWhenCrossed
<1>1. ASSUME IInv, [Next]_vars, pc = "cooler", pc' = "buttons", furnacestate', acstate'
      PROVE  settemperature_lo > settemperature_hi \/ localtemperature = NaN
  <2>1. Cooler
    BY <1>1 DEF Next, PowerCut, Setup, Receive, handleSetTempLo, handleSetTempHi, Loop,
                EraseSector, WriteSector, RunReturns, Sense, Heater, handleButtons, vars
  <2> QED BY <1>1, <2>1, CoolerKeepsRelays
<1>2. IInv /\ [Next]_vars =>
        [pc = "cooler" /\ pc' = "buttons" /\ furnacestate' /\ acstate'
             => settemperature_lo > settemperature_hi \/ localtemperature = NaN]_vars
  BY <1>1
<1> QED BY <1>2, IInvAlways, PTL DEF Spec, OpposedOnlyWhenCrossed

-----------------------------------------------------------------------------
(* Hysteresis.  A room that wavers by no more than the gap misses one end  *)
(* of each dead band, so each relay can move one way only, and once.  No   *)
(* fairness is needed: a relay that is never asked to move rests, too.     *)

\* What SteadyRoomSteadyRelays assumes of a step, from the coldest class on.
Steady(coldest) ==
    /\ pc # "setup" /\ pc' # "setup"
    /\ UNCHANGED setpoints
    /\ localtemperature' \in coldest .. coldest + 2 * tempgap

\* The warmest class stays below the end of heating; below the start of cooling.
NeverWarm(coldest) == coldest + 2 * tempgap < 2 * settemperature_lo
NeverHot(coldest) == coldest + 2 * tempgap < 2 * (settemperature_hi + tempgap) + 1

\* Either relay moves one way.
OneWay(coldest) ==
    /\ NeverWarm(coldest)' <=> NeverWarm(coldest)
    /\ NeverHot(coldest)' <=> NeverHot(coldest)
    /\ NeverWarm(coldest) => (furnacestate => furnacestate')
    /\ ~NeverWarm(coldest) => (furnacestate' => furnacestate)
    /\ NeverHot(coldest) => (acstate' => acstate)
    /\ ~NeverHot(coldest) => (acstate => acstate')

LEMMA SteadyHeater ==
    ASSUME TypeOK, NEW coldest \in Classes, Steady(coldest), Heater
    PROVE  /\ NeverWarm(coldest) => (furnacestate => furnacestate')
           /\ ~NeverWarm(coldest) => (furnacestate' => furnacestate)
<1>1. /\ localtemperature \in coldest .. coldest + 2 * tempgap
      /\ coldest \in Int /\ tempgap \in Int /\ settemperature_lo \in Int /\ localtemperature \in Int
  BY SetPointAssumption DEF Heater, Steady, TypeOK, Classes
<1>2. NeverWarm(coldest) => ~WarmEnough
  BY <1>1 DEF NeverWarm, WarmEnough, RoomFrom
<1>3. ~NeverWarm(coldest) => ~TooCold
  BY <1>1 DEF NeverWarm, TooCold, RoomBelow
<1> QED BY <1>2, <1>3 DEF Heater, HeaterOn, HeaterOff, HeaterHolds

LEMMA SteadyCooler ==
    ASSUME TypeOK, NEW coldest \in Classes, Steady(coldest), Cooler
    PROVE  /\ NeverHot(coldest) => (acstate' => acstate)
           /\ ~NeverHot(coldest) => (acstate => acstate')
<1>1. /\ localtemperature \in coldest .. coldest + 2 * tempgap
      /\ coldest \in Int /\ tempgap \in Int /\ settemperature_hi \in Int /\ localtemperature \in Int
  BY SetPointAssumption DEF Cooler, Steady, TypeOK, Classes
<1>2. NeverHot(coldest) => ~TooHot
  BY <1>1 DEF NeverHot, TooHot, RoomFrom
<1>3. ~NeverHot(coldest) => ~CoolEnough
  BY <1>1 DEF NeverHot, CoolEnough, RoomBelow
<1> QED BY <1>2, <1>3 DEF Cooler, AcOn, AcOff, AcHolds

\* No other action of a thermostat that stays powered moves a relay.
LEMMA OthersRest ==
    ASSUME [Next]_vars, ~Heater, ~Cooler, pc' # "setup"
    PROVE  UNCHANGED relays
BY DEF Next, PowerCut, Setup, Receive, handleSetTempLo, handleSetTempHi, Loop, EraseSector,
       WriteSector, RunReturns, Sense, handleButtons, vars, relays

LEMMA SteadyStep ==
    ASSUME TypeOK, NEW coldest \in Classes, [Next]_vars, [Steady(coldest)]_vars
    PROVE  OneWay(coldest)
<1>1. UNCHANGED setpoints
  BY DEF Steady, vars
<1>2. /\ NeverWarm(coldest)' <=> NeverWarm(coldest)
      /\ NeverHot(coldest)' <=> NeverHot(coldest)
  BY <1>1 DEF NeverWarm, NeverHot, setpoints
<1>3. CASE UNCHANGED vars
  BY <1>2, <1>3 DEF OneWay, vars, relays
<1>4. CASE Steady(coldest) /\ Heater
  <2>1. acstate' = acstate
    BY <1>4 DEF Heater
  <2> QED BY <1>2, <1>4, <2>1, SteadyHeater DEF OneWay
<1>5. CASE Steady(coldest) /\ Cooler
  <2>1. furnacestate' = furnacestate
    BY <1>5 DEF Cooler
  <2> QED BY <1>2, <1>5, <2>1, SteadyCooler DEF OneWay
<1>6. CASE Steady(coldest) /\ ~Heater /\ ~Cooler
  <2>1. UNCHANGED relays
    BY <1>6, OthersRest DEF Steady
  <2> QED BY <1>2, <2>1 DEF OneWay, relays
<1> QED BY <1>3, <1>4, <1>5, <1>6

\* The blower moves with a source.
LEMMA BlowerRests ==
    ASSUME TypeOK, NEW coldest \in Classes, [Next]_vars, [Steady(coldest)]_vars,
           furnacestate' <=> furnacestate, acstate' <=> acstate
    PROVE  UNCHANGED relays
<1>1. CASE UNCHANGED vars
  BY <1>1 DEF vars
<1>2. CASE Steady(coldest) /\ ~Heater /\ ~Cooler
  BY <1>2, OthersRest DEF Steady
<1>3. CASE Heater
  BY <1>3 DEF Heater, HeaterOn, HeaterOff, HeaterHolds, relays
<1>4. CASE Cooler
  BY <1>4 DEF Cooler, AcOn, AcOff, AcHolds, relays
<1> QED BY <1>1, <1>2, <1>3, <1>4

LEMMA SteadyRests ==
    ASSUME NEW CONSTANT coldest \in Classes
    PROVE  Spec => (<>[][Steady(coldest)]_vars => <>[][UNCHANGED relays]_vars)
<1>1. TypeOK /\ [Next]_vars /\ [Steady(coldest)]_vars => OneWay(coldest)
  BY SteadyStep
<1>2. TypeOK /\ [Next]_vars /\ [Steady(coldest)]_vars
        /\ (furnacestate' <=> furnacestate) /\ (acstate' <=> acstate)
          => [UNCHANGED relays]_vars
  BY BlowerRests
<1> QED BY <1>1, <1>2, TypeCorrect, PTL DEF Spec, OneWay

(* A room that wavers by no more than the gap does not wear the relays,    *)
(* whatever the gap, the set points and the temperatures.                  *)
THEOREM HysteresisHolds == Spec => SteadyRoomSteadyRelays
BY SteadyRests DEF SteadyRoomSteadyRelays, Steady
================================================================================
