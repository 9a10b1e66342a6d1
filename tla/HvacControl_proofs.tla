-------------------------- MODULE HvacControl_proofs --------------------------
(***************************************************************************)
(* Theorems about HvacControl for every choice of its constants.           *)
(***************************************************************************)
EXTENDS HvacControl, TLAPS

(* The inductive invariant.  Between the two readings of the target the    *)
(* heating branch has already stopped the compressor, which is what keeps  *)
(* the ignition that may follow away from it; the branch that reads the    *)
(* target twice is one for a user at home, and no message comes between;   *)
(* and EEPROM's buffer agrees with away from setup() on, the sector with   *)
(* the buffer outside commit().                                            *)
RecheckInv == pc = "recheck" /\ hvacmode = "heating" => ~ac_state
Saves(byte) == Loaded(byte) = away
EepromInv ==
    /\ pc # "setup" => Saves(ram)
    /\ pc \notin {"setup", "erase", "write"} => flash = ram
PassInv == pc = "recheck" => ~away /\ hvacmode # "off"
IInv == TypeOK /\ ACNeedsFan /\ RecheckInv /\ PassInv /\ EepromInv

LEMMA InitIInv == Init => IInv
<1> SUFFICES ASSUME Init PROVE IInv
  OBVIOUS
<1>1. targettemps \in [{0, 1} -> LOWEST_TEMP .. HIGHEST_TEMP]
  BY DegreesAssumption DEF Init
<1>2. age \in Ages
  BY LockoutAssumption DEF Init, Ages, LongAgo
<1>3. flash \in 0 .. 255 /\ ram \in 0 .. 255
  BY LeftoverAssumption DEF Init, ERASED
<1>3a. TypeOK
  BY <1>1, <1>2, <1>3 DEF Init, TypeOK, Places, Modes
<1>4. ACNeedsFan /\ RecheckInv /\ PassInv /\ EepromInv
  BY DEF Init, ACNeedsFan, RecheckInv, PassInv, EepromInv
<1> QED BY <1>3a, <1>4 DEF IInv

(* Time moves only the index and the age, and the age stays in its range.  *)
LEMMA LaterAge == ASSUME NEW a \in Ages PROVE Later(a) \in Ages
BY LockoutAssumption DEF Ages, Later, LongAgo

(* The handlers keep the type of what the user sets.                       *)
LEMMA HandlersKeepType == ASSUME TypeOK, Receive PROVE TypeOK'
<1>1. ASSUME NEW temp \in Payloads, TargettempCb(temp) PROVE TypeOK'
  BY <1>1, DegreesAssumption DEF TypeOK, TargettempCb, Accepted, get_targettemp, relays, eeprom, Places
<1>2. ASSUME NEW payload \in BOOLEAN, AwayCb(payload) PROVE TypeOK'
  BY <1>2 DEF TypeOK, AwayCb, Byte, relays, Places
<1>3. ASSUME NEW payload \in Modes, HvacmodeCb(payload) PROVE TypeOK'
  BY <1>3 DEF TypeOK, HvacmodeCb, relays, eeprom, Places
<1> QED BY <1>1, <1>2, <1>3 DEF Receive

(* set_furnace() moves the furnace only to the state asked for.            *)
LEMMA SetFurnaceType ==
    ASSUME TypeOK, NEW state \in BOOLEAN, SetFurnace(state)
    PROVE  furnace_state' \in BOOLEAN /\ age' \in Ages
BY LockoutAssumption DEF TypeOK, SetFurnace, Ages

LEMMA DecideKeepsType == ASSUME TypeOK, Decide PROVE TypeOK'
<1> USE DEF TypeOK, settings, eeprom, Places
<1>1. CASE HeatAway
  <2>1. furnace_state' \in BOOLEAN /\ age' \in Ages
    BY <1>1, SetFurnaceType DEF HeatAway
  <2> QED BY <1>1, <2>1 DEF HeatAway
<1>2. CASE HeatTooHot
  <2>1. furnace_state' \in BOOLEAN /\ age' \in Ages
    BY <1>2, SetFurnaceType DEF HeatTooHot
  <2> QED BY <1>2, <2>1 DEF HeatTooHot
<1>3. CASE HeatNotTooHot
  BY <1>3 DEF HeatNotTooHot
<1>4. CASE HeatRecheck
  <2>1. furnace_state' \in BOOLEAN /\ age' \in Ages
    BY <1>4, SetFurnaceType DEF HeatRecheck
  <2> QED BY <1>4, <2>1 DEF HeatRecheck
<1>5. CASE CoolAway
  <2>1. furnace_state' \in BOOLEAN /\ age' \in Ages
    BY <1>5, SetFurnaceType DEF CoolAway
  <2> QED BY <1>5, <2>1 DEF CoolAway
<1>6. CASE CoolTooHot
  <2>1. furnace_state' \in BOOLEAN /\ age' \in Ages
    BY <1>6, SetFurnaceType DEF CoolTooHot
  <2> QED BY <1>6, <2>1 DEF CoolTooHot
<1>7. CASE CoolNotTooHot
  <2>1. furnace_state' \in BOOLEAN /\ age' \in Ages
    BY <1>7, SetFurnaceType DEF CoolNotTooHot
  <2> QED BY <1>7, <2>1 DEF CoolNotTooHot
<1>8. CASE CoolRecheck
  BY <1>8 DEF CoolRecheck
<1>9. CASE AllOff
  <2>1. furnace_state' \in BOOLEAN /\ age' \in Ages
    BY <1>9, SetFurnaceType DEF AllOff
  <2> QED BY <1>9, <2>1 DEF AllOff
<1> QED BY <1>1, <1>2, <1>3, <1>4, <1>5, <1>6, <1>7, <1>8, <1>9 DEF Decide

LEMMA TypeStep == ASSUME TypeOK, [Next]_vars PROVE TypeOK'
<1> USE DEF relays, settings, eeprom
<1>1. CASE Tick
  BY <1>1, LaterAge DEF TypeOK, Tick
<1>2. CASE HourTurns
  BY <1>2, LaterAge DEF TypeOK, HourTurns
<1>3. CASE PowerCut
  <2>1. targettemps' \in [{0, 1} -> LOWEST_TEMP .. HIGHEST_TEMP]
    BY <1>3, DegreesAssumption DEF PowerCut
  <2>2. age' \in Ages
    BY <1>3, LockoutAssumption DEF PowerCut, Ages, LongAgo
  <2> QED BY <1>3, <2>1, <2>2 DEF TypeOK, PowerCut, Places, Modes
<1>4. CASE Setup
  BY <1>4 DEF TypeOK, Setup, Loaded, Places
<1>5. CASE Disconnect
  BY <1>5 DEF TypeOK, Disconnect
<1>6. CASE Reconnect
  BY <1>6 DEF TypeOK, Reconnect, Places
<1>7. CASE Sense
  <2>1. localtemp' \in Readings
    BY <1>7 DEF TypeOK, Sense, Filtered, Readings
  <2> QED BY <1>7, <2>1 DEF TypeOK, Sense, Places
<1>8. CASE PollNothing
  BY <1>8 DEF TypeOK, PollNothing, Places
<1>9. CASE Receive
  BY <1>9, HandlersKeepType
<1>10. CASE EraseSector
  BY <1>10 DEF TypeOK, EraseSector, Places, ERASED
<1>11. CASE WriteSector
  BY <1>11 DEF TypeOK, WriteSector, Places
<1>12. CASE Decide
  BY <1>12, DecideKeepsType
<1>13. CASE UNCHANGED vars
  BY <1>13 DEF TypeOK, vars
<1> QED
  BY <1>1, <1>2, <1>3, <1>4, <1>5, <1>6, <1>7, <1>8, <1>9, <1>10, <1>11, <1>12, <1>13
     DEF Next, Loop

(* Every branch of loop() leaves the blower with the compressor.           *)
LEMMA RelayStep ==
    ASSUME IInv, [Next]_vars
    PROVE  ACNeedsFan' /\ RecheckInv'
<1> USE DEF IInv, ACNeedsFan, RecheckInv, relays
<1>0. ac_state \in BOOLEAN /\ fan_state \in BOOLEAN /\ ac_state' \in BOOLEAN /\ fan_state' \in BOOLEAN
  BY TypeStep DEF TypeOK
<1>1. CASE Tick \/ HourTurns
  BY <1>1 DEF Tick, HourTurns, settings
<1>2. CASE PowerCut
  BY <1>2 DEF PowerCut
<1>3. CASE Setup \/ Reconnect \/ Disconnect
  BY <1>3 DEF Setup, Reconnect, Disconnect, settings
<1>4. CASE Sense \/ PollNothing \/ EraseSector \/ WriteSector
  BY <1>4 DEF Sense, PollNothing, EraseSector, WriteSector
<1>5. CASE Receive
  <2>1. ASSUME NEW temp \in Payloads, TargettempCb(temp) PROVE ACNeedsFan' /\ RecheckInv'
    BY <2>1 DEF TargettempCb
  <2>2. ASSUME NEW payload \in BOOLEAN, AwayCb(payload) PROVE ACNeedsFan' /\ RecheckInv'
    BY <2>2 DEF AwayCb
  <2>3. ASSUME NEW payload \in Modes, HvacmodeCb(payload) PROVE ACNeedsFan' /\ RecheckInv'
    BY <2>3 DEF HvacmodeCb
  <2> QED BY <1>5, <2>1, <2>2, <2>3 DEF Receive
<1>6. CASE HeatAway \/ HeatTooHot \/ HeatNotTooHot
  <2>1. ~ac_state'
    BY <1>6 DEF HeatAway, HeatTooHot, HeatNotTooHot
  <2> QED BY <2>1
<1>7. CASE HeatRecheck
  <2>1. ~ac_state'
    BY <1>0, <1>7 DEF HeatRecheck
  <2> QED BY <2>1
<1>8. CASE CoolAway
  <2>1. pc' = "sense"
    BY <1>8 DEF CoolAway
  <2>2. fan_state' = TRUE \/ ac_state' = FALSE \/ (ac_state' = ac_state /\ fan_state' = fan_state)
    BY <1>8 DEF CoolAway
  <2>3. ac_state' => fan_state'
    BY <1>0, <2>2
  <2> QED BY <2>1, <2>3
<1>9. CASE CoolTooHot \/ AllOff
  BY <1>9 DEF CoolTooHot, AllOff
<1>10. CASE CoolNotTooHot
  <2>1. hvacmode' = "cooling"
    BY <1>10 DEF CoolNotTooHot, settings
  <2>2. ac_state' => fan_state'
    BY <1>0, <1>10 DEF CoolNotTooHot
  <2> QED BY <2>1, <2>2
<1>11. CASE CoolRecheck
  <2>1. pc' = "sense"
    BY <1>11 DEF CoolRecheck
  <2>2. ac_state' => fan_state'
    BY <1>0, <1>11 DEF CoolRecheck
  <2> QED BY <2>1, <2>2
<1>12. CASE UNCHANGED vars
  BY <1>12 DEF vars, settings
<1> QED
  BY <1>1, <1>2, <1>3, <1>4, <1>5, <1>6, <1>7, <1>8, <1>9, <1>10, <1>11, <1>12
     DEF Next, Loop, Decide

(* The away byte: only setup(), away_cb and commit() touch it.             *)
LEMMA EepromStep == ASSUME IInv, [Next]_vars PROVE EepromInv'
<1> USE DEF IInv, EepromInv, Saves, eeprom, settings
<1>1. CASE Tick \/ HourTurns \/ PowerCut
  BY <1>1 DEF Tick, HourTurns, PowerCut
<1>2. CASE Setup
  <2>1. Saves(ram)'
    BY <1>2 DEF Setup, Loaded
  <2> QED BY <1>2, <2>1 DEF Setup
<1>3. CASE Reconnect \/ Disconnect \/ Sense \/ PollNothing
  BY <1>3 DEF Reconnect, Disconnect, Sense, PollNothing
<1>4. CASE Receive
  <2>1. ASSUME NEW temp \in Payloads, TargettempCb(temp) PROVE EepromInv'
    BY <2>1 DEF TargettempCb
  <2>2. ASSUME NEW payload \in BOOLEAN, AwayCb(payload) PROVE EepromInv'
    <3>1. Loaded(Byte(payload)) = payload
      BY DEF Loaded, Byte, ERASED
    <3> QED BY <2>2, <3>1 DEF AwayCb
  <2>3. ASSUME NEW payload \in Modes, HvacmodeCb(payload) PROVE EepromInv'
    BY <2>3 DEF HvacmodeCb
  <2> QED BY <1>4, <2>1, <2>2, <2>3 DEF Receive
<1>5. CASE EraseSector \/ WriteSector
  BY <1>5 DEF EraseSector, WriteSector
<1>6. CASE Decide
  <2>1. UNCHANGED <<away, ram, flash>>
    BY <1>6 DEF Decide, HeatAway, HeatTooHot, HeatNotTooHot, HeatRecheck,
                CoolAway, CoolTooHot, CoolNotTooHot, CoolRecheck, AllOff
  <2>2. pc \in {"control", "recheck"}
    BY <1>6 DEF Decide, HeatAway, HeatTooHot, HeatNotTooHot, HeatRecheck,
                CoolAway, CoolTooHot, CoolNotTooHot, CoolRecheck, AllOff
  <2> QED BY <2>1, <2>2
<1>7. CASE UNCHANGED vars
  BY <1>7 DEF vars
<1> QED
  BY <1>1, <1>2, <1>3, <1>4, <1>5, <1>6, <1>7 DEF Next, Loop

(* Only the two branches for a user at home reach the second reading, and  *)
(* away and hvacmode change in poll and setup alone.                       *)
LEMMA PassStep == ASSUME IInv, [Next]_vars PROVE PassInv'
<1> USE DEF IInv, PassInv, settings
<1>1. ASSUME pc' # "recheck" PROVE PassInv'
  BY <1>1
<1>2. CASE Tick \/ HourTurns \/ Disconnect
  BY <1>2 DEF Tick, HourTurns, Disconnect
<1>3. CASE PowerCut \/ Setup \/ Reconnect \/ Sense \/ PollNothing \/ EraseSector \/ WriteSector
  BY <1>1, <1>3 DEF PowerCut, Setup, Reconnect, Sense, PollNothing, EraseSector, WriteSector
<1>4. CASE Receive
  BY <1>1, <1>4 DEF Receive, TargettempCb, AwayCb, HvacmodeCb
<1>5. CASE HeatNotTooHot \/ CoolNotTooHot
  BY <1>5 DEF HeatNotTooHot, CoolNotTooHot
<1>6. CASE HeatAway \/ HeatTooHot \/ HeatRecheck \/ CoolAway \/ CoolTooHot \/ CoolRecheck \/ AllOff
  BY <1>1, <1>6 DEF HeatAway, HeatTooHot, HeatRecheck, CoolAway, CoolTooHot, CoolRecheck, AllOff
<1>7. CASE UNCHANGED vars
  BY <1>7 DEF vars
<1> QED BY <1>2, <1>3, <1>4, <1>5, <1>6, <1>7 DEF Next, Loop, Decide

LEMMA IInvStep == ASSUME IInv, [Next]_vars PROVE IInv'
BY TypeStep, RelayStep, PassStep, EepromStep DEF IInv

(* One decision, as the messaging modules see it: it reads what the user   *)
(* has set, lights the furnace only in heating and without the compressor, *)
(* and leaves the compressor on only in cooling.                           *)
LEMMA DecideSeenOutside ==
    ASSUME IInv, Decide
    PROVE  /\ pc \in {"control", "recheck"} /\ pc' \in {"sense", "recheck"}
           /\ UNCHANGED <<settings, index, connected, eeprom>>
           /\ ac_state' => hvacmode = "cooling"
           /\ furnace_state' /\ ~furnace_state => hvacmode = "heating" /\ ~ac_state'
<1>1. /\ pc \in {"control", "recheck"} /\ pc' \in {"sense", "recheck"}
      /\ UNCHANGED <<settings, index, connected, eeprom>>
  BY DEF Decide, HeatAway, HeatTooHot, HeatNotTooHot, HeatRecheck,
         CoolAway, CoolTooHot, CoolNotTooHot, CoolRecheck, AllOff
<1>2. hvacmode \in {"heating", "cooling", "off"} /\ ac_state \in BOOLEAN /\ furnace_state \in BOOLEAN
  BY DEF IInv, TypeOK, Modes
<1>3. ac_state' => hvacmode = "cooling"
  <2>1. CASE HeatAway \/ HeatTooHot \/ HeatNotTooHot \/ AllOff
    BY <2>1 DEF HeatAway, HeatTooHot, HeatNotTooHot, AllOff
  <2>2. CASE HeatRecheck
    BY <2>2 DEF HeatRecheck, IInv, RecheckInv
  <2>3. CASE CoolAway \/ CoolTooHot \/ CoolNotTooHot \/ CoolRecheck
    BY <2>3 DEF CoolAway, CoolTooHot, CoolNotTooHot, CoolRecheck
  <2> QED BY <2>1, <2>2, <2>3 DEF Decide
<1>4. furnace_state' /\ ~furnace_state => hvacmode = "heating"
  <2>1. SetFurnace(FALSE) => ~(furnace_state' /\ ~furnace_state)
    BY <1>2, Zenon DEF SetFurnace
  <2>2. hvacmode # "heating" => SetFurnace(FALSE) \/ UNCHANGED furnace_state
    BY DEF Decide, HeatAway, HeatTooHot, HeatNotTooHot, HeatRecheck,
           CoolAway, CoolTooHot, CoolNotTooHot, CoolRecheck, AllOff
  <2> QED BY <2>1, <2>2
<1> QED BY <1>1, <1>3, <1>4

LEMMA IInvAlways == Spec => []IInv
BY InitIInv, IInvStep, PTL DEF Spec

(* Every variable keeps its type: the age never leaves the saturated range *)
(* and no message puts a target outside LOWEST_TEMP..HIGHEST_TEMP.         *)
THEOREM TypeCorrect == Spec => []TypeOK
BY IInvAlways, PTL DEF IInv

(* The compressor never runs without the blower.                           *)
THEOREM CompressorNeedsBlower == Spec => []ACNeedsFan
BY IInvAlways, PTL DEF IInv

(* A restart outside commit() brings back the away setting in force.       *)
THEOREM RestartKeepsAway == Spec => []AwaySurvivesRestart
<1>1. IInv => AwaySurvivesRestart
  BY DEF IInv, EepromInv, Saves, AwaySurvivesRestart
<1> QED BY <1>1, IInvAlways, PTL

-----------------------------------------------------------------------------
(* The refinement of RelayPlant.                                           *)

(* A use of set_furnace(), with the relays around it moved as a pass moves *)
(* them, is a step of the plant: an ignition, a quench or an arrangement.  *)
LEMMA SetFurnaceIsPlantStep ==
    ASSUME TypeOK, TypeOK', NEW state \in BOOLEAN, SetFurnace(state),
           ac_state' => fan_state',
           ~furnace_state /\ furnace_state' => ~ac_state' /\ fan_state',
           furnace_state' /\ ac_state' /\ ~ac_state => ~state
    PROVE  Plant!Next
<1> USE DEF TypeOK
<1>1. CASE state # furnace_state /\ age > MIN_CHANGE_DURATION
  <2>1. furnace_state' = state /\ age' = 0
    BY <1>1 DEF SetFurnace
  <2>2. CASE state
    <3>1. ~furnace_state /\ furnace_state' = TRUE
      BY <1>1, <2>1, <2>2
    <3>2. ac_state' = FALSE /\ fan_state' = TRUE
      BY <3>1
    <3> QED BY <1>1, <2>1, <3>1, <3>2 DEF Plant!Next, Plant!Ignite
  <2>3. CASE ~state
    <3>1. furnace_state /\ furnace_state' = FALSE
      BY <1>1, <2>1, <2>3
    <3> QED BY <1>1, <2>1, <3>1 DEF Plant!Next, Plant!Quench
  <2> QED BY <2>2, <2>3
<1>2. CASE ~(state # furnace_state /\ age > MIN_CHANGE_DURATION)
  <2>1. UNCHANGED <<furnace_state, age>>
    BY <1>2 DEF SetFurnace
  <2>2. furnace_state /\ ac_state' /\ ~ac_state => age <= MIN_CHANGE_DURATION
    <3> SUFFICES ASSUME furnace_state, ac_state', ~ac_state
                 PROVE  age <= MIN_CHANGE_DURATION
      OBVIOUS
    <3>1. furnace_state'
      BY <2>1
    <3>2. ~state
      BY <3>1
    <3>3. state # furnace_state
      BY <3>2
    <3>4. ~(age > MIN_CHANGE_DURATION)
      BY <1>2, <3>3
    <3>5. age \in Int /\ MIN_CHANGE_DURATION \in Int
      BY LockoutAssumption DEF Ages
    <3> QED BY <3>4, <3>5
  <2> QED BY <2>1, <2>2 DEF Plant!Next, Plant!Arrange
<1> QED BY <1>1, <1>2

LEMMA InitIsPlantInit == Init => Plant!Init
BY DEF Init, Plant!Init, LongAgo

(* Every step is a step of the plant or leaves its variables alone.        *)
PlantVars == <<furnace_state, ac_state, fan_state, age>>

LEMMA TimeIsPlantStep ==
    ASSUME TypeOK, Tick \/ HourTurns PROVE [Plant!Next]_PlantVars
<1>1. UNCHANGED <<furnace_state, ac_state, fan_state>> /\ age' = Later(age)
  BY DEF Tick, HourTurns, relays
<1>2. CASE age < LongAgo
  <2>1. age <= MIN_CHANGE_DURATION /\ age' = age + 1
    BY <1>1, <1>2, LockoutAssumption DEF TypeOK, Ages, Later, LongAgo
  <2> QED BY <1>1, <2>1 DEF Plant!Next, Plant!Elapse
<1>3. CASE ~(age < LongAgo)
  BY <1>1, <1>3 DEF Later, PlantVars
<1> QED BY <1>2, <1>3

LEMMA DecideIsPlantStep ==
    ASSUME IInv, IInv', Decide PROVE [Plant!Next]_PlantVars
<1> USE DEF IInv
<1>0. /\ ac_state \in BOOLEAN /\ fan_state \in BOOLEAN /\ furnace_state \in BOOLEAN
      /\ ac_state' \in BOOLEAN /\ fan_state' \in BOOLEAN /\ furnace_state' \in BOOLEAN
  BY DEF TypeOK
<1>1. ac_state' => fan_state'
  BY DEF ACNeedsFan
<1>2. ASSUME NEW state \in BOOLEAN, SetFurnace(state), ~ac_state', fan_state' = furnace_state'
      PROVE  Plant!Next
  BY <1>2, <1>1, SetFurnaceIsPlantStep
<1>3. ASSUME SetFurnace(FALSE) PROVE Plant!Next
  <2>1. ~(~furnace_state /\ furnace_state')
    BY <1>0, <1>3 DEF SetFurnace
  <2> QED BY <1>1, <1>3, <2>1, SetFurnaceIsPlantStep
<1>4. ASSUME UNCHANGED <<furnace_state, age>>, ~ac_state' \/ ac_state' = ac_state
      PROVE  Plant!Next
  BY <1>0, <1>1, <1>4 DEF Plant!Next, Plant!Arrange
<1>5. CASE HeatAway
  <2>1. ~ac_state' /\ fan_state' = furnace_state'
    BY <1>5 DEF HeatAway
  <2>2. SetFurnace(TRUE) \/ SetFurnace(FALSE) \/ UNCHANGED <<furnace_state, age>>
    BY <1>5 DEF HeatAway
  <2> QED BY <2>1, <2>2, <1>2, <1>4
<1>6. CASE HeatTooHot
  BY <1>6, <1>3 DEF HeatTooHot
<1>7. CASE HeatNotTooHot
  BY <1>7, <1>4 DEF HeatNotTooHot
<1>8. CASE HeatRecheck
  <2>1. ~ac_state
    BY <1>8 DEF HeatRecheck, RecheckInv
  <2>2. ~ac_state' /\ fan_state' = furnace_state'
    BY <1>0, <1>8, <2>1 DEF HeatRecheck
  <2>3. SetFurnace(TRUE) \/ UNCHANGED <<furnace_state, age>>
    BY <1>8 DEF HeatRecheck
  <2> QED BY <2>2, <2>3, <1>2, <1>4
<1>9. CASE CoolAway \/ CoolTooHot \/ CoolNotTooHot \/ AllOff
  BY <1>9, <1>3 DEF CoolAway, CoolTooHot, CoolNotTooHot, AllOff
<1>10. CASE CoolRecheck
  <2>1. UNCHANGED <<furnace_state, age>> /\ (ac_state' = FALSE \/ ac_state' = ac_state)
    BY <1>10 DEF CoolRecheck
  <2> QED BY <1>0, <1>4, <2>1
<1> QED BY <1>5, <1>6, <1>7, <1>8, <1>9, <1>10 DEF Decide

LEMMA NextIsPlantStep ==
    ASSUME IInv, IInv', [Next]_vars PROVE [Plant!Next]_PlantVars
<1>1. CASE Tick \/ HourTurns
  BY <1>1, TimeIsPlantStep DEF IInv
<1>2. CASE PowerCut
  BY <1>2 DEF PowerCut, LongAgo, Plant!Next, Plant!PowerCut
<1>3. CASE Decide
  BY <1>3, DecideIsPlantStep
<1>4. ASSUME UNCHANGED <<relays, age>> PROVE [Plant!Next]_PlantVars
  BY <1>4 DEF relays, PlantVars
<1>5. CASE Setup \/ Disconnect \/ Reconnect \/ Sense \/ PollNothing \/ EraseSector \/ WriteSector
  BY <1>4, <1>5 DEF Setup, Disconnect, Reconnect, Sense, PollNothing, EraseSector, WriteSector
<1>6. CASE Receive
  BY <1>4, <1>6 DEF Receive, TargettempCb, AwayCb, HvacmodeCb
<1>7. CASE UNCHANGED vars
  BY <1>4, <1>7 DEF vars
<1> QED BY <1>1, <1>2, <1>3, <1>5, <1>6, <1>7 DEF Next, Loop

(* The control loop implements the plant's promises: no short cycle while  *)
(* the power lasts, no ignition beside the compressor, and the compressor  *)
(* joins a burning furnace only inside the lockout.                        *)
THEOREM ImplementsPlant == Spec => SafePlant
<1>1. IInv /\ IInv' /\ [Next]_vars => [Plant!Next]_PlantVars
  BY NextIsPlantStep
<1> QED BY <1>1, IInvAlways, InitIsPlantInit, PTL DEF Spec, SafePlant, Plant!Spec, PlantVars

(* set_furnace(false) leaves a furnace burning only within the lockout.    *)
LEMMA RefusedInLockout ==
    ASSUME TypeOK, SetFurnace(FALSE), furnace_state'
    PROVE  age <= MIN_CHANGE_DURATION
<1>1. furnace_state \in BOOLEAN /\ age \in Int /\ MIN_CHANGE_DURATION \in Int
  BY LockoutAssumption DEF TypeOK, Ages
<1>2. CASE age > MIN_CHANGE_DURATION
  <2>1. furnace_state' = FALSE
    BY <1>1, <1>2, Zenon DEF SetFurnace
  <2> QED BY <2>1
<1> QED BY <1>1, <1>2

(* The blower leaves a burning furnace only while the furnace is locked    *)
(* on, or in a pass that reached its second reading of the target.         *)
THEOREM BlowerLeavesInLockout == Spec => BlowerLeavesOnlyInLockout
<1>1. ASSUME TypeOK, [Next]_vars, furnace_state', fan_state, ~fan_state'
      PROVE  age <= MIN_CHANGE_DURATION \/ pc = "recheck"
  <2>1. CASE CoolAway
    BY <1>1, <2>1, RefusedInLockout DEF CoolAway
  <2>2. CASE AllOff
    BY <1>1, <2>2, RefusedInLockout DEF AllOff
  <2>3. CASE HeatRecheck \/ CoolRecheck
    BY <2>3 DEF HeatRecheck, CoolRecheck
  <2>4. ~(HeatAway \/ HeatTooHot \/ CoolTooHot)
    BY <1>1 DEF HeatAway, HeatTooHot, CoolTooHot
  <2>5. fan_state' = fan_state \/ ~furnace_state' \/ Decide
    BY <1>1 DEF Next, Loop, Receive, Tick, HourTurns, PowerCut, Setup, Disconnect, Reconnect,
                Sense, PollNothing, TargettempCb, AwayCb, HvacmodeCb, EraseSector, WriteSector,
                vars, relays
  <2>6. ~(HeatNotTooHot \/ CoolNotTooHot)
    BY <1>1 DEF HeatNotTooHot, CoolNotTooHot
  <2> QED BY <1>1, <2>1, <2>2, <2>3, <2>4, <2>5, <2>6 DEF Decide
<1>2. TypeOK /\ [Next]_vars =>
        [furnace_state' /\ fan_state /\ ~fan_state'
            => age <= MIN_CHANGE_DURATION \/ pc = "recheck"]_vars
  BY <1>1
<1> QED BY <1>2, TypeCorrect, PTL DEF Spec, BlowerLeavesOnlyInLockout

(* A pass ends with the blower alone only in the dead band of cooling: all *)
(* other branches of loop() leave the blower with the source they leave on.*)
THEOREM BlowerIdlesInDeadBand == Spec => IdleBlowerOnlyInDeadBand
<1>1. ASSUME IInv, IInv', [Next]_vars, PassEnds, fan_state', ~ac_state', ~furnace_state'
      PROVE  hvacmode = "cooling" /\ CoolingDeadBand
  <2>1. fan_state' # furnace_state' /\ fan_state' # ac_state'
    BY <1>1 DEF IInv, TypeOK
  <2>2. CASE HeatAway \/ HeatTooHot \/ HeatNotTooHot \/ HeatRecheck
    BY <1>1, <2>1, <2>2 DEF HeatAway, HeatTooHot, HeatNotTooHot, HeatRecheck, PassEnds
  <2>3. CASE CoolAway
    <3>1. ~(Above(localtemp, AWAYMAX)) /\ ~(Below(localtemp, AWAYMAX - HILOGAP))
      BY <2>1, <2>3 DEF CoolAway
    <3> QED BY <2>3, <3>1 DEF CoolAway, CoolingDeadBand
  <2>4. CASE CoolTooHot \/ CoolNotTooHot \/ AllOff
    BY <1>1, <2>1, <2>4 DEF CoolTooHot, CoolNotTooHot, AllOff, PassEnds
  <2>5. CASE CoolRecheck
    <3>1. ~away
      BY <1>1, <2>5 DEF CoolRecheck, IInv, PassInv
    <3>2. IntAbove(localtemp, get_targettemp - HILOGAP)
      BY <1>1, <2>1, <2>5 DEF CoolRecheck
    <3> QED BY <2>5, <3>1, <3>2 DEF CoolRecheck, CoolingDeadBand
  <2>6. Decide
    BY <1>1 DEF PassEnds, Next, Loop, Receive, Tick, HourTurns, PowerCut, Setup, Disconnect,
                Reconnect, Sense, PollNothing, TargettempCb, AwayCb, HvacmodeCb, EraseSector,
                WriteSector, vars
  <2> QED BY <2>2, <2>3, <2>4, <2>5, <2>6 DEF Decide
<1>2. IInv /\ IInv' /\ [Next]_vars =>
        [PassEnds /\ fan_state' /\ ~ac_state' /\ ~furnace_state'
            => hvacmode = "cooling" /\ CoolingDeadBand]_vars
  BY <1>1
<1> QED BY <1>2, IInvAlways, PTL DEF Spec, IdleBlowerOnlyInDeadBand
-----------------------------------------------------------------------------
(* Liveness.  No prover here evaluates ENABLED, and seconds are counted by *)
(* induction; both are left to a run, as the two parts of LoopGoesOn.  The *)
(* rest of the argument is a proof: passes go on, a relay that may only    *)
(* move one way comes to rest, and the pass after the lockout moves it.    *)

\* The fairness of FairSpec with ENABLED written out.
Scheduled ==
    /\ []<><<Loop>>_vars \/ []<>(pc \in Connecting)
    /\ []<><<Setup \/ Reconnect>>_vars \/ []<>~(pc \in Connecting)

LEMMA FairIsScheduled == FairSpec /\ []OnlyConnectingWaits => Spec /\ Scheduled
<1>1. OnlyConnectingWaits
        => /\ ~(pc \in Connecting) => ENABLED <<Loop>>_vars
           /\ pc \in Connecting => ENABLED <<Setup \/ Reconnect>>_vars
  BY DEF OnlyConnectingWaits
<1> QED BY <1>1, PTL DEF FairSpec, Scheduled

\* The decision of a pass.
Decides == pc = "control" /\ Decide

\* Where the processor may go from each place, unless the power fails.
LEMMA WayRound ==
    TypeOK /\ [Next]_vars /\ ~(pc = "setup")' =>
           /\ pc = "setup" => (pc = "sense")'
           /\ pc = "sense" => (pc = "sense" \/ pc = "poll" \/ pc = "reconnect")'
           /\ pc = "reconnect" => (pc = "reconnect" \/ pc = "poll")'
           /\ pc = "poll" => (pc = "poll" \/ pc = "erase" \/ pc = "control")'
           /\ pc = "erase" => (pc = "erase" \/ pc = "write")'
           /\ pc = "write" => (pc = "write" \/ pc = "control")'
           /\ pc = "recheck" => (pc = "recheck" \/ pc = "sense")'
           /\ pc = "control" => (pc = "control")' \/ <<Decides>>_vars
<1> SUFFICES ASSUME TypeOK, [Next]_vars, ~(pc = "setup")'
             PROVE  WayRound!2
  OBVIOUS
<1> USE DEF vars
<1>1. CASE Tick \/ HourTurns \/ PowerCut \/ Disconnect \/ UNCHANGED vars
  BY <1>1 DEF Tick, HourTurns, PowerCut, Disconnect
<1>2. CASE Setup \/ Reconnect
  BY <1>2 DEF Setup, Reconnect
<1>3. CASE Sense \/ PollNothing \/ EraseSector \/ WriteSector
  BY <1>3 DEF Sense, PollNothing, EraseSector, WriteSector
<1>4. CASE Receive
  BY <1>4 DEF Receive, TargettempCb, AwayCb, HvacmodeCb
<1>5. CASE Decide
  BY <1>5 DEF Decides, Decide, HeatAway, HeatTooHot, HeatNotTooHot, HeatRecheck, CoolAway,
              CoolTooHot, CoolNotTooHot, CoolRecheck, AllOff
<1> QED BY <1>1, <1>2, <1>3, <1>4, <1>5 DEF Next, Loop

\* Each step of the loop, and of connecting, leaves the place it is at.
LEMMA LoopLeaves ==
    /\ <<Loop>>_vars => /\ pc = "sense" => ~(pc = "sense")'
                        /\ pc = "poll" => ~(pc = "poll")'
                        /\ pc = "erase" => ~(pc = "erase")'
                        /\ pc = "write" => ~(pc = "write")'
                        /\ pc = "recheck" => ~(pc = "recheck")'
                        /\ pc = "control" => ~(pc = "control")'
    /\ <<Setup \/ Reconnect>>_vars => /\ pc = "setup" => ~(pc = "setup")'
                                      /\ pc = "reconnect" => ~(pc = "reconnect")'
<1>1. Sense \/ PollNothing \/ EraseSector \/ WriteSector => pc' # pc
  BY DEF Sense, PollNothing, EraseSector, WriteSector
<1>2. Receive => pc' # pc
  BY DEF Receive, TargettempCb, AwayCb, HvacmodeCb
<1>3. Decide => pc' # pc
  BY DEF Decide, HeatAway, HeatTooHot, HeatNotTooHot, HeatRecheck, CoolAway, CoolTooHot,
         CoolNotTooHot, CoolRecheck, AllOff
<1>4. Setup \/ Reconnect => pc' # pc
  BY DEF Setup, Reconnect
<1> QED BY <1>1, <1>2, <1>3, <1>4 DEF Loop

LEMMA SomePlace ==
    TypeOK =>
        /\ pc \in Connecting <=> pc = "setup" \/ pc = "reconnect"
        /\ ~(pc \in Connecting) <=> \/ pc = "sense" \/ pc = "poll" \/ pc = "erase"
                                    \/ pc = "write" \/ pc = "control" \/ pc = "recheck"
BY DEF TypeOK, Places, Connecting

\* Unless the power fails again and again, a pass reaches its decision again
\* and again.
LEMMA PassesGoOn == Spec /\ Scheduled => []<>(pc = "setup") \/ []<><<Decides>>_vars
BY WayRound, LoopLeaves, SomePlace, TypeCorrect, PTL DEF Spec, Scheduled

\* While the furnace is not moved the lockout, once over, stays over.
LEMMA LockoutStaysOver ==
    TypeOK /\ [Next]_vars /\ (furnace_state' <=> furnace_state) /\ age > MIN_CHANGE_DURATION
        => (age > MIN_CHANGE_DURATION)'
<1> SUFFICES ASSUME TypeOK, [Next]_vars, furnace_state' <=> furnace_state,
                    age > MIN_CHANGE_DURATION
             PROVE  age' > MIN_CHANGE_DURATION
  OBVIOUS
<1>1. age \in Int /\ MIN_CHANGE_DURATION \in Nat
  BY LockoutAssumption DEF TypeOK, Ages
<1>2. CASE Tick \/ HourTurns \/ PowerCut
  BY <1>1, <1>2 DEF Tick, HourTurns, PowerCut, Later, LongAgo
<1>3. ASSUME NEW state \in BOOLEAN, SetFurnace(state) PROVE age' = age
  BY <1>3 DEF SetFurnace, TypeOK
<1>4. CASE Decide
  BY <1>3, <1>4 DEF Decide, HeatAway, HeatTooHot, HeatNotTooHot, HeatRecheck, CoolAway, CoolTooHot,
                    CoolNotTooHot, CoolRecheck, AllOff
<1>5. CASE Setup \/ Disconnect \/ Reconnect \/ Sense \/ PollNothing \/ Receive \/ EraseSector
             \/ WriteSector \/ UNCHANGED vars
  BY <1>5 DEF Setup, Disconnect, Reconnect, Sense, PollNothing, Receive, TargettempCb, AwayCb,
              HvacmodeCb, EraseSector, WriteSector, vars
<1> QED BY <1>1, <1>2, <1>4, <1>5 DEF Next, Loop

\* The relays are open while the processor is in setup().
SetupInv == pc = "setup" => ~furnace_state /\ ~ac_state /\ ~fan_state
LEMMA SetupOpens == Spec => []SetupInv
<1>1. Init => SetupInv
  BY DEF Init, SetupInv
<1>2. SetupInv /\ [Next]_vars => SetupInv'
  BY DEF SetupInv, Next, Loop, Decide, Receive, Tick, HourTurns, PowerCut, Setup, Disconnect,
         Reconnect, Sense, PollNothing, TargettempCb, AwayCb, HvacmodeCb, EraseSector, WriteSector,
         HeatAway, HeatTooHot, HeatNotTooHot, HeatRecheck, CoolAway, CoolTooHot, CoolNotTooHot,
         CoolRecheck, AllOff, vars, relays
<1> QED BY <1>1, <1>2, PTL DEF Spec

\* The decision after the lockout ends an overlap, whatever the mode: heating
\* stops the compressor, the others the furnace.
Overlap == furnace_state /\ ac_state
LEMMA DecisionEndsOverlap ==
    TypeOK /\ Overlap /\ age > MIN_CHANGE_DURATION /\ <<Decides>>_vars => ~Overlap'
<1> SUFFICES ASSUME TypeOK, Overlap, age > MIN_CHANGE_DURATION, Decides
             PROVE  ~(furnace_state' /\ ac_state')
  BY DEF Overlap
<1>1. SetFurnace(FALSE) => furnace_state' = FALSE
  BY DEF SetFurnace, Overlap, TypeOK
<1> QED BY <1>1 DEF Decides, Decide, HeatAway, HeatTooHot, HeatNotTooHot, HeatRecheck, CoolAway,
                    CoolTooHot, CoolNotTooHot, CoolRecheck, AllOff

(* Furnace and compressor do not stay on together, for every lockout,      *)
(* however often the mode changes and wherever the power fails.            *)
THEOREM HeldOverlapEnds == FairSpec /\ LoopGoesOn => OverlapEnds
<1>1. TypeOK /\ [Next]_vars /\ Overlap /\ Overlap' /\ age > MIN_CHANGE_DURATION
        => (age > MIN_CHANGE_DURATION)'
  BY LockoutStaysOver DEF Overlap
<1>2. SetupInv /\ pc = "setup" => ~Overlap
  BY DEF SetupInv, Overlap
<1>3. Spec /\ Scheduled /\ []LockoutEnds => (Overlap ~> ~Overlap)
  BY <1>1, <1>2, DecisionEndsOverlap, PassesGoOn, TypeCorrect, SetupOpens, PTL
     DEF Spec, LockoutEnds
<1> QED BY <1>3, FairIsScheduled, PTL DEF LoopGoesOn, OverlapEnds, Overlap

\* With the mode on "off" no relay closes, and each decision asks for all to open.
Off == hvacmode = "off" /\ pc # "setup"
LEMMA OffOpens ==
    TypeOK /\ Off /\ Off' /\ [Next]_vars =>
        /\ furnace_state' => furnace_state
        /\ ac_state' => ac_state
        /\ fan_state' => fan_state
        /\ <<Decides>>_vars => /\ ~ac_state' /\ ~fan_state'
                               /\ age > MIN_CHANGE_DURATION => ~furnace_state'
<1> SUFFICES ASSUME TypeOK, Off, Off', [Next]_vars PROVE OffOpens!2
  OBVIOUS
<1>1. CASE Decide
  <2>1. AllOff \/ pc = "recheck"
    BY <1>1 DEF Off, Decide, HeatAway, HeatTooHot, HeatNotTooHot, CoolAway, CoolTooHot,
                CoolNotTooHot, HeatRecheck, CoolRecheck
  <2>2. CASE AllOff
    BY <2>2 DEF AllOff, SetFurnace, TypeOK
  <2>3. CASE pc = "recheck"
    BY <1>1, <2>3 DEF Off, Decide, HeatAway, HeatTooHot, HeatNotTooHot, CoolAway, CoolTooHot,
                      CoolNotTooHot, HeatRecheck, CoolRecheck, AllOff
  <2> QED BY <2>1, <2>2, <2>3
<1>2. CASE ~Decide
  <2>1. Tick \/ HourTurns \/ Disconnect \/ Reconnect \/ Sense \/ PollNothing \/ Receive
          \/ EraseSector \/ WriteSector \/ UNCHANGED vars
    BY <1>2 DEF Next, Loop, Off, Setup, PowerCut
  <2>2. UNCHANGED relays
    BY <2>1 DEF Tick, HourTurns, Disconnect, Reconnect, Sense, PollNothing, Receive,
                TargettempCb, AwayCb, HvacmodeCb, EraseSector, WriteSector, vars, relays
  <2> QED BY <1>2, <2>2 DEF Decides, relays
<1> QED BY <1>1, <1>2

(* With the mode left on "off" the relays open, the furnace once its       *)
(* lockout is over, and stay open.                                         *)
THEOREM OffOpensRelays == FairSpec /\ LoopGoesOn => OffMeansOff
<1>1. TypeOK /\ Off /\ Off' /\ [Next]_vars =>
        /\ furnace_state' => furnace_state
        /\ ac_state' => ac_state
        /\ fan_state' => fan_state
        /\ <<Decides>>_vars => /\ ~ac_state' /\ ~fan_state'
                               /\ age > MIN_CHANGE_DURATION => ~furnace_state'
  BY OffOpens
<1>2. TypeOK /\ [Next]_vars /\ furnace_state /\ furnace_state' /\ age > MIN_CHANGE_DURATION
        => (age > MIN_CHANGE_DURATION)'
  BY LockoutStaysOver
<1>3. Off => ~(pc = "setup")
  BY DEF Off
<1>4. Spec /\ Scheduled /\ []LockoutEnds => (<>[]Off => <>[](~furnace_state /\ ~ac_state /\ ~fan_state))
  BY <1>1, <1>2, <1>3, PassesGoOn, TypeCorrect, PTL DEF Spec, LockoutEnds
<1> QED BY <1>4, FairIsScheduled, PTL DEF LoopGoesOn, OffMeansOff, Off

\* In a room that is cold for the user at home, decisions go to the second reading
\* of the target, and from there to the burner.
Chilly == hvacmode = "heating" /\ ~away /\ Cold /\ pc # "setup"
LEMMA ColdReadings ==
    ASSUME HILOGAP >= 2, TypeOK, Chilly
    PROVE  /\ ~IntAbove(localtemp, get_targettemp - HILOGAP \div 2)
           /\ ~IntAbove(localtemp, get_targettemp + HILOGAP \div 2 - 1)
<1>1. IntOf(localtemp) <= get_targettemp - HILOGAP \div 2 /\ localtemp # NaN
  BY DEF Chilly, Cold, TypeOK, get_targettemp
<1>2. HILOGAP \div 2 \in Nat /\ HILOGAP \div 2 >= 1
  BY DegreesAssumption
<1>3. get_targettemp \in Int /\ IntOf(localtemp) \in Int
  BY DegreesAssumption DEF TypeOK, get_targettemp, Readings, Classes, NaN, IntOf
<1> QED BY <1>1, <1>2, <1>3 DEF IntAbove

LEMMA ColdHeats ==
    HILOGAP >= 2 /\ TypeOK /\ Chilly /\ Chilly' /\ [Next]_vars =>
        /\ furnace_state => furnace_state'
        /\ furnace_state /\ fan_state => fan_state'
        /\ <<Decides>>_vars => ~(pc = "recheck") /\ (pc = "recheck")'
        /\ pc = "recheck" => \/ (pc = "recheck")'
                             \/ /\ furnace_state' => fan_state'
                                /\ age > MIN_CHANGE_DURATION => furnace_state'
<1> SUFFICES ASSUME HILOGAP >= 2, TypeOK, Chilly, Chilly', [Next]_vars PROVE ColdHeats!2
  OBVIOUS
<1>1. CASE Decide
  <2>1. HeatNotTooHot \/ HeatRecheck
    BY <1>1, ColdReadings DEF Chilly, Decide, HeatAway, HeatTooHot, CoolAway, CoolTooHot,
                              CoolNotTooHot, CoolRecheck, AllOff
  <2>2. CASE HeatNotTooHot
    BY <2>2 DEF HeatNotTooHot
  <2>3. CASE HeatRecheck
    <3>1. SetFurnace(TRUE) /\ fan_state' = furnace_state' /\ pc = "recheck"
      BY <2>3, ColdReadings DEF HeatRecheck
    <3> QED BY <3>1 DEF SetFurnace, TypeOK, Decides
  <2> QED BY <2>1, <2>2, <2>3
<1>2. CASE ~Decide
  <2>1. Tick \/ HourTurns \/ Disconnect \/ Reconnect \/ Sense \/ PollNothing \/ Receive
          \/ EraseSector \/ WriteSector \/ UNCHANGED vars
    BY <1>2 DEF Next, Loop, Chilly, Setup, PowerCut
  <2>2. UNCHANGED <<furnace_state, fan_state>> /\ (pc = "recheck" => pc' = "recheck")
    BY <2>1 DEF Tick, HourTurns, Disconnect, Reconnect, Sense, PollNothing, Receive,
                TargettempCb, AwayCb, HvacmodeCb, EraseSector, WriteSector, vars, relays
  <2> QED BY <1>2, <2>2 DEF Decides
<1> QED BY <1>1, <1>2

(* A room that stays cold is heated for good, for every dead band of two   *)
(* degrees or more (constants.h has four): with a narrower one the two     *)
(* tests of the heating branch leave a temperature at which neither heats. *)
THEOREM ColdRoomIsHeated ==
    HILOGAP >= 2 /\ FairSpec /\ LoopGoesOn => ColdGetsHeat
<1> SUFFICES ASSUME HILOGAP >= 2
             PROVE  FairSpec /\ LoopGoesOn => ColdGetsHeat
  OBVIOUS
<1>1. TypeOK /\ Chilly /\ Chilly' /\ [Next]_vars =>
        /\ furnace_state => furnace_state'
        /\ furnace_state /\ fan_state => fan_state'
        /\ <<Decides>>_vars => ~(pc = "recheck") /\ (pc = "recheck")'
        /\ pc = "recheck" => \/ (pc = "recheck")'
                             \/ /\ furnace_state' => fan_state'
                                /\ age > MIN_CHANGE_DURATION => furnace_state'
  BY ColdHeats
<1>2. TypeOK /\ [Next]_vars /\ ~furnace_state /\ ~furnace_state' /\ age > MIN_CHANGE_DURATION
        => (age > MIN_CHANGE_DURATION)'
  BY LockoutStaysOver
<1>3. Chilly => ~(pc = "setup")
  BY DEF Chilly
<1>4. Spec /\ Scheduled /\ []LockoutEnds => (<>[]Chilly => <>[](furnace_state /\ fan_state))
  BY <1>1, <1>2, <1>3, PassesGoOn, TypeCorrect, PTL DEF Spec, LockoutEnds
<1> QED BY <1>4, FairIsScheduled, PTL DEF LoopGoesOn, ColdGetsHeat, Chilly
===============================================================================
