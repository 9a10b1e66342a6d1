---------------------------- MODULE MqttStat_proofs ----------------------------
(***************************************************************************)
(* Theorems about MqttStat for every choice of its constants.              *)
(***************************************************************************)
EXTENDS MqttStat, TLAPS

(* The inductive invariant: EEPROM's buffer holds the set points in force  *)
(* from setup() on, and the sector holds the buffer outside commit().      *)
EepromInv ==
    /\ pc # "setup" => settemplo = LoadedLo(ram) /\ settemphi = LoadedHi(ram)
    /\ pc \notin {"setup", "erase", "write"} => flash = ram
IInv == TypeOK /\ OneSourceWithBlower /\ EepromInv

LEMMA BlankBytes == Blank \in Bytes
BY DEF Blank, Bytes

LEMMA LoadedSetPoint ==
    ASSUME NEW bytes \in Bytes
    PROVE  LoadedLo(bytes) \in SetPoints /\ LoadedHi(bytes) \in SetPoints
BY SetPointAssumption DEF Bytes, LoadedLo, LoadedHi, SetPoints, ERASED

LEMMA InitIInv == Init => IInv
<1> SUFFICES ASSUME Init PROVE IInv
  OBVIOUS
<1>1. settemplo \in SetPoints /\ settemphi \in SetPoints
  BY SetPointAssumption DEF Init, SetPoints
<1>2. localtemperature \in Classes
  BY SetPointAssumption DEF Init, Classes
<1>3. TypeOK
  BY <1>1, <1>2, BlankBytes DEF Init, TypeOK, Places
<1>4. OneSourceWithBlower
  BY DEF Init, OneSourceWithBlower
<1>5. EepromInv
  BY DEF Init, EepromInv
<1> QED BY <1>3, <1>4, <1>5 DEF IInv

(* A stored set point is in range, and in the buffer, before its commit(). *)
LEMMA StoreLo ==
    ASSUME IInv, NEW temp \in Int, NEW next \in {"lo_guard", "control"}, pc \in {"poll", "hi_guard"},
           _settemplo(temp, next)
    PROVE  /\ settemplo' \in SetPoints /\ settemphi' \in SetPoints
           /\ ram' \in Bytes /\ flash' \in Bytes
           /\ pc' \in {"erase", next} /\ resume' \in {"lo_guard", "hi_guard", "control"}
           /\ EepromInv'
<1> USE DEF IInv, TypeOK, _settemplo
<1>1. CASE Accepted(temp) /\ temp # settemplo
  <2>1. temp \in SetPoints /\ temp # ERASED
    BY <1>1, SetPointAssumption DEF Accepted, SetPoints, ERASED
  <2>2. ram' \in Bytes /\ ram'.lo = temp /\ ram'.hi = ram.hi
    BY <1>1, <2>1 DEF Bytes
  <2>3. settemplo' = LoadedLo(ram') /\ settemphi' = LoadedHi(ram')
    BY <1>1, <2>1, <2>2 DEF EepromInv, LoadedLo, LoadedHi
  <2> QED BY <1>1, <2>1, <2>2, <2>3 DEF EepromInv
<1>2. CASE ~(Accepted(temp) /\ temp # settemplo)
  BY <1>2 DEF EepromInv, LoadedLo, LoadedHi
<1> QED BY <1>1, <1>2

LEMMA StoreHi ==
    ASSUME IInv, NEW temp \in Int, NEW next \in {"hi_guard", "control"}, pc \in {"poll", "lo_guard"},
           _settemphi(temp, next)
    PROVE  /\ settemplo' \in SetPoints /\ settemphi' \in SetPoints
           /\ ram' \in Bytes /\ flash' \in Bytes
           /\ pc' \in {"erase", next} /\ resume' \in {"lo_guard", "hi_guard", "control"}
           /\ EepromInv'
<1> USE DEF IInv, TypeOK, _settemphi
<1>1. CASE Accepted(temp) /\ temp # settemphi
  <2>1. temp \in SetPoints /\ temp # ERASED
    BY <1>1, SetPointAssumption DEF Accepted, SetPoints, ERASED
  <2>2. ram' \in Bytes /\ ram'.hi = temp /\ ram'.lo = ram.lo
    BY <1>1, <2>1 DEF Bytes
  <2>3. settemplo' = LoadedLo(ram') /\ settemphi' = LoadedHi(ram')
    BY <1>1, <2>1, <2>2 DEF EepromInv, LoadedLo, LoadedHi
  <2> QED BY <1>1, <2>1, <2>2, <2>3 DEF EepromInv
<1>2. CASE ~(Accepted(temp) /\ temp # settemphi)
  BY <1>2 DEF EepromInv, LoadedLo, LoadedHi
<1> QED BY <1>1, <1>2

LEMMA IInvStep == ASSUME IInv, [Next]_vars PROVE IInv'
<1> USE DEF IInv
<1>1. CASE PowerCut
  <2>0. 0 \in Classes
    BY SetPointAssumption DEF Classes
  <2>1. TypeOK'
    BY <1>1, <2>0 DEF TypeOK, PowerCut, setpoints, eeprom, Places
  <2>2. OneSourceWithBlower' /\ EepromInv'
    BY <1>1 DEF PowerCut, OneSourceWithBlower, EepromInv
  <2> QED BY <2>1, <2>2
<1>2. CASE Setup
  <2>1. flash \in Bytes
    BY DEF TypeOK
  <2>2. TypeOK'
    BY <1>2, <2>1, LoadedSetPoint DEF TypeOK, Setup, relays, Places
  <2>3. EepromInv'
    BY <1>2 DEF Setup, EepromInv, LoadedLo, LoadedHi
  <2>4. OneSourceWithBlower'
    BY <1>2 DEF Setup, OneSourceWithBlower, relays
  <2> QED BY <2>2, <2>3, <2>4
<1>3. ASSUME UNCHANGED <<relays, setpoints, eeprom, resume>>,
             localtemperature' \in Classes \cup {NaN},
             connected' \in BOOLEAN,
             \/ pc' = pc
             \/ pc \in {"loop", "reconnect", "poll", "lo_guard", "hi_guard"}
                /\ pc' \in {"poll", "reconnect", "control"}
      PROVE  IInv'
  <2>1. TypeOK'
    BY <1>3 DEF TypeOK, relays, setpoints, eeprom, Places
  <2>2. OneSourceWithBlower'
    BY <1>3 DEF OneSourceWithBlower, relays
  <2>3. EepromInv'
    BY <1>3 DEF EepromInv, LoadedLo, LoadedHi, setpoints, eeprom
  <2> QED BY <2>1, <2>2, <2>3
<1>4. localtemperature \in Classes \cup {NaN} /\ connected \in BOOLEAN
  BY DEF TypeOK
<1>5. CASE Disconnect \/ Reconnect \/ Sense \/ PollNothing
  BY <1>3, <1>4, <1>5 DEF Disconnect, Reconnect, Sense, PollNothing
<1>6. ASSUME NEW temp \in Payloads, SettemploCb(temp) PROVE IInv'
  <2>1. temp \in Int
    BY SetPointAssumption
  <2>2. pc = "poll" /\ _settemplo(temp, "lo_guard") /\ UNCHANGED <<relays, localtemperature, connected>>
    BY <1>6 DEF SettemploCb
  <2>3. TypeOK' /\ EepromInv'
    BY <2>1, <2>2, StoreLo DEF TypeOK, relays, Places
  <2>4. OneSourceWithBlower'
    BY <2>2 DEF OneSourceWithBlower, relays
  <2> QED BY <2>3, <2>4
<1>7. ASSUME NEW temp \in Payloads, SettemphiCb(temp) PROVE IInv'
  <2>1. temp \in Int
    BY SetPointAssumption
  <2>2. pc = "poll" /\ _settemphi(temp, "hi_guard") /\ UNCHANGED <<relays, localtemperature, connected>>
    BY <1>7 DEF SettemphiCb
  <2>3. TypeOK' /\ EepromInv'
    BY <2>1, <2>2, StoreHi DEF TypeOK, relays, Places
  <2>4. OneSourceWithBlower'
    BY <2>2 DEF OneSourceWithBlower, relays
  <2> QED BY <2>3, <2>4
<1>8. CASE LoGuard
  <2>1. CASE settemplo > settemphi
    <3>1. pc = "lo_guard" /\ _settemphi(HIGHEST_TEMP, "control")
          /\ UNCHANGED <<relays, localtemperature, connected>>
      BY <1>8, <2>1 DEF LoGuard
    <3>2. HIGHEST_TEMP \in Int
      BY SetPointAssumption
    <3>3. TypeOK' /\ EepromInv'
      BY <3>1, <3>2, StoreHi DEF TypeOK, relays, Places
    <3>4. OneSourceWithBlower'
      BY <3>1 DEF OneSourceWithBlower, relays
    <3> QED BY <3>3, <3>4
  <2>2. CASE ~(settemplo > settemphi)
    BY <1>3, <1>4, <1>8, <2>2 DEF LoGuard
  <2> QED BY <2>1, <2>2
<1>9. CASE HiGuard
  <2>1. CASE settemphi <= settemplo
    <3>1. pc = "hi_guard" /\ _settemplo(LOWEST_TEMP, "control")
          /\ UNCHANGED <<relays, localtemperature, connected>>
      BY <1>9, <2>1 DEF HiGuard
    <3>2. LOWEST_TEMP \in Int
      BY SetPointAssumption
    <3>3. TypeOK' /\ EepromInv'
      BY <3>1, <3>2, StoreLo DEF TypeOK, relays, Places
    <3>4. OneSourceWithBlower'
      BY <3>1 DEF OneSourceWithBlower, relays
    <3> QED BY <3>3, <3>4
  <2>2. CASE ~(settemphi <= settemplo)
    BY <1>3, <1>4, <1>9, <2>2 DEF HiGuard
  <2> QED BY <2>1, <2>2
<1>10. CASE EraseSector
  <2>1. TypeOK'
    BY <1>10, BlankBytes DEF TypeOK, EraseSector, relays, setpoints, Places
  <2>2. OneSourceWithBlower' /\ EepromInv'
    BY <1>10 DEF EraseSector, OneSourceWithBlower, EepromInv, LoadedLo, LoadedHi, relays, setpoints
  <2> QED BY <2>1, <2>2
<1>11. CASE WriteSector
  <2>1. TypeOK'
    BY <1>11 DEF TypeOK, WriteSector, relays, setpoints, Places
  <2>2. OneSourceWithBlower' /\ EepromInv'
    BY <1>11 DEF WriteSector, OneSourceWithBlower, EepromInv, LoadedLo, LoadedHi, relays, setpoints
  <2> QED BY <2>1, <2>2
<1>12. CASE Control
  <2>1. TooCold \in BOOLEAN /\ TooHot \in BOOLEAN
    BY DEF TooCold, TooHot
  <2>2. TypeOK'
    BY <1>12, <2>1 DEF TypeOK, Control, setpoints, eeprom, Places
  <2>3. EepromInv'
    BY <1>12 DEF Control, EepromInv, LoadedLo, LoadedHi, setpoints, eeprom
  <2>4. OneSourceWithBlower'
    BY <1>12, <2>1 DEF Control, OneSourceWithBlower
  <2> QED BY <2>2, <2>3, <2>4
<1>13. CASE UNCHANGED vars
  BY <1>3, <1>4, <1>13 DEF vars
<1> QED
  BY <1>1, <1>2, <1>5, <1>6, <1>7, <1>8, <1>9, <1>10, <1>11, <1>12, <1>13 DEF Next

LEMMA IInvAlways == Spec => []IInv
BY InitIInv, IInvStep, PTL DEF Spec

(* Set points never leave LOWEST_TEMP+1..HIGHEST_TEMP-1, restarts included. *)
THEOREM TypeCorrect == Spec => []TypeOK
BY IInvAlways, PTL DEF IInv

(* Furnace and compressor are never on together, whatever the set points,  *)
(* and the blower runs exactly when one of them does.                      *)
THEOREM NeverBothSources == Spec => []OneSourceWithBlower
BY IInvAlways, PTL DEF IInv

(* A restart outside commit() brings back both set points.                 *)
THEOREM RestartKeepsSetPoints == Spec => []SetPointsSurviveRestart
<1>1. IInv => SetPointsSurviveRestart
  BY DEF IInv, EepromInv, SetPointsSurviveRestart, LoadedLo, LoadedHi
<1> QED BY <1>1, IInvAlways, PTL

(* Crossed set points leave no dead band: one of the sources always runs,  *)
(* unless the sensor has failed, when none does.                           *)
THEOREM NoRestWhenCrossed == Spec => CrossedNeverRests
<1>1. ASSUME TypeOK, [Next]_vars, pc = "control", pc' = "loop"
      PROVE  IF localtemperature = NaN THEN ~fan_state'
             ELSE settemplo > settemphi => fan_state'
  <2>1. Control
    BY <1>1 DEF Next, PowerCut, Setup, Disconnect, Reconnect, Sense, PollNothing, SettemploCb,
                SettemphiCb, LoGuard, HiGuard, EraseSector, WriteSector, vars
  <2>2. fan_state' = (TooCold \/ TooHot)
    BY <2>1 DEF Control
  <2>3. localtemperature = NaN => ~(TooCold \/ TooHot)
    BY DEF TooCold, TooHot
  <2>4. localtemperature # NaN /\ settemplo > settemphi => TooCold \/ TooHot
    BY <1>1, SetPointAssumption DEF TypeOK, Classes, SetPoints, TooCold, TooHot
  <2> QED BY <2>2, <2>3, <2>4
<1>2. TypeOK /\ [Next]_vars =>
        [pc = "control" /\ pc' = "loop" =>
            IF localtemperature = NaN THEN ~fan_state'
            ELSE settemplo > settemphi => fan_state']_vars
  BY <1>1
<1> QED BY <1>2, TypeCorrect, PTL DEF Spec, CrossedNeverRests
===============================================================================
