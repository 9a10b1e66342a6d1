----------------------------- MODULE HvacControl -----------------------------
(***************************************************************************)
(* The control loop of the current firmware, OpenThermostat.ino: setup(),  *)
(* one pass of loop(), the message handlers that change what the loop      *)
(* reads, the three relays with the 60 s lockout of the furnace, and the   *)
(* settings sector of the EEPROM.                                          *)
(*                                                                         *)
(* The loop is cut where something else can happen between two of its      *)
(* steps: the clock ticks, an hour turns, the connection drops, the power  *)
(* fails.  The network is the environment: a message of any accepted topic *)
(* may arrive at any pass, which includes the echo of the thermostat's own *)
(* publications.  What the firmware publishes changes none of its state    *)
(* and is the business of the messaging modules.                           *)
(*                                                                         *)
(* Temperatures are classes of half a degree: class 2n is exactly n        *)
(* degrees, class 2n + 1 is everything strictly between n and n + 1.  This *)
(* separates the float comparisons of the away branches from the int()     *)
(* comparisons of the home branches.  NaN, which the sensor's library      *)
(* returns for two bytes of ones, is on neither side of anything.          *)
(***************************************************************************)
EXTENDS Integers

CONSTANTS
    LOWEST_TEMP, HIGHEST_TEMP,    \* accepted target temperatures
    HILOGAP,                      \* width of the dead band
    AWAYMIN, AWAYMAX,             \* limits kept while nobody is home
    MIN_CHANGE_DURATION,          \* furnace lockout, in seconds
    NightTemp, DayTemp,           \* the initial targettemps
    MinTemp, MaxTemp,             \* bound: whole degrees localtemp spans
    Payloads,                     \* bound: integers a targettemp message may carry
    SensorMayFail,                \* the first reading may be no number
    Leftover                      \* bytes another firmware may have left at AWAY_ADDR

ASSUME DegreesAssumption ==
    /\ LOWEST_TEMP \in Nat /\ HIGHEST_TEMP \in Nat
    /\ NightTemp \in LOWEST_TEMP..HIGHEST_TEMP
    /\ DayTemp \in LOWEST_TEMP..HIGHEST_TEMP
    /\ AWAYMIN \in Nat /\ AWAYMAX \in Nat /\ HILOGAP \in Nat
    /\ MinTemp \in Nat /\ MaxTemp \in Nat /\ MinTemp < MaxTemp
    /\ Payloads \subseteq Int
    /\ SensorMayFail \in BOOLEAN

ASSUME LockoutAssumption == MIN_CHANGE_DURATION \in Nat

ASSUME LeftoverAssumption == Leftover \subseteq 0 .. 255

VARIABLES
    pc,              \* where the processor is: see Places
    furnace_state, ac_state, fan_state,   \* the relays
    away, hvacmode, targettemps,          \* what the user has set
    localtemp,       \* class of the filtered room temperature
    index,           \* what get_target_index() returns at this time of day
    age,             \* seconds since last_furnace_state_change, saturated
    connected,       \* the MQTT connection is up
    ram, flash       \* the AWAY_ADDR byte: EEPROM's buffer and its sector

relays == <<furnace_state, ac_state, fan_state>>
settings == <<away, hvacmode, targettemps>>
eeprom == <<ram, flash>>
vars == <<pc, relays, settings, localtemp, index, age, connected, eeprom>>

Places == {"setup", "sense", "reconnect", "poll", "erase", "write", "control", "recheck"}
Modes == {"heating", "cooling", "off"}    \* hvacmode[0] is 'h', 'c' or another byte
Classes == 2 * MinTemp .. 2 * MaxTemp
NaN == -1
Readings == Classes \cup (IF SensorMayFail THEN {NaN} ELSE {})
Ages == 0 .. MIN_CHANGE_DURATION + 1
LongAgo == MIN_CHANGE_DURATION + 1        \* every age the lockout no longer tells apart

ERASED == 255
Byte(b) == IF b THEN 1 ELSE 0

TypeOK ==
    /\ pc \in Places
    /\ furnace_state \in BOOLEAN /\ ac_state \in BOOLEAN /\ fan_state \in BOOLEAN
    /\ away \in BOOLEAN
    /\ hvacmode \in Modes
    /\ targettemps \in [{0, 1} -> LOWEST_TEMP .. HIGHEST_TEMP]
    /\ localtemp \in Readings
    /\ index \in {0, 1}
    /\ age \in Ages
    /\ connected \in BOOLEAN
    /\ ram \in 0 .. 255 /\ flash \in 0 .. 255

-----------------------------------------------------------------------------
(* Time: the DS3231 runs on its own, whatever the processor does.          *)

Later(a) == IF a < LongAgo THEN a + 1 ELSE a

Tick ==
    /\ age' = Later(age)
    /\ UNCHANGED <<pc, relays, settings, localtemp, index, connected, eeprom>>

\* 6:00 or 22:00: the index of the target in force changes.
HourTurns ==
    /\ index' = 1 - index
    /\ age' = Later(age)
    /\ UNCHANGED <<pc, relays, settings, localtemp, connected, eeprom>>

(* int() of a temperature class, and the comparisons with whole degrees.   *)
(* int() of NaN is undefined: a test of it may go either way.              *)
IntOf(class) == class \div 2
Below(class, degrees) == class # NaN /\ class < 2 * degrees
Above(class, degrees) == class # NaN /\ class > 2 * degrees
IntAbove(class, degrees) == class = NaN \/ IntOf(class) > degrees
IntNotAbove(class, degrees) == class = NaN \/ IntOf(class) <= degrees

get_targettemp == targettemps[index]

-----------------------------------------------------------------------------
(* Power-up, setup and the connection.                                     *)

Init ==
    /\ pc = "setup"
    /\ furnace_state = FALSE /\ ac_state = FALSE /\ fan_state = FALSE
    /\ away = FALSE
    /\ hvacmode = "heating"
    /\ targettemps = [i \in {0, 1} |-> IF i = 0 THEN NightTemp ELSE DayTemp]
    /\ localtemp \in Readings
    /\ index \in {0, 1}
    /\ age = LongAgo
    /\ connected = FALSE
    /\ ram = ERASED
    /\ flash \in {ERASED} \cup Leftover

\* The power fails, at any point of the loop, and comes back: the pins are low
\* and every global has its initial value; only the flash sector remains.
PowerCut ==
    /\ pc' = "setup"
    /\ furnace_state' = FALSE /\ ac_state' = FALSE /\ fan_state' = FALSE
    /\ away' = FALSE
    /\ hvacmode' = "heating"
    /\ targettemps' = [i \in {0, 1} |-> IF i = 0 THEN NightTemp ELSE DayTemp]
    /\ age' = LongAgo
    /\ connected' = FALSE
    /\ UNCHANGED <<localtemp, index, ram, flash>>

Loaded(byte) == byte \notin {0, ERASED}     \* loadSettings()

\* setup() takes an unfiltered, unchecked reading, loads the settings, and
\* returns only once the broker has accepted the connection.
Setup ==
    /\ pc = "setup"
    /\ pc' = "sense"
    /\ localtemp' \in Readings
    /\ ram' = flash
    /\ away' = Loaded(flash)
    /\ connected' = TRUE
    /\ UNCHANGED <<relays, hvacmode, targettemps, index, age, flash>>

Disconnect ==
    /\ connected
    /\ connected' = FALSE
    /\ UNCHANGED <<pc, relays, settings, localtemp, index, age, eeprom>>

\* mqtt_reconnect() blocks the loop: nothing is controlled until it returns.
Reconnect ==
    /\ pc = "reconnect"
    /\ pc' = "poll"
    /\ connected' = TRUE
    /\ UNCHANGED <<relays, settings, localtemp, index, age, eeprom>>

-----------------------------------------------------------------------------
(* Sensing.  One reading weighs 0.0001 in the filter, so a pass moves      *)
(* localtemp by less than half a degree: to a neighbouring class, or over  *)
(* the single value n between two open intervals.  Later readings are      *)
(* checked, but what is not a number stays none.                           *)

Near(class) ==
    IF class % 2 = 1 THEN class - 2 .. class + 2 ELSE class - 1 .. class + 1

Filtered(temp) == IF temp = NaN THEN {NaN} ELSE Near(temp) \cap Classes

Sense ==
    /\ pc = "sense"
    /\ localtemp' \in Filtered(localtemp)
    /\ pc' = IF connected THEN "poll" ELSE "reconnect"
    /\ UNCHANGED <<relays, settings, index, age, connected, eeprom>>

-----------------------------------------------------------------------------
(* mqtt_client.loop() delivers at most one message per pass.               *)

\* Nothing arrived, the connection dropped, or the message is one of the
\* requests, which are answered and change nothing here.
PollNothing ==
    /\ pc = "poll"
    /\ pc' = "control"
    /\ UNCHANGED <<relays, settings, localtemp, index, age, connected, eeprom>>

Accepted_NoLowest(temp) == temp <= HIGHEST_TEMP    \* mutant: half the range check
Accepted(temp) == temp \in LOWEST_TEMP .. HIGHEST_TEMP

\* EEPROM.write marks the buffer dirty only when the byte differs.  The
\* TARGETTEMP_ADDR byte is never read back and is not kept here, so whether
\* commit() has work to do is left open.
TargettempCb(temp) ==
    /\ pc = "poll" /\ connected
    /\ IF Accepted(temp) /\ temp # get_targettemp
       THEN /\ targettemps' = [targettemps EXCEPT ![index] = temp]
            /\ pc' \in {"erase", "control"}
       ELSE /\ pc' = "control"
            /\ UNCHANGED targettemps
    /\ UNCHANGED <<relays, away, hvacmode, localtemp, index, age, connected, eeprom>>

\* Mutant: the setting is written to the buffer only.
AwayCb_NoCommit(payload) ==
    /\ pc = "poll" /\ connected
    /\ IF payload # away
       THEN away' = payload /\ ram' = Byte(payload)
       ELSE UNCHANGED <<away, ram>>
    /\ pc' = "control"
    /\ UNCHANGED <<relays, hvacmode, targettemps, localtemp, index, age, connected, flash>>

AwayCb(payload) ==
    /\ pc = "poll" /\ connected
    /\ IF payload # away
       THEN /\ away' = payload
            /\ ram' = Byte(payload)
            /\ pc' = "erase"
       ELSE /\ pc' = "control"
            /\ UNCHANGED <<away, ram>>
    /\ UNCHANGED <<relays, hvacmode, targettemps, localtemp, index, age, connected, flash>>

HvacmodeCb(payload) ==
    /\ pc = "poll" /\ connected
    /\ hvacmode' = payload
    /\ pc' = "control"
    /\ UNCHANGED <<relays, away, targettemps, localtemp, index, age, connected, eeprom>>

\* commit() erases the whole sector, then writes the buffer back.
EraseSector ==
    /\ pc = "erase"
    /\ pc' = "write"
    /\ flash' = ERASED
    /\ UNCHANGED <<relays, settings, localtemp, index, age, connected, ram>>

WriteSector ==
    /\ pc = "write"
    /\ pc' = "control"
    /\ flash' = ram
    /\ UNCHANGED <<relays, settings, localtemp, index, age, connected, ram>>

-----------------------------------------------------------------------------
(* The decision of one pass.                                               *)

\* Mutants of set_furnace(): there is no lockout; the time of the change is not
\* recorded; it is recorded on refusals too.
SetFurnace_NoLockout(state) ==
    IF state # furnace_state
    THEN furnace_state' = state /\ age' = 0
    ELSE UNCHANGED <<furnace_state, age>>
SetFurnace_NoRecord(state) ==
    IF state # furnace_state /\ age > MIN_CHANGE_DURATION
    THEN furnace_state' = state /\ age' = age
    ELSE UNCHANGED <<furnace_state, age>>
SetFurnace_RecordsRefusals(state) ==
    IF state = furnace_state THEN UNCHANGED <<furnace_state, age>>
    ELSE /\ furnace_state' = IF age > MIN_CHANGE_DURATION THEN state ELSE furnace_state
         /\ age' = 0

\* Mutant of set_furnace(): it waits for the lockout to end.
SetFurnace_Waits(state) ==
    /\ state # furnace_state => age > MIN_CHANGE_DURATION
    /\ furnace_state' = state
    /\ age' = IF state # furnace_state THEN 0 ELSE age

\* set_furnace(): refused while the last change is too recent.
SetFurnace(state) ==
    IF state # furnace_state /\ age > MIN_CHANGE_DURATION
    THEN furnace_state' = state /\ age' = 0
    ELSE UNCHANGED <<furnace_state, age>>

HeatAway ==
    /\ pc = "control" /\ hvacmode = "heating" /\ away
    /\ ac_state' = FALSE
    /\ \/ Below(localtemp, AWAYMIN - HILOGAP \div 2) /\ SetFurnace(TRUE)
       \/ Above(localtemp, AWAYMIN + HILOGAP \div 2) /\ SetFurnace(FALSE)
       \/ /\ ~Below(localtemp, AWAYMIN - HILOGAP \div 2)
          /\ ~Above(localtemp, AWAYMIN + HILOGAP \div 2)
          /\ UNCHANGED <<furnace_state, age>>
    /\ fan_state' = furnace_state'
    /\ pc' = "sense"
    /\ UNCHANGED <<settings, localtemp, index, connected, eeprom>>

\* "Too hot", by the first reading of the target.
HeatTooHot ==
    /\ pc = "control" /\ hvacmode = "heating" /\ ~away
    /\ IntAbove(localtemp, get_targettemp - HILOGAP \div 2)
    /\ ac_state' = FALSE
    /\ SetFurnace(FALSE)
    /\ fan_state' = furnace_state'
    /\ pc' = "sense"
    /\ UNCHANGED <<settings, localtemp, index, connected, eeprom>>

HeatNotTooHot ==
    /\ pc = "control" /\ hvacmode = "heating" /\ ~away
    /\ IntNotAbove(localtemp, get_targettemp - HILOGAP \div 2)
    /\ ac_state' = FALSE
    /\ pc' = "recheck"
    /\ UNCHANGED <<furnace_state, fan_state, age, settings, localtemp, index, connected, eeprom>>

\* "Too cold" or "just right", by the second reading of the target.
HeatRecheck ==
    /\ pc = "recheck" /\ hvacmode = "heating"
    /\ \/ IntNotAbove(localtemp, get_targettemp + HILOGAP \div 2 - 1) /\ SetFurnace(TRUE)
       \/ /\ IntAbove(localtemp, get_targettemp + HILOGAP \div 2 - 1)
          /\ UNCHANGED <<furnace_state, age>>
    /\ fan_state' = furnace_state'
    /\ pc' = "sense"
    /\ UNCHANGED <<ac_state, settings, localtemp, index, connected, eeprom>>

CoolAway ==
    /\ pc = "control" /\ hvacmode = "cooling" /\ away
    /\ SetFurnace(FALSE)
    /\ \/ Above(localtemp, AWAYMAX) /\ fan_state' = TRUE /\ ac_state' = TRUE
       \/ Below(localtemp, AWAYMAX - HILOGAP) /\ fan_state' = FALSE /\ ac_state' = FALSE
       \/ /\ ~Above(localtemp, AWAYMAX) /\ ~Below(localtemp, AWAYMAX - HILOGAP)
          /\ UNCHANGED <<fan_state, ac_state>>
    /\ pc' = "sense"
    /\ UNCHANGED <<settings, localtemp, index, connected, eeprom>>

CoolTooHot ==
    /\ pc = "control" /\ hvacmode = "cooling" /\ ~away
    /\ IntAbove(localtemp, get_targettemp)
    /\ SetFurnace(FALSE)
    /\ ac_state' = TRUE /\ fan_state' = TRUE
    /\ pc' = "sense"
    /\ UNCHANGED <<settings, localtemp, index, connected, eeprom>>

CoolNotTooHot ==
    /\ pc = "control" /\ hvacmode = "cooling" /\ ~away
    /\ IntNotAbove(localtemp, get_targettemp)
    /\ SetFurnace(FALSE)
    /\ pc' = "recheck"
    /\ UNCHANGED <<ac_state, fan_state, settings, localtemp, index, connected, eeprom>>

\* Mutant: the compressor is forgotten when the room is cold enough.
CoolRecheck_FanOnly ==
    /\ pc = "recheck" /\ hvacmode = "cooling"
    /\ \/ IntNotAbove(localtemp, get_targettemp - HILOGAP) /\ fan_state' = FALSE
       \/ IntAbove(localtemp, get_targettemp - HILOGAP) /\ UNCHANGED fan_state
    /\ pc' = "sense"
    /\ UNCHANGED <<ac_state, furnace_state, age, settings, localtemp, index, connected, eeprom>>

CoolRecheck ==
    /\ pc = "recheck" /\ hvacmode = "cooling"
    /\ \/ /\ IntNotAbove(localtemp, get_targettemp - HILOGAP)
          /\ ac_state' = FALSE /\ fan_state' = FALSE
       \/ /\ IntAbove(localtemp, get_targettemp - HILOGAP)
          /\ UNCHANGED <<ac_state, fan_state>>
    /\ pc' = "sense"
    /\ UNCHANGED <<furnace_state, age, settings, localtemp, index, connected, eeprom>>

\* Mutants: "off" forgets the furnace, or the blower.
AllOff_NotFan ==
    /\ pc = "control" /\ hvacmode = "off"
    /\ ac_state' = FALSE
    /\ SetFurnace(FALSE)
    /\ pc' = "sense"
    /\ UNCHANGED <<fan_state, settings, localtemp, index, connected, eeprom>>
AllOff_NotFurnace ==
    /\ pc = "control" /\ hvacmode = "off"
    /\ ac_state' = FALSE /\ fan_state' = FALSE
    /\ pc' = "sense"
    /\ UNCHANGED <<furnace_state, age, settings, localtemp, index, connected, eeprom>>

AllOff ==
    /\ pc = "control" /\ hvacmode = "off"
    /\ ac_state' = FALSE
    /\ SetFurnace(FALSE)
    /\ fan_state' = FALSE
    /\ pc' = "sense"
    /\ UNCHANGED <<settings, localtemp, index, connected, eeprom>>

-----------------------------------------------------------------------------

Receive ==
    \/ \E temp \in Payloads : TargettempCb(temp)
    \/ \E payload \in BOOLEAN : AwayCb(payload)
    \/ \E payload \in Modes : HvacmodeCb(payload)

Decide ==
    \/ HeatAway \/ HeatTooHot \/ HeatNotTooHot \/ HeatRecheck
    \/ CoolAway \/ CoolTooHot \/ CoolNotTooHot \/ CoolRecheck
    \/ AllOff

\* What the processor does on its own, waiting for nobody.
Loop == Sense \/ PollNothing \/ Receive \/ EraseSector \/ WriteSector \/ Decide

Next ==
    \/ Tick \/ HourTurns
    \/ PowerCut \/ Setup \/ Disconnect \/ Reconnect
    \/ Loop

Spec == Init /\ [][Next]_vars

\* loop() is called forever, the clock runs, and the broker lets the
\* thermostat in sooner or later (StationLink says how far the WiFi allows
\* that); nothing is assumed of messages or power.
FairSpec ==
    /\ Spec
    /\ WF_vars(Loop) /\ WF_vars(Tick) /\ WF_vars(Setup \/ Reconnect)

-----------------------------------------------------------------------------
(* Properties.                                                             *)

\* The processor waits for nothing but the network: every mode, every sensor
\* reading, NaN included, and every age of the lockout has a branch of loop() to
\* take, and each of the two waits for the network can end.
Connecting == {"setup", "reconnect"}
OnlyConnectingWaits ==
    /\ ~(pc \in Connecting) => ENABLED <<Loop>>_vars
    /\ pc \in Connecting => ENABLED <<Setup \/ Reconnect>>_vars

\* The lockout ends: a request that is refused does not begin it
\* anew, however often loop() repeats it.
LockoutEnds == <>(age > MIN_CHANGE_DURATION)

\* Nothing in the firmware itself keeps the loop from deciding, or the furnace from
\* obeying, for good.
LoopGoesOn == [](OnlyConnectingWaits /\ LockoutEnds)

\* The compressor never runs without the blower: every branch of loop() that
\* leaves ac_state on leaves fan_state on, whatever the mode was before.
ACNeedsFan == ac_state => fan_state

\* A restart at any point outside commit() brings back the away setting in
\* force, whatever byte another firmware left at AWAY_ADDR before this one: the
\* commits that targettemp_cb causes write that byte again and again.
AwaySurvivesRestart == pc \notin {"setup", "erase", "write"} => Loaded(flash) = away

\* The relays of the loop behave as RelayPlant says: no short cycle, no
\* ignition beside the compressor, and the compressor joins a burning furnace
\* only inside the lockout that keeps set_furnace(false) from working.
Plant == INSTANCE RelayPlant WITH
    MinRest <- MIN_CHANGE_DURATION, furnace <- furnace_state,
    ac <- ac_state, fan <- fan_state, rest <- age
SafePlant == Plant!Spec

\* The blower is taken from a burning furnace only because the furnace may not
\* be switched off yet, or one reading of the target later in the same pass.
BlowerLeavesOnlyInLockout ==
    [][furnace_state' /\ fan_state /\ ~fan_state' =>
          age <= MIN_CHANGE_DURATION \/ pc = "recheck"]_vars

PassEnds == pc \in {"control", "recheck"} /\ pc' = "sense"
CoolingDeadBand ==
    IF away THEN ~Above(localtemp, AWAYMAX) /\ ~Below(localtemp, AWAYMAX - HILOGAP)
            ELSE IntAbove(localtemp, get_targettemp - HILOGAP)

\* A pass ends with the blower running for nothing only in the dead band of
\* cooling, where the relays stay as an earlier mode left them.
IdleBlowerOnlyInDeadBand ==
    [][PassEnds /\ fan_state' /\ ~ac_state' /\ ~furnace_state'
           => hvacmode = "cooling" /\ CoolingDeadBand]_vars

\* Furnace and compressor never stay on together: the lockout ends, and some
\* later pass ends the overlap whatever the user does to the mode meanwhile.
OverlapEnds == furnace_state /\ ac_state ~> ~(furnace_state /\ ac_state)

\* With the mode left on "off" every relay opens and stays open, although the
\* lockout may refuse the first requests.
OffMeansOff ==
    <>[](hvacmode = "off" /\ pc # "setup") =>
        <>[](~furnace_state /\ ~ac_state /\ ~fan_state)

\* A room that stays two degrees or more under the target of either slot is
\* heated for good, although the index may turn between two readings.
Cold ==
    /\ localtemp # NaN
    /\ \A i \in {0, 1} : IntOf(localtemp) <= targettemps[i] - HILOGAP \div 2
ColdGetsHeat ==
    <>[](hvacmode = "heating" /\ ~away /\ Cold /\ pc # "setup") =>
        <>[](furnace_state /\ fan_state)

\* What the comments of the heating branch say: the furnace is switched off
\* at home because the room is "too hot", so not while it is below the target.
OffOnlyWhenTooHot ==
    [][PassEnds /\ hvacmode = "heating" /\ ~away /\ furnace_state /\ ~furnace_state'
           => IntOf(localtemp) >= get_targettemp]_vars
=============================================================================
