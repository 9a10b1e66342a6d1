------------------------- MODULE WyostatSystem_proofs -------------------------
(***************************************************************************)
(* WyostatSystem implements both of its parts, for every choice of its     *)
(* constants.                                                              *)
(***************************************************************************)
EXTENDS WyostatSystem, SequenceTheorems, TLAPS

(* The inductive invariant: those of the two modules, and that a processor *)
(* out of setup() has left the connection of a restart behind.             *)
LinkInv == pc # "setup" => link # "boot"
SInv == Hvac!IInv /\ Mqtt!TypeOK /\ LinkInv

(* The constants of the parts are those of the system.                     *)
LEMMA Assumptions ==
    /\ Hvac!DegreesAssumption /\ Hvac!LockoutAssumption /\ Hvac!LeftoverAssumption
    /\ Mqtt!DialAssumption
BY SystemAssumption DEF Hvac!DegreesAssumption, Hvac!LockoutAssumption, Hvac!LeftoverAssumption,
                        Mqtt!DialAssumption

LEMMA ControlInit == Init => Hvac!Init /\ Hvac!IInv
BY Assumptions, Hvac!InitIInv DEF Init

LEMMA ConversationInit == Init => Mqtt!Init /\ Mqtt!TypeOK
<1> SUFFICES ASSUME Init PROVE Mqtt!Init
  BY Assumptions, Mqtt!InitType
<1>1. Hvac!Init
  BY DEF Init
<1>2. AwayInForce \in BOOLEAN
  BY <1>1 DEF AwayInForce, Hvac!Init, Hvac!Loaded
<1> QED BY <1>1, <1>2 DEF Init, Mqtt!Init, Hvac!Init

(* A message on its way to the thermostat carries what its handler expects.*)
LEMMA Arriving ==
    ASSUME Mqtt!TypeOK
    PROVE  /\ Mqtt!Arrives("targettemp") => Mqtt!Value(Head(toStat)) \in LOWEST_TEMP .. HIGHEST_TEMP
           /\ Mqtt!Arrives("away") => Mqtt!Value(Head(toStat)) \in BOOLEAN
           /\ Mqtt!Arrives("hvacmode") => Mqtt!Value(Head(toStat)) \in {"heating", "cooling", "off"}
<1>1. toStat # <<>> => Head(toStat) \in Mqtt!Messages
  BY Assumptions, Mqtt!NextMessage
<1> QED BY <1>1, Assumptions, Mqtt!ValueTypes DEF Mqtt!Arrives, Mqtt!Temps, Mqtt!Modes

-----------------------------------------------------------------------------
(* Every step is one of the control loop, or leaves it alone.              *)

LEMMA ControlReceives ==
    ASSUME Mqtt!TypeOK, Receive
    PROVE  Hvac!Loop
<1>1. CASE TargettempCb
  BY <1>1, Arriving DEF TargettempCb, Hvac!Loop, Hvac!Receive
<1>2. CASE AwayCb
  BY <1>2, Arriving DEF AwayCb, Hvac!Loop, Hvac!Receive
<1>3. CASE HvacmodeCb
  BY <1>3, Arriving DEF HvacmodeCb, Hvac!Loop, Hvac!Receive, Hvac!Modes
<1>4. CASE RequestCb
  BY <1>4 DEF RequestCb, Hvac!Loop
<1> QED BY <1>1, <1>2, <1>3, <1>4 DEF Receive

LEMMA ControlSleeps ==
    ASSUME UNCHANGED thermostat, connected' = connected
    PROVE  UNCHANGED Hvac!vars
BY DEF thermostat, Hvac!vars, Hvac!relays, Hvac!settings, Hvac!eeprom

(* What the dashboard does.                                                *)
DialStep ==
    \/ Mqtt!DragStart \/ Mqtt!PressAway \/ Mqtt!PressMode \/ Mqtt!Deploy
    \/ Mqtt!DialReceives \/ Mqtt!DragMove \/ Mqtt!DragEnd \/ Mqtt!Connect

LEMMA DialLeavesLink == ASSUME DialStep PROVE link' = link
BY DEF DialStep, Mqtt!DragStart, Mqtt!PressAway, Mqtt!PressMode, Mqtt!Deploy,
       Mqtt!DialReceives, Mqtt!DragMove, Mqtt!DragEnd, Mqtt!Connect

LEMMA StepsOfSystem ==
    ASSUME Next
    PROVE  \/ Tick \/ HourTurns \/ PowerCut \/ Boot \/ LinkDies \/ Notice \/ Reconnect
           \/ Sense \/ Drift \/ PollNothing \/ Receive \/ Commit \/ Decide
           \/ UNCHANGED thermostat /\ DialStep
BY DEF Next, Disturbance, Response, Connect, Loop, DialDoes, DialStep

LEMMA ControlStep ==
    ASSUME Mqtt!TypeOK, [Next]_vars
    PROVE  [Hvac!Next]_Hvac!vars
<1>1. CASE UNCHANGED vars
  BY <1>1, ControlSleeps DEF vars, conversation, connected
<1>2. CASE Tick \/ HourTurns \/ PowerCut \/ Boot \/ Notice \/ Reconnect
  BY <1>2 DEF Tick, HourTurns, PowerCut, Boot, Notice, Reconnect, Hvac!Next
<1>3. CASE LinkDies
  BY <1>3, ControlSleeps DEF LinkDies, Mqtt!LinkDies, connected
<1>4. CASE Sense \/ Drift \/ PollNothing \/ Commit \/ Decide
  BY <1>4 DEF Sense, Drift, PollNothing, Commit, Decide, Hvac!Next, Hvac!Loop
<1>5. CASE Receive
  BY <1>5, ControlReceives DEF Hvac!Next
<1>6. CASE UNCHANGED thermostat /\ DialStep
  BY <1>6, ControlSleeps, DialLeavesLink DEF connected
<1> QED BY <1>1, <1>2, <1>3, <1>4, <1>5, <1>6, StepsOfSystem

-----------------------------------------------------------------------------
(* Every step is one of the conversation, or leaves it alone.              *)

(* The away setting in force is that of the loop, or the one in the flash. *)
LEMMA AwayKept ==
    ASSUME away' = away, flash' = flash \/ pc # "setup", (pc' = "setup") = (pc = "setup")
    PROVE  AwayInForce' = AwayInForce
BY DEF AwayInForce

LEMMA ConversationSleeps ==
    ASSUME AwayInForce' = AwayInForce, UNCHANGED conversation,
           UNCHANGED <<targettemps, index, hvacmode, furnace_state, ac_state>>
    PROVE  UNCHANGED Mqtt!vars
BY DEF conversation, Mqtt!vars, Mqtt!stat, Mqtt!queues

LEMMA LoopSleeps ==
    ASSUME Tick \/ Sense \/ Drift \/ PollNothing \/ Commit
    PROVE  UNCHANGED Mqtt!vars
<1>1. /\ away' = away /\ (flash' = flash \/ pc # "setup") /\ (pc' = "setup") = (pc = "setup")
      /\ UNCHANGED conversation /\ UNCHANGED <<targettemps, index, hvacmode, furnace_state, ac_state>>
  BY DEF Tick, Sense, Drift, PollNothing, Commit, Hvac!Tick, Hvac!Sense, Hvac!PollNothing,
         Hvac!EraseSector, Hvac!WriteSector, Hvac!relays, Hvac!settings, Hvac!eeprom
<1> QED BY <1>1, AwayKept, ConversationSleeps

LEMMA DialSpeaks ==
    ASSUME UNCHANGED thermostat, DialStep \/ Mqtt!LinkDies
    PROVE  Mqtt!Next
BY DEF DialStep, Mqtt!Next, Mqtt!Disturbance, Mqtt!Response

LEMMA PowerAndLink ==
    ASSUME SInv, HourTurns \/ PowerCut \/ Boot \/ Notice \/ Reconnect
    PROVE  Mqtt!Next
<1>1. CASE HourTurns
  <2>1. AwayInForce' = AwayInForce
    BY <1>1, AwayKept DEF HourTurns, Hvac!HourTurns, Hvac!settings, Hvac!eeprom
  <2>2. Mqtt!HourTurns
    BY <1>1, <2>1 DEF HourTurns, Hvac!HourTurns, Hvac!relays, Hvac!settings, conversation,
                      Mqtt!HourTurns, Mqtt!queues
  <2> QED BY <2>2 DEF Mqtt!Next, Mqtt!Disturbance
<1>2. CASE PowerCut
  <2>1. AwayInForce' \in BOOLEAN
    BY <1>2 DEF PowerCut, Hvac!PowerCut, AwayInForce, Hvac!Loaded
  <2>2. Mqtt!PowerCut
    BY <1>2, <2>1 DEF PowerCut, Hvac!PowerCut, Mqtt!PowerCut
  <2> QED BY <2>2 DEF Mqtt!Next, Mqtt!Disturbance
<1>3. CASE Boot
  BY <1>3 DEF Boot, Mqtt!Next, Mqtt!Response
<1>4. CASE Notice
  BY <1>4 DEF Notice, Mqtt!Next, Mqtt!Response
<1>5. CASE Reconnect
  BY <1>5 DEF Reconnect, Mqtt!Next, Mqtt!Response
<1> QED BY <1>1, <1>2, <1>3, <1>4, <1>5

LEMMA ReceiveSpeaks == ASSUME SInv, Receive PROVE Mqtt!Next
<1>1. CASE TargettempCb
  <2>1. /\ away' = away /\ flash' = flash /\ (pc' = "setup") = (pc = "setup")
        /\ UNCHANGED <<index, hvacmode, furnace_state, ac_state>>
    BY <1>1 DEF TargettempCb, Hvac!TargettempCb, Hvac!relays, Hvac!eeprom
  <2>2. AwayInForce' = AwayInForce
    BY <2>1, AwayKept
  <2>3. targettemps' = IF Mqtt!Value(Head(toStat)) \in Mqtt!Temps
                       THEN [targettemps EXCEPT ![index] = Mqtt!Value(Head(toStat))]
                       ELSE targettemps
    <3>1. targettemps = [targettemps EXCEPT ![index] = Hvac!get_targettemp]
      BY DEF SInv, Hvac!IInv, Hvac!TypeOK, Hvac!get_targettemp
    <3> QED BY <1>1, <3>1 DEF TargettempCb, Hvac!TargettempCb, Hvac!Accepted, Mqtt!Temps
  <2>4. Mqtt!TargettempCb
    BY <1>1, <2>1, <2>2, <2>3 DEF TargettempCb, Mqtt!TargettempCb
  <2> QED BY <2>4 DEF Mqtt!Next, Mqtt!Response, Mqtt!Handle
<1>2. CASE AwayCb
  <2>1. /\ away' = Mqtt!Value(Head(toStat)) /\ pc' # "setup" /\ pc # "setup"
        /\ UNCHANGED <<targettemps, index, hvacmode, furnace_state, ac_state>>
    BY <1>2 DEF AwayCb, Hvac!AwayCb, Hvac!relays
  <2>2. Mqtt!AwayCb
    BY <1>2, <2>1 DEF AwayCb, Mqtt!AwayCb, AwayInForce
  <2> QED BY <2>2 DEF Mqtt!Next, Mqtt!Response, Mqtt!Handle
<1>3. CASE HvacmodeCb
  <2>1. /\ hvacmode' = Mqtt!Value(Head(toStat)) /\ away' = away /\ pc' # "setup" /\ pc # "setup"
        /\ UNCHANGED <<targettemps, index, furnace_state, ac_state>>
    BY <1>3 DEF HvacmodeCb, Hvac!HvacmodeCb, Hvac!relays
  <2>2. Mqtt!HvacmodeCb
    BY <1>3, <2>1 DEF HvacmodeCb, Mqtt!HvacmodeCb, AwayInForce
  <2> QED BY <2>2 DEF Mqtt!Next, Mqtt!Response, Mqtt!Handle
<1>4. CASE RequestCb
  BY <1>4 DEF RequestCb, Mqtt!Next, Mqtt!Response, Mqtt!Handle
<1> QED BY <1>1, <1>2, <1>3, <1>4 DEF Receive

(* A decision leaves the relays alone or is a move the conversation allows.*)
LEMMA DecideSpeaks == ASSUME SInv, Decide PROVE [Mqtt!Next]_Mqtt!vars
<1>0. Hvac!IInv /\ Mqtt!TypeOK /\ LinkInv
  BY DEF SInv
<1>1. /\ pc \in {"control", "recheck"} /\ pc' \in {"sense", "recheck"}
      /\ UNCHANGED <<away, hvacmode, targettemps, index>>
      /\ ac_state' => hvacmode = "cooling"
      /\ furnace_state' /\ ~furnace_state => hvacmode = "heating" /\ ~ac_state'
  BY <1>0, Assumptions, Hvac!DecideSeenOutside DEF Decide, Hvac!settings
<1>2. AwayInForce' = AwayInForce
  BY <1>1 DEF AwayInForce
<1>3. CASE UNCHANGED <<furnace_state, ac_state>>
  BY <1>1, <1>2, <1>3, ConversationSleeps DEF Decide, conversation
<1>4. CASE ~UNCHANGED <<furnace_state, ac_state>>
  <2>1. furnace_state' \in BOOLEAN /\ ac_state' \in BOOLEAN
    <3>1. [Hvac!Next]_Hvac!vars
      BY DEF Decide, Hvac!Next, Hvac!Loop
    <3>2. Hvac!IInv'
      BY <1>0, <3>1, Assumptions, Hvac!IInvStep
    <3> QED BY <3>2 DEF Hvac!IInv, Hvac!TypeOK
  <2>2. link # "boot" /\ (furnace_state' # furnace_state \/ ac_state' # ac_state)
    BY <1>0, <1>1, <1>4 DEF LinkInv
  <2>3. Mqtt!MoveRelays(furnace_state', ac_state')
    BY <1>1, <1>2, <1>4, <2>2 DEF Decide, Mqtt!MoveRelays
  <2> QED BY <2>1, <2>3 DEF Mqtt!Next, Mqtt!Disturbance
<1> QED BY <1>3, <1>4

LEMMA ConversationStep ==
    ASSUME SInv, [Next]_vars
    PROVE  [Mqtt!Next]_Mqtt!vars
<1>1. CASE UNCHANGED vars
  BY <1>1, AwayKept, ConversationSleeps DEF vars, thermostat
<1>2. CASE Tick \/ Sense \/ Drift \/ PollNothing \/ Commit
  BY <1>2, LoopSleeps
<1>3. CASE HourTurns \/ PowerCut \/ Boot \/ Notice \/ Reconnect
  BY <1>3, PowerAndLink
<1>4. CASE LinkDies
  BY <1>4, DialSpeaks DEF LinkDies
<1>5. CASE UNCHANGED thermostat /\ DialStep
  BY <1>5, DialSpeaks
<1>6. CASE Receive
  BY <1>6, ReceiveSpeaks
<1>7. CASE Decide
  BY <1>7, DecideSpeaks
<1> QED BY <1>1, <1>2, <1>3, <1>4, <1>5, <1>6, <1>7, StepsOfSystem

-----------------------------------------------------------------------------
(* Only a power cut leads to setup(), only mqtt_connect() out of it.       *)
LEMMA LinkStep == ASSUME SInv, [Next]_vars PROVE LinkInv'
<1>0. LinkInv
  BY DEF SInv
<1>1. CASE UNCHANGED vars
  BY <1>0, <1>1 DEF vars, thermostat, conversation, LinkInv
<1>2. CASE PowerCut \/ Boot \/ Notice \/ Reconnect
  BY <1>2 DEF PowerCut, Boot, Notice, Reconnect, Hvac!PowerCut, LinkInv
<1>3. CASE LinkDies
  BY <1>3 DEF LinkDies, Mqtt!LinkDies, LinkInv
<1>4. CASE Tick \/ HourTurns \/ Sense \/ Drift \/ PollNothing \/ Commit
  BY <1>0, <1>4 DEF Tick, HourTurns, Sense, Drift, PollNothing, Commit, Hvac!Tick, Hvac!HourTurns,
         Hvac!Sense, Hvac!PollNothing, Hvac!EraseSector, Hvac!WriteSector, conversation, LinkInv
<1>5. CASE Receive
  <2>1. Mqtt!Arrives("targettemp") \/ Mqtt!Arrives("away") \/ Mqtt!Arrives("hvacmode")
           => link = "up"
    BY DEF Mqtt!Arrives
  <2>2. link = "up" /\ link' = link
    BY <1>5, <2>1 DEF Receive, TargettempCb, AwayCb, HvacmodeCb, RequestCb,
                      Mqtt!RequestCb, Mqtt!RequestmodeCb, Mqtt!Arrives
  <2> QED BY <2>2 DEF LinkInv
<1>6. CASE Decide
  <2>1. pc # "setup"
    BY <1>6, Assumptions, Hvac!DecideSeenOutside DEF Decide, SInv
  <2> QED BY <1>0, <1>6, <2>1 DEF Decide, LinkInv
<1>7. CASE UNCHANGED thermostat /\ DialStep
  BY <1>0, <1>7, DialLeavesLink DEF thermostat, LinkInv
<1> QED BY <1>1, <1>2, <1>3, <1>4, <1>5, <1>6, <1>7, StepsOfSystem

LEMMA SInvInit == Init => SInv
BY ControlInit, ConversationInit DEF SInv, LinkInv, Init, Hvac!Init

LEMMA SInvStep == ASSUME SInv, [Next]_vars PROVE SInv'
<1>0. Hvac!IInv /\ Mqtt!TypeOK
  BY DEF SInv
<1>1. Hvac!IInv'
  BY <1>0, ControlStep, Assumptions, Hvac!IInvStep
<1>2. Mqtt!TypeOK'
  BY <1>0, ConversationStep, Assumptions, Mqtt!TypeStep
<1> QED BY <1>1, <1>2, LinkStep DEF SInv

LEMMA SInvAlways == Spec => []SInv
BY SInvInit, SInvStep, PTL DEF Spec

(* The control loop in the system is HvacControl: no message the broker    *)
(* delivers is one HvacControl does not expect.                            *)
THEOREM ImplementsControl == Spec => ControlHolds
<1>1. Init => Hvac!Init
  BY ControlInit
<1>2. SInv /\ [Next]_vars => [Hvac!Next]_Hvac!vars
  BY ControlStep DEF SInv
<1> QED BY <1>1, <1>2, SInvAlways, PTL DEF Spec, ControlHolds, Hvac!Spec

(* The conversation in the system is WyostatMqtt: the decisions of the     *)
(* loop move the relays as MoveRelays says, and the EEPROM brings back     *)
(* what PowerCut leaves open.                                              *)
THEOREM ImplementsConversation == Spec => ConversationHolds
<1>1. Init => Mqtt!Init
  BY ConversationInit
<1>2. SInv /\ [Next]_vars => [Mqtt!Next]_Mqtt!vars
  BY ConversationStep
<1> QED BY <1>1, <1>2, SInvAlways, PTL DEF Spec, ConversationHolds, Mqtt!Spec

-----------------------------------------------------------------------------
(* So what is proved of either part holds of the whole.                    *)

(* The relays of a thermostat with a dashboard are safe, and its away      *)
(* setting survives a restart: no stream of messages, echoes of its own    *)
(* reports among them, makes the loop break a rule of RelayPlant.          *)
THEOREM SystemIsSafe == Spec => Hvac!SafePlant /\ []Hvac!AwaySurvivesRestart
BY ImplementsControl, Assumptions, Hvac!ImplementsPlant, Hvac!RestartKeepsAway, PTL DEF ControlHolds

(* Reports bring the real thermostat and the dial in step, and they stay   *)
(* so, when the relays move for the reasons of the loop and the away       *)
(* setting comes back from the EEPROM.                                     *)
THEOREM SystemStaysInStep == Spec => Mqtt!KeepsInStep
BY ImplementsConversation, Assumptions, Mqtt!DialKeepsInStep, PTL DEF ConversationHolds
===============================================================================
