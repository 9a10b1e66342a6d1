-------------------------- MODULE WyostatMqtt_proofs --------------------------
(***************************************************************************)
(* Theorems about WyostatMqtt for every choice of its constants.           *)
(***************************************************************************)
EXTENDS WyostatMqtt, SequenceTheorems, TLAPS

(* Publications, and what becomes of them in the queues.                   *)
Publications == [stat : Seq(StatMessages), dial : Seq(DialMessages)]

LEMMA MessageTypes ==
    /\ \A t \in Temps : Message("targettemp", t) \in Messages
    /\ \A b \in BOOLEAN : Message("away", b) \in Messages
    /\ \A m \in Modes : Message("hvacmode", m) \in Messages
    /\ \A h \in HvacStates : Message("hvac_state", h) \in Messages
    /\ \A r \in {"requesttemp", "requesttargettemp", "requeststate"} : Message(r, "") \in Messages
BY DEF Message, Messages

LEMMA ValueTypes ==
    ASSUME NEW m \in Messages
    PROVE  /\ Topic(m) = "targettemp" => Value(m) \in Temps
           /\ Topic(m) = "away" => Value(m) \in BOOLEAN
           /\ Topic(m) = "hvacmode" => Value(m) \in Modes
           /\ Topic(m) = "hvac_state" => Value(m) \in HvacStates
BY DEF Messages, Topic, Value

LEMMA SentType == ASSUME NEW m \in Messages PROVE Sent(m) \in Publications
<1>0. ASSUME NEW S, NEW e \in S PROVE <<e>> \in Seq(S)
  OBVIOUS
<1>1. For(StatTopics, m) \in Seq(StatMessages)
  <2>1. CASE Topic(m) \in StatTopics
    <3>1. m \in StatMessages
      BY <2>1 DEF StatMessages
    <3> QED BY <1>0, <2>1, <3>1 DEF For
  <2>2. CASE Topic(m) \notin StatTopics
    BY <2>2, EmptySeq DEF For
  <2> QED BY <2>1, <2>2
<1>2. For(DialTopics, m) \in Seq(DialMessages)
  <2>1. CASE Topic(m) \in DialTopics
    <3>1. m \in DialMessages
      BY <2>1 DEF DialMessages
    <3> QED BY <1>0, <2>1, <3>1 DEF For
  <2>2. CASE Topic(m) \notin DialTopics
    BY <2>2, EmptySeq DEF For
  <2> QED BY <2>1, <2>2
<1> QED BY <1>1, <1>2 DEF Sent, Publications

LEMMA ThenType ==
    ASSUME NEW p \in Publications, NEW q \in Publications
    PROVE  Then(p, q) \in Publications
BY ConcatProperties DEF Then, Publications

LEMMA StatPublishesType ==
    ASSUME TypeOK, NEW p \in Publications, NEW rest \in Seq(StatMessages), StatPublishes(p, rest)
    PROVE  toStat' \in Seq(StatMessages) /\ toDial' \in Seq(DialMessages)
<1>1. /\ toDial \in Seq(DialMessages) /\ p.stat \in Seq(StatMessages) /\ p.dial \in Seq(DialMessages)
  BY DEF TypeOK, Publications
<1>2. rest \o p.stat \in Seq(StatMessages) /\ toDial \o p.dial \in Seq(DialMessages)
  BY <1>1, ConcatProperties
<1> QED BY <1>1, <1>2 DEF StatPublishes

LEMMA DialPublishesType ==
    ASSUME TypeOK, NEW p \in Publications, DialPublishes(p)
    PROVE  toStat' \in Seq(StatMessages) /\ toDial' \in Seq(DialMessages)
<1>1. /\ toStat \in Seq(StatMessages) /\ toDial \in Seq(DialMessages)
      /\ p.stat \in Seq(StatMessages) /\ p.dial \in Seq(DialMessages)
  BY DEF TypeOK, Publications
<1>2. toStat \o p.stat \in Seq(StatMessages) /\ toDial \o p.dial \in Seq(DialMessages)
  BY <1>1, ConcatProperties
<1> QED BY <1>1, <1>2 DEF DialPublishes

LEMMA NextMessage ==
    ASSUME TypeOK
    PROVE  /\ toStat # <<>> => Tail(toStat) \in Seq(StatMessages) /\ Head(toStat) \in Messages
           /\ toDial # <<>> => /\ Tail(toDial) \in Seq(DialMessages) /\ Head(toDial) \in Messages
                               /\ Topic(Head(toDial)) \in DialTopics
<1>1. toStat # <<>> => Tail(toStat) \in Seq(StatMessages) /\ Head(toStat) \in StatMessages
  BY HeadTailProperties DEF TypeOK
<1>2. toDial # <<>> => Tail(toDial) \in Seq(DialMessages) /\ Head(toDial) \in DialMessages
  BY HeadTailProperties DEF TypeOK
<1> QED BY <1>1, <1>2 DEF StatMessages, DialMessages

(* A report, before or after the relays have moved.                        *)
LEMMA TargetType == ASSUME TypeOK PROVE get_targettemp \in Temps
BY DEF TypeOK, get_targettemp

LEMMA ReportType ==
    ASSUME TypeOK, NEW furnace \in BOOLEAN, NEW ac \in BOOLEAN
    PROVE  StateReport(furnace, ac) \in Publications
<1>1. HvacState(furnace, ac) \in HvacStates
  BY DEF HvacState, HvacStates
<1>2. /\ Message("hvac_state", HvacState(furnace, ac)) \in Messages
      /\ Message("away", away) \in Messages
      /\ Message("targettemp", get_targettemp) \in Messages
  BY <1>1, MessageTypes, TargetType DEF TypeOK
<1> QED BY <1>2, SentType, ThenType DEF StateReport

LEMMA MoveReportsType ==
    ASSUME TypeOK, NEW furnace \in BOOLEAN, NEW ac \in BOOLEAN
    PROVE  MoveReports(furnace, ac) \in Publications
<1>1. /\ StateReport(furnace, ac) \in Publications
      /\ StateReport(furnace, ac_state) \in Publications
      /\ StateReport(furnace_state, ac) \in Publications
  BY ReportType DEF TypeOK
<1> QED BY <1>1, ThenType DEF MoveReports

-----------------------------------------------------------------------------

LEMMA InitType == Init => TypeOK
<1> SUFFICES ASSUME Init PROVE TypeOK
  OBVIOUS
<1>0. NightTemp \in Temps /\ DayTemp \in Temps /\ LOWEST_TEMP \in Temps
  BY DialAssumption DEF Temps
<1>1. targettemps \in [{0, 1} -> Temps]
  BY <1>0 DEF Init
<1>2. toStat \in Seq(StatMessages) /\ toDial \in Seq(DialMessages)
  BY EmptySeq DEF Init
<1> QED BY <1>0, <1>1, <1>2 DEF Init, TypeOK, Modes, Links, NewDial, HvacStates, NoDrag

(* The thermostat's handlers.                                              *)
LEMMA HandleType == ASSUME TypeOK, Handle PROVE TypeOK'
<1>0. /\ toStat # <<>> /\ Tail(toStat) \in Seq(StatMessages) /\ Head(toStat) \in Messages
  BY NextMessage DEF Handle, TargettempCb, AwayCb, HvacmodeCb, RequestCb, RequestmodeCb, Arrives
<1>1. CASE TargettempCb
  <2>1. targettemps' \in [{0, 1} -> Temps]
    BY <1>1 DEF TargettempCb, TypeOK
  <2> QED BY <1>0, <1>1, <2>1 DEF TargettempCb, TypeOK
<1>2. CASE AwayCb
  <2>1. away' \in BOOLEAN
    BY <1>0, <1>2, ValueTypes DEF AwayCb, Arrives
  <2> QED BY <1>0, <1>2, <2>1 DEF AwayCb, TypeOK
<1>3. CASE HvacmodeCb
  <2>1. hvacmode' \in Modes
    BY <1>0, <1>3, ValueTypes DEF HvacmodeCb, Arrives
  <2> QED BY <1>0, <1>3, <2>1 DEF HvacmodeCb, TypeOK
<1>4. StateReport(furnace_state, ac_state) \in Publications
  BY ReportType DEF TypeOK
<1>5. CASE RequestCb
  <2>1. toStat' \in Seq(StatMessages) /\ toDial' \in Seq(DialMessages)
    BY <1>0, <1>4, <1>5, StatPublishesType DEF RequestCb
  <2> QED BY <1>5, <2>1 DEF RequestCb, TypeOK, stat
<1>6. CASE RequestmodeCb
  <2>1. Sent(Message("hvacmode", hvacmode)) \in Publications
    BY MessageTypes, SentType DEF TypeOK
  <2>2. Then(Sent(Message("hvacmode", hvacmode)), StateReport(furnace_state, ac_state)) \in Publications
    BY <1>4, <2>1, ThenType
  <2>3. toStat' \in Seq(StatMessages) /\ toDial' \in Seq(DialMessages)
    BY <1>0, <1>6, <2>2, StatPublishesType DEF RequestmodeCb
  <2> QED BY <1>6, <2>3 DEF RequestmodeCb, TypeOK, stat
<1> QED BY <1>1, <1>2, <1>3, <1>5, <1>6 DEF Handle

(* Relays, clock, connection and power.                                    *)
LEMMA MoveType ==
    ASSUME TypeOK, NEW furnace \in BOOLEAN, NEW ac \in BOOLEAN, MoveRelays(furnace, ac)
    PROVE  TypeOK'
<1>1. toStat' \in Seq(StatMessages) /\ toDial' \in Seq(DialMessages)
  BY MoveReportsType, StatPublishesType DEF MoveRelays, TypeOK
<1>2. monitor' \in {"", "on", "off", "0"}
  BY DEF MoveRelays, TypeOK, Announced, OnOff
<1> QED BY <1>1, <1>2 DEF MoveRelays, TypeOK

LEMMA LinkType ==
    ASSUME TypeOK, HourTurns \/ LinkDies \/ Notice \/ Reconnect \/ PowerCut \/ Boot
    PROVE  TypeOK'
<1> USE DEF TypeOK, Links
<1>1. CASE HourTurns
  <2>0. index = 0 \/ index = 1
    OBVIOUS
  <2>1. index' \in {0, 1}
    BY ONLY <1>1, <2>0 DEF HourTurns
  <2> QED BY <1>1, <2>1 DEF HourTurns, queues
<1>2. CASE LinkDies
  BY <1>2, EmptySeq DEF LinkDies, stat
<1>3. CASE Notice \/ Reconnect
  BY <1>3 DEF Notice, Reconnect, stat, queues
<1>4. CASE PowerCut
  <2>1. targettemps' \in [{0, 1} -> Temps]
    BY <1>4, DialAssumption DEF PowerCut, Temps
  <2> QED BY <1>4, <2>1, EmptySeq DEF PowerCut, Modes
<1>5. CASE Boot
  <2>1. Sent(Message("targettemp", get_targettemp)) \in Publications
    BY MessageTypes, SentType, TargetType
  <2>2. toStat' \in Seq(StatMessages) /\ toDial' \in Seq(DialMessages)
    BY <1>5, <2>1, StatPublishesType DEF Boot
  <2> QED BY <1>5, <2>2 DEF Boot, stat
<1> QED BY <1>1, <1>2, <1>3, <1>4, <1>5

(* The dashboard.                                                          *)
LEMMA TempsOfDial == Temps \subseteq Int /\ LOWEST_TEMP \in Temps
BY DialAssumption DEF Temps

LEMMA RestrictType == ASSUME NEW t \in Int PROVE restrictTargetTemperature(t) \in Temps
BY DialAssumption DEF restrictTargetTemperature, Temps

LEMMA DialType ==
    ASSUME TypeOK, DialReceives \/ DragStart \/ DragMove \/ DragEnd \/ PressAway
    PROVE  TypeOK'
<1> USE DEF TypeOK, stat, queues
<1>1. CASE DialReceives
  <2>1. Tail(toDial) \in Seq(DialMessages) /\ Head(toDial) \in Messages /\ Topic(Head(toDial)) \in DialTopics
    BY <1>1, NextMessage DEF DialReceives
  <2>2. CASE Topic(Head(toDial)) = "targettemp"
    <3>1. restrictTargetTemperature(Value(Head(toDial))) \in Temps
      <4>1. Value(Head(toDial)) \in Temps
        BY ONLY <2>1, <2>2, ValueTypes
      <4>2. Temps \subseteq Int
        BY TempsOfDial
      <4> QED BY ONLY <4>1, <4>2, RestrictType
    <3>2. dial' \in [target : Temps, away : BOOLEAN, hvac : HvacStates]
      BY <1>1, <2>2, <3>1 DEF DialReceives
    <3> QED BY <1>1, <2>1, <3>2 DEF DialReceives
  <2>3. CASE Topic(Head(toDial)) # "targettemp"
    <3>1. Value(Head(toDial)) \in HvacStates
      BY <2>1, <2>3, ValueTypes DEF DialTopics
    <3> QED BY <1>1, <2>1, <2>3, <3>1 DEF DialReceives
  <2> QED BY <2>2, <2>3
<1>2. CASE DragStart
  BY <1>2 DEF DragStart
<1>3. CASE DragMove
  <2>1. PICK t \in Drags : dial' = [dial EXCEPT !.target = restrictTargetTemperature(t)]
    BY <1>3 DEF DragMove
  <2>2. restrictTargetTemperature(t) \in Temps
    BY RestrictType, DialAssumption
  <2> QED BY <1>3, <2>1, <2>2 DEF DragMove
<1>4. CASE DragEnd
  <2>1. Sent(Message("targettemp", dial.target)) \in Publications
    BY MessageTypes, SentType
  <2>2. toStat' \in Seq(StatMessages) /\ toDial' \in Seq(DialMessages)
    BY <1>4, <2>1, DialPublishesType DEF DragEnd
  <2> QED BY <1>4, <2>2 DEF DragEnd
<1>5. CASE PressAway
  <2>1. PICK value \in BOOLEAN : /\ dial' = [dial EXCEPT !.away = value]
                                 /\ DialPublishes(Sent(Message("away", value)))
    BY <1>5 DEF PressAway
  <2>2. Sent(Message("away", value)) \in Publications
    BY MessageTypes, SentType
  <2>3. toStat' \in Seq(StatMessages) /\ toDial' \in Seq(DialMessages)
    BY <2>1, <2>2, DialPublishesType
  <2> QED BY <1>5, <2>1, <2>3 DEF PressAway
<1> QED BY <1>1, <1>2, <1>3, <1>4, <1>5

LEMMA FlowType == ASSUME TypeOK, PressMode \/ Deploy \/ Connect PROVE TypeOK'
<1> USE DEF TypeOK, stat
<1>1. CASE PressMode
  <2>1. PICK mode \in PressedModes : DialPublishes(Sent(Message("hvacmode", mode)))
    BY <1>1 DEF PressMode
  <2>2. Sent(Message("hvacmode", mode)) \in Publications
    BY DialAssumption, MessageTypes, SentType DEF Modes
  <2>3. toStat' \in Seq(StatMessages) /\ toDial' \in Seq(DialMessages)
    BY <2>1, <2>2, DialPublishesType
  <2> QED BY <1>1, <2>3 DEF PressMode
<1>2. CASE Deploy
  <2>1. ASSUME NEW mode \in Injected PROVE Message("hvacmode", mode) \in StatMessages
    <3>1. Message("hvacmode", mode) \in Messages
      BY DialAssumption, MessageTypes DEF Modes
    <3>2. Topic(Message("hvacmode", mode)) = "hvacmode"
      BY DEF Message, Topic
    <3> QED BY <3>1, <3>2 DEF StatMessages, StatTopics
  <2>2. ASSUME NEW injects \in Starts PROVE injects \in Seq(StatMessages)
    <3>1. CASE injects = <<>>
      BY <3>1, EmptySeq
    <3>2. CASE \E mode \in Injected : injects = <<Message("hvacmode", mode)>>
      <4>1. PICK mode \in Injected : injects = <<Message("hvacmode", mode)>>
        BY <3>2
      <4>2. Message("hvacmode", mode) \in StatMessages
        BY <2>1
      <4> QED BY ONLY <4>1, <4>2
    <3>3. CASE \E m, n \in Injected : injects = <<Message("hvacmode", m), Message("hvacmode", n)>>
      <4>1. PICK m \in Injected, n \in Injected :
                  injects = <<Message("hvacmode", m), Message("hvacmode", n)>>
        BY <3>3
      <4>2. Message("hvacmode", m) \in StatMessages /\ Message("hvacmode", n) \in StatMessages
        BY <2>1
      <4> QED BY ONLY <4>1, <4>2
    <3> QED BY <3>1, <3>2, <3>3 DEF Starts
  <2>3. toStat' \in Seq(StatMessages)
    <3>1. PICK injects \in Starts : toStat' = IF link = "up" THEN toStat \o injects ELSE toStat
      BY <1>2 DEF Deploy
    <3>2. toStat \o injects \in Seq(StatMessages)
      BY <2>2, ConcatProperties
    <3> QED BY <3>1, <3>2
  <2>4. dial' \in [target : Temps, away : BOOLEAN, hvac : HvacStates]
    <3>1. LOWEST_TEMP \in Temps /\ "off" \in HvacStates
      BY TempsOfDial DEF HvacStates
    <3>2. dial' = [target |-> LOWEST_TEMP, away |-> FALSE, hvac |-> "off"]
      BY <1>2 DEF Deploy, NewDial
    <3> QED BY ONLY <3>1, <3>2
  <2> QED BY <1>2, <2>3, <2>4, EmptySeq DEF Deploy
<1>3. CASE Connect
  <2>1. /\ Sent(Message("requesttemp", "")) \in Publications
        /\ Sent(Message("requeststate", "")) \in Publications
        /\ Sent(Message("requesttargettemp", "")) \in Publications
    BY MessageTypes, SentType
  <2>2. toStat' \in Seq(StatMessages) /\ toDial' \in Seq(DialMessages)
    BY <1>3, <2>1, ThenType, DialPublishesType DEF Connect
  <2> QED BY <1>3, <2>2 DEF Connect
<1> QED BY <1>1, <1>2, <1>3

LEMMA TypeStep == ASSUME TypeOK, [Next]_vars PROVE TypeOK'
<1>1. CASE UNCHANGED vars
  BY <1>1 DEF TypeOK, vars, stat, queues
<1>2. CASE Disturbance
  BY <1>2, MoveType, LinkType, DialType, FlowType DEF Disturbance
<1>3. CASE Response
  BY <1>3, HandleType, LinkType, DialType DEF Response
<1>4. CASE Connect
  BY <1>4, FlowType
<1> QED BY <1>1, <1>2, <1>3, <1>4 DEF Next

(* Every variable keeps its type: no payload a handler does not expect     *)
(* reaches the thermostat or the dial, its own echoes included.            *)
THEOREM TypeCorrect == Spec => []TypeOK
BY InitType, TypeStep, PTL DEF Spec

-----------------------------------------------------------------------------
(* What a queue comes to.                                                  *)

LEMMA ConcatBrings ==
    ASSUME NEW S, NEW q \in Seq(S), NEW r \in Seq(S), NEW v, NEW topic, EndsWith(v, topic, r)
    PROVE  EndsWith(v, topic, q \o r)
<1> DEFINE both == q \o r
<1>1. /\ Len(q) \in Nat /\ Len(r) \in Nat
      /\ DOMAIN both = 1 .. Len(q) + Len(r) /\ DOMAIN r = 1 .. Len(r)
      /\ \A i \in 1 .. Len(q) + Len(r) : i > Len(q) => both[i] = r[i - Len(q)]
  BY ConcatProperties, LenProperties
<1> HIDE DEF both
<1>2. PICK i \in DOMAIN r : /\ r[i] = Message(topic, v)
                            /\ \A j \in DOMAIN r : j > i => Topic(r[j]) # topic
  BY DEF EndsWith
<1>3. /\ i + Len(q) \in DOMAIN both /\ i + Len(q) > Len(q) /\ (i + Len(q)) - Len(q) = i
  BY <1>1, <1>2
<1>4. both[i + Len(q)] = Message(topic, v)
  BY <1>1, <1>2, <1>3
<1>5. ASSUME NEW j \in DOMAIN both, j > i + Len(q) PROVE Topic(both[j]) # topic
  <2>1. j - Len(q) \in DOMAIN r /\ j - Len(q) > i /\ both[j] = r[j - Len(q)]
    BY <1>1, <1>2, <1>5
  <2> QED BY <1>2, <2>1
<1> QED BY <1>3, <1>4, <1>5 DEF EndsWith, both

LEMMA ConcatKeeps ==
    ASSUME NEW S, NEW q \in Seq(S), NEW r \in Seq(S), NEW topic, Silent(topic, r)
    PROVE  /\ \A v : EndsWith(v, topic, q) => EndsWith(v, topic, q \o r)
           /\ Silent(topic, q) => Silent(topic, q \o r)
<1> DEFINE both == q \o r
<1>1. /\ Len(q) \in Nat /\ Len(r) \in Nat
      /\ DOMAIN both = 1 .. Len(q) + Len(r) /\ DOMAIN r = 1 .. Len(r) /\ DOMAIN q = 1 .. Len(q)
      /\ \A i \in 1 .. Len(q) + Len(r) :
            both[i] = IF i <= Len(q) THEN q[i] ELSE r[i - Len(q)]
  BY ConcatProperties, LenProperties
<1> HIDE DEF both
<1>2. ASSUME NEW j \in DOMAIN both, j > Len(q) PROVE Topic(both[j]) # topic
  <2>1. j - Len(q) \in DOMAIN r /\ both[j] = r[j - Len(q)]
    BY <1>1, <1>2
  <2> QED BY <2>1 DEF Silent
<1>3. ASSUME NEW v, EndsWith(v, topic, q) PROVE EndsWith(v, topic, both)
  <2>1. PICK i \in DOMAIN q : /\ q[i] = Message(topic, v)
                              /\ \A j \in DOMAIN q : j > i => Topic(q[j]) # topic
    BY <1>3 DEF EndsWith
  <2>2. i \in DOMAIN both /\ both[i] = Message(topic, v)
    BY <1>1, <2>1
  <2>3. ASSUME NEW j \in DOMAIN both, j > i PROVE Topic(both[j]) # topic
    <3>1. CASE j <= Len(q)
      BY <1>1, <2>1, <2>3, <3>1
    <3>2. CASE j > Len(q)
      BY <1>2, <3>2
    <3> QED BY <1>1, <3>1, <3>2
  <2> QED BY <2>2, <2>3 DEF EndsWith
<1>4. Silent(topic, q) => Silent(topic, both)
  <2>1. ASSUME Silent(topic, q), NEW j \in DOMAIN both PROVE Topic(both[j]) # topic
    <3>1. CASE j <= Len(q)
      <4>1. j \in DOMAIN q /\ both[j] = q[j]
        BY <1>1, <2>1, <3>1
      <4> QED BY <2>1, <4>1 DEF Silent
    <3>2. CASE j > Len(q)
      BY <1>2, <3>2
    <3> QED BY <1>1, <3>1, <3>2
  <2> QED BY <2>1 DEF Silent
<1> QED BY <1>3, <1>4 DEF both

(* The first message of a queue is handled: the queue comes to the same.   *)
LEMMA TakeKeeps ==
    ASSUME NEW S, NEW q \in Seq(S), q # <<>>, NEW v, NEW topic, NEW now, ComesTo(v, topic, q, now),
           NEW then, then = IF Topic(Head(q)) = topic THEN Value(Head(q)) ELSE now
    PROVE  ComesTo(v, topic, Tail(q), then)
<1> DEFINE rest == Tail(q)
<1>1. /\ DOMAIN q = 1 .. Len(q) /\ Len(q) \in Nat \ {0}
      /\ DOMAIN rest = 1 .. Len(q) - 1
      /\ \A j \in 1 .. Len(q) - 1 : rest[j] = q[j + 1]
      /\ Head(q) = q[1]
  BY HeadTailProperties, LenProperties, EmptySeq
<1> HIDE DEF rest
<1>2. \A j \in DOMAIN rest : j + 1 \in DOMAIN q /\ rest[j] = q[j + 1] /\ j + 1 > 1
  BY <1>1
<1>3. CASE Silent(topic, q) /\ v = now
  <2>1. Topic(Head(q)) # topic /\ Silent(topic, rest)
    BY <1>1, <1>2, <1>3 DEF Silent
  <2> QED BY <1>3, <2>1 DEF ComesTo, rest
<1>4. CASE EndsWith(v, topic, q)
  <2>1. PICK i \in DOMAIN q : /\ q[i] = Message(topic, v)
                              /\ \A j \in DOMAIN q : j > i => Topic(q[j]) # topic
    BY <1>4 DEF EndsWith
  <2>2. CASE i = 1
    <3>1. Topic(Head(q)) = topic /\ Value(Head(q)) = v
      BY <1>1, <2>1, <2>2 DEF Topic, Value, Message
    <3>2. Silent(topic, rest)
      BY <1>2, <2>1, <2>2 DEF Silent
    <3> QED BY <3>1, <3>2 DEF ComesTo, rest
  <2>3. CASE i # 1
    <3>1. i - 1 \in DOMAIN rest /\ rest[i - 1] = Message(topic, v)
      BY <1>1, <2>1, <2>3
    <3>2. ASSUME NEW j \in DOMAIN rest, j > i - 1 PROVE Topic(rest[j]) # topic
      <4>1. j + 1 \in DOMAIN q /\ j + 1 > i /\ rest[j] = q[j + 1]
        BY <1>1, <2>1, <3>2
      <4> QED BY <2>1, <4>1
    <3>3. EndsWith(v, topic, rest)
      BY <3>1, <3>2 DEF EndsWith
    <3> QED BY <3>3 DEF ComesTo, rest
  <2> QED BY <2>2, <2>3
<1> QED BY <1>3, <1>4 DEF ComesTo

LEMMA Single == ASSUME NEW topic, NEW v PROVE EndsWith(v, topic, <<Message(topic, v)>>)
BY DEF EndsWith

LEMMA SilentSingle == ASSUME NEW topic, NEW m, Topic(m) # topic PROVE Silent(topic, <<m>>)
BY DEF Silent

LEMMA SilentEmpty == ASSUME NEW topic PROVE Silent(topic, <<>>)
BY DEF Silent

(* A report ends with what is in force, for the thermostat and for the     *)
(* dial, whatever was published before it.                                 *)
TellsAll(p, state) ==
    /\ p \in Publications
    /\ EndsWith(get_targettemp, "targettemp", p.stat)
    /\ EndsWith(get_targettemp, "targettemp", p.dial)
    /\ EndsWith(state, "hvac_state", p.dial)

LEMMA ReportTellsAll ==
    ASSUME TypeOK, NEW furnace \in BOOLEAN, NEW ac \in BOOLEAN
    PROVE  TellsAll(StateReport(furnace, ac), HvacState(furnace, ac))
<1> DEFINE h == Message("hvac_state", HvacState(furnace, ac))
           a == Message("away", away)
           t == Message("targettemp", get_targettemp)
<1>1. h \in Messages /\ a \in Messages /\ t \in Messages
  BY MessageTypes, TargetType DEF TypeOK, HvacState, HvacStates
<1>2. Topic(h) = "hvac_state" /\ Topic(a) = "away" /\ Topic(t) = "targettemp"
  BY DEF Topic, Message
<1>3. /\ Sent(h) = [stat |-> <<>>, dial |-> <<h>>]
      /\ Sent(a) = [stat |-> <<a>>, dial |-> <<>>]
      /\ Sent(t) = [stat |-> <<t>>, dial |-> <<t>>]
  BY <1>2 DEF Sent, For, StatTopics, DialTopics
<1>4. Sent(h) \in Publications /\ Sent(a) \in Publications /\ Sent(t) \in Publications
  BY <1>1, SentType
<1> DEFINE first == Then(Sent(h), Sent(a))
           whole == Then(first, Sent(t))
<1>5. first \in Publications /\ whole \in Publications
  <2> HIDE DEF h, a, t
  <2>1. first \in Publications
    BY <1>4, ThenType
  <2> HIDE DEF first
  <2> QED BY <1>4, <2>1, ThenType
<1>6. /\ first.dial = <<h>> \o <<>>
      /\ whole.stat = first.stat \o <<t>> /\ whole.dial = first.dial \o <<t>>
  <2> HIDE DEF h, a, t
  <2>1. Sent(h).dial = <<h>> /\ Sent(a).dial = <<>> /\ Sent(t).stat = <<t>> /\ Sent(t).dial = <<t>>
    BY <1>3
  <2>2. first.dial = Sent(h).dial \o Sent(a).dial
    BY DEF Then
  <2> HIDE DEF first
  <2>3. whole.stat = first.stat \o Sent(t).stat /\ whole.dial = first.dial \o Sent(t).dial
    BY DEF Then
  <2> QED BY <2>1, <2>2, <2>3
<1>7. /\ <<t>> \in Seq(StatMessages) /\ <<t>> \in Seq(DialMessages) /\ <<h>> \in Seq(DialMessages)
      /\ first.stat \in Seq(StatMessages) /\ first.dial \in Seq(DialMessages)
      /\ <<>> \in Seq(DialMessages)
  <2> HIDE DEF h, a, t, first, whole
  <2>1. /\ Sent(t).stat \in Seq(StatMessages) /\ Sent(t).dial \in Seq(DialMessages)
        /\ Sent(h).dial \in Seq(DialMessages)
    BY <1>4 DEF Publications
  <2>2. first.stat \in Seq(StatMessages) /\ first.dial \in Seq(DialMessages)
    BY <1>5 DEF Publications
  <2> QED BY <1>3, <2>1, <2>2, EmptySeq
<1>8. StateReport(furnace, ac) = whole
  BY DEF StateReport
<1> HIDE DEF first, whole
<1>9. EndsWith(get_targettemp, "targettemp", <<t>>)
  BY Single
<1>10. EndsWith(get_targettemp, "targettemp", whole.stat) /\ EndsWith(get_targettemp, "targettemp", whole.dial)
  <2>1. EndsWith(get_targettemp, "targettemp", first.stat \o <<t>>)
    BY ONLY <1>7, <1>9, ConcatBrings
  <2>2. EndsWith(get_targettemp, "targettemp", first.dial \o <<t>>)
    BY ONLY <1>7, <1>9, ConcatBrings
  <2> QED BY ONLY <1>6, <2>1, <2>2
<1>11. EndsWith(HvacState(furnace, ac), "hvac_state", whole.dial)
  <2>1. EndsWith(HvacState(furnace, ac), "hvac_state", <<h>>)
    BY Single
  <2>2. EndsWith(HvacState(furnace, ac), "hvac_state", <<h>> \o <<>>)
    BY <1>7, <2>1, SilentEmpty, ConcatKeeps
  <2>3. Silent("hvac_state", <<t>>)
    BY <1>2, SilentSingle
  <2>4. EndsWith(HvacState(furnace, ac), "hvac_state", first.dial \o <<t>>)
    BY <1>6, <1>7, <2>2, <2>3, ConcatKeeps
  <2> QED BY <1>6, <2>4
<1> QED BY <1>5, <1>8, <1>10, <1>11 DEF TellsAll

LEMMA LastTellsAll ==
    ASSUME NEW p \in Publications, NEW q, NEW state, TellsAll(q, state)
    PROVE  TellsAll(Then(p, q), state)
<1>1. /\ p.stat \in Seq(StatMessages) /\ p.dial \in Seq(DialMessages)
      /\ q.stat \in Seq(StatMessages) /\ q.dial \in Seq(DialMessages)
  BY DEF Publications, TellsAll
<1>2. Then(p, q).stat = p.stat \o q.stat /\ Then(p, q).dial = p.dial \o q.dial
  BY DEF Then
<1>3. /\ EndsWith(get_targettemp, "targettemp", p.stat \o q.stat)
      /\ EndsWith(get_targettemp, "targettemp", p.dial \o q.dial)
      /\ EndsWith(state, "hvac_state", p.dial \o q.dial)
  BY <1>1, ConcatBrings DEF TellsAll
<1>4. Then(p, q) \in Publications
  BY ThenType DEF TellsAll
<1> QED BY <1>2, <1>3, <1>4 DEF TellsAll

-----------------------------------------------------------------------------
(* Reports bring the two ends in step.                                     *)

LEMMA NextInStep ==
    ASSUME NEW t \in Temps, NEW then, NEW left, NEW state, NEW d,
           then = toStat', left = toDial', state = hvac_state', d = dial',
           ComesTo(t, "targettemp", then, get_targettemp'),
           ComesTo(t, "targettemp", left, d.target),
           ComesTo(state, "hvac_state", left, d.hvac)
    PROVE  InStep'
BY DEF InStep, ComesTo, EndsWith, Silent, Message, Topic

LEMMA PublishingAll ==
    ASSUME TypeOK, NEW p \in Publications, NEW rest \in Seq(StatMessages), StatPublishes(p, rest),
           link' = "up", UNCHANGED <<targettemps, index>>,
           NEW state, state = hvac_state', TellsAll(p, state)
    PROVE  InStep'
<1>1. PICK then, left : then = rest \o p.stat /\ left = toDial \o p.dial
  OBVIOUS
<1>2. then = toStat' /\ left = toDial'
  BY <1>1 DEF StatPublishes
<1>3. get_targettemp \in Temps /\ get_targettemp' = get_targettemp
  BY TargetType DEF get_targettemp
<1>4. /\ p.stat \in Seq(StatMessages) /\ p.dial \in Seq(DialMessages) /\ toDial \in Seq(DialMessages)
  BY DEF Publications, TypeOK
<1>5. /\ EndsWith(get_targettemp, "targettemp", then)
      /\ EndsWith(get_targettemp, "targettemp", left)
      /\ EndsWith(state, "hvac_state", left)
  BY <1>1, <1>4, ConcatBrings DEF TellsAll
<1>6. PICK d : d = dial'
  OBVIOUS
<1> QED BY <1>2, <1>3, <1>5, <1>6, NextInStep DEF ComesTo

LEMMA RequestBringsInStep ==
    ASSUME TypeOK, RequestCb \/ RequestmodeCb
    PROVE  InStep'
<1>1. /\ link' = "up" /\ toStat # <<>>
      /\ UNCHANGED <<targettemps, index, furnace_state, ac_state>>
  BY DEF RequestCb, RequestmodeCb, Arrives, stat
<1>2. hvac_state' = HvacState(furnace_state, ac_state)
  BY <1>1 DEF hvac_state, HvacState
<1>3. TellsAll(StateReport(furnace_state, ac_state), HvacState(furnace_state, ac_state))
  BY ReportTellsAll DEF TypeOK
<1>4. Sent(Message("hvacmode", hvacmode)) \in Publications
  BY MessageTypes, SentType DEF TypeOK
<1>5. PICK p : /\ StatPublishes(p, Tail(toStat))
               /\ \/ p = StateReport(furnace_state, ac_state)
                  \/ p = Then(Sent(Message("hvacmode", hvacmode)), StateReport(furnace_state, ac_state))
  BY DEF RequestCb, RequestmodeCb
<1>6. TellsAll(p, HvacState(furnace_state, ac_state))
  BY <1>3, <1>4, <1>5, LastTellsAll
<1>7. p \in Publications /\ Tail(toStat) \in Seq(StatMessages)
  BY <1>1, <1>6, NextMessage DEF TellsAll
<1> QED BY <1>1, <1>2, <1>5, <1>6, <1>7, PublishingAll

LEMMA MoveBringsInStep ==
    ASSUME TypeOK, link = "up", NEW furnace \in BOOLEAN, NEW ac \in BOOLEAN, MoveRelays(furnace, ac)
    PROVE  InStep'
<1>1. /\ link' = "up" /\ UNCHANGED <<targettemps, index>>
      /\ StatPublishes(MoveReports(furnace, ac), toStat)
      /\ toStat \in Seq(StatMessages)
  BY DEF MoveRelays, TypeOK
<1>2. hvac_state' = HvacState(furnace, ac)
  BY DEF MoveRelays, hvac_state, HvacState
<1>3. TellsAll(StateReport(furnace, ac), HvacState(furnace, ac))
  BY ReportTellsAll
<1>4. /\ StateReport(furnace, ac_state) \in Publications
      /\ StateReport(furnace_state, ac) \in Publications
  BY ReportType DEF TypeOK
<1>5. TellsAll(MoveReports(furnace, ac), HvacState(furnace, ac))
  BY <1>3, <1>4, LastTellsAll DEF MoveReports
<1>6. MoveReports(furnace, ac) \in Publications
  BY <1>5 DEF TellsAll
<1> QED BY <1>1, <1>2, <1>5, <1>6, PublishingAll

(* A report that gets through brings the thermostat and the dial in step,  *)
(* for every range of targets and whatever is under way.                   *)
THEOREM ReportsRefresh == Spec => ReportsBringInStep
<1>1. ASSUME TypeOK, [Next]_vars
      PROVE  [link = "up" /\ Reports => InStep']_vars
  BY <1>1, RequestBringsInStep, MoveBringsInStep DEF Reports
<1> QED BY <1>1, TypeCorrect, PTL DEF Spec, ReportsBringInStep

-----------------------------------------------------------------------------
(* Nothing the two ends do sets them apart again.                          *)

\* What InStep says, for some target.
Meets(t) ==
    /\ t \in Temps
    /\ ComesTo(t, "targettemp", toStat, get_targettemp)
    /\ ComesTo(t, "targettemp", toDial, dial.target)
    /\ ComesTo(hvac_state, "hvac_state", toDial, dial.hvac)

LEMMA InStepMeets == InStep <=> \E t \in Temps : Meets(t)
BY DEF InStep, Meets

LEMMA RestInStep ==
    ASSUME NEW t, Meets(t),
           UNCHANGED <<toStat, toDial, targettemps, index, furnace_state, ac_state, dial>>
    PROVE  InStep'
BY DEF Meets, InStep, ComesTo, EndsWith, Silent, Message, Topic, get_targettemp, hvac_state, HvacState

(* The thermostat obeys a message that is not a request.                   *)
LEMMA ObeyingInStep ==
    ASSUME TypeOK, NEW t, Meets(t), TargettempCb \/ AwayCb \/ HvacmodeCb
    PROVE  InStep'
<1>1. /\ toStat # <<>> /\ toStat' = Tail(toStat) /\ toStat \in Seq(StatMessages)
      /\ UNCHANGED <<toDial, dial, furnace_state, ac_state>>
  BY DEF TypeOK, TargettempCb, AwayCb, HvacmodeCb, Arrives
<1>2. hvac_state' = hvac_state
  BY <1>1 DEF hvac_state, HvacState
<1>3. get_targettemp' = IF Topic(Head(toStat)) = "targettemp" THEN Value(Head(toStat)) ELSE get_targettemp
  <2>1. CASE TargettempCb
    <3>1. Topic(Head(toStat)) = "targettemp" /\ Value(Head(toStat)) \in Temps
      BY <1>1, <2>1, NextMessage, ValueTypes DEF TargettempCb, Arrives
    <3> QED BY <2>1, <3>1 DEF TargettempCb, get_targettemp, TypeOK
  <2>2. CASE AwayCb \/ HvacmodeCb
    BY <2>2 DEF AwayCb, HvacmodeCb, Arrives, get_targettemp
  <2> QED BY <2>1, <2>2
<1>4. PICK g : g = get_targettemp'
  OBVIOUS
<1>5. ComesTo(t, "targettemp", Tail(toStat), g)
  BY <1>1, <1>3, <1>4, TakeKeeps DEF Meets
<1>6. /\ Tail(toStat) = toStat' /\ toDial = toDial' /\ hvac_state = hvac_state' /\ dial = dial'
  BY <1>1, <1>2
<1> QED BY <1>4, <1>5, <1>6, NextInStep DEF Meets

LEMMA DialReceivesInStep ==
    ASSUME TypeOK, NEW t, Meets(t), DialReceives
    PROVE  InStep'
<1>1. /\ toDial # <<>> /\ toDial' = Tail(toDial) /\ toDial \in Seq(DialMessages)
      /\ UNCHANGED <<toStat, targettemps, index, furnace_state, ac_state>>
  BY DEF TypeOK, DialReceives, stat
<1>2. hvac_state' = hvac_state /\ get_targettemp' = get_targettemp
  BY <1>1 DEF hvac_state, HvacState, get_targettemp
<1>3. Head(toDial) \in Messages /\ Topic(Head(toDial)) \in {"targettemp", "hvac_state"}
  BY <1>1, NextMessage DEF DialTopics
<1>4. /\ dial'.target = IF Topic(Head(toDial)) = "targettemp" THEN Value(Head(toDial)) ELSE dial.target
      /\ dial'.hvac = IF Topic(Head(toDial)) = "hvac_state" THEN Value(Head(toDial)) ELSE dial.hvac
  <2>1. Topic(Head(toDial)) = "targettemp"
          => restrictTargetTemperature(Value(Head(toDial))) = Value(Head(toDial))
    <3>1. \A v \in Temps : restrictTargetTemperature(v) = v
      BY DialAssumption DEF restrictTargetTemperature, Temps
    <3> QED BY <1>3, <3>1, ValueTypes
  <2>2. PICK r : r = restrictTargetTemperature(Value(Head(toDial)))
    OBVIOUS
  <2>3. dial' = IF Topic(Head(toDial)) = "targettemp"
                THEN [dial EXCEPT !.target = r]
                ELSE [dial EXCEPT !.hvac = Value(Head(toDial))]
    BY <2>2 DEF DialReceives
  <2>4. dial \in [target : Temps, away : BOOLEAN, hvac : HvacStates]
    BY DEF TypeOK
  <2> QED BY ONLY <1>3, <2>1, <2>2, <2>3, <2>4
<1>5. PICK d : d = dial'
  OBVIOUS
<1>6. ComesTo(t, "targettemp", Tail(toDial), d.target)
  BY <1>1, <1>4, <1>5, TakeKeeps DEF Meets
<1>7. ComesTo(hvac_state, "hvac_state", Tail(toDial), d.hvac)
  BY <1>1, <1>4, <1>5, TakeKeeps DEF Meets
<1>8. /\ toStat = toStat' /\ Tail(toDial) = toDial' /\ hvac_state = hvac_state'
      /\ ComesTo(t, "targettemp", toStat, get_targettemp')
  BY <1>1, <1>2 DEF Meets
<1> QED BY <1>5, <1>6, <1>7, <1>8, NextInStep DEF Meets

(* What Node-RED publishes besides targets.                                *)
Irrelevant(p) ==
    /\ p \in Publications
    /\ Silent("targettemp", p.stat) /\ Silent("targettemp", p.dial) /\ Silent("hvac_state", p.dial)

LEMMA SentIrrelevant ==
    ASSUME NEW m \in Messages, Topic(m) \notin {"targettemp", "hvac_state"}
    PROVE  Irrelevant(Sent(m))
<1>1. Sent(m) \in Publications
  BY SentType
<1>2. Silent("targettemp", <<m>>) /\ Silent("hvac_state", <<m>>)
  BY SilentSingle
<1> QED BY <1>1, <1>2, SilentEmpty DEF Irrelevant, Sent, For

LEMMA ThenIrrelevant ==
    ASSUME NEW p, NEW q, Irrelevant(p), Irrelevant(q)
    PROVE  Irrelevant(Then(p, q))
<1>1. /\ p.stat \in Seq(StatMessages) /\ p.dial \in Seq(DialMessages)
      /\ q.stat \in Seq(StatMessages) /\ q.dial \in Seq(DialMessages)
  BY DEF Publications, Irrelevant
<1>2. Then(p, q).stat = p.stat \o q.stat /\ Then(p, q).dial = p.dial \o q.dial
  BY DEF Then
<1>3. /\ Silent("targettemp", p.stat \o q.stat)
      /\ Silent("targettemp", p.dial \o q.dial) /\ Silent("hvac_state", p.dial \o q.dial)
  BY <1>1, ConcatKeeps DEF Irrelevant
<1>4. Then(p, q) \in Publications
  BY ThenType DEF Irrelevant
<1> QED BY <1>2, <1>3, <1>4 DEF Irrelevant

LEMMA IrrelevantInStep ==
    ASSUME TypeOK, link = "up", NEW t, Meets(t), NEW p, Irrelevant(p), DialPublishes(p),
           UNCHANGED <<targettemps, index, furnace_state, ac_state>>,
           dial'.target = dial.target, dial'.hvac = dial.hvac
    PROVE  InStep'
<1>1. PICK then, left : then = toStat \o p.stat /\ left = toDial \o p.dial
  OBVIOUS
<1>2. then = toStat' /\ left = toDial'
  BY <1>1 DEF DialPublishes
<1>3. hvac_state' = hvac_state /\ get_targettemp' = get_targettemp
  BY DEF hvac_state, HvacState, get_targettemp
<1>4. /\ p.stat \in Seq(StatMessages) /\ p.dial \in Seq(DialMessages)
      /\ toStat \in Seq(StatMessages) /\ toDial \in Seq(DialMessages)
  BY DEF Publications, TypeOK, Irrelevant
<1>5. PICK d : d = dial'
  OBVIOUS
<1>6. /\ ComesTo(t, "targettemp", then, get_targettemp')
      /\ ComesTo(t, "targettemp", left, d.target)
      /\ ComesTo(hvac_state, "hvac_state", left, d.hvac)
  BY <1>1, <1>3, <1>4, <1>5, ConcatKeeps DEF Meets, ComesTo, Irrelevant
<1> QED BY <1>2, <1>3, <1>5, <1>6, NextInStep DEF Meets

LEMMA ButtonsInStep ==
    ASSUME TypeOK, link = "up", NEW t, Meets(t), PressAway \/ PressMode \/ Connect
    PROVE  InStep'
<1>1. \A topic : \A value : Topic(Message(topic, value)) = topic
  BY DEF Topic, Message
<1>2. UNCHANGED <<targettemps, index, furnace_state, ac_state>>
  BY DEF PressAway, PressMode, Connect, stat
<1>3. CASE PressAway
  <2>1. PICK value \in BOOLEAN : /\ dial' = [dial EXCEPT !.away = value]
                                 /\ DialPublishes(Sent(Message("away", value)))
    BY <1>3 DEF PressAway
  <2>2. Irrelevant(Sent(Message("away", value)))
    <3>1. Message("away", value) \in Messages
      BY MessageTypes
    <3>2. Topic(Message("away", value)) \notin {"targettemp", "hvac_state"}
      BY <1>1
    <3> QED BY <3>1, <3>2, SentIrrelevant
  <2>3. dial'.target = dial.target /\ dial'.hvac = dial.hvac
    BY <2>1 DEF TypeOK
  <2> QED BY <1>2, <2>1, <2>2, <2>3, IrrelevantInStep
<1>4. CASE PressMode
  <2>1. PICK mode \in PressedModes : DialPublishes(Sent(Message("hvacmode", mode)))
    BY <1>4 DEF PressMode
  <2>2. Irrelevant(Sent(Message("hvacmode", mode)))
    <3>1. Message("hvacmode", mode) \in Messages
      BY MessageTypes, DialAssumption DEF Modes
    <3>2. Topic(Message("hvacmode", mode)) \notin {"targettemp", "hvac_state"}
      BY <1>1
    <3> QED BY <3>1, <3>2, SentIrrelevant
  <2>3. dial' = dial
    BY <1>4 DEF PressMode
  <2> QED BY <1>2, <2>1, <2>2, <2>3, IrrelevantInStep
<1>5. CASE Connect
  <2>1. ASSUME NEW r \in {"requesttemp", "requesttargettemp", "requeststate"}
        PROVE  Irrelevant(Sent(Message(r, "")))
    <3>1. Message(r, "") \in Messages
      BY MessageTypes
    <3>2. Topic(Message(r, "")) \notin {"targettemp", "hvac_state"}
      BY <1>1
    <3> QED BY <3>1, <3>2, SentIrrelevant
  <2>2. Irrelevant(Then(Then(Sent(Message("requesttemp", "")), Sent(Message("requeststate", ""))),
                        Sent(Message("requesttargettemp", ""))))
    <3>1. Irrelevant(Then(Sent(Message("requesttemp", "")), Sent(Message("requeststate", ""))))
      BY <2>1, ThenIrrelevant
    <3> QED BY <2>1, <3>1, ThenIrrelevant
  <2>3. dial' = dial
    BY <1>5 DEF Connect
  <2> QED BY <1>2, <1>5, <2>2, <2>3, IrrelevantInStep DEF Connect
<1> QED BY <1>3, <1>4, <1>5

(* The end of a drag: its target goes to both ends, the dial's own page    *)
(* included.                                                               *)
LEMMA DragEndInStep ==
    ASSUME TypeOK, link = "up", NEW t, Meets(t), DragEnd
    PROVE  InStep'
<1>1. UNCHANGED <<targettemps, index, furnace_state, ac_state, dial>>
  BY DEF DragEnd, stat
<1>2. CASE dial.target = drag
  BY <1>1, <1>2, RestInStep DEF DragEnd
<1>3. CASE dial.target # drag
  <2> DEFINE m == Message("targettemp", dial.target)
  <2>1. m \in Messages /\ dial.target \in Temps
    BY MessageTypes DEF TypeOK
  <2>2. Topic(m) = "targettemp"
    BY DEF Topic, Message
  <2>3. Sent(m) = [stat |-> <<m>>, dial |-> <<m>>]
    BY <2>2 DEF Sent, For, StatTopics, DialTopics
  <2>4. <<m>> \in Seq(StatMessages) /\ <<m>> \in Seq(DialMessages)
    <3>1. Sent(m).stat \in Seq(StatMessages) /\ Sent(m).dial \in Seq(DialMessages)
      BY <2>1, SentType DEF Publications
    <3> QED BY <2>3, <3>1
  <2>5. /\ EndsWith(dial.target, "targettemp", <<m>>) /\ Silent("hvac_state", <<m>>)
    BY <2>2, Single, SilentSingle
  <2>6. DialPublishes(Sent(m))
    BY <1>3 DEF DragEnd
  <2> HIDE DEF m
  <2>7. PICK then, left : then = toStat \o <<m>> /\ left = toDial \o <<m>>
    OBVIOUS
  <2>8. then = toStat' /\ left = toDial'
    BY <2>3, <2>6, <2>7 DEF DialPublishes
  <2>9. toStat \in Seq(StatMessages) /\ toDial \in Seq(DialMessages)
    BY DEF TypeOK
  <2>10. /\ EndsWith(dial.target, "targettemp", then)
         /\ EndsWith(dial.target, "targettemp", left)
    BY <2>4, <2>5, <2>7, <2>9, ConcatBrings
  <2>11. ComesTo(hvac_state, "hvac_state", left, dial.hvac)
    BY <2>4, <2>5, <2>7, <2>9, ConcatKeeps DEF Meets, ComesTo
  <2>12. hvac_state = hvac_state' /\ dial = dial'
    BY <1>1 DEF hvac_state, HvacState
  <2> QED BY <2>1, <2>8, <2>10, <2>11, <2>12, NextInStep DEF ComesTo
<1> QED BY <1>2, <1>3

LEMMA StepStaysInStep ==
    ASSUME TypeOK, Next, InStep, link = "up", link' = "up", UNCHANGED index, ~DragMove, ~Deploy
    PROVE  InStep'
<1>0. PICK t \in Temps : Meets(t)
  BY InStepMeets
<1>1. CASE Handle
  BY <1>0, <1>1, ObeyingInStep, RequestBringsInStep DEF Handle
<1>2. CASE \E furnace, ac \in BOOLEAN : MoveRelays(furnace, ac)
  BY <1>2, MoveBringsInStep
<1>3. CASE DialReceives
  BY <1>0, <1>3, DialReceivesInStep
<1>4. CASE DragEnd
  BY <1>0, <1>4, DragEndInStep
<1>5. CASE PressAway \/ PressMode \/ Connect
  BY <1>0, <1>5, ButtonsInStep
<1>6. CASE DragStart
  <2>1. UNCHANGED <<toStat, toDial, targettemps, index, furnace_state, ac_state, dial>>
    BY <1>6 DEF DragStart, stat, queues
  <2> QED BY <1>0, <2>1, RestInStep
<1>7. ~HourTurns
  <2>1. index = 0 \/ index = 1
    BY DEF TypeOK
  <2> QED BY <2>1 DEF HourTurns
<1>8. ~LinkDies /\ ~Notice /\ ~Reconnect /\ ~PowerCut /\ ~Boot
  BY DEF LinkDies, Notice, Reconnect, PowerCut, Boot
<1> QED BY <1>1, <1>2, <1>3, <1>4, <1>5, <1>6, <1>7, <1>8 DEF Next, Disturbance, Response

(* Once in step the thermostat and the dial stay so, whatever order the    *)
(* echoes, drags and buttons come in.                                      *)
THEOREM InStepStays == Spec => StaysInStep
<1>1. ASSUME TypeOK, [Next]_vars
      PROVE  [InStep /\ link = "up" /\ Undisturbed => InStep']_vars
  BY <1>1, StepStaysInStep DEF Undisturbed
<1> QED BY <1>1, TypeCorrect, PTL DEF Spec, StaysInStep

(* Both together.                                                          *)
THEOREM DialKeepsInStep == Spec => KeepsInStep
BY ReportsRefresh, InStepStays, PTL DEF KeepsInStep

(* So from a state in step on, and as long as nothing disturbs them, the   *)
(* dial shows the target and the state in force whenever the queues are    *)
(* empty.  This is the safety part of ConnectRefreshes, which a run checks *)
(* on a small instance.                                                    *)
THEOREM QuietDialIsRight ==
    Spec => [](InStep /\ link = "up" /\ [][Undisturbed]_vars
                 => [](toStat = <<>> /\ toDial = <<>>
                         => dial.target = get_targettemp /\ dial.hvac = hvac_state))
<1>1. TypeOK /\ InStep /\ link = "up" /\ [Next]_vars /\ [Undisturbed]_vars
        => InStep' /\ (link = "up")'
  <2> SUFFICES ASSUME TypeOK, InStep, link = "up", [Next]_vars, [Undisturbed]_vars
               PROVE  InStep' /\ (link = "up")'
    OBVIOUS
  <2>1. CASE Next /\ Undisturbed
    BY <2>1, StepStaysInStep DEF Undisturbed
  <2>2. CASE UNCHANGED vars
    <3>1. UNCHANGED <<toStat, toDial, targettemps, index, furnace_state, ac_state, dial, link>>
      BY <2>2 DEF vars, stat, queues
    <3> QED BY <3>1, InStepMeets, RestInStep
  <2> QED BY <2>1, <2>2
<1>2. InStep => (toStat = <<>> /\ toDial = <<>>
                   => dial.target = get_targettemp /\ dial.hvac = hvac_state)
  BY DEF InStep, ComesTo, EndsWith
<1> QED BY <1>1, <1>2, TypeCorrect, PTL DEF Spec
===============================================================================
