-------------------------- MODULE CentralFeeds_proofs --------------------------
(***************************************************************************)
(* Theorems about CentralFeeds for every number of subscriptions, retries  *)
(* and set points.                                                         *)
(***************************************************************************)
EXTENDS CentralFeeds, SequenceTheorems, TLAPS

(* The inductive invariant.  While connect() waits for a SUBACK, whichever *)
(* one comes, every subscription up to the one in hand is known to the     *)
(* server or on its way there: the counter runs ahead of the answers only  *)
(* because it is the tries that are answered.                              *)
Known(s) == s \in subscribed \/ Underway(s)
SoFarKnown == pc = "suback" /\ open => \A s \in 1 .. sub : Known(s)
IInv == TypeOK /\ NoFeedForgotten /\ SoFarKnown

-----------------------------------------------------------------------------
(* Packets and their queues.                                               *)

LEMMA PacketKinds ==
    /\ \A s \in Subs : Subscribe(s) \in ToServer
    /\ \A v \in Values : Setpoint(v) \in ToServer /\ Setpoint(v) \in ToClient
    /\ Packet("connect", 0) \in ToServer /\ Packet("pingreq", 0) \in ToServer
    /\ \A code \in {0, 3, 5} : Packet("connack", code) \in ToClient
    /\ Packet("suback", 0) \in ToClient /\ Packet("pingresp", 0) \in ToClient
BY DEF Subscribe, Setpoint, Packet, ToServer, ToClient

LEMMA PublishedNumber ==
    /\ \A p \in ToServer : Kind(p) = "publish" => Number(p) \in Values
    /\ \A p \in ToClient : Kind(p) = "publish" => Number(p) \in Values
    /\ \A p \in ToServer : Kind(p) = "subscribe" => Number(p) \in Subs /\ p = Subscribe(Number(p))
BY DEF ToServer, ToClient, Kind, Number, Subscribe, Packet

LEMMA Sends ==
    ASSUME TypeOK, NEW p \in ToServer
    PROVE  Append(toServer, p) \in Seq(ToServer)
BY AppendProperties DEF TypeOK

LEMMA Answers ==
    ASSUME TypeOK, NEW p \in ToClient
    PROVE  Append(toClient, p) \in Seq(ToClient)
BY AppendProperties DEF TypeOK

LEMMA Takes ==
    ASSUME TypeOK
    PROVE  /\ toClient # <<>> => Tail(toClient) \in Seq(ToClient) /\ Head(toClient) \in ToClient
           /\ toServer # <<>> => Tail(toServer) \in Seq(ToServer) /\ Head(toServer) \in ToServer
BY HeadTailProperties DEF TypeOK

(* A subscription under way stays so when the client sends something more, *)
(* and the one it sends is under way.                                      *)
LEMMA SendKeepsUnderway ==
    ASSUME TypeOK, NEW p \in ToServer, toServer' = Append(toServer, p)
    PROVE  /\ \A s \in Subs : Underway(s) => Underway(s)'
           /\ \A s \in Subs : p = Subscribe(s) => Underway(s)'
<1>1. /\ DOMAIN toServer' = 1 .. Len(toServer) + 1
      /\ DOMAIN toServer = 1 .. Len(toServer) /\ Len(toServer) \in Nat
      /\ \A i \in 1 .. Len(toServer) : toServer'[i] = toServer[i]
      /\ toServer'[Len(toServer) + 1] = p
  BY AppendProperties, LenProperties DEF TypeOK
<1>2. ASSUME NEW s \in Subs, Underway(s) PROVE Underway(s)'
  <2>1. PICK i \in DOMAIN toServer : toServer[i] = Subscribe(s)
    BY <1>2 DEF Underway
  <2>2. i \in DOMAIN toServer' /\ toServer'[i] = Subscribe(s)
    BY <1>1, <2>1
  <2> QED BY <2>2 DEF Underway, Subscribe, Packet
<1>3. ASSUME NEW s \in Subs, p = Subscribe(s) PROVE Underway(s)'
  <2>1. Len(toServer) + 1 \in DOMAIN toServer'
    BY <1>1
  <2> QED BY <1>1, <1>3, <2>1 DEF Underway, Subscribe, Packet
<1> QED BY <1>2, <1>3

(* What the server takes from the queue was the first packet of it.        *)
LEMMA ServeKeepsUnderway ==
    ASSUME TypeOK, toServer # <<>>, toServer' = Tail(toServer),
           NEW s \in Subs, Underway(s)
    PROVE  Underway(s)' \/ Head(toServer) = Subscribe(s)
<1>1. PICK i \in DOMAIN toServer : toServer[i] = Subscribe(s)
  BY DEF Underway
<1>2. /\ DOMAIN toServer = 1 .. Len(toServer) /\ Len(toServer) \in Nat
      /\ DOMAIN toServer' = 1 .. Len(toServer) - 1
      /\ \A j \in 1 .. Len(toServer) - 1 : toServer'[j] = toServer[j + 1]
  BY HeadTailProperties, LenProperties DEF TypeOK
<1>3. CASE i = 1
  BY <1>1, <1>3
<1>4. CASE i # 1
  <2>1. i - 1 \in DOMAIN toServer' /\ toServer'[i - 1] = Subscribe(s)
    BY <1>1, <1>2, <1>4
  <2> QED BY <2>1 DEF Underway, Subscribe, Packet
<1> QED BY <1>3, <1>4

-----------------------------------------------------------------------------
(* Types.                                                                  *)

LEMMA Bounds ==
    /\ 1 \in Subs /\ LoSub \in Subs /\ 1 \in 1 .. MaxRetries
    /\ Default \in Values
    /\ sub \in Subs /\ ~(sub >= NumSubs) => sub + 1 \in Subs
    /\ retry \in 1 .. MaxRetries /\ retry < MaxRetries => retry + 1 \in 1 .. MaxRetries
    /\ <<>> \in Seq(ToServer) /\ <<>> \in Seq(ToClient)
BY FeedsAssumption, EmptySeq DEF Subs

LEMMA InitType == Init => TypeOK
BY Bounds DEF Init, TypeOK, Places, Lessons

(* What connect() and its waits do to the client's own variables.          *)
LEMMA PollType ==
    ASSUME TypeOK, NoNetwork \/ AlreadyOpen \/ Connect \/ ConnackTimesOut \/ LoopEnds \/ RunReturns
    PROVE  TypeOK'
<1> USE DEF TypeOK, net, broker, Places
<1>1. CASE NoNetwork
  BY <1>1 DEF NoNetwork
<1>2. CASE AlreadyOpen
  BY <1>2 DEF AlreadyOpen, Proceed
<1>3. CASE Connect
  <2>1. Packet("connect", 0) \in ToServer
    BY PacketKinds
  <2>2. toServer' \in Seq(ToServer) /\ toClient' \in Seq(ToClient)
    BY <1>3, <2>1, Bounds DEF Connect
  <2> QED BY <1>3, <2>2 DEF Connect, Lessons
<1>4. CASE ConnackTimesOut
  BY <1>4 DEF ConnackTimesOut, GivesUp
<1>5. CASE LoopEnds
  BY <1>5 DEF LoopEnds
<1>6. CASE RunReturns
  BY <1>6 DEF RunReturns
<1> QED BY <1>1, <1>2, <1>3, <1>4, <1>5, <1>6

LEMMA AnswerType ==
    ASSUME TypeOK, ReadConnack \/ SubackTimesOut \/ ReadSuback
    PROVE  TypeOK'
<1>1. Append(toServer, Subscribe(1)) \in Seq(ToServer) /\ Append(toServer, Subscribe(sub)) \in Seq(ToServer)
  BY Sends, PacketKinds, Bounds DEF TypeOK
<1>2. CASE ReadConnack
  <2>1. toClient' \in Seq(ToClient)
    BY <1>2, Takes DEF ReadConnack, Reads
  <2>2. toServer' \in Seq(ToServer) /\ told' \in Lessons /\ sub' \in Subs /\ retry' \in 1 .. MaxRetries
    BY <1>1, <1>2, Bounds DEF ReadConnack, TypeOK, Lessons
  <2>3. failed' \in BOOLEAN /\ pc' \in Places /\ UNCHANGED <<booted, lo>>
    BY <1>2 DEF ReadConnack, TypeOK, GivesUp, Places
  <2>4. UNCHANGED <<buffer, stored, wifi, open, session, subscribed, feed, fresh>>
    BY <1>2 DEF ReadConnack, broker
  <2> QED BY <2>1, <2>2, <2>3, <2>4 DEF TypeOK
<1>3. CASE SubackTimesOut
  <2>1. toServer' \in Seq(ToServer) /\ retry' \in 1 .. MaxRetries
    BY <1>1, <1>3, Bounds DEF SubackTimesOut, TypeOK
  <2>2. buffer' \in Values \cup {None} /\ pc' \in Places /\ UNCHANGED <<booted, lo>>
    BY <1>3 DEF SubackTimesOut, TypeOK, GivesUp, Places
  <2>3. UNCHANGED <<failed, sub, told, stored, wifi, open, toClient, session, subscribed, feed, fresh>>
    BY <1>3 DEF SubackTimesOut, broker
  <2> QED BY <2>1, <2>2, <2>3 DEF TypeOK
<1>4. CASE ReadSuback
  <2>1. toClient' \in Seq(ToClient)
    BY <1>4, Takes DEF ReadSuback, Reads
  <2>2. CASE sub < NumSubs
    <3>1. sub + 1 \in Subs
      BY <2>2, FeedsAssumption DEF TypeOK, Subs
    <3>2. Append(toServer, Subscribe(sub + 1)) \in Seq(ToServer)
      BY <3>1, Sends, PacketKinds
    <3> QED BY <1>4, <2>1, <2>2, <3>1, <3>2, Bounds DEF ReadSuback, TypeOK, broker
  <2>3. CASE ~(sub < NumSubs)
    BY <1>4, <2>1, <2>3 DEF ReadSuback, TypeOK, broker, Proceed, Places, Lessons
  <2> QED BY <2>2, <2>3
<1> QED BY <1>2, <1>3, <1>4

(* Packets that are read: they leave a set point or nothing in the buffer. *)
LEMMA PacketType ==
    ASSUME TypeOK,
           \/ DropPacket \/ OtherTraffic \/ ReadPingresp \/ ReadTrail
           \/ ReadMessage \/ TrailEnds \/ Ping \/ PingReturns
    PROVE  TypeOK'
<1> USE DEF TypeOK, net, broker, Places
<1>1. toClient # <<>> => /\ Tail(toClient) \in Seq(ToClient)
                         /\ Kind(Head(toClient)) = "publish" => Number(Head(toClient)) \in Values
  BY Takes, PublishedNumber
<1>2. CASE DropPacket
  <2>1. buffer' \in Values \cup {None}
    BY <1>1, <1>2 DEF DropPacket
  <2> QED BY <1>1, <1>2, <2>1 DEF DropPacket
<1>3. CASE OtherTraffic
  BY <1>3 DEF OtherTraffic
<1>4. CASE ReadPingresp
  BY <1>1, <1>4 DEF ReadPingresp, Reads
<1>5. CASE ReadTrail
  BY <1>1, <1>5 DEF ReadTrail
<1>6. CASE ReadMessage
  <2>1. lo' \in Values /\ stored' \in Values /\ buffer' \in Values \cup {None}
    BY <1>1, <1>6 DEF ReadMessage, HandleSetTempLo
  <2> QED BY <1>1, <1>6, <2>1 DEF ReadMessage
<1>7. CASE TrailEnds
  <2>1. lo' \in Values /\ stored' \in Values
    BY <1>7 DEF TrailEnds, HandleSetTempLo
  <2> QED BY <1>7, <2>1 DEF TrailEnds
<1>8. CASE Ping
  <2>1. toServer' \in Seq(ToServer)
    BY <1>8, Sends, PacketKinds DEF Ping
  <2> QED BY <1>8, <2>1 DEF Ping
<1>9. CASE PingReturns
  BY <1>9 DEF PingReturns
<1> QED BY <1>2, <1>3, <1>4, <1>5, <1>6, <1>7, <1>8, <1>9

LEMMA FeedType ==
    ASSUME TypeOK, NEW v \in Values, FeedTakes(v)
    PROVE  feed' \in Values /\ toClient' \in Seq(ToClient) /\ fresh' \in BOOLEAN
BY Answers, PacketKinds DEF TypeOK, FeedTakes

LEMMA ServerType ==
    ASSUME TypeOK, Serve \/ Dashboard
    PROVE  TypeOK'
<1> USE DEF TypeOK, client, broker
<1>0. ASSUME NEW kind, Serves(kind)
      PROVE  toServer # <<>> /\ toServer' \in Seq(ToServer) /\ Head(toServer) \in ToServer
  BY <1>0, Takes DEF Serves
<1>1. CASE ServeConnect
  <2>1. PICK code \in {0, 3, 5} : toClient' = Append(toClient, Packet("connack", code))
    BY <1>1 DEF ServeConnect
  <2>2. toClient' \in Seq(ToClient)
    BY <2>1, Answers, PacketKinds
  <2>3. session' \in {"none", "open", "refused"}
    BY <1>1 DEF ServeConnect
  <2> QED BY <1>0, <1>1, <2>2, <2>3 DEF ServeConnect
<1>2. CASE ServeSubscribe
  <2>1. Number(Head(toServer)) \in Subs
    BY <1>0, <1>2, PublishedNumber DEF ServeSubscribe, Serves
  <2>2. toClient' \in Seq(ToClient)
    BY <1>2, Answers, PacketKinds DEF ServeSubscribe
  <2> QED BY <1>0, <1>2, <2>1, <2>2 DEF ServeSubscribe
<1>3. CASE ServePing
  <2>1. toClient' \in Seq(ToClient)
    BY <1>3, Answers, PacketKinds DEF ServePing
  <2> QED BY <1>0, <1>3, <2>1 DEF ServePing
<1>4. CASE ServePublish
  <2>1. Number(Head(toServer)) \in Values
    BY <1>0, <1>4, PublishedNumber DEF ServePublish, Serves
  <2>2. feed' \in Values /\ toClient' \in Seq(ToClient) /\ fresh' \in BOOLEAN
    BY <1>4, <2>1, FeedType DEF ServePublish
  <2> QED BY <1>0, <1>4, <2>2 DEF ServePublish
<1>5. CASE Dashboard
  <2>1. feed' \in Values /\ toClient' \in Seq(ToClient) /\ fresh' \in BOOLEAN
    BY <1>5, FeedType DEF Dashboard
  <2> QED BY <1>5, <2>1 DEF Dashboard
<1> QED BY <1>1, <1>2, <1>3, <1>4, <1>5 DEF Serve

LEMMA WorldType ==
    ASSUME TypeOK,
           \/ ServerCloses \/ SocketDies \/ WifiDrops \/ WifiReturns \/ PowerCut
           \/ \E step \in {-1, 1} : Press(step)
    PROVE  TypeOK'
<1> USE DEF TypeOK, client, broker
<1>1. ASSUME SocketGone
      PROVE  /\ open' \in BOOLEAN /\ toServer' \in Seq(ToServer) /\ toClient' \in Seq(ToClient)
             /\ session' \in {"none", "open", "refused"} /\ subscribed' \subseteq Subs
             /\ fresh' \in BOOLEAN
  BY <1>1, Bounds DEF SocketGone
<1>2. CASE ServerCloses \/ SocketDies \/ WifiDrops
  BY <1>1, <1>2 DEF ServerCloses, SocketDies, WifiDrops
<1>3. CASE WifiReturns
  BY <1>3 DEF WifiReturns
<1>4. CASE PowerCut
  BY <1>1, <1>4, Bounds DEF PowerCut, Places, Lessons
<1>5. ASSUME NEW step \in {-1, 1}, Press(step) PROVE TypeOK'
  <2>1. lo' \in Values /\ buffer' \in Values
    BY <1>5 DEF Press
  <2>2. toServer' \in Seq(ToServer) /\ fresh' \in BOOLEAN
    BY <1>5, <2>1, Sends, PacketKinds DEF Press
  <2> QED BY <1>5, <2>1, <2>2 DEF Press
<1> QED BY <1>2, <1>3, <1>4, <1>5

LEMMA TypeStep == ASSUME TypeOK, [Next]_vars PROVE TypeOK'
<1>1. CASE UNCHANGED vars
  BY <1>1 DEF TypeOK, vars, client, net, broker
<1>2. CASE Disturbance
  BY <1>2, ServerType, WorldType DEF Disturbance
<1>3. CASE Response
  BY <1>3, PollType, AnswerType, PacketType, ServerType, WorldType
     DEF Response, Waits, Run, Reading
<1> QED BY <1>1, <1>2, <1>3 DEF Next

(* Every variable keeps its type, the packets in both directions included. *)
THEOREM TypeCorrect == Spec => []TypeOK
BY InitType, TypeStep, PTL DEF Spec

-----------------------------------------------------------------------------
(* What is known to the server stays known while the socket lives.         *)

StaysKnown == \A s \in Subs : Known(s) => Known(s)'

LEMMA NothingSent == UNCHANGED <<toServer, subscribed>> => StaysKnown
BY DEF StaysKnown, Known, Underway, Subscribe, Packet

LEMMA SendKeepsKnown ==
    ASSUME TypeOK, NEW p \in ToServer, toServer' = Append(toServer, p), UNCHANGED subscribed
    PROVE  StaysKnown
BY SendKeepsUnderway DEF StaysKnown, Known

LEMMA ServeKeepsKnown == ASSUME TypeOK, Serve PROVE StaysKnown
<1> SUFFICES ASSUME NEW s \in Subs, Known(s) PROVE Known(s)'
  BY DEF StaysKnown
<1>1. toServer # <<>> /\ toServer' = Tail(toServer) /\ subscribed \subseteq subscribed'
  BY DEF Serve, ServeConnect, ServeSubscribe, ServePing, ServePublish, Serves, broker
<1>2. CASE s \in subscribed
  BY <1>1, <1>2 DEF Known
<1>3. CASE Underway(s) /\ Head(toServer) # Subscribe(s)
  BY <1>1, <1>3, ServeKeepsUnderway DEF Known
<1>4. CASE Head(toServer) = Subscribe(s)
  <2>1. Kind(Head(toServer)) = "subscribe" /\ Number(Head(toServer)) = s
    BY <1>4 DEF Kind, Number, Subscribe, Packet
  <2>2. ServeSubscribe
    BY <2>1 DEF Serve, ServeConnect, ServePing, ServePublish, Serves
  <2> QED BY <2>1, <2>2 DEF ServeSubscribe, Known
<1> QED BY <1>2, <1>3, <1>4 DEF Known

\* What every step but those of connect() leaves alone.
ConnectRests ==
    /\ told' = told /\ sub' = sub
    /\ open' => open
    /\ pc' = "suback" => pc = "suback"

LEMMA RestKeepsKnown ==
    ASSUME IInv, ConnectRests, StaysKnown
    PROVE  NoFeedForgotten' /\ SoFarKnown'
<1>1. NoFeedForgotten'
  <2>1. ASSUME told' = "subscribed", open' PROVE \A s \in Subs : Known(s)
    <3>1. told = "subscribed" /\ open
      BY <2>1 DEF ConnectRests
    <3> QED BY <3>1 DEF IInv, NoFeedForgotten, Known
  <2>2. told' = "subscribed" /\ open' => \A s \in Subs : Known(s)'
    BY ONLY <2>1, StaysKnown DEF StaysKnown
  <2> QED BY <2>2 DEF NoFeedForgotten, Known
<1>2. SoFarKnown'
  <2>1. 1 .. sub \subseteq Subs
    BY FeedsAssumption DEF IInv, TypeOK, Subs
  <2>2. ASSUME pc' = "suback", open' PROVE sub' = sub /\ \A s \in 1 .. sub : Known(s)
    <3>1. pc = "suback" /\ open /\ sub' = sub
      BY <2>2 DEF ConnectRests
    <3> QED BY <3>1 DEF IInv, SoFarKnown
  <2>3. pc' = "suback" /\ open' => sub' = sub /\ \A s \in 1 .. sub : Known(s)'
    BY ONLY <2>1, <2>2, StaysKnown DEF StaysKnown
  <2> QED BY <2>3 DEF SoFarKnown
<1> QED BY <1>1, <1>2

LEMMA ClosedKnowsNothing == ~open' => NoFeedForgotten' /\ SoFarKnown'
BY DEF NoFeedForgotten, SoFarKnown

LEMMA ConnackKeepsKnown == ASSUME IInv, ReadConnack PROVE NoFeedForgotten' /\ SoFarKnown'
<1>1. CASE Number(Head(toClient)) = 0
  <2>1. /\ told' = "accepted" /\ sub' = 1
        /\ toServer' = Append(toServer, Subscribe(1))
    BY <1>1 DEF ReadConnack
  <2>2. Underway(1)'
    BY <2>1, SendKeepsUnderway, PacketKinds, Bounds DEF IInv
  <2> QED BY <2>1, <2>2 DEF NoFeedForgotten, SoFarKnown, Known
<1>2. CASE Number(Head(toClient)) # 0
  <2>1. /\ pc' = "poll" /\ UNCHANGED <<told, sub, open, toServer, subscribed>>
    BY <1>2 DEF ReadConnack, GivesUp, broker
  <2> QED BY <2>1, NothingSent, RestKeepsKnown DEF ConnectRests
<1> QED BY <1>1, <1>2

LEMMA SubackKeepsKnown == ASSUME IInv, ReadSuback PROVE NoFeedForgotten' /\ SoFarKnown'
<1>1. /\ TypeOK /\ sub \in Subs /\ pc = "suback" /\ open /\ open' = open /\ subscribed' = subscribed
      /\ \A s \in 1 .. sub : Known(s)
  BY DEF IInv, TypeOK, SoFarKnown, ReadSuback, Reads, broker
<1>2. CASE sub < NumSubs
  <2>1. sub + 1 \in Subs /\ 1 .. sub \subseteq Subs
    BY <1>1, <1>2, FeedsAssumption DEF Subs
  <2>2. sub' = sub + 1 /\ told' = told /\ toServer' = Append(toServer, Subscribe(sub + 1))
    BY <1>2 DEF ReadSuback
  <2>3. StaysKnown /\ \A s \in Subs : s = sub + 1 => Underway(s)'
    <3>1. Subscribe(sub + 1) \in ToServer
      BY <2>1, PacketKinds
    <3>2. StaysKnown
      BY <1>1, <2>2, <3>1, SendKeepsKnown
    <3>3. \A s \in Subs : s = sub + 1 => Underway(s)'
      BY <1>1, <2>2, <3>1, SendKeepsUnderway
    <3> QED BY <3>2, <3>3
  <2>4. NoFeedForgotten'
    BY <1>1, <2>2, <2>3 DEF IInv, NoFeedForgotten, StaysKnown, Known
  <2>5. ASSUME NEW s \in 1 .. sub + 1 PROVE Known(s)'
    <3>1. CASE s = sub + 1
      BY <2>1, <2>3, <3>1 DEF Known
    <3>2. CASE s # sub + 1
      <4>1. s \in 1 .. sub
        BY <1>1, <3>2 DEF Subs
      <4> QED BY <1>1, <2>1, <2>3, <4>1 DEF StaysKnown
    <3> QED BY <3>1, <3>2
  <2> QED BY <2>2, <2>4, <2>5 DEF SoFarKnown
<1>3. CASE ~(sub < NumSubs)
  <2>1. Subs = 1 .. sub
    BY <1>1, <1>3, FeedsAssumption DEF Subs
  <2>2. pc' # "suback" /\ toServer' = toServer
    BY <1>3 DEF ReadSuback, Proceed
  <2>3. StaysKnown
    BY <1>1, <2>2, NothingSent
  <2> QED BY <1>1, <2>1, <2>2, <2>3 DEF NoFeedForgotten, SoFarKnown, StaysKnown, Known
<1> QED BY <1>2, <1>3

LEMMA KnownStep == ASSUME IInv, [Next]_vars PROVE NoFeedForgotten' /\ SoFarKnown'
<1>0. TypeOK
  BY DEF IInv
<1>1. CASE SocketDies \/ WifiDrops \/ ServerCloses \/ PowerCut
  BY <1>1, ClosedKnowsNothing DEF SocketDies, WifiDrops, ServerCloses, PowerCut, SocketGone
<1>2. CASE Connect
  BY <1>2 DEF Connect, NoFeedForgotten, SoFarKnown
<1>3. CASE ReadConnack \/ ReadSuback
  BY <1>3, ConnackKeepsKnown, SubackKeepsKnown
<1>4. CASE SubackTimesOut
  <2>1. /\ ConnectRests /\ UNCHANGED subscribed
        /\ toServer' = toServer \/ toServer' = Append(toServer, Subscribe(sub))
    BY <1>4 DEF SubackTimesOut, ConnectRests, GivesUp, broker
  <2>2. Subscribe(sub) \in ToServer
    BY <1>0, PacketKinds DEF TypeOK
  <2>3. StaysKnown
    BY <1>0, <2>1, <2>2, NothingSent, SendKeepsKnown
  <2> QED BY <2>1, <2>3, RestKeepsKnown
<1>5. CASE \E step \in {-1, 1} : Press(step)
  <2>1. PICK step \in {-1, 1} : Press(step)
    BY <1>5
  <2>2. /\ ConnectRests /\ UNCHANGED subscribed /\ lo' \in Values
        /\ toServer' = toServer \/ toServer' = Append(toServer, Setpoint(lo'))
    BY <2>1 DEF Press, ConnectRests, broker
  <2>3. StaysKnown
    BY <1>0, <2>2, NothingSent, SendKeepsKnown, PacketKinds
  <2> QED BY <2>2, <2>3, RestKeepsKnown
<1>6. CASE Ping
  <2>1. /\ ConnectRests /\ UNCHANGED subscribed
        /\ toServer' = Append(toServer, Packet("pingreq", 0))
    BY <1>6 DEF Ping, ConnectRests, broker
  <2>2. StaysKnown
    BY <1>0, <2>1, SendKeepsKnown, PacketKinds
  <2> QED BY <2>1, <2>2, RestKeepsKnown
<1>7. CASE Serve
  <2>1. ConnectRests
    BY <1>7 DEF Serve, ServeConnect, ServeSubscribe, ServePing, ServePublish, ConnectRests, client
  <2> QED BY <1>0, <1>7, <2>1, ServeKeepsKnown, RestKeepsKnown
<1>8. CASE Dashboard \/ WifiReturns
  <2>1. ConnectRests /\ UNCHANGED <<toServer, subscribed>>
    BY <1>8 DEF Dashboard, WifiReturns, ConnectRests, client, broker
  <2> QED BY <2>1, NothingSent, RestKeepsKnown
<1>9. CASE NoNetwork \/ AlreadyOpen \/ ConnackTimesOut \/ RunReturns \/ LoopEnds
  <2>1. ConnectRests /\ UNCHANGED <<toServer, subscribed>>
    BY <1>9 DEF NoNetwork, AlreadyOpen, Proceed, ConnackTimesOut, GivesUp, RunReturns, LoopEnds,
                ConnectRests, net, broker
  <2> QED BY <2>1, NothingSent, RestKeepsKnown
<1>10. CASE DropPacket \/ OtherTraffic \/ ReadPingresp \/ ReadTrail \/ ReadMessage \/ TrailEnds \/ PingReturns
  <2>1. ConnectRests /\ UNCHANGED <<toServer, subscribed>>
    BY <1>10 DEF DropPacket, OtherTraffic, ReadPingresp, ReadTrail, ReadMessage, TrailEnds,
                 PingReturns, ConnectRests, net, broker
  <2> QED BY <2>1, NothingSent, RestKeepsKnown
<1>11. CASE UNCHANGED vars
  <2>1. ConnectRests /\ UNCHANGED <<toServer, subscribed>>
    BY <1>11 DEF vars, client, net, broker, ConnectRests
  <2> QED BY <2>1, NothingSent, RestKeepsKnown
<1> QED
  BY <1>1, <1>2, <1>3, <1>4, <1>5, <1>6, <1>7, <1>8, <1>9, <1>10, <1>11
     DEF Next, Disturbance, Response, Waits, Run, Reading

(* No feed is forgotten when connect() returns 0, whatever the number of   *)
(* subscriptions and tries, however the answers are mixed up.              *)
THEOREM EveryFeedKnown == Spec => []NoFeedForgotten
<1>1. Init => IInv
  BY InitType DEF Init, IInv, NoFeedForgotten, SoFarKnown
<1>2. IInv /\ [Next]_vars => IInv'
  BY TypeStep, KnownStep DEF IInv
<1>3. IInv => NoFeedForgotten
  BY DEF IInv
<1> QED BY <1>1, <1>2, <1>3, PTL DEF Spec

-----------------------------------------------------------------------------
(* Set points on their way.  The last one in the sketch's queue is what    *)
(* the feed has; once it is handled the sketch has it too, unless a press  *)
(* is on its way, which will come back.  The buffer, which a late answer   *)
(* to a ping hands over once more, holds what the sketch has or nothing.   *)

LastIs(queue, v) ==
    \E i \in DOMAIN queue :
        /\ queue[i] = Setpoint(v)
        /\ \A j \in DOMAIN queue : j > i => Kind(queue[j]) # "publish"

\* run() is called when setup() is over.
RunsWhenBooted == pc \in {"packets", "pong", "trail", "pongtrail", "loop"} => booted
LastIsFeed == NoSetpoint(toClient) \/ (LoSub \in subscribed /\ LastIs(toClient, feed))
FreshIsKept == fresh => LoSub \in subscribed /\ booted /\ open /\ buffer \in {None, lo}
FeedInv == RunsWhenBooted /\ LastIsFeed /\ FreshIsKept /\ AgreesWhenQuiet

(* What is no set point does not matter at the end of a queue.             *)
LEMMA AppendOther ==
    ASSUME NEW S, NEW queue \in Seq(S), NEW p \in S, Kind(p) # "publish"
    PROVE  /\ NoSetpoint(Append(queue, p)) <=> NoSetpoint(queue)
           /\ \A v : LastIs(queue, v) => LastIs(Append(queue, p), v)
<1> DEFINE longer == Append(queue, p)
<1>1. /\ DOMAIN longer = 1 .. Len(queue) + 1
      /\ DOMAIN queue = 1 .. Len(queue) /\ Len(queue) \in Nat
      /\ \A i \in 1 .. Len(queue) : longer[i] = queue[i]
      /\ longer[Len(queue) + 1] = p
  BY AppendProperties, LenProperties
<1> HIDE DEF longer
<1>2. NoSetpoint(longer) <=> NoSetpoint(queue)
  BY <1>1 DEF NoSetpoint
<1>3. ASSUME NEW v, LastIs(queue, v) PROVE LastIs(longer, v)
  <2>1. PICK i \in DOMAIN queue :
           /\ queue[i] = Setpoint(v)
           /\ \A j \in DOMAIN queue : j > i => Kind(queue[j]) # "publish"
    BY <1>3 DEF LastIs
  <2>2. i \in DOMAIN longer /\ longer[i] = Setpoint(v)
    BY <1>1, <2>1
  <2>3. ASSUME NEW j \in DOMAIN longer, j > i PROVE Kind(longer[j]) # "publish"
    BY <1>1, <2>1, <2>3
  <2> QED BY <2>2, <2>3 DEF LastIs
<1> QED BY <1>2, <1>3 DEF longer

LEMMA AppendSetpoint ==
    ASSUME NEW S, NEW queue \in Seq(S), NEW v, Setpoint(v) \in S
    PROVE  LastIs(Append(queue, Setpoint(v)), v) /\ ~NoSetpoint(Append(queue, Setpoint(v)))
<1> DEFINE longer == Append(queue, Setpoint(v))
<1>1. /\ DOMAIN longer = 1 .. Len(queue) + 1 /\ Len(queue) \in Nat
      /\ longer[Len(queue) + 1] = Setpoint(v)
  BY AppendProperties, LenProperties
<1>2. Kind(Setpoint(v)) = "publish"
  BY DEF Kind, Setpoint, Packet
<1> HIDE DEF longer
<1>3. Len(queue) + 1 \in DOMAIN longer /\ \A j \in DOMAIN longer : ~(j > Len(queue) + 1)
  BY <1>1
<1> QED BY <1>1, <1>2, <1>3 DEF LastIs, NoSetpoint, longer

(* What is taken from a queue is no set point, or the last, or one before  *)
(* it.                                                                     *)
LEMMA TakeFirst ==
    ASSUME NEW S, NEW queue \in Seq(S), queue # <<>>
    PROVE  /\ NoSetpoint(queue) <=> NoSetpoint(Tail(queue)) /\ Kind(Head(queue)) # "publish"
           /\ \A v : LastIs(queue, v) =>
                 \/ LastIs(Tail(queue), v)
                 \/ Head(queue) = Setpoint(v) /\ NoSetpoint(Tail(queue))
<1> DEFINE rest == Tail(queue)
<1>1. /\ DOMAIN queue = 1 .. Len(queue) /\ Len(queue) \in Nat \ {0}
      /\ DOMAIN rest = 1 .. Len(queue) - 1
      /\ \A j \in 1 .. Len(queue) - 1 : rest[j] = queue[j + 1]
      /\ Head(queue) = queue[1]
  BY HeadTailProperties, LenProperties, EmptySeq
<1> HIDE DEF rest
<1>2. \A j \in DOMAIN queue : j = 1 \/ (j - 1 \in DOMAIN rest /\ rest[j - 1] = queue[j])
  BY <1>1
<1>3. NoSetpoint(queue) <=> NoSetpoint(rest) /\ Kind(Head(queue)) # "publish"
  <2>1. NoSetpoint(queue) => NoSetpoint(rest) /\ Kind(Head(queue)) # "publish"
    <3>1. 1 \in DOMAIN queue /\ \A j \in DOMAIN rest : j + 1 \in DOMAIN queue
      BY <1>1
    <3> QED BY <1>1, <3>1 DEF NoSetpoint
  <2>2. NoSetpoint(rest) /\ Kind(Head(queue)) # "publish" => NoSetpoint(queue)
    BY <1>1, <1>2 DEF NoSetpoint
  <2> QED BY <2>1, <2>2
<1>4. ASSUME NEW v, LastIs(queue, v)
      PROVE  LastIs(rest, v) \/ (Head(queue) = Setpoint(v) /\ NoSetpoint(rest))
  <2>1. PICK i \in DOMAIN queue :
           /\ queue[i] = Setpoint(v)
           /\ \A j \in DOMAIN queue : j > i => Kind(queue[j]) # "publish"
    BY <1>4 DEF LastIs
  <2>2. ASSUME NEW j \in DOMAIN rest, j > i - 1 PROVE Kind(rest[j]) # "publish"
    <3>1. j + 1 \in DOMAIN queue /\ j + 1 > i /\ rest[j] = queue[j + 1]
      BY <1>1, <2>1, <2>2
    <3> QED BY <2>1, <3>1
  <2>3. CASE i = 1
    <3>1. \A j \in DOMAIN rest : j > i - 1
      BY <1>1, <2>3
    <3> QED BY <1>1, <2>1, <2>2, <2>3, <3>1 DEF NoSetpoint
  <2>4. CASE i # 1
    <3>1. i - 1 \in DOMAIN rest /\ rest[i - 1] = Setpoint(v)
      BY <1>2, <2>1, <2>4
    <3> QED BY <2>2, <3>1 DEF LastIs
  <2> QED BY <2>3, <2>4
<1> QED BY <1>3, <1>4 DEF rest

LEMMA InitFeed == Init => FeedInv
BY DEF Init, FeedInv, RunsWhenBooted, LastIsFeed, FreshIsKept, AgreesWhenQuiet, NoSetpoint

LEMMA BootStep == ASSUME RunsWhenBooted, [Next]_vars PROVE RunsWhenBooted'
<1> USE DEF RunsWhenBooted
<1>1. CASE NoNetwork \/ AlreadyOpen \/ Connect \/ ConnackTimesOut \/ ReadConnack
  BY <1>1 DEF NoNetwork, AlreadyOpen, Connect, ConnackTimesOut, ReadConnack, Proceed, GivesUp
<1>2. CASE SubackTimesOut \/ ReadSuback \/ DropPacket \/ OtherTraffic
  BY <1>2 DEF SubackTimesOut, ReadSuback, DropPacket, OtherTraffic, Proceed, GivesUp
<1>3. CASE ReadPingresp \/ ReadTrail \/ ReadMessage \/ TrailEnds
  BY <1>3 DEF ReadPingresp, ReadTrail, ReadMessage, TrailEnds
<1>4. CASE RunReturns \/ Ping \/ PingReturns \/ LoopEnds \/ PowerCut
  BY <1>4 DEF RunReturns, Ping, PingReturns, LoopEnds, PowerCut
<1>5. CASE \E step \in {-1, 1} : Press(step)
  BY <1>5 DEF Press
<1>6. CASE \/ ServeConnect \/ ServeSubscribe \/ ServePing \/ ServePublish \/ Dashboard
           \/ ServerCloses \/ SocketDies \/ WifiDrops \/ WifiReturns \/ UNCHANGED vars
  <2>1. UNCHANGED <<pc, booted>>
    BY <1>6 DEF ServeConnect, ServeSubscribe, ServePing, ServePublish, Dashboard,
                ServerCloses, SocketDies, WifiDrops, WifiReturns, vars, client
  <2> QED BY <2>1
<1> QED
  BY <1>1, <1>2, <1>3, <1>4, <1>5, <1>6
     DEF Next, Disturbance, Response, Waits, Run, Reading, Serve

(* A step that handles no set point, writes none and leaves the feed alone *)
(* changes nothing of this, whatever else it reads.                        *)
NothingHandled ==
    /\ UNCHANGED <<subscribed, feed, open, fresh>>
    /\ fresh => lo' = lo /\ booted'
    /\ buffer' \in {buffer, None}
    /\ NoSetpoint(toServer') => NoSetpoint(toServer)

LEMMA RestKeepsFeed ==
    ASSUME FeedInv, NothingHandled, UNCHANGED toClient
    PROVE  LastIsFeed' /\ FreshIsKept' /\ AgreesWhenQuiet'
<1>1. LastIsFeed'
  BY DEF FeedInv, LastIsFeed, NothingHandled, NoSetpoint, LastIs, Setpoint, Packet
<1>2. FreshIsKept'
  BY DEF FeedInv, FreshIsKept, NothingHandled
<1>3. AgreesWhenQuiet'
  BY DEF FeedInv, AgreesWhenQuiet, NothingHandled, NoSetpoint
<1> QED BY <1>1, <1>2, <1>3

LEMMA ReadKeepsFeed ==
    ASSUME TypeOK, FeedInv, NothingHandled, toClient # <<>>, toClient' = Tail(toClient),
           Kind(Head(toClient)) # "publish"
    PROVE  LastIsFeed' /\ FreshIsKept' /\ AgreesWhenQuiet'
<1> DEFINE rest == Tail(toClient)
<1>1. /\ NoSetpoint(toClient) <=> NoSetpoint(rest)
      /\ \A v : LastIs(toClient, v) => LastIs(rest, v)
  <2>1. \A v : Kind(Setpoint(v)) = "publish"
    BY DEF Kind, Setpoint, Packet
  <2> QED BY <2>1, TakeFirst DEF TypeOK
<1>2. NoSetpoint(rest) \/ (LoSub \in subscribed /\ LastIs(rest, feed))
  BY <1>1 DEF FeedInv, LastIsFeed
<1>3. toClient' = rest
  OBVIOUS
<1> HIDE DEF rest
<1>4. LastIsFeed'
  BY <1>2, <1>3 DEF LastIsFeed, NothingHandled, NoSetpoint, LastIs, Setpoint, Packet
<1>5. FreshIsKept'
  BY DEF FeedInv, FreshIsKept, NothingHandled
<1>6. AgreesWhenQuiet'
  BY <1>1, <1>3 DEF FeedInv, AgreesWhenQuiet, NothingHandled, NoSetpoint
<1> QED BY <1>4, <1>5, <1>6

(* A set point that is read and not handled.                               *)
LEMMA LossKeepsFeed ==
    ASSUME TypeOK, FeedInv, toClient # <<>>, toClient' = Tail(toClient), fresh' = FALSE,
           UNCHANGED <<subscribed, feed>>
    PROVE  LastIsFeed' /\ FreshIsKept' /\ AgreesWhenQuiet'
<1> DEFINE rest == Tail(toClient)
<1>1. NoSetpoint(rest) \/ (LoSub \in subscribed /\ LastIs(rest, feed))
  BY TakeFirst DEF TypeOK, FeedInv, LastIsFeed
<1>2. toClient' = rest
  OBVIOUS
<1> HIDE DEF rest
<1>3. LastIsFeed'
  BY <1>1, <1>2 DEF LastIsFeed, NoSetpoint, LastIs, Setpoint, Packet
<1> QED BY <1>3 DEF FreshIsKept, AgreesWhenQuiet

LEMMA MessageKeepsFeed ==
    ASSUME TypeOK, FeedInv, ReadMessage
    PROVE  LastIsFeed' /\ FreshIsKept' /\ AgreesWhenQuiet'
<1>1. CASE Kind(Head(toClient)) = "publish"
  <2> DEFINE rest == Tail(toClient)
  <2>1. /\ toClient # <<>> /\ toClient' = rest /\ open' /\ booted' /\ fresh'
        /\ lo' = Number(Head(toClient)) /\ buffer' = lo' /\ UNCHANGED <<subscribed, feed>>
    BY <1>1 DEF ReadMessage, HandleSetTempLo, FeedInv, RunsWhenBooted, broker
  <2>2. LoSub \in subscribed /\ LastIs(toClient, feed)
    BY <1>1, <2>1, TakeFirst DEF TypeOK, FeedInv, LastIsFeed
  <2>3. LastIs(rest, feed) \/ (lo' = feed /\ NoSetpoint(rest))
    BY <2>1, <2>2, TakeFirst DEF TypeOK, Number, Setpoint, Packet
  <2>4. LastIs(rest, feed) => ~NoSetpoint(rest)
    BY DEF LastIs, NoSetpoint, Kind, Setpoint, Packet
  <2> HIDE DEF rest
  <2>5. LastIsFeed'
    BY <2>1, <2>2, <2>3 DEF LastIsFeed, NoSetpoint, LastIs, Setpoint, Packet
  <2>6. FreshIsKept'
    BY <2>1, <2>2 DEF FreshIsKept
  <2>7. AgreesWhenQuiet'
    BY <2>1, <2>3, <2>4 DEF AgreesWhenQuiet, NoSetpoint
  <2> QED BY <2>5, <2>6, <2>7
<1>2. CASE Kind(Head(toClient)) # "publish"
  <2>1. /\ toClient # <<>> /\ toClient' = Tail(toClient) /\ buffer' = None
        /\ UNCHANGED <<lo, fresh, booted, open, subscribed, feed, toServer>>
    BY <1>2 DEF ReadMessage, broker
  <2>2. NothingHandled
    BY <2>1 DEF NothingHandled, FeedInv, FreshIsKept, NoSetpoint
  <2> QED BY <1>2, <2>1, <2>2, ReadKeepsFeed
<1> QED BY <1>1, <1>2

LEMMA AnswerKeepsFeed ==
    ASSUME TypeOK, FeedInv, ServeConnect \/ ServeSubscribe \/ ServePing
    PROVE  LastIsFeed' /\ FreshIsKept' /\ AgreesWhenQuiet'
<1>1. PICK p \in ToClient : toClient' = Append(toClient, p) /\ Kind(p) # "publish"
  <2>1. ASSUME NEW code \in {0, 3, 5}
        PROVE  Packet("connack", code) \in ToClient /\ Kind(Packet("connack", code)) # "publish"
    BY PacketKinds DEF Kind, Packet
  <2>2. /\ Packet("suback", 0) \in ToClient /\ Kind(Packet("suback", 0)) # "publish"
        /\ Packet("pingresp", 0) \in ToClient /\ Kind(Packet("pingresp", 0)) # "publish"
    BY PacketKinds DEF Kind, Packet
  <2>3. CASE ServeConnect
    <3>1. PICK code \in {0, 3, 5} : toClient' = Append(toClient, Packet("connack", code))
      BY <2>3 DEF ServeConnect
    <3> QED BY <2>1, <3>1
  <2>4. CASE ServeSubscribe \/ ServePing
    BY <2>2, <2>4 DEF ServeSubscribe, ServePing
  <2> QED BY <2>3, <2>4
<1>2. /\ toServer # <<>> /\ toServer' = Tail(toServer) /\ Kind(Head(toServer)) # "publish"
      /\ UNCHANGED <<booted, buffer, lo, open, feed, fresh>> /\ subscribed \subseteq subscribed'
  BY DEF ServeConnect, ServeSubscribe, ServePing, Serves, client, broker
<1> DEFINE longer == Append(toClient, p)  rest == Tail(toServer)
<1>3. /\ NoSetpoint(longer) <=> NoSetpoint(toClient)
      /\ LastIs(toClient, feed) => LastIs(longer, feed)
  BY <1>1, AppendOther DEF TypeOK
<1>4. NoSetpoint(toServer) <=> NoSetpoint(rest)
  BY <1>2, TakeFirst DEF TypeOK
<1>5. toClient' = longer /\ toServer' = rest
  BY <1>1, <1>2
<1> HIDE DEF longer, rest
<1>6. NoSetpoint(longer) \/ (LoSub \in subscribed' /\ LastIs(longer, feed))
  BY <1>2, <1>3 DEF FeedInv, LastIsFeed
<1>7. LastIsFeed'
  BY <1>2, <1>5, <1>6 DEF LastIsFeed, NoSetpoint, LastIs, Setpoint, Packet
<1>8. FreshIsKept'
  BY <1>2 DEF FeedInv, FreshIsKept
<1>9. AgreesWhenQuiet'
  BY <1>2, <1>3, <1>4, <1>5 DEF FeedInv, AgreesWhenQuiet, NoSetpoint
<1> QED BY <1>7, <1>8, <1>9

LEMMA TakingKeepsFeed ==
    ASSUME TypeOK, FeedInv, NEW v \in Values, FeedTakes(v),
           UNCHANGED <<booted, buffer, lo, open, subscribed>>
    PROVE  LastIsFeed' /\ FreshIsKept' /\ AgreesWhenQuiet'
<1>1. CASE LoSub \in subscribed
  <2> DEFINE longer == Append(toClient, Setpoint(v))
  <2>1. LastIs(longer, v) /\ ~NoSetpoint(longer)
    BY AppendSetpoint, PacketKinds DEF TypeOK
  <2>2. toClient' = longer /\ feed' = v /\ fresh' = fresh
    BY <1>1 DEF FeedTakes
  <2> HIDE DEF longer
  <2>3. LastIsFeed'
    BY <1>1, <2>1, <2>2 DEF LastIsFeed, LastIs, Setpoint, Packet
  <2>4. FreshIsKept'
    BY <2>2 DEF FeedInv, FreshIsKept
  <2>5. AgreesWhenQuiet'
    BY <2>1, <2>2 DEF AgreesWhenQuiet, NoSetpoint
  <2> QED BY <2>3, <2>4, <2>5
<1>2. CASE LoSub \notin subscribed
  <2>1. fresh' = FALSE /\ toClient' = toClient
    BY <1>2 DEF FeedTakes
  <2>2. NoSetpoint(toClient)
    BY <1>2 DEF FeedInv, LastIsFeed
  <2>3. LastIsFeed'
    BY <2>1, <2>2 DEF LastIsFeed, NoSetpoint
  <2> QED BY <2>1, <2>3 DEF FreshIsKept, AgreesWhenQuiet
<1> QED BY <1>1, <1>2

LEMMA NewSocketKeepsFeed ==
    toClient' = <<>> /\ fresh' = FALSE => LastIsFeed' /\ FreshIsKept' /\ AgreesWhenQuiet'
BY DEF LastIsFeed, FreshIsKept, AgreesWhenQuiet, NoSetpoint

(* A press writes its set point into the buffer, whatever was in it, and   *)
(* its echo is on the way until the sketch handles it.                     *)
LEMMA PressKeepsFeed ==
    ASSUME TypeOK, FeedInv, NEW step \in {-1, 1}, Press(step)
    PROVE  LastIsFeed' /\ FreshIsKept' /\ AgreesWhenQuiet'
<1>1. lo' \in Values /\ buffer' = lo' /\ UNCHANGED <<toClient, subscribed, feed, open, booted>>
  BY DEF Press, broker
<1>2. LastIsFeed'
  BY <1>1 DEF FeedInv, LastIsFeed, NoSetpoint, LastIs, Setpoint, Packet
<1>3. CASE open
  <2>1. toServer' = Append(toServer, Setpoint(lo')) /\ fresh' = fresh
    BY <1>3 DEF Press
  <2>2. \A v \in Values : ~NoSetpoint(Append(toServer, Setpoint(v)))
    BY AppendSetpoint, PacketKinds DEF TypeOK
  <2>3. ~NoSetpoint(toServer')
    BY <1>1, <2>1, <2>2
  <2>4. FreshIsKept'
    BY <1>1, <2>1 DEF FeedInv, FreshIsKept
  <2>5. AgreesWhenQuiet'
    BY <2>3 DEF AgreesWhenQuiet, NoSetpoint
  <2> QED BY <1>2, <2>4, <2>5
<1>4. CASE ~open
  <2>1. fresh' = FALSE
    BY <1>4 DEF Press
  <2> QED BY <1>2, <2>1 DEF FreshIsKept, AgreesWhenQuiet
<1> QED BY <1>3, <1>4

(* The end of a late answer to a ping: nothing is under way, and what is   *)
(* handled once more is what the sketch has.                               *)
LEMMA TrailKeepsFeed ==
    ASSUME FeedInv, TrailEnds
    PROVE  LastIsFeed' /\ FreshIsKept' /\ AgreesWhenQuiet'
<1>1. UNCHANGED <<toClient, toServer, subscribed, feed, open, fresh, booted, buffer>>
  BY DEF TrailEnds, net, broker
<1>2. fresh => lo' = lo
  BY DEF TrailEnds, HandleSetTempLo, FeedInv, FreshIsKept
<1>3. NothingHandled
  BY <1>1, <1>2 DEF NothingHandled, FeedInv, FreshIsKept, NoSetpoint
<1> QED BY <1>1, <1>3, RestKeepsFeed

(* What the client sends besides set points.                               *)
LEMMA SendsNoSetpoint ==
    ASSUME TypeOK, NEW p \in ToServer, Kind(p) # "publish", toServer' = Append(toServer, p)
    PROVE  NoSetpoint(toServer') => NoSetpoint(toServer)
BY AppendOther DEF TypeOK

LEMMA PollKeepsFeed ==
    ASSUME TypeOK, FeedInv,
           \/ NoNetwork \/ AlreadyOpen \/ ConnackTimesOut \/ RunReturns \/ LoopEnds
           \/ SubackTimesOut \/ OtherTraffic \/ Ping \/ PingReturns \/ WifiReturns
    PROVE  LastIsFeed' /\ FreshIsKept' /\ AgreesWhenQuiet'
<1> SUFFICES NothingHandled /\ UNCHANGED toClient
  BY RestKeepsFeed
<1>0. \A s \in Subs : Subscribe(s) \in ToServer /\ Kind(Subscribe(s)) # "publish"
  BY PacketKinds DEF Kind, Subscribe, Packet
<1>1. CASE NoNetwork \/ AlreadyOpen \/ ConnackTimesOut \/ RunReturns \/ LoopEnds
  BY <1>1 DEF NoNetwork, AlreadyOpen, ConnackTimesOut, RunReturns, LoopEnds, Proceed, GivesUp,
              NothingHandled, FeedInv, FreshIsKept, NoSetpoint, net, broker
<1>2. CASE SubackTimesOut
  <2>1. /\ UNCHANGED <<subscribed, feed, open, fresh, booted, lo, toClient>>
        /\ buffer' \in {buffer, None}
        /\ toServer' = toServer \/ toServer' = Append(toServer, Subscribe(sub))
    BY <1>2 DEF SubackTimesOut, GivesUp, broker
  <2>2. NoSetpoint(toServer') => NoSetpoint(toServer)
    BY <1>0, <2>1, SendsNoSetpoint DEF TypeOK
  <2> QED BY <2>1, <2>2 DEF NothingHandled, FeedInv, FreshIsKept
<1>3. CASE OtherTraffic \/ PingReturns \/ WifiReturns
  BY <1>3 DEF OtherTraffic, PingReturns, WifiReturns,
              NothingHandled, FeedInv, FreshIsKept, NoSetpoint, client, net, broker
<1>4. CASE Ping
  <2>1. /\ UNCHANGED <<subscribed, feed, open, fresh, booted, lo, buffer, toClient>>
        /\ toServer' = Append(toServer, Packet("pingreq", 0))
    BY <1>4 DEF Ping, broker
  <2>2. Packet("pingreq", 0) \in ToServer /\ Kind(Packet("pingreq", 0)) # "publish"
    BY PacketKinds DEF Kind, Packet
  <2>3. NoSetpoint(toServer') => NoSetpoint(toServer)
    BY <2>1, <2>2, SendsNoSetpoint
  <2> QED BY <2>1, <2>3 DEF NothingHandled, FeedInv, FreshIsKept
<1> QED BY <1>1, <1>2, <1>3, <1>4

LEMMA ReadingKeepsFeed ==
    ASSUME TypeOK, FeedInv, ReadConnack \/ ReadSuback \/ DropPacket \/ ReadPingresp \/ ReadTrail
    PROVE  LastIsFeed' /\ FreshIsKept' /\ AgreesWhenQuiet'
<1>0. \A s \in Subs : Subscribe(s) \in ToServer /\ Kind(Subscribe(s)) # "publish"
  BY PacketKinds DEF Kind, Subscribe, Packet
<1>1. CASE ReadConnack
  <2>1. /\ UNCHANGED <<subscribed, feed, open, fresh, booted, lo, buffer>>
        /\ toClient # <<>> /\ toClient' = Tail(toClient) /\ Kind(Head(toClient)) = "connack"
        /\ toServer' = toServer \/ toServer' = Append(toServer, Subscribe(1))
    BY <1>1 DEF ReadConnack, Reads, GivesUp, broker
  <2>2. NoSetpoint(toServer') => NoSetpoint(toServer)
    BY <1>0, <2>1, SendsNoSetpoint, Bounds
  <2>3. NothingHandled
    BY <2>1, <2>2 DEF NothingHandled, FeedInv, FreshIsKept
  <2> QED BY <2>1, <2>3, ReadKeepsFeed
<1>2. CASE ReadSuback
  <2>1. /\ UNCHANGED <<subscribed, feed, open, fresh>> /\ buffer' = None
        /\ toClient # <<>> /\ toClient' = Tail(toClient) /\ Kind(Head(toClient)) = "suback"
        /\ booted => booted' /\ lo' = lo
    BY <1>2 DEF ReadSuback, Reads, Proceed, broker
  <2>2. NoSetpoint(toServer') => NoSetpoint(toServer)
    <3>1. CASE sub < NumSubs
      <4>1. sub + 1 \in Subs
        BY <3>1, FeedsAssumption DEF TypeOK, Subs
      <4>2. toServer' = Append(toServer, Subscribe(sub + 1))
        BY <1>2, <3>1 DEF ReadSuback
      <4> QED BY <1>0, <4>1, <4>2, SendsNoSetpoint
    <3>2. CASE ~(sub < NumSubs)
      <4>1. toServer' = toServer
        BY <1>2, <3>2 DEF ReadSuback
      <4> QED BY <4>1
    <3> QED BY <3>1, <3>2
  <2>3. NothingHandled
    BY <2>1, <2>2 DEF NothingHandled, FeedInv, FreshIsKept
  <2> QED BY <2>1, <2>3, ReadKeepsFeed
<1>3. CASE DropPacket \/ ReadPingresp \/ ReadTrail
  <2>1. /\ UNCHANGED <<subscribed, feed, open, booted, lo, toServer>>
        /\ toClient # <<>> /\ toClient' = Tail(toClient)
    BY <1>3 DEF DropPacket, ReadPingresp, ReadTrail, Reads, broker
  <2>2. CASE Kind(Head(toClient)) # "publish"
    <3>1. fresh' = fresh /\ buffer' \in {buffer, None}
      BY <1>3, <2>2 DEF DropPacket, ReadPingresp, ReadTrail, FeedInv, FreshIsKept, TypeOK
    <3>2. NothingHandled
      BY <2>1, <3>1 DEF NothingHandled, FeedInv, FreshIsKept, NoSetpoint
    <3> QED BY <2>1, <2>2, <3>2, ReadKeepsFeed
  <2>3. CASE Kind(Head(toClient)) = "publish"
    <3>1. fresh' = FALSE
      BY <1>3, <2>3 DEF DropPacket, ReadPingresp, ReadTrail, Reads
    <3> QED BY <2>1, <3>1, LossKeepsFeed
  <2> QED BY <2>2, <2>3
<1> QED BY <1>1, <1>2, <1>3

LEMMA FeedStep == ASSUME TypeOK, FeedInv, [Next]_vars PROVE FeedInv'
<1>1. RunsWhenBooted'
  BY BootStep DEF FeedInv
<1> SUFFICES LastIsFeed' /\ FreshIsKept' /\ AgreesWhenQuiet'
  BY <1>1 DEF FeedInv
<1>2. CASE Serve
  <2>1. CASE ServePublish
    <3>1. Number(Head(toServer)) \in Values
      BY <2>1, Takes, PublishedNumber DEF ServePublish, Serves
    <3>2. FeedTakes(Number(Head(toServer))) /\ UNCHANGED <<booted, buffer, lo, open, subscribed>>
      BY <2>1 DEF ServePublish, client
    <3> QED BY <3>1, <3>2, TakingKeepsFeed
  <2> QED BY <1>2, <2>1, AnswerKeepsFeed DEF Serve
<1>3. CASE Dashboard
  <2>1. PICK v \in Values : FeedTakes(v)
    BY <1>3 DEF Dashboard
  <2>2. UNCHANGED <<booted, buffer, lo, open, subscribed>>
    BY <1>3 DEF Dashboard, client
  <2> QED BY <2>1, <2>2, TakingKeepsFeed
<1>4. CASE Connect \/ SocketDies \/ WifiDrops \/ ServerCloses \/ PowerCut
  BY <1>4, NewSocketKeepsFeed DEF Connect, SocketDies, WifiDrops, ServerCloses, PowerCut, SocketGone
<1>5. CASE \E step \in {-1, 1} : Press(step)
  BY <1>5, PressKeepsFeed
<1>6. CASE \/ NoNetwork \/ AlreadyOpen \/ ConnackTimesOut \/ RunReturns \/ LoopEnds
           \/ SubackTimesOut \/ OtherTraffic \/ Ping \/ PingReturns \/ WifiReturns
  BY <1>6, PollKeepsFeed
<1>7. CASE ReadConnack \/ ReadSuback \/ DropPacket \/ ReadPingresp \/ ReadTrail
  BY <1>7, ReadingKeepsFeed
<1>8. CASE ReadMessage \/ TrailEnds
  BY <1>8, MessageKeepsFeed, TrailKeepsFeed
<1>9. CASE UNCHANGED vars
  BY <1>9 DEF vars, client, net, broker, FeedInv, LastIsFeed, FreshIsKept, AgreesWhenQuiet,
              NoSetpoint, LastIs, Setpoint, Packet
<1> QED
  BY <1>2, <1>3, <1>4, <1>5, <1>6, <1>7, <1>8, <1>9
     DEF Next, Disturbance, Response, Waits, Run, Reading

(* The sketch and its feed have the same low set point whenever nothing is *)
(* under way and the last message was handled, for every number of presses *)
(* and messages in whatever order.                                         *)
THEOREM FeedAgreesWhenQuiet == Spec => []AgreesWhenQuiet
<1>1. Init => TypeOK /\ FeedInv
  BY InitType, InitFeed
<1>2. TypeOK /\ FeedInv /\ [Next]_vars => (TypeOK /\ FeedInv)'
  BY TypeStep, FeedStep
<1>3. FeedInv => AgreesWhenQuiet
  BY DEF FeedInv
<1> QED BY <1>1, <1>2, <1>3, PTL DEF Spec
===============================================================================
