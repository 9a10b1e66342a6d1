---------------------------- MODULE CentralFeeds ----------------------------
(***************************************************************************)
(* ThermoCentral and the Adafruit IO feed of its low set point: the        *)
(* sketch's buttons and set point handler, AdafruitIO::run() and status(), *)
(* and Adafruit_MQTT's connect(), ping() and processPackets() over one     *)
(* socket.  ThermoCentral.tla takes the messages for granted; this module  *)
(* has the packets they come in.                                           *)
(*                                                                         *)
(* Every wait of the client ends with the packet or with its timeout, and  *)
(* a timeout means that nothing is there to be read.  All packets go       *)
(* through one buffer, the client's own included.  The packets of the      *)
(* other feeds change nothing kept here but that buffer and are not kept   *)
(* in the queues.  A press publishes the new set point on the feed and the *)
(* sketch is subscribed to it, so the press comes back to it.              *)
(***************************************************************************)
EXTENDS Integers, Sequences

CONSTANTS
    NumSubs,        \* subscriptions of the client, in the order of the feeds
    LoSub,          \* ... the low set point's among them
    MaxRetries,     \* SUBSCRIBE is sent so often at most
    Values,         \* bound: set points; a byte of the EEPROM holds them
    Default         \* the set point of an erased sector

ASSUME FeedsAssumption ==
    /\ NumSubs \in Nat /\ LoSub \in 1 .. NumSubs /\ MaxRetries \in Nat \ {0}
    /\ Values \subseteq 0 .. 254 /\ Default \in Values

VARIABLES
    pc,             \* where the processor is: see Places
    booted,         \* setup() is over: connect() is called from run()
    failed,         \* _status is AIO_CONNECT_FAILED
    wifi,           \* WiFi.status() is WL_CONNECTED
    open,           \* the client's socket is open
    sub, retry,     \* connect(): the subscription in hand, how often it was sent
    told,           \* what connect() has learnt on this socket: see Lessons
    buffer,         \* the set point in the last packet written or read, or None
    lo, stored,     \* settemperature_lo, and what loadSettings() would make it
    toServer, toClient,      \* packets on their way
    session, subscribed,     \* the broker's side of the socket
    feed,           \* the value of the feed
    fresh           \* the last message the feed had for the sketch was handled

client == <<pc, booted, failed, sub, retry, told, buffer>>
broker == <<session, subscribed, feed>>
net == <<wifi, open, toServer, toClient>>
vars == <<client, lo, stored, net, broker, fresh>>

Places ==
    {"poll",      \* setup() or run() calls mqttStatus()
     "connack",   \* connect() waits for CONNACK
     "suback",    \* connect() waits for SUBACK
     "packets",   \* processPackets()
     "pong",      \* ping() waits for PINGRESP
     "trail",     \* processPackets() in the rest of a PINGRESP, which has none
     "pongtrail", \* ping() in it
     "loop"}      \* the sketch: control and buttons
Lessons == {"nothing", "accepted", "subscribed"}
Subs == 1 .. NumSubs
None == -1

Packet(kind, n) == <<kind, n>>
Kind(p) == p[1]
Number(p) == p[2]
Subscribe(s) == Packet("subscribe", s)
Setpoint(v) == Packet("publish", v)

ToServer ==
    ({"subscribe"} \X Subs) \cup ({"publish"} \X Values) \cup ({"connect", "pingreq"} \X {0})
\* CONNACK carries 0 for accepted, 3 for the codes that mean later (3, 6), 5 for
\* those that mean never (1, 2, 4, 5, 7).
ToClient ==
    ({"publish"} \X Values) \cup ({"connack"} \X {0, 3, 5}) \cup ({"suback", "pingresp"} \X {0})

TypeOK ==
    /\ pc \in Places /\ booted \in BOOLEAN /\ failed \in BOOLEAN
    /\ wifi \in BOOLEAN /\ open \in BOOLEAN
    /\ sub \in Subs /\ retry \in 1 .. MaxRetries
    /\ told \in Lessons
    /\ buffer \in Values \cup {None}
    /\ lo \in Values /\ stored \in Values /\ feed \in Values
    /\ toServer \in Seq(ToServer) /\ toClient \in Seq(ToClient)
    /\ session \in {"none", "open", "refused"} /\ subscribed \subseteq Subs
    /\ fresh \in BOOLEAN

Init ==
    /\ pc = "poll" /\ booted = FALSE /\ failed = FALSE
    /\ wifi = FALSE /\ open = FALSE
    /\ sub = 1 /\ retry = 1 /\ told = "nothing"
    /\ buffer = None
    /\ lo = Default /\ stored \in Values
    /\ toServer = <<>> /\ toClient = <<>>
    /\ session = "none" /\ subscribed = {}
    /\ feed \in Values
    /\ fresh = FALSE

-----------------------------------------------------------------------------
(* mqttStatus() and connect().  A poll that cannot connect changes nothing *)
(* and is repeated.                                                        *)

\* setup() asks the network first, and remembers what it last learnt in
\* _status; run() asks mqttStatus() only.
NoNetwork ==
    /\ pc = "poll" /\ ~booted /\ ~wifi /\ failed
    /\ failed' = FALSE
    /\ UNCHANGED <<pc, booted, sub, retry, told, buffer, lo, stored, net, broker, fresh>>

MayPoll == pc = "poll" /\ (booted \/ (wifi /\ ~failed))

\* AIO_CONNECTED ends setup(), which goes on to load the set points; run() goes
\* on to processPackets().
Proceed ==
    /\ booted' = TRUE
    /\ IF booted THEN pc' = "packets" /\ lo' = lo ELSE pc' = "loop" /\ lo' = stored

\* An open socket counts as a connection, whatever connect() returned.
AlreadyOpen ==
    /\ MayPoll /\ open
    /\ Proceed
    /\ UNCHANGED <<failed, sub, retry, told, buffer, stored, net, broker, fresh>>

\* connectServer() and the CONNECT packet.
Connect ==
    /\ MayPoll /\ ~open /\ wifi
    /\ open' = TRUE
    /\ toServer' = <<Packet("connect", 0)>> /\ toClient' = <<>>
    /\ session' = "none" /\ subscribed' = {}
    /\ told' = "nothing" /\ buffer' = None /\ fresh' = FALSE
    /\ pc' = "connack"
    /\ UNCHANGED <<booted, failed, sub, retry, lo, stored, wifi, feed>>

GivesUp == pc' = "poll" /\ UNCHANGED <<booted, lo>>

Silence == toClient = <<>> \/ ~open

ConnackTimesOut ==
    /\ pc = "connack" /\ Silence
    /\ GivesUp
    /\ UNCHANGED <<failed, sub, retry, told, buffer, stored, net, broker, fresh>>

Reads(kind) == open /\ toClient # <<>> /\ Kind(Head(toClient)) = kind

\* Only setup() keeps a refusal; run() tries again at once.
ReadConnack ==
    /\ pc = "connack" /\ Reads("connack")
    /\ toClient' = Tail(toClient)
    /\ LET code == Number(Head(toClient)) IN
       IF code = 0
       THEN /\ told' = "accepted" /\ pc' = "suback"
            /\ sub' = 1 /\ retry' = 1
            /\ toServer' = Append(toServer, Subscribe(1))
            /\ UNCHANGED <<booted, failed, lo>>
       ELSE /\ GivesUp
            /\ failed' = (code = 5 /\ ~booted)
            /\ UNCHANGED <<told, sub, retry, toServer>>
    /\ UNCHANGED <<buffer, stored, wifi, open, broker, fresh>>

\* Mutant: there is no limit to the tries.
SubackTimesOut_NoLimit ==
    /\ pc = "suback" /\ Silence
    /\ IF open
       THEN /\ retry' = retry + 1 /\ toServer' = Append(toServer, Subscribe(sub))
            /\ buffer' = None
            /\ UNCHANGED <<pc, booted, lo>>
       ELSE GivesUp /\ UNCHANGED <<retry, toServer, buffer>>
    /\ UNCHANGED <<failed, sub, told, stored, wifi, open, toClient, broker, fresh>>
SubackTimesOut ==
    /\ pc = "suback" /\ Silence
    /\ IF open /\ retry < MaxRetries
       THEN /\ retry' = retry + 1 /\ toServer' = Append(toServer, Subscribe(sub))
            /\ buffer' = None
            /\ UNCHANGED <<pc, booted, lo>>
       ELSE GivesUp /\ UNCHANGED <<retry, toServer, buffer>>
    /\ UNCHANGED <<failed, sub, told, stored, wifi, open, toClient, broker, fresh>>

\* Mutant: the last subscription is left out.
ReadSuback_OffByOne ==
    /\ pc = "suback" /\ Reads("suback")
    /\ toClient' = Tail(toClient)
    /\ buffer' = None
    /\ IF sub + 1 < NumSubs
       THEN /\ sub' = sub + 1 /\ retry' = 1
            /\ toServer' = Append(toServer, Subscribe(sub + 1))
            /\ UNCHANGED <<pc, booted, lo, told>>
       ELSE /\ told' = "subscribed" /\ Proceed
            /\ UNCHANGED <<sub, retry, toServer>>
    /\ UNCHANGED <<failed, stored, wifi, open, broker, fresh>>

\* The packet identifier is not compared: the answer to an earlier try for the
\* last subscription will do.
ReadSuback ==
    /\ pc = "suback" /\ Reads("suback")
    /\ toClient' = Tail(toClient)
    /\ buffer' = None
    /\ IF sub < NumSubs
       THEN /\ sub' = sub + 1 /\ retry' = 1
            /\ toServer' = Append(toServer, Subscribe(sub + 1))
            /\ UNCHANGED <<pc, booted, lo, told>>
       ELSE /\ told' = "subscribed" /\ Proceed
            /\ UNCHANGED <<sub, retry, toServer>>
    /\ UNCHANGED <<failed, stored, wifi, open, broker, fresh>>

-----------------------------------------------------------------------------
(* Packets beside the one that is waited for.                              *)

\* processPacketsUntil() drops what is not SUBACK, or PINGRESP; the packet
\* stays in the buffer.
DropPacket ==
    /\ (pc = "suback" /\ ~Reads("suback")) \/ (pc = "pong" /\ ~Reads("pingresp"))
    /\ open /\ toClient # <<>>
    /\ toClient' = Tail(toClient)
    /\ IF Kind(Head(toClient)) = "publish"
       THEN buffer' = Number(Head(toClient)) /\ fresh' = FALSE
       ELSE buffer' = None /\ UNCHANGED fresh
    /\ UNCHANGED <<pc, booted, failed, sub, retry, told, lo, stored, wifi, open, toServer, broker>>

\* A packet of another feed is read, or written by the sketch.
OtherTraffic ==
    /\ pc \in {"suback", "packets", "pong", "loop"} /\ buffer # None
    /\ buffer' = None
    /\ UNCHANGED <<pc, booted, failed, sub, retry, told, lo, stored, net, broker, fresh>>

\* readPacket() asked for no bytes never has enough: it reads until nothing has
\* come for the whole timeout, over the rest of the packet in the buffer.
ReadPingresp ==
    /\ pc \in {"packets", "pong"} /\ Reads("pingresp")
    /\ toClient' = Tail(toClient)
    /\ pc' = IF pc = "pong" THEN "pongtrail" ELSE "trail"
    /\ UNCHANGED <<booted, failed, sub, retry, told, buffer, lo, stored, wifi, open, toServer, broker, fresh>>

ReadTrail ==
    /\ pc \in {"trail", "pongtrail"} /\ open /\ toClient # <<>>
    /\ toClient' = Tail(toClient)
    /\ buffer' = None
    /\ fresh' = (fresh /\ Kind(Head(toClient)) # "publish")
    /\ UNCHANGED <<pc, booted, failed, sub, retry, told, lo, stored, wifi, open, toServer, broker>>

-----------------------------------------------------------------------------
(* run() and the sketch.                                                   *)

\* Mutant of handleSetTempLo(): the message is compared with the EEPROM.
HandleSetTempLo_ComparesStored(v) ==
    IF v # stored THEN lo' = v /\ stored' = v ELSE UNCHANGED <<lo, stored>>

HandleSetTempLo(v) == lo' = v /\ stored' = IF v # lo THEN v ELSE stored

\* processPackets() hands the set point over; other packets match no topic.
ReadMessage ==
    /\ pc = "packets" /\ open /\ toClient # <<>> /\ ~Reads("pingresp")
    /\ toClient' = Tail(toClient)
    /\ IF Kind(Head(toClient)) = "publish"
       THEN /\ HandleSetTempLo(Number(Head(toClient)))
            /\ buffer' = Number(Head(toClient)) /\ fresh' = TRUE
       ELSE buffer' = None /\ UNCHANGED <<lo, stored, fresh>>
    /\ UNCHANGED <<pc, booted, failed, sub, retry, told, wifi, open, toServer, broker>>

\* A late PINGRESP is taken for what the buffer held before: the message is
\* handled once more.
TrailEnds ==
    /\ pc = "trail" /\ Silence
    /\ pc' = "packets"
    /\ IF buffer # None THEN HandleSetTempLo(buffer) ELSE UNCHANGED <<lo, stored>>
    /\ UNCHANGED <<booted, failed, sub, retry, told, buffer, net, broker, fresh>>

\* processPackets() is over and no ping is due.
RunReturns ==
    /\ pc = "packets"
    /\ pc' = "loop"
    /\ UNCHANGED <<booted, failed, sub, retry, told, buffer, lo, stored, net, broker, fresh>>

\* Bound: a ping goes out when the answer to the last is not still under way.
NoPingUnderWay ==
    /\ \A i \in DOMAIN toServer : Kind(toServer[i]) # "pingreq"
    /\ \A i \in DOMAIN toClient : Kind(toClient[i]) # "pingresp"

Ping ==
    /\ pc = "packets" /\ open /\ NoPingUnderWay
    /\ pc' = "pong"
    /\ toServer' = Append(toServer, Packet("pingreq", 0))
    /\ UNCHANGED <<booted, failed, sub, retry, told, buffer, lo, stored, wifi, open, toClient, broker, fresh>>

\* The result of ping() is not looked at.
PingReturns ==
    /\ pc \in {"pong", "pongtrail"} /\ Silence
    /\ pc' = "loop"
    /\ UNCHANGED <<booted, failed, sub, retry, told, buffer, lo, stored, net, broker, fresh>>

\* handleButtons(): one edge of INCR or DECR.  The EEPROM is left alone, and
\* publish() into a closed socket goes unnoticed.
Press(step) ==
    /\ pc = "loop" /\ lo + step \in Values
    /\ lo' = lo + step
    /\ buffer' = lo'
    /\ IF open THEN toServer' = Append(toServer, Setpoint(lo')) /\ UNCHANGED fresh
               ELSE fresh' = FALSE /\ UNCHANGED toServer
    /\ UNCHANGED <<pc, booted, failed, sub, retry, told, stored, wifi, open, toClient, broker>>

LoopEnds ==
    /\ pc = "loop"
    /\ pc' = "poll"
    /\ UNCHANGED <<booted, failed, sub, retry, told, buffer, lo, stored, net, broker, fresh>>

-----------------------------------------------------------------------------
(* Adafruit IO.  It serves one packet after the other and grants every     *)
(* subscription of a session it has accepted.                              *)

\* The feed takes a value and passes it on to the sketch if it is subscribed.
FeedTakes(v) ==
    /\ feed' = v
    /\ IF LoSub \in subscribed
       THEN toClient' = Append(toClient, Setpoint(v)) /\ UNCHANGED fresh
       ELSE fresh' = FALSE /\ UNCHANGED toClient

Serves(kind) == toServer # <<>> /\ Kind(Head(toServer)) = kind /\ toServer' = Tail(toServer)

ServeConnect ==
    /\ Serves("connect")
    /\ \E code \in {0, 3, 5} :
          /\ session' = IF code = 0 THEN "open" ELSE "refused"
          /\ toClient' = Append(toClient, Packet("connack", code))
    /\ UNCHANGED <<client, lo, stored, wifi, open, subscribed, feed, fresh>>

ServeSubscribe ==
    /\ session = "open" /\ Serves("subscribe")
    /\ subscribed' = subscribed \cup {Number(Head(toServer))}
    /\ toClient' = Append(toClient, Packet("suback", 0))
    /\ UNCHANGED <<client, lo, stored, wifi, open, session, feed, fresh>>

ServePing ==
    /\ session = "open" /\ Serves("pingreq")
    /\ toClient' = Append(toClient, Packet("pingresp", 0))
    /\ UNCHANGED <<client, lo, stored, wifi, open, broker, fresh>>

ServePublish ==
    /\ session = "open" /\ Serves("publish")
    /\ FeedTakes(Number(Head(toServer)))
    /\ UNCHANGED <<client, lo, stored, wifi, open, session, subscribed>>

Dashboard ==
    /\ \E v \in Values : FeedTakes(v)
    /\ UNCHANGED <<client, lo, stored, wifi, open, toServer, session, subscribed>>

-----------------------------------------------------------------------------
(* Power and network.                                                      *)

SocketGone ==
    /\ open' = FALSE /\ toServer' = <<>> /\ toClient' = <<>>
    /\ session' = "none" /\ subscribed' = {}
    /\ fresh' = FALSE

\* The server hangs up on a client it has refused.
ServerCloses ==
    /\ session = "refused" /\ open
    /\ SocketGone
    /\ UNCHANGED <<client, lo, stored, wifi, feed>>

SocketDies ==
    /\ open
    /\ SocketGone
    /\ UNCHANGED <<client, lo, stored, wifi, feed>>

WifiDrops ==
    /\ wifi
    /\ wifi' = FALSE
    /\ SocketGone
    /\ UNCHANGED <<client, lo, stored, feed>>

WifiReturns ==
    /\ ~wifi
    /\ wifi' = TRUE
    /\ UNCHANGED <<client, lo, stored, open, toServer, toClient, broker, fresh>>

\* Power failures inside commit() are the business of ThermoCentral.
PowerCut ==
    /\ pc' = "poll" /\ booted' = FALSE /\ failed' = FALSE
    /\ wifi' = FALSE
    /\ sub' = 1 /\ retry' = 1 /\ told' = "nothing" /\ buffer' = None
    /\ lo' = Default
    /\ SocketGone
    /\ UNCHANGED <<stored, feed>>

-----------------------------------------------------------------------------

Waits ==
    \/ ConnackTimesOut \/ ReadConnack \/ SubackTimesOut \/ ReadSuback
    \/ DropPacket \/ ReadTrail \/ TrailEnds \/ PingReturns

Run == NoNetwork \/ AlreadyOpen \/ Connect \/ RunReturns \/ LoopEnds

Reading == ReadMessage \/ ReadPingresp

Serve == ServeConnect \/ ServeSubscribe \/ ServePing \/ ServePublish

\* What the user, the network and the power do.
Disturbance ==
    \/ \E step \in {-1, 1} : Press(step)
    \/ Dashboard \/ SocketDies \/ WifiDrops \/ PowerCut

Response ==
    \/ Waits \/ Run \/ Reading \/ OtherTraffic \/ Ping
    \/ Serve \/ ServerCloses \/ WifiReturns

Next == Disturbance \/ Response

Spec == Init /\ [][Next]_vars

\* loop() is called for ever and every wait ends; a run() finds what is there to
\* be read; Adafruit IO answers, and the Wi-Fi returns.
Fairness ==
    /\ WF_vars(Waits) /\ WF_vars(Run) /\ SF_vars(Reading)
    /\ WF_vars(Serve) /\ WF_vars(ServerCloses) /\ WF_vars(WifiReturns)

-----------------------------------------------------------------------------
(* Properties.                                                             *)

Underway(s) == \E i \in DOMAIN toServer : toServer[i] = Subscribe(s)

\* When connect() has returned 0 no feed has been forgotten, although the
\* answers to repeated tries are counted for other subscriptions: each is known
\* to the server, or on its way there.
NoFeedForgotten ==
    told = "subscribed" /\ open => \A s \in Subs : s \in subscribed \/ Underway(s)

NoSetpoint(queue) == \A i \in DOMAIN queue : Kind(queue[i]) # "publish"

\* Whatever order presses, echoes, the dashboard and late answers to pings came
\* in, and however often a message was handled once more: when no set point is
\* under way either side, and the last one the feed had for the sketch has been
\* handled, the sketch and its feed have the same.
AgreesWhenQuiet ==
    fresh /\ NoSetpoint(toServer) /\ NoSetpoint(toClient) => lo = feed

\* What Adafruit_MQTT.h says of connected(): true if connected to the MQTT
\* server.  So run() handles packets on an open socket only if the server has
\* accepted the connection.
ConnectedMeansAccepted ==
    pc = "packets" /\ open => told # "nothing"
=============================================================================
