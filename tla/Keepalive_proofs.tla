--------------------------- MODULE Keepalive_proofs ---------------------------
(***************************************************************************)
(* Theorems about Keepalive for every choice of its constants.             *)
(***************************************************************************)
EXTENDS Keepalive, TLAPS

-----------------------------------------------------------------------------
(* The times.  While connected no activity time outgrows a period, because *)
(* each call of loop() either finds it within the keepalive or resets it;  *)
(* the silence of the peer is at most a period older than the activity,    *)
(* since a second overdue period ends in TimesOut.  A stalled read adds    *)
(* its own wait, and only a peer that is not alive stalls.                 *)

TimesInv ==
    /\ state = "connecting" =>
          /\ wait <= MQTT_SOCKET_TIMEOUT
          /\ lastInActivity <= wait /\ lastOutActivity <= wait
    /\ state = "online" =>
          /\ wait <= MaxPass
          /\ lastInActivity <= MQTT_KEEPALIVE + MQTT_SOCKET_TIMEOUT + wait
          /\ lastOutActivity <= MQTT_KEEPALIVE + MQTT_SOCKET_TIMEOUT + wait
    /\ state = "stalled" =>
          /\ wait <= MQTT_SOCKET_TIMEOUT
          /\ lastInActivity <= MQTT_KEEPALIVE + wait
          /\ lastOutActivity <= MQTT_KEEPALIVE + wait
QuietInv ==
    state \in {"online", "stalled"} =>
        /\ quiet <= lastInActivity + Period
        /\ ~pingOutstanding => quiet <= lastInActivity
PeerInv ==
    /\ torn \/ state = "stalled" => peer # "alive"
    /\ owed # None => peer = "alive" /\ state \in {"connecting", "online"}
    /\ peer = "alive" => heard <= lastOutActivity
HeardInv ==
    peer = "alive" /\ state = "online" /\ MQTT_SOCKET_TIMEOUT <= MQTT_KEEPALIVE =>
        lastOutActivity <= MQTT_KEEPALIVE + wait
IInv == TypeOK /\ TimesInv /\ QuietInv /\ PeerInv /\ HeardInv

USE TimesAssumption

LEMMA InitIInv == Init => IInv
<1> SUFFICES ASSUME Init PROVE IInv
  OBVIOUS
<1>a. toClient \in Seq(Packets)
  BY DEF Init
<1>b. lastInActivity \in 0 .. Period /\ lastOutActivity \in 0 .. Period
  BY DEF Init, Period
<1>1. TypeOK
  BY <1>a, <1>b DEF Init, TypeOK, States, Peers
<1>2. TimesInv /\ QuietInv /\ PeerInv /\ HeardInv
  BY DEF Init, TimesInv, QuietInv, PeerInv, HeardInv, None
<1> QED BY <1>1, <1>2 DEF IInv

(* What every call of loop() that does not time out leaves of the times.   *)
LoopTimes(reads) ==
    /\ lastInActivity' \in 0 .. MQTT_KEEPALIVE
    /\ lastOutActivity' \in 0 .. MQTT_KEEPALIVE
    /\ owed' \in 0 .. MaxDelay \cup {None}
    /\ owed' # None => peer = "alive"
    /\ wait' = 0 /\ heard' \in Nat /\ quiet' \in Nat
    /\ peer = "alive" => heard' <= lastOutActivity'
    /\ quiet' <= lastInActivity' + Period
    /\ reads \/ ~(pingOutstanding \/ Overdue) => quiet' <= lastInActivity'

LEMMA AfterLoop ==
    ASSUME IInv, InLoop, NEW reads \in BOOLEAN, NEW writes \in BOOLEAN, After(reads, writes)
    PROVE  LoopTimes(reads)
BY DEF IInv, TypeOK, TimesInv, QuietInv, PeerInv, InLoop, Ping, After, Overdue, Period, None,
       LoopTimes

(* What a call of loop() that goes through must still show.                *)
LEMMA LoopTimesSuffice ==
    ASSUME IInv, NEW reads \in BOOLEAN, LoopTimes(reads), peer' = peer,
           toClient' \in Seq(Packets), torn' \in BOOLEAN, pingOutstanding' \in BOOLEAN,
           \/ state' = "online" /\ (torn' => torn)
           \/ state' = "stalled" /\ peer # "alive" /\ ~torn',
           reads \/ (pingOutstanding' <=> pingOutstanding \/ Overdue)
    PROVE  IInv'
<1>1. lastInActivity' \in 0 .. Period /\ lastOutActivity' \in 0 .. Period
  BY DEF LoopTimes, Period
<1>2. state' \in States /\ peer' \in Peers
  BY DEF States, IInv, TypeOK
<1>3. TypeOK'
  BY <1>1, <1>2 DEF LoopTimes, TypeOK, None
<1>4. TimesInv'
  BY DEF LoopTimes, TimesInv
<1>5. QuietInv'
  BY DEF LoopTimes, QuietInv
<1>6. PeerInv'
  <2>1. torn' \/ state' = "stalled" => peer' # "alive"
    BY DEF IInv, PeerInv
  <2>2. owed' # None => peer' = "alive" /\ state' \in {"connecting", "online"}
    BY <2>1 DEF LoopTimes
  <2>3. peer' = "alive" => heard' <= lastOutActivity'
    BY DEF LoopTimes
  <2> QED BY <2>1, <2>2, <2>3 DEF PeerInv, None
<1>7. HeardInv'
  BY DEF LoopTimes, HeardInv
<1> QED BY <1>3, <1>4, <1>5, <1>6, <1>7 DEF IInv

LEMMA LoopKeepsIInv ==
    ASSUME IInv, LoopReadsNothing \/ LoopReadsMessage \/ LoopSkipsMessage \/ LoopReadsPingresp
    PROVE  IInv'
<1>1. /\ toClient \in Seq(Packets) /\ torn \in BOOLEAN /\ pingOutstanding \in BOOLEAN
      /\ torn => peer # "alive"
  BY DEF IInv, TypeOK, PeerInv
<1>2. CASE LoopReadsNothing
  <2>1. InLoop /\ After(FALSE, FALSE)
    BY <1>2 DEF LoopReadsNothing
  <2>2. LoopTimes(FALSE)
    BY <2>1, AfterLoop
  <2>3. \/ state' = "online" /\ (torn' => torn)
        \/ state' = "stalled" /\ peer # "alive" /\ ~torn'
    BY <1>1, <1>2 DEF LoopReadsNothing
  <2>4. pingOutstanding' <=> pingOutstanding \/ Overdue
    BY <1>2 DEF LoopReadsNothing
  <2>5. peer' = peer /\ toClient' = toClient /\ torn' \in BOOLEAN /\ pingOutstanding' \in BOOLEAN
    BY <1>2 DEF LoopReadsNothing
  <2> QED BY <1>1, <2>2, <2>3, <2>4, <2>5, LoopTimesSuffice
<1>3. CASE LoopReadsMessage
  <2>1. LoopTimes(TRUE)
    BY <1>3, AfterLoop DEF LoopReadsMessage
  <2>2. toClient' \in Seq(Packets)
    BY <1>1, <1>3 DEF LoopReadsMessage
  <2>3. /\ peer' = peer /\ state' = "online" /\ torn' = torn /\ pingOutstanding' \in BOOLEAN
    BY <1>3 DEF LoopReadsMessage, InLoop
  <2> QED BY <1>1, <2>1, <2>2, <2>3, LoopTimesSuffice
<1>4. CASE LoopSkipsMessage
  <2>1. LoopTimes(FALSE)
    BY <1>4, AfterLoop DEF LoopSkipsMessage
  <2>2. toClient' \in Seq(Packets)
    BY <1>1, <1>4 DEF LoopSkipsMessage
  <2>3. /\ peer' = peer /\ state' = "online" /\ torn' = torn /\ pingOutstanding' \in BOOLEAN
    BY <1>4 DEF LoopSkipsMessage, InLoop
  <2>4. pingOutstanding' <=> pingOutstanding \/ Overdue
    BY <1>4 DEF LoopSkipsMessage
  <2> QED BY <1>1, <2>1, <2>2, <2>3, <2>4, LoopTimesSuffice
<1>5. CASE LoopReadsPingresp
  <2>1. LoopTimes(TRUE)
    BY <1>5, AfterLoop DEF LoopReadsPingresp
  <2>2. toClient' \in Seq(Packets)
    BY <1>1, <1>5 DEF LoopReadsPingresp
  <2>3. /\ peer' = peer /\ state' = "online" /\ torn' = torn /\ pingOutstanding' \in BOOLEAN
    BY <1>5 DEF LoopReadsPingresp, InLoop
  <2> QED BY <1>1, <2>1, <2>2, <2>3, LoopTimesSuffice
<1> QED BY <1>2, <1>3, <1>4, <1>5

LEMMA TickKeepsIInv == ASSUME IInv, Tick PROVE IInv'
<1> USE DEF IInv, Tick, Patience
<1>a. /\ lastInActivity \in Int /\ lastInActivity >= 0
      /\ lastOutActivity \in Int /\ lastOutActivity >= 0
      /\ wait \in Nat /\ heard \in Nat /\ quiet \in Nat
      /\ owed \in 0 .. MaxDelay \cup {None}
      /\ state \in {"connecting", "online", "stalled"}
  BY DEF TypeOK, States, Period
<1>1. lastInActivity' \in 0 .. Period /\ lastOutActivity' \in 0 .. Period
  BY <1>a DEF TimesInv, Period
<1>2. owed' \in 0 .. MaxDelay \cup {None} /\ (owed' = None <=> owed = None)
  BY <1>a DEF None
<1>b. wait' \in Nat /\ heard' \in Nat /\ quiet' \in Nat
  BY <1>a
<1>c. state' \in States /\ peer' \in Peers /\ toClient' \in Seq(Packets)
      /\ pingOutstanding' \in BOOLEAN /\ torn' \in BOOLEAN
  BY DEF TypeOK
<1>3. TypeOK'
  BY ONLY <1>1, <1>2, <1>b, <1>c DEF TypeOK
<1>4. TimesInv'
  BY <1>a DEF TimesInv
<1>5. QuietInv'
  BY <1>a DEF QuietInv, Period
<1>6. PeerInv'
  BY <1>a, <1>2 DEF PeerInv
<1>7. HeardInv'
  BY <1>a DEF HeardInv
<1> QED BY <1>3, <1>4, <1>5, <1>6, <1>7

LEMMA PeerKeepsIInv == ASSUME IInv, Peer PROVE IInv'
<1> USE DEF IInv, TypeOK, TimesInv, QuietInv, PeerInv, HeardInv, times, None, Packets, Peers
<1>1. CASE Answer
  BY <1>1 DEF Answer
<1>2. CASE Deliver
  BY <1>2 DEF Deliver
<1>3. CASE PeerFallsSilent
  BY <1>3 DEF PeerFallsSilent
<1>4. CASE SocketCloses
  BY <1>4 DEF SocketCloses
<1> QED BY <1>1, <1>2, <1>3, <1>4 DEF Peer

LEMMA ClientKeepsIInv == ASSUME IInv, Client PROVE IInv'
<1> USE DEF IInv, TypeOK, TimesInv, QuietInv, PeerInv, HeardInv, times, None, Packets, Peers, States, Period
<1>1. CASE Connect
  <2>1. toClient' \in Seq(Packets) /\ 0 \in 0 .. Period /\ 0 \in 0 .. MaxDelay
    BY <1>1 DEF Connect
  <2>2. TypeOK'
    BY ONLY <1>1, <2>1, TypeOK DEF Connect, TypeOK, States, Peers
  <2>3. TimesInv' /\ QuietInv' /\ PeerInv' /\ HeardInv'
    BY <1>1 DEF Connect
  <2> QED BY <2>2, <2>3
<1>2. CASE Connected
  <2>1. toClient' \in Seq(Packets) /\ 0 \in 0 .. Period
    BY <1>2 DEF Connected
  <2>2. TypeOK'
    BY ONLY <1>2, <2>1, TypeOK DEF Connected, TypeOK, States
  <2>3. TimesInv' /\ QuietInv' /\ PeerInv' /\ HeardInv'
    BY <1>2 DEF Connected
  <2> QED BY <2>2, <2>3
<1>3. CASE ConnectFails
  BY <1>3 DEF ConnectFails
<1>4. CASE NoticeClosed
  BY <1>4 DEF NoticeClosed
<1>5. CASE TimesOut
  BY <1>5 DEF TimesOut
<1>6. CASE StallEnds
  BY <1>6 DEF StallEnds
<1>7. CASE Publish
  BY <1>7 DEF Publish
<1> QED BY <1>1, <1>2, <1>3, <1>4, <1>5, <1>6, <1>7, LoopKeepsIInv DEF Client, Loop

LEMMA StepKeepsIInv == IInv /\ [Next]_vars => IInv'
<1> SUFFICES ASSUME IInv, [Next]_vars PROVE IInv'
  OBVIOUS
<1>1. CASE Next
  BY <1>1, TickKeepsIInv, PeerKeepsIInv, ClientKeepsIInv DEF Next
<1>2. CASE UNCHANGED vars
  BY <1>2 DEF vars, times, IInv, TypeOK, TimesInv, QuietInv, PeerInv, HeardInv
<1> QED BY <1>1, <1>2

(* The invariant holds in every state of the session.                      *)
THEOREM IInvAlways == Spec => []IInv
BY InitIInv, StepKeepsIInv, PTL DEF Spec

-----------------------------------------------------------------------------

(* Every variable keeps its type; the two activity times never outgrow a   *)
(* period, a keepalive with a pass and a stalled read on top of it.        *)
THEOREM TypeCorrect == Spec => []TypeOK
<1>1. IInv => TypeOK
  BY DEF IInv
<1> QED BY <1>1, IInvAlways, PTL

(* A broker that is alive hears from the client within one and a half      *)
(* keepalives: loop() looks at the time of the last write as well as at    *)
(* that of the last read, and a stalled read never happens on a live link. *)
THEOREM BrokerHearsInTime == Spec => []BrokerHears
<1>1. IInv => BrokerHears
  <2> SUFFICES ASSUME IInv, Roomy, state = "online", peer = "alive"
               PROVE  2 * heard <= 3 * MQTT_KEEPALIVE
    BY DEF BrokerHears
  <2>1. heard <= MQTT_KEEPALIVE + wait
    BY DEF IInv, TypeOK, PeerInv, HeardInv, Roomy, Period
  <2>2. wait <= MaxPass
    BY DEF IInv, TimesInv
  <2>3. heard \in Nat /\ wait \in Nat
    BY DEF IInv, TypeOK
  <2> QED BY <2>1, <2>2, <2>3 DEF Roomy
<1> QED BY <1>1, IInvAlways, PTL

(* Whatever is published meanwhile, no connection outlives two periods     *)
(* without a packet that could be read.                                    *)
THEOREM DeadLinkIsFound == Spec => []DeadLinkFound
<1>1. IInv => DeadLinkFound
  BY DEF IInv, TypeOK, QuietInv, DeadLinkFound, Period
<1> QED BY <1>1, IInvAlways, PTL

-----------------------------------------------------------------------------
(* The answer to a ping.  While a peer that is alive owes it, no activity  *)
(* time is older than the request; once it waits in the socket, its place  *)
(* there bounds the passes before it is read, one packet in each.  Both    *)
(* end within the longest delay and one pass for each packet that may wait.*)

Longest == MaxDelay + (MaxBacklog + 1) * MaxPass
Younger(bound) == lastInActivity <= bound /\ lastOutActivity <= bound

AnswerAt(k) == toClient[k] = "PINGRESP" /\ Younger(Longest - k * MaxPass + wait)
PingInv ==
    /\ state = "connecting" => Len(toClient) <= 1 /\ (owed # None => toClient = <<>>)
    /\ state \in {"online", "stalled"} => Len(toClient) <= MaxBacklog + 1
    /\ state = "online" /\ owed # None => Younger(owed) /\ Len(toClient) <= MaxBacklog
    /\ state = "online" /\ peer = "alive" /\ pingOutstanding /\ owed = None =>
          \E k \in 1 .. Len(toClient) : AnswerAt(k)

LEMMA PassLess ==
    ASSUME NEW k \in Nat \ {0}
    PROVE  /\ (k - 1) * MaxPass = k * MaxPass - MaxPass
           /\ k * MaxPass >= MaxPass /\ k * MaxPass \in Nat
<1>1. (k - 1) * MaxPass = k * MaxPass - MaxPass
  OBVIOUS
<1>2. (k - 1) * MaxPass >= 0
  OBVIOUS
<1>3. k * MaxPass \in Nat
  OBVIOUS
<1> QED BY <1>1, <1>2, <1>3

LEMMA PlaceBound ==
    ASSUME NEW k \in Nat, k <= MaxBacklog + 1
    PROVE  k * MaxPass <= (MaxBacklog + 1) * MaxPass
<1>1. (MaxBacklog + 1 - k) * MaxPass >= 0
  <2>1. MaxBacklog + 1 - k \in Nat
    OBVIOUS
  <2> QED BY <2>1
<1>2. (MaxBacklog + 1 - k) * MaxPass = (MaxBacklog + 1) * MaxPass - k * MaxPass
  OBVIOUS
<1>3. k * MaxPass \in Int /\ (MaxBacklog + 1) * MaxPass \in Int
  OBVIOUS
<1> QED BY <1>1, <1>2, <1>3

LEMMA LenIsNat == ASSUME NEW q \in Seq(Packets) PROVE Len(q) \in Nat
OBVIOUS

LEMMA LongestType == Longest \in Nat
<1>1. (MaxBacklog + 1) * MaxPass \in Nat
  OBVIOUS
<1> QED BY <1>1 DEF Longest

LEMMA InitPingInv == Init => PingInv
BY DEF Init, PingInv

(* Time passes: a place in the socket costs no more than the pass it takes.*)
LEMMA TickKeepsPing == ASSUME IInv, PingInv, Tick PROVE PingInv'
<1>0. /\ lastInActivity \in Int /\ lastOutActivity \in Int /\ wait \in Int
      /\ owed \in Int /\ Longest \in Int
  BY LongestType DEF IInv, TypeOK, None, Period
<1>1. /\ state' = state /\ peer' = peer /\ toClient' = toClient
      /\ pingOutstanding' = pingOutstanding
      /\ owed' = IF owed = None THEN None ELSE owed + 1
      /\ lastInActivity' = lastInActivity + 1 /\ lastOutActivity' = lastOutActivity + 1
      /\ wait' = wait + 1
  BY DEF Tick
<1>2. owed' # None => owed # None
  BY <1>1
<1>3. owed' # None /\ Younger(owed) => Younger(owed)'
  BY <1>0, <1>1 DEF Younger
<1>4. ASSUME NEW k \in 1 .. Len(toClient), AnswerAt(k) PROVE AnswerAt(k)'
  <2>1. k * MaxPass \in Int
    BY <1>4, LenIsNat DEF IInv, TypeOK
  <2> QED BY <1>0, <1>1, <1>4, <2>1 DEF AnswerAt, Younger
<1>5. owed' = None => owed = None
  BY <1>0, <1>1 DEF IInv, TypeOK, None
<1> QED BY <1>1, <1>2, <1>3, <1>4, <1>5 DEF PingInv

(* A call of loop() that goes through reads the head of the socket, if there *)
(* is one: every other packet moves up by one place, for one pass.         *)
LEMMA LoopKeepsPing ==
    ASSUME IInv, PingInv, InLoop, NEW reads \in BOOLEAN, NEW writes \in BOOLEAN,
           After(reads, writes), peer' = peer,
           state' \in {"online", "stalled"}, state' = "stalled" => toClient = <<>>,
           toClient' = IF toClient = <<>> THEN <<>> ELSE Tail(toClient),
           \/ /\ toClient # <<>> => Head(toClient) # "PINGRESP"
              /\ pingOutstanding' = (pingOutstanding \/ Overdue)
           \/ pingOutstanding' = FALSE
    PROVE  PingInv'
<1>0. /\ lastInActivity \in Nat /\ lastOutActivity \in Nat /\ wait \in Nat /\ wait <= MaxPass
      /\ toClient \in Seq(Packets) /\ Longest \in Nat /\ wait' = 0
  BY LongestType DEF IInv, TypeOK, TimesInv, InLoop, After, Period
<1>1. /\ lastInActivity' <= lastInActivity /\ lastOutActivity' <= lastOutActivity
      /\ Overdue => lastInActivity' = 0 /\ lastOutActivity' = 0
      /\ lastInActivity' \in Nat /\ lastOutActivity' \in Nat
  BY <1>0 DEF After
<1>2. /\ Len(toClient) <= MaxBacklog + 1 /\ Len(toClient) \in Nat
      /\ owed # None => Younger(owed)
  BY <1>0, LenIsNat DEF PingInv, InLoop
<1>3. /\ toClient = <<>> => Len(toClient') = 0
      /\ toClient # <<>> => Len(toClient') = Len(toClient) - 1 /\ Len(toClient) > 0
  BY <1>0
<1>4. Len(toClient') <= MaxBacklog
  BY <1>2, <1>3
<1>5. ASSUME owed' # None PROVE Younger(owed)'
  <2>1. CASE Overdue
    <3>1. owed' = 0
      BY <1>5, <2>1 DEF InLoop, Ping
    <3> QED BY <1>1, <2>1, <3>1 DEF Younger
  <2>2. CASE ~Overdue
    <3>1. owed' = owed
      BY <2>2 DEF InLoop, Ping
    <3>2. owed \in Int
      BY DEF IInv, TypeOK, None
    <3> QED BY <1>0, <1>1, <1>2, <1>5, <3>1, <3>2 DEF Younger
  <2> QED BY <2>1, <2>2
<1>6. ASSUME peer' = "alive", pingOutstanding', owed' = None
      PROVE  \E k \in 1 .. Len(toClient') : AnswerAt(k)'
  <2>1. ~Overdue
    <3>1. Overdue => owed' = 0
      BY <1>6 DEF InLoop, Ping
    <3> QED BY <1>6, <3>1 DEF None
  <2>2. pingOutstanding /\ owed = None /\ state = "online" /\ peer = "alive"
    BY <1>6, <2>1 DEF InLoop, Ping
  <2>3. PICK k \in 1 .. Len(toClient) : AnswerAt(k)
    BY <2>2 DEF PingInv
  <2>4. toClient # <<>> /\ k # 1
    <3>1. toClient # <<>>
      BY <1>2, <1>3, <2>3, <1>0
    <3>2. Head(toClient) # "PINGRESP"
      BY <1>6, <3>1
    <3>3. Head(toClient) = toClient[1]
      BY <1>0, <3>1
    <3> QED BY <2>3, <3>1, <3>2, <3>3 DEF AnswerAt
  <2>5. k - 1 \in 1 .. Len(toClient')
    BY <1>2, <1>3, <2>3, <2>4
  <2>6. toClient'[k - 1] = toClient[k]
    BY <1>0, <1>2, <1>3, <2>3, <2>4, <2>5
  <2>7. /\ (k - 1) * MaxPass = k * MaxPass - MaxPass
        /\ k * MaxPass \in Nat
    BY <1>2, <2>3, PassLess
  <2>8. /\ lastInActivity <= Longest - k * MaxPass + wait
        /\ lastOutActivity <= Longest - k * MaxPass + wait
    BY <2>3 DEF AnswerAt, Younger
  <2>9. /\ lastInActivity' <= Longest - (k - 1) * MaxPass + wait'
        /\ lastOutActivity' <= Longest - (k - 1) * MaxPass + wait'
    BY <1>0, <1>1, <2>7, <2>8
  <2>10. toClient'[k - 1] = "PINGRESP"
    BY <2>3, <2>6 DEF AnswerAt
  <2>11. AnswerAt(k - 1)'
    BY <2>9, <2>10 DEF AnswerAt, Younger, Longest
  <2> QED BY <2>5, <2>11
<1>7. state' # "connecting" /\ Len(toClient') \in Nat /\ Len(toClient') <= MaxBacklog + 1
  BY <1>2, <1>3, <1>4
<1> QED BY <1>4, <1>5, <1>6, <1>7 DEF PingInv

LEMMA PeerKeepsPing == ASSUME IInv, PingInv, Peer PROVE PingInv'
<1>0. /\ toClient \in Seq(Packets) /\ Len(toClient) \in Nat
      /\ lastInActivity \in Nat /\ lastOutActivity \in Nat /\ Longest \in Nat
  BY LongestType, LenIsNat DEF IInv, TypeOK, Period
<1>1. CASE Answer
  <2>1. PICK packet \in Packets : toClient' = Append(toClient, packet)
                                  /\ (state = "online" => packet = "PINGRESP")
    BY <1>1, Zenon DEF Answer, Packets
  <2>2. /\ owed # None /\ owed' = None /\ state' = state /\ peer' = peer
        /\ state \in {"connecting", "online"}
        /\ UNCHANGED <<lastInActivity, lastOutActivity, wait, pingOutstanding>>
    BY <1>1 DEF Answer, times, IInv, PeerInv
  <2>3. PICK place \in Nat : place = Len(toClient) + 1
    BY <1>0
  <2>4. Len(toClient') = place /\ toClient'[place] = packet
    BY <1>0, <2>1, <2>3
  <2>5. state = "connecting" => Len(toClient') <= 1
    BY <1>0, <2>2, <2>3, <2>4 DEF PingInv
  <2>6. state = "online" => place <= MaxBacklog + 1 /\ Younger(owed)
    BY <1>0, <2>2, <2>3 DEF PingInv
  <2>7. ASSUME state = "online" PROVE AnswerAt(place)'
    <3>1. place * MaxPass <= (MaxBacklog + 1) * MaxPass
      BY <2>6, <2>7, PlaceBound
    <3>2. place * MaxPass \in Int /\ (MaxBacklog + 1) * MaxPass \in Int
      OBVIOUS
    <3>3. owed \in Int /\ owed <= MaxDelay /\ wait \in Nat
      BY <2>2 DEF IInv, TypeOK
    <3>4. Younger(Longest - place * MaxPass + wait)
      BY <1>0, <2>6, <2>7, <3>1, <3>2, <3>3 DEF Younger, Longest
    <3> QED BY <2>1, <2>2, <2>4, <2>7, <3>4 DEF AnswerAt, Younger, Longest
  <2>8. state' = "online" => place \in 1 .. Len(toClient') /\ AnswerAt(place)'
    BY <2>2, <2>3, <2>4, <2>7, <1>0
  <2>9. state' # "stalled" /\ owed' = None
    BY <2>2
  <2>10. state' = "online" => Len(toClient') <= MaxBacklog + 1
    BY <2>2, <2>4, <2>6
  <2> QED BY <2>2, <2>5, <2>8, <2>9, <2>10 DEF PingInv
<1>2. CASE Deliver
  <2>1. PICK packet \in Packets : toClient' = Append(toClient, packet)
    BY <1>2, Zenon DEF Deliver, Packets
  <2>2. /\ state = "online" /\ Len(toClient) < MaxBacklog
        /\ UNCHANGED <<state, peer, pingOutstanding, owed, lastInActivity, lastOutActivity, wait>>
    BY <1>2 DEF Deliver, times
  <2>3. Len(toClient') = Len(toClient) + 1
    BY <1>0, <2>1
  <2>4. Len(toClient') <= MaxBacklog
    BY <1>0, <2>2, <2>3
  <2>5. ASSUME NEW k \in 1 .. Len(toClient), AnswerAt(k)
        PROVE  k \in 1 .. Len(toClient') /\ AnswerAt(k)'
    <3>1. toClient'[k] = toClient[k]
      BY <1>0, <2>1, <2>5
    <3> QED BY <1>0, <2>2, <2>3, <2>5, <3>1 DEF AnswerAt, Younger, Longest
  <2>6. Len(toClient') <= MaxBacklog + 1
    BY <1>0, <2>3, <2>4
  <2>7. state' = "online" /\ (owed' # None => Younger(owed)')
    BY <2>2 DEF PingInv, Younger
  <2> QED BY <2>2, <2>4, <2>5, <2>6, <2>7 DEF PingInv
<1>3. CASE PeerFallsSilent
  BY <1>0, <1>3 DEF PeerFallsSilent, PingInv, times
<1>4. CASE SocketCloses
  BY <1>0, <1>4 DEF SocketCloses, PingInv, times
<1> QED BY <1>1, <1>2, <1>3, <1>4 DEF Peer

LEMMA ClientKeepsPing == ASSUME IInv, PingInv, Client PROVE PingInv'
<1>0. /\ toClient \in Seq(Packets) /\ Len(toClient) \in Nat
      /\ lastInActivity \in Nat /\ lastOutActivity \in Nat /\ Longest \in Nat /\ wait \in Nat
  BY LongestType, LenIsNat DEF IInv, TypeOK, Period
<1>1. CASE Connect
  BY <1>1 DEF Connect, PingInv
<1>2. CASE Connected
  <2>1. owed = None /\ Len(toClient) <= 1 /\ toClient # <<>>
    BY <1>2 DEF Connected, PingInv
  <2>2. owed' = None /\ ~pingOutstanding' /\ state' = "online" /\ toClient' = Tail(toClient)
    BY <1>2, <2>1 DEF Connected
  <2>3. Len(Tail(toClient)) = Len(toClient) - 1
    BY <1>0, <2>1
  <2>4. Len(toClient') <= MaxBacklog + 1
    BY <1>0, <2>1, <2>2, <2>3
  <2> QED BY <2>2, <2>4 DEF PingInv
<1>3. CASE ConnectFails
  BY <1>3 DEF ConnectFails, PingInv
<1>4. CASE NoticeClosed
  BY <1>4 DEF NoticeClosed, PingInv
<1>5. CASE TimesOut
  BY <1>5 DEF TimesOut, PingInv
<1>6. CASE StallEnds
  <2>1. peer' # "alive" /\ owed' = None /\ state' = "online" /\ toClient' = toClient
    BY <1>6 DEF StallEnds, IInv, PeerInv
  <2>2. Len(toClient) <= MaxBacklog + 1
    BY <1>6 DEF StallEnds, PingInv
  <2> QED BY <2>1, <2>2 DEF PingInv
<1>7. CASE Publish
  <2>1. UNCHANGED <<state, peer, lastInActivity, wait, pingOutstanding, toClient, owed>>
    BY <1>7 DEF Publish
  <2>2. lastOutActivity' = 0 /\ state = "online"
    BY <1>7 DEF Publish
  <2>3. owed # None => Younger(owed)'
    <3>1. owed # None => owed \in Nat
      BY DEF IInv, TypeOK, None
    <3> QED BY <1>0, <2>1, <2>2, <3>1 DEF PingInv, Younger
  <2>4. ASSUME NEW k \in 1 .. Len(toClient), AnswerAt(k) PROVE AnswerAt(k)'
    <3>1. k * MaxPass \in Int
      BY <1>0
    <3>2. 0 <= Longest - k * MaxPass + wait
      BY <1>0, <2>4, <3>1 DEF AnswerAt, Younger
    <3> QED BY <2>1, <2>2, <2>4, <3>2 DEF AnswerAt, Younger, Longest
  <2> QED BY <2>1, <2>2, <2>3, <2>4 DEF PingInv
<1>8. CASE LoopReadsNothing
  <2>1. /\ InLoop /\ After(FALSE, FALSE) /\ peer' = peer /\ toClient = <<>> /\ toClient' = <<>>
        /\ state' \in {"online", "stalled"} /\ pingOutstanding' = (pingOutstanding \/ Overdue)
    BY <1>8 DEF LoopReadsNothing
  <2> QED BY <2>1, LoopKeepsPing
<1>9. CASE LoopReadsMessage \/ LoopSkipsMessage
  <2>1. /\ InLoop /\ peer' = peer /\ toClient # <<>> /\ toClient' = Tail(toClient)
        /\ Head(toClient) # "PINGRESP" /\ state' = "online"
        /\ pingOutstanding' = (pingOutstanding \/ Overdue)
    BY <1>9 DEF LoopReadsMessage, LoopSkipsMessage, InLoop
  <2>2. \E reads \in BOOLEAN, writes \in BOOLEAN : After(reads, writes)
    BY <1>9 DEF LoopReadsMessage, LoopSkipsMessage
  <2> QED BY <2>1, <2>2, LoopKeepsPing
<1>10. CASE LoopReadsPingresp
  <2>1. /\ InLoop /\ After(TRUE, FALSE) /\ peer' = peer /\ toClient # <<>>
        /\ toClient' = Tail(toClient) /\ state' = "online" /\ pingOutstanding' = FALSE
    BY <1>10 DEF LoopReadsPingresp, InLoop
  <2> QED BY <2>1, LoopKeepsPing
<1> QED BY <1>1, <1>2, <1>3, <1>4, <1>5, <1>6, <1>7, <1>8, <1>9, <1>10 DEF Client, Loop

LEMMA StepKeepsPing == ASSUME IInv, PingInv, [Next]_vars PROVE PingInv'
<1>1. CASE Next
  BY <1>1, TickKeepsPing, PeerKeepsPing, ClientKeepsPing DEF Next
<1>2. CASE UNCHANGED vars
  BY <1>2 DEF vars, times, PingInv, AnswerAt, Younger, Longest
<1> QED BY <1>1, <1>2

(* Where the answer is, no activity time can have passed the keepalive.    *)
LEMMA AnsweredInTime ==
    ASSUME IInv, PingInv, Roomy, state = "online", peer = "alive", pingOutstanding
    PROVE  ~Overdue
<1>0. /\ lastInActivity \in Nat /\ lastOutActivity \in Nat /\ Longest \in Nat
      /\ wait \in Nat /\ wait <= MaxPass /\ Len(toClient) \in Nat
  BY LongestType, LenIsNat DEF IInv, TypeOK, TimesInv, Period
<1>1. Longest <= MQTT_KEEPALIVE /\ (MaxBacklog + 1) * MaxPass \in Nat
  BY DEF Roomy, Longest
<1>2. CASE owed # None
  <2>1. owed \in Nat /\ owed <= MaxDelay /\ Younger(owed)
    BY <1>2 DEF IInv, TypeOK, PingInv
  <2>2. MaxDelay <= Longest
    BY <1>1 DEF Longest
  <2> QED BY <1>0, <1>1, <2>1, <2>2 DEF Younger, Overdue
<1>3. CASE owed = None
  <2>1. PICK k \in 1 .. Len(toClient) : AnswerAt(k)
    BY <1>3 DEF PingInv
  <2>2. k * MaxPass >= MaxPass /\ k * MaxPass \in Nat
    BY <1>0, <2>1, PassLess
  <2> QED BY <1>0, <1>1, <2>1, <2>2 DEF AnswerAt, Younger, Overdue
<1> QED BY <1>2, <1>3

(* With room for a full backlog and a slow answer within the keepalive, a  *)
(* broker that is alive is never given up: not for the ping of an earlier  *)
(* connection, and not for an answer that waits behind messages.           *)
THEOREM LiveBrokerIsKept == Spec => HealthyStaysUp
<1>1. PingInv /\ IInv /\ [Next]_vars => PingInv'
  BY StepKeepsPing
<1>2. IInv /\ PingInv /\ [Next]_vars
        => [Roomy /\ state = "online" /\ state' = "offline" => peer # "alive"]_vars
  <2> SUFFICES ASSUME IInv, PingInv, Next, Roomy, state = "online", state' = "offline"
               PROVE  peer # "alive"
    OBVIOUS
  <2>1. CASE TimesOut
    BY <2>1, AnsweredInTime DEF TimesOut
  <2>2. CASE NoticeClosed
    BY <2>2 DEF NoticeClosed
  <2>3. ~(Tick \/ Peer)
    BY DEF Tick, Peer, Answer, Deliver, PeerFallsSilent, SocketCloses
  <2>4. ~(Connect \/ Connected \/ ConnectFails \/ Publish \/ StallEnds)
    BY DEF Connect, Connected, ConnectFails, Publish, StallEnds
  <2>5. ~(LoopReadsNothing \/ LoopReadsMessage \/ LoopSkipsMessage \/ LoopReadsPingresp)
    BY DEF LoopReadsNothing, LoopReadsMessage, LoopSkipsMessage, LoopReadsPingresp
  <2> QED BY <2>1, <2>2, <2>3, <2>4, <2>5 DEF Next, Client, Loop
<1> QED BY <1>1, <1>2, InitPingInv, IInvAlways, PTL DEF Spec, HealthyStaysUp

==============================================================================
