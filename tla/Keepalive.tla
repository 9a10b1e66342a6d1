------------------------------ MODULE Keepalive ------------------------------
(***************************************************************************)
(* PubSubClient's connection to the broker: connect(), loop() with its two *)
(* activity times and the outstanding ping, publish(), connected(), and    *)
(* the bytes that wait in the socket.  The firmware calls loop() once in a *)
(* pass, and loop() reads one packet; a ping's answer waits behind the     *)
(* messages that came before it.                                           *)
(*                                                                         *)
(* The unit of time is a parameter (seconds in the names).  A time is kept *)
(* as its age, the difference with millis() that the code computes.        *)
(*                                                                         *)
(* The peer is the broker and the network to it.  It is alive (it answers  *)
(* within MaxDelay), silent (no byte arrives any more and nobody says so), *)
(* or closed (the socket knows).                                           *)
(***************************************************************************)
EXTENDS Integers, Sequences

CONSTANTS
    MQTT_KEEPALIVE,        \* seconds of silence, either way, before a ping
    MQTT_SOCKET_TIMEOUT,   \* seconds to wait for the next byte
    MaxPass,      \* the longest time between two calls of loop()
    MaxDelay,     \* the longest time a peer that is alive takes to answer
    MaxBacklog    \* messages that wait in the socket at a time

ASSUME TimesAssumption ==
    /\ MQTT_KEEPALIVE \in Nat /\ MQTT_SOCKET_TIMEOUT \in Nat
    /\ MaxPass \in Nat /\ MaxDelay \in Nat /\ MaxBacklog \in Nat

VARIABLES
    state,             \* see States
    peer,
    lastInActivity, lastOutActivity,    \* their ages
    pingOutstanding,
    toClient,          \* packets that wait in the socket
    torn,              \* behind them waits the beginning of a packet
    owed,              \* age of the request the peer has not answered, or None
    wait,              \* time since loop() returned, or since readByte() waits
    heard,             \* time since the peer last heard of the client
    quiet              \* time since the client last read a packet

times == <<lastInActivity, lastOutActivity, wait, heard, quiet>>
vars == <<state, peer, times, pingOutstanding, toClient, torn, owed>>

States == {"offline",     \* no connection
           "connecting",  \* connect() waits for the CONNACK
           "online",
           "stalled"}     \* readByte() waits for the rest of a packet
Peers == {"alive", "silent", "closed"}
Period == MQTT_KEEPALIVE + MaxPass + MQTT_SOCKET_TIMEOUT
Packets == {"CONNACK", "REFUSAL", "PUBLISH", "TOO_LONG", "PINGRESP"}
None == -1

TypeOK ==
    /\ state \in States /\ peer \in Peers
    /\ lastInActivity \in 0 .. Period /\ lastOutActivity \in 0 .. Period
    /\ pingOutstanding \in BOOLEAN
    /\ toClient \in Seq(Packets) /\ torn \in BOOLEAN
    /\ owed \in 0 .. MaxDelay \cup {None}
    /\ wait \in Nat /\ heard \in Nat /\ quiet \in Nat

Init ==
    /\ state = "offline" /\ peer = "closed"
    /\ lastInActivity = 0 /\ lastOutActivity = 0
    /\ pingOutstanding = FALSE
    /\ toClient = <<>> /\ torn = FALSE
    /\ owed = None
    /\ wait = 0 /\ heard = 0 /\ quiet = 0

-----------------------------------------------------------------------------
(* Time and the peer.                                                      *)

Patience ==     \* how long the client stays where it is
    CASE state = "online" -> MaxPass
      [] OTHER -> MQTT_SOCKET_TIMEOUT

Tick ==
    /\ state # "offline" /\ wait < Patience
    /\ owed # None => owed < MaxDelay
    /\ lastInActivity' = lastInActivity + 1
    /\ lastOutActivity' = lastOutActivity + 1
    /\ wait' = wait + 1 /\ heard' = heard + 1 /\ quiet' = quiet + 1
    /\ owed' = IF owed = None THEN None ELSE owed + 1
    /\ UNCHANGED <<state, peer, pingOutstanding, toClient, torn>>

Answer ==
    /\ owed # None
    /\ owed' = None
    /\ \E packet \in IF state = "connecting" THEN {"CONNACK", "REFUSAL"} ELSE {"PINGRESP"} :
          toClient' = Append(toClient, packet)
    /\ UNCHANGED <<state, peer, times, pingOutstanding, torn>>

Deliver ==
    /\ peer = "alive" /\ state = "online"
    /\ Len(toClient) < MaxBacklog
    /\ \E packet \in {"PUBLISH", "TOO_LONG"} : toClient' = Append(toClient, packet)
    /\ UNCHANGED <<state, peer, times, pingOutstanding, torn, owed>>

PeerFallsSilent ==
    /\ peer = "alive"
    /\ peer' = "silent" /\ owed' = None
    /\ torn' \in BOOLEAN
    /\ UNCHANGED <<state, times, pingOutstanding, toClient>>

SocketCloses ==
    /\ peer # "closed" /\ state # "offline"
    /\ peer' = "closed" /\ owed' = None
    /\ UNCHANGED <<state, times, pingOutstanding, toClient, torn>>

-----------------------------------------------------------------------------
(* connect().                                                              *)

\* The TCP connection is made and the CONNECT packet written.
Connect ==
    /\ state = "offline"
    /\ state' = "connecting" /\ peer' = "alive"
    /\ lastInActivity' = 0 /\ lastOutActivity' = 0
    /\ toClient' = <<>> /\ torn' = FALSE
    /\ owed' = 0
    /\ wait' = 0 /\ heard' = 0 /\ quiet' = 0
    /\ UNCHANGED pingOutstanding

Connected_KeepsPing ==     \* mutant: the ping of the last connection is not forgotten
    /\ state = "connecting" /\ toClient # <<>> /\ Head(toClient) = "CONNACK"
    /\ state' = "online"
    /\ lastInActivity' = 0 /\ wait' = 0 /\ quiet' = 0
    /\ toClient' = Tail(toClient)
    /\ UNCHANGED <<peer, lastOutActivity, heard, pingOutstanding, torn, owed>>

Connected ==
    /\ state = "connecting" /\ toClient # <<>> /\ Head(toClient) = "CONNACK"
    /\ state' = "online"
    /\ lastInActivity' = 0 /\ wait' = 0 /\ quiet' = 0
    /\ pingOutstanding' = FALSE
    /\ toClient' = Tail(toClient)
    /\ UNCHANGED <<peer, lastOutActivity, heard, torn, owed>>

\* Refused, no whole answer, or none in time: stop().
ConnectFails ==
    /\ state = "connecting"
    /\ \/ toClient # <<>> /\ Head(toClient) = "REFUSAL"
       \/ toClient = <<>> /\ (torn \/ lastInActivity >= MQTT_SOCKET_TIMEOUT)
    /\ state' = "offline" /\ peer' = "closed" /\ owed' = None
    /\ UNCHANGED <<times, pingOutstanding, toClient, torn>>

-----------------------------------------------------------------------------
(* loop() and publish().                                                   *)

Overdue_InOnly == lastInActivity > MQTT_KEEPALIVE     \* mutant: "||" lost
Overdue == lastInActivity > MQTT_KEEPALIVE \/ lastOutActivity > MQTT_KEEPALIVE

\* connected(), first thing in loop() and in publish(), finds the socket shut.
NoticeClosed ==
    /\ state = "online" /\ peer = "closed"
    /\ state' = "offline"
    /\ UNCHANGED <<peer, times, pingOutstanding, toClient, torn, owed>>

TimesOut ==
    /\ state = "online" /\ peer # "closed"
    /\ Overdue /\ pingOutstanding
    /\ state' = "offline" /\ peer' = "closed" /\ owed' = None
    /\ UNCHANGED <<times, pingOutstanding, toClient, torn>>

\* The ping, when one is due, resets both times; the same call then reads a
\* packet, which counts as activity unless it is too long for the buffer.
Ping ==
    IF Overdue
    THEN /\ ~pingOutstanding
         /\ owed' = IF peer = "alive" THEN 0 ELSE None
    ELSE UNCHANGED owed

\* The times after a packet was read (reads) and something written (writes).
After(reads, writes) ==
    /\ lastInActivity' = IF reads \/ Overdue THEN 0 ELSE lastInActivity
    /\ lastOutActivity' = IF writes \/ Overdue THEN 0 ELSE lastOutActivity
    /\ heard' = IF writes \/ Overdue THEN 0 ELSE heard
    /\ quiet' = IF reads THEN 0 ELSE quiet
    /\ wait' = 0

InLoop == state = "online" /\ peer # "closed" /\ Ping

LoopReadsNothing ==
    /\ InLoop
    /\ toClient = <<>>
    /\ After(FALSE, FALSE)
    /\ pingOutstanding' = (pingOutstanding \/ Overdue)
    /\ state' = IF torn THEN "stalled" ELSE "online"
    /\ torn' = FALSE
    /\ UNCHANGED <<peer, toClient>>

\* The callback may publish.
LoopReadsMessage ==
    /\ InLoop
    /\ toClient # <<>> /\ Head(toClient) = "PUBLISH"
    /\ \E publishes \in BOOLEAN : After(TRUE, publishes)
    /\ pingOutstanding' = (pingOutstanding \/ Overdue)
    /\ toClient' = Tail(toClient)
    /\ UNCHANGED <<state, peer, torn>>

LoopSkipsMessage ==
    /\ InLoop
    /\ toClient # <<>> /\ Head(toClient) = "TOO_LONG"
    /\ After(FALSE, FALSE)
    /\ pingOutstanding' = (pingOutstanding \/ Overdue)
    /\ toClient' = Tail(toClient)
    /\ UNCHANGED <<state, peer, torn>>

LoopReadsPingresp ==
    /\ InLoop
    /\ toClient # <<>> /\ Head(toClient) = "PINGRESP"
    /\ After(TRUE, FALSE)
    /\ pingOutstanding' = FALSE
    /\ toClient' = Tail(toClient)
    /\ UNCHANGED <<state, peer, torn>>

\* readByte() gives up, readPacket() returns 0, and loop() returns.
StallEnds ==
    /\ state = "stalled" /\ wait >= MQTT_SOCKET_TIMEOUT
    /\ state' = "online" /\ wait' = 0
    /\ UNCHANGED <<peer, lastInActivity, lastOutActivity, heard, quiet,
                   pingOutstanding, toClient, torn, owed>>

Publish_In ==     \* mutant: writing counts as hearing
    /\ state = "online" /\ peer # "closed"
    /\ lastOutActivity' = 0 /\ lastInActivity' = 0 /\ heard' = 0
    /\ UNCHANGED <<state, peer, wait, quiet, pingOutstanding, toClient, torn, owed>>

\* Whatever becomes of the bytes, writing them is activity.
Publish ==
    /\ state = "online" /\ peer # "closed"
    /\ lastOutActivity' = 0 /\ heard' = 0
    /\ UNCHANGED <<state, peer, lastInActivity, wait, quiet,
                   pingOutstanding, toClient, torn, owed>>

-----------------------------------------------------------------------------

Peer == Answer \/ Deliver \/ PeerFallsSilent \/ SocketCloses
Loop == TimesOut \/ LoopReadsNothing \/ LoopReadsMessage \/ LoopSkipsMessage
        \/ LoopReadsPingresp \/ StallEnds
Client == Connect \/ Connected \/ ConnectFails \/ NoticeClosed \/ Loop \/ Publish

Next == Tick \/ Peer \/ Client

Spec == Init /\ [][Next]_vars

-----------------------------------------------------------------------------
(* Properties.                                                             *)

\* What a configuration needs for the keepalive to be harmless: the answer to
\* a ping, behind a full backlog read one packet in a pass, is read in time,
\* the broker's own limit is half a keepalive away, and connect() gives up
\* within a keepalive.
Roomy ==
    /\ MaxDelay + (MaxBacklog + 1) * MaxPass <= MQTT_KEEPALIVE
    /\ 2 * MaxPass <= MQTT_KEEPALIVE
    /\ MQTT_SOCKET_TIMEOUT <= MQTT_KEEPALIVE

\* The client never gives up a connection to a broker that is alive: not for
\* a ping of the connection before, not for an answer that waits in the socket.
HealthyStaysUp ==
    [][Roomy /\ state = "online" /\ state' = "offline" => peer # "alive"]_vars

\* A broker that is alive hears from the client within the time and a half
\* after which it would drop it, however busy the other direction is.
BrokerHears ==
    Roomy /\ state = "online" /\ peer = "alive" => 2 * heard <= 3 * MQTT_KEEPALIVE

\* The client does not stay on a dead connection, publishing or not, nor on one
\* that brings nothing it can read: it gives up after two periods at most, a
\* period being a keepalive, the pass under way and a read that stalls.
DeadLinkFound == state \in {"online", "stalled"} => quiet <= 2 * Period
==============================================================================
