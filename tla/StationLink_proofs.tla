-------------------------- MODULE StationLink_proofs --------------------------
(***************************************************************************)
(* Proofs about StationLink: its types, and that an outage is final.       *)
(***************************************************************************)
EXTENDS StationLink, TLAPS

\* After setup_wifi() a status other than CONNECTED leaves nothing under way
\* that could make it CONNECTED again.
NothingUnderWay ==
    at \in Running /\ status # "CONNECTED"
        => radio = "idle" /\ event \notin {"got_ip", "auth_expire"}

\* While the status still says CONNECTED, bad news comes from an idle radio.
BadNewsIsTrue ==
    (event \in Failures \cup {"start"} /\ status = "CONNECTED") => radio = "idle"

\* The inductive invariant.
IInv == TypeOK /\ NothingUnderWay /\ BadNewsIsTrue

USE DEF Places, Setting, Running, Failures, Events

\* The initial states satisfy the inductive invariant.
LEMMA InitIInv == Init => IInv
BY DEF Init, Joining, IInv, TypeOK, NothingUnderWay, BadNewsIsTrue

-----------------------------------------------------------------------------
\* Every step keeps the types.
LEMMA TypeStep == TypeOK /\ [Next]_vars => TypeOK'
<1> SUFFICES ASSUME TypeOK, [Next]_vars PROVE TypeOK'
  OBVIOUS
<1> USE DEF TypeOK
<1>1. CASE PowerCut
  BY <1>1 DEF PowerCut, Joining
<1>2. CASE RouterGoes
  BY <1>2 DEF RouterGoes, Post
<1>3. CASE RouterComes \/ RouterSlow
  BY <1>3 DEF RouterComes, RouterSlow
<1>4. CASE Join
  BY <1>4 DEF Join, Post
<1>5. CASE JoinFails
  BY <1>5 DEF JoinFails, Post, Reasons
<1>6. CASE Expire
  BY <1>6 DEF Expire, Post
<1>7. CASE OnEvent
  BY <1>7 DEF OnEvent, StatusAfter, begin, Joining
<1>8. CASE Result
  BY <1>8 DEF Result
<1>9. CASE Try
  BY <1>9 DEF Try, begin, Joining, Post
<1>10. CASE \E credentials \in {"right", "wrong", "none"} : Save(credentials)
  BY <1>10 DEF Save
<1>11. CASE Settle \/ MqttConnect \/ MqttLost
  BY <1>11 DEF Settle, MqttConnect, MqttLost
<1>12. CASE UNCHANGED vars
  BY <1>12 DEF vars
<1> QED
  BY <1>1, <1>2, <1>3, <1>4, <1>5, <1>6, <1>7, <1>8, <1>9, <1>10, <1>11, <1>12
  DEF Next

\* Every step keeps the rest of the inductive invariant.
LEMMA QuietStep ==
    IInv /\ [Next]_vars => NothingUnderWay' /\ BadNewsIsTrue'
<1> SUFFICES ASSUME IInv, [Next]_vars PROVE NothingUnderWay' /\ BadNewsIsTrue'
  OBVIOUS
<1> USE DEF IInv, NothingUnderWay, BadNewsIsTrue
<1>1. CASE PowerCut
  BY <1>1 DEF PowerCut
<1>2. CASE RouterGoes
  BY <1>2 DEF RouterGoes, Post
<1>3. CASE RouterComes \/ RouterSlow
  BY <1>3 DEF RouterComes, RouterSlow
<1>4. CASE Join
  BY <1>4 DEF Join, Post
<1>5. CASE JoinFails
  <2>1. radio' = "idle" /\ status' = status /\ at' = at /\ radio = "joining"
    BY <1>5 DEF JoinFails
  <2> QED
    BY <2>1
<1>6. CASE Expire
  BY <1>6 DEF Expire, Post
<1>7. CASE OnEvent
  \* The event is spent; only the loss of a connection is new.
  <2>1. event' = "none" /\ at' = at
    BY <1>7 DEF OnEvent
  <2>2. ASSUME at \in Running, status' # "CONNECTED" PROVE radio' = "idle"
    <3>1. event \notin {"got_ip", "auth_expire"}
      BY <1>7, <2>2 DEF OnEvent, StatusAfter
    <3>2. event \in Failures \cup {"start"}
      BY <1>7, <3>1 DEF OnEvent, TypeOK
    <3>3. radio' = radio
      BY <1>7, <3>1 DEF OnEvent
    <3> QED
      BY <2>2, <3>2, <3>3
  <2> QED
    BY <2>1, <2>2
<1>8. CASE Result
  BY <1>8 DEF Result
<1>9. CASE Try
  BY <1>9 DEF Try, Post
<1>10. CASE \E credentials \in {"right", "wrong", "none"} : Save(credentials)
  BY <1>10 DEF Save
<1>11. CASE Settle \/ MqttConnect \/ MqttLost
  BY <1>11 DEF Settle, MqttConnect, MqttLost
<1>12. CASE UNCHANGED vars
  BY <1>12 DEF vars
<1> QED
  BY <1>1, <1>2, <1>3, <1>4, <1>5, <1>6, <1>7, <1>8, <1>9, <1>10, <1>11, <1>12
  DEF Next

\* The inductive invariant holds in every reachable state.
LEMMA IInvAlways == Spec => []IInv
<1>1. IInv /\ [Next]_vars => IInv'
  BY TypeStep, QuietStep DEF IInv
<1> QED
  BY InitIInv, <1>1, PTL DEF Spec

-----------------------------------------------------------------------------
\* The variables keep their types (WiFiSTA.cpp, WiFiGeneric.cpp, WiFiManager.cpp).
THEOREM TypeCorrect == Spec => []TypeOK
BY IInvAlways, PTL DEF IInv

\* One step cannot undo an outage.
LEMMA NoRepair ==
    IInv /\ [Next]_vars
        => [status # "CONNECTED" /\ at \in Running => status' # "CONNECTED"]_vars
<1> SUFFICES ASSUME IInv, Next, status # "CONNECTED", at \in Running
             PROVE status' # "CONNECTED"
  OBVIOUS
<1>1. event # "got_ip"
  BY DEF IInv, NothingUnderWay
<1>2. CASE OnEvent
  BY <1>1, <1>2 DEF OnEvent, StatusAfter
<1>3. CASE PowerCut
  BY <1>3 DEF PowerCut
<1>4. CASE RouterGoes \/ RouterComes \/ RouterSlow \/ Join \/ JoinFails \/ Expire
  BY <1>4 DEF RouterGoes, RouterComes, RouterSlow, Join, JoinFails, Expire
<1>5. CASE Result \/ Try \/ Settle \/ MqttConnect \/ MqttLost
  BY <1>5 DEF Result, Try, Settle, MqttConnect, MqttLost
<1>6. CASE \E credentials \in {"right", "wrong", "none"} : Save(credentials)
  BY <1>6 DEF Save
<1> QED
  BY <1>2, <1>3, <1>4, <1>5, <1>6 DEF Next

\* Once the status tells of a loss after setup_wifi(), it never says CONNECTED
\* again before the power is cut (_eventCallback(), WiFiGeneric.cpp).
THEOREM OutageStays == Spec => OutageIsFinal
BY IInvAlways, NoRepair, PTL DEF OutageIsFinal, Spec

-----------------------------------------------------------------------------
\* Without trouble the station joins or has joined, but for the moment between
\* the end of a session and the event task, which joins again; so a wait of ten
\* seconds has something to wait for, and ends with WL_CONNECTED.
AlwaysJoining ==
    ~trouble =>
        /\ router = "up" /\ stored = "right"
        /\ status \in {"NO_SHIELD", "DISCONNECTED", "CONNECTED"}
        /\ event \in {"none", "start", "got_ip", "auth_expire"}
        /\ radio = "idle" => event = "auth_expire"
        /\ event = "start" => status = "NO_SHIELD"
TroubleInv == AlwaysJoining /\ PortalOnlyInTrouble

LEMMA TroubleStep == IInv /\ TroubleInv /\ [Next]_vars => TroubleInv'
<1> SUFFICES ASSUME IInv, TroubleInv, [Next]_vars PROVE TroubleInv'
  OBVIOUS
<1> USE DEF TroubleInv, AlwaysJoining, PortalOnlyInTrouble
<1>1. CASE PowerCut
  <2>1. IInv
    OBVIOUS
  <2> QED BY <1>1, <2>1 DEF PowerCut, Joining, IInv, TypeOK
<1>2. CASE RouterGoes \/ RouterSlow
  BY <1>2 DEF RouterGoes, RouterSlow
<1>3. CASE RouterComes
  BY <1>3 DEF RouterComes
<1>4. CASE Join \/ Expire
  BY <1>4 DEF Join, Expire, Post
<1>5. CASE JoinFails
  \* A router in reach refuses a station with the right credentials for one
  \* reason only.
  BY <1>5 DEF JoinFails, Reasons, Post
<1>6. CASE OnEvent
  BY <1>6 DEF OnEvent, StatusAfter, begin, Joining
<1>7. CASE Result
  <2>1. ASSUME ~trouble PROVE status = "CONNECTED"
    BY <1>7, <2>1 DEF Result, Waiting, TenSeconds
  <2> QED BY <1>7, <2>1 DEF Result
<1>8. CASE Try \/ \E credentials \in {"right", "wrong", "none"} : Save(credentials)
  BY <1>8 DEF Try, Save
<1>9. CASE Settle \/ MqttConnect \/ MqttLost
  BY <1>9 DEF Settle, MqttConnect, MqttLost
<1>10. CASE UNCHANGED vars
  BY <1>10 DEF vars
<1> QED
  BY <1>1, <1>2, <1>3, <1>4, <1>5, <1>6, <1>7, <1>8, <1>9, <1>10 DEF Next

\* With the right credentials stored and a router in reach since the power came
\* the portal never opens, and no loss is ever announced.
THEOREM NobodyIsNeeded == Spec => []PortalOnlyInTrouble
<1>1. Init => TroubleInv
  BY DEF Init, Joining, TroubleInv, AlwaysJoining, PortalOnlyInTrouble
<1>2. TroubleInv => PortalOnlyInTrouble
  BY DEF TroubleInv
<1> QED
  BY IInvAlways, <1>1, <1>2, TroubleStep, PTL DEF Spec
=============================================================================
