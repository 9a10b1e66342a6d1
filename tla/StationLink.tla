----------------------------- MODULE StationLink -----------------------------
(***************************************************************************)
(* The thermostat's way into the WiFi: what setup_wifi() asks of           *)
(* WiFiManager, what WiFiManager asks of the station interface of the      *)
(* ESP32 core, and what becomes of the interface's status when the router  *)
(* comes and goes.  Nothing is controlled before setup_wifi() returns, nor *)
(* while mqtt_reconnect() runs: HvacControl assumes that both come to an   *)
(* end, and here is when they do.                                          *)
(*                                                                         *)
(* The radio is driven by a library in binary form, which joins once when  *)
(* told to and reports how that went, and then how it ended, by an event.  *)
(* The event task of the core polls its queue every millisecond; bound:    *)
(* the radio has no second event within that millisecond.                  *)
(*                                                                         *)
(* A router that is up answers a station with the right credentials, be it *)
(* with AUTH_EXPIRE, within the 10 s WiFiManager waits, unless there is    *)
(* trouble.  One that dismisses a station is taken for one that goes down  *)
(* and comes back at once, a password forgotten for one that was wrong.    *)
(***************************************************************************)
EXTENDS Naturals

VARIABLES
    at,         \* where the processor is: see Places
    status,     \* what WiFi.status() says
    event,      \* the event that waits for the event task, or "none"
    radio,      \* the station: "idle", "joining" or "joined"
    router,     \* "up" or "down"
    stored,     \* the credentials in the flash: "right", "wrong" or "none"
    form,       \* the credentials entered last in the portal
    trouble     \* since the power came, the router has been out of reach or slow
                \* or the credentials have not been the right ones

vars == <<at, status, event, radio, router, stored, form, trouble>>

Places == {"first",      \* autoConnect() waits for its first attempt
           "portal",     \* startConfigPortal() waits for a visitor
           "saved",      \* the form is in, delay(2000)
           "trying",     \* connectWifi() waits for the attempt with the form
           "settle",     \* setup_wifi() waits for WL_CONNECTED
           "connect",    \* mqtt_connect()
           "loop", "reconnect"}
Setting == {"first", "portal", "saved", "trying"}
Running == Places \ Setting
Failures == {"no_ap", "refused", "timeout", "other"}
Events == {"start", "got_ip", "auth_expire"} \cup Failures

TypeOK ==
    /\ at \in Places
    /\ status \in {"NO_SHIELD", "NO_SSID_AVAIL", "CONNECTED", "CONNECT_FAILED",
                   "CONNECTION_LOST", "DISCONNECTED"}
    /\ event \in Events \cup {"none"}
    /\ radio \in {"idle", "joining", "joined"}
    /\ router \in {"up", "down"}
    /\ stored \in {"right", "wrong", "none"}
    /\ form \in {"right", "wrong", "none"}
    /\ trouble \in BOOLEAN

-----------------------------------------------------------------------------
(* Power.  setup_wifi() starts the station, breaks off whatever it joins   *)
(* by itself, and has it join with the stored credentials.                 *)

\* esp_wifi_connect(): without credentials it refuses.
Joining(credentials) == IF credentials = "none" THEN "idle" ELSE "joining"

Init ==
    /\ at = "first" /\ status = "NO_SHIELD" /\ event = "start"
    /\ router \in {"up", "down"} /\ stored \in {"right", "wrong", "none"}
    /\ radio = Joining(stored)
    /\ form = "none"
    /\ trouble = (router = "down" \/ stored # "right")

\* Also the reset page of the portal.
PowerCut ==
    /\ at' = "first" /\ status' = "NO_SHIELD" /\ event' = "start"
    /\ radio' = Joining(stored)
    /\ form' = "none"
    /\ trouble' = (router = "down" \/ stored # "right")
    /\ UNCHANGED <<router, stored>>

-----------------------------------------------------------------------------
(* The router and the radio.                                               *)

Post(e) == event = "none" /\ event' = e

\* A station that had joined hears that it is over, or hears nothing.
RouterGoes ==
    /\ router = "up" /\ router' = "down"
    /\ trouble' = TRUE
    /\ IF radio = "joined"
       THEN radio' = "idle" /\ \E e \in {"timeout", "other"} : Post(e)
       ELSE UNCHANGED <<radio, event>>
    /\ UNCHANGED <<at, status, stored, form>>

RouterComes ==
    /\ router = "down" /\ router' = "up"
    /\ UNCHANGED <<at, status, event, radio, stored, form, trouble>>

RouterSlow ==
    /\ trouble' = TRUE
    /\ UNCHANGED <<at, status, event, radio, router, stored, form>>

Join ==
    /\ radio = "joining" /\ router = "up" /\ stored = "right"
    /\ radio' = "joined" /\ Post("got_ip")
    /\ UNCHANGED <<at, status, router, stored, form, trouble>>

Reasons ==
    IF router = "down" THEN {"no_ap"}
    ELSE IF stored = "right" THEN {"auth_expire"}
    ELSE {"auth_expire", "refused", "timeout", "other"}

JoinFails ==
    /\ radio = "joining"
    /\ radio' = "idle" /\ \E e \in Reasons : Post(e)
    /\ UNCHANGED <<at, status, router, stored, form, trouble>>

\* The router ends the session of a station it wants to hear of again.
Expire ==
    /\ radio = "joined" /\ router = "up"
    /\ radio' = "idle" /\ Post("auth_expire")
    /\ UNCHANGED <<at, status, router, stored, form, trouble>>

-----------------------------------------------------------------------------
(* _eventCallback().  Only one reason makes the station join again, and it *)
(* leaves the status as it was.                                            *)

StatusAfter_Reason(e) ==     \* mutant: the status is the event's reason
    IF e = "got_ip" THEN "CONNECTED" ELSE e
StatusAfter(e) ==
    CASE e = "got_ip" -> "CONNECTED"
      [] e = "no_ap" -> "NO_SSID_AVAIL"
      [] e = "refused" -> "CONNECT_FAILED"
      [] e = "timeout" -> "CONNECTION_LOST"
      [] e = "auth_expire" -> status
      [] OTHER -> "DISCONNECTED"

begin(credentials) == radio' = IF radio = "idle" THEN Joining(credentials) ELSE radio

\* Mutants: no reason makes the station join again; every one does.
OnEvent_NeverBegins ==
    /\ event # "none" /\ event' = "none"
    /\ status' = StatusAfter(event)
    /\ UNCHANGED <<at, radio, router, stored, form, trouble>>
OnEvent_AlwaysBegins ==
    /\ event # "none" /\ event' = "none"
    /\ status' = StatusAfter(event)
    /\ IF event # "got_ip" THEN begin(stored) ELSE UNCHANGED radio
    /\ UNCHANGED <<at, router, stored, form, trouble>>

OnEvent ==
    /\ event # "none" /\ event' = "none"
    /\ status' = StatusAfter(event)
    /\ IF event = "auth_expire" THEN begin(stored) ELSE UNCHANGED radio
    /\ UNCHANGED <<at, router, stored, form, trouble>>

-----------------------------------------------------------------------------
(* WiFiManager.                                                            *)

\* The two statuses that waitForConnectResult() waits out; any other one ends
\* the wait at once, the one an earlier attempt left behind too.
Waiting == status \in {"NO_SHIELD", "DISCONNECTED"}

\* Bound: ten seconds pass only when there is trouble or nothing to wait for.
TenSeconds == trouble \/ (radio = "idle" /\ event = "none")

\* The end of waitForConnectResult(), in autoConnect() or in the portal's loop.
Result ==
    /\ at \in {"first", "trying"}
    /\ ~Waiting \/ TenSeconds
    /\ at' = IF status = "CONNECTED" THEN "settle" ELSE "portal"
    /\ UNCHANGED <<status, event, radio, router, stored, form, trouble>>

\* handleWifiSave().  The portal has no timeout: only a visitor ends it.
Save(credentials) ==
    /\ at = "portal" /\ at' = "saved"
    /\ form' = credentials
    /\ UNCHANGED <<status, event, radio, router, stored, trouble>>

\* Mutant: the early return does not say WL_CONNECTED.
Try_BailsWithTrue ==
    /\ at = "saved"
    /\ IF status = "CONNECTED"
       THEN at' = "portal" /\ UNCHANGED <<stored, radio>>
       ELSE at' = "trying" /\ stored' = form /\ begin(form)
    /\ UNCHANGED <<status, event, router, form, trouble>>

\* connectWifi(): already connected; or join, with the form's credentials, or
\* with the stored ones when the form names no network.
Try ==
    /\ at = "saved"
    /\ \/ status = "CONNECTED" /\ at' = "settle" /\ UNCHANGED <<stored, radio, event>>
       \/ /\ status # "CONNECTED" /\ form # "none" /\ at' = "trying"
          /\ stored' = form /\ begin(form)
          /\ UNCHANGED event
       \/ /\ status # "CONNECTED" /\ form = "none" /\ at' = "trying"
          /\ IF radio = "idle" THEN UNCHANGED event ELSE Post("other")
          /\ radio' = Joining(stored)
          /\ UNCHANGED stored
    /\ UNCHANGED <<status, router, form, trouble>>

-----------------------------------------------------------------------------
(* The thermostat.                                                         *)

\* setup_wifi() has WiFi.status() to itself.
Settle ==
    /\ at = "settle" /\ status = "CONNECTED"
    /\ at' = "connect"
    /\ UNCHANGED <<status, event, radio, router, stored, form, trouble>>

\* An attempt of mqtt_connect() or mqtt_reconnect() that reaches the broker.
MqttConnect ==
    /\ at \in {"connect", "reconnect"} /\ radio = "joined"
    /\ at' = "loop"
    /\ UNCHANGED <<status, event, radio, router, stored, form, trouble>>

\* The session with the broker ends, for whatever reason, and loop() notices.
MqttLost ==
    /\ at = "loop" /\ at' = "reconnect"
    /\ UNCHANGED <<status, event, radio, router, stored, form, trouble>>

Next ==
    \/ PowerCut
    \/ RouterGoes \/ RouterComes \/ RouterSlow
    \/ Join \/ JoinFails \/ Expire \/ OnEvent
    \/ Result \/ Try \/ \E credentials \in {"right", "wrong", "none"} : Save(credentials)
    \/ Settle \/ MqttConnect \/ MqttLost

Spec == Init /\ [][Next]_vars

\* The tasks run, a router that is up accepts a station it is asked to accept
\* often enough, and the broker one that has joined often enough.  Nobody has
\* to visit the portal, and the power may fail for ever.
FairSpec ==
    /\ Spec
    /\ WF_vars(OnEvent) /\ WF_vars(JoinFails) /\ SF_vars(Join)
    /\ WF_vars(Result) /\ WF_vars(Try) /\ WF_vars(Settle) /\ SF_vars(MqttConnect)

-----------------------------------------------------------------------------
(* Properties.                                                             *)

\* What HvacControl assumes of setup() and mqtt_reconnect(), and as much of it
\* as this code justifies: with the right credentials stored, a router in reach
\* since the power came and power that stays, the loop controls the plant again
\* and again, through expired sessions and lost brokers.
ControlGoesOn == <>[][~PowerCut]_vars => []<>(trouble \/ at = "loop")

\* After setup_wifi() no loss but an expired session is ever repaired: once the
\* status tells of it the station is not joined again, although the router is
\* back, and mqtt_reconnect() keeps the relays where they are until somebody
\* restarts the thermostat.
OutageIsFinal ==
    [][status # "CONNECTED" /\ at \in Running => status' # "CONNECTED"]_vars

\* With the right credentials stored and no trouble since the power came nobody
\* has to visit the thermostat: however often the router ends the session, and
\* whenever it does, the portal never opens and the status never tells of a loss
\* after setup_wifi(), which would be final.  (As long as it lets the station in
\* within the ten seconds of autoConnect(): one that ends each session for longer
\* than that is trouble, RouterSlow, and opens the portal.)
PortalOnlyInTrouble ==
    ~trouble => /\ at \notin {"portal", "saved", "trying"}
                /\ at \in Running => status = "CONNECTED"

\* The portal may refuse the right credentials, because the wait ends on the
\* status that opened the portal, and stays up although the station has joined
\* since; but it does not refuse for ever a visitor who insists on them.
Insisting == [][~Save("wrong") /\ ~Save("none")]_vars
PortalYields ==
    <>[](router = "up" /\ at \in Setting) /\ <>[][~PowerCut]_vars /\ <>Insisting
        => <>[][~Save("right")]_vars
=============================================================================
