--------------------------- MODULE MCWyostatSystem ---------------------------
(***************************************************************************)
(* Small instances of WyostatSystem: a bound on the disturbances, and what *)
(* has to be remembered of the user's wishes.                              *)
(***************************************************************************)
EXTENDS WyostatSystem

CONSTANTS
    MaxEvents,      \* bound: disturbances in a behaviour
    MaxWaiting      \* bound: messages that wait for Node-RED

ASSUME EventsAssumption == MaxEvents \in Nat /\ MaxWaiting \in Nat

VARIABLES
    events,     \* disturbances so far, Connect included
    asked,      \* Connect was pressed since the last other one, with the thermostat
                \* connected and no drag under way
    off         \* the last mode button pressed is "off", the thermostat was
                \* connected, nothing was on its way to it, and neither it nor
                \* Node-RED has been started again, nor its link lost, since

MCvars == <<vars, events, asked, off>>

MCInit == Init /\ events = 0 /\ asked = FALSE /\ off = FALSE

Disturb ==
    /\ events < MaxEvents /\ events' = events + 1
    /\ asked' = FALSE
    /\ \/ (HourTurns \/ Drift \/ DialDoes(Mqtt!DragStart) \/ DialDoes(Mqtt!PressAway))
          /\ UNCHANGED off
       \/ DialDoes(Mqtt!PressMode)
          /\ off' = (link = "up" /\ toStat' = <<Mqtt!Message("hvacmode", "off")>>)
       \/ (PowerCut \/ LinkDies \/ DialDoes(Mqtt!Deploy)) /\ off' = FALSE

\* Bound: a decision whose report would find no room waits until Node-RED has
\* read some.  Without it the circle described at RestUnlessCooling would fill
\* Node-RED's queue for ever.
Respond ==
    /\ Response
    /\ Len(toDial') <= MaxWaiting
    /\ UNCHANGED <<events, asked, off>>

\* Connect counts as one, and leaves asked alone when it is pressed in vain.
Ask ==
    /\ events < MaxEvents /\ events' = events + 1
    /\ Connect
    /\ asked' = (asked \/ (link = "up" /\ drag = Mqtt!NoDrag))
    /\ UNCHANGED off

MCNext == Disturb \/ Respond \/ Ask

MCSpec == MCInit /\ [][MCNext]_MCvars /\ Fairness

\* The loop reports the target whenever it moves a relay, obeys the report when
\* it comes back, and may move the relay again for it.  Out of cooling the
\* lockout breaks the circle: the settings and the relays come to rest.  (In
\* cooling nothing does: two targets on their way at once keep the compressor
\* switching with every other message, for good.)
RestUnlessCooling ==
    <>[](hvacmode # "cooling") =>
        <>[][UNCHANGED <<targettemps, away, hvacmode, furnace_state, ac_state>>]_vars

\* "Off", pressed while nothing else is on its way to a connected thermostat,
\* opens every relay in the end, through echoes, drags, hours and lockout.
OffReachesRelays == <>[]off => <>[](~furnace_state /\ ~ac_state /\ ~fan_state)

\* One Connect still brings the dial to the target and the state in force, when
\* the relays that answer it move for their own reasons; again not in cooling.
RefreshesUnlessCooling ==
    <>[](asked /\ hvacmode # "cooling") =>
        <>[](dial.target = Mqtt!get_targettemp /\ dial.hvac = Mqtt!hvac_state)
==============================================================================
