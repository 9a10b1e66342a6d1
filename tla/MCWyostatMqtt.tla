---------------------------- MODULE MCWyostatMqtt ----------------------------
(***************************************************************************)
(* Small instances of WyostatMqtt: a bound on the disturbances and presses *)
(* of Connect together, and what has to be remembered to say that Connect  *)
(* was pressed after the last disturbance.                                 *)
(***************************************************************************)
EXTENDS WyostatMqtt

CONSTANT MaxEvents      \* bound: disturbances and presses of Connect in a behaviour

ASSUME EventsAssumption == MaxEvents \in Nat

VARIABLES
    events,     \* disturbances so far, Connect included
    asked       \* Connect was pressed since the last of the others, with the
                \* thermostat connected and no drag under way

MCvars == <<vars, events, asked>>

MCInit == Init /\ events = 0 /\ asked = FALSE

Disturb ==
    /\ events < MaxEvents /\ events' = events + 1
    /\ Disturbance
    /\ asked' = FALSE

Respond == Response /\ UNCHANGED <<events, asked>>

\* Connect may be pressed at any time, whatever is under way.
Ask ==
    /\ events < MaxEvents /\ events' = events + 1
    /\ Connect
    /\ asked' = (asked \/ (link = "up" /\ drag = NoDrag))

MCNext == Disturb \/ Respond \/ Ask

MCSpec == MCInit /\ [][MCNext]_MCvars /\ Fairness

\* However messages, drags, echoes, earlier presses, lost connections, restarts
\* of either end and new deployments interleaved before, Connect pressed once
\* after the last of them, in the middle of whatever is still under way, brings
\* the dial to the target and the state in force, and none of that takes it back.
ConnectRefreshes == <>[]asked => <>[](dial.target = get_targettemp /\ dial.hvac = hvac_state)
==============================================================================
