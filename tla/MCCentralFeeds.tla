---------------------------- MODULE MCCentralFeeds ----------------------------
(***************************************************************************)
(* Small instances of CentralFeeds: a bound on the disturbances.           *)
(***************************************************************************)
EXTENDS CentralFeeds

CONSTANT MaxEvents      \* bound: disturbances in a behaviour

ASSUME EventsAssumption == MaxEvents \in Nat

VARIABLE events         \* disturbances so far

MCInit == Init /\ events = 0

MCNext ==
    \/ Disturbance /\ events < MaxEvents /\ events' = events + 1
    \/ Response /\ UNCHANGED events

MCSpec == MCInit /\ [][MCNext]_<<vars, events>> /\ Fairness

\* A press changes the set point at once and comes back as a message that may be
\* older than the next press; a late answer to a ping repeats a message.  Once
\* the presses end, the sketch has the value of its feed all the same, unless a
\* message was lost beside an awaited packet, with a socket or without a
\* subscription, and none has come through since.
AgreesWithFeed == <>[](booted /\ fresh) => <>[](lo = feed)
===============================================================================
