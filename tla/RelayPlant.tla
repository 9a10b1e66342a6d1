------------------------------ MODULE RelayPlant ------------------------------
(***************************************************************************)
(* What the relay logic of OpenThermostat.ino promises the plant behind    *)
(* the relays, without saying why a relay moves: a furnace that is not     *)
(* short-cycled, never lit while the compressor runs, always lit with its  *)
(* blower, and a compressor that never runs without the blower.            *)
(***************************************************************************)
EXTENDS Integers

CONSTANT MinRest                    \* seconds a furnace keeps its state
VARIABLES furnace, ac, fan, rest    \* rest: seconds since the furnace moved

Init ==
    /\ furnace = FALSE /\ ac = FALSE /\ fan = FALSE
    /\ rest = MinRest + 1

Elapse ==
    /\ rest <= MinRest /\ rest' = rest + 1
    /\ UNCHANGED <<furnace, ac, fan>>

Ignite ==
    /\ ~furnace /\ rest > MinRest
    /\ furnace' = TRUE /\ rest' = 0
    /\ ac' = FALSE /\ fan' = TRUE

Quench ==
    /\ furnace /\ rest > MinRest
    /\ furnace' = FALSE /\ rest' = 0
    /\ ac' \in BOOLEAN /\ fan' \in BOOLEAN
    /\ ac' => fan'

\* The compressor may start beside a burning furnace only while the furnace
\* cannot be switched off yet.
Arrange ==
    /\ UNCHANGED <<furnace, rest>>
    /\ ac' \in BOOLEAN /\ fan' \in BOOLEAN
    /\ ac' => fan'
    /\ furnace /\ ac' /\ ~ac => rest <= MinRest

PowerCut ==
    /\ furnace' = FALSE /\ ac' = FALSE /\ fan' = FALSE
    /\ rest' = MinRest + 1

Next == Elapse \/ Ignite \/ Quench \/ Arrange \/ PowerCut

Spec == Init /\ [][Next]_<<furnace, ac, fan, rest>>
===============================================================================
