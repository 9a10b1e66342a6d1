---------------------------- MODULE MCHvacControl ----------------------------
(***************************************************************************)
(* Small instances of HvacControl.  The degrees of constants.h (targets    *)
(* 40..90, away limits 50 and 90, gap 4) are moved together so that few    *)
(* temperature classes remain, in the same order and with the same gap;    *)
(* the assumption below says that every comparison of loop() still goes    *)
(* both ways within MinTemp..MaxTemp.                                      *)
(***************************************************************************)
EXTENDS HvacControl

ASSUME EveryComparisonGoesBothWays ==
    /\ LOWEST_TEMP <= AWAYMIN /\ AWAYMIN < AWAYMAX /\ AWAYMAX <= HIGHEST_TEMP
    /\ MinTemp < AWAYMIN - HILOGAP \div 2 /\ AWAYMAX < MaxTemp
    /\ \A target \in {NightTemp, DayTemp} :
          MinTemp <= target - HILOGAP /\ target + HILOGAP \div 2 <= MaxTemp
==============================================================================
