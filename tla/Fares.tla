------------------------------- MODULE Fares -------------------------------
(***************************************************************************)
(* calculateFares of src/lib/Models/Assistants/assistantmethods.dart: the  *)
(* price of a trip from its time, its distance and the type of the ride.   *)
(*                                                                         *)
(* The program computes time / 60 * 0.20 + distance / 1000 * 0.20 with     *)
(* 64-bit floats and truncates.  That is the exact quotient below, except  *)
(* where the exact total is a whole number: there the float may come out   *)
(* just under it, and the truncated fare is one less (12 s and 44800 m     *)
(* cost 8, not 9).  For which trips that happens is left to RoundedDown.   *)
(***************************************************************************)
EXTENDS Naturals

CONSTANT RoundedDown   \* the trips whose float total falls under a whole number

\* time in seconds and distance in metres, as the directions service has them.
Trip == [time : Nat, distance : Nat]

\* A total of one is 15000 of these units: 300 seconds or 5000 metres.
Units(t) == 50 * t.time + 3 * t.distance

Whole(t) == Units(t) % 15000 = 0

\* A total of zero is exact in floats too.
ASSUME RoundedDownAssumption ==
    \A t \in RoundedDown : t \in Trip /\ Whole(t) /\ Units(t) > 0

totalFareAmount(t) ==
    IF t \in RoundedDown THEN Units(t) \div 15000 - 1 ELSE Units(t) \div 15000

RideTypes == {"Rev-x", "Rev-Executive", "Rev-standard"}

\* Any other ride type is priced like "Rev-Executive".  Both factors are
\* applied to the total already truncated.
calculateFares(t, rideType) ==
    CASE rideType = "Rev-x"        -> 2 * totalFareAmount(t)
      [] rideType = "Rev-standard" -> totalFareAmount(t) \div 2
      [] OTHER                     -> totalFareAmount(t)
=============================================================================
