--------------------------- MODULE MCTripHistory ---------------------------
(* TLC instances of TripHistory; with Fares, whose assumption they evaluate. *)
EXTENDS TripHistory, Fares

\* Two riders of one first name, a third of another, one whose record has none.
MCFirstName == [u \in {"kofi", "kofi2", "ama", "new"} |->
                   CASE u = "ama" -> "Ama" [] u = "new" -> NoOne [] OTHER -> "Kofi"]

\* 12 s with 44800 m is a trip whose total the floats round down.
MCRoundedDown == {[time |-> 12, distance |-> 44800]}
=============================================================================
