---------------------------- MODULE MCTripScreen ----------------------------
(* TLC instances of TripScreen.  Handlers are not declared interchangeable:  *)
(* the runs check liveness, for which symmetry is not sound.                 *)
EXTENDS TripScreen
=============================================================================
