------------------------- MODULE DeliveryLifecycle -------------------------
(***************************************************************************)
(* What the trip screen promises about one gas request, as the client's    *)
(* application sees it under GasRequests/<id>: the rider's stages appear   *)
(* one after the other, none is skipped, the rider is identified before    *)
(* the first of them after "accepted", and no request is "ended" before    *)
(* its fare is there.  Two things a reader might expect are NOT promised,  *)
(* because src/lib/pages/newRequestScreen.dart does not keep them: the     *)
(* rider's next stage replaces a "cancelled" the client wrote, and an      *)
(* ended request can be announced "completed" again.                       *)
(***************************************************************************)
EXTENDS Sequences, Naturals

VARIABLE request   \* the fields of GasRequests/<id> a client reads

\* The statuses newRequestScreen.dart writes, in the order of the trip.
\* "requested" stands for whatever the client wrote before a rider accepted.
Stages == <<"requested", "accepted", "arrived", "returning",
            "arrived_at_gas_station", "completed", "ended">>

Stage == {Stages[i] : i \in 1..Len(Stages)}

\* b is the stage the trip reaches after a.
Follows(a, b) == \E i \in 1..(Len(Stages) - 1) :
                    a = Stages[i] /\ b = Stages[i + 1]

\* stage is the last status the rider's application wrote; status is what the
\* database holds, which differs from it after the client cancels.
Request == [status  : Stage \cup {"cancelled"},
            stage   : Stage,
            driver  : BOOLEAN,     \* driver_name, driver_phone, driver_id, ...
            history : BOOLEAN,     \* the trip is in the rider's history
            fares   : BOOLEAN]     \* the fare is recorded

NewRequest == [status |-> "requested", stage |-> "requested",
               driver |-> FALSE, history |-> FALSE, fares |-> FALSE]

At(s) == [request EXCEPT !.status = s, !.stage = s]

Init == request = NewRequest

\* The rider's next stage; only an identified rider gets beyond "accepted",
\* and only a priced trip is ended.
Advance == \E s \in Stage :
              /\ Follows(request.stage, s)
              /\ s \notin {"requested", "accepted"} =>
                    request.driver /\ request.history
              /\ s = "ended" => request.fares
              /\ request' = At(s)

\* The end-trip handler writes "completed" once more, also over "ended".
AnnounceAgain == /\ request.stage \in {"completed", "ended"}
                 /\ request' = At("completed")

\* A second end-trip handler that is still running ends an ended trip again.
EndAgain == /\ request.stage = "ended"
            /\ request' = At("ended")

Identify == /\ request.stage = "accepted"
            /\ \/ request' = [request EXCEPT !.driver = TRUE]
               \/ request' = [request EXCEPT !.history = TRUE]

Price == /\ request.stage = "completed"
         /\ request' = [request EXCEPT !.fares = TRUE]

ClientCancels == request' = [request EXCEPT !.status = "cancelled"]

Next == \/ Advance \/ AnnounceAgain \/ EndAgain
        \/ Identify \/ Price \/ ClientCancels

Spec == Init /\ [][Next]_request
=============================================================================
