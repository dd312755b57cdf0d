----------------------------- MODULE TripScreen -----------------------------
(***************************************************************************)
(* The delivery screen, src/lib/pages/newRequestScreen.dart: one accepted  *)
(* gas request, the single button that moves it from stage to stage, and   *)
(* the asynchronous chains its handler starts.                             *)
(*                                                                         *)
(* Every tap on the button starts a chain of awaits (two database reads, a *)
(* status write, a directions request, a push message...) and nothing      *)
(* disables the button meanwhile, so several chains can be in flight.      *)
(* Dart runs one piece of code between two awaits at a time: an action     *)
(* below is such a piece.  A chain whose code throws simply stops, the     *)
(* errors being swallowed by the catchError handlers of the tap.           *)
(*                                                                         *)
(* Writes to the Firebase database are applied in the order in which the   *)
(* application issued them and are acknowledged in that order.             *)
(***************************************************************************)
EXTENDS Naturals, Sequences, FiniteSets

CONSTANTS
    Chains,       \* the button handlers that can be in flight together
    NoChain,      \* tags a write nobody awaits
    BackPresses,  \* bound: how often the rider presses back or dismisses a dialog
    Faults        \* what may go wrong around the screen, see Fault

ASSUME ChainsAssumption == NoChain \notin Chains
ASSUME BackPressesAssumption == BackPresses \in Nat

Fault == {"read",      \* a database read fails or finds nothing
          "null",      \* the directions service answers with an error status
          "throw",     \* a directions request throws (no connection, no route)
          "push",      \* the uncaught push message of the last stage throws
          "position",  \* the rider's position is unknown when the map opens
          "crash"}     \* the process is killed

ASSUME FaultsAssumption == Faults \subseteq Fault

VARIABLES
    status,       \* the screen's own status field (a local copy, never re-read)
    chain,        \* chain[c]: what the handler c is waiting for
    outbox,       \* writes issued and not yet applied by the database
    acks,         \* chains whose write is applied and not yet acknowledged
    request,      \* GasRequests/<id> in the database, see DeliveryLifecycle
    routes,       \* the Navigator's stack, bottom first
    mounted,      \* the screen's State object is still in the widget tree
    map,          \* the onMapCreated handler and the live-location stream
    position,     \* myPosition is known (not null)
    icon,         \* animatingMarkerIcon is loaded (not null)
    requesting,   \* isRequestingDirection
    etaRequests,  \* directions requests of updateRideDetails in flight
    timer,        \* the timer field holds a running timer
    liveTimers,   \* periodic timers running, the ones no field names included
    payRequests,  \* text messages sent asking for the refill to be paid
    backs         \* back presses so far

stream == <<map, position, icon, requesting, etaRequests>>
effects == <<timer, liveTimers, payRequests>>
screen == <<status, chain, stream, effects>>
db     == <<outbox, acks, request>>
nav    == <<routes, mounted, backs>>
vars   == <<screen, db, nav>>

-----------------------------------------------------------------------------
(* State                                                                   *)

\* request stands for the variable of the same name: the refinement mapping.
Lifecycle == INSTANCE DeliveryLifecycle WITH request <- request

LocalStatus == {"accepted", "arrived", "returning",
                "arrived_at_gas_station", "completed"}

\* A handler waits for: the client's id; the client's token; the write of the
\* stage it entered; directions; the answer to a push message.
Waiting == {"client_id", "token",
            "set_arrived", "directions", "notify_arrived",
            "set_returning",
            "set_at_gas_station", "notify_at_gas_station",
            "set_completed", "directions2",
            "set_completed_again", "notify_completed", "end_directions"}

Route == {"home", "trip", "wait", "busy", "fare"}
   \* wait: the dismissible "Please wait..." of getPlaceDirection
   \* busy: the other one, which a tap beside it does not close
   \* fare: CollectFareDialog

\* "driver" stands for the six driver_* writes, "history" for the rider's own
\* history entry.
Write == [what : LocalStatus \cup {"driver", "history", "fares", "ended"},
          by   : Chains \cup {NoChain}]

TypeOK ==
    /\ status \in LocalStatus
    /\ chain \in [Chains -> Waiting \cup {"idle"}]
    /\ outbox \in Seq(Write)
    /\ acks \in Seq(Chains)
    /\ request \in Lifecycle!Request
    /\ routes \in Seq(Route)
    /\ mounted \in BOOLEAN
    /\ map \in {"none", "directions", "live", "dead"}
    /\ position \in BOOLEAN
    /\ icon \in BOOLEAN
    /\ requesting \in BOOLEAN
    /\ etaRequests \in Nat
    /\ timer \in BOOLEAN
    /\ liveTimers \in Nat
    /\ payRequests \in Nat
    /\ backs \in 0..BackPresses

\* What initState issues through acceptRideRequest, in its order.
acceptRideRequest == << [what |-> "accepted", by |-> NoChain],
                        [what |-> "driver",   by |-> NoChain],
                        [what |-> "history",  by |-> NoChain] >>

Init ==
    /\ status = "accepted"
    /\ chain = [c \in Chains |-> "idle"]
    /\ outbox = acceptRideRequest
    /\ acks = << >>
    /\ request = Lifecycle!NewRequest
    /\ routes = <<"home", "trip">>
    /\ mounted = TRUE
    /\ map = "none"
    /\ position = FALSE
    /\ icon = FALSE
    /\ requesting = FALSE
    /\ etaRequests = 0
    /\ timer = FALSE
    /\ liveTimers = 0
    /\ payRequests = 0
    /\ backs = 0

-----------------------------------------------------------------------------
(* The Navigator                                                           *)

OnTop(r) == routes # << >> /\ routes[Len(routes)] = r

\* Navigator.pop removes whatever is on top, also a route its caller did not
\* push; it throws once the screen is disposed or no route is left.
CanPop == mounted /\ routes # << >>
Popped(n) == SubSeq(routes, 1, Len(routes) - n)

-----------------------------------------------------------------------------
(* The button                                                              *)

\* A modal dialog above the screen takes the taps.
Tap(c) ==
    /\ chain[c] = "idle"
    /\ mounted
    /\ OnTop("trip")
    /\ chain' = [chain EXCEPT ![c] = "client_id"]
    /\ UNCHANGED <<status, stream, effects, db, nav>>

Stops(c) ==
    chain' = [chain EXCEPT ![c] = "idle"]

ClientIdRead(c) ==
    /\ chain[c] = "client_id"
    /\ chain' = [chain EXCEPT ![c] = "token"]
    /\ UNCHANGED <<status, stream, effects, db, nav>>

\* The request has no client_id, the client no token, or the read fails.
ReadFails(c) ==
    /\ "read" \in Faults
    /\ chain[c] \in {"client_id", "token"}
    /\ Stops(c)
    /\ UNCHANGED <<status, stream, effects, db, nav>>

\* Mutant: the gas-station branch forgets to move the local status on.
Enter_StatusKept(c, from, to, waiting) ==
    /\ status = from
    /\ status' = IF to = "arrived_at_gas_station" THEN from ELSE to
    /\ outbox' = Append(outbox, [what |-> to, by |-> c])
    /\ chain' = [chain EXCEPT ![c] = waiting]

\* One branch of the handler's if-chain: the local status is set before the
\* await, so a handler that reads its token later sees the new stage.
Enter(c, from, to, waiting) ==
    /\ status = from
    /\ status' = to
    /\ outbox' = Append(outbox, [what |-> to, by |-> c])
    /\ chain' = [chain EXCEPT ![c] = waiting]

\* Mutant: "returning" is left out.
Branch_NoReturning(c) ==
    \/ Enter(c, "accepted", "arrived", "set_arrived")
    \/ Enter(c, "arrived", "arrived_at_gas_station", "set_at_gas_station")
    \/ Enter(c, "arrived_at_gas_station", "completed", "set_completed")
    \/ Enter(c, "completed", "completed", "set_completed_again")

\* Mutant: the first branch writes a word that no branch tests for.
Branch_Misspelt(c) ==
    \/ Enter(c, "accepted", "Arrived", "set_arrived")
    \/ Enter(c, "arrived", "returning", "set_returning")
    \/ Enter(c, "returning", "arrived_at_gas_station", "set_at_gas_station")
    \/ Enter(c, "arrived_at_gas_station", "completed", "set_completed")
    \/ Enter(c, "completed", "completed", "set_completed_again")

Branch(c) ==
    \/ Enter(c, "accepted", "arrived", "set_arrived")
    \/ Enter(c, "arrived", "returning", "set_returning")
    \/ Enter(c, "returning", "arrived_at_gas_station", "set_at_gas_station")
    \/ Enter(c, "arrived_at_gas_station", "completed", "set_completed")
    \/ Enter(c, "completed", "completed", "set_completed_again")

TokenRead(c) ==
    /\ chain[c] = "token"
    /\ Branch(c)
    /\ UNCHANGED <<stream, effects, acks, request, nav>>

-----------------------------------------------------------------------------
(* The database                                                            *)

Applied(w) ==
    CASE w.what = "driver"  -> [request EXCEPT !.driver = TRUE]
      [] w.what = "history" -> [request EXCEPT !.history = TRUE]
      [] w.what = "fares"   -> [request EXCEPT !.fares = TRUE]
      [] OTHER              -> [request EXCEPT !.status = w.what, !.stage = w.what]

\* Mutant: the handler awaits a change of the value instead of the write.
Apply_AcksChangesOnly ==
    /\ outbox # << >>
    /\ outbox' = Tail(outbox)
    /\ request' = Applied(Head(outbox))
    /\ acks' = IF Head(outbox).by = NoChain \/ request' = request THEN acks
               ELSE Append(acks, Head(outbox).by)
    /\ UNCHANGED <<screen, nav>>

\* The next write reaches the database.
Apply ==
    /\ outbox # << >>
    /\ outbox' = Tail(outbox)
    /\ request' = Applied(Head(outbox))
    /\ acks' = IF Head(outbox).by = NoChain THEN acks
               ELSE Append(acks, Head(outbox).by)
    /\ UNCHANGED <<screen, nav>>

\* The client's application cancels the request.  listenForStatusChanges, which
\* would close the screen, is never called: nothing here reacts to it.
ClientCancels ==
    /\ request.status \notin {"cancelled", "ended"}
    /\ request' = [request EXCEPT !.status = "cancelled"]
    /\ UNCHANGED <<outbox, acks, screen, nav>>

-----------------------------------------------------------------------------
(* The handler after its write is acknowledged                             *)

initTimer ==
    /\ timer' = TRUE
    /\ liveTimers' = liveTimers + 1

\* setState and showDialog throw when the screen is gone: the chain stops.
AfterArrived(c) ==
    /\ chain[c] = "set_arrived"
    /\ IF mounted
       THEN /\ routes' = routes \o <<"busy", "wait">>
            /\ chain' = [chain EXCEPT ![c] = "directions"]
       ELSE Stops(c) /\ UNCHANGED routes
    /\ UNCHANGED <<timer, liveTimers>>

AfterReturning(c) ==
    /\ chain[c] = "set_returning"
    /\ Stops(c)
    /\ IF mounted THEN initTimer ELSE UNCHANGED <<timer, liveTimers>>
    /\ UNCHANGED routes

AfterAtGasStation(c) ==
    /\ chain[c] = "set_at_gas_station"
    /\ IF mounted THEN chain' = [chain EXCEPT ![c] = "notify_at_gas_station"]
       ELSE Stops(c)
    /\ UNCHANGED <<routes, timer, liveTimers>>

AfterCompleted(c) ==
    /\ chain[c] = "set_completed"
    /\ IF mounted
       THEN /\ routes' = Append(routes, "wait")
            /\ chain' = [chain EXCEPT ![c] = "directions2"]
       ELSE Stops(c) /\ UNCHANGED routes
    /\ UNCHANGED <<timer, liveTimers>>

AfterCompletedAgain(c) ==
    /\ chain[c] = "set_completed_again"
    /\ chain' = [chain EXCEPT ![c] = "notify_completed"]
    /\ UNCHANGED <<routes, timer, liveTimers>>

\* Acknowledgements arrive in the order of the writes.
Ack ==
    /\ acks # << >>
    /\ acks' = Tail(acks)
    /\ LET c == Head(acks) IN
          \/ AfterArrived(c)
          \/ AfterReturning(c)
          \/ AfterAtGasStation(c)
          \/ AfterCompleted(c)
          \/ AfterCompletedAgain(c)
    /\ UNCHANGED <<status, stream, payRequests, outbox, request, mounted, backs>>

-----------------------------------------------------------------------------
(* Directions and push messages                                            *)

\* obtainPlaceDirectionDetails throws: the dialog it was to close stays open.
DirectionsThrow(c) ==
    /\ "throw" \in Faults
    /\ chain[c] \in {"directions", "directions2", "end_directions"}
    /\ Stops(c)
    /\ UNCHANGED <<status, stream, effects, db, nav>>

\* Mutant: the null is noticed before the dialog is closed.
DirectionsNull_KeepsDialog(c) ==
    /\ "null" \in Faults
    /\ chain[c] \in {"directions", "directions2", "end_directions"}
    /\ Stops(c)
    /\ UNCHANGED <<status, stream, effects, db, nav>>

\* It returns null: getPlaceDirection closes a route, then details! throws.  The
\* "busy" dialog of the arrived branch stays open.
DirectionsNull(c) ==
    /\ "null" \in Faults
    /\ chain[c] \in {"directions", "directions2", "end_directions"}
    /\ Stops(c)
    /\ routes' = IF CanPop THEN Popped(1) ELSE routes
    /\ UNCHANGED <<status, stream, effects, db, mounted, backs>>

\* getPlaceDirection in the arrived branch succeeds: it closes its dialog, moves
\* the map's camera (which throws while the map is not created), and the branch
\* closes the other dialog.
Directions(c) ==
    /\ chain[c] = "directions"
    /\ IF ~CanPop
       THEN Stops(c) /\ UNCHANGED routes
       ELSE IF map = "none" \/ Len(routes) = 1
       THEN Stops(c) /\ routes' = Popped(1)
       ELSE /\ routes' = Popped(2)
            /\ chain' = [chain EXCEPT ![c] = "notify_arrived"]
    /\ UNCHANGED <<status, stream, effects, db, mounted, backs>>

\* Mutant: the dialog is closed twice.
Directions2_PopsTwice(c) ==
    /\ chain[c] = "directions2"
    /\ Stops(c)
    /\ routes' = IF CanPop THEN Popped(2) ELSE routes
    /\ UNCHANGED <<status, stream, effects, db, mounted, backs>>

\* getPlaceDirection2 of the completed branch; fetchFacts and the new button
\* title change nothing modelled here.
Directions2(c) ==
    /\ chain[c] = "directions2"
    /\ Stops(c)
    /\ routes' = IF CanPop THEN Popped(1) ELSE routes
    /\ UNCHANGED <<status, stream, effects, db, mounted, backs>>

\* The push message of the arrived branch was sent or failed; both are caught.
NotifiedArrived(c) ==
    /\ chain[c] = "notify_arrived"
    /\ Stops(c)
    /\ UNCHANGED <<status, stream, effects, db, nav>>

\* Same, at the gas station; _handleRiderActivation then asks for the payment.
\* Provider.of(context) throws once the screen is gone.
NotifiedAtGasStation(c) ==
    /\ chain[c] = "notify_at_gas_station"
    /\ Stops(c)
    /\ payRequests' = IF mounted THEN payRequests + 1 ELSE payRequests
    /\ UNCHANGED <<status, stream, timer, liveTimers, db, nav>>

\* The message of the completed branch is not caught: the trip is not ended.
NotifyCompletedFails(c) ==
    /\ "push" \in Faults
    /\ chain[c] = "notify_completed"
    /\ Stops(c)
    /\ UNCHANGED <<status, stream, effects, db, nav>>

-----------------------------------------------------------------------------
(* endTheTrip                                                              *)

\* Mutant: the timer is not cancelled.
cancelTimer_Missing == UNCHANGED <<timer, liveTimers>>

cancelTimer ==
    /\ timer' = FALSE
    /\ liveTimers' = IF timer THEN liveTimers - 1 ELSE liveTimers

\* The trip's end begins: setState throws when the screen is gone, and
\* myPosition! throws, under an open dialog, when no position ever came.
EndTheTrip(c) ==
    /\ chain[c] = "notify_completed"
    /\ IF mounted
       THEN /\ cancelTimer
            /\ routes' = Append(routes, "busy")
            /\ IF position THEN chain' = [chain EXCEPT ![c] = "end_directions"]
               ELSE Stops(c)
       ELSE Stops(c) /\ UNCHANGED <<timer, liveTimers, routes>>
    /\ UNCHANGED <<status, stream, payRequests, db, mounted, backs>>

\* Mutant: the status is written before the fare.
fareWrites_StatusFirst == << [what |-> "ended", by |-> NoChain],
                             [what |-> "fares", by |-> NoChain] >>

fareWrites == << [what |-> "fares", by |-> NoChain],
                 [what |-> "ended", by |-> NoChain] >>

\* Mutant: the fare dialog is not opened.
FinishTrip_NoDialog(c) ==
    /\ chain[c] = "end_directions"
    /\ Stops(c)
    /\ IF CanPop THEN routes' = Popped(1) /\ outbox' = outbox \o fareWrites
       ELSE UNCHANGED <<routes, outbox>>
    /\ UNCHANGED <<status, stream, effects, acks, request, mounted, backs>>

\* Directions came: the fare is computed and written, then the status, and the
\* fare dialog opens.  saveEarnings parses the event object instead of its
\* value, which always throws: the rider's earnings are never written.
FinishTrip(c) ==
    /\ chain[c] = "end_directions"
    /\ Stops(c)
    /\ IF CanPop
       THEN /\ routes' = Append(Popped(1), "fare")
            /\ outbox' = outbox \o fareWrites
       ELSE UNCHANGED <<routes, outbox>>
    /\ UNCHANGED <<status, stream, effects, acks, request, mounted, backs>>

-----------------------------------------------------------------------------
(* The map and the position stream                                         *)

\* onMapCreated opens getPlaceDirection's dialog; currentPosition! throws when
\* the rider's position is not known.
MapCreated ==
    /\ map = "none"
    /\ mounted
    /\ \/ map' = "directions" /\ routes' = Append(routes, "wait")
       \/ "position" \in Faults /\ map' = "dead" /\ UNCHANGED routes
    /\ UNCHANGED <<status, chain, position, icon, requesting, etaRequests, effects,
                   db, mounted, backs>>

\* Its directions arrive: the dialog is closed and getRideLiveLocationUpdates
\* subscribes to the position stream.
MapDirections ==
    /\ map = "directions"
    /\ IF CanPop THEN map' = "live" /\ routes' = Popped(1)
       ELSE map' = "dead" /\ UNCHANGED routes
    /\ UNCHANGED <<status, chain, position, icon, requesting, etaRequests, effects,
                   db, mounted, backs>>

\* They are null (the dialog is closed first) or throw: no stream ever starts.
MapDirectionsFail ==
    /\ map = "directions"
    /\ map' = "dead"
    /\ \/ "null" \in Faults /\ routes' = (IF CanPop THEN Popped(1) ELSE routes)
       \/ "throw" \in Faults /\ UNCHANGED routes
    /\ UNCHANGED <<status, chain, position, icon, requesting, etaRequests, effects,
                   db, mounted, backs>>

IconLoaded ==
    /\ ~icon
    /\ mounted
    /\ icon' = TRUE
    /\ UNCHANGED <<status, chain, map, position, requesting, etaRequests, effects,
                   db, nav>>

\* Mutant: isRequestingDirection is not consulted.
updateRideDetails_Unguarded ==
    requesting' = TRUE /\ etaRequests' = etaRequests + 1

\* isRequestingDirection lets one request out at a time.
updateRideDetails ==
    IF requesting THEN UNCHANGED <<requesting, etaRequests>>
    ELSE requesting' = TRUE /\ etaRequests' = etaRequests + 1

\* An event of the position stream, which nothing ever cancels.  The marker
\* needs the icon and setState the screen: otherwise the handler throws after
\* it took the position.  Its driver_location write repeats the one of
\* acceptRideRequest and is left out.
PositionEvent ==
    /\ map = "live"
    /\ position' = TRUE
    /\ IF icon /\ mounted THEN updateRideDetails
       ELSE UNCHANGED <<requesting, etaRequests>>
    /\ UNCHANGED <<status, chain, map, icon, effects, db, nav>>

\* The answer clears isRequestingDirection; an exception (in the request, or in
\* setState once the screen is gone) leaves it set for good.
EtaAnswer ==
    /\ etaRequests > 0
    /\ etaRequests' = etaRequests - 1
    /\ \/ requesting' = ~mounted
       \/ "null" \in Faults /\ requesting' = FALSE
       \/ "throw" \in Faults /\ UNCHANGED requesting
    /\ UNCHANGED <<status, chain, map, position, icon, effects, db, nav>>

-----------------------------------------------------------------------------
(* The rider and the device                                                *)

\* The back button closes any route but the last; a tap beside it closes a
\* "wait" dialog in the same way.
Back ==
    /\ backs < BackPresses
    /\ routes # << >>
    /\ ~OnTop("home")
    /\ backs' = backs + 1
    /\ routes' = Popped(1)
    /\ UNCHANGED <<screen, db, mounted>>

\* CollectFareDialog's button pops twice: the dialog and what is below it.
Done ==
    /\ OnTop("fare")
    /\ routes' = Popped(2)
    /\ UNCHANGED <<screen, db, mounted, backs>>

\* The closing animation ends and the State object is disposed.  dispose is not
\* overridden: the timer and the running chains go on.
Dispose ==
    /\ mounted
    /\ \A i \in 1..Len(routes) : routes[i] # "trip"
    /\ mounted' = FALSE
    /\ UNCHANGED <<screen, db, routes, backs>>

\* The process dies.  Writes not yet applied are lost (the database keeps no
\* local copy), and no code opens the trip again.
Crash ==
    /\ "crash" \in Faults
    /\ mounted \/ outbox # << >>
    /\ mounted' = FALSE
    /\ routes' = <<"home">>
    /\ chain' = [c \in Chains |-> "idle"]
    /\ outbox' = << >>
    /\ acks' = << >>
    /\ map' = "dead"
    /\ position' = FALSE
    /\ icon' = FALSE
    /\ requesting' = FALSE
    /\ etaRequests' = 0
    /\ timer' = FALSE
    /\ liveTimers' = 0
    /\ UNCHANGED <<status, payRequests, request, backs>>

-----------------------------------------------------------------------------

Handler(c) ==
    \/ Tap(c) \/ ClientIdRead(c) \/ ReadFails(c) \/ TokenRead(c)
    \/ DirectionsThrow(c) \/ DirectionsNull(c) \/ Directions(c) \/ Directions2(c)
    \/ NotifiedArrived(c) \/ NotifiedAtGasStation(c) \/ NotifyCompletedFails(c)
    \/ EndTheTrip(c) \/ FinishTrip(c)

Next ==
    \/ \E c \in Chains : Handler(c)
    \/ Apply \/ Ack \/ ClientCancels
    \/ MapCreated \/ MapDirections \/ MapDirectionsFail
    \/ IconLoaded \/ PositionEvent \/ EtaAnswer
    \/ Back \/ Done \/ Dispose \/ Crash

Spec == Init /\ [][Next]_vars

\* Connected services answer every call, with a result or an error.
Answered ==
    /\ WF_vars(Apply) /\ WF_vars(Ack)
    /\ \A c \in Chains : WF_vars(Handler(c) /\ ~Tap(c))

AnswersSpec == Spec /\ Answered

\* Besides, a call repeated often enough succeeds at last, and the rider goes on
\* tapping.
RetrySpec ==
    /\ AnswersSpec
    /\ \A c \in Chains :
          /\ WF_vars(Tap(c))
          /\ SF_vars(ClientIdRead(c)) /\ SF_vars(TokenRead(c))
          /\ SF_vars(EndTheTrip(c)) /\ SF_vars(FinishTrip(c))

-----------------------------------------------------------------------------
(* Properties                                                              *)

OnTrip == \E i \in 1..Len(routes) : routes[i] = "trip"

\* The request the database holds goes through the stages of DeliveryLifecycle
\* whatever the number of handlers in flight: none is skipped, the rider is
\* identified before "arrived", and "ended" comes after the fare, also when the
\* application dies between the two writes of endTheTrip.
ImplementsLifecycle == Lifecycle!Spec

\* A request that is "ended" has its fare (the order of endTheTrip's writes).
EndedHasFares == request.stage = "ended" => request.fares

\* However often the button is tapped, the message that asks for the refill to
\* be paid is sent at most once in a trip.
PaidOnce == payRequests <= 1

\* When a trip is ended no timer of the screen is left running: initTimer ran at
\* most once, and before endTheTrip looked for a timer to cancel.
NoTimerAfterEnd == request.stage = "ended" => liveTimers = 0

\* Why ImplementsLifecycle and EndedHasFares hold.  CanApply(req, w): the request
\* req is in a state in which the database may see the write w next; Continues(v, w):
\* the screen issues w right after v.
CanApply(req, w) ==
    /\ w = "accepted" => req.stage = "requested"
    /\ w \in {"driver", "history"} => req.stage = "accepted"
    /\ w = "history" => req.driver
    /\ w = "arrived" => req.stage = "accepted"
    /\ w = "returning" => req.stage = "arrived"
    /\ w = "arrived_at_gas_station" => req.stage = "returning"
    /\ w = "completed" =>
          req.stage \in {"arrived_at_gas_station", "completed", "ended"}
    /\ w \in {"fares", "ended"} => req.stage \in {"completed", "ended"}
    /\ w = "ended" => req.fares
    /\ w \notin {"accepted", "driver", "history"} =>
          req.driver /\ req.history

Continues(v, w) ==
    <<v, w>> \in { <<"accepted", "driver">>, <<"driver", "history">>,
                   <<"history", "arrived">>, <<"arrived", "returning">>,
                   <<"returning", "arrived_at_gas_station">>,
                   <<"arrived_at_gas_station", "completed">>,
                   <<"completed", "completed">>, <<"completed", "fares">>,
                   <<"fares", "ended">>, <<"ended", "fares">>,
                   <<"ended", "completed">> }

\* The writes that can be the last one issued while the local status is s.
LastIssued(s) == CASE s = "accepted"  -> {"history"}
                   [] s = "completed" -> {"completed", "ended"}
                   [] OTHER           -> {s}

\* The process may still issue writes: it was not killed with the screen open.
Running == mounted \/ \E c \in Chains : chain[c] # "idle"

\* At any moment the writes under way lead from the request in the database, by
\* steps of the lifecycle, to the stage the screen believes to be in.
Pipeline ==
    /\ outbox # << >> => CanApply(request, outbox[1].what)
    /\ \A i \in 1..(Len(outbox) - 1) : Continues(outbox[i].what, outbox[i + 1].what)
    /\ Running /\ outbox # << >> => outbox[Len(outbox)].what \in LastIssued(status)
    /\ Running /\ outbox = << >> =>
          /\ request.driver /\ request.history
          /\ request.stage \in IF status = "completed" THEN {"completed", "ended"}
                               ELSE {status}
    /\ \A c \in Chains :
          chain[c] \in {"set_completed_again", "notify_completed", "end_directions"}
             => status = "completed"

\* Why PaidOnce holds: one handler at most is in the gas-station branch, and none
\* is before that stage or once the message is sent.
InStationBranch(c) == chain[c] \in {"set_at_gas_station", "notify_at_gas_station"}

StationOnce ==
    /\ \A c, d \in Chains : InStationBranch(c) /\ InStationBranch(d) => c = d
    /\ status \in {"accepted", "arrived", "returning"} \/ payRequests > 0 =>
          \A c \in Chains : ~InStationBranch(c)
    /\ status \in {"accepted", "arrived", "returning"} => payRequests = 0

\* One directions request of updateRideDetails is in flight at a time, however
\* fast the position events come and whatever exception its answer meets.
EtaSingleFlight == etaRequests <= 1

\* For a rider who waits for a handler to finish before the next tap, and who
\* never dismisses a dialog: the pops of the dialogs never take the trip screen,
\* which is left through the fare dialog, and that leads back to the home page.
LeftThroughFare ==
    [][OnTrip /\ ~OnTrip' => Crash \/ (Done /\ routes' = <<"home">>)]_vars

\* For the same rider "ended" is the last status of the request.  (With two
\* handlers in flight, or after a back press on the fare dialog, the end-trip
\* branch writes "completed" over it.)
EndedFinal == [][request.stage = "ended" => request'.stage = "ended"]_vars

\* For the same rider, no handler of the last stage that ends with the position
\* known, and no request that throws, leaves behind a dialog that blocks the screen
\* for good.  (In the arrived branch a null answer does.)
DialogsClosed ==
    [][ \A c \in Chains :
           chain[c] # "idle" /\ chain'[c] = "idle" /\ status = "completed" /\ position
              => ~(routes' # << >> /\ routes'[Len(routes')] = "busy") ]_vars

\* Every handler comes to an end: no branch awaits something that never answers,
\* also when the screen is closed or the process dies meanwhile.
HandlersSettle == \A c \in Chains : chain[c] # "idle" ~> chain[c] = "idle"

\* For the same rider, once a completed trip's position is known and no dialog
\* is left open, the trip gets ended: failed reads, push messages and directions
\* answered with an error leave the button usable for another try.
CompletedEnds ==
    (status = "completed" /\ position /\ mounted /\ OnTop("trip"))
       ~> (request.stage = "ended" \/ ~mounted)

=============================================================================
