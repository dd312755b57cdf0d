------------------------------ MODULE Dispatch ------------------------------
(***************************************************************************)
(* How a rider gets a trip: the Online/Offline button of the home page     *)
(* (src/lib/pages/homepage.dart), the push messages that announce a        *)
(* request (src/lib/notifications/pushNotificationService.dart) and the    *)
(* dialog that accepts or declines it (notificationDialog.dart).           *)
(*                                                                         *)
(* The three share two places of the database: the pool of available       *)
(* riders (GeoFire "availableRider") and the rider's slot (Riders/<uid>/   *)
(* "new Rider"), which the client's application overwrites as well.        *)
(* Accepting is a check followed by a write: the slot is read, and written *)
(* "accepted" when the answer arrives.                                     *)
(*                                                                         *)
(* The model is of the release build: setState on a disposed page runs its *)
(* closure before it throws.  Reads and writes of the application are      *)
(* performed in the order they were issued: an assumption about the        *)
(* database, and about its two plugins (firebase_database for the slot,    *)
(* flutter_geofire for the pool), which share one connection to it.        *)
(***************************************************************************)
EXTENDS Naturals, Sequences, FiniteSets

CONSTANTS
    Requests,     \* gas requests that clients may offer to this rider
    Toggles,      \* handlers of the Online/Offline button in flight together
    Dialogs,      \* offer dialogs that can exist together
    MaxPushes,    \* bound: push messages for one request, duplicates included
    MaxAccepts,   \* bound: answers to one dialog's Accept button in flight
    MaxOutbox,    \* bound: the rider taps with fewer operations than this under way
    Patient,      \* the rider waits for an answer before the next tap
    Faults        \* subset of {"read", "location", "push", "crash"}

ASSUME RequestsAssumption ==
    Requests \cap {"none", "searching", "accepted", "history", "cancelled", "timeout"} = {}
ASSUME BoundsAssumption ==
    MaxPushes \in Nat \ {0} /\ MaxAccepts \in Nat \ {0} /\ MaxOutbox \in Nat \ {0}
ASSUME PatientAssumption == Patient \in BOOLEAN
ASSUME FaultsAssumption == Faults \subseteq {"read", "location", "push", "crash"}

VARIABLES
    account,   \* Riders/<uid>/status, which an administrator sets
    slot,      \* Riders/<uid>/"new Rider"
    pool,      \* the rider is in GeoFire's availableRider
    outbox,    \* reads and writes issued and not yet performed by the database
    online,    \* AppState.isDriverAvailable
    banner,    \* AppState.driverStatusText
    toggle,    \* toggle[h]: what the button handler h waits for
    tab,       \* the tab MainScreen shows; the others dispose the home page
    geofire,   \* Geofire.initialize was called in this process
    routes,    \* the Navigator's stack, bottom first
    dialog,    \* dialog[d]: its request and the life of its context
    answers,   \* answers[d]: slot values read for d's Accept taps, not yet handled
    asked,     \* asked[d]: Accept taps of d whose read is still in the outbox
    pushes,    \* push messages under way, per request
    client,    \* client[r]: what the client of r believes
    opened     \* trip screens opened so far, per request

database == <<account, slot, pool>>
button   == <<online, banner, toggle, tab, geofire>>
offers   == <<dialog, answers, asked>>
outside  == <<pushes, client>>
vars     == <<database, outbox, button, routes, offers, outside, opened>>

-----------------------------------------------------------------------------
(* State                                                                   *)

SlotValue == Requests \cup {"none", "searching", "accepted", "history",
                            "cancelled", "timeout"}

Home    == [kind |-> "home"]
Offer(d) == [kind |-> "offer", dialog |-> d]
Trip(r) == [kind |-> "trip", request |-> r]
Route   == {Home} \cup {Offer(d) : d \in Dialogs} \cup {Trip(r) : r \in Requests}

SlotWrite(v) == [op |-> "slot", value |-> v]
PoolWrite(b) == [op |-> "pool", value |-> b]
SlotRead(d)  == [op |-> "read", dialog |-> d]
Operation    == {SlotWrite(v) : v \in SlotValue} \cup {PoolWrite(b) : b \in BOOLEAN}
                \cup {SlotRead(d) : d \in Dialogs}

\* A dialog is fetching its request's data, open, closing (off the stack, its
\* context still valid) or gone (its context is not).
NoDialog == [life |-> "free"]
DialogState == {NoDialog} \cup
    [life : {"fetching", "open", "closing", "gone"}, request : Requests]

TypeOK ==
    /\ account \in {"activated", "deactivated"}
    /\ slot \in SlotValue
    /\ pool \in BOOLEAN
    /\ outbox \in Seq(Operation)
    /\ online \in BOOLEAN
    /\ banner \in {"Offline", "Online", "Offline - Deactivated"}
    /\ toggle \in [Toggles -> {"idle", "status", "position"}]
    /\ tab \in {"home", "other"}
    /\ geofire \in BOOLEAN
    /\ routes \in Seq(Route)
    /\ dialog \in [Dialogs -> DialogState]
    /\ answers \in [Dialogs -> Seq(SlotValue)]
    /\ asked \in [Dialogs -> 0..MaxAccepts]
    /\ pushes \in [Requests -> 0..MaxPushes]
    /\ client \in [Requests -> {"waiting", "offered", "withdrawn", "served"}]
    /\ opened \in [Requests -> Nat]

Init ==
    /\ account \in {"activated", "deactivated"}
    /\ slot = "none"
    /\ pool = FALSE
    /\ outbox = << >>
    /\ online = FALSE
    /\ banner = "Offline"
    /\ toggle = [h \in Toggles |-> "idle"]
    /\ tab = "home"
    /\ geofire = FALSE
    /\ routes = <<Home>>
    /\ dialog = [d \in Dialogs |-> NoDialog]
    /\ answers = [d \in Dialogs |-> << >>]
    /\ asked = [d \in Dialogs |-> 0]
    /\ pushes = [r \in Requests |-> 0]
    /\ client = [r \in Requests |-> "waiting"]
    /\ opened = [r \in Requests |-> 0]

OnTop(r) == routes # << >> /\ routes[Len(routes)] = r
Popped == SubSeq(routes, 1, Len(routes) - 1)

\* Nothing the rider started is still under way.
Settled == /\ \A h \in Toggles : toggle[h] = "idle"
           /\ \A d \in Dialogs : asked[d] = 0 /\ answers[d] = << >>
           /\ outbox = << >>

RiderMayTap == Len(outbox) < MaxOutbox /\ (Patient => Settled)

-----------------------------------------------------------------------------
(* The database and the people at its other side                           *)

\* The database performs the next operation of this application.
Perform ==
    /\ outbox # << >>
    /\ outbox' = Tail(outbox)
    /\ LET o == Head(outbox) IN
          \/ /\ o.op = "slot"
             /\ slot' = o.value
             /\ UNCHANGED <<pool, answers, asked>>
          \/ /\ o.op = "pool"
             /\ pool' = o.value
             /\ UNCHANGED <<slot, answers, asked>>
          \/ /\ o.op = "read"
             /\ answers' = [answers EXCEPT ![o.dialog] = Append(@, slot)]
             /\ asked' = [asked EXCEPT ![o.dialog] = @ - 1]
             /\ UNCHANGED <<slot, pool>>
    /\ UNCHANGED <<account, button, routes, dialog, outside, opened>>

\* A client finds the rider in the pool, puts its request into the slot and has
\* a push message sent.
ClientOffers(r) ==
    /\ client[r] = "waiting"
    /\ pool
    /\ slot = "searching"
    /\ slot' = r
    /\ client' = [client EXCEPT ![r] = "offered"]
    /\ pushes' = [pushes EXCEPT ![r] = @ + 1]
    /\ UNCHANGED <<account, pool, outbox, button, routes, offers, opened>>

\* It gives up, by cancelling or by its timer, unless it has seen the acceptance.
ClientWithdraws(r) ==
    /\ client[r] = "offered"
    /\ slot' \in {"cancelled", "timeout"}
    /\ client' = [client EXCEPT ![r] = "withdrawn"]
    /\ UNCHANGED <<account, pool, outbox, pushes, button, routes, offers, opened>>

ClientSeesAcceptance(r) ==
    /\ client[r] = "offered"
    /\ slot \in {"accepted", "history"}
    /\ client' = [client EXCEPT ![r] = "served"]
    /\ UNCHANGED <<database, outbox, pushes, button, routes, offers, opened>>

\* Push messages get lost or arrive twice.
PushFails(r) ==
    /\ "push" \in Faults
    /\ pushes[r] > 0
    /\ \/ pushes' = [pushes EXCEPT ![r] = @ - 1]
       \/ pushes[r] < MaxPushes /\ pushes' = [pushes EXCEPT ![r] = @ + 1]
    /\ UNCHANGED <<database, outbox, client, button, routes, offers, opened>>

AdministratorDecides ==
    /\ account' \in {"activated", "deactivated"} \ {account}
    /\ UNCHANGED <<slot, pool, outbox, button, routes, offers, outside, opened>>

-----------------------------------------------------------------------------
(* The Online/Offline button                                               *)

\* The handler reads the account's status first.
TapToggle(h) ==
    /\ toggle[h] = "idle"
    /\ tab = "home"
    /\ OnTop(Home)
    /\ RiderMayTap
    /\ toggle' = [toggle EXCEPT ![h] = "status"]
    /\ UNCHANGED <<database, outbox, online, banner, tab, geofire, routes, offers, outside,
                   opened>>

updateDriverStatus(text, available) == banner' = text /\ online' = available

\* Mutant: the raw account status is shown.
ToggleDeactivated_RawStatus(h) ==
    /\ toggle[h] = "status"
    /\ account = "deactivated"
    /\ updateDriverStatus(account, FALSE)
    /\ toggle' = [toggle EXCEPT ![h] = "idle"]
    /\ UNCHANGED <<database, outbox, tab, geofire, routes, offers, outside, opened>>

\* A deactivated rider is told so and, by the second of two calls, marked
\* available; the pool is left as it is.
ToggleDeactivated(h) ==
    /\ toggle[h] = "status"
    /\ account = "deactivated"
    /\ updateDriverStatus("Offline - Deactivated", TRUE)
    /\ toggle' = [toggle EXCEPT ![h] = "idle"]
    /\ UNCHANGED <<database, outbox, tab, geofire, routes, offers, outside, opened>>

\* makeRiderOnlineNow is started, not awaited: the page says Online before the
\* position is known.  The position stream opened here only moves the map (its
\* publishing branch tests a flag that nothing sets).
ToggleOnline(h) ==
    /\ toggle[h] = "status"
    /\ account # "deactivated"
    /\ ~online
    /\ updateDriverStatus("Online", TRUE)
    /\ toggle' = [toggle EXCEPT ![h] = "position"]
    /\ UNCHANGED <<database, outbox, tab, geofire, routes, offers, outside, opened>>

\* Geofire.removeLocation.  The plugin only knows where the pool is once
\* makeRiderOnlineNow has called Geofire.initialize in this process; before, the
\* call fails, and nobody looks at its result.
removeLocation == IF geofire THEN <<PoolWrite(FALSE)>> ELSE << >>

\* Mutant: the pool is left alone.
makeRiderOfflineNow_PoolKept == <<SlotWrite("none")>>

\* Mutant: the slot is removed before the pool.
makeRiderOfflineNow_SlotFirst == <<SlotWrite("none")>> \o removeLocation

makeRiderOfflineNow == removeLocation \o <<SlotWrite("none")>>

ToggleOffline(h) ==
    /\ toggle[h] = "status"
    /\ account # "deactivated"
    /\ online
    /\ outbox' = outbox \o makeRiderOfflineNow
    /\ updateDriverStatus("Offline", FALSE)
    /\ toggle' = [toggle EXCEPT ![h] = "idle"]
    /\ UNCHANGED <<database, tab, geofire, routes, offers, outside, opened>>

StatusReadFails(h) ==
    /\ "read" \in Faults
    /\ toggle[h] = "status"
    /\ toggle' = [toggle EXCEPT ![h] = "idle"]
    /\ UNCHANGED <<database, outbox, online, banner, tab, geofire, routes, offers, outside,
                   opened>>

\* Mutant: the position is not published.
onlineWrites_NotPublished == <<SlotWrite("searching"), SlotWrite("searching")>>

\* Mutant: the pool is entered before the slot is there.
onlineWrites_PoolFirst == <<PoolWrite(TRUE), SlotWrite("searching"), SlotWrite("searching")>>

\* The slot is written twice, "searching" and "Searching", around the pool.
onlineWrites == <<SlotWrite("searching"), PoolWrite(TRUE), SlotWrite("searching")>>

\* The rest of makeRiderOnlineNow, once getCurrentPosition answers.
Located(h) ==
    /\ toggle[h] = "position"
    /\ toggle' = [toggle EXCEPT ![h] = "idle"]
    /\ outbox' = outbox \o onlineWrites
    /\ geofire' = TRUE
    /\ UNCHANGED <<database, online, banner, tab, routes, offers, outside, opened>>

\* getCurrentPosition throws (no permission, no service): the page stays Online.
LocationFails(h) ==
    /\ "location" \in Faults
    /\ toggle[h] = "position"
    /\ toggle' = [toggle EXCEPT ![h] = "idle"]
    /\ UNCHANGED <<database, outbox, online, banner, tab, geofire, routes, offers, outside,
                   opened>>

\* MainScreen builds the chosen tab and disposes the other.  The disposed home
\* page's context shows no dialog any more, also not when the tab comes back.
SwitchTab ==
    /\ OnTop(Home)
    /\ RiderMayTap
    /\ tab' \in {"home", "other"} \ {tab}
    /\ dialog' = [d \in Dialogs |-> IF dialog[d].life = "fetching" THEN NoDialog
                                                                ELSE dialog[d]]
    /\ UNCHANGED <<database, outbox, online, banner, toggle, geofire, routes, answers, asked,
                   outside, opened>>

-----------------------------------------------------------------------------
(* Offers                                                                  *)

\* onMessage starts reading the request.  Every home page ever shown listens, but
\* only the present one has a valid context: on another tab the message is lost.
ReceivePush(r, d) ==
    /\ pushes[r] > 0
    /\ dialog[d] = NoDialog
    /\ pushes' = [pushes EXCEPT ![r] = @ - 1]
    /\ dialog' = IF tab = "home"
                 THEN [dialog EXCEPT ![d] = [life |-> "fetching", request |-> r]]
                 ELSE dialog
    /\ UNCHANGED <<database, outbox, client, button, routes, answers, asked, opened>>

\* retrieveRideRequestInfo has the request's data and shows the dialog.
ShowOffer(d) ==
    /\ dialog[d].life = "fetching"
    /\ routes' = Append(routes, Offer(d))
    /\ dialog' = [dialog EXCEPT ![d].life = "open"]
    /\ UNCHANGED <<database, outbox, button, answers, asked, outside, opened>>

\* The request is missing or malformed, or the read fails: nothing is shown.
FetchFails(d) ==
    /\ "read" \in Faults
    /\ dialog[d].life = "fetching"
    /\ dialog' = [dialog EXCEPT ![d] = NoDialog]
    /\ UNCHANGED <<database, outbox, button, routes, answers, asked, outside, opened>>

\* checkAvailabilityOfRide: nothing keeps the button from being tapped again
\* while the slot is read.
TapAccept(d) ==
    /\ OnTop(Offer(d))
    /\ RiderMayTap
    /\ asked[d] + Len(answers[d]) < MaxAccepts
    /\ asked' = [asked EXCEPT ![d] = @ + 1]
    /\ outbox' = Append(outbox, SlotRead(d))
    /\ UNCHANGED <<database, button, routes, dialog, answers, outside, opened>>

\* Decline, like the back button, pops the dialog and leaves the slot as it is.
TapDecline(d) ==
    /\ OnTop(Offer(d))
    /\ RiderMayTap
    /\ routes' = Popped
    /\ dialog' = [dialog EXCEPT ![d].life = "closing"]
    /\ UNCHANGED <<database, outbox, button, answers, asked, outside, opened>>

ContextValid(d) == dialog[d].life \in {"open", "closing"}

\* The dialogs whose route the pop of the top route removes start to close.
Closing == [d \in Dialogs |->
              IF OnTop(Offer(d)) THEN [dialog[d] EXCEPT !.life = "closing"] ELSE dialog[d]]

\* Mutant: accepting leaves the rider in the pool.
acceptWrites_PoolKept == <<SlotWrite("accepted"), SlotWrite("history")>>

\* Accepting writes the slot, leaves the pool, and the trip screen's initState
\* replaces the slot by the rider's history (a child of it).
acceptWrites == <<SlotWrite("accepted")>> \o removeLocation \o <<SlotWrite("history")>>

\* Mutant: an acceptance already written counts as well.
IsMine_AcceptedToo(value, d) == value \in {dialog[d].request, "accepted", "history"}

IsMine(value, d) == value = dialog[d].request

\* Mutant: an offer that is gone pops once more.
CheckAnswered_PopsTwice(d) ==
    /\ answers[d] # << >>
    /\ answers' = [answers EXCEPT ![d] = Tail(@)]
    /\ ContextValid(d) /\ Len(routes) > 1
    /\ dialog' = Closing
    /\ IF IsMine(Head(answers[d]), d)
       THEN /\ routes' = Append(Popped, Trip(dialog[d].request))
            /\ opened' = [opened EXCEPT ![dialog[d].request] = @ + 1]
            /\ outbox' = outbox \o acceptWrites
       ELSE /\ routes' = SubSeq(routes, 1, Len(routes) - 2)
            /\ UNCHANGED <<opened, outbox>>
    /\ UNCHANGED <<database, button, asked, outside>>

\* The slot's value arrives: Navigator.pop takes whatever is on top; the offer
\* is accepted only when the slot holds its request.
CheckAnswered(d) ==
    /\ answers[d] # << >>
    /\ answers' = [answers EXCEPT ![d] = Tail(@)]
    /\ IF ContextValid(d) /\ routes # << >>
       THEN /\ dialog' = Closing
            /\ IF IsMine(Head(answers[d]), d)
               THEN /\ routes' = Append(Popped, Trip(dialog[d].request))
                    /\ opened' = [opened EXCEPT ![dialog[d].request] = @ + 1]
                    /\ outbox' = outbox \o acceptWrites
               ELSE /\ routes' = Popped
                    /\ UNCHANGED <<opened, outbox>>
       ELSE UNCHANGED <<dialog, routes, opened, outbox>>
    /\ UNCHANGED <<database, button, asked, outside>>

\* The dialog's closing animation ends.
DisposeDialog(d) ==
    /\ dialog[d].life = "closing"
    /\ dialog' = [dialog EXCEPT ![d].life = "gone"]
    /\ UNCHANGED <<database, outbox, button, routes, answers, asked, outside, opened>>

\* Model only: a disposed dialog no read refers to may be used again.
ReuseDialog(d) ==
    /\ dialog[d].life = "gone"
    /\ asked[d] = 0 /\ answers[d] = << >>
    /\ dialog' = [dialog EXCEPT ![d] = NoDialog]
    /\ UNCHANGED <<database, outbox, button, routes, answers, asked, outside, opened>>

\* The trip is over or left; TripScreen is about what happens before.
LeaveTrip ==
    /\ \E r \in Requests : OnTop(Trip(r))
    /\ routes' = Popped
    /\ UNCHANGED <<database, outbox, button, offers, outside, opened>>

\* The process dies and is started again: AppState is new and GeoFire not yet
\* initialized; the slot and the pool stay (RiderRequestRef.onDisconnect()
\* registers nothing).
Crash ==
    /\ "crash" \in Faults
    /\ outbox' = << >>
    /\ online' = FALSE
    /\ banner' = "Offline"
    /\ toggle' = [h \in Toggles |-> "idle"]
    /\ tab' = "home"
    /\ geofire' = FALSE
    /\ routes' = <<Home>>
    /\ dialog' = [d \in Dialogs |-> NoDialog]
    /\ answers' = [d \in Dialogs |-> << >>]
    /\ asked' = [d \in Dialogs |-> 0]
    /\ UNCHANGED <<database, outside, opened>>

-----------------------------------------------------------------------------

ToggleHandler(h) ==
    \/ ToggleDeactivated(h) \/ ToggleOnline(h) \/ ToggleOffline(h)
    \/ StatusReadFails(h) \/ Located(h) \/ LocationFails(h)

Next ==
    \/ Perform \/ AdministratorDecides \/ SwitchTab \/ LeaveTrip \/ Crash
    \/ \E r \in Requests : \/ ClientOffers(r) \/ ClientWithdraws(r)
                           \/ ClientSeesAcceptance(r) \/ PushFails(r)
    \/ \E h \in Toggles : TapToggle(h) \/ ToggleHandler(h)
    \/ \E r \in Requests, d \in Dialogs : ReceivePush(r, d)
    \/ \E d \in Dialogs : \/ ShowOffer(d) \/ FetchFails(d)
                          \/ TapAccept(d) \/ TapDecline(d) \/ CheckAnswered(d)
                          \/ DisposeDialog(d) \/ ReuseDialog(d)

Spec == Init /\ [][Next]_vars

\* The database, the status read and the position service answer.
FairSpec == /\ Spec
            /\ WF_vars(Perform)
            /\ \A h \in Toggles : WF_vars(ToggleHandler(h))

-----------------------------------------------------------------------------
(* Properties                                                              *)

\* While the process lives, a client that finds the rider in the pool finds a slot
\* to write to: going online fills the slot first, going offline empties it last,
\* whatever the number of handlers in flight.  (A process that died in the pool
\* leaves its successor a pool entry that Offline does not remove.)
PoolHasSlot == pool => slot # "none"

\* The same for a process that may have been killed and started again, from the
\* moment it has published the rider itself: whatever the process before left in
\* the pool and in the slot, and whatever handlers were in flight meanwhile.
Publishing == \E i \in DOMAIN outbox : outbox[i] = PoolWrite(TRUE)
PublishedHasSlot == geofire /\ pool /\ ~Publishing => slot # "none"

\* For a rider who waits for the answer before the next tap: once things have
\* settled a rider shown as offline is not offered to clients.
OfflineIsHidden == Settled /\ ~online => ~pool

\* For the same rider: nobody on a trip is offered to other clients.
BusyIsHidden ==
    Settled /\ (\E r \in Requests : OnTop(Trip(r))) => ~pool

\* For the same rider, a request is opened once, however many push messages
\* announce it: the second dialog finds the slot changed.
OpenedOnce == \A r \in Requests : opened[r] <= 1

\* For the same rider, nothing but leaving it takes a trip screen away: the
\* answer to an offer shown above it pops the offer and no more.
OnStack(r) == \E i \in DOMAIN routes : routes[i] = r
TripStays == [][\A r \in Requests : OnStack(Trip(r)) => OnStack(Trip(r))' \/ LeaveTrip]_vars

\* A rider shown as online is in the pool at last, unless the page changes its
\* mind or a trip begins (after which nothing puts the rider back).
OnlineGetsAdvertised ==
    (banner = "Online" /\ \A r \in Requests : opened[r] = 0)
       ~> (pool \/ banner # "Online" \/ \E r \in Requests : opened[r] > 0)

=============================================================================
