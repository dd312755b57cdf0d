# Filld rider: a verification project

Filld is a gas-delivery service. This repository is the rider's Flutter application: a rider goes
online, receives a client's request by push message, accepts it, and walks it through its stages
(arrived, returning, at the gas station, completed, ended) with one button, while the application
reads and writes a Firebase Realtime Database that the clients and administrators share. Everything the
application does is asynchronous: a handler of a button is a chain of awaits, nothing disables the
button meanwhile, and Dart runs other handlers between two awaits. That is what these modules are
about.

The modules model what the code under `src/lib` does, not what it should do. Where a behaviour looks
unintended, the model has it, the properties are stated so that they hold of the code, and
[Hazards without a property](#what-the-code-does-that-no-property-forbids) lists it.

## The system

| Component | Source (`src/lib/...`) | State | Operations | Module |
|---|---|---|---|---|
| Delivery screen | `pages/newRequestScreen.dart`, `CollectFareDialog.dart`, `assistants/requestAssistant.dart` | local `status`, `isRequestingDirection`, `myPosition`, `timer`, the Navigator's stack; `GasRequests/<id>` in the database | the stage button, `acceptRideRequest`, `getPlaceDirection(2)`, `endTheTrip`, the position stream, Done, back | `TripScreen`, `DeliveryLifecycle` |
| Availability and offers | `pages/homepage.dart`, `Models/appstate.dart`, `pages/mainscreen.dart`, `notifications/pushNotificationService.dart`, `notifications/notificationDialog.dart` | `AppState`, the pool `availableRider` (GeoFire), the slot `Riders/<uid>/new Rider`, offer dialogs | Online/Offline, tab change, push received, Accept, Decline | `Dispatch` |
| Fare computation | `Models/Assistants/assistantmethods.dart` (`calculateFares`), `configMaps.dart` | the global ride type | a function of time, distance, ride type | `Fares` |
| History and earnings | `assistantmethods.dart`, `DataHandler/appData.dart`, `pages/earningsTabPage.dart`, `pages/HistoryScreen.dart` | `AppData` | `retrieveHistoryInfo`, `obtainTripRequestsHistoryData`, `saveEarnings` | `TripHistory` |
| Sign-up, login, session | `pages/Authpage.dart`, `main.dart`, `onboarding.dart`, `pages/forgetpassword.dart`, `pages/Onetimepassword.dart` | the signed-in user, `currentfirebaseUser`, the `Ride_r` provider, references cached with the first uid | register, login, start route, reading the rider's record | `Account`, `Session` |
| Profile and deletion | `pages/riderdetails.dart`, `pages/ProfileTab.dart` | form, local copy, `Riders/<uid>`, storage | type, pick, save profile, sign out, delete account | `Account`, `ProfileForm` |
| Push token | `main.dart`, `pushNotificationService.dart` | `Riders/<uid>/token`, `Riders/fcmToken` | `getToken`, `saveFCMToken`, refresh | `Session`, `Account` |
| Guest mode, ratings, ordering, support, widgets, platform runners | the rest | none shared | layout, one-shot calls | not modelled |

How they interact. The offer dialog pushes the delivery screen on the Navigator and writes the slot;
the delivery screen's `initState` takes over with the writes of `acceptRideRequest`. The home page and
the dialog share the pool and the slot in the database and nothing in memory. All parts share one
Navigator, whose `pop` removes whatever is on top. Clients and the administrator act on the same
database at any time. The Firebase client sends the writes of one application in the order they were
issued and completes their futures in that order; the models assume that (`outbox`, a queue). Three of them assume
more about the order of what the database does for one application. `Session` and `TripHistory` let reads be answered in the order in which they
were issued (`reads`, `calls`). `Dispatch` has reads and writes in one queue, and in it the operations of two plugins, `firebase_database` for the slot and
`flutter_geofire` for the pool, which use one connection.

What is hard here, by kind (each is listed with its line in `PROJECT.json`):

* several handlers of one button in flight (double taps), with a local status set before the await;
* `Navigator.pop` after an await, on a stack that changed meanwhile or a context that is gone;
* a check answered later than it was asked (accepting an offer) and a write that follows it;
* two writes that belong together with a crash between them (fare and status; pool and slot);
* futures that throw half way, under a dialog that nothing else closes;
* push messages lost, late or duplicated;
* state that outlives its rider (providers, globals, late answers) when several riders use one process;
* prices computed with floats and truncated before a factor is applied.

## Modules

### `DeliveryLifecycle`: what a request goes through

The abstract specification: one record per request (its `status`; the furthest `stage` the rider
announced; whether driver, history and fares are written). The stage moves along
`requested, accepted, arrived, returning, arrived_at_gas_station, completed, ended` one step at a time,
with two exceptions the code has: a second handler may announce `completed` again, also after
`ended`, and end it again. `status` alone also becomes `cancelled`, by the client, at any time.

### `TripScreen`: the delivery screen

`chain[c]` says what handler `c` of the button waits for; every action is the code between two awaits of
the handler. `Enter`/`Branch` are the if-chain over the local status, `Ack` continues the chain whose write
is acknowledged, `Directions...`/`Notified...` continue it after an HTTP call, `EndTheTrip` and `FinishTrip`
are the two halves of `endTheTrip`. `outbox` holds the writes under way, `Apply` performs the next, `acks` the
acknowledgements to deliver. `routes` is the Navigator's stack with the three kinds of dialogs; `mounted` says
whether the State object lives, since `setState`, `showDialog` and `Provider.of` throw afterwards. `map`, `position`,
`icon`, `requesting` and `etaRequests` are the position stream and the arrival-time request of
`updateRideDetails`. Code that throws inside the handler ends the chain: the tap's `catchError` swallows it.

Abstracted: the contents of routes, markers, texts and fares; the six `driver_*` writes of `acceptRideRequest` are one
write; the `driver_location` write of every position event is left out.

### `Dispatch`: how a rider gets a trip

`outbox` again holds the operations under way, reads included, so that the value `checkAvailabilityOfRide`
gets may be old when it is handled. `toggle[h]` is a handler of the Online button: it waits for the account's
status, then, going online, for the position. `dialog[d]` is an offer dialog: its request is fetched, it is open, it
closes (its context still works) or is gone. `CheckAnswered` is the callback of `checkAvailabilityOfRide` with the pop of
whatever is on top, the acceptance writes, the end of the pool entry and the new screen's first write to the
slot. The client's side (`ClientOffers`, `ClientWithdraws`, `ClientSeesAcceptance`) and the administrator are external;
they do what the rider's code expects of them: look for a rider in the pool, put the request in a slot, send a push
message, write `cancelled` or `timeout`.

`geofire` says whether `Geofire.initialize` was called in this process, which only `makeRiderOnlineNow` does: before it,
`Geofire.removeLocation` fails unnoticed, so that after a crash Offline and Accept leave the pool entry of the process before where it is
(`removeLocation`).

The model is of the release build: in `setState` of a disposed page the closure runs before the exception.

### `Account`: registration to deletion

An account is a user of the authentication service (`auth`, `user`) and a record in the database (`record`), with images in
a storage service (`stored`); nothing changes two of them at once. `signing` is `registerNewUser` or
`loginAndAuthenticateUser` in flight (the latter signs in twice, the second time without trimming the input), `save[h]` is
`_saveProfile` with its parallel uploads and the two updates it then issues, `deletion` is `_deleteUserAccount`: the record
first, the user second. `routes` is the Navigator's stack; `busy` is a dialog that stays when its handler throws. A crash keeps
the signed-in user and loses the writes under way; `StartRoute` is `getInitialRoute`. A record has: the
registration data, the activation `status`, `detailsComp` (`details`), the car details, the images whose address it holds, and the
two fields the home page writes into it (`fields`): the device's token, asked for whenever the page is built, and the slot, which
going online writes when the position is known. `late` counts the answers these two still wait for. The token's answer is written for the user the home
page has asked for last (`current`), the slot to the reference built with the first uid of the process (`reference`). `Session` has which token is
written for whom, and `Dispatch` the order of slot and pool; here they are writers that may come after the record was removed. Other writes below the record,
of an accepted offer and of earnings, come from a trip screen, above which nobody deletes an account.
One sign-up or login and one deletion are in flight at a time (a bound); the pool entry of the rider is not part of this module. A
page's context is taken to be good as long as its route is on the stack. The images of a deleted account stay in the storage, as in the code.

### `ProfileForm`: the draft of the profile

The text field on screen (`shown`), the State's field behind it (`field`), the copy on the device (`local`), and the bodies of
`_loadSavedData` and `_saveDataLocally` that wait for `SharedPreferences`, in order (`tasks`). The eight text fields are
one, and the images are one.

### `Fares`: what a trip costs

`calculateFares` over exact integers: a total of one is 15000 `Units`. The program computes with floats, which differ from the
exact quotient only where the total is a whole number and comes out just under it; the constant `RoundedDown` is the set of trips where that
happens (12 s and 44800 m, for one, cost 8 and not 9), so that what holds for any `RoundedDown` holds for the floats. The ride type is an argument:
the program only ever passes one it does not know (see [below](#what-the-code-does-that-no-property-forbids)).
A function has no steps to explore: its properties are theorems only, and TLC evaluates its assumption with `MCTripHistory`.

### `TripHistory`: job history and earnings

`calls` is the queue of reads a home page starts in `initState` and awaits none of (`what` says which, `by` which page, `of` whose
record); each action named for a read is the callback of its answer. `appData` is `AppData`, which lives as long as the process:
`copies` counts how often a request is in `tripHistoryDataList`. A page that is gone throws at `Provider.of`, so its answers are dropped
after whatever the callback does first. A request is found by the name it was signed with (`named`), which `acceptRideRequest` takes from the `Ride_r` provider: the
first name of any rider whose home page the process has built (`met`), or null. Which of them it is when is `Session`'s question. A record need not have a first
name. `fresh` and `failed` exist for the properties only.

### `Session`: one rider after the other

`reads` are the reads of `Riders/<uid>` that the login page, the start, the home page and the profile form begin, in two rounds
(`getCurrentOnlineUserInfo` reads again when the first answer is there); an answer goes to the provider of whoever is signed in by
then. `requests` are the calls of `getToken` under way, `outbox` the token writes they lead to; `token[u]` is the record's token and
`fcmToken` the key a refresh goes to. A null token is written like any other and clears the record's (`TokenNull`). A rider signs out in `ProfileTab` while all of these are still under way.

`MCDispatch`, `MCAccount` and `MCProfileForm` define the symmetry sets for TLC, `MCTripHistory` the values of the constants that are functions;
`MCTripScreen` and `MCSession` add nothing: symmetry is not sound for liveness, and riders are not alike in `Session`.

## What TLC checks

| Run | Instance | Properties |
|---|---|---|
| `trip_screen` | 2 handlers, 2 back presses, every fault (failed reads, null or throwing directions, failed push, no position, crash); `AnswersSpec` | `TypeOK`, `EndedHasFares`, `PaidOnce`, `NoTimerAfterEnd`, `EtaSingleFlight`, `ImplementsLifecycle`, `HandlersSettle` |
| `trip_retry` | 1 handler, no back press, failed reads, null directions, failed push, crash; `RetrySpec` | `LeftThroughFare`, `EndedFinal`, `DialogsClosed`, `CompletedEnds` |
| `dispatch` | 1 request, 2 toggle handlers, 1 dialog with 2 Accept taps, impatient rider, failed reads, failed location, crash | `TypeOK`, `PublishedHasSlot` |
| `dispatch_patient` | 2 requests, 1 toggle handler, 2 dialogs, duplicated and lost push messages, patient rider | `PoolHasSlot`, `OfflineIsHidden`, `BusyIsHidden`, `OpenedOnce`, `TripStays` |
| `dispatch_online` | 1 request, 1 toggle handler, patient rider, crash; `FairSpec` | `OnlineGetsAdvertised` |
| `account` | 1 account, 2 saves, 2 images, 1 back press, 1 crash, 1 answer awaited for each field, every fault | `TypeOK`, `NoOrphanRegistration`, `ProfileBeforeCar`, `ImagesUploaded`, `ActivationKept` |
| `account_data` | 1 account, 1 save, no image, back press, crash or fault; expected to be violated | `DeletedHasNoData` |
| `profile_form` | 2 texts, changes with up to 3 tasks under way, 1 restart | `TypeOK`, `CopyIsCurrent` |
| `profile_form_image` | the same; expected to be violated | `ImageIsSaved` |
| `trip_history` | 3 riders, one without first name and earnings, 2 requests, 3 home pages, failing and missing reads, crash; `FairSpec` | `TypeOK`, `HistoryOfName`, `LinearGrowth`, `HistoryLoads` |
| `trip_count` | 4 riders, two of one first name, 3 requests, no fault; expected to be violated | `CountIsRiders` |
| `session` | 2 riders, one without car details at first, 4 pages, 2 tokens, failing reads and token requests, crash | `TypeOK`, `InfoIsUsers`, `TokenReaches` |

What they say:

* `ImplementsLifecycle`: whatever the handlers, failures, back presses and crashes, the request in the database
  moves through the stages in order. It holds because the local status is set before the await, and because the
  database applies the writes in order.
* `EndedHasFares`: an ended request has its fare, at every moment, hence for every observer.
* `PaidOnce`: the client's payment is asked for once; only one handler can enter the gas-station branch.
* `NoTimerAfterEnd`: when the request is ended no timer runs. Only one handler starts it, and the first handler that
  ends the trip cancels it.
* `EtaSingleFlight`: one arrival-time request at a time.
* `HandlersSettle`: every handler ends if the services answer.
* `LeftThroughFare`, `EndedFinal`, `DialogsClosed`, `CompletedEnds`: for a rider who taps one handler at a time, never presses back and goes
  on tapping, the screen is left through the fare dialog only, `ended` is final, no dialog of the last stage stays over the screen when its handler is
  done (a known position, and requests that answer, null or not), and a completed delivery is ended or the application died.
* `PoolHasSlot`: as long as the process lives, a client that finds the rider finds a slot to write to, however many handlers of the button race. The run has one handler at a time, the theorem any
  number. After a crash it fails: the new process cannot leave the pool before it has been online once, yet empties the slot (`homepage.dart:554-558`).
* `PublishedHasSlot`: in every process, crashes or not, it holds again from the moment the process has published the rider itself.
* `OfflineIsHidden`, `BusyIsHidden`, `OpenedOnce`, `TripStays`: for a rider who waits for each answer (`Patient`): nobody
  offline or on a trip is offered; a request is opened once although its message may come twice; an answer to a dialog closes
  no trip. Each of them fails for an impatient rider, which is why `Patient` is a constant.
* `OnlineGetsAdvertised`: a rider shown as online gets into the pool.
* `ProfileBeforeCar`, `ImagesUploaded`: no car details without a completed profile, and no address of an image that is not
  in the storage, whatever fails or crashes in between. They rest on the order of the two updates and on `Future.wait`.
* `ActivationKept`: saving the profile again does not undo the administrator's activation.
* `NoOrphanRegistration`: registering creates the user first and the record second, deleting goes the other way, and a crash, a back press or a failure in between
  leaves no registration, which the administrator could activate, without a user. The run has one account, the theorem any number.
* `DeletedHasNoData` is a finding: more than registrations can be left. `_deleteUserAccount` awaits the removal of the record and then deletes the user ("First delete
  user data from DB", `ProfileTab.dart:501`), but the home page below still waits for a token or a position and writes it into the record when it comes.
* `CopyIsCurrent`: the load and the saves of the draft may overtake the typing, but field and copy agree in the end.
* `HistoryOfName`: once a home page has its answers, its earnings are its rider's own, and if requests were signed with its rider's first name before, all of them are
  among the keys, only such are, the count is theirs and each is in the list; late answers of earlier pages and earlier riders do not take their place. It rests on the
  `Provider.of` that throws in a page that is gone and on answers that come in order. It does not say whose requests they are (two riders may share a name, and a
  request may be signed with another's), what a rider without any is shown, or what else is in the list: nothing empties it, so that it shows the
  previous rider's jobs as well.
* `LinearGrowth`: the list repeats its entries at every visit, by two copies and not by its own length.
* `HistoryLoads`: a rider who stays on the page gets the earlier trips listed, unless a read fails.
* `InfoIsUsers`, `TokenReaches`: with answers for earlier riders still under way, a settled home page has its own rider in the provider
  that accepted requests are signed with, and the device's token in its own rider's record.
* `CountIsRiders` is a finding: `countTrips`, "NUMBER OF TRIPS TAKEN FOR USER" (`appData.dart:23`), counts the requests of everybody with
  that first name.
* `ImageIsSaved` is a finding: the comment at `riderdetails.dart:73`, "Save the state after picking an image", stands at a call that
  saves the text fields only. After a restart the picked image is gone, and saving again empties its address in the record.

Bounds. `Chains`, `Toggles` and `Dialogs` bound what is in flight together, not how often it happens: an idle
handler is used again. Two handlers give every race of the button (the second `completed`, the second fare dialog, a pop of
another handler's dialog), and the theorems hold for any number. `BackPresses` = 2 lets two
routes be closed at any moment. `MaxPushes` = 2 is one duplicate. `MaxAccepts` = 2 is a double tap. `MaxOutbox` says with how many
operations under way the rider still taps (2 in `dispatch`; a patient rider waits for 0): handlers in flight go on and
queue more. Two saves and a
back press give the overlap of two saves and the return to a page below; one image per update of the profile suffices, since
`picked` varies. `MaxLate` = 1 is one token and one position that come late, which is one writer more than the code awaits; `MaxWrites` bounds the writes under way beside
which they come (1: to an empty queue; 2 in `account_data`: also behind a removal). The theorems about `Account` hold for any of these bounds. A request is offered once, so `opened` is bounded by the pushes and taps. `MaxVisits` = 3 lets an answer be two pages late, and
the list be fetched again with the keys of a page before. `MaxPages` = 4 is login, home, login, home: one handover with everything of
the first rider still under way; `MaxTokens` = 2 is one refresh. The deadlock check is off: at the end
of a trip, or with requests or visits used up, the system does stop.

Fairness. `AnswersSpec` and `FairSpec` have weak fairness for what runs without the rider: the database's queue, the
acknowledgements, and each handler's continuation, with success or error as the model of a service that answers. Dart's event
loop is a queue, so a continuation that is ready runs. Taps are not fair in them. `TripHistory`'s `FairSpec` has weak fairness for the next
answer, which may be a failure. `RetrySpec` adds that the rider goes on
tapping and that a read, the last push message and directions that are tried again and again succeed at last; without that a service
that always fails would keep the trip open for ever, which the code does not prevent.

## What TLAPS proves

For every value of the constants (any sets of handlers, requests, dialogs, accounts, riders; any bounds; any subset of the faults), from the
named assumptions of each module:

| Module | Theorem | Says |
|---|---|---|
| `TripScreen_proofs` | `TypeCorrect` | `Spec => []TypeOK` |
| | `PipelineCorrect` | `Spec => []Pipeline` |
| | `FaresBeforeEnd` | `Spec => []EndedHasFares` |
| | `LifecycleImplemented` | `Spec => ImplementsLifecycle`: every step of the screen is a step of `DeliveryLifecycle` or leaves the request alone |
| | `PaidAtMostOnce` | `Spec => []PaidOnce` |
| | `EtaOneAtATime` | `Spec => []EtaSingleFlight` |
| `TripTimer_proofs` | `TimerStopped` | `Spec => []NoTimerAfterEnd` |
| | `TripLeftThroughFare`, `EndedIsFinal` | `PatientTrip => (Spec => LeftThroughFare)`, and likewise `EndedFinal` |
| | `LastStageUnblocked` | `PatientTrip /\ "throw" \notin Faults => (Spec => DialogsClosed)` |
| `Dispatch_proofs` | `DispatchTypes` | `Spec => []TypeOK` |
| | `SlotForThePublished` | `Spec => []PublishedHasSlot` |
| | `SlotForEveryone` | `"crash" \notin Faults => (Spec => []PoolHasSlot)`, the hypothesis of the run `dispatch_patient` without its `Patient` |
| | `OfflineRiderHidden`, `BusyRiderHidden`, `RequestOpenedOnce`, `TripScreenStays` | `PatientRun => (Spec => []OfflineIsHidden)`, and likewise `BusyIsHidden`, `OpenedOnce`, `TripStays` |
| `Account_proofs` | `AccountTypeCorrect`, `CarHasProfile`, `ImagesAreStored`, `ActivationIsKept` | `TypeOK`, `ProfileBeforeCar`, `ImagesUploaded`, `ActivationKept` |
| | `RegisteredHasAccount` | `NoOrphanRegistration` |
| `ProfileForm_proofs` | `FormTypeCorrect`, `CopyCatchesUp` | `TypeOK`, `CopyIsCurrent` |
| `Session_proofs` | `SessionTypeCorrect`, `InfoIsCurrent`, `TokenIsCurrent` | `TypeOK`, `InfoIsUsers`, `TokenReaches` |
| `TripHistory_proofs` | `HistoryTypeCorrect`, `ListGrowsLinearly`, `HistoryOfItsName` | `TypeOK`, `LinearGrowth`, `HistoryOfName` |
| `Fares_proofs` | `FareMonotone`, `SplitTrip`, `RideTypesRelated` | longer never costs less, whichever totals are rounded down; a trip charged in two parts costs one more or two less at most (a `Rev-x` ride two and four); the prices of the ride types are multiples up to a truncation |

`PatientRun` is `Patient /\ "crash" \notin Faults`, the hypothesis of the run `dispatch_patient`. `PatientTrip` says that there is one handler and no
back press, as in the run `trip_retry`. The first two of its theorems hold for every fault, the run leaves out a position that is unknown and directions that throw;
`DialogsClosed` is false when directions throw, which is what its theorem's second hypothesis says.

The arguments, by module. In most of them the property alone is not inductive, and the invariant says what the queue of operations under way still holds.

*The stages.* No stage property is inductive, because the local status runs ahead of the database by the writes in
`outbox`. `Pipeline` is the missing link: the head of the outbox may be applied to the request as it is (`CanApply`), each write may follow
the one before it (`Continues`), and the last one (or, with an empty outbox, the request) is what the local status has issued last
(`LastIssued`), as long as something runs that can issue more (`Running`). A new write extends the pipeline at its end, an applied one
leaves it at its front, a crash empties it. Then `Apply` is always a legal step of the lifecycle, and an `ended` at the front has found
its fare. `PaidOnce` needs `StationOnce`: at most one handler is in the gas-station branch, none before the local status is
there, and payment requests and handlers there add up to one at most. `EtaSingleFlight` needs that a request in flight keeps the flag set.

*The timer.* `TimerInv`: each handler has one write under way or acknowledged at most (`OneWriteEach`); the one that starts the timer is
acknowledged before any write of an end-of-trip branch (`TimerBeforeEnd`), because acknowledgements come in the order of the writes; there is one
timer at most (`OneTimer`). So the first handler that ends the trip finds the timer, and none is started behind it.

*The single handler.* `StackInv`: the trip screen lies on the home page with nothing but dialogs above it (`TripOpen`), or the fare dialog lies directly on it
(`FareOpen`), or it is gone (`TripLeft`). While it is open, the dialogs above it are as many as the pops that the handler and `onMapCreated` have
still to make, or more; while a handler runs and the map has not failed they are exactly as many. A pop takes whatever is on top, so the count is what keeps the
screen; and since a known position means that the map is live, nothing lies between the fare dialog and the screen, whose two pops then lead home.
For `EndedFinal`, `ended` is the last write in the outbox, and none follows once it is applied.

*Offers and reads.* `Dispatch`'s `TypeOK` counts the answers a dialog awaits, so it is not inductive. `ShapeInv` adds that the count is the number of that
dialog's reads in the outbox (`ReadsCounted`), that a client who waits has sent no push (`NotAnnounced`), and that an offer is on the stack once at most,
while its dialog is open (`OffersOpen`).

*The pool.* `QueueInv`: in the outbox, entering the pool comes right behind filling the slot and before anything that empties the slot without leaving the pool just
before (`Careful`), and nothing enters it before `geofire` is set. While `geofire` is not set, Offline empties the slot unguarded; once it is, the pool is always left
first. So such an emptying is performed before this process enters the pool, and behind that the slot is there and nothing unguarded is under way (`Kept`): `PoolInv`
says so of a process that has published the rider, `RaceInv`, without crashes, of every rider in the pool.

*The patient rider.* `Activity`: one thing is under way at a time: a handler of the button, a read of the slot or its answer, or what is
left of one of the three series of writes. On it rest `HiddenInv` (entering the pool is under way only for a rider shown as online),
`OpenedInv` (a request that is open is still in the slot only if the acceptance, which overwrites it, is next in the outbox),
`StackInv` (the home page is at the bottom; above a dialog whose answer is awaited there are only offers) and `BusyInv` (with a trip on the stack
the pool is left or leaving it is under way).

*Accounts.* `AccountInv`: `Pending` says which handler every update and removal under way belongs to and what it will write, `Recorded` that
what is written needs nothing that is not there: images in the storage, the profile for the car details. `Waiting` says that an answer the home page waits for has a
user to be written for. For `NoOrphanRegistration`, `Existing` adds that whoever is signed in, about to be registered or about to be deleted has an account; that a removal comes
behind the registration it takes back; and that between the removal and the deletion of the user nothing under way registers the account again.

*The draft.* `CopyInv`: whatever stands behind the first task of the queue is a save, so that no load undoes one.

*The session.* `TokenInv`: for the rider of the home page, the last of the token writes under way carries the device's token, or the request of the
page is still unanswered. `InfoInv`: the second round of the page's own read comes after every read of earlier pages, so its answer is the last to set
the provider.

*History.* `CopiesInv`: the calls under way
that will add a copy of a trip are at most two, and with the copies already listed they fit below twice the number of visits.
`OwnInv`: for what a page lacks, a read of its own is still under way (`Waiting`, `Fetching`) or has failed, and no read of another page passes for one, since
visits are numbered and an answer needs its own page on screen.

Only model-checked: the liveness properties (`HandlersSettle`, `CompletedEnds`, `OnlineGetsAdvertised`, `HistoryLoads`), which with
fairness and ENABLED are out of the prover's reach, as are recursive operators and induction over data (so `LinearGrowth` is about a count
of copies and not about the list). Every invariant and every other action property of a passing run is stated by a theorem, for some of them under the
hypothesis of the run that checks them.

## What the code does that no property forbids

The models reach these; a property against them would be violated.

* `endTheTrip` throws under its own non-dismissible dialog when no position ever came or directions throw
  (`newRequestScreen.dart:946-957`): the screen takes no tap until back is pressed.
* With two handlers, `completed` is written again after `ended` (l. 379), and two fare dialogs open; with a back press
  meanwhile a `pop` closes the screen, or the last route of the application.
* A cancelled request is delivered all the same: `listenForStatusChanges` (l. 84) is never called.
* The rider's earnings never change: `saveEarnings` (l. 1010) parses the event object and throws.
* Leaving the screen before the end keeps the timer and leaves the request `completed` for good.
* Online, Offline, in quick succession, leaves an offline rider in the pool (`homepage.dart:459-485`); so does a crash, and after it Offline does not take the
  rider out, nor does accepting an offer, before Online was tapped and the position known: `Geofire.initialize` is called nowhere else (l. 533). Offline empties the slot
  all the same (l. 557).
* A rider online whose position fails, or who has finished a trip (`enableHomeTabLiveLocationUpdates` is never called), is shown
  as online and is not in the pool.
* A deactivated rider is told so, is marked available and keeps the pool entry (l. 444-458).
* An offer placed between the pool entry and the second write of the slot is overwritten (l. 542).
* A withdrawal between the read and the write of Accept is overwritten (`notificationDialog.dart:155-173`).
* `getRideType` stores the text of the event and not its value (`homepage.dart:222`), so `rideType` never is `Rev-x` or `Rev-standard`: the double and
  the half price of `calculateFares` (`assistantmethods.dart:313-323`) never take effect.
* A record that was removed is written again by a token or a position that comes late (the finding about `DeletedHasNoData`), and by a save whose dialog was closed with the back
  button; the images of a deleted account are never removed from the storage (`ProfileTab.dart:486-493`).
* A null token clears the one in the record (`pushNotificationService.dart:57-60`).
* A request accepted before the provider has its rider is signed with null, or with the name of the rider before (`newRequestScreen.dart:749-753`).
* A login whose input has a blank at its end signs in and never closes its dialog (`Authpage.dart:497-533`).
* An account without a record (a crash in the sign-up, a deletion that fails half way) has no status, and the Online button
  only stops a rider whose status is `deactivated` (`homepage.dart:444`).
* A null answer of the directions in the `arrived` branch leaves the dialog of that branch on the screen.
* `AppData` is not emptied at sign-out: a rider without trips or earnings sees the count and the earnings of the rider before, and everybody sees the jobs of all riders before in
  one list (`appData.dart:25`, `HistoryScreen.dart:26-61`). A rider without car
  details keeps the name and phone number of the rider before (`assistantmethods.dart:285`).
* The token is never taken out of a record at sign-out, so that the device receives the offers of a rider who has left; a refreshed token goes to one key
  for all riders (`main.dart:157`), and the record keeps the old one until the home page is built again.
* `RiderRequestRef` and `Riderskey` keep the first uid of the process (`main.dart:170`): after a handover the slot of the first rider is written.
* Every trip is in the job list once or twice per visit (`assistantmethods.dart:341`).
* What the rider types before the draft is loaded stays on screen and is lost from the field and the copy (`riderdetails.dart:43-67`).

## Not modelled

* The references of `main.dart` that keep the first uid, in `Dispatch` (which has one rider; `Account` has the reference of the slot), and saved verification codes:
  nothing in the code says what they should be.
* The ride type: it reaches `calculateFares` with a value it does not know, so `Fares` takes it as an argument.
* Password reset and the one-time password page: one call each, and the latter checks nothing.
* Guest mode, ratings, ordering and support pages: layout and one-shot calls (a web view, a mail, a phone call); they share no state.
* Widgets, constants, records and geometry (`mapKitAssistant.dart`).
* The runners of Linux, macOS, Windows, Android and iOS, generated by Flutter, and the third-party code vendored under `ios/` (BoringSSL and other pods),
  which is almost all of the repository's C and C++: none of it is this program's logic. The program itself is the Dart code under `lib/`, and what
  of it has state is modelled.
* Methods nothing calls (`listenForStatusChanges`, `ShowPrompt`, `SendPrompt`, `updateRideDetails2`, `sendNotificationToAdmin`,
  `enableHomeTabLiveLocationUpdates`): their absence is what the modules show.

## Plan

Done, the most important behaviour first: `DeliveryLifecycle` and `TripScreen` with their proofs, `Dispatch`, `Account`, `ProfileForm`, `Fares`, `TripHistory`,
`Session`, and the proofs about each of them.

Left: a composition of `Dispatch` with `TripScreen` over a whole shift (nothing puts a rider back into the pool after a trip, so today it would show one
trip per shift) and with `Session` (the references of the first uid), once the code says what should happen.
