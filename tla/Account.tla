------------------------------ MODULE Account ------------------------------
(***************************************************************************)
(* A rider's account, from registration to deletion: sign-up and login     *)
(* (src/lib/pages/Authpage.dart), the profile form's upload                *)
(* (src/lib/pages/riderdetails.dart), sign-out and deletion                *)
(* (src/lib/pages/ProfileTab.dart), the page a started application shows   *)
(* (src/lib/main.dart), and what the home page writes into the record      *)
(* beside them: the device's token                                         *)
(* (src/lib/notifications/pushNotificationService.dart) and the slot of    *)
(* requests (src/lib/pages/homepage.dart).                                 *)
(*                                                                         *)
(* An account lives in two places no transaction spans: the authentication *)
(* service and the record Riders/<uid> of the database.  Every operation   *)
(* here changes them one after the other, with awaits in between.          *)
(*                                                                         *)
(* Writes reach the database in the order the application issued them.     *)
(***************************************************************************)
EXTENDS Naturals, Sequences, FiniteSets

CONSTANTS
    Accounts,     \* the accounts people of this device may have
    NoOne,        \* nobody is signed in
    Saves,        \* handlers of the form's Save button in flight together
    Images,       \* the images a rider may pick (bound: of Image)
    BackPresses,  \* bound: how often the rider presses back
    Crashes,      \* bound: how often the process is killed and started again
    MaxLate,      \* bound: tokens asked for, and presses of the availability
                  \* button, not yet answered
    MaxWrites,    \* bound: writes under way beside which an answer may come
    Faults        \* what may fail, see Fault

Image == {"rider", "license", "ghana_card"}
Fault == {"auth",    \* the authentication service refuses or is out of reach
          "upload",  \* an upload fails
          "read"}    \* the start route's read fails

ASSUME NoOneAssumption == NoOne \notin Accounts \cup Saves
ASSUME ImagesAssumption == Images \subseteq Image
ASSUME BoundsAssumption == {BackPresses, Crashes, MaxLate, MaxWrites} \subseteq Nat
ASSUME FaultsAssumption == Faults \subseteq Fault

VARIABLES
    auth,      \* auth[u]: the account in the authentication service
    user,      \* FirebaseAuth's current user, who survives a restart
    current,   \* currentfirebaseUser: the user the home page last asked for
    reference, \* uid: whose slot RiderRequestRef is, fixed by its first use
    late,      \* late[f]: answers field f of the record waits for
    record,    \* record[u]: Riders/<u>
    stored,    \* stored[u]: images in the storage service
    outbox,    \* database writes issued and not yet performed
    routes,    \* the Navigator's stack; empty while the application starts
    signing,   \* loginAndAuthenticateUser or registerNewUser in flight
    save,      \* save[h]: _saveProfile in flight
    deletion,  \* _deleteUserAccount in flight
    backs,     \* back presses so far
    crashes    \* crashes so far

service == <<auth, user>>
db      == <<record, stored, outbox>>
tasks   == <<signing, save, deletion>>
home    == <<current, reference, late>>
bounds  == <<backs, crashes>>
vars    == <<service, db, routes, tasks, home, bounds>>

-----------------------------------------------------------------------------
(* State                                                                   *)

\* What the home page writes: the device's token and the slot ("new Rider").
Field == {"token", "slot"}

\* images: the ones the record has an address of.
Blank == [registered |-> FALSE, status |-> "null", details |-> FALSE,
          car |-> FALSE, images |-> {}, fields |-> {}]
Record == [registered : BOOLEAN, status : {"null", "deactivated", "activated"},
           details : BOOLEAN, car : BOOLEAN, images : SUBSET Images,
           fields : SUBSET Field]

Idle == [phase |-> "idle"]
\* at: the place on the stack of the page that started the handler
Signing  == {Idle} \cup [phase : {"create", "login", "login_again"},
                         account : Accounts, exact : BOOLEAN, at : Nat]
Save     == {Idle} \cup [phase : {"upload", "update"}, account : Accounts,
                         picked : SUBSET Images, done : SUBSET Images, acks : 0..2,
                         at : Nat]
Deletion == {Idle} \cup [phase : {"remove", "delete"}, account : Accounts]

\* busy: a dialog that only the code, or the back button, closes
Route == {"onboarding", "auth", "details", "main", "busy"}

Write == [what : {"register", "profile", "car", "remove", "token", "no_token",
                  "slot", "no_slot"}, account : Accounts,
          images : SUBSET Images, by : Saves \cup {NoOne}]

TypeOK ==
    /\ auth \in [Accounts -> {"none", "exists", "deleted"}]
    /\ user \in Accounts \cup {NoOne}
    /\ current \in Accounts \cup {NoOne} /\ reference \in Accounts \cup {NoOne}
    /\ late \in [Field -> 0..MaxLate]
    /\ record \in [Accounts -> Record]
    /\ stored \in [Accounts -> SUBSET Images]
    /\ outbox \in Seq(Write)
    /\ routes \in Seq(Route)
    /\ signing \in Signing
    /\ save \in [Saves -> Save]
    /\ deletion \in Deletion
    /\ backs \in 0..BackPresses
    /\ crashes \in 0..Crashes

Init ==
    /\ auth = [u \in Accounts |-> "none"]
    /\ user = NoOne
    /\ current = NoOne
    /\ reference = NoOne
    /\ late = [f \in Field |-> 0]
    /\ record = [u \in Accounts |-> Blank]
    /\ stored = [u \in Accounts |-> {}]
    /\ outbox = << >>
    /\ routes = << >>
    /\ signing = Idle
    /\ save = [h \in Saves |-> Idle]
    /\ deletion = Idle
    /\ backs = 0
    /\ crashes = 0

OnTop(r) == routes # << >> /\ routes[Len(routes)] = r
\* The context of a handler's page is good while the page is on the stack.
PageThere(r, at) == at \in DOMAIN routes /\ routes[at] = r
Popped == SubSeq(routes, 1, Len(routes) - 1)

-----------------------------------------------------------------------------
(* The start                                                               *)

Asked(f) == late[f] < MaxLate /\ late' = [late EXCEPT ![f] = @ + 1]

\* homepage's initState: it takes the current user and asks for a token.
homeOpens(u) ==
    /\ current' = u
    /\ Asked("token")
    /\ UNCHANGED reference

\* getInitialRoute: without a user, or when the read fails, its future ends in
\* an exception and MyApp falls back to the onboarding page.
StartRoute ==
    /\ routes = << >>
    /\ \/ /\ user = NoOne \/ "read" \in Faults
          /\ routes' = <<"onboarding">>
          /\ UNCHANGED home
       \/ /\ user # NoOne /\ ~record[user].details
          /\ routes' = <<"details">>
          /\ UNCHANGED home
       \/ /\ user # NoOne /\ record[user].details
          /\ routes' = <<"main">>
          /\ homeOpens(user)
    /\ UNCHANGED <<service, db, tasks, bounds>>

\* The end of the introduction removes every route below it.
OnboardingEnds ==
    /\ OnTop("onboarding")
    /\ routes' = <<"auth">>
    /\ UNCHANGED <<service, db, tasks, home, bounds>>

-----------------------------------------------------------------------------
(* Sign-up and login                                                       *)

\* A deleted account's uid is not given out again.
TapSignUp(u) ==
    /\ OnTop("auth")
    /\ signing = Idle
    /\ auth[u] # "deleted"
    /\ signing' = [phase |-> "create", account |-> u, exact |-> TRUE, at |-> Len(routes)]
    /\ routes' = Append(routes, "busy")
    /\ UNCHANGED <<service, db, save, deletion, home, bounds>>

registration(u) == [what |-> "register", account |-> u, images |-> {}, by |-> NoOne]

\* The account exists and its user is signed in; the record is written, without
\* waiting, and the form replaces the route on top (the dialog, normally).
Created ==
    /\ signing.phase = "create"
    /\ auth[signing.account] = "none"
    /\ auth' = [auth EXCEPT ![signing.account] = "exists"]
    /\ user' = signing.account
    /\ outbox' = Append(outbox, registration(signing.account))
    /\ routes' = IF PageThere("auth", signing.at) THEN Append(Popped, "details") ELSE routes
    /\ signing' = Idle
    /\ UNCHANGED <<record, stored, save, deletion, home, bounds>>

\* createUser... or the first signIn... fails: the dialog is popped, and the
\* handler of the error then returns nothing to take a user from, and throws.
SigningFails ==
    /\ \/ signing.phase = "create" /\ auth[signing.account] = "exists"
       \/ signing.phase = "login"  /\ auth[signing.account] # "exists"
       \/ signing.phase \in {"create", "login"} /\ "auth" \in Faults
    /\ routes' = IF PageThere("auth", signing.at) THEN Popped ELSE routes
    /\ signing' = Idle
    /\ UNCHANGED <<service, db, save, deletion, home, bounds>>

\* exact: no blanks around the e-mail address and password.
TapLogin(u, exact) ==
    /\ OnTop("auth")
    /\ signing = Idle
    /\ signing' = [phase |-> "login", account |-> u, exact |-> exact,
                   at |-> Len(routes)]
    /\ routes' = Append(routes, "busy")
    /\ UNCHANGED <<service, db, save, deletion, home, bounds>>

\* The first sign-in trims what was typed.
LoggedIn ==
    /\ signing.phase = "login"
    /\ auth[signing.account] = "exists"
    /\ user' = signing.account
    /\ signing' = [signing EXCEPT !.phase = "login_again"]
    /\ UNCHANGED <<auth, db, routes, save, deletion, home, bounds>>

\* The second one does not.
LoggedInAgain ==
    /\ signing.phase = "login_again"
    /\ auth[signing.account] = "exists"
    /\ signing.exact
    /\ user' = signing.account
    /\ IF PageThere("auth", signing.at)
       THEN routes' = <<"main">> /\ homeOpens(signing.account)
       ELSE UNCHANGED <<routes, home>>
    /\ signing' = Idle
    /\ UNCHANGED <<auth, db, save, deletion, bounds>>

\* Its exception is swallowed: the user is signed in, under an open dialog.
SecondLoginFails ==
    /\ signing.phase = "login_again"
    /\ ~signing.exact \/ auth[signing.account] # "exists" \/ "auth" \in Faults
    /\ signing' = Idle
    /\ UNCHANGED <<service, db, routes, save, deletion, home, bounds>>

SignOut ==
    /\ OnTop("main")
    /\ user' = NoOne
    /\ routes' = <<"auth">>
    /\ UNCHANGED <<auth, db, tasks, home, bounds>>

-----------------------------------------------------------------------------
(* The profile form                                                        *)

\* _saveProfile takes the current user and starts all uploads at once.
TapSave(h, picked) ==
    /\ OnTop("details")
    /\ user # NoOne
    /\ save[h] = Idle
    /\ save' = [save EXCEPT ![h] = [phase |-> "upload", account |-> user,
                                    picked |-> picked, done |-> {}, acks |-> 0,
                                    at |-> Len(routes)]]
    /\ routes' = Append(routes, "busy")
    /\ UNCHANGED <<service, db, signing, deletion, home, bounds>>

Uploaded(h, i) ==
    /\ save[h].phase = "upload"
    /\ i \in save[h].picked \ save[h].done
    /\ save' = [save EXCEPT ![h].done = @ \cup {i}]
    /\ stored' = [stored EXCEPT ![save[h].account] = @ \cup {i}]
    /\ UNCHANGED <<service, record, outbox, routes, signing, deletion, home, bounds>>

\* The exception is swallowed and the dialog stays.  The uploads still running
\* are dropped here: they could only add images no record has an address of.
UploadFails(h) ==
    /\ "upload" \in Faults
    /\ save[h].phase = "upload"
    /\ save[h].done # save[h].picked
    /\ save' = [save EXCEPT ![h] = Idle]
    /\ UNCHANGED <<service, db, routes, signing, deletion, home, bounds>>

\* Mutant: the car is written first.
profileWrites_CarFirst(h) ==
    << [what |-> "car", account |-> save[h].account,
        images |-> save[h].picked \cap {"license", "ghana_card"}, by |-> h],
       [what |-> "profile", account |-> save[h].account,
        images |-> save[h].picked \cap {"rider"}, by |-> h] >>

\* Two updates: the profile and, below it, the car.  The form has no
\* picker for the fourth image, of the insurance, whose address goes nowhere.
profileWrites(h) ==
    << [what |-> "profile", account |-> save[h].account,
        images |-> save[h].picked \cap {"rider"}, by |-> h],
       [what |-> "car", account |-> save[h].account,
        images |-> save[h].picked \cap {"license", "ghana_card"}, by |-> h] >>

\* Mutant: the updates do not wait for the uploads.
AllUploaded_OneIsEnough(h) ==
    save[h].phase = "upload" /\ (save[h].picked = {} \/ save[h].done # {})

\* Future.wait on the four uploads.
AllUploaded(h) == save[h].phase = "upload" /\ save[h].done = save[h].picked

\* Mutant: the updates are issued again and again.
UpdateProfile_Repeated(h) ==
    /\ AllUploaded(h)
    /\ Len(outbox) < 4
    /\ outbox' = outbox \o profileWrites(h)
    /\ UNCHANGED <<service, record, stored, routes, save, signing, deletion, home, bounds>>

UpdateProfile(h) ==
    /\ AllUploaded(h)
    /\ outbox' = outbox \o profileWrites(h)
    /\ save' = [save EXCEPT ![h].phase = "update"]
    /\ UNCHANGED <<service, record, stored, routes, signing, deletion, home, bounds>>

\* Both updates are acknowledged: the login page is pushed above the dialog.
ProfileSaved(h) ==
    /\ save[h].phase = "update"
    /\ save[h].acks = 2
    /\ save' = [save EXCEPT ![h] = Idle]
    /\ routes' = IF PageThere("details", save[h].at) THEN Append(routes, "auth")
                 ELSE routes
    /\ UNCHANGED <<service, db, signing, deletion, home, bounds>>

-----------------------------------------------------------------------------
(* The home page                                                           *)

\* The tab is left and opened again.
HomeTab ==
    /\ OnTop("main")
    /\ user # NoOne
    /\ homeOpens(user)
    /\ UNCHANGED <<service, db, routes, tasks, bounds>>

\* The availability button: the handler takes the current user and reads the
\* status at Riderskey, which fixes uid for the rest of the process.
TapAvailability ==
    /\ OnTop("main")
    /\ user # NoOne
    /\ current' = user
    /\ reference' = IF reference = NoOne THEN user ELSE reference
    /\ Asked("slot")
    /\ UNCHANGED <<service, db, routes, tasks, bounds>>

fieldWrite(what, u) == [what |-> what, account |-> u, images |-> {}, by |-> NoOne]

\* getToken writes what the messaging service returned, a null as well, for the
\* user then current.
TokenAnswers ==
    /\ late["token"] > 0
    /\ Len(outbox) < MaxWrites
    /\ late' = [late EXCEPT !["token"] = @ - 1]
    /\ \E what \in {"token", "no_token"} :
          outbox' = Append(outbox, fieldWrite(what, current))
    /\ UNCHANGED <<service, record, stored, current, reference, routes, tasks, bounds>>

\* Online: the position came, and the slot is set (twice, to the same effect).
\* Offline: it is removed.
SlotAnswers ==
    /\ late["slot"] > 0
    /\ Len(outbox) < MaxWrites
    /\ late' = [late EXCEPT !["slot"] = @ - 1]
    /\ \E what \in {"slot", "no_slot"} :
          outbox' = Append(outbox, fieldWrite(what, reference))
    /\ UNCHANGED <<service, record, stored, current, reference, routes, tasks, bounds>>

\* No token, no status or no position comes, and nothing is written.
NoAnswer(f) ==
    /\ late[f] > 0
    /\ late' = [late EXCEPT ![f] = @ - 1]
    /\ UNCHANGED <<service, db, current, reference, routes, tasks, bounds>>

-----------------------------------------------------------------------------
(* The database and the administrator                                      *)

\* Mutant: the profile update carries the status of a new account.
Updated_StatusReset(rec, w) ==
    [rec EXCEPT !.details = TRUE, !.status = "deactivated",
                !.images = (@ \ {"rider"}) \cup w.images]

\* userProfile is merged into the record: an image not picked this time loses
\* its address.
Updated(rec, w) ==
    [rec EXCEPT !.details = TRUE, !.images = (@ \ {"rider"}) \cup w.images]

Performed(rec, w) ==
    CASE w.what = "register" -> [Blank EXCEPT !.registered = TRUE, !.status = "deactivated"]
      [] w.what = "profile"  -> Updated(rec, w)
      [] w.what = "car"      -> [rec EXCEPT !.car = TRUE,
                                   !.images = (@ \ {"license", "ghana_card"}) \cup w.images]
      [] w.what = "remove"   -> Blank
      [] w.what \in Field    -> [rec EXCEPT !.fields = @ \cup {w.what}]
      [] w.what = "no_token" -> [rec EXCEPT !.fields = @ \ {"token"}]
      [] w.what = "no_slot"  -> [rec EXCEPT !.fields = @ \ {"slot"}]

Perform ==
    /\ outbox # << >>
    /\ outbox' = Tail(outbox)
    /\ LET w == Head(outbox) IN
          /\ record' = [record EXCEPT ![w.account] = Performed(@, w)]
          /\ save' = IF w.by = NoOne THEN save
                     ELSE [save EXCEPT ![w.by].acks = @ + 1]
          /\ deletion' = IF w.what = "remove" THEN [deletion EXCEPT !.phase = "delete"]
                         ELSE deletion
    /\ UNCHANGED <<service, stored, routes, signing, home, bounds>>

AdministratorDecides(u) ==
    /\ record[u].registered
    /\ \E s \in {"activated", "deactivated"} \ {record[u].status} :
          record' = [record EXCEPT ![u].status = s]
    /\ UNCHANGED <<service, stored, outbox, routes, tasks, home, bounds>>

-----------------------------------------------------------------------------
(* Deletion                                                                *)

removal(u) == [what |-> "remove", account |-> u, images |-> {}, by |-> NoOne]

\* Mutant: the removal of the record is not awaited.
TapDelete_NotAwaited ==
    /\ OnTop("main")
    /\ user # NoOne
    /\ deletion = Idle
    /\ deletion' = [phase |-> "delete", account |-> user]
    /\ outbox' = Append(outbox, removal(user))
    /\ UNCHANGED <<service, record, stored, routes, signing, save, home, bounds>>

\* _deleteUserAccount: the record first.  The images stay in the storage.
TapDelete ==
    /\ OnTop("main")
    /\ user # NoOne
    /\ deletion = Idle
    /\ deletion' = [phase |-> "remove", account |-> user]
    /\ outbox' = Append(outbox, removal(user))
    /\ UNCHANGED <<service, record, stored, routes, signing, save, home, bounds>>

\* Then the account, if it is still the one signed in.
AccountDeleted ==
    /\ deletion.phase = "delete"
    /\ user = deletion.account
    /\ auth' = [auth EXCEPT ![deletion.account] = "deleted"]
    /\ user' = NoOne
    /\ routes' = IF PageThere("main", 1) THEN <<"auth">> ELSE routes
    /\ deletion' = Idle
    /\ UNCHANGED <<db, signing, save, home, bounds>>

\* The service wants a recent login: the record is gone, the account is not.
DeletionFails ==
    /\ deletion.phase = "delete"
    /\ "auth" \in Faults \/ user # deletion.account
    /\ deletion' = Idle
    /\ UNCHANGED <<service, db, routes, signing, save, home, bounds>>

-----------------------------------------------------------------------------
(* The rider and the device                                                *)

\* The back button closes any route but the last, dialogs included.
Back ==
    /\ backs < BackPresses
    /\ Len(routes) > 1
    /\ backs' = backs + 1
    /\ routes' = Popped
    /\ UNCHANGED <<service, db, tasks, home, crashes>>

\* The process dies and is started again; writes not performed are lost.
Crash ==
    /\ crashes < Crashes
    /\ routes # << >>
    /\ crashes' = crashes + 1
    /\ routes' = << >>
    /\ outbox' = << >>
    /\ signing' = Idle
    /\ save' = [h \in Saves |-> Idle]
    /\ deletion' = Idle
    /\ current' = NoOne
    /\ reference' = NoOne
    /\ late' = [f \in Field |-> 0]
    /\ UNCHANGED <<service, record, stored, backs>>

Next ==
    \/ StartRoute \/ OnboardingEnds
    \/ Created \/ SigningFails \/ LoggedIn \/ LoggedInAgain \/ SecondLoginFails
    \/ SignOut \/ TapDelete \/ AccountDeleted \/ DeletionFails
    \/ HomeTab \/ TapAvailability \/ TokenAnswers \/ SlotAnswers
    \/ Perform \/ Back \/ Crash
    \/ \E f \in Field : NoAnswer(f)
    \/ \E u \in Accounts : TapSignUp(u) \/ AdministratorDecides(u)
    \/ \E u \in Accounts, exact \in BOOLEAN : TapLogin(u, exact)
    \/ \E h \in Saves, picked \in SUBSET Images : TapSave(h, picked)
    \/ \E h \in Saves, i \in Images : Uploaded(h, i)
    \/ \E h \in Saves : UploadFails(h) \/ UpdateProfile(h) \/ ProfileSaved(h)

Spec == Init /\ [][Next]_vars

-----------------------------------------------------------------------------
(* Properties                                                              *)

\* A rider the administrator can activate has an account: no registration is
\* written for someone without one, and none is left of a deleted one, whatever
\* crashes between the two steps of registering and of deleting.
NoOrphanRegistration ==
    \A u \in Accounts : record[u].registered => auth[u] = "exists"

\* Once an account was deleted, no data of it is left in the database.
DeletedHasNoData == \A u \in Accounts : auth[u] = "deleted" => record[u] = Blank

\* Car details belong to a completed profile, also after a crash between the
\* two updates and with two saves in flight.
ProfileBeforeCar == \A u \in Accounts : record[u].car => record[u].details

\* Every address in a record is of an image in the storage, although uploads
\* run in parallel and fail one by one.
ImagesUploaded == \A u \in Accounts : record[u].images \subseteq stored[u]

\* Only the administrator, or deleting the record, takes an activation away:
\* saving the profile again does not.
ActivationKept ==
    [][\A u \in Accounts :
         record[u].status = "activated" /\ record'[u].status # "activated"
           => AdministratorDecides(u) \/ record'[u] = Blank]_vars
=============================================================================
