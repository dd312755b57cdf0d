------------------------------ MODULE Session ------------------------------
(***************************************************************************)
(* Riders who log in one after the other in one process, and what the      *)
(* process believes about them: currentfirebaseUser (Models/Users.dart),   *)
(* the Ride_r provider whose name and phone number an accepted request is  *)
(* signed with, and the push token in the record of each rider.            *)
(*                                                                         *)
(* src/lib/pages/Authpage.dart (initState, login), homepage.dart           *)
(* (initState), ProfileTab.dart (sign-out), riderdetails.dart (save),      *)
(* main.dart (start, token refresh) and pushNotificationService.dart       *)
(* start reads and token requests and await none of them: their answers    *)
(* find whoever is signed in by then, and whichever page is there.         *)
(*                                                                         *)
(* The database answers reads, and the messaging service its requests, in  *)
(* the order of the calls; writes are applied in the order of their issue. *)
(***************************************************************************)
EXTENDS Naturals, Sequences

CONSTANTS
    Riders,
    NoOne,
    Complete,    \* the riders whose record has car details at first
    MaxPages,    \* bound: how many login and home pages are built
    MaxTokens,   \* bound: the token of the device changes MaxTokens - 1 times
    Faults       \* "read", "token": a read or a token request fails (or, for a
                 \* token, has a null answer); "crash"

ASSUME RidersAssumption == NoOne \notin Riders /\ "shared" \notin Riders
ASSUME CompleteAssumption == Complete \subseteq Riders
ASSUME BoundsAssumption == MaxPages \in Nat \ {0} /\ MaxTokens \in Nat \ {0}
ASSUME FaultsAssumption == Faults \subseteq {"read", "token", "crash"}

VARIABLES
    user,       \* FirebaseAuth's currentUser
    screen,     \* the page in front
    opened,     \* login and home pages built so far; the last one has this number
    alive,      \* the numbers of those that are in the widget tree
    currentfirebaseUser,
    riderInfo,  \* whose data the Ride_r provider holds
    reads,      \* reads of Riders/<uid> not yet answered
    complete,   \* the riders whose record has car details
    device,     \* the push token of the device, by number
    requests,   \* token requests not yet answered
    outbox,     \* token writes issued and not yet applied
    token,      \* token[u]: Riders/<u>/token; 0 is none
    fcmToken,   \* Riders/fcmToken, one for all riders
    seen,       \* for the properties: the device's token when the home page was built
    failed      \* for the properties: a call failed since the home page was built

login   == <<user, screen, opened, alive, currentfirebaseUser>>
profile == <<riderInfo, reads, complete>>
tokens  == <<device, requests, outbox, token, fcmToken>>
vars    == <<login, profile, tokens, seen, failed>>

-----------------------------------------------------------------------------
(* State                                                                   *)

\* getCurrentOnlineUserInfo reads the record twice and uses the second answer.
Read  == [what : {"info", "info_again"}, of : Riders, by : 1..MaxPages]
Token == 0..MaxTokens
Write == [key : Riders \cup {"shared"}, value : Token]

\* "page" is getToken of the home page, "start" the one of main, "shared" is
\* saveFCMToken.
Request == {"page", "start", "shared"}

TypeOK ==
    /\ user \in Riders \cup {NoOne}
    /\ screen \in {"auth", "home", "tab", "details"}
    /\ opened \in 1..MaxPages
    /\ alive \subseteq 1..opened
    /\ currentfirebaseUser \in Riders \cup {NoOne}
    /\ riderInfo \in Riders \cup {NoOne}
    /\ reads \in Seq(Read)
    /\ complete \subseteq Riders
    /\ device \in Token
    /\ requests \in Seq(Request)
    /\ outbox \in Seq(Write)
    /\ token \in [Riders -> Token]
    /\ fcmToken \in Token
    /\ seen \in Token
    /\ failed \in BOOLEAN

\* main asks for the token twice; nobody is signed in, and the login page opens.
Init ==
    /\ user = NoOne
    /\ screen = "auth"
    /\ opened = 1
    /\ alive = {1}
    /\ currentfirebaseUser = NoOne
    /\ riderInfo = NoOne
    /\ reads = << >>
    /\ complete = Complete
    /\ device = 1
    /\ requests = <<"start", "shared">>
    /\ outbox = << >>
    /\ token = [u \in Riders |-> 0]
    /\ fcmToken = 0
    /\ seen = 1
    /\ failed = FALSE

-----------------------------------------------------------------------------
(* Pages                                                                   *)

getCurrentOnlineUserInfo(u, page) == << [what |-> "info", of |-> u, by |-> page] >>

\* Mutant: the home page reads the record of currentfirebaseUser, which it has
\* not yet set.
HomePage_StaleUser(u, before) ==
    /\ opened < MaxPages
    /\ screen' = "home"
    /\ opened' = opened + 1
    /\ reads' = reads \o before \o getCurrentOnlineUserInfo(
           IF currentfirebaseUser = NoOne THEN u ELSE currentfirebaseUser, opened + 1)
    /\ currentfirebaseUser' = u
    /\ requests' = Append(requests, "page")
    /\ seen' = device
    /\ failed' = FALSE

\* Mutant: currentfirebaseUser is only set when it holds nobody.
HomePage_UserKept(u, before) ==
    /\ opened < MaxPages
    /\ screen' = "home"
    /\ opened' = opened + 1
    /\ reads' = reads \o before \o getCurrentOnlineUserInfo(u, opened + 1)
    /\ currentfirebaseUser' = IF currentfirebaseUser = NoOne THEN u ELSE currentfirebaseUser
    /\ requests' = Append(requests, "page")
    /\ seen' = device
    /\ failed' = FALSE

\* initState of the home page of u, after the calls before: the read of the
\* record, currentfirebaseUser, and getToken of PushNotificationService.
HomePage(u, before) ==
    /\ opened < MaxPages
    /\ screen' = "home"
    /\ opened' = opened + 1
    /\ reads' = reads \o before \o getCurrentOnlineUserInfo(u, opened + 1)
    /\ currentfirebaseUser' = u
    /\ requests' = Append(requests, "page")
    /\ seen' = device
    /\ failed' = FALSE

\* The login succeeded (Account has its two sign-ins): its page reads the record
\* and pushes the main screen, whose home page stands beside it for a while.
Login(u) ==
    /\ screen = "auth"
    /\ user' = u
    /\ HomePage(u, getCurrentOnlineUserInfo(u, opened))
    /\ alive' = alive \cup {opened + 1}
    /\ UNCHANGED <<riderInfo, complete, device, outbox, token, fcmToken>>

\* The transition ends and the login page is disposed.
AuthPageDisposed ==
    /\ screen = "home"
    /\ alive # {opened}
    /\ alive' = {opened}
    /\ UNCHANGED <<user, screen, opened, currentfirebaseUser, profile, tokens, seen, failed>>

\* Another tab of the main screen: the home page is disposed.
LeaveHome ==
    /\ screen = "home"
    /\ alive = {opened}
    /\ screen' = "tab"
    /\ alive' = {}
    /\ UNCHANGED <<user, opened, currentfirebaseUser, profile, tokens, seen, failed>>

ReturnHome ==
    /\ screen = "tab"
    /\ HomePage(user, << >>)
    /\ alive' = {opened + 1}
    /\ UNCHANGED <<user, riderInfo, complete, device, outbox, token, fcmToken>>

\* The profile tab signs the rider out without awaiting it and opens the login
\* page, which reads the record of the one who leaves if it is built first.
SignOut ==
    /\ screen = "tab"
    /\ opened < MaxPages
    /\ screen' = "auth"
    /\ opened' = opened + 1
    /\ alive' = {opened + 1}
    /\ user' = NoOne
    /\ \/ reads' = reads \o getCurrentOnlineUserInfo(user, opened + 1)
       \/ UNCHANGED reads
    /\ UNCHANGED <<currentfirebaseUser, riderInfo, complete, tokens, seen, failed>>

\* The profile form is saved: the record has car details now, and the login page
\* opens for a rider who is still signed in.
SaveProfile ==
    /\ screen = "details"
    /\ opened < MaxPages
    /\ complete' = complete \cup {user}
    /\ screen' = "auth"
    /\ opened' = opened + 1
    /\ alive' = {opened + 1}
    /\ reads' = reads \o getCurrentOnlineUserInfo(user, opened + 1)
    /\ UNCHANGED <<user, currentfirebaseUser, riderInfo, tokens, seen, failed>>

\* The process dies and starts again: the sign-in and the database remain, and
\* getInitialRoute chooses the page.  The main screen begins as in ReturnHome.
Restart ==
    /\ "crash" \in Faults
    /\ user # NoOne
    /\ screen' = IF user \in complete THEN "tab" ELSE "details"
    /\ alive' = {}
    /\ currentfirebaseUser' = NoOne
    /\ riderInfo' = NoOne
    /\ reads' = << >>
    /\ requests' = <<"start", "shared">>
    /\ outbox' = << >>
    /\ UNCHANGED <<user, opened, complete, device, token, fcmToken, seen, failed>>

-----------------------------------------------------------------------------
(* Answers                                                                 *)

\* The first answer is looked at only for being there.
InfoRead ==
    /\ reads # << >>
    /\ Head(reads).what = "info"
    /\ reads' = Append(Tail(reads), [Head(reads) EXCEPT !.what = "info_again"])
    /\ UNCHANGED <<login, riderInfo, complete, tokens, seen, failed>>

\* fromMap throws without car details, context.read when the page is gone.
SetRider ==
    /\ reads # << >>
    /\ Head(reads).what = "info_again"
    /\ reads' = Tail(reads)
    /\ riderInfo' = IF Head(reads).of \in complete /\ Head(reads).by \in alive
                    THEN Head(reads).of ELSE riderInfo
    /\ UNCHANGED <<login, complete, tokens, seen, failed>>

ReadFails ==
    /\ "read" \in Faults
    /\ reads # << >>
    /\ reads' = Tail(reads)
    /\ failed' = TRUE
    /\ UNCHANGED <<login, riderInfo, complete, tokens, seen>>

Issue(key) == outbox' = Append(outbox, [key |-> key, value |-> device])

\* The key a token request writes to, decided when its answer comes.
Target(request) ==
    CASE request = "shared" -> IF user = NoOne THEN NoOne ELSE "shared"
      [] OTHER -> currentfirebaseUser

\* Mutant: main's getToken does not look whether a rider is known.
TokenAnswered_Unchecked ==
    /\ requests # << >>
    /\ requests' = Tail(requests)
    /\ Issue(Target(Head(requests)))
    /\ UNCHANGED <<login, profile, device, token, fcmToken, seen, failed>>

TokenAnswered ==
    /\ requests # << >>
    /\ requests' = Tail(requests)
    /\ LET key == Target(Head(requests))
       IN  IF key = NoOne THEN UNCHANGED outbox ELSE Issue(key)
    /\ UNCHANGED <<login, profile, device, token, fcmToken, seen, failed>>

TokenFails ==
    /\ "token" \in Faults
    /\ requests # << >>
    /\ requests' = Tail(requests)
    /\ failed' = TRUE
    /\ UNCHANGED <<login, profile, device, outbox, token, fcmToken, seen>>

\* The answer can be null.  main's calls look at it; the home page's sets it as any
\* other, which clears the token of the record.
TokenNull ==
    /\ "token" \in Faults
    /\ requests # << >>
    /\ requests' = Tail(requests)
    /\ outbox' = IF Head(requests) = "page" /\ currentfirebaseUser # NoOne
                 THEN Append(outbox, [key |-> currentfirebaseUser, value |-> 0])
                 ELSE outbox
    /\ failed' = TRUE
    /\ UNCHANGED <<login, profile, device, token, fcmToken, seen>>

\* The messaging service gives the device a new token.  The listener of main
\* writes it to the shared key, not to the rider's.
TokenRefreshed ==
    /\ device < MaxTokens
    /\ device' = device + 1
    /\ requests' = Append(requests, "shared")
    /\ UNCHANGED <<login, profile, outbox, token, fcmToken, seen, failed>>

Apply ==
    /\ outbox # << >>
    /\ outbox' = Tail(outbox)
    /\ IF Head(outbox).key = "shared"
       THEN fcmToken' = Head(outbox).value /\ UNCHANGED token
       ELSE /\ token' = [token EXCEPT ![Head(outbox).key] = Head(outbox).value]
            /\ UNCHANGED fcmToken
    /\ UNCHANGED <<login, profile, device, requests, seen, failed>>

-----------------------------------------------------------------------------

Next ==
    \/ \E u \in Riders : Login(u)
    \/ AuthPageDisposed \/ LeaveHome \/ ReturnHome \/ SignOut \/ SaveProfile
    \/ InfoRead \/ SetRider \/ ReadFails
    \/ TokenAnswered \/ TokenFails \/ TokenNull \/ TokenRefreshed \/ Apply
    \/ Restart

Spec == Init /\ [][Next]_vars

-----------------------------------------------------------------------------
(* Properties                                                              *)

\* Once a home page has its answers, the provider holds the rider it belongs to,
\* whoever was there before and however many reads of earlier pages were still
\* under way: what an accepted request is signed with is the rider's own.  (A rider
\* without car details keeps the data of the one before.)
InfoIsUsers ==
    screen = "home" /\ reads = << >> /\ user \in complete /\ ~failed
        => riderInfo = user

\* Once a home page has its answers, the record of its rider has the token of the
\* device, so that an offer reaches the rider, whoever was there before.  (After a
\* token change it does not, until the home page is built again.)
TokenReaches ==
    screen = "home" /\ requests = << >> /\ outbox = << >> /\ ~failed /\ seen = device
        => token[user] = device
=============================================================================
