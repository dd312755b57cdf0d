---------------------------- MODULE TripHistory ----------------------------
(***************************************************************************)
(* The job history and the earnings of a rider: what initState of          *)
(* src/lib/pages/homepage.dart fetches through                             *)
(* src/lib/Models/Assistants/assistantmethods.dart into AppData            *)
(* (src/lib/DataHandler/appData.dart), which lives as long as the process. *)
(*                                                                         *)
(* A rider's requests are found by the first name they were signed with    *)
(* when accepted, which is the one in the Ride_r provider.                 *)
(*                                                                         *)
(* The home page is built anew whenever its tab is opened and whenever     *)
(* somebody logs in.  Its reads are answered in the order in which they    *)
(* were issued; an answer that comes when its page is gone throws at       *)
(* Provider.of(context).  Riders log in one after the other in the same    *)
(* process, and nothing empties AppData in between.                        *)
(***************************************************************************)
EXTENDS Naturals, Sequences, FiniteSets

CONSTANTS
    Riders,
    NoOne,       \* no rider, no request, no name
    FirstName,   \* FirstName[u]: in the record of u; not always there, nor unique
    Earners,     \* the riders whose record has earnings
    Requests,
    MaxVisits,   \* bound: how often the home page is built
    Faults       \* "read": a read fails, or a request is gone;
                 \* "crash": the process is killed

ASSUME NoOneAssumption == NoOne \notin Riders /\ NoOne \notin Requests
ASSUME FirstNameAssumption == Riders \subseteq DOMAIN FirstName
ASSUME EarnersAssumption == Earners \subseteq Riders
ASSUME MaxVisitsAssumption == MaxVisits \in Nat
ASSUME FaultsAssumption == Faults \subseteq {"read", "crash"}

VARIABLES
    page,       \* the home page on screen and whose it is
    calls,      \* database reads not yet answered, oldest first
    appData,    \* AppData: earnings, countTrips, tripHistoryKeys, tripHistoryDataList
    met,        \* the riders whose home page this process has built
    takenBy,    \* takenBy[r]: who accepted the request
    named,      \* named[r]: its driver_name
    delivering, \* the request whose delivery screen is open above the home page
    fresh,      \* for the properties: requests accepted since the page was built
    failed      \* for the properties: a read of this page failed

local == <<page, calls, appData, met, fresh, failed>>
trips == <<takenBy, named, delivering>>
vars  == <<local, trips>>

-----------------------------------------------------------------------------
(* State                                                                   *)

\* of: the rider the read is about; keys: the requests a "fetch" still awaits.
Read == [what : {"fetch", "earnings", "name", "trips"},
         by   : 1..MaxVisits,
         of   : Riders,
         keys : SUBSET Requests]

Names == {FirstName[u] : u \in Riders} \cup {NoOne}

\* earnings: whose amount is shown; copies[r]: how often r is in the list.
EmptyAppData == [earnings |-> NoOne, countTrips |-> 0, tripHistoryKeys |-> {},
                 copies   |-> [r \in Requests |-> 0]]

TypeOK ==
    /\ page \in [rider : Riders \cup {NoOne}, visit : 0..MaxVisits]
    /\ calls \in Seq(Read)
    /\ appData \in [earnings : Riders \cup {NoOne}, countTrips : Nat,
                    tripHistoryKeys : SUBSET Requests, copies : [Requests -> Nat]]
    /\ met \subseteq Riders
    /\ takenBy \in [Requests -> Riders \cup {NoOne}]
    /\ named \in [Requests -> Names]
    /\ delivering \in Requests \cup {NoOne}
    /\ fresh \subseteq Requests
    /\ failed \in BOOLEAN

Init ==
    /\ page = [rider |-> NoOne, visit |-> 0]
    /\ calls = << >>
    /\ appData = EmptyAppData
    /\ met = {}
    /\ takenBy = [r \in Requests |-> NoOne]
    /\ named = [r \in Requests |-> NoOne]
    /\ delivering = NoOne
    /\ fresh = {}
    /\ failed = FALSE

-----------------------------------------------------------------------------
(* The home page                                                           *)

ReadOf(what, visit, u) == [what |-> what, by |-> visit, of |-> u, keys |-> {}]

\* obtainTripRequestsHistoryData: one read for each key AppData holds.
obtainTripRequestsHistoryData(keys, visit, u) ==
    IF keys = {} THEN << >>
    ELSE << [ReadOf("fetch", visit, u) EXCEPT !.keys = keys] >>

\* initState, and getCurrentArtisanInfo, which it does not await: the keys of
\* the visit before are fetched, then earnings and first name read.
OpenHome(u) ==
    /\ page.rider = NoOne
    /\ page.visit < MaxVisits
    /\ LET visit == page.visit + 1
       IN  /\ page' = [rider |-> u, visit |-> visit]
           /\ calls' = calls
                 \o obtainTripRequestsHistoryData(appData.tripHistoryKeys, visit, u)
                 \o << ReadOf("earnings", visit, u), ReadOf("name", visit, u) >>
    /\ met' = met \cup {u}
    /\ fresh' = {}
    /\ failed' = FALSE
    /\ UNCHANGED <<appData, trips>>

\* Another tab is opened, or the rider signs out: the page is disposed.
LeaveHome ==
    /\ page.rider # NoOne
    /\ delivering = NoOne
    /\ page' = [page EXCEPT !.rider = NoOne]
    /\ UNCHANGED <<calls, appData, met, fresh, failed, trips>>

-----------------------------------------------------------------------------
(* Answers                                                                 *)

\* The page that issued the read is still on screen: Provider.of works.
ContextValid(c) == page.rider # NoOne /\ c.by = page.visit

Answer(what) == calls # << >> /\ Head(calls).what = what

EarningsRead ==
    /\ Answer("earnings")
    /\ calls' = Tail(calls)
    /\ appData' = IF Head(calls).of \in Earners /\ ContextValid(Head(calls))
                  THEN [appData EXCEPT !.earnings = Head(calls).of]
                  ELSE appData
    /\ UNCHANGED <<page, met, fresh, failed, trips>>

\* The query by the first name follows, if the record has one, whether or not the
\* page is still there.
FirstNameRead ==
    /\ Answer("name")
    /\ calls' = IF FirstName[Head(calls).of] = NoOne THEN Tail(calls)
                ELSE Append(Tail(calls), [Head(calls) EXCEPT !.what = "trips"])
    /\ UNCHANGED <<page, appData, met, fresh, failed, trips>>

\* The requests whose driver_name is the first name of u.
TripsNamed(u) == {r \in Requests : named[r] # NoOne /\ named[r] = FirstName[u]}

\* Mutant: the keys are fetched before they are updated.
TripsFound_FetchFirst ==
    /\ Answer("trips")
    /\ LET c == Head(calls)
           found == TripsNamed(c.of)
       IN  IF found # {} /\ ContextValid(c)
           THEN /\ appData' = [appData EXCEPT !.countTrips = Cardinality(found),
                                              !.tripHistoryKeys = found]
                /\ calls' = Tail(calls) \o
                      obtainTripRequestsHistoryData(appData.tripHistoryKeys, c.by, c.of)
           ELSE calls' = Tail(calls) /\ UNCHANGED appData
    /\ UNCHANGED <<page, met, fresh, failed, trips>>

\* Mutant: the list of before is fetched as well.
TripsFound_FetchBoth ==
    /\ Answer("trips")
    /\ LET c == Head(calls)
           found == TripsNamed(c.of)
       IN  IF found # {} /\ ContextValid(c)
           THEN /\ appData' = [appData EXCEPT !.countTrips = Cardinality(found),
                                              !.tripHistoryKeys = found]
                /\ calls' = Tail(calls)
                      \o obtainTripRequestsHistoryData(appData.tripHistoryKeys, c.by, c.of)
                      \o obtainTripRequestsHistoryData(found, c.by, c.of)
           ELSE calls' = Tail(calls) /\ UNCHANGED appData
    /\ UNCHANGED <<page, met, fresh, failed, trips>>

\* An empty result is a null value, which changes nothing.
TripsFound ==
    /\ Answer("trips")
    /\ LET c == Head(calls)
           found == TripsNamed(c.of)
       IN  IF found # {} /\ ContextValid(c)
           THEN /\ appData' = [appData EXCEPT !.countTrips = Cardinality(found),
                                              !.tripHistoryKeys = found]
                /\ calls' = Tail(calls) \o
                      obtainTripRequestsHistoryData(found, c.by, c.of)
           ELSE calls' = Tail(calls) /\ UNCHANGED appData
    /\ UNCHANGED <<page, met, fresh, failed, trips>>

\* The requests of a fetch are answered one by one.
FetchOf(r) ==
    /\ Answer("fetch")
    /\ r \in Head(calls).keys
    /\ LET rest == Head(calls).keys \ {r}
       IN  calls' = IF rest = {} THEN Tail(calls)
                    ELSE << [Head(calls) EXCEPT !.keys = rest] >> \o Tail(calls)

\* One of them arrives and is appended to the list.
TripFetched(r) ==
    /\ FetchOf(r)
    /\ appData' = IF ContextValid(Head(calls)) THEN [appData EXCEPT !.copies[r] = @ + 1]
                  ELSE appData
    /\ UNCHANGED <<page, met, fresh, failed, trips>>

\* It is gone, or its read fails.
TripMissing(r) ==
    /\ "read" \in Faults
    /\ FetchOf(r)
    /\ failed' = (failed \/ Head(calls).by = page.visit)
    /\ UNCHANGED <<page, appData, met, fresh, trips>>

\* The exception of a read that fails is lost.
ReadFails ==
    /\ "read" \in Faults
    /\ Answer("earnings") \/ Answer("name") \/ Answer("trips")
    /\ calls' = Tail(calls)
    /\ failed' = (failed \/ Head(calls).by = page.visit)
    /\ UNCHANGED <<page, appData, met, fresh, trips>>

-----------------------------------------------------------------------------
(* Around the home page                                                    *)

\* Mutant: it is signed with the rider's uid.
AcceptRequest_Uid(r) ==
    /\ page.rider # NoOne
    /\ delivering = NoOne
    /\ takenBy[r] = NoOne
    /\ takenBy' = [takenBy EXCEPT ![r] = page.rider]
    /\ named' = [named EXCEPT ![r] = page.rider]
    /\ delivering' = r
    /\ fresh' = fresh \cup {r}
    /\ UNCHANGED <<page, calls, appData, met, failed>>

\* A rider accepts a request.  It is signed with the first name in the Ride_r
\* provider, where no rider may be yet, or still one who used the process before
\* (Session has when which).  The delivery screen opens on top of the home page,
\* which stays in the tree.  (TripScreen has what happens on it.)
AcceptRequest(r) ==
    /\ page.rider # NoOne
    /\ delivering = NoOne
    /\ takenBy[r] = NoOne
    /\ takenBy' = [takenBy EXCEPT ![r] = page.rider]
    /\ \E name \in {FirstName[u] : u \in met} \cup {NoOne} :
          named' = [named EXCEPT ![r] = name]
    /\ delivering' = r
    /\ fresh' = fresh \cup {r}
    /\ UNCHANGED <<page, calls, appData, met, failed>>

\* The delivery screen is closed: the trip ended, or the rider left it before.
DeliveryCloses ==
    /\ delivering # NoOne
    /\ delivering' = NoOne
    /\ UNCHANGED <<local, takenBy, named>>

\* The process dies and AppData with it.
Crash ==
    /\ "crash" \in Faults
    /\ page.visit > 0
    /\ page' = [page EXCEPT !.rider = NoOne]
    /\ calls' = << >>
    /\ appData' = EmptyAppData
    /\ met' = {}
    /\ delivering' = NoOne
    /\ UNCHANGED <<fresh, failed, takenBy, named>>

-----------------------------------------------------------------------------

Answered == \/ EarningsRead \/ FirstNameRead \/ TripsFound
            \/ \E r \in Requests : TripFetched(r)

Next ==
    \/ \E u \in Riders : OpenHome(u)
    \/ LeaveHome
    \/ EarningsRead \/ FirstNameRead \/ TripsFound \/ ReadFails
    \/ \E r \in Requests : TripFetched(r) \/ TripMissing(r) \/ AcceptRequest(r)
    \/ DeliveryCloses \/ Crash

Spec == Init /\ [][Next]_vars

\* A connected database answers every read.
FairSpec == Spec /\ WF_vars(Answered)

-----------------------------------------------------------------------------
(* Properties                                                              *)

Settled == page.rider # NoOne /\ calls = << >> /\ ~failed

\* The requests of the current rider's first name when the page was built.
Before == TripsNamed(page.rider) \ fresh

\* Once a page has its answers, whoever used the process before and whichever
\* pages were left half loaded: if requests were signed with its rider's first
\* name, the keys and the count it shows are theirs, none of them missing, and
\* each is in the list; the earnings are the rider's own.  (Whose requests they
\* are, and what else is in the list, which nothing empties, is not promised.)
HistoryOfName ==
    Settled =>
        /\ Before # {} =>
              /\ Before \subseteq appData.tripHistoryKeys
              /\ appData.tripHistoryKeys \subseteq TripsNamed(page.rider)
              /\ appData.countTrips = Cardinality(appData.tripHistoryKeys)
              /\ \A r \in appData.tripHistoryKeys : appData.copies[r] > 0
        /\ page.rider \in Earners => appData.earnings = page.rider

\* The list repeats its entries, since the home page fetches the keys of the visit
\* before and those it finds; but it grows by two copies a visit, not with its
\* own length, and the first visit lists nothing twice.
LinearGrowth ==
    \A r \in Requests :
        appData.copies[r] > 0 => appData.copies[r] + 1 <= 2 * page.visit

\* A rider who stays on the home page gets the trips of before listed, unless a
\* read fails.
HistoryLoads ==
    \A r \in Requests :
        (page.rider # NoOne /\ r \in Before)
            ~> (appData.copies[r] > 0 \/ page.rider = NoOne \/ failed)

\* What a comment says of countTrips: "NUMBER OF TRIPS TAKEN FOR USER"
\* (src/lib/DataHandler/appData.dart:23); it may be out of date, but never more.
CountIsRiders ==
    Settled => appData.countTrips <=
                   Cardinality({r \in Requests : takenBy[r] = page.rider})
=============================================================================
