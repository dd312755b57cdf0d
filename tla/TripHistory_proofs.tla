------------------------- MODULE TripHistory_proofs -------------------------
(***************************************************************************)
(* Proofs about TripHistory for any riders, names and requests, any number *)
(* of visits, and reads that fail: the types, that the list of trips grows *)
(* by two copies a visit at most, and that a page with its answers shows   *)
(* the earnings of its rider and the trips of its rider's first name.      *)
(***************************************************************************)
EXTENDS TripHistory, SequenceTheorems, FiniteSetTheorems, TLAPS

-----------------------------------------------------------------------------
(* Types                                                                   *)

Signed == {r \in Requests : named[r] # NoOne}

TypeInv ==
    /\ TypeOK
    /\ IsFiniteSet(Signed)
    /\ \A r \in Requests : takenBy[r] = NoOne => named[r] = NoOne

Data == [earnings : Riders \cup {NoOne}, countTrips : Nat,
         tripHistoryKeys : SUBSET Requests, copies : [Requests -> Nat]]

LEMMA EmptyData == EmptyAppData \in Data
<1>1. [r \in Requests |-> 0] \in [Requests -> Nat]
  OBVIOUS
<1>2. {} \in SUBSET Requests
  OBVIOUS
<1>3. QED
  BY <1>1, <1>2 DEF EmptyAppData, Data

\* Requests are signed one by one, so that the trips of a name can be counted.
LEMMA TripsCounted ==
    ASSUME TypeInv, NEW u \in Riders
    PROVE  TripsNamed(u) \subseteq Requests /\ Cardinality(TripsNamed(u)) \in Nat
<1>1. TripsNamed(u) \subseteq Signed /\ Signed \subseteq Requests
  BY DEF TripsNamed, Signed
<1>2. QED
  BY <1>1, FS_Subset, FS_CardinalityType DEF TypeInv

LEMMA FetchType ==
    ASSUME NEW keys \in SUBSET Requests, NEW visit \in 1..MaxVisits, NEW u \in Riders
    PROVE  obtainTripRequestsHistoryData(keys, visit, u) \in Seq(Read)
<1>1. ReadOf("fetch", visit, u) \in Read
  BY DEF ReadOf, Read
<1>2. [ReadOf("fetch", visit, u) EXCEPT !.keys = keys] \in Read
  BY DEF ReadOf, Read
<1>3. QED
  BY <1>2 DEF obtainTripRequestsHistoryData

LEMMA Rest ==
    ASSUME NEW S, NEW s \in Seq(S), s # << >>
    PROVE  /\ Head(s) = s[1] /\ Head(s) \in S /\ Len(s) \in Nat \ {0}
           /\ Tail(s) \in Seq(S) /\ Len(Tail(s)) = Len(s) - 1
           /\ \A i \in 1..Len(Tail(s)) : i + 1 \in 1..Len(s) /\ Tail(s)[i] = s[i + 1]
BY HeadTailProperties

LEMMA TypeInit == Init => TypeInv
<1> SUFFICES ASSUME Init PROVE TypeInv
  OBVIOUS
<1>1. page \in [rider : Riders \cup {NoOne}, visit : 0..MaxVisits]
  <2>1. 0 \in 0..MaxVisits
    BY MaxVisitsAssumption
  <2>2. QED
    BY <2>1 DEF Init
<1>2. appData \in Data
  BY EmptyData DEF Init
<1>3. failed \in BOOLEAN
  BY DEF Init
<1>4. /\ calls \in Seq(Read) /\ met \subseteq Riders
      /\ delivering \in Requests \cup {NoOne} /\ fresh \subseteq Requests
  <2>1. << >> \in Seq(Read)
    OBVIOUS
  <2>2. calls = << >> /\ met = {} /\ delivering = NoOne /\ fresh = {}
    BY DEF Init
  <2>3. QED
    BY <2>1, <2>2
<1>5. TypeOK
  <2>1. takenBy \in [Requests -> Riders \cup {NoOne}]
    BY DEF Init
  <2>2. named \in [Requests -> Names]
    BY DEF Init, Names
  <2>3. QED
    BY <1>1, <1>2, <1>3, <1>4, <2>1, <2>2 DEF TypeOK, Data
<1>6. Signed = {} /\ \A r \in Requests : named[r] = NoOne
  BY DEF Init, Signed
<1>7. QED
  BY <1>5, <1>6, FS_EmptySet DEF TypeInv

LEMMA TypeNext == TypeInv /\ [Next]_vars => TypeInv'
<1> SUFFICES ASSUME TypeInv, [Next]_vars PROVE TypeInv'
  OBVIOUS
<1> USE DEF TypeInv, local, trips
<1>1. ASSUME NEW u \in Riders, OpenHome(u) PROVE TypeInv'
  <2> DEFINE visit == page.visit + 1
             first == obtainTripRequestsHistoryData(appData.tripHistoryKeys, visit, u)
             rest  == << ReadOf("earnings", visit, u), ReadOf("name", visit, u) >>
  <2>1. visit \in 1..MaxVisits /\ appData.tripHistoryKeys \in SUBSET Requests
    <3>1. page.visit \in 0..MaxVisits /\ page.visit < MaxVisits
      BY <1>1 DEF OpenHome, TypeOK
    <3>2. appData.tripHistoryKeys \in SUBSET Requests
      BY DEF TypeOK
    <3>3. QED
      BY <3>1, <3>2, MaxVisitsAssumption
  <2>2. first \in Seq(Read)
    BY <2>1, FetchType
  <2>3. rest \in Seq(Read)
    <3>1. \A what \in {"earnings", "name"} : ReadOf(what, visit, u) \in Read
      BY <2>1 DEF ReadOf, Read
    <3>2. QED
      BY <3>1
  <2>4. calls' = (calls \o first) \o rest
    BY <1>1 DEF OpenHome
  <2>5. page' = [rider |-> u, visit |-> visit]
    BY <1>1 DEF OpenHome
  <2> HIDE DEF visit, first, rest
  <2>6. calls' \in Seq(Read)
    BY <2>2, <2>3, <2>4, ConcatProperties DEF TypeOK
  <2>7. page' \in [rider : Riders \cup {NoOne}, visit : 0..MaxVisits]
    BY <2>1, <2>5
  <2>8. fresh' \subseteq Requests /\ failed' \in BOOLEAN /\ met' \subseteq Riders
        /\ UNCHANGED <<appData, takenBy, named, delivering>>
    BY <1>1 DEF OpenHome, TypeOK
  <2>9. QED
    BY <2>6, <2>7, <2>8 DEF TypeOK, Signed
<1>2. CASE LeaveHome \/ Crash
  <2>1. page' \in [rider : Riders \cup {NoOne}, visit : 0..MaxVisits]
    BY <1>2 DEF LeaveHome, Crash, TypeOK
  <2>2. appData' = appData \/ appData' = EmptyAppData
    BY <1>2 DEF LeaveHome, Crash
  <2>3. appData' \in Data
    BY <2>2, EmptyData DEF Data, TypeOK
  <2>4. /\ calls' = calls \/ calls' = << >>
        /\ met' = met \/ met' = {}
        /\ delivering' = delivering \/ delivering' = NoOne
        /\ UNCHANGED <<fresh, failed, takenBy, named>>
    BY <1>2 DEF LeaveHome, Crash
  <2>5. << >> \in Seq(Read)
    OBVIOUS
  <2>6. calls' \in Seq(Read)
    BY <2>4, <2>5 DEF TypeOK
  <2>7. QED
    BY <2>1, <2>3, <2>4, <2>6 DEF TypeOK, Data, Signed
<1>3. CASE EarningsRead \/ FirstNameRead \/ TripsFound \/ ReadFails
           \/ \E r \in Requests : TripFetched(r) \/ TripMissing(r)
  <2> DEFINE c == Head(calls)
  <2>1. calls \in Seq(Read) /\ calls # << >>
    BY <1>3 DEF EarningsRead, FirstNameRead, TripsFound, ReadFails,
       TripFetched, TripMissing, FetchOf, Answer, TypeOK
  <2>2. c \in Read /\ Tail(calls) \in Seq(Read)
    BY <2>1, Rest
  <2>3. UNCHANGED <<page, met, fresh, takenBy, named, delivering>>
    BY <1>3 DEF EarningsRead, FirstNameRead, TripsFound, ReadFails, TripFetched, TripMissing
  <2>4. failed' \in BOOLEAN
    <3>1. failed' = failed \/ failed' = (failed \/ Head(calls).by = page.visit)
      BY <1>3 DEF EarningsRead, FirstNameRead, TripsFound, ReadFails, TripFetched, TripMissing
    <3>2. QED
      BY <3>1 DEF TypeOK
  <2>6. appData' \in Data
    <3>1. appData \in [earnings : Riders \cup {NoOne}, countTrips : Nat,
                       tripHistoryKeys : SUBSET Requests, copies : [Requests -> Nat]]
      BY DEF TypeOK
    <3>2. CASE EarningsRead
      BY <3>1, <3>2, <2>2 DEF EarningsRead, Read, Data
    <3>3. CASE FirstNameRead \/ ReadFails \/ \E r \in Requests : TripMissing(r)
      BY <3>1, <3>3 DEF FirstNameRead, ReadFails, TripMissing, Data
    <3>4. CASE TripsFound
      <4>1. TripsNamed(c.of) \subseteq Requests /\ Cardinality(TripsNamed(c.of)) \in Nat
        BY <2>2, TripsCounted DEF Read
      <4>2. QED
        BY <3>1, <3>4, <4>1 DEF TripsFound, Data
    <3>5. ASSUME NEW r \in Requests, TripFetched(r)
          PROVE  appData' \in Data
      <4> DEFINE copies == [appData.copies EXCEPT ![r] = appData.copies[r] + 1]
      <4>1. copies \in [Requests -> Nat]
        BY <3>1
      <4>2. appData' = appData \/ appData' = [appData EXCEPT !.copies = copies]
        BY <3>5 DEF TripFetched
      <4> HIDE DEF copies
      <4>3. QED
        BY <3>1, <4>1, <4>2 DEF Data
    <3>6. QED
      BY <1>3, <3>2, <3>3, <3>4, <3>5
  <2>7. calls' \in Seq(Read)
    <3>1. CASE EarningsRead \/ ReadFails
      BY <2>2, <3>1 DEF EarningsRead, ReadFails
    <3>2. CASE FirstNameRead
      <4>1. [c EXCEPT !.what = "trips"] \in Read
        BY <2>2 DEF Read
      <4>2. QED
        BY <2>2, <3>2, <4>1, AppendProperties DEF FirstNameRead
    <3>3. CASE TripsFound
      <4>1. TripsNamed(c.of) \in SUBSET Requests /\ c.by \in 1..MaxVisits /\ c.of \in Riders
        BY <2>2 DEF TripsNamed, Read
      <4>2. obtainTripRequestsHistoryData(TripsNamed(c.of), c.by, c.of) \in Seq(Read)
        BY <4>1, FetchType
      <4>3. Tail(calls) \o obtainTripRequestsHistoryData(TripsNamed(c.of), c.by, c.of) \in Seq(Read)
        BY <2>2, <4>2, ConcatProperties
      <4>4. QED
        BY <2>2, <3>3, <4>3 DEF TripsFound
    <3>4. ASSUME NEW r \in Requests, FetchOf(r) PROVE calls' \in Seq(Read)
      <4> DEFINE d == [c EXCEPT !.keys = c.keys \ {r}]
      <4>1. d \in Read
        BY <2>2 DEF Read
      <4>2. calls' = Tail(calls) \/ calls' = <<d>> \o Tail(calls)
        BY <3>4 DEF FetchOf
      <4> HIDE DEF d
      <4>3. <<d>> \in Seq(Read)
        BY <4>1
      <4>4. QED
        BY <2>2, <4>2, <4>3, ConcatProperties
    <3>5. QED
      BY <1>3, <3>1, <3>2, <3>3, <3>4 DEF TripFetched, TripMissing
  <2>8. QED
    BY <2>3, <2>4, <2>6, <2>7 DEF TypeOK, Data, Signed
<1>4. ASSUME NEW r \in Requests, AcceptRequest(r) PROVE TypeInv'
  <2>1. PICK name \in {FirstName[u] : u \in met} \cup {NoOne} :
           named' = [named EXCEPT ![r] = name]
    BY <1>4 DEF AcceptRequest
  <2>2. name \in Names
    BY <2>1 DEF Names, TypeOK
  <2>3. named' \in [Requests -> Names]
    BY <2>1, <2>2 DEF TypeOK
  <2>4. /\ takenBy' \in [Requests -> Riders \cup {NoOne}] /\ delivering' \in Requests \cup {NoOne}
        /\ fresh' \subseteq Requests
        /\ UNCHANGED <<page, calls, appData, met, failed>>
    BY <1>4 DEF AcceptRequest, TypeOK
  <2>5. Signed' \subseteq Signed \cup {r}
    BY <2>1 DEF TypeOK, Signed
  <2>6. IsFiniteSet(Signed \cup {r})
    BY FS_AddElement
  <2>7. IsFiniteSet(Signed')
    BY <2>5, <2>6, FS_Subset
  <2>8. takenBy'[r] # NoOne /\ \A q \in Requests : q # r => takenBy'[q] = takenBy[q] /\ named'[q] = named[q]
    BY <1>4, <2>1, NoOneAssumption DEF AcceptRequest, TypeOK
  <2>9. QED
    BY <2>3, <2>4, <2>7, <2>8 DEF TypeOK
<1>5. CASE DeliveryCloses \/ UNCHANGED vars
  <2>1. /\ delivering' \in Requests \cup {NoOne}
        /\ UNCHANGED <<page, calls, appData, met, fresh, failed, takenBy, named>>
    BY <1>5 DEF DeliveryCloses, vars, TypeOK
  <2>2. QED
    BY <2>1 DEF TypeOK, Signed
<1>6. QED
  BY <1>1, <1>2, <1>3, <1>4, <1>5 DEF Next

-----------------------------------------------------------------------------
(* The length of the list                                                  *)

\* Call i of the page on screen will add a copy of r when it is answered, or
\* start the fetch that does.
Adds(r, i) ==
    /\ calls[i].by = page.visit
    /\ \/ calls[i].what \in {"name", "trips"}
       \/ calls[i].what = "fetch" /\ r \in calls[i].keys

\* With b copies of r in the list, the calls that add one are at most two and fit
\* below twice the number of visits.
Fits(r) ==
    LET b == appData.copies[r]
    IN  /\ b = 0 \/ b + 1 <= 2 * page.visit
        /\ \A i \in 1..Len(calls) : Adds(r, i) => b + 2 <= 2 * page.visit
        /\ \A i, j \in 1..Len(calls) :
              i # j /\ Adds(r, i) /\ Adds(r, j) => b + 3 <= 2 * page.visit
        /\ \A i, j, k \in 1..Len(calls) :
              ~(i # j /\ i # k /\ j # k /\ Adds(r, i) /\ Adds(r, j) /\ Adds(r, k))

CopiesInv ==
    /\ page.visit = 0 => appData.tripHistoryKeys = {}
    /\ \A i \in 1..Len(calls) : calls[i].by <= page.visit
    /\ \A r \in Requests : Fits(r)

LEMMA CopiesInit == Init => CopiesInv
<1> SUFFICES ASSUME Init PROVE CopiesInv
  OBVIOUS
<1>1. Len(calls) = 0 /\ appData.tripHistoryKeys = {} /\ \A r \in Requests : appData.copies[r] = 0
  BY DEF Init, EmptyAppData
<1>2. QED
  BY <1>1 DEF CopiesInv, Fits

\* Every call that adds a copy after the step did so before, in a place of its own.
LEMMA FitsKept ==
    ASSUME NEW r \in Requests, Fits(r), NEW g,
           page'.visit = page.visit, appData'.copies[r] = appData.copies[r],
           \A i \in 1..Len(calls') : Adds(r, i)' => g[i] \in 1..Len(calls) /\ Adds(r, g[i]),
           \A i, j \in 1..Len(calls') : i # j /\ Adds(r, i)' /\ Adds(r, j)' => g[i] # g[j]
    PROVE  Fits(r)'
<1>1. appData'.copies[r] = 0 \/ appData'.copies[r] + 1 <= 2 * page'.visit
  BY DEF Fits
<1>2. ASSUME NEW i \in 1..Len(calls'), Adds(r, i)'
      PROVE  appData'.copies[r] + 2 <= 2 * page'.visit
  BY <1>2 DEF Fits
<1>3. ASSUME NEW i \in 1..Len(calls'), NEW j \in 1..Len(calls'), i # j, Adds(r, i)', Adds(r, j)'
      PROVE  appData'.copies[r] + 3 <= 2 * page'.visit
  <2>1. /\ g[i] \in 1..Len(calls) /\ Adds(r, g[i]) /\ g[j] \in 1..Len(calls) /\ Adds(r, g[j])
        /\ g[i] # g[j]
    BY <1>3
  <2>2. QED
    BY <2>1 DEF Fits
<1>4. ASSUME NEW i \in 1..Len(calls'), NEW j \in 1..Len(calls'), NEW k \in 1..Len(calls'),
             i # j, i # k, j # k, Adds(r, i)', Adds(r, j)', Adds(r, k)'
      PROVE  FALSE
  <2>1. /\ g[i] \in 1..Len(calls) /\ Adds(r, g[i]) /\ g[j] \in 1..Len(calls) /\ Adds(r, g[j])
        /\ g[k] \in 1..Len(calls) /\ Adds(r, g[k])
        /\ g[i] # g[j] /\ g[i] # g[k] /\ g[j] # g[k]
    BY <1>4
  <2>2. QED
    BY <2>1 DEF Fits
<1>5. QED
  BY <1>1, <1>2, <1>3, <1>4 DEF Fits

\* The first call is answered, and at most one takes its place at the end.
LEMMA CopiesRequeued ==
    ASSUME CopiesInv, calls \in Seq(Read), calls # << >>,
           NEW s \in Seq(Read), Len(s) <= 1, calls' = Tail(calls) \o s,
           Len(s) = 1 => s[1].by = calls[1].by /\ calls[1].what \in {"name", "trips"},
           page'.visit = page.visit, appData'.copies = appData.copies
    PROVE  /\ \A i \in 1..Len(calls') : calls'[i].by <= page'.visit
           /\ \A r \in Requests : Fits(r)'
<1> DEFINE n == Len(calls)
           m == Len(calls')
           g == [i \in 1..m |-> IF i + 1 <= n THEN i + 1 ELSE 1]
<1>1. /\ n \in Nat \ {0} /\ Tail(calls) \in Seq(Read) /\ Len(Tail(calls)) = n - 1
      /\ \A i \in 1..(n - 1) : Tail(calls)[i] = calls[i + 1]
  BY Rest
<1>2. /\ Len(s) \in {0, 1} /\ m = n - 1 + Len(s)
      /\ \A i \in 1..m : calls'[i] = IF i <= n - 1 THEN Tail(calls)[i] ELSE s[i - (n - 1)]
  <2>1. Len(s) \in Nat /\ Len(s) <= 1
    OBVIOUS
  <2>2. /\ m = Len(Tail(calls)) + Len(s)
        /\ \A i \in 1..(Len(Tail(calls)) + Len(s)) :
              calls'[i] = IF i <= Len(Tail(calls)) THEN Tail(calls)[i] ELSE s[i - Len(Tail(calls))]
    BY <1>1, ConcatProperties
  <2>3. Len(s) \in {0, 1}
    <3>1. \A k \in Nat : k <= 1 => k \in {0, 1}
      OBVIOUS
    <3>2. QED
      BY <2>1, <3>1
  <2>4. m = n - 1 + Len(s)
    BY <1>1, <2>2
  <2>5. ASSUME NEW i \in 1..m
        PROVE  calls'[i] = IF i <= n - 1 THEN Tail(calls)[i] ELSE s[i - (n - 1)]
    <3>1. i \in 1..(Len(Tail(calls)) + Len(s))
      BY <2>2
    <3>2. QED
      BY <1>1, <2>2, <3>1
  <2>6. QED
    BY <2>3, <2>4, <2>5
<1> HIDE DEF n, m
<1>3. \A i \in 1..m : i + 1 <= n => i + 1 \in 1..n /\ calls'[i] = calls[i + 1]
  BY <1>1, <1>2
<1>4. \A i \in 1..m : ~(i + 1 <= n) => i = n /\ Len(s) = 1 /\ calls'[i] = s[1]
  <2>1. SUFFICES ASSUME NEW i \in 1..m, ~(i + 1 <= n)
                 PROVE  i = n /\ Len(s) = 1 /\ calls'[i] = s[1]
    OBVIOUS
  <2>2. i = n /\ Len(s) = 1 /\ i - (n - 1) = 1 /\ ~(i <= n - 1)
    BY <1>1, <1>2, <2>1
  <2>3. QED
    BY <1>2, <2>2
<1>5. 1 \in 1..n
  BY <1>1
<1>6. ASSUME NEW i \in 1..m PROVE calls'[i].by <= page'.visit
  BY <1>3, <1>4, <1>5 DEF CopiesInv, n
<1>7. ASSUME NEW r \in Requests PROVE Fits(r)'
  <2>1. Fits(r)
    BY DEF CopiesInv
  <2>2. ASSUME NEW i \in 1..m, Adds(r, i)'
        PROVE  g[i] \in 1..n /\ Adds(r, g[i])
    <3>1. CASE i + 1 <= n
      BY <1>3, <2>2, <3>1 DEF Adds
    <3>2. CASE ~(i + 1 <= n)
      BY <1>4, <1>5, <2>2, <3>2 DEF Adds
    <3>3. QED
      BY <3>1, <3>2
  <2>3. ASSUME NEW i \in 1..m, NEW j \in 1..m, i # j PROVE g[i] # g[j]
    <3>1. i + 1 # 1 /\ j + 1 # 1 /\ i + 1 # j + 1
      BY <2>3
    <3>2. i = n => j # n
      BY <2>3
    <3>3. QED
      BY <1>4, <3>1, <3>2
  <2> HIDE DEF g
  <2>4. QED
    BY <2>1, <2>2, <2>3, FitsKept DEF n, m
<1>8. QED
  BY <1>6, <1>7 DEF m

\* A copy of q is added while its page is on screen, or not at all.
LEMMA CopiesFetched ==
    ASSUME TypeInv, CopiesInv, NEW q \in Requests, TripFetched(q) \/ TripMissing(q)
    PROVE  CopiesInv'
<1> DEFINE c == Head(calls)
           rest == c.keys \ {q}
           d == [c EXCEPT !.keys = rest]
           n == Len(calls)
<1>1. /\ calls \in Seq(Read) /\ calls # << >> /\ c.what = "fetch" /\ q \in c.keys
      /\ UNCHANGED page
  BY DEF TripFetched, TripMissing, FetchOf, Answer, TypeInv, TypeOK
<1>2. /\ n \in Nat \ {0} /\ c = calls[1] /\ c \in Read
      /\ Tail(calls) \in Seq(Read) /\ Len(Tail(calls)) = n - 1
      /\ \A i \in 1..(n - 1) : Tail(calls)[i] = calls[i + 1]
  BY <1>1, Rest
<1>3. d \in Read /\ d.what = c.what /\ d.by = c.by /\ d.keys = rest
  BY <1>2 DEF Read
<1>4. /\ calls' = IF rest = {} THEN Tail(calls) ELSE <<d>> \o Tail(calls)
      /\ \/ appData' = appData
         \/ ContextValid(c) /\ appData' = [appData EXCEPT !.copies[q] = @ + 1]
  BY DEF TripFetched, TripMissing, FetchOf
<1>5. /\ appData'.tripHistoryKeys = appData.tripHistoryKeys
      /\ \A r \in Requests \ {q} : appData'.copies[r] = appData.copies[r]
      /\ c.by # page.visit => appData'.copies[q] = appData.copies[q]
      /\ appData'.copies[q] \in {appData.copies[q], appData.copies[q] + 1}
      /\ appData.copies[q] \in Nat
  <2>1. appData \in Data
    BY DEF TypeInv, TypeOK, Data
  <2>2. CASE ContextValid(c) /\ appData' = [appData EXCEPT !.copies[q] = @ + 1]
    BY <2>1, <2>2 DEF ContextValid, Data
  <2>3. CASE appData' = appData
    BY <2>1, <2>3 DEF Data
  <2>4. QED
    BY <1>4, <2>2, <2>3
<1> HIDE DEF c, d, n, rest
\* Where a call of after the step was before.
<1> DEFINE m == Len(calls')
           g == [i \in 1..m |-> IF rest = {} THEN i + 1 ELSE i]
<1>6. \A i \in 1..m : /\ g[i] \in 1..n
                      /\ calls'[i].by = calls[g[i]].by /\ calls'[i].what = calls[g[i]].what
                      /\ g[i] = 1 => calls'[i].keys = rest
                      /\ g[i] # 1 => calls'[i] = calls[g[i]]
  <2>1. CASE rest = {}
    <3>1. calls' = Tail(calls)
      BY <1>4, <2>1
    <3>2. m = n - 1 /\ \A i \in 1..m : calls'[i] = calls[i + 1]
      BY <1>2, <3>1
    <3>3. \A i \in 1..m : g[i] = i + 1 /\ i + 1 \in 1..n /\ i + 1 # 1
      BY <1>2, <2>1, <3>2
    <3>4. QED
      BY <3>2, <3>3
  <2>2. CASE rest # {}
    <3>1. calls' = <<d>> \o Tail(calls)
      BY <1>4, <2>2
    <3>2. <<d>> \in Seq(Read) /\ Len(<<d>>) = 1 /\ <<d>>[1] = d
      BY <1>3
    <3>3. /\ m = 1 + (n - 1)
          /\ \A i \in 1..(1 + (n - 1)) :
                calls'[i] = IF i <= 1 THEN <<d>>[i] ELSE Tail(calls)[i - 1]
      BY <1>2, <3>1, <3>2, ConcatProperties
    <3>4. \A i \in 1..m : /\ g[i] = i /\ i \in 1..n
                          /\ i = 1 => calls'[i] = d
                          /\ i # 1 => calls'[i] = calls[i]
      <4>1. SUFFICES ASSUME NEW i \in 1..m
                     PROVE  /\ g[i] = i /\ i \in 1..n
                            /\ i = 1 => calls'[i] = d
                            /\ i # 1 => calls'[i] = calls[i]
        OBVIOUS
      <4>2. g[i] = i /\ i \in 1..n
        BY <1>2, <2>2, <3>3
      <4>3. i = 1 => calls'[i] = d
        BY <3>2, <3>3
      <4>4. i # 1 => calls'[i] = calls[i]
        <5>1. SUFFICES ASSUME i # 1 PROVE calls'[i] = calls[i]
          OBVIOUS
        <5>2. i - 1 \in 1..(n - 1) /\ (i - 1) + 1 = i /\ ~(i <= 1) /\ i \in 1..(1 + (n - 1))
          BY <1>2, <3>3, <5>1
        <5>3. QED
          BY <1>2, <3>3, <5>2
      <4>5. QED
        BY <4>2, <4>3, <4>4
    <3>5. QED
      BY <1>2, <1>3, <3>4
  <2>3. QED
    BY <2>1, <2>2
<1>7. \A i, j \in 1..m : i # j => g[i] # g[j]
  BY DEF g
<1>8. 1 \in 1..n
  BY <1>2
<1> HIDE DEF g, m
<1>9. \A i \in 1..m : calls'[i].by <= page'.visit
  BY <1>1, <1>6 DEF CopiesInv, n
<1>10. \A r \in Requests, i \in 1..m : Adds(r, i)' => Adds(r, g[i])
  <2>1. SUFFICES ASSUME NEW r \in Requests, NEW i \in 1..m, Adds(r, i)'
                 PROVE  Adds(r, g[i])
    OBVIOUS
  <2>2. CASE g[i] = 1
    <3>1. calls'[i].keys \subseteq calls[1].keys
      BY <1>2, <1>6, <2>2 DEF rest
    <3>2. QED
      BY <1>1, <1>6, <2>1, <2>2, <3>1 DEF Adds
  <2>3. CASE g[i] # 1
    BY <1>1, <1>6, <2>1, <2>3 DEF Adds
  <2>4. QED
    BY <2>2, <2>3
<1>11. ASSUME NEW r \in Requests, appData'.copies[r] = appData.copies[r]
       PROVE  Fits(r)'
  BY <1>1, <1>6, <1>7, <1>10, <1>11, FitsKept DEF CopiesInv, m, n
<1>12. ASSUME appData'.copies[q] = appData.copies[q] + 1, c.by = page.visit
       PROVE  Fits(q)'
  <2> DEFINE b == appData.copies[q]
             v == page.visit
  <2>1. Fits(q) /\ Adds(q, 1) /\ b \in Nat /\ v \in Nat
    <3>1. Fits(q)
      BY DEF CopiesInv
    <3>2. Adds(q, 1)
      BY <1>1, <1>2, <1>12 DEF Adds
    <3>3. v \in Nat
      <4>1. page.visit \in 0..MaxVisits
        BY DEF TypeInv, TypeOK
      <4>2. QED
        BY <4>1, MaxVisitsAssumption
    <3>4. QED
      BY <1>5, <3>1, <3>2, <3>3
  <2>2. \A i \in 1..m : Adds(q, i)' => g[i] \in 1..n /\ g[i] # 1 /\ Adds(q, g[i])
    <3>1. SUFFICES ASSUME NEW i \in 1..m, Adds(q, i)', g[i] = 1 PROVE FALSE
      BY <1>6, <1>10
    <3>2. calls'[i].what = "fetch" /\ calls'[i].keys = rest /\ q \notin rest
      BY <1>1, <1>2, <1>6, <3>1 DEF rest
    <3>3. QED
      BY <3>1, <3>2 DEF Adds
  <2> HIDE DEF b, v
  <2>3. b + 2 <= 2 * v
    BY <1>8, <2>1 DEF Fits, n, b, v
  <2>4. ASSUME NEW i \in 1..m, Adds(q, i)' PROVE b + 3 <= 2 * v
    <3>1. g[i] \in 1..n /\ g[i] # 1 /\ Adds(q, g[i])
      BY <2>2, <2>4
    <3>2. QED
      BY <1>8, <2>1, <3>1 DEF Fits, n, b, v
  <2>5. ASSUME NEW i \in 1..m, NEW j \in 1..m, i # j, Adds(q, i)', Adds(q, j)' PROVE FALSE
    <3>1. /\ g[i] \in 1..n /\ g[i] # 1 /\ Adds(q, g[i])
          /\ g[j] \in 1..n /\ g[j] # 1 /\ Adds(q, g[j]) /\ g[i] # g[j]
      BY <1>7, <2>2, <2>5
    <3>2. QED
      BY <1>8, <2>1, <3>1 DEF Fits, n
  <2>6. appData'.copies[q] = b + 1 /\ page'.visit = v
    BY <1>1, <1>12 DEF b, v
  <2>7. b + 1 + 1 <= 2 * v
    BY <2>1, <2>3 DEF b, v
  <2>8. \A i \in 1..m : Adds(q, i)' => b + 1 + 2 <= 2 * v
    <3>1. b \in Nat /\ v \in Nat
      BY <2>1 DEF b, v
    <3>2. b + 3 <= 2 * v => b + 1 + 2 <= 2 * v
      BY <3>1
    <3>3. QED
      BY <2>4, <3>2
  <2>9. QED
    BY <2>5, <2>6, <2>7, <2>8 DEF Fits, m
<1>13. Fits(q)'
  BY <1>5, <1>11, <1>12
<1>14. QED
  BY <1>1, <1>5, <1>9, <1>11, <1>13 DEF CopiesInv, m

LEMMA CopiesAnswered ==
    ASSUME TypeInv, CopiesInv,
           EarningsRead \/ FirstNameRead \/ TripsFound \/ ReadFails
    PROVE  CopiesInv'
<1> DEFINE c == Head(calls)
<1>1. calls \in Seq(Read) /\ calls # << >> /\ UNCHANGED page
  BY DEF EarningsRead, FirstNameRead, TripsFound, ReadFails, Answer, TypeInv, TypeOK
<1>2. /\ c = calls[1] /\ c \in Read /\ Tail(calls) \in Seq(Read) /\ 1 \in 1..Len(calls)
  BY <1>1, Rest
<1>3. appData'.copies = appData.copies
  <2>1. appData \in Data
    BY DEF TypeInv, TypeOK, Data
  <2>2. QED
    BY <2>1 DEF EarningsRead, FirstNameRead, TripsFound, ReadFails, Data
<1>4. page'.visit # 0
  <2>1. c.by \in 1..MaxVisits /\ c.by <= page.visit
    BY <1>2 DEF CopiesInv, Read
  <2>2. QED
    BY <1>1, <2>1, MaxVisitsAssumption
<1> DEFINE Requeued(s) == /\ calls' = Tail(calls) \o s /\ Len(s) <= 1
                          /\ Len(s) = 1 => s[1].by = c.by /\ c.what \in {"name", "trips"}
<1>5. \E s \in Seq(Read) : Requeued(s)
  <2>1. CASE calls' = Tail(calls)
    <3>1. << >> \in Seq(Read) /\ Len(<< >>) = 0 /\ Tail(calls) \o << >> = Tail(calls)
      BY <1>2, ConcatEmptySeq
    <3>2. Len(<< >>) <= 1 /\ Len(<< >>) # 1
      BY <3>1
    <3>3. Requeued(<< >>)
      BY <2>1, <3>1, <3>2
    <3> HIDE DEF Requeued
    <3>4. QED
      BY <3>1, <3>3
  <2>2. CASE FirstNameRead /\ calls' # Tail(calls)
    <3> DEFINE d == [c EXCEPT !.what = "trips"]
    <3>1. d \in Read /\ d.by = c.by /\ c.what = "name" /\ calls' = Append(Tail(calls), d)
      BY <1>2, <2>2 DEF FirstNameRead, Answer, Read
    <3> HIDE DEF d
    <3>2. <<d>> \in Seq(Read) /\ Len(<<d>>) = 1 /\ <<d>>[1] = d
      BY <3>1
    <3>3. calls' = Tail(calls) \o <<d>>
      BY <1>2, <3>1, AppendIsConcat
    <3>4. Requeued(<<d>>)
      BY <3>1, <3>2, <3>3
    <3> HIDE DEF Requeued
    <3>5. QED
      BY <3>2, <3>4
  <2>3. CASE TripsFound /\ calls' # Tail(calls)
    <3> DEFINE s == obtainTripRequestsHistoryData(TripsNamed(c.of), c.by, c.of)
               d == [ReadOf("fetch", c.by, c.of) EXCEPT !.keys = TripsNamed(c.of)]
    <3>1. calls' = Tail(calls) \o s /\ c.what = "trips"
      BY <2>3 DEF TripsFound, Answer
    <3>2. TripsNamed(c.of) \in SUBSET Requests /\ c.by \in 1..MaxVisits /\ c.of \in Riders
      BY <1>2 DEF TripsNamed, Read
    <3>3. s \in Seq(Read)
      BY <3>2, FetchType
    <3>4. d.by = c.by
      BY DEF ReadOf
    <3>5. s = << >> \/ s = <<d>>
      BY DEF obtainTripRequestsHistoryData
    <3> HIDE DEF d
    <3> HIDE DEF s
    <3>6. CASE s = << >>
      <4>1. Len(s) = 0
        BY <3>6
      <4>2. Requeued(s)
        BY <3>1, <4>1
      <4> HIDE DEF Requeued
      <4>3. QED
        BY <3>3, <4>2
    <3>7. CASE s = <<d>>
      <4>1. Len(s) = 1 /\ s[1] = d
        BY <3>7
      <4>2. Requeued(s)
        BY <3>1, <3>4, <4>1
      <4> HIDE DEF Requeued
      <4>3. QED
        BY <3>3, <4>2
    <3>8. QED
      BY <3>5, <3>6, <3>7
  <2>4. QED
    BY <2>1, <2>2, <2>3 DEF EarningsRead, TripsFound, ReadFails
<1>6. PICK s \in Seq(Read) : Requeued(s)
  BY <1>5
<1>7. /\ \A i \in 1..Len(calls') : calls'[i].by <= page'.visit
      /\ \A r \in Requests : Fits(r)'
  BY <1>1, <1>2, <1>3, <1>6, CopiesRequeued
<1>8. QED
  BY <1>4, <1>7 DEF CopiesInv

\* The first page fetches nothing twice, a later one at most two copies of a trip.
LEMMA CopiesOpened ==
    ASSUME TypeInv, CopiesInv, NEW u \in Riders, OpenHome(u)
    PROVE  CopiesInv'
<1> DEFINE visit == page.visit + 1
           first == obtainTripRequestsHistoryData(appData.tripHistoryKeys, visit, u)
           rest  == << ReadOf("earnings", visit, u), ReadOf("name", visit, u) >>
           n == Len(calls)
           k == Len(first)
           m == Len(calls')
<1>1. /\ calls' = (calls \o first) \o rest /\ page' = [rider |-> u, visit |-> visit]
      /\ UNCHANGED appData /\ page.visit < MaxVisits
  BY DEF OpenHome
<1>2. page.visit \in Nat /\ visit \in 1..MaxVisits /\ page'.visit = visit
  <2>1. page.visit \in 0..MaxVisits
    BY DEF TypeInv, TypeOK
  <2>2. QED
    BY <1>1, <2>1, MaxVisitsAssumption
<1>3. appData.tripHistoryKeys \in SUBSET Requests /\ calls \in Seq(Read)
  BY DEF TypeInv, TypeOK
<1>4. first \in Seq(Read)
  BY <1>2, <1>3, FetchType
<1>5. /\ rest \in Seq(Read) /\ Len(rest) = 2
      /\ rest[1].what = "earnings" /\ rest[2].what = "name"
      /\ rest[1].by = visit /\ rest[2].by = visit
  <2>1. \A what \in {"earnings", "name"} :
           /\ ReadOf(what, visit, u) \in Read
           /\ ReadOf(what, visit, u).what = what /\ ReadOf(what, visit, u).by = visit
    BY <1>2 DEF ReadOf, Read
  <2>2. QED
    BY <2>1
<1>6. /\ appData.tripHistoryKeys = {} => k = 0
      /\ k = 0 \/ (k = 1 /\ first[1].what = "fetch" /\ first[1].by = visit)
  BY DEF obtainTripRequestsHistoryData, ReadOf
<1> HIDE DEF first, rest
<1>7. /\ calls \o first \in Seq(Read) /\ Len(calls \o first) = n + k /\ n \in Nat /\ k \in Nat
      /\ \A i \in 1..(n + k) : (calls \o first)[i] = IF i <= n THEN calls[i] ELSE first[i - n]
  BY <1>3, <1>4, ConcatProperties
<1>8. /\ m = n + k + 2
      /\ \A i \in 1..(n + k + 2) :
            calls'[i] = IF i <= n + k THEN (calls \o first)[i] ELSE rest[i - (n + k)]
  <2> DEFINE before == calls \o first
  <2>0. before \in Seq(Read)
    BY <1>7
  <2>1. Len(before) = n + k /\ calls' = before \o rest
    BY <1>1, <1>7
  <2> HIDE DEF before
  <2>2. rest \in Seq(Read)
    BY <1>5
  <2>3. /\ Len(before \o rest) = Len(before) + Len(rest)
        /\ \A i \in 1..(Len(before) + Len(rest)) :
              (before \o rest)[i] = IF i <= Len(before) THEN before[i] ELSE rest[i - Len(before)]
    BY <2>0, <2>2, ConcatProperties
  <2>4. Len(before) = n + k /\ Len(rest) = 2
    BY <1>5, <2>1
  <2>5. QED
    BY <2>1, <2>3, <2>4 DEF before
<1> HIDE DEF n, k, m
<1>9. \A i \in 1..m : \/ i \in 1..n /\ calls'[i] = calls[i]
                      \/ i = n + 1 /\ k = 1 /\ calls'[i] = first[1]
                      \/ i = n + k + 1 /\ calls'[i] = rest[1]
                      \/ i = n + k + 2 /\ calls'[i] = rest[2]
  <2>1. SUFFICES ASSUME NEW i \in 1..m
                 PROVE  \/ i \in 1..n /\ calls'[i] = calls[i]
                        \/ i = n + 1 /\ k = 1 /\ calls'[i] = first[1]
                        \/ i = n + k + 1 /\ calls'[i] = rest[1]
                        \/ i = n + k + 2 /\ calls'[i] = rest[2]
    OBVIOUS
  <2>2. i \in Nat /\ 1 <= i /\ i <= n + k + 2
    BY <1>7, <1>8
  <2>3. CASE i <= n
    BY <1>7, <1>8, <2>2, <2>3
  <2>4. CASE i > n /\ i <= n + k
    <3>1. k = 1 /\ i = n + 1 /\ i - n = 1
      BY <1>6, <1>7, <2>2, <2>4
    <3>2. calls'[i] = (calls \o first)[i] /\ (calls \o first)[i] = first[i - n]
      BY <1>7, <1>8, <2>2, <2>4
    <3>3. QED
      BY <3>1, <3>2
  <2>5. CASE i > n + k
    <3>1. calls'[i] = rest[i - (n + k)]
      BY <1>7, <1>8, <2>2, <2>5
    <3>2. \/ i = n + k + 1 /\ i - (n + k) = 1
          \/ i = n + k + 2 /\ i - (n + k) = 2
      BY <1>7, <2>2, <2>5
    <3>3. QED
      BY <3>1, <3>2
  <2>6. QED
    BY <1>7, <2>2, <2>3, <2>4, <2>5
<1>10. \A i \in 1..n : calls[i].by <= page.visit /\ calls[i].by \in Nat
  <2>1. \A i \in 1..n : calls[i] \in Read
    BY <1>3 DEF n
  <2>2. QED
    BY <2>1, MaxVisitsAssumption DEF CopiesInv, Read, n
<1>11. \A i \in 1..m : calls'[i].by <= page'.visit
  BY <1>2, <1>5, <1>6, <1>9, <1>10
<1>12. ASSUME NEW r \in Requests PROVE Fits(r)'
  <2> DEFINE b == appData.copies[r]
  <2>1. b \in Nat /\ (b = 0 \/ b + 1 <= 2 * page.visit) /\ appData'.copies[r] = b
    BY <1>1 DEF CopiesInv, Fits, TypeInv, TypeOK
  <2>2. \A i \in 1..m : Adds(r, i)' => (i = n + 1 /\ k = 1) \/ i = n + k + 2
    BY <1>2, <1>5, <1>9, <1>10 DEF Adds
  <2> HIDE DEF b
  <2>3. k = 1 => page.visit > 0
    BY <1>2, <1>6 DEF CopiesInv
  <2>4. b + 2 <= 2 * page'.visit
    BY <1>2, <2>1
  <2>5. ASSUME NEW i \in 1..m, NEW j \in 1..m, i # j, Adds(r, i)', Adds(r, j)'
        PROVE  b + 3 <= 2 * page'.visit
    <3>1. k = 1
      BY <2>2, <2>5
    <3>2. QED
      BY <1>2, <2>1, <2>3, <3>1
  <2>6. ASSUME NEW i \in 1..m, NEW j \in 1..m, NEW l \in 1..m, i # j, i # l, j # l,
               Adds(r, i)', Adds(r, j)', Adds(r, l)'
        PROVE  FALSE
    BY <2>2, <2>6
  <2>7. b + 1 <= 2 * page'.visit
    BY <1>2, <2>1, <2>4
  <2>8. QED
    BY <2>1, <2>4, <2>5, <2>6, <2>7 DEF Fits, m
<1>13. QED
  BY <1>2, <1>11, <1>12 DEF CopiesInv, m

LEMMA CopiesNext == TypeInv /\ CopiesInv /\ [Next]_vars => CopiesInv'
<1> SUFFICES ASSUME TypeInv, CopiesInv, [Next]_vars PROVE CopiesInv'
  OBVIOUS
<1>1. CASE Crash
  <2>1. Len(calls') = 0 /\ appData'.tripHistoryKeys = {} /\ \A r \in Requests : appData'.copies[r] = 0
    BY <1>1 DEF Crash, EmptyAppData
  <2>2. QED
    BY <2>1 DEF CopiesInv, Fits
<1>2. CASE LeaveHome \/ DeliveryCloses \/ UNCHANGED vars
           \/ \E r \in Requests : AcceptRequest(r)
  <2>1. calls' = calls /\ appData' = appData /\ page'.visit = page.visit
    BY <1>2 DEF LeaveHome, DeliveryCloses, AcceptRequest, vars, local, TypeInv, TypeOK
  <2>2. QED
    BY <2>1 DEF CopiesInv, Fits, Adds
<1>3. QED
  BY <1>1, <1>2, CopiesOpened, CopiesAnswered, CopiesFetched DEF Next

-----------------------------------------------------------------------------
(* The history of the rider's first name                                   *)

Queued(s) == {s[i] : i \in 1..Len(s)}

\* A read of the page on screen is not yet answered.
Waiting(what) == \E c \in Queued(calls) : c.what = what /\ c.by = page.visit

Fetching(r) ==
    \E c \in Queued(calls) : c.what = "fetch" /\ c.by = page.visit /\ r \in c.keys

\* The page on screen has the answer to its query of trips.
Loaded ==
    Before # {} =>
        /\ Before \subseteq appData.tripHistoryKeys
        /\ appData.tripHistoryKeys \subseteq TripsNamed(page.rider)
        /\ appData.countTrips = Cardinality(appData.tripHistoryKeys)
        /\ \A r \in appData.tripHistoryKeys : appData.copies[r] > 0 \/ Fetching(r)

OwnInv ==
    /\ \A c \in Queued(calls) :
          /\ c.by <= page.visit
          /\ page.rider # NoOne /\ c.by = page.visit => c.of = page.rider
    /\ page.rider # NoOne /\ ~failed =>
          /\ page.rider \in Earners =>
                appData.earnings = page.rider \/ Waiting("earnings")
          /\ Waiting("name") \/ Waiting("trips") \/ Loaded

LEMMA QueuedConcat ==
    ASSUME NEW s \in Seq(Read), NEW t \in Seq(Read)
    PROVE  Queued(s \o t) = Queued(s) \cup Queued(t)
<1>1. /\ Len(s \o t) = Len(s) + Len(t) /\ Len(s) \in Nat /\ Len(t) \in Nat
      /\ \A i \in 1..(Len(s) + Len(t)) :
            (s \o t)[i] = IF i <= Len(s) THEN s[i] ELSE t[i - Len(s)]
  BY ConcatProperties
<1>2. ASSUME NEW e \in Queued(s \o t) PROVE e \in Queued(s) \cup Queued(t)
  <2>1. PICK i \in 1..(Len(s) + Len(t)) : e = (s \o t)[i]
    BY <1>1 DEF Queued
  <2>2. CASE i <= Len(s)
    BY <1>1, <2>1, <2>2 DEF Queued
  <2>3. CASE ~(i <= Len(s))
    <3>1. i - Len(s) \in 1..Len(t) /\ e = t[i - Len(s)]
      BY <1>1, <2>1, <2>3
    <3>2. QED
      BY <3>1 DEF Queued
  <2>4. QED
    BY <2>2, <2>3
<1>3. ASSUME NEW e \in Queued(s) PROVE e \in Queued(s \o t)
  <2>1. PICK i \in 1..Len(s) : e = s[i]
    BY DEF Queued
  <2>2. i \in 1..(Len(s) + Len(t)) /\ i <= Len(s)
    BY <1>1
  <2>3. QED
    BY <1>1, <2>1, <2>2 DEF Queued
<1>4. ASSUME NEW e \in Queued(t) PROVE e \in Queued(s \o t)
  <2>1. PICK i \in 1..Len(t) : e = t[i]
    BY DEF Queued
  <2>2. Len(s) + i \in 1..(Len(s) + Len(t)) /\ ~(Len(s) + i <= Len(s)) /\ Len(s) + i - Len(s) = i
    BY <1>1
  <2>3. (s \o t)[Len(s) + i] = e
    BY <1>1, <2>1, <2>2
  <2>4. QED
    BY <1>1, <2>2, <2>3 DEF Queued
<1>5. QED
  BY <1>2, <1>3, <1>4

LEMMA QueuedReads ==
    ASSUME NEW s \in Seq(Read)
    PROVE  \A c \in Queued(s) : c \in Read /\ c.by \in Nat
<1>1. \A c \in Queued(s) : c \in Read
  BY DEF Queued
<1>2. \A c \in Read : c.by \in 1..MaxVisits
  BY DEF Read
<1>3. \A n \in 1..MaxVisits : n \in Nat
  BY MaxVisitsAssumption
<1>4. QED
  BY <1>1, <1>2, <1>3

LEMMA QueuedOne == ASSUME NEW e PROVE Queued(<<e>>) = {e}
<1>1. Len(<<e>>) = 1 /\ <<e>>[1] = e
  OBVIOUS
<1>2. QED
  BY <1>1 DEF Queued

LEMMA QueuedHead ==
    ASSUME NEW s \in Seq(Read), s # << >>
    PROVE  Queued(s) = {Head(s)} \cup Queued(Tail(s))
<1>1. /\ Head(s) = s[1] /\ Len(s) \in Nat \ {0} /\ Len(Tail(s)) = Len(s) - 1
      /\ \A i \in 1..Len(Tail(s)) : i + 1 \in 1..Len(s) /\ Tail(s)[i] = s[i + 1]
  BY Rest
<1>2. ASSUME NEW e \in Queued(s) PROVE e = Head(s) \/ e \in Queued(Tail(s))
  <2>1. PICK i \in 1..Len(s) : e = s[i]
    BY DEF Queued
  <2>2. CASE i = 1
    BY <1>1, <2>1, <2>2
  <2>3. CASE i # 1
    <3>1. i - 1 \in 1..Len(Tail(s)) /\ (i - 1) + 1 = i
      BY <1>1, <2>1, <2>3
    <3>2. Tail(s)[i - 1] = e
      BY <1>1, <2>1, <3>1
    <3>3. QED
      BY <3>1, <3>2 DEF Queued
  <2>4. QED
    BY <2>2, <2>3
<1>3. Head(s) \in Queued(s) /\ Queued(Tail(s)) \subseteq Queued(s)
  BY <1>1 DEF Queued
<1>4. QED
  BY <1>2, <1>3

\* What is queued after an answer: the reads behind it, and what it asks for.
LEMMA Answering ==
    ASSUME TypeOK, calls # << >>, NEW s \in Seq(Read), calls' = Tail(calls) \o s
    PROVE  /\ Head(calls) \in Read
           /\ Queued(calls) = {Head(calls)} \cup Queued(Tail(calls))
           /\ Queued(calls') = Queued(Tail(calls)) \cup Queued(s)
           /\ \A e \in Queued(calls) : e \in Queued(calls') \/ e = Head(calls)
<1>1. calls \in Seq(Read)
  BY DEF TypeOK
<1>2. Head(calls) \in Read /\ Tail(calls) \in Seq(Read)
  BY <1>1, Rest
<1>3. Queued(calls) = {Head(calls)} \cup Queued(Tail(calls))
  BY <1>1, QueuedHead
<1>4. Queued(calls') = Queued(Tail(calls)) \cup Queued(s)
  BY <1>2, QueuedConcat
<1>5. QED
  BY <1>2, <1>3, <1>4

LEMMA TailAlone ==
    ASSUME TypeOK, calls # << >>
    PROVE  Tail(calls) = Tail(calls) \o << >> /\ << >> \in Seq(Read) /\ Queued(<< >>) = {}
<1>1. Tail(calls) \in Seq(Read)
  BY Rest DEF TypeOK
<1>2. QED
  BY <1>1, ConcatEmptySeq DEF Queued

LEMMA OwnInit == Init => OwnInv
<1> SUFFICES ASSUME Init PROVE OwnInv
  OBVIOUS
<1>1. calls = << >> /\ page.rider = NoOne
  BY DEF Init
<1>2. Queued(calls) = {}
  BY <1>1 DEF Queued
<1>3. QED
  BY <1>1, <1>2 DEF OwnInv

LEMMA OwnOpened ==
    ASSUME TypeInv, OwnInv, NEW u \in Riders, OpenHome(u)
    PROVE  OwnInv'
<1> DEFINE visit == page.visit + 1
           first == obtainTripRequestsHistoryData(appData.tripHistoryKeys, visit, u)
           e == ReadOf("earnings", visit, u)
           n == ReadOf("name", visit, u)
<1>1. page.visit \in Nat /\ visit \in 1..MaxVisits /\ page' = [rider |-> u, visit |-> visit]
  <2>1. page.visit \in 0..MaxVisits /\ page.visit < MaxVisits
    BY DEF TypeInv, TypeOK, OpenHome
  <2>2. QED
    BY <2>1, MaxVisitsAssumption DEF OpenHome
<1>2. first \in Seq(Read) /\ calls \in Seq(Read)
  BY <1>1, FetchType DEF TypeInv, TypeOK
<1>3. \A c \in Queued(first) : c.by = visit /\ c.of = u
  BY QueuedOne DEF obtainTripRequestsHistoryData, ReadOf, Queued
<1>4. e \in Read /\ n \in Read
  BY <1>1 DEF ReadOf, Read
<1>5. <<e, n>> \in Seq(Read) /\ Queued(<<e, n>>) = {e, n}
  <2>1. <<e, n>> \in Seq(Read)
    BY <1>4
  <2>2. Len(<<e, n>>) = 2 /\ <<e, n>>[1] = e /\ <<e, n>>[2] = n
    OBVIOUS
  <2>3. 1..2 = {1, 2}
    OBVIOUS
  <2>4. QED
    BY <2>1, <2>2, <2>3 DEF Queued
<1>6. calls' = (calls \o first) \o <<e, n>>
  BY DEF OpenHome
<1> HIDE DEF first
<1>7. Queued(calls') = Queued(calls) \cup Queued(first) \cup {e, n}
  <2>1. calls \o first \in Seq(Read)
    BY <1>2, ConcatProperties
  <2>2. QED
    BY <1>2, <1>5, <1>6, <2>1, QueuedConcat
<1>8. e.by = visit /\ e.of = u /\ e.what = "earnings" /\ n.by = visit /\ n.of = u
      /\ n.what = "name"
  BY DEF ReadOf
<1> HIDE DEF e, n
<1>9. page'.visit = visit /\ page'.rider = u
  BY <1>1
<1>10. Waiting("earnings")' /\ Waiting("name")'
  BY <1>7, <1>8, <1>9 DEF Waiting
<1>11. \A c \in Queued(calls) : c.by < visit
  <2>1. \A c \in Queued(calls) : c.by \in Nat /\ c.by <= page.visit
    BY <1>2, QueuedReads DEF OwnInv
  <2>2. QED
    BY <1>1, <2>1
<1>12. \A c \in Queued(calls') : c.by <= visit /\ (c.by = visit => c.of = u)
  <2>1. \A c \in Queued(calls) : c.by \in Nat
    BY <1>2, QueuedReads
  <2>2. QED
    BY <1>1, <1>3, <1>7, <1>8, <1>11, <2>1
<1>13. QED
  BY <1>9, <1>10, <1>12 DEF OwnInv

\* Everything of the page on screen but the reads that are answered.
LEMMA OwnAnswered ==
    ASSUME TypeInv, OwnInv,
           EarningsRead \/ FirstNameRead \/ TripsFound \/ ReadFails
    PROVE  OwnInv'
<1> DEFINE c == Head(calls)
<1>1. TypeOK /\ calls # << >> /\ UNCHANGED <<page, fresh, named>>
  BY DEF TypeInv, EarningsRead, FirstNameRead, TripsFound, ReadFails, Answer, trips
<1>2. Before' = Before /\ (page.rider # NoOne => TripsNamed(page.rider)' = TripsNamed(page.rider))
  BY <1>1 DEF Before, TripsNamed
<1>3. /\ c \in Queued(calls) /\ c \in Read /\ Tail(calls) \in Seq(Read)
      /\ c.by <= page.visit /\ (page.rider # NoOne /\ c.by = page.visit => c.of = page.rider)
  <2>1. calls \in Seq(Read)
    BY <1>1 DEF TypeOK
  <2>2. c \in Queued(calls) /\ c \in Read /\ Tail(calls) \in Seq(Read)
    BY <1>1, <2>1, QueuedHead, Rest
  <2>3. QED
    BY <2>2 DEF OwnInv
<1> HIDE DEF c
<1>4. ASSUME calls' = Tail(calls),
             page.rider # NoOne /\ ~failed' =>
                /\ ~failed
                /\ appData'.tripHistoryKeys = appData.tripHistoryKeys
                /\ appData'.countTrips = appData.countTrips
                /\ appData'.copies = appData.copies
                /\ page.rider \in Earners =>
                      \/ appData'.earnings = page.rider
                      \/ appData' = appData /\ ~(c.what = "earnings" /\ c.by = page.visit)
                /\ c.what \in {"name", "trips", "fetch"} => c.by # page.visit \/ Loaded'
      PROVE  OwnInv'
  <2>1. /\ Queued(calls) = {c} \cup Queued(calls')
        /\ Queued(calls') \subseteq Queued(calls)
    BY <1>1, <1>4, TailAlone, Answering DEF c
  <2>2. \A d \in Queued(calls') :
           d.by <= page'.visit
           /\ (page'.rider # NoOne /\ d.by = page'.visit => d.of = page'.rider)
    BY <1>1, <2>1 DEF OwnInv
  <2>3. ASSUME page'.rider # NoOne, ~failed'
        PROVE  /\ page'.rider \in Earners =>
                     appData'.earnings = page'.rider \/ Waiting("earnings")'
               /\ Waiting("name")' \/ Waiting("trips")' \/ Loaded'
    <3>1. \A w \in {"earnings", "name", "trips"} :
             Waiting(w) => Waiting(w)' \/ (c.what = w /\ c.by = page.visit)
      BY <1>1, <2>1 DEF Waiting
    <3>2. Loaded => Loaded' \/ (c.what = "fetch" /\ c.by = page.visit)
      <4>1. SUFFICES ASSUME Loaded, ~(c.what = "fetch" /\ c.by = page.visit) PROVE Loaded'
        OBVIOUS
      <4>2. \A r \in Requests : Fetching(r) => Fetching(r)'
        BY <1>1, <2>1, <4>1 DEF Fetching
      <4>3. appData.tripHistoryKeys \subseteq Requests
        BY <1>1 DEF TypeOK
      <4>4. QED
        BY <1>1, <1>2, <1>4, <2>3, <4>1, <4>2, <4>3 DEF Loaded
    <3>3. QED
      BY <1>1, <1>4, <2>3, <3>1, <3>2 DEF OwnInv
  <2>4. QED
    BY <2>2, <2>3 DEF OwnInv
<1>5. CASE EarningsRead
  <2>1. c.what = "earnings" /\ calls' = Tail(calls) /\ failed' = failed
    BY <1>5 DEF EarningsRead, Answer, c
  <2>2. appData' = IF c.of \in Earners /\ ContextValid(c)
                   THEN [appData EXCEPT !.earnings = c.of] ELSE appData
    BY <1>5 DEF EarningsRead, c
  <2>3. /\ appData'.tripHistoryKeys = appData.tripHistoryKeys
        /\ appData'.countTrips = appData.countTrips /\ appData'.copies = appData.copies
    BY <1>1, <2>2 DEF TypeOK
  <2>4. page.rider # NoOne /\ page.rider \in Earners =>
           \/ appData'.earnings = page.rider
           \/ appData' = appData /\ ~(c.what = "earnings" /\ c.by = page.visit)
    BY <1>1, <1>3, <2>2 DEF ContextValid, TypeOK
  <2>5. QED
    BY <1>4, <2>1, <2>3, <2>4
<1>6. CASE ReadFails
  <2>1. calls' = Tail(calls) /\ appData' = appData /\ failed' = (failed \/ c.by = page.visit)
    BY <1>6 DEF ReadFails, c
  <2>2. QED
    BY <1>4, <2>1
<1>7. CASE FirstNameRead /\ FirstName[c.of] = NoOne
  <2>1. c.what = "name" /\ calls' = Tail(calls) /\ failed' = failed /\ appData' = appData
    BY <1>7 DEF FirstNameRead, Answer, c
  <2>2. page.rider # NoOne /\ c.by = page.visit => Before' = {}
    BY <1>2, <1>3, <1>7 DEF Before, TripsNamed
  <2>3. page.rider # NoOne /\ c.by = page.visit => Loaded'
    BY <2>2 DEF Loaded
  <2>4. QED
    BY <1>4, <2>1, <2>3
<1>8. CASE FirstNameRead /\ FirstName[c.of] # NoOne
  <2> DEFINE d == [c EXCEPT !.what = "trips"]
  <2>1. d \in Read /\ d.what = "trips" /\ d.by = c.by /\ d.of = c.of
    BY <1>3 DEF Read
  <2>2. c.what = "name" /\ calls' = Append(Tail(calls), d) /\ UNCHANGED <<appData, failed>>
    BY <1>8 DEF FirstNameRead, Answer, c
  <2> HIDE DEF d
  <2>3. Tail(calls) \in Seq(Read) /\ <<d>> \in Seq(Read)
    BY <1>3, <2>1
  <2>4. calls' = Tail(calls) \o <<d>>
    BY <2>1, <2>2, <2>3, AppendIsConcat
  <2>5. /\ Queued(calls) = {c} \cup Queued(Tail(calls))
        /\ Queued(calls') = Queued(Tail(calls)) \cup {d}
    BY <1>1, <2>3, <2>4, Answering, QueuedOne DEF c
  <2>6. \A f \in Queued(calls') :
           f.by <= page'.visit
           /\ (page'.rider # NoOne /\ f.by = page'.visit => f.of = page'.rider)
    BY <1>1, <1>3, <2>1, <2>5 DEF OwnInv
  <2>7. Waiting("earnings") => Waiting("earnings")'
    BY <1>1, <2>2, <2>5 DEF Waiting
  <2>8. Waiting("name") \/ Waiting("trips") => Waiting("name")' \/ Waiting("trips")'
    BY <1>1, <2>1, <2>2, <2>5 DEF Waiting
  <2>9. Loaded => Loaded'
    <3>1. \A r : Fetching(r) => Fetching(r)'
      BY <1>1, <2>2, <2>5 DEF Fetching
    <3>2. QED
      BY <1>1, <1>2, <2>2, <3>1 DEF Loaded, TripsNamed
  <2>10. QED
    BY <1>1, <2>2, <2>6, <2>7, <2>8, <2>9 DEF OwnInv
<1>9. CASE TripsFound
  <2> DEFINE found == TripsNamed(c.of)
             s == obtainTripRequestsHistoryData(found, c.by, c.of)
  <2>1. c.what = "trips" /\ failed' = failed
        /\ IF found # {} /\ ContextValid(c)
           THEN /\ appData' = [appData EXCEPT !.countTrips = Cardinality(found),
                                              !.tripHistoryKeys = found]
                /\ calls' = Tail(calls) \o s
           ELSE calls' = Tail(calls) /\ appData' = appData
    BY <1>9 DEF TripsFound, Answer, c
  <2>2. CASE found # {} /\ ContextValid(c)
    <3>1. /\ page.rider # NoOne /\ c.by = page.visit /\ c.of = page.rider
          /\ c.by \in 1..MaxVisits /\ c.of \in Riders
      BY <1>3, <2>2 DEF ContextValid, Read
    <3>2. found \in SUBSET Requests /\ found = TripsNamed(page.rider)
      BY <3>1 DEF TripsNamed
    <3> DEFINE f == [ReadOf("fetch", c.by, c.of) EXCEPT !.keys = found]
    <3>3. s = <<f>> /\ s \in Seq(Read)
      BY <2>2, <3>1, <3>2, FetchType DEF obtainTripRequestsHistoryData
    <3>4. f.what = "fetch" /\ f.by = c.by /\ f.of = c.of /\ f.keys = found
      BY DEF ReadOf
    <3> HIDE DEF f
    <3>5. /\ Queued(calls) = {c} \cup Queued(Tail(calls))
          /\ Queued(calls') = Queued(Tail(calls)) \cup {f}
      BY <1>1, <2>1, <2>2, <3>3, Answering, QueuedOne DEF c
    <3>6. /\ appData'.tripHistoryKeys = found /\ appData'.countTrips = Cardinality(found)
          /\ appData'.copies = appData.copies /\ appData'.earnings = appData.earnings
      BY <1>1, <2>1, <2>2 DEF TypeOK
    <3> HIDE DEF found, s
    <3>7. \A r \in found : Fetching(r)'
      BY <1>1, <3>1, <3>4, <3>5 DEF Fetching
    <3>8. Before' \subseteq found /\ found = TripsNamed(page.rider)'
      BY <1>2, <3>1, <3>2 DEF Before
    <3>9. Loaded'
      BY <3>6, <3>7, <3>8 DEF Loaded
    <3>10. Waiting("earnings") => Waiting("earnings")'
      BY <1>1, <2>1, <3>5 DEF Waiting
    <3>11. \A d \in Queued(calls') :
             d.by <= page'.visit
             /\ (page'.rider # NoOne /\ d.by = page'.visit => d.of = page'.rider)
      BY <1>1, <1>3, <3>4, <3>5 DEF OwnInv
    <3>12. QED
      BY <1>1, <2>1, <3>6, <3>9, <3>10, <3>11 DEF OwnInv
  <2>3. CASE ~(found # {} /\ ContextValid(c))
    <3>1. page.rider # NoOne /\ c.by = page.visit => Before' = {}
      BY <1>2, <1>3, <2>3 DEF ContextValid, Before
    <3>2. page.rider # NoOne /\ c.by = page.visit => Loaded'
      BY <3>1 DEF Loaded
    <3>3. QED
      BY <1>4, <2>1, <2>3, <3>2
  <2>4. QED
    BY <2>2, <2>3
<1>10. QED
  BY <1>5, <1>6, <1>7, <1>8, <1>9

LEMMA OwnFetched ==
    ASSUME TypeInv, OwnInv, NEW q \in Requests, TripFetched(q) \/ TripMissing(q)
    PROVE  OwnInv'
<1> DEFINE c == Head(calls)
           d == [c EXCEPT !.keys = c.keys \ {q}]
<1>1. TypeOK /\ calls # << >> /\ UNCHANGED <<page, fresh, named>>
      /\ c.what = "fetch" /\ q \in c.keys
  BY DEF TypeInv, TripFetched, TripMissing, FetchOf, Answer, trips
<1>2. c \in Queued(calls) /\ c \in Read /\ calls \in Seq(Read)
  <2>1. calls \in Seq(Read)
    BY <1>1 DEF TypeOK
  <2>2. QED
    BY <1>1, <2>1, QueuedHead, Rest
<1>3. d \in Read /\ d.what = "fetch" /\ d.by = c.by /\ d.of = c.of /\ d.keys = c.keys \ {q}
  BY <1>1, <1>2 DEF Read
<1>4. calls' = IF c.keys \ {q} = {} THEN Tail(calls) ELSE <<d>> \o Tail(calls)
  BY DEF TripFetched, TripMissing, FetchOf
<1> DEFINE added == ContextValid(c) /\ appData' # appData
<1>5. /\ appData' = IF added THEN [appData EXCEPT !.copies[q] = @ + 1] ELSE appData
      /\ \/ failed' = failed /\ (ContextValid(c) => added)
         \/ failed' = (failed \/ c.by = page.visit)
  <2>1. CASE TripFetched(q)
    <3>1. /\ appData' = IF ContextValid(c) THEN [appData EXCEPT !.copies[q] = @ + 1] ELSE appData
          /\ failed' = failed
      BY <2>1 DEF TripFetched
    <3>2. ASSUME ContextValid(c) PROVE appData' # appData
      <4>1. appData.copies \in [Requests -> Nat] /\ appData \in Data
        BY <1>1 DEF TypeOK, Data
      <4>2. appData'.copies[q] = appData.copies[q] + 1 /\ appData.copies[q] \in Nat
        BY <3>1, <3>2, <4>1 DEF Data
      <4>3. QED
        BY <4>2
    <3>3. QED
      BY <3>1, <3>2
  <2>2. CASE TripMissing(q)
    BY <2>2 DEF TripMissing
  <2>3. QED
    BY <2>1, <2>2
<1> HIDE DEF added
<1>6. /\ Queued(calls) = {c} \cup Queued(Tail(calls)) /\ Tail(calls) \in Seq(Read)
      /\ Queued(calls') = (IF c.keys \ {q} = {} THEN {} ELSE {d}) \cup Queued(Tail(calls))
  <2>1. Queued(calls) = {c} \cup Queued(Tail(calls)) /\ Tail(calls) \in Seq(Read)
    BY <1>1, <1>2, QueuedHead, Rest
  <2>2. <<d>> \in Seq(Read)
    BY <1>3
  <2> HIDE DEF d
  <2>3. Queued(<<d>> \o Tail(calls)) = Queued(<<d>>) \cup Queued(Tail(calls))
    BY <2>1, <2>2, QueuedConcat
  <2>4. QED
    BY <1>4, <2>1, <2>3, QueuedOne
<1>7. /\ appData'.tripHistoryKeys = appData.tripHistoryKeys
      /\ appData'.countTrips = appData.countTrips /\ appData'.earnings = appData.earnings
      /\ \A r \in Requests :
            appData'.copies[r] = IF r = q /\ added THEN appData.copies[r] + 1
                                 ELSE appData.copies[r]
  BY <1>1, <1>5 DEF TypeOK
<1> HIDE DEF c, d
<1>8. \A f \in Queued(calls') :
         f.by <= page'.visit
         /\ (page'.rider # NoOne /\ f.by = page'.visit => f.of = page'.rider)
  BY <1>1, <1>2, <1>3, <1>6 DEF OwnInv
<1>9. \A w \in {"earnings", "name", "trips"} : Waiting(w) => Waiting(w)'
  BY <1>1, <1>6 DEF Waiting
<1>10. ASSUME page.rider # NoOne, ~failed', Loaded PROVE Loaded'
  <2>1. Before' = Before /\ TripsNamed(page.rider)' = TripsNamed(page.rider)
    BY <1>1 DEF Before, TripsNamed
  <2>2. ASSUME NEW r \in Requests, appData.copies[r] > 0 \/ Fetching(r)
        PROVE  appData'.copies[r] > 0 \/ Fetching(r)'
    <3>1. appData.copies[r] \in Nat
      BY <1>1 DEF TypeOK
    <3>2. appData.copies[r] > 0 => appData'.copies[r] > 0
      BY <1>7, <3>1
    <3>3. ASSUME NEW f \in Queued(calls), f.what = "fetch", f.by = page.visit, r \in f.keys
          PROVE  appData'.copies[r] > 0 \/ Fetching(r)'
      <4>1. CASE f \in Queued(Tail(calls))
        BY <1>1, <1>6, <3>3, <4>1 DEF Fetching
      <4>2. CASE f = c /\ r = q
        <5>1. added
          BY <1>5, <1>10, <3>3, <4>2 DEF ContextValid
        <5>2. QED
          BY <1>7, <3>1, <4>2, <5>1
      <4>3. CASE f = c /\ r # q
        <5>1. r \in c.keys \ {q}
          BY <3>3, <4>3
        <5>2. d \in Queued(calls') /\ r \in d.keys /\ d.by = page'.visit
          BY <1>1, <1>3, <1>6, <3>3, <4>3, <5>1
        <5>3. QED
          BY <1>3, <5>2 DEF Fetching
      <4>4. QED
        BY <1>6, <3>3, <4>1, <4>2, <4>3
    <3>4. QED
      BY <2>2, <3>2, <3>3 DEF Fetching
  <2>3. appData.tripHistoryKeys \subseteq Requests
    BY <1>1 DEF TypeOK
  <2>4. QED
    BY <1>7, <1>10, <2>1, <2>2, <2>3 DEF Loaded
<1>11. ~failed' => ~failed
  BY <1>5
<1>12. QED
  BY <1>1, <1>7, <1>8, <1>9, <1>10, <1>11 DEF OwnInv

LEMMA OwnNext == TypeInv /\ OwnInv /\ [Next]_vars => OwnInv'
<1> SUFFICES ASSUME TypeInv, OwnInv, [Next]_vars PROVE OwnInv'
  OBVIOUS
<1>1. CASE Crash
  <2>1. calls' = << >> /\ page'.rider = NoOne
    BY <1>1 DEF Crash, TypeInv, TypeOK
  <2>2. Queued(calls') = {}
    BY <2>1 DEF Queued
  <2>3. QED
    BY <2>1, <2>2 DEF OwnInv
<1>2. CASE LeaveHome
  <2>1. calls' = calls /\ page'.rider = NoOne /\ page'.visit = page.visit
    BY <1>2 DEF LeaveHome, TypeInv, TypeOK
  <2>2. QED
    BY <2>1 DEF OwnInv
<1>3. CASE DeliveryCloses \/ UNCHANGED vars
  <2>1. UNCHANGED <<page, calls, appData, fresh, failed, named>>
    BY <1>3 DEF DeliveryCloses, vars, local, trips
  <2>2. QED
    BY <2>1 DEF OwnInv, Waiting, Loaded, Before, TripsNamed, Fetching
<1>4. ASSUME NEW r \in Requests, AcceptRequest(r) PROVE OwnInv'
  <2>1. /\ UNCHANGED <<page, calls, appData, failed>> /\ fresh' = fresh \cup {r}
        /\ named[r] = NoOne /\ \A q \in Requests : q # r => named'[q] = named[q]
    BY <1>4 DEF AcceptRequest, TypeInv, TypeOK
  <2>2. Before' = Before /\ TripsNamed(page.rider) \subseteq TripsNamed(page.rider)'
    BY <2>1 DEF Before, TripsNamed
  <2>3. Loaded => Loaded'
    BY <2>1, <2>2 DEF Loaded, Fetching
  <2>4. QED
    BY <2>1, <2>3 DEF OwnInv, Waiting
<1>5. QED
  BY <1>1, <1>2, <1>3, <1>4, OwnOpened, OwnAnswered, OwnFetched DEF Next

-----------------------------------------------------------------------------
(* Theorems                                                                *)

\* The state has its types in every reachable state; the trips of a name can be
\* counted, however many requests there are.
THEOREM HistoryTypeCorrect == Spec => []TypeOK
<1>1. TypeInv => TypeOK
  BY DEF TypeInv
<1>2. QED
  BY <1>1, TypeInit, TypeNext, PTL DEF Spec

\* The list of trips holds each less than twice as often as the home page was
\* built, whichever pages were left half loaded and whichever reads failed.
THEOREM ListGrowsLinearly == Spec => []LinearGrowth
<1>1. CopiesInv => LinearGrowth
  <2>1. SUFFICES ASSUME CopiesInv, NEW r \in Requests, appData.copies[r] > 0
                 PROVE  appData.copies[r] + 1 <= 2 * page.visit
    BY DEF LinearGrowth
  <2>2. appData.copies[r] # 0
    BY <2>1
  <2>3. QED
    BY <2>1, <2>2 DEF CopiesInv, Fits
<1>2. QED
  BY <1>1, TypeInit, TypeNext, CopiesInit, CopiesNext, PTL DEF Spec

\* Once its reads are answered, a home page shows its own rider's earnings and,
\* when requests were signed with the rider's first name before, the keys and the
\* count of requests of that name, each of them listed; for any riders who used
\* the process before and however their pages were left.
THEOREM HistoryOfItsName == Spec => []HistoryOfName
<1>1. OwnInv => HistoryOfName
  <2>1. SUFFICES ASSUME OwnInv, Settled PROVE HistoryOfName
    BY DEF HistoryOfName
  <2>2. page.rider # NoOne /\ ~failed /\ Queued(calls) = {}
    BY <2>1 DEF Settled, Queued
  <2>3. \A w : ~Waiting(w)
    BY <2>2 DEF Waiting
  <2>4. \A r : ~Fetching(r)
    BY <2>2 DEF Fetching
  <2>5. QED
    BY <2>1, <2>2, <2>3, <2>4 DEF OwnInv, Loaded, HistoryOfName
<1>2. QED
  BY <1>1, TypeInit, TypeNext, OwnInit, OwnNext, PTL DEF Spec
=============================================================================
