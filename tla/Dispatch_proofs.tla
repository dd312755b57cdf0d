--------------------------- MODULE Dispatch_proofs ---------------------------
(***************************************************************************)
(* Proofs about Dispatch for any sets of requests, of handlers and of      *)
(* dialogs, and any bounds.  With any fault, the state is well typed and   *)
(* a rider the process has published has a slot; as long as the process    *)
(* lives, any rider in the pool has one.  For a rider who waits for each   *)
(* answer, and a process that does not die: an offline or busy rider is    *)
(* hidden, a request is opened once, and only leaving it takes a trip      *)
(* screen away.                                                            *)
(***************************************************************************)
EXTENDS Dispatch, SequenceTheorems, FiniteSetTheorems, TLAPS

USE RequestsAssumption, BoundsAssumption, PatientAssumption, FaultsAssumption

-----------------------------------------------------------------------------
(* The invariants                                                          *)

\* The operations after which the slot is there, and the dangerous ones.
Fills(o)  == \E v \in SlotValue \ {"none"} : o = SlotWrite(v)
Enters(o) == o = PoolWrite(TRUE)
Empties(o) == o = SlotWrite("none")

\* The slot is emptied without the pool having been left just before.
Unguarded(s, i) == Empties(s[i]) /\ (i = 1 \/ s[i - 1] # PoolWrite(FALSE))
Guarded(s) == \A i \in 1..Len(s) : ~Unguarded(s, i)

EntersNowhere(s) == \A i \in 1..Len(s) : ~Enters(s[i])

\* In a series of operations, entering the pool comes right behind filling the
\* slot, and before everything that empties it unguarded.
Careful(s) ==
    \A i \in 1..Len(s) :
       /\ Enters(s[i]) /\ i > 1 => Fills(s[i - 1])
       /\ Unguarded(s, i) => \A j \in 1..Len(s) : j < i => ~Enters(s[j])

QueueInv ==
    /\ slot \in SlotValue
    /\ pool \in BOOLEAN
    /\ geofire \in BOOLEAN
    /\ outbox \in Seq(Operation)
    /\ Careful(outbox)
    /\ Len(outbox) > 0 /\ Enters(outbox[1]) => slot # "none"
    /\ ~geofire => EntersNowhere(outbox)

\* The slot is there, and remains there as long as the rider is in the pool.
Kept == slot # "none" /\ Guarded(outbox)

PoolInv == QueueInv /\ (geofire /\ pool /\ EntersNowhere(outbox) => Kept)

\* The same without crashes: nobody but this process has entered the pool.
RaceInv == QueueInv /\ (~geofire => ~pool) /\ (pool => Kept)

-----------------------------------------------------------------------------
(* Operations                                                              *)

LEMMA OperationsDiffer ==
    /\ \A v \in SlotValue : ~Enters(SlotWrite(v)) /\ SlotWrite(v).op = "slot"
    /\ \A v \in SlotValue : v # "none" => ~Empties(SlotWrite(v)) /\ Fills(SlotWrite(v))
    /\ \A b \in BOOLEAN : ~Empties(PoolWrite(b)) /\ PoolWrite(b).op = "pool"
    /\ ~Enters(PoolWrite(FALSE))
    /\ \A d \in Dialogs : ~Enters(SlotRead(d)) /\ ~Empties(SlotRead(d)) /\ SlotRead(d).op = "read"
<1>1. \A v \in SlotValue : SlotWrite(v).op = "slot" /\ SlotWrite(v).value = v
  BY DEF SlotWrite
<1>2. \A b \in BOOLEAN : PoolWrite(b).op = "pool" /\ PoolWrite(b).value = b
  BY DEF PoolWrite
<1>3. \A d \in Dialogs : SlotRead(d).op = "read"
  BY DEF SlotRead
<1>4. "none" \in SlotValue
  BY DEF SlotValue
<1>5. PoolWrite(FALSE) # PoolWrite(TRUE)
  BY <1>2
<1>6. \A v \in SlotValue : v # "none" => SlotWrite(v) # SlotWrite("none")
  BY <1>1, <1>4
<1>7. \A v \in SlotValue : v # "none" => Fills(SlotWrite(v))
  BY DEF Fills
<1>8. QED
  BY <1>1, <1>2, <1>3, <1>4, <1>5, <1>6, <1>7 DEF Enters, Empties

LEMMA ShortSeries ==
    ASSUME NEW S, NEW a \in S, NEW b \in S, NEW c \in S
    PROVE  /\ <<a>> \in Seq(S) /\ Len(<<a>>) = 1 /\ <<a>>[1] = a
           /\ <<a, b>> \in Seq(S) /\ Len(<<a, b>>) = 2
           /\ <<a, b>>[1] = a /\ <<a, b>>[2] = b
           /\ <<a, b, c>> \in Seq(S) /\ Len(<<a, b, c>>) = 3
           /\ <<a, b, c>>[1] = a /\ <<a, b, c>>[2] = b /\ <<a, b, c>>[3] = c
OBVIOUS

\* What is left of the series of writes, when GeoFire is initialized and when not.
OffA == <<PoolWrite(FALSE), SlotWrite("none")>>
OffB == <<SlotWrite("none")>>
OnA  == <<SlotWrite("searching"), PoolWrite(TRUE), SlotWrite("searching")>>
OnB  == <<PoolWrite(TRUE), SlotWrite("searching")>>
OnC  == <<SlotWrite("searching")>>
AccA == <<SlotWrite("accepted"), PoolWrite(FALSE), SlotWrite("history")>>
AccN == <<SlotWrite("accepted"), SlotWrite("history")>>
AccB == <<PoolWrite(FALSE), SlotWrite("history")>>
AccC == <<SlotWrite("history")>>

LEMMA SeriesAre ==
    /\ onlineWrites = OnA
    /\ makeRiderOfflineNow = IF geofire THEN OffA ELSE OffB
    /\ acceptWrites = IF geofire THEN AccA ELSE AccN
<1>1. ASSUME NEW a, NEW b
      PROVE  <<a>> \o <<b>> = <<a, b>> /\ << >> \o <<b>> = <<b>> /\ <<a>> \o << >> = <<a>>
  <2> DEFINE S == {a, b}
  <2>1. <<a>> \in Seq(S) /\ <<b>> \in Seq(S) /\ <<a, b>> \in Seq(S)
    OBVIOUS
  <2>2. /\ Len(<<a>>) = 1 /\ <<a>>[1] = a /\ Len(<<b>>) = 1 /\ <<b>>[1] = b
        /\ Len(<<a, b>>) = 2 /\ <<a, b>>[1] = a /\ <<a, b>>[2] = b
    OBVIOUS
  <2> HIDE DEF S
  <2> DEFINE t == <<a>> \o <<b>>  u == <<a, b>>
  <2>3. /\ t \in Seq(S) /\ Len(t) = 2
        /\ \A i \in 1..2 : t[i] = IF i <= 1 THEN <<a>>[i] ELSE <<b>>[i - 1]
    BY <2>1, <2>2, ConcatProperties
  <2>4. t[1] = a /\ t[2] = b
    BY <2>2, <2>3
  <2> HIDE DEF t, u
  <2>5. t = u
    <3>1. u \in Seq(S) /\ Len(u) = 2 /\ u[1] = a /\ u[2] = b
      BY <2>1, <2>2 DEF u
    <3>2. \A i \in 1..Len(t) : t[i] = u[i]
      BY <2>3, <2>4, <3>1
    <3>3. QED
      BY <2>3, <3>1, <3>2, SeqEqual
  <2>6. QED
    BY <2>1, <2>5, ConcatEmptySeq DEF t, u
<1>2. ASSUME NEW a, NEW b, NEW c
      PROVE  <<a, b>> \o <<c>> = <<a, b, c>>
  <2> DEFINE S == {a, b, c}
  <2>1. <<a, b>> \in Seq(S) /\ <<c>> \in Seq(S) /\ <<a, b, c>> \in Seq(S)
    OBVIOUS
  <2>2. /\ Len(<<a, b>>) = 2 /\ <<a, b>>[1] = a /\ <<a, b>>[2] = b
        /\ Len(<<c>>) = 1 /\ <<c>>[1] = c /\ Len(<<a, b, c>>) = 3
        /\ <<a, b, c>>[1] = a /\ <<a, b, c>>[2] = b /\ <<a, b, c>>[3] = c
    OBVIOUS
  <2> HIDE DEF S
  <2> DEFINE t == <<a, b>> \o <<c>>  u == <<a, b, c>>
  <2>3. /\ t \in Seq(S) /\ Len(t) = 3
        /\ \A i \in 1..3 : t[i] = IF i <= 2 THEN <<a, b>>[i] ELSE <<c>>[i - 2]
    BY <2>1, <2>2, ConcatProperties
  <2>4. t[1] = a /\ t[2] = b /\ t[3] = c
    BY <2>2, <2>3
  <2> HIDE DEF t, u
  <2>5. t = u
    <3>1. u \in Seq(S) /\ Len(u) = 3 /\ u[1] = a /\ u[2] = b /\ u[3] = c
      BY <2>1, <2>2 DEF u
    <3>2. \A i \in 1..Len(t) : t[i] = u[i]
      BY <2>3, <2>4, <3>1
    <3>3. QED
      BY <2>3, <3>1, <3>2, SeqEqual
  <2>6. QED
    BY <2>5 DEF t, u
<1>3. onlineWrites = OnA
  BY DEF onlineWrites, OnA
<1>4. makeRiderOfflineNow = IF geofire THEN OffA ELSE OffB
  BY <1>1 DEF makeRiderOfflineNow, removeLocation, OffA, OffB
<1>5. acceptWrites = IF geofire THEN AccA ELSE AccN
  <2>1. CASE geofire
    <3>1. <<SlotWrite("accepted")>> \o <<PoolWrite(FALSE)>> = <<SlotWrite("accepted"), PoolWrite(FALSE)>>
      BY <1>1
    <3>2. <<SlotWrite("accepted"), PoolWrite(FALSE)>> \o <<SlotWrite("history")>> = AccA
      BY <1>2 DEF AccA
    <3>3. removeLocation = <<PoolWrite(FALSE)>>
      BY <2>1 DEF removeLocation
    <3>4. QED
      BY <2>1, <3>1, <3>2, <3>3, Zenon DEF acceptWrites
  <2>2. CASE ~geofire
    BY <1>1, <2>2 DEF acceptWrites, removeLocation, AccN
  <2>3. QED
    BY <2>1, <2>2
<1>6. QED
  BY <1>3, <1>4, <1>5

\* The same, when nothing else is under way.
LEMMA SeriesIssued ==
    ASSUME outbox = << >>
    PROVE  /\ outbox \o onlineWrites = OnA
           /\ outbox \o makeRiderOfflineNow = IF geofire THEN OffA ELSE OffB
           /\ outbox \o acceptWrites = IF geofire THEN AccA ELSE AccN
<1> DEFINE S == {SlotWrite("none"), SlotWrite("searching"), SlotWrite("accepted"),
                 SlotWrite("history"), PoolWrite(TRUE), PoolWrite(FALSE)}
<1>1. /\ SlotWrite("none") \in S /\ SlotWrite("searching") \in S /\ SlotWrite("accepted") \in S
      /\ SlotWrite("history") \in S /\ PoolWrite(TRUE) \in S /\ PoolWrite(FALSE) \in S
  OBVIOUS
<1> HIDE DEF S
<1>2. /\ OnA \in Seq(S) /\ OffA \in Seq(S) /\ OffB \in Seq(S)
      /\ AccA \in Seq(S) /\ AccN \in Seq(S)
  BY <1>1, ShortSeries DEF OnA, OffA, OffB, AccA, AccN
<1>3. QED
  BY <1>2, SeriesAre, ConcatEmptySeq

\* A series that may follow any other.
Harmless(s) ==
    /\ s \in Seq(Operation)
    /\ \A i \in 1..Len(s) : Enters(s[i]) => i > 1 /\ Fills(s[i - 1])

LEMMA SeriesHarmless ==
    /\ Harmless(onlineWrites) /\ Guarded(onlineWrites) /\ ~EntersNowhere(onlineWrites)
    /\ Harmless(makeRiderOfflineNow) /\ EntersNowhere(makeRiderOfflineNow)
    /\ geofire => Guarded(makeRiderOfflineNow)
    /\ Harmless(acceptWrites) /\ EntersNowhere(acceptWrites) /\ Guarded(acceptWrites)
    /\ \A d \in Dialogs : /\ Harmless(<<SlotRead(d)>>) /\ EntersNowhere(<<SlotRead(d)>>)
                          /\ Guarded(<<SlotRead(d)>>)
<1>1. {"none", "searching", "accepted", "history"} \subseteq SlotValue
  BY DEF SlotValue
<1>2. /\ SlotWrite("none") \in Operation /\ SlotWrite("searching") \in Operation
      /\ SlotWrite("accepted") \in Operation /\ SlotWrite("history") \in Operation
      /\ PoolWrite(TRUE) \in Operation /\ PoolWrite(FALSE) \in Operation
      /\ \A d \in Dialogs : SlotRead(d) \in Operation
  BY <1>1 DEF Operation
<1>3. /\ ~Enters(SlotWrite("none")) /\ ~Enters(SlotWrite("searching"))
      /\ ~Enters(SlotWrite("accepted")) /\ ~Enters(SlotWrite("history"))
      /\ ~Enters(PoolWrite(FALSE)) /\ Fills(SlotWrite("searching"))
      /\ ~Empties(SlotWrite("searching")) /\ ~Empties(SlotWrite("accepted"))
      /\ ~Empties(SlotWrite("history")) /\ ~Empties(PoolWrite(TRUE))
      /\ ~Empties(PoolWrite(FALSE))
  BY <1>1, OperationsDiffer
<1>4. Harmless(OnA) /\ Guarded(OnA) /\ ~EntersNowhere(OnA)
  <2>1. /\ OnA \in Seq(Operation) /\ Len(OnA) = 3 /\ OnA[1] = SlotWrite("searching")
        /\ OnA[2] = PoolWrite(TRUE) /\ OnA[3] = SlotWrite("searching")
    BY <1>2, ShortSeries DEF OnA
  <2>2. \A i \in 1..Len(OnA) : i = 1 \/ (i = 2 /\ i - 1 = 1) \/ i = 3
    BY <2>1
  <2>3. Enters(OnA[2]) /\ 2 \in 1..Len(OnA)
    BY <2>1 DEF Enters
  <2>4. ~EntersNowhere(OnA)
    BY <2>3 DEF EntersNowhere
  <2>5. Guarded(OnA)
    BY <1>3, <2>1, <2>2 DEF Guarded, Unguarded
  <2>6. Harmless(OnA)
    BY <1>3, <2>1, <2>2 DEF Harmless
  <2>7. QED
    BY <2>4, <2>5, <2>6
<1>5. Harmless(OffA) /\ EntersNowhere(OffA) /\ Guarded(OffA)
  <2>1. /\ OffA \in Seq(Operation) /\ Len(OffA) = 2 /\ OffA[1] = PoolWrite(FALSE)
        /\ OffA[2] = SlotWrite("none")
    BY <1>2, ShortSeries DEF OffA
  <2>2. \A i \in 1..Len(OffA) : i = 1 \/ (i = 2 /\ i - 1 = 1)
    BY <2>1
  <2>3. QED
    BY <1>3, <2>1, <2>2 DEF Harmless, EntersNowhere, Guarded, Unguarded
<1>6. Harmless(OffB) /\ EntersNowhere(OffB)
  <2>1. OffB \in Seq(Operation) /\ Len(OffB) = 1 /\ OffB[1] = SlotWrite("none")
    BY <1>2, ShortSeries DEF OffB
  <2>2. QED
    BY <1>3, <2>1 DEF Harmless, EntersNowhere
<1>7. Harmless(AccA) /\ EntersNowhere(AccA) /\ Guarded(AccA)
  <2>1. /\ AccA \in Seq(Operation) /\ Len(AccA) = 3 /\ AccA[1] = SlotWrite("accepted")
        /\ AccA[2] = PoolWrite(FALSE) /\ AccA[3] = SlotWrite("history")
    BY <1>2, ShortSeries DEF AccA
  <2>2. \A i \in 1..Len(AccA) : i = 1 \/ i = 2 \/ i = 3
    BY <2>1
  <2>3. QED
    BY <1>3, <2>1, <2>2 DEF Harmless, EntersNowhere, Guarded, Unguarded
<1>8. Harmless(AccN) /\ EntersNowhere(AccN) /\ Guarded(AccN)
  <2>1. /\ AccN \in Seq(Operation) /\ Len(AccN) = 2
        /\ AccN[1] = SlotWrite("accepted") /\ AccN[2] = SlotWrite("history")
    BY <1>2, ShortSeries DEF AccN
  <2>2. \A i \in 1..Len(AccN) : i = 1 \/ i = 2
    BY <2>1
  <2>3. QED
    BY <1>3, <2>1, <2>2 DEF Harmless, EntersNowhere, Guarded, Unguarded
<1>9. ASSUME NEW d \in Dialogs
      PROVE  /\ Harmless(<<SlotRead(d)>>) /\ EntersNowhere(<<SlotRead(d)>>)
             /\ Guarded(<<SlotRead(d)>>)
  <2> DEFINE s == <<SlotRead(d)>>
  <2>1. s \in Seq(Operation) /\ Len(s) = 1 /\ s[1] = SlotRead(d)
    BY <1>2
  <2>2. ~Enters(s[1]) /\ ~Empties(s[1]) /\ \A i \in 1..Len(s) : i = 1
    BY <2>1, OperationsDiffer
  <2> HIDE DEF s
  <2>3. Harmless(s) /\ EntersNowhere(s) /\ Guarded(s)
    BY <2>1, <2>2 DEF Harmless, EntersNowhere, Guarded, Unguarded
  <2>4. QED
    BY <2>3 DEF s
<1>10. QED
  BY <1>4, <1>5, <1>6, <1>7, <1>8, <1>9, SeriesAre

-----------------------------------------------------------------------------
(* Steps                                                                   *)

\* Operations that are issued wait behind the ones under way.
LEMMA QueueIssue ==
    ASSUME QueueInv, NEW s, Harmless(s), geofire => Guarded(s),
           \/ EntersNowhere(s) /\ geofire' = geofire
           \/ Guarded(s) /\ geofire' = TRUE,
           outbox' = outbox \o s, slot' = slot, pool' = pool
    PROVE  /\ QueueInv'
           /\ Kept /\ Guarded(s) => Kept'
           /\ EntersNowhere(outbox)' => EntersNowhere(outbox) /\ EntersNowhere(s)
<1> DEFINE n == Len(outbox)
<1>1. outbox \in Seq(Operation) /\ s \in Seq(Operation)
  BY DEF QueueInv, Harmless
<1>2. /\ outbox' \in Seq(Operation) /\ n \in Nat /\ Len(s) \in Nat
      /\ Len(outbox') = n + Len(s)
      /\ \A i \in 1..(n + Len(s)) : outbox'[i] = IF i <= n THEN outbox[i] ELSE s[i - n]
  BY <1>1, ConcatProperties
<1>3. \A i \in 1..n : i \in 1..Len(outbox') /\ outbox'[i] = outbox[i]
  BY <1>2
<1>4. \A i \in 1..Len(s) : n + i \in 1..Len(outbox') /\ outbox'[n + i] = s[i]
  <2>1. TAKE i \in 1..Len(s)
  <2>2. n + i \in 1..(n + Len(s)) /\ ~(n + i <= n) /\ (n + i) - n = i
    BY <1>2
  <2>3. QED
    BY <1>2, <2>2
<1>5. \A i \in 1..Len(outbox') : i \in 1..n \/ \E k \in 1..Len(s) : i = n + k
  <2>1. TAKE i \in 1..Len(outbox')
  <2>2. CASE i > n
    <3>1. i - n \in 1..Len(s) /\ i = n + (i - n)
      BY <1>2, <2>2
    <3>2. QED
      BY <3>1
  <2>3. CASE ~(i > n)
    BY <1>2, <2>3
  <2>4. QED
    BY <2>2, <2>3
<1>6. \A i \in 1..n : Unguarded(outbox', i) => Unguarded(outbox, i)
  <2>1. TAKE i \in 1..n
  <2>2. outbox'[i] = outbox[i] /\ (i > 1 => outbox'[i - 1] = outbox[i - 1])
    BY <1>2, <1>3
  <2>3. i = 1 \/ i > 1
    BY <1>2
  <2>4. QED
    BY <2>2, <2>3 DEF Unguarded
<1>7. \A k \in 1..Len(s) : Unguarded(outbox', n + k) => Unguarded(s, k)
  <2>1. TAKE k \in 1..Len(s)
  <2>2. CASE k = 1
    BY <1>4, <2>2 DEF Unguarded
  <2>3. CASE k > 1
    <3>1. k - 1 \in 1..Len(s) /\ n + (k - 1) = (n + k) - 1 /\ n + k # 1
      BY <1>2, <2>3
    <3>2. outbox'[n + k] = s[k] /\ outbox'[(n + k) - 1] = s[k - 1]
      BY <1>4, <3>1
    <3>3. QED
      BY <3>1, <3>2 DEF Unguarded
  <2>4. QED
    BY <1>2, <2>2, <2>3
<1>8. Careful(outbox')
  <2>1. ASSUME NEW i \in 1..n
        PROVE  /\ Enters(outbox'[i]) /\ i > 1 => Fills(outbox'[i - 1])
               /\ Unguarded(outbox', i) =>
                    \A j \in 1..Len(outbox') : j < i => ~Enters(outbox'[j])
    <3>1. i > 1 => outbox'[i - 1] = outbox[i - 1]
      BY <1>2, <1>3
    <3>2. \A j \in 1..Len(outbox') : j < i => j \in 1..n /\ outbox'[j] = outbox[j]
      BY <1>2, <1>3
    <3>3. QED
      BY <1>3, <1>6, <3>1, <3>2 DEF QueueInv, Careful
  <2>2. ASSUME NEW k \in 1..Len(s)
        PROVE  /\ Enters(outbox'[n + k]) => Fills(outbox'[(n + k) - 1])
               /\ Unguarded(outbox', n + k) =>
                    \A j \in 1..Len(outbox') : ~Enters(outbox'[j])
    <3>1. Enters(s[k]) => k > 1 /\ Fills(s[k - 1])
      BY DEF Harmless
    <3>2. k > 1 => k - 1 \in 1..Len(s) /\ n + (k - 1) = (n + k) - 1
      BY <1>2
    <3>3. Unguarded(s, k) => ~geofire /\ EntersNowhere(s) /\ EntersNowhere(outbox)
      BY DEF Guarded, QueueInv
    <3>4. EntersNowhere(s) /\ EntersNowhere(outbox) =>
            \A j \in 1..Len(outbox') : ~Enters(outbox'[j])
      BY <1>3, <1>4, <1>5 DEF EntersNowhere
    <3>5. QED
      BY <1>4, <1>7, <3>1, <3>2, <3>3, <3>4
  <2>3. QED
    BY <1>5, <2>1, <2>2 DEF Careful
<1>9. Len(outbox') > 0 /\ Enters(outbox'[1]) => slot # "none"
  <2>1. CASE n > 0
    BY <1>2, <1>3, <2>1 DEF QueueInv
  <2>2. CASE n = 0
    <3>1. Len(outbox') > 0 => 1 \in 1..Len(s) /\ n + 1 = 1
      BY <1>2, <2>2
    <3>2. QED
      BY <1>4, <3>1 DEF Harmless
  <2>3. QED
    BY <1>2, <2>1, <2>2
<1>10. EntersNowhere(outbox') <=> EntersNowhere(outbox) /\ EntersNowhere(s)
  BY <1>3, <1>4, <1>5 DEF EntersNowhere
<1>11. Guarded(outbox) /\ Guarded(s) => Guarded(outbox')
  BY <1>5, <1>6, <1>7 DEF Guarded
<1>12. geofire' \in BOOLEAN /\ (~geofire' => ~geofire /\ EntersNowhere(s))
  BY DEF QueueInv
<1>13. QueueInv'
  BY <1>2, <1>8, <1>9, <1>10, <1>12 DEF QueueInv
<1>14. QED
  BY <1>10, <1>11, <1>13 DEF Kept

\* Only a client writes the slot besides, and never empties it.
LEMMA QueueFrame ==
    ASSUME QueueInv, pool' = pool, slot' = slot \/ slot' \in SlotValue \ {"none"},
           \/ outbox' = outbox /\ geofire' = geofire
           \/ outbox' = << >> /\ geofire' = FALSE
    PROVE  QueueInv' /\ (Kept => Kept')
<1>1. Len(<< >>) = 0 /\ << >> \in Seq(Operation)
  OBVIOUS
<1>2. Careful(<< >>) /\ Guarded(<< >>) /\ EntersNowhere(<< >>)
  BY <1>1 DEF Careful, Guarded, EntersNowhere
<1>3. outbox' = << >> => ~(Len(outbox') > 0)
  BY <1>1
<1>4. slot' \in SlotValue /\ pool' \in BOOLEAN /\ (slot # "none" => slot' # "none")
  BY DEF QueueInv
<1>5. QED
  BY <1>1, <1>2, <1>3, <1>4 DEF QueueInv, Kept

LEMMA QueuePerform ==
    ASSUME QueueInv, Perform
    PROVE  /\ QueueInv' /\ geofire' = geofire
           /\ pool' /\ (Kept \/ Enters(Head(outbox))) => Kept'
           /\ ~Enters(Head(outbox)) => /\ pool' => pool
                                       /\ EntersNowhere(outbox') => EntersNowhere(outbox)
           /\ Enters(Head(outbox)) => ~EntersNowhere(outbox)
<1> DEFINE o == Head(outbox)
<1>1. /\ o = outbox[1] /\ o \in Operation /\ Len(outbox) > 0 /\ Len(outbox) \in Nat
      /\ outbox' \in Seq(Operation) /\ Len(outbox') = Len(outbox) - 1
      /\ \A i \in 1..Len(outbox') : i + 1 \in 1..Len(outbox) /\ outbox'[i] = outbox[i + 1]
  BY HeadTailProperties DEF Perform, QueueInv
<1>2. geofire' = geofire
  BY DEF Perform, button
<1>3. 1 \in 1..Len(outbox)
  BY <1>1
<1>4. \A i \in 1..Len(outbox) : i = 1 \/ (i - 1 \in 1..Len(outbox') /\ (i - 1) + 1 = i)
  BY <1>1
<1>5. \A i \in 1..Len(outbox') : i > 1 => outbox'[i - 1] = outbox[(i + 1) - 1]
  <2>1. TAKE i \in 1..Len(outbox')
  <2>2. i > 1 => i - 1 \in 1..Len(outbox') /\ (i - 1) + 1 = (i + 1) - 1
    BY <1>1
  <2>3. QED
    BY <1>1, <2>2
<1>6. \A i \in 1..Len(outbox') :
         Unguarded(outbox', i) => Unguarded(outbox, i + 1) \/ (i = 1 /\ o = PoolWrite(FALSE))
  <2>1. TAKE i \in 1..Len(outbox')
  <2>2. i + 1 # 1 /\ (i = 1 => (i + 1) - 1 = 1) /\ (i = 1 \/ i > 1)
    BY <1>1
  <2>3. QED
    BY <1>1, <1>5, <2>2 DEF Unguarded
<1>7. Careful(outbox')
  <2>1. SUFFICES ASSUME NEW i \in 1..Len(outbox')
                 PROVE  /\ Enters(outbox'[i]) /\ i > 1 => Fills(outbox'[i - 1])
                        /\ Unguarded(outbox', i) =>
                             \A j \in 1..Len(outbox') : j < i => ~Enters(outbox'[j])
    BY DEF Careful
  <2>2. i + 1 \in 1..Len(outbox) /\ i + 1 > 1 /\ outbox'[i] = outbox[i + 1]
    BY <1>1
  <2>3. Enters(outbox'[i]) /\ i > 1 => Fills(outbox'[i - 1])
    BY <1>5, <2>2 DEF QueueInv, Careful
  <2>4. ASSUME Unguarded(outbox', i), NEW j \in 1..Len(outbox'), j < i
        PROVE  ~Enters(outbox'[j])
    <3>1. j + 1 \in 1..Len(outbox) /\ j + 1 < i + 1 /\ outbox'[j] = outbox[j + 1] /\ i # 1
      BY <1>1, <2>4
    <3>2. Unguarded(outbox, i + 1)
      BY <1>6, <2>4, <3>1
    <3>3. QED
      BY <2>2, <3>1, <3>2 DEF QueueInv, Careful
  <2>5. QED
    BY <2>3, <2>4
<1>8. Len(outbox') > 0 /\ Enters(outbox'[1]) => Fills(o)
  <2>1. SUFFICES ASSUME Len(outbox') > 0, Enters(outbox'[1]) PROVE Fills(o)
    OBVIOUS
  <2>2. 1 \in 1..Len(outbox')
    BY <1>1, <2>1
  <2>3. 2 \in 1..Len(outbox) /\ outbox'[1] = outbox[2]
    BY <1>1, <2>2
  <2>4. \A i \in 1..Len(outbox) : i = 2 /\ Enters(outbox[i]) => Fills(outbox[1])
    <3>1. SUFFICES ASSUME NEW i \in 1..Len(outbox), i = 2, Enters(outbox[i])
                   PROVE  Fills(outbox[1])
      OBVIOUS
    <3>2. i > 1 /\ i - 1 = 1
      BY <3>1
    <3>3. QED
      BY <3>1, <3>2 DEF QueueInv, Careful
  <2>5. QED
    BY <1>1, <2>1, <2>3, <2>4
<1>9. EntersNowhere(outbox) => EntersNowhere(outbox')
  BY <1>1 DEF EntersNowhere
<1>10. ~Enters(o) => (EntersNowhere(outbox') => EntersNowhere(outbox))
  <2>1. SUFFICES ASSUME ~Enters(o), EntersNowhere(outbox'), NEW i \in 1..Len(outbox)
                 PROVE  ~Enters(outbox[i])
    BY DEF EntersNowhere
  <2>2. QED
    BY <1>1, <1>4, <2>1 DEF EntersNowhere
<1>11. Enters(o) => ~EntersNowhere(outbox)
  BY <1>1, <1>3 DEF EntersNowhere
<1>12. ~(\E i \in 1..Len(outbox') : Unguarded(outbox', i) /\ ~Unguarded(outbox, i + 1))
       /\ (Guarded(outbox) \/ Enters(o)) => Guarded(outbox')
  <2>1. SUFFICES ASSUME Guarded(outbox) \/ Enters(o), NEW i \in 1..Len(outbox'),
                        Unguarded(outbox, i + 1)
                 PROVE  FALSE
    BY DEF Guarded
  <2>2. i + 1 \in 1..Len(outbox) /\ 1 < i + 1
    BY <1>1
  <2>3. QED
    BY <1>1, <1>3, <2>1, <2>2 DEF Guarded, QueueInv, Careful
<1>13. (Guarded(outbox) \/ Enters(o)) /\ o # PoolWrite(FALSE) => Guarded(outbox')
  BY <1>6, <1>12
<1>14. CASE \E v \in SlotValue : o = SlotWrite(v)
  <2>1. PICK v \in SlotValue : o = SlotWrite(v)
    BY <1>14
  <2>2. slot' = v /\ pool' = pool
    BY <2>1 DEF Perform, SlotWrite
  <2>3. Fills(o) => v # "none"
    BY <2>1 DEF Fills, SlotWrite
  <2>4. Guarded(outbox) => v # "none"
    BY <1>1, <1>3, <2>1 DEF Guarded, Unguarded, Empties
  <2>5. o # PoolWrite(FALSE) /\ ~Enters(o)
    BY <2>1, OperationsDiffer
  <2>6. Kept => Kept'
    BY <1>13, <2>2, <2>4, <2>5 DEF Kept
  <2>7. QueueInv'
    BY <1>1, <1>2, <1>7, <1>8, <1>9, <2>2, <2>3 DEF QueueInv
  <2>8. QED
    BY <1>2, <1>10, <2>2, <2>5, <2>6, <2>7
<1>15. CASE \E b \in BOOLEAN : o = PoolWrite(b)
  <2>1. PICK b \in BOOLEAN : o = PoolWrite(b)
    BY <1>15
  <2>2. o.op = "pool" /\ o.value = b
    BY <2>1 DEF PoolWrite
  <2>3. slot' = slot /\ pool' = b
    BY <2>2 DEF Perform
  <2>4. b = TRUE => slot # "none" /\ Enters(o) /\ o # PoolWrite(FALSE)
    BY <1>1, <2>1, <2>2, OperationsDiffer DEF QueueInv, Enters
  <2>5. ~Fills(o)
    BY <2>1, OperationsDiffer DEF Fills
  <2>6. pool' => Kept'
    BY <1>13, <2>3, <2>4 DEF Kept
  <2>7. ~Enters(o) => ~pool'
    BY <2>3, <2>4
  <2>8. QueueInv'
    BY <1>1, <1>2, <1>7, <1>8, <1>9, <2>3, <2>5 DEF QueueInv
  <2>9. QED
    BY <1>2, <1>10, <1>11, <2>6, <2>7, <2>8
<1>16. CASE \E d \in Dialogs : o = SlotRead(d)
  <2>1. PICK d \in Dialogs : o = SlotRead(d)
    BY <1>16
  <2>2. slot' = slot /\ pool' = pool
    BY <2>1 DEF Perform, SlotRead
  <2>3. ~Fills(o) /\ o # PoolWrite(FALSE) /\ ~Enters(o)
    BY <2>1, OperationsDiffer DEF Fills
  <2>4. Kept => Kept'
    BY <1>13, <2>2, <2>3 DEF Kept
  <2>5. QueueInv'
    BY <1>1, <1>2, <1>7, <1>8, <1>9, <2>2, <2>3 DEF QueueInv
  <2>6. QED
    BY <1>2, <1>10, <2>2, <2>3, <2>4, <2>5
<1>17. QED
  BY <1>1, <1>14, <1>15, <1>16 DEF Operation

LEMMA QueueInit == Init => PoolInv /\ RaceInv
<1> SUFFICES ASSUME Init PROVE PoolInv /\ RaceInv
  OBVIOUS
<1>1. slot = "none" /\ slot \in SlotValue /\ pool = FALSE /\ outbox = << >> /\ geofire = FALSE
  BY DEF Init, SlotValue
<1>2. Len(outbox) = 0 /\ outbox \in Seq(Operation)
  BY <1>1
<1>3. Careful(outbox) /\ EntersNowhere(outbox)
  BY <1>2 DEF Careful, EntersNowhere
<1>4. QueueInv
  <2>1. pool \in BOOLEAN /\ geofire \in BOOLEAN
    BY <1>1, Zenon
  <2>2. QED
    BY <1>1, <1>2, <1>3, <2>1 DEF QueueInv
<1>5. QED
  BY <1>1, <1>4 DEF PoolInv, RaceInv

\* The three kinds of step, as far as the queue sees them.
Issues(s) ==
    /\ Harmless(s) /\ (geofire => Guarded(s))
    /\ \/ EntersNowhere(s) /\ geofire' = geofire
       \/ ~EntersNowhere(s) /\ Guarded(s) /\ geofire' = TRUE
    /\ outbox' = outbox \o s /\ slot' = slot /\ pool' = pool

Frames ==
    /\ pool' = pool /\ (slot' = slot \/ slot' \in SlotValue \ {"none"})
    /\ outbox' = outbox /\ geofire' = geofire

LEMMA QueueSteps ==
    ASSUME QueueInv, [Next]_vars
    PROVE  Perform \/ Frames \/ Crash \/ \E s : Issues(s)
<1> USE DEF database, button, offers, outside
<1>1. ASSUME NEW r \in Requests,
             ClientOffers(r) \/ ClientWithdraws(r) \/ ClientSeesAcceptance(r) \/ PushFails(r)
      PROVE  Frames
  <2>1. r # "none" /\ r \in SlotValue
    BY DEF SlotValue
  <2>2. {"cancelled", "timeout"} \subseteq SlotValue \ {"none"}
    BY DEF SlotValue
  <2>3. QED
    BY <1>1, <2>1, <2>2 DEF Frames, ClientOffers, ClientWithdraws, ClientSeesAcceptance,
       PushFails
<1>2. ASSUME NEW h \in Toggles, ToggleOffline(h) PROVE Issues(makeRiderOfflineNow)
  BY <1>2, SeriesHarmless DEF ToggleOffline, Issues
<1>3. ASSUME NEW h \in Toggles, Located(h) PROVE Issues(onlineWrites)
  BY <1>3, SeriesHarmless DEF Located, Issues
<1>4. ASSUME NEW d \in Dialogs, CheckAnswered(d) PROVE Frames \/ Issues(acceptWrites)
  <2>1. /\ outbox' = outbox \/ outbox' = outbox \o acceptWrites
        /\ slot' = slot /\ pool' = pool /\ geofire' = geofire
    BY <1>4 DEF CheckAnswered
  <2>2. QED
    BY <2>1, SeriesHarmless DEF Frames, Issues
<1>5. ASSUME NEW d \in Dialogs, TapAccept(d) PROVE Issues(<<SlotRead(d)>>)
  <2>1. /\ outbox' = outbox \o <<SlotRead(d)>> /\ slot' = slot /\ pool' = pool
        /\ geofire' = geofire
    BY <1>5 DEF TapAccept, QueueInv, Operation
  <2>2. QED
    BY <2>1, SeriesHarmless DEF Issues
<1>6. ASSUME \/ AdministratorDecides \/ SwitchTab \/ LeaveTrip \/ UNCHANGED vars
             \/ \E h \in Toggles : TapToggle(h) \/ ToggleDeactivated(h) \/ ToggleOnline(h)
                                   \/ StatusReadFails(h) \/ LocationFails(h)
             \/ \E r \in Requests, d \in Dialogs : ReceivePush(r, d)
             \/ \E d \in Dialogs : ShowOffer(d) \/ FetchFails(d) \/ TapDecline(d)
                                   \/ DisposeDialog(d) \/ ReuseDialog(d)
      PROVE  Frames
  BY <1>6 DEF Frames, AdministratorDecides, SwitchTab, LeaveTrip, vars, TapToggle,
     ToggleDeactivated, ToggleOnline, StatusReadFails, LocationFails, ReceivePush,
     ShowOffer, FetchFails, TapDecline, DisposeDialog, ReuseDialog
<1>7. QED
  BY <1>1, <1>2, <1>3, <1>4, <1>5, <1>6 DEF Next, ToggleHandler

LEMMA PoolNext == PoolInv /\ [Next]_vars => PoolInv'
<1> SUFFICES ASSUME PoolInv, [Next]_vars PROVE PoolInv'
  OBVIOUS
<1>1. QueueInv /\ (geofire /\ pool /\ EntersNowhere(outbox) => Kept)
  BY DEF PoolInv
<1>2. CASE Perform
  BY <1>1, <1>2, QueuePerform DEF PoolInv
<1>3. CASE Frames
  BY <1>1, <1>3, QueueFrame DEF PoolInv, Frames
<1>4. CASE Crash
  <2>1. pool' = pool /\ slot' = slot /\ outbox' = << >> /\ geofire' = FALSE
    BY <1>4 DEF Crash, database
  <2>2. QED
    BY <1>1, <2>1, QueueFrame DEF PoolInv
<1>5. ASSUME NEW s, Issues(s) PROVE PoolInv'
  <2>1. /\ QueueInv' /\ (Kept /\ Guarded(s) => Kept')
        /\ EntersNowhere(outbox)' => EntersNowhere(outbox) /\ EntersNowhere(s)
    BY <1>1, <1>5, QueueIssue DEF Issues
  <2>2. CASE EntersNowhere(s) /\ geofire' = geofire
    BY <1>1, <1>5, <2>1, <2>2 DEF PoolInv, Issues
  <2>3. CASE Guarded(s) /\ geofire' = TRUE /\ ~EntersNowhere(s)
    BY <2>1, <2>3 DEF PoolInv
  <2>4. QED
    BY <1>5, <2>2, <2>3 DEF Issues
<1>6. QED
  BY <1>1, <1>2, <1>3, <1>4, <1>5, QueueSteps

LEMMA RaceNext == RaceInv /\ [Next]_vars /\ "crash" \notin Faults => RaceInv'
<1> SUFFICES ASSUME RaceInv, [Next]_vars, "crash" \notin Faults PROVE RaceInv'
  OBVIOUS
<1>1. QueueInv /\ (~geofire => ~pool) /\ (pool => Kept)
  BY DEF RaceInv
<1>2. CASE Perform
  <2>1. ~geofire => ~Enters(Head(outbox))
    BY <1>1, <1>2, QueuePerform DEF QueueInv
  <2>2. QED
    BY <1>1, <1>2, <2>1, QueuePerform DEF RaceInv
<1>3. CASE Frames
  BY <1>1, <1>3, QueueFrame DEF RaceInv, Frames
<1>4. ASSUME NEW s, Issues(s) PROVE RaceInv'
  <2>1. QueueInv' /\ (Kept /\ Guarded(s) => Kept')
    BY <1>1, <1>4, QueueIssue DEF Issues
  <2>2. geofire => Guarded(s) /\ geofire'
    BY <1>4 DEF Issues
  <2>3. QED
    BY <1>1, <1>4, <2>1, <2>2 DEF RaceInv, Issues
<1>5. ~Crash
  BY DEF Crash
<1>6. QED
  BY <1>1, <1>2, <1>3, <1>4, <1>5, QueueSteps

\* With any fault, and whatever an earlier process left in the pool and the slot:
\* once the rider's entry is published by this process, there is a slot, for any
\* number of handlers of the button and dialogs in flight.
THEOREM SlotForThePublished == Spec => []PublishedHasSlot
<1>1. PoolInv => PublishedHasSlot
  <2>1. SUFFICES ASSUME PoolInv, ~Publishing PROVE EntersNowhere(outbox)
    BY DEF PoolInv, PublishedHasSlot, Kept
  <2>2. outbox \in Seq(Operation)
    BY <2>1 DEF PoolInv, QueueInv
  <2>3. DOMAIN outbox = 1..Len(outbox)
    BY <2>2
  <2>4. QED
    BY <2>1, <2>3 DEF Publishing, EntersNowhere, Enters
<1>2. QED
  BY <1>1, QueueInit, PoolNext, PTL DEF Spec

\* As long as the process lives, a client that finds the rider in the pool finds a
\* slot to write to, however the handlers of the button overlap.
THEOREM SlotForEveryone == "crash" \notin Faults => (Spec => []PoolHasSlot)
<1> SUFFICES ASSUME "crash" \notin Faults PROVE Spec => []PoolHasSlot
  OBVIOUS
<1>1. RaceInv => PoolHasSlot
  BY DEF RaceInv, Kept, PoolHasSlot
<1>2. RaceInv /\ [Next]_vars => RaceInv'
  BY RaceNext
<1>3. QED
  BY <1>1, <1>2, QueueInit, PTL DEF Spec

-----------------------------------------------------------------------------
(* The patient rider                                                       *)
(*                                                                         *)
(* For a rider who waits for the answer before the next tap, and a process *)
(* that does not die, one thing is under way at a time.                    *)

PatientRun == Patient /\ "crash" \notin Faults

AllIdle == \A h \in Toggles : toggle[h] = "idle"
Asking(d) == asked[d] # 0 \/ answers[d] # << >>
NoReads == \A d \in Dialogs : ~Asking(d)

Toggling == /\ \E h \in Toggles : \A k \in Toggles : k # h => toggle[k] = "idle"
            /\ outbox = << >> /\ NoReads
Reading(d) == /\ AllIdle /\ outbox = <<SlotRead(d)>>
              /\ asked[d] = 1 /\ answers[d] = << >>
              /\ \A e \in Dialogs : e # d => ~Asking(e)
Handling(d) == /\ AllIdle /\ outbox = << >>
               /\ asked[d] = 0 /\ Len(answers[d]) = 1
               /\ \A e \in Dialogs : e # d => ~Asking(e)
Writing == AllIdle /\ NoReads /\ outbox \in {OffA, OffB, OnA, OnB, OnC, AccA, AccN, AccB, AccC}

Activity ==
    /\ toggle \in [Toggles -> {"idle", "status", "position"}]
    /\ asked \in [Dialogs -> Nat]
    /\ answers \in [Dialogs -> Seq(SlotValue)]
    /\ \/ Settled \/ Toggling \/ Writing
       \/ \E d \in Dialogs : Reading(d) \/ Handling(d)

LEMMA Stages ==
    /\ Len(OffA) = 2 /\ Head(OffA) = PoolWrite(FALSE) /\ Tail(OffA) = OffB
    /\ Len(OffB) = 1 /\ Head(OffB) = SlotWrite("none") /\ Tail(OffB) = << >>
    /\ Len(OnA) = 3 /\ Head(OnA) = SlotWrite("searching") /\ Tail(OnA) = OnB
    /\ Len(OnB) = 2 /\ Head(OnB) = PoolWrite(TRUE) /\ Tail(OnB) = OnC
    /\ Len(OnC) = 1 /\ Head(OnC) = SlotWrite("searching") /\ Tail(OnC) = << >>
    /\ Len(AccA) = 3 /\ Head(AccA) = SlotWrite("accepted") /\ Tail(AccA) = AccB
    /\ Len(AccN) = 2 /\ Head(AccN) = SlotWrite("accepted") /\ Tail(AccN) = AccC
    /\ Len(AccB) = 2 /\ Head(AccB) = PoolWrite(FALSE) /\ Tail(AccB) = AccC
    /\ Len(AccC) = 1 /\ Head(AccC) = SlotWrite("history") /\ Tail(AccC) = << >>
<1>1. \A a, b, c : /\ Len(<<a>>) = 1 /\ Head(<<a>>) = a /\ Tail(<<a>>) = << >>
                   /\ Len(<<a, b>>) = 2 /\ Head(<<a, b>>) = a /\ Tail(<<a, b>>) = <<b>>
                   /\ Len(<<a, b, c>>) = 3 /\ Head(<<a, b, c>>) = a
                   /\ Tail(<<a, b, c>>) = <<b, c>>
  OBVIOUS
<1>2. QED
  BY <1>1 DEF OffA, OffB, OnA, OnB, OnC, AccA, AccN, AccB, AccC

\* The series of going online is not taken for another one.
LEMMA StagesDiffer ==
    /\ {OffA, OffB, OnC, AccA, AccN, AccB, AccC} \cap {OnA, OnB} = {}
    /\ {AccA, AccN} \cap {OffA, OffB, AccB, AccC} = {}
    /\ {OffB, OnC, AccC} \cap {OffA, AccA, AccN, AccB} = {}
    /\ << >> \notin {OffA, OffB, OnA, OnB, OnC, AccA, AccN, AccB, AccC}
    /\ \A d \in Dialogs : <<SlotRead(d)>> \notin {OffA, OnA, OnB, AccA, AccN, AccB}
<1>1. /\ SlotWrite("accepted") # SlotWrite("searching") /\ PoolWrite(TRUE) # PoolWrite(FALSE)
      /\ SlotWrite("accepted") # PoolWrite(TRUE) /\ SlotWrite("accepted") # PoolWrite(FALSE)
  BY DEF SlotWrite, PoolWrite
<1>2. \A d \in Dialogs : Len(<<SlotRead(d)>>) = 1
  OBVIOUS
<1>3. /\ Len(OffA) = 2 /\ Len(OffB) = 1 /\ Len(OnA) = 3 /\ Len(OnB) = 2 /\ Len(OnC) = 1
      /\ Len(AccA) = 3 /\ Len(AccN) = 2 /\ Len(AccB) = 2 /\ Len(AccC) = 1
  BY Stages
<1>4. /\ Head(OnA) # Head(AccA) /\ Head(OnB) # Head(OffA) /\ Head(OnB) # Head(AccB)
      /\ Head(OnB) # Head(AccN) /\ Head(AccN) # Head(OffA) /\ Head(AccN) # Head(AccB)
  BY <1>1, Stages
<1>5. OnA # AccA /\ OnB # OffA /\ OnB # AccB /\ OnB # AccN /\ AccN # OffA /\ AccN # AccB
  BY <1>4
<1>6. /\ OnA \notin {OffA, OffB, OnC, AccN, AccB, AccC}
      /\ OnB \notin {OffB, OnC, AccA, AccC}
  BY <1>3
<1>7. /\ AccA \notin {OffA, OffB, AccB, AccC} /\ AccN \notin {OffB, AccC}
      /\ OffB \notin {OffA, AccA, AccN, AccB}
      /\ OnC \notin {OffA, AccA, AccN, AccB}
      /\ AccC \notin {OffA, AccA, AccN, AccB}
  BY <1>3
<1>8. << >> \notin {OffA, OffB, OnA, OnB, OnC, AccA, AccN, AccB, AccC}
  <2>1. /\ OffA # << >> /\ OffB # << >> /\ OnA # << >> /\ OnB # << >> /\ OnC # << >>
        /\ AccA # << >> /\ AccN # << >> /\ AccB # << >> /\ AccC # << >>
    <3>1. \A a, b, c : <<a>> # << >> /\ <<a, b>> # << >> /\ <<a, b, c>> # << >>
      OBVIOUS
    <3>2. QED
      BY <3>1, Zenon DEF OffA, OffB, OnA, OnB, OnC, AccA, AccN, AccB, AccC
  <2>2. QED
    BY <2>1, Zenon
<1>9. ASSUME NEW d \in Dialogs PROVE <<SlotRead(d)>> \notin {OffA, OnA, OnB, AccA, AccN, AccB}
  BY <1>2, <1>3
<1>10. QED
  BY <1>5, <1>6, <1>7, <1>8, <1>9

\* What the database makes of the operation at the front.
LEMMA PerformOne ==
    ASSUME Perform
    PROVE  /\ outbox' = Tail(outbox) /\ outbox # << >>
           /\ UNCHANGED <<account, online, banner, toggle, tab, geofire, routes, dialog, pushes,
                        client, opened>>
           /\ \A v : Head(outbox) = SlotWrite(v) => slot' = v /\ UNCHANGED <<pool, answers, asked>>
           /\ \A b : Head(outbox) = PoolWrite(b) => pool' = b /\ UNCHANGED <<slot, answers, asked>>
           /\ \A d : Head(outbox) = SlotRead(d) =>
                 /\ answers' = [answers EXCEPT ![d] = Append(@, slot)]
                 /\ asked' = [asked EXCEPT ![d] = @ - 1]
                 /\ UNCHANGED <<slot, pool>>
BY DEF Perform, SlotWrite, PoolWrite, SlotRead, button, outside

LEMMA PerformStages ==
    ASSUME Perform
    PROVE  /\ outbox = OffA => outbox' = OffB /\ pool' = FALSE /\ slot' = slot
           /\ outbox = OffB => outbox' = << >> /\ pool' = pool /\ slot' = "none"
           /\ outbox = OnA  => outbox' = OnB /\ pool' = pool /\ slot' = "searching"
           /\ outbox = OnB  => outbox' = OnC /\ pool' = TRUE /\ slot' = slot
           /\ outbox = OnC  => outbox' = << >> /\ pool' = pool /\ slot' = "searching"
           /\ outbox = AccA => outbox' = AccB /\ pool' = pool /\ slot' = "accepted"
           /\ outbox = AccN => outbox' = AccC /\ pool' = pool /\ slot' = "accepted"
           /\ outbox = AccB => outbox' = AccC /\ pool' = FALSE /\ slot' = slot
           /\ outbox = AccC => outbox' = << >> /\ pool' = pool /\ slot' = "history"
           /\ outbox \in {OffA, OffB, OnA, OnB, OnC, AccA, AccN, AccB, AccC} =>
                 UNCHANGED <<asked, answers>>
BY PerformOne, Stages

LEMMA PerformRead ==
    ASSUME Perform, NEW d \in Dialogs, outbox = <<SlotRead(d)>>
    PROVE  /\ outbox' = << >> /\ pool' = pool /\ slot' = slot
           /\ answers' = [answers EXCEPT ![d] = Append(@, slot)]
           /\ asked' = [asked EXCEPT ![d] = @ - 1]
<1>1. Head(outbox) = SlotRead(d) /\ Tail(outbox) = << >>
  OBVIOUS
<1>2. QED
  BY <1>1, PerformOne

LEMMA ActivityInit == Init => Activity
<1> SUFFICES ASSUME Init PROVE Activity
  OBVIOUS
<1>1. toggle \in [Toggles -> {"idle", "status", "position"}]
  BY DEF Init
<1>2. asked \in [Dialogs -> Nat] /\ answers \in [Dialogs -> Seq(SlotValue)]
  BY DEF Init
<1>3. Settled
  BY DEF Init, Settled
<1>4. QED
  BY <1>1, <1>2, <1>3 DEF Activity

LEMMA ActivityPerform ==
    ASSUME RaceInv, Activity, Perform
    PROVE  Activity'
<1>1. toggle' = toggle /\ outbox # << >> /\ slot \in SlotValue
  BY PerformOne DEF RaceInv, QueueInv
<1>2. CASE Writing
  <2>1. /\ UNCHANGED <<asked, answers>> /\ AllIdle /\ NoReads
        /\ outbox' = << >> \/ outbox' \in {OffB, OnB, OnC, AccB, AccC}
    BY <1>2, PerformStages DEF Writing
  <2>2. AllIdle' /\ NoReads'
    BY <1>1, <2>1 DEF AllIdle, NoReads, Asking
  <2>3. CASE outbox' = << >>
    BY <1>1, <2>1, <2>2, <2>3 DEF Activity, Settled, AllIdle, NoReads, Asking
  <2>4. CASE outbox' \in {OffB, OnB, OnC, AccB, AccC}
    BY <1>1, <2>1, <2>2, <2>4 DEF Activity, Writing
  <2>5. QED
    BY <2>1, <2>3, <2>4
<1>3. ASSUME NEW d \in Dialogs, Reading(d) PROVE Activity'
  <2>1. /\ outbox' = << >>
        /\ answers' = [answers EXCEPT ![d] = Append(@, slot)]
        /\ asked' = [asked EXCEPT ![d] = @ - 1]
    BY <1>3, PerformRead DEF Reading
  <2>2. /\ asked[d] = 1 /\ answers[d] = << >> /\ AllIdle
        /\ \A e \in Dialogs : e # d => asked[e] = 0 /\ answers[e] = << >>
        /\ asked \in [Dialogs -> Nat] /\ answers \in [Dialogs -> Seq(SlotValue)]
    BY <1>3 DEF Reading, Asking, Activity
  <2>3. Append(answers[d], slot) = <<slot>> /\ Len(<<slot>>) = 1 /\ <<slot>> \in Seq(SlotValue)
    BY <1>1, <2>2
  <2>4. answers' \in [Dialogs -> Seq(SlotValue)] /\ Len(answers'[d]) = 1
        /\ \A e \in Dialogs : e # d => answers'[e] = << >>
    BY <2>1, <2>2, <2>3
  <2>5. asked' \in [Dialogs -> Nat] /\ asked'[d] = 0 /\ \A e \in Dialogs : e # d => asked'[e] = 0
    BY <2>1, <2>2
  <2>6. Handling(d)'
    BY <1>1, <2>1, <2>2, <2>4, <2>5 DEF Handling, AllIdle, Asking
  <2>7. QED
    BY <1>1, <2>4, <2>5, <2>6 DEF Activity
<1>4. QED
  BY <1>1, <1>2, <1>3 DEF Activity, Settled, Toggling, Handling

\* A handler of the button that waits is the only thing under way.
LEMMA OneHandler ==
    ASSUME Activity, NEW h \in Toggles, toggle[h] # "idle"
    PROVE  outbox = << >> /\ NoReads /\ \A k \in Toggles : k # h => toggle[k] = "idle"
<1>1. Toggling
  BY DEF Activity, Settled, Writing, Reading, Handling, AllIdle
<1>2. QED
  BY <1>1 DEF Toggling

\* So is an answer to an Accept tap.
LEMMA OneAnswer ==
    ASSUME Activity, NEW d \in Dialogs, answers[d] # << >>
    PROVE  Handling(d)
<1>1. ~Settled
  BY DEF Settled
<1>2. ~Toggling /\ ~Writing
  BY DEF Toggling, Writing, NoReads, Asking
<1>3. \A e \in Dialogs : ~Reading(e)
  BY DEF Reading, Asking
<1>4. \A e \in Dialogs : Handling(e) => e = d
  BY DEF Handling, Asking
<1>5. QED
  BY <1>1, <1>2, <1>3, <1>4 DEF Activity

LEMMA ActivityNext ==
    ASSUME PatientRun, RaceInv, Activity, [Next]_vars
    PROVE  Activity'
<1> USE DEF database, button, offers, outside
<1>0. /\ toggle \in [Toggles -> {"idle", "status", "position"}]
      /\ asked \in [Dialogs -> Nat] /\ answers \in [Dialogs -> Seq(SlotValue)]
  BY DEF Activity
<1>1. ASSUME \/ AdministratorDecides \/ SwitchTab \/ LeaveTrip \/ UNCHANGED vars
             \/ \E r \in Requests : \/ ClientOffers(r) \/ ClientWithdraws(r)
                                    \/ ClientSeesAcceptance(r) \/ PushFails(r)
             \/ \E r \in Requests, d \in Dialogs : ReceivePush(r, d)
             \/ \E d \in Dialogs : ShowOffer(d) \/ FetchFails(d) \/ TapDecline(d)
                                   \/ DisposeDialog(d) \/ ReuseDialog(d)
      PROVE  Activity'
  <2>1. UNCHANGED <<toggle, outbox, asked, answers>>
    BY <1>1 DEF AdministratorDecides, SwitchTab, LeaveTrip, vars, ClientOffers, ClientWithdraws,
       ClientSeesAcceptance, PushFails, ReceivePush, ShowOffer, FetchFails, TapDecline,
       DisposeDialog, ReuseDialog
  <2>2. /\ Settled' = Settled /\ Toggling' = Toggling /\ Writing' = Writing
        /\ \A d \in Dialogs : Reading(d)' = Reading(d) /\ Handling(d)' = Handling(d)
    BY <2>1 DEF Settled, Toggling, Writing, Reading, Handling, AllIdle, NoReads, Asking
  <2>3. QED
    BY <2>1, <2>2 DEF Activity
<1>2. ASSUME NEW h \in Toggles, TapToggle(h) PROVE Activity'
  <2>1. /\ Settled /\ UNCHANGED <<outbox, asked, answers>>
        /\ toggle' = [toggle EXCEPT ![h] = "status"]
    BY <1>2 DEF TapToggle, RiderMayTap, PatientRun
  <2>2. NoReads' /\ outbox' = << >>
    BY <2>1 DEF Settled, NoReads, Asking
  <2>3. \A k \in Toggles : k # h => toggle'[k] = "idle"
    BY <2>1, <1>0 DEF Settled
  <2>4. Toggling'
    BY <2>2, <2>3 DEF Toggling
  <2>5. QED
    BY <1>0, <2>1, <2>4 DEF Activity
<1>3. ASSUME NEW h \in Toggles, ToggleOnline(h) PROVE Activity'
  <2>1. toggle' = [toggle EXCEPT ![h] = "position"] /\ UNCHANGED <<outbox, asked, answers>>
    BY <1>3 DEF ToggleOnline
  <2>2. outbox = << >> /\ NoReads /\ \A k \in Toggles : k # h => toggle[k] = "idle"
    BY <1>3, OneHandler DEF ToggleOnline
  <2>3. \A k \in Toggles : k # h => toggle'[k] = "idle"
    BY <2>1, <2>2, <1>0
  <2>4. outbox' = << >> /\ NoReads'
    BY <2>1, <2>2 DEF NoReads, Asking
  <2>5. Toggling'
    BY <2>3, <2>4 DEF Toggling
  <2>6. QED
    BY <1>0, <2>1, <2>5 DEF Activity
<1>4. ASSUME NEW h \in Toggles, \/ ToggleDeactivated(h) \/ StatusReadFails(h) \/ LocationFails(h)
                                \/ ToggleOffline(h) \/ Located(h)
      PROVE  Activity'
  <2>1. /\ toggle' = [toggle EXCEPT ![h] = "idle"] /\ UNCHANGED <<asked, answers>>
        /\ toggle[h] # "idle"
        /\ \/ outbox' = outbox
           \/ outbox' = outbox \o makeRiderOfflineNow
           \/ outbox' = outbox \o onlineWrites
    BY <1>4 DEF ToggleDeactivated, StatusReadFails, LocationFails, ToggleOffline, Located
  <2>2. outbox = << >> /\ NoReads /\ \A k \in Toggles : k # h => toggle[k] = "idle"
    BY <2>1, OneHandler
  <2>3. /\ toggle' \in [Toggles -> {"idle", "status", "position"}]
        /\ AllIdle' /\ NoReads'
    BY <1>0, <2>1, <2>2 DEF AllIdle, NoReads, Asking
  <2>4. outbox' = << >> \/ outbox' = OffA \/ outbox' = OffB \/ outbox' = OnA
    BY <2>1, <2>2, SeriesIssued
  <2>5. Settled' \/ Writing'
    BY <2>3, <2>4 DEF Settled, Writing, AllIdle, NoReads, Asking
  <2>6. QED
    BY <1>0, <2>1, <2>3, <2>5 DEF Activity
<1>5. ASSUME NEW d \in Dialogs, TapAccept(d) PROVE Activity'
  <2>1. /\ Settled /\ UNCHANGED <<toggle, answers>>
        /\ asked' = [asked EXCEPT ![d] = @ + 1] /\ outbox' = Append(outbox, SlotRead(d))
    BY <1>5 DEF TapAccept, RiderMayTap, PatientRun
  <2>2. AllIdle' /\ outbox' = <<SlotRead(d)>>
    BY <2>1 DEF Settled, AllIdle
  <2>3. asked' \in [Dialogs -> Nat] /\ asked'[d] = 1 /\ \A e \in Dialogs : e # d => asked'[e] = 0
    BY <1>0, <2>1 DEF Settled
  <2>4. \A e \in Dialogs : answers'[e] = << >>
    BY <2>1 DEF Settled
  <2>5. Reading(d)'
    BY <2>2, <2>3, <2>4 DEF Reading, Asking
  <2>6. QED
    BY <1>0, <2>1, <2>3, <2>5 DEF Activity
<1>6. ASSUME NEW d \in Dialogs, CheckAnswered(d) PROVE Activity'
  <2>1. /\ answers[d] # << >> /\ answers' = [answers EXCEPT ![d] = Tail(@)]
        /\ UNCHANGED <<toggle, asked>>
        /\ outbox' = outbox \/ outbox' = outbox \o acceptWrites
    BY <1>6 DEF CheckAnswered
  <2>2. Handling(d)
    BY <2>1, OneAnswer
  <2>3. Tail(answers[d]) = << >>
    <3>1. answers[d] \in Seq(SlotValue) /\ Len(answers[d]) = 1
      BY <1>0, <2>2 DEF Handling
    <3>2. answers[d] # << >>
      BY <2>1
    <3>3. Tail(answers[d]) \in Seq(SlotValue) /\ Len(Tail(answers[d])) = 0
      BY <3>1, <3>2, HeadTailProperties
    <3>4. QED
      BY <3>3, EmptySeq
  <2>4. /\ answers' \in [Dialogs -> Seq(SlotValue)]
        /\ \A e \in Dialogs : answers'[e] = << >>
    BY <1>0, <2>1, <2>2, <2>3 DEF Handling, Asking
  <2>5. AllIdle' /\ NoReads'
    BY <2>1, <2>2, <2>4 DEF Handling, AllIdle, NoReads, Asking
  <2>6. outbox' = << >> \/ outbox' = AccA \/ outbox' = AccN
    BY <2>1, <2>2, SeriesIssued DEF Handling
  <2>7. Settled' \/ Writing'
    BY <2>5, <2>6 DEF Settled, Writing, AllIdle, NoReads, Asking
  <2>8. QED
    BY <1>0, <2>1, <2>4, <2>7 DEF Activity
<1>7. ~Crash
  BY DEF Crash, PatientRun
<1>8. QED
  BY <1>1, <1>2, <1>3, <1>4, <1>5, <1>6, <1>7, ActivityPerform DEF Next, ToggleHandler

LEMMA PerformCases ==
    ASSUME Activity, Perform
    PROVE  Writing \/ \E d \in Dialogs : Reading(d)
BY PerformOne DEF Activity, Settled, Toggling, Handling

-----------------------------------------------------------------------------
(* An offline rider is hidden: only a rider shown as online is about to    *)
(* enter the pool.                                                         *)

HiddenInv ==
    /\ outbox \in {OnA, OnB} => online
    /\ \A h \in Toggles : toggle[h] = "position" => online
    /\ ~online => ~pool \/ outbox = OffA

LEMMA HiddenNext ==
    ASSUME PatientRun, RaceInv, Activity, HiddenInv, [Next]_vars
    PROVE  HiddenInv'
<1> USE DEF database, button, offers, outside
<1>0. toggle \in [Toggles -> {"idle", "status", "position"}]
  BY DEF Activity
<1>1. ASSUME Perform PROVE HiddenInv'
  <2>1. online' = online /\ toggle' = toggle
    BY <1>1, PerformOne
  <2>2. CASE Writing
    <3>1. /\ outbox' \in {OnA, OnB} => outbox = OnA
          /\ pool' = FALSE \/ pool' = pool \/ outbox = OnB
          /\ outbox = OffA => pool' = FALSE
      BY <1>1, <2>2, PerformStages, StagesDiffer DEF Writing
    <3>2. QED
      BY <2>1, <3>1 DEF HiddenInv
  <2>3. ASSUME NEW d \in Dialogs, Reading(d) PROVE HiddenInv'
    <3>1. outbox' = << >> /\ pool' = pool /\ outbox # OffA
      BY <1>1, <2>3, PerformRead, StagesDiffer DEF Reading
    <3>2. QED
      BY <2>1, <3>1, StagesDiffer DEF HiddenInv
  <2>4. QED
    BY <1>1, <2>2, <2>3, PerformCases
<1>2. ASSUME \/ AdministratorDecides \/ SwitchTab \/ LeaveTrip \/ UNCHANGED vars
             \/ \E r \in Requests : \/ ClientOffers(r) \/ ClientWithdraws(r)
                                    \/ ClientSeesAcceptance(r) \/ PushFails(r)
             \/ \E r \in Requests, d \in Dialogs : ReceivePush(r, d)
             \/ \E d \in Dialogs : ShowOffer(d) \/ FetchFails(d) \/ TapDecline(d)
                                   \/ DisposeDialog(d) \/ ReuseDialog(d)
      PROVE  HiddenInv'
  <2>1. UNCHANGED <<toggle, outbox, online, pool>>
    BY <1>2 DEF AdministratorDecides, SwitchTab, LeaveTrip, vars, ClientOffers, ClientWithdraws,
       ClientSeesAcceptance, PushFails, ReceivePush, ShowOffer, FetchFails, TapDecline,
       DisposeDialog, ReuseDialog
  <2>2. QED
    BY <2>1 DEF HiddenInv
<1>3. ASSUME NEW h \in Toggles, TapToggle(h) PROVE HiddenInv'
  <2>1. toggle' = [toggle EXCEPT ![h] = "status"] /\ UNCHANGED <<outbox, online, pool>>
    BY <1>3 DEF TapToggle
  <2>2. \A k \in Toggles : toggle'[k] = "position" => toggle[k] = "position"
    BY <1>0, <2>1
  <2>3. QED
    BY <2>1, <2>2 DEF HiddenInv
<1>4. ASSUME NEW h \in Toggles, ToggleDeactivated(h) \/ ToggleOnline(h) PROVE HiddenInv'
  BY <1>4 DEF HiddenInv, ToggleDeactivated, ToggleOnline, updateDriverStatus
<1>5. ASSUME NEW h \in Toggles, StatusReadFails(h) \/ LocationFails(h) PROVE HiddenInv'
  <2>1. toggle' = [toggle EXCEPT ![h] = "idle"] /\ UNCHANGED <<outbox, online, pool>>
    BY <1>5 DEF StatusReadFails, LocationFails
  <2>2. \A k \in Toggles : toggle'[k] = "position" => toggle[k] = "position"
    BY <1>0, <2>1
  <2>3. QED
    BY <2>1, <2>2 DEF HiddenInv
<1>6. ASSUME NEW h \in Toggles, ToggleOffline(h) PROVE HiddenInv'
  <2>1. /\ toggle' = [toggle EXCEPT ![h] = "idle"] /\ outbox' = outbox \o makeRiderOfflineNow
        /\ toggle[h] = "status" /\ pool' = pool
    BY <1>6 DEF ToggleOffline
  <2>2. outbox = << >> /\ \A k \in Toggles : k # h => toggle[k] = "idle"
    BY <2>1, OneHandler
  <2>3. outbox' = OffA \/ (outbox' = OffB /\ ~pool')
    BY <2>1, <2>2, SeriesIssued DEF RaceInv
  <2>4. \A k \in Toggles : toggle'[k] = "idle"
    BY <1>0, <2>1, <2>2
  <2>5. QED
    BY <2>3, <2>4, StagesDiffer DEF HiddenInv
<1>7. ASSUME NEW h \in Toggles, Located(h) PROVE HiddenInv'
  <2>1. toggle[h] = "position" /\ online' = online
    BY <1>7 DEF Located
  <2>2. online'
    BY <2>1 DEF HiddenInv
  <2>3. QED
    BY <2>2 DEF HiddenInv
<1>8. ASSUME NEW d \in Dialogs, TapAccept(d) PROVE HiddenInv'
  <2>1. Settled /\ UNCHANGED <<toggle, online, pool>> /\ outbox' = Append(outbox, SlotRead(d))
    BY <1>8 DEF TapAccept, RiderMayTap, PatientRun
  <2>2. outbox = << >> /\ outbox' = <<SlotRead(d)>>
    BY <2>1 DEF Settled
  <2>3. QED
    BY <2>1, <2>2, StagesDiffer DEF HiddenInv
<1>9. ASSUME NEW d \in Dialogs, CheckAnswered(d) PROVE HiddenInv'
  <2>1. /\ answers[d] # << >> /\ UNCHANGED <<toggle, online, pool>>
        /\ outbox' = outbox \/ outbox' = outbox \o acceptWrites
    BY <1>9 DEF CheckAnswered
  <2>2. outbox = << >>
    BY <2>1, OneAnswer DEF Handling
  <2>3. outbox' = << >> \/ outbox' = AccA \/ outbox' = AccN
    BY <2>1, <2>2, SeriesIssued
  <2>4. QED
    BY <2>1, <2>2, <2>3, StagesDiffer DEF HiddenInv
<1>10. ~Crash
  BY DEF Crash, PatientRun
<1>11. QED
  BY <1>1, <1>2, <1>3, <1>4, <1>5, <1>6, <1>7, <1>8, <1>9, <1>10 DEF Next, ToggleHandler

LEMMA HiddenInit == Init => HiddenInv
<1> SUFFICES ASSUME Init PROVE HiddenInv
  OBVIOUS
<1>1. outbox = << >> /\ pool = FALSE /\ \A h \in Toggles : toggle[h] = "idle"
  BY DEF Init
<1>2. QED
  BY <1>1, StagesDiffer DEF HiddenInv

\* A rider shown as offline is not offered to clients once things have settled,
\* if the rider waits for each answer and the process does not die.
THEOREM OfflineRiderHidden == PatientRun => (Spec => []OfflineIsHidden)
<1> SUFFICES ASSUME PatientRun PROVE Spec => []OfflineIsHidden
  OBVIOUS
<1> DEFINE Inv == RaceInv /\ Activity /\ HiddenInv
<1>1. Init => Inv
  BY QueueInit, ActivityInit, HiddenInit
<1>2. Inv /\ [Next]_vars => Inv'
  BY RaceNext, ActivityNext, HiddenNext DEF PatientRun
<1>3. Inv => OfflineIsHidden
  <2>1. SUFFICES ASSUME HiddenInv, Settled, ~online PROVE ~pool
    BY DEF OfflineIsHidden
  <2>2. outbox # OffA
    BY <2>1, StagesDiffer DEF Settled
  <2>3. QED
    BY <2>1, <2>2 DEF HiddenInv
<1>4. QED
  BY <1>1, <1>2, <1>3, PTL DEF Spec

-----------------------------------------------------------------------------
(* A request is opened once: what the database still has to tell this      *)
(* rider about a request that is open is overwritten before it is read.    *)

OpenedInv ==
    /\ opened \in [Requests -> Nat]
    /\ client \in [Requests -> {"waiting", "offered", "withdrawn", "served"}]
    /\ \A r \in Requests :
          /\ opened[r] <= 1
          /\ opened[r] > 0 \/ slot = r => client[r] # "waiting"
          /\ opened[r] > 0 /\ slot = r => outbox \in {AccA, AccN}
          /\ \A d \in Dialogs : answers[d] # << >> /\ Head(answers[d]) = r =>
                opened[r] = 0 /\ client[r] # "waiting"

LEMMA OpenedNext ==
    ASSUME PatientRun, RaceInv, Activity, OpenedInv, [Next]_vars
    PROVE  OpenedInv'
<1> USE DEF database, button, offers, outside
<1>0. answers \in [Dialogs -> Seq(SlotValue)]
  BY DEF Activity
<1>1. ASSUME Perform PROVE OpenedInv'
  <2>1. opened' = opened /\ client' = client
    BY <1>1, PerformOne
  <2>2. CASE Writing
    <3>1. /\ (slot' = slot /\ outbox \notin {AccA, AccN}) \/ slot' \notin Requests
          /\ answers' = answers
      BY <1>1, <2>2, PerformStages, StagesDiffer DEF Writing
    <3>2. QED
      BY <2>1, <3>1 DEF OpenedInv
  <2>3. ASSUME NEW d \in Dialogs, Reading(d) PROVE OpenedInv'
    <3>1. /\ slot' = slot /\ outbox \notin {AccA, AccN}
          /\ answers' = [answers EXCEPT ![d] = Append(@, slot)]
      BY <1>1, <2>3, PerformRead, StagesDiffer DEF Reading
    <3>2. answers[d] = << >> /\ \A e \in Dialogs : e # d => answers[e] = << >>
      BY <2>3 DEF Reading, Asking
    <3>3. answers'[d] = <<slot>> /\ \A e \in Dialogs : e # d => answers'[e] = << >>
      BY <1>0, <3>1, <3>2
    <3>4. \A e \in Dialogs : answers'[e] # << >> => Head(answers'[e]) = slot
      BY <3>3
    <3>5. QED
      BY <2>1, <3>1, <3>4 DEF OpenedInv
  <2>4. QED
    BY <1>1, <2>2, <2>3, PerformCases
<1>2. ASSUME NEW r \in Requests, ClientOffers(r) PROVE OpenedInv'
  <2>1. /\ client[r] = "waiting" /\ slot' = r /\ client' = [client EXCEPT ![r] = "offered"]
        /\ UNCHANGED <<outbox, answers, opened>>
    BY <1>2 DEF ClientOffers
  <2>2. opened[r] = 0
    BY <2>1 DEF OpenedInv
  <2>3. client' \in [Requests -> {"waiting", "offered", "withdrawn", "served"}]
        /\ client'[r] = "offered" /\ \A q \in Requests : q # r => client'[q] = client[q]
    BY <2>1 DEF OpenedInv
  <2>4. QED
    BY <2>1, <2>2, <2>3 DEF OpenedInv
<1>3. ASSUME NEW r \in Requests, ClientWithdraws(r) \/ ClientSeesAcceptance(r) PROVE OpenedInv'
  <2>1. /\ client[r] = "offered"
        /\ slot' = slot \/ slot' \notin Requests
        /\ \E c \in {"withdrawn", "served"} : client' = [client EXCEPT ![r] = c]
        /\ UNCHANGED <<outbox, answers, opened>>
    BY <1>3 DEF ClientWithdraws, ClientSeesAcceptance
  <2>2. /\ client' \in [Requests -> {"waiting", "offered", "withdrawn", "served"}]
        /\ \A q \in Requests : client'[q] = "waiting" => client[q] = "waiting"
    BY <2>1 DEF OpenedInv
  <2>3. QED
    BY <2>1, <2>2 DEF OpenedInv
<1>4. ASSUME \/ AdministratorDecides \/ SwitchTab \/ LeaveTrip \/ UNCHANGED vars
             \/ \E r \in Requests : PushFails(r)
             \/ \E r \in Requests, d \in Dialogs : ReceivePush(r, d)
             \/ \E d \in Dialogs : ShowOffer(d) \/ FetchFails(d) \/ TapDecline(d)
                                   \/ DisposeDialog(d) \/ ReuseDialog(d)
             \/ \E h \in Toggles : TapToggle(h) \/ ToggleDeactivated(h) \/ ToggleOnline(h)
                                   \/ StatusReadFails(h) \/ LocationFails(h)
      PROVE  OpenedInv'
  <2>1. UNCHANGED <<outbox, slot, answers, opened, client>>
    BY <1>4 DEF AdministratorDecides, SwitchTab, LeaveTrip, vars, PushFails, ReceivePush,
       ShowOffer, FetchFails, TapDecline, DisposeDialog, ReuseDialog, TapToggle,
       ToggleDeactivated, ToggleOnline, StatusReadFails, LocationFails
  <2>2. QED
    BY <2>1 DEF OpenedInv
<1>5. ASSUME \/ \E h \in Toggles : ToggleOffline(h) \/ Located(h)
             \/ \E d \in Dialogs : TapAccept(d)
      PROVE  OpenedInv'
  <2>1. UNCHANGED <<slot, answers, opened, client>>
    BY <1>5 DEF ToggleOffline, Located, TapAccept
  <2>2. \A h \in Toggles : ToggleOffline(h) \/ Located(h) => toggle[h] # "idle"
    BY DEF ToggleOffline, Located
  <2>3. \A d \in Dialogs : TapAccept(d) => Settled
    BY DEF TapAccept, RiderMayTap, PatientRun
  <2>4. outbox = << >>
    BY <1>5, <2>2, <2>3, OneHandler DEF Settled
  <2>5. outbox \notin {AccA, AccN}
    BY <2>4, StagesDiffer
  <2>6. QED
    BY <2>1, <2>5 DEF OpenedInv
<1>6. ASSUME NEW d \in Dialogs, CheckAnswered(d) PROVE OpenedInv'
  <2> DEFINE q == dialog[d].request
  <2>1. /\ answers[d] # << >> /\ answers' = [answers EXCEPT ![d] = Tail(@)]
        /\ UNCHANGED <<slot, client>>
        /\ \/ UNCHANGED <<opened, outbox>>
           \/ /\ Head(answers[d]) = q
              /\ opened' = [opened EXCEPT ![q] = @ + 1]
              /\ outbox' = outbox \o acceptWrites
    BY <1>6 DEF CheckAnswered, IsMine
  <2>2. Handling(d)
    BY <2>1, OneAnswer
  <2>3. outbox = << >> /\ outbox \notin {AccA, AccN}
    BY <2>2, StagesDiffer DEF Handling
  <2>4. answers' \in [Dialogs -> Seq(SlotValue)] /\ \A e \in Dialogs : answers'[e] = << >>
    <3>1. answers[d] \in Seq(SlotValue) /\ Len(answers[d]) = 1
      BY <1>0, <2>2 DEF Handling
    <3>2. Tail(answers[d]) \in Seq(SlotValue) /\ Len(Tail(answers[d])) = 0
      BY <2>1, <3>1, HeadTailProperties
    <3>3. Tail(answers[d]) = << >>
      BY <3>2, EmptySeq
    <3>4. QED
      BY <1>0, <2>1, <2>2, <3>3 DEF Handling, Asking
  <2>5. CASE UNCHANGED <<opened, outbox>>
    BY <2>1, <2>4, <2>5 DEF OpenedInv
  <2>6. CASE /\ Head(answers[d]) = q
             /\ opened' = [opened EXCEPT ![q] = @ + 1]
             /\ outbox' = outbox \o acceptWrites
    <3>1. outbox' \in {AccA, AccN}
      BY <2>3, <2>6, SeriesIssued
    <3>2. \A r \in Requests : r = q => opened[r] = 0 /\ client[r] # "waiting"
      BY <2>1, <2>6 DEF OpenedInv
    <3> HIDE DEF q
    <3>3. opened' \in [Requests -> Nat]
          /\ \A r \in Requests : opened'[r] = IF r = q THEN opened[r] + 1 ELSE opened[r]
      <4>1. opened \in [Requests -> Nat] /\ opened' = [opened EXCEPT ![q] = opened[q] + 1]
        BY <2>6 DEF OpenedInv
      <4>2. q \in Requests => opened[q] + 1 \in Nat
        BY <4>1
      <4>3. QED
        BY <4>1, <4>2
    <3>4. ASSUME NEW r \in Requests
          PROVE  opened'[r] <= 1 /\ (opened'[r] > 0 \/ slot' = r => client'[r] # "waiting")
      BY <2>1, <3>2, <3>3 DEF OpenedInv
    <3>5. client' \in [Requests -> {"waiting", "offered", "withdrawn", "served"}]
      BY <2>1 DEF OpenedInv
    <3>6. QED
      BY <2>4, <3>1, <3>3, <3>4, <3>5 DEF OpenedInv
  <2>7. QED
    BY <2>1, <2>5, <2>6
<1>7. ~Crash
  BY DEF Crash, PatientRun
<1>8. QED
  BY <1>1, <1>2, <1>3, <1>4, <1>5, <1>6, <1>7 DEF Next, ToggleHandler

LEMMA OpenedInit == Init => OpenedInv
<1> SUFFICES ASSUME Init PROVE OpenedInv
  OBVIOUS
<1>1. /\ opened = [r \in Requests |-> 0] /\ client = [r \in Requests |-> "waiting"]
      /\ slot \notin Requests /\ answers = [d \in Dialogs |-> << >>]
  BY DEF Init
<1>2. QED
  BY <1>1 DEF OpenedInv

\* However often a request is announced and however many dialogs show it, a
\* patient rider of a process that does not die opens its trip screen once.
THEOREM RequestOpenedOnce == PatientRun => (Spec => []OpenedOnce)
<1> SUFFICES ASSUME PatientRun PROVE Spec => []OpenedOnce
  OBVIOUS
<1> DEFINE Inv == RaceInv /\ Activity /\ OpenedInv
<1>1. Init => Inv
  BY QueueInit, ActivityInit, OpenedInit
<1>2. Inv /\ [Next]_vars => Inv'
  BY RaceNext, ActivityNext, OpenedNext DEF PatientRun
<1>3. Inv => OpenedOnce
  BY DEF OpenedInv, OpenedOnce
<1>4. QED
  BY <1>1, <1>2, <1>3, PTL DEF Spec

-----------------------------------------------------------------------------
(* The Navigator's stack: the home page is never above anything, and the   *)
(* dialog whose answer is awaited has nothing but offers above it.         *)

\* More than there are: the slot's value was compared with the dialog's request.
AnyRoute == {Home} \cup {Offer(d) : d \in Dialogs} \cup {Trip(v) : v \in SlotValue}

StackInv ==
    /\ routes \in Seq(AnyRoute)
    /\ \A i \in 1..Len(routes) : routes[i] = Home => i = 1
    /\ \A d \in Dialogs : Asking(d) =>
          \E i \in 1..Len(routes) :
             \A j \in i..Len(routes) : \E e \in Dialogs : routes[j] = Offer(e)

LEMMA RoutesDiffer ==
    /\ \A d \in Dialogs : Offer(d) # Home /\ Offer(d) \in AnyRoute
    /\ \A v \in SlotValue : Trip(v) # Home /\ Trip(v) \in AnyRoute
    /\ \A d \in Dialogs, v \in SlotValue : Offer(d) # Trip(v)
<1>1. \A d \in Dialogs : Offer(d).kind = "offer"
  BY DEF Offer
<1>2. \A v \in SlotValue : Trip(v).kind = "trip"
  BY DEF Trip
<1>3. Home.kind = "home"
  BY DEF Home
<1>4. QED
  BY <1>1, <1>2, <1>3 DEF AnyRoute

LEMMA Pop ==
    ASSUME routes \in Seq(AnyRoute), routes # << >>
    PROVE  /\ Popped \in Seq(AnyRoute) /\ Len(Popped) = Len(routes) - 1
           /\ \A i \in 1..Len(Popped) : Popped[i] = routes[i] /\ i \in 1..Len(routes)
<1> DEFINE n == Len(routes) - 1
<1>1. Len(routes) \in Nat \ {0}
  BY EmptySeq
<1>2. n \in Nat /\ 1 \in Int /\ n \in Int /\ \A i \in 1..n : routes[i] \in AnyRoute
  BY <1>1
<1>3. Popped = SubSeq(routes, 1, n)
  BY DEF Popped
<1> HIDE DEF n
<1>4. /\ Popped \in Seq(AnyRoute) /\ Len(Popped) = IF 1 <= n THEN n - 1 + 1 ELSE 0
      /\ \A i \in 1..(n - 1 + 1) : Popped[i] = routes[1 + i - 1]
  BY <1>2, <1>3, SubSeqProperties
<1>5. Len(Popped) = n /\ \A i \in 1..n : Popped[i] = routes[i]
  BY <1>2, <1>4
<1>6. \A i \in 1..n : i \in 1..Len(routes)
  BY <1>1 DEF n
<1>7. QED
  BY <1>4, <1>5, <1>6 DEF n

LEMMA StackNext ==
    ASSUME PatientRun, RaceInv, Activity, StackInv, [Next]_vars
    PROVE  StackInv'
<1> USE DEF database, button, offers, outside
<1>0. /\ routes \in Seq(AnyRoute) /\ Len(routes) \in Nat
      /\ asked \in [Dialogs -> Nat] /\ answers \in [Dialogs -> Seq(SlotValue)]
  BY DEF Activity, StackInv
<1>1. ASSUME \/ AdministratorDecides \/ SwitchTab \/ UNCHANGED vars
             \/ \E r \in Requests : \/ ClientOffers(r) \/ ClientWithdraws(r)
                                    \/ ClientSeesAcceptance(r) \/ PushFails(r)
             \/ \E r \in Requests, d \in Dialogs : ReceivePush(r, d)
             \/ \E d \in Dialogs : FetchFails(d) \/ DisposeDialog(d) \/ ReuseDialog(d)
             \/ \E h \in Toggles : TapToggle(h) \/ ToggleHandler(h)
      PROVE  StackInv'
  <2>1. UNCHANGED <<routes, asked, answers>>
    BY <1>1 DEF AdministratorDecides, SwitchTab, vars, ClientOffers, ClientWithdraws,
       ClientSeesAcceptance, PushFails, ReceivePush, FetchFails, DisposeDialog, ReuseDialog,
       TapToggle, ToggleHandler, ToggleDeactivated, ToggleOnline, ToggleOffline,
       StatusReadFails, Located, LocationFails
  <2>2. QED
    BY <2>1 DEF StackInv, Asking
<1>2. ASSUME Perform PROVE StackInv'
  <2>1. routes' = routes
    BY <1>2, PerformOne
  <2>2. \A d \in Dialogs : Asking(d)' => Asking(d)
    <3>1. CASE Writing
      BY <1>2, <3>1, PerformStages DEF Writing, Asking
    <3>2. ASSUME NEW e \in Dialogs, Reading(e) PROVE \A d \in Dialogs : Asking(d)' => Asking(d)
      <4>1. Asking(e)
        BY <3>2 DEF Reading, Asking
      <4>2. /\ answers' = [answers EXCEPT ![e] = Append(@, slot)]
            /\ asked' = [asked EXCEPT ![e] = @ - 1]
        BY <1>2, <3>2, PerformRead DEF Reading
      <4>3. \A d \in Dialogs : d # e => asked'[d] = asked[d] /\ answers'[d] = answers[d]
        BY <1>0, <4>2
      <4>4. QED
        BY <4>1, <4>3 DEF Asking
    <3>3. QED
      BY <1>2, <3>1, <3>2, PerformCases
  <2>3. QED
    BY <2>1, <2>2 DEF StackInv
<1>3. ASSUME NEW d \in Dialogs, ShowOffer(d) PROVE StackInv'
  <2>1. routes' = Append(routes, Offer(d)) /\ UNCHANGED <<asked, answers>>
    BY <1>3 DEF ShowOffer
  <2> DEFINE n == Len(routes)
  <2>2. /\ routes' \in Seq(AnyRoute) /\ Len(routes') = n + 1
        /\ \A i \in 1..n : routes'[i] = routes[i]
        /\ routes'[n + 1] = Offer(d) /\ n \in Nat
    BY <1>0, <2>1, RoutesDiffer, AppendProperties
  <2>3. \A i \in 1..Len(routes') : routes'[i] = Home => i = 1
    <3>1. \A i \in 1..Len(routes') : i \in 1..n \/ i = n + 1
      BY <2>2
    <3>2. \A i \in 1..n : routes[i] = Home => i = 1
      BY DEF StackInv
    <3> HIDE DEF n
    <3>3. QED
      BY <2>2, <3>1, <3>2, RoutesDiffer
  <2>4. ASSUME NEW e \in Dialogs, Asking(e)'
        PROVE  \E i \in 1..Len(routes') :
                  \A j \in i..Len(routes') : \E f \in Dialogs : routes'[j] = Offer(f)
    <3>1. Asking(e)
      BY <2>1, <2>4 DEF Asking
    <3>2. PICK i \in 1..n : \A j \in i..n : \E f \in Dialogs : routes[j] = Offer(f)
      BY <3>1 DEF StackInv
    <3> HIDE DEF n
    <3>3. Len(routes') = n + 1 /\ n \in Nat
      BY <2>2
    <3>4. ASSUME NEW j \in i..Len(routes') PROVE \E f \in Dialogs : routes'[j] = Offer(f)
      <4>1. CASE j \in i..n
        <5>1. routes'[j] = routes[j]
          BY <2>2, <4>1
        <5>2. QED
          BY <3>2, <4>1, <5>1
      <4>2. CASE j = n + 1
        BY <2>2, <4>2
      <4>3. QED
        BY <3>3, <4>1, <4>2
    <3>5. i \in 1..Len(routes')
      BY <2>2
    <3>6. QED
      BY <3>4, <3>5
  <2>5. QED
    BY <2>2, <2>3, <2>4 DEF StackInv
<1>4. ASSUME NEW d \in Dialogs, TapAccept(d) PROVE StackInv'
  <2>1. /\ Settled /\ routes' = routes /\ OnTop(Offer(d))
        /\ asked' = [asked EXCEPT ![d] = @ + 1] /\ answers' = answers
    BY <1>4 DEF TapAccept, RiderMayTap, PatientRun
  <2>2. \A e \in Dialogs : Asking(e)' => e = d
    BY <1>0, <2>1 DEF Asking, Settled
  <2>3. Len(routes) \in 1..Len(routes) /\ \A j \in Len(routes)..Len(routes) : routes[j] = Offer(d)
    BY <1>0, <2>1, EmptySeq DEF OnTop
  <2>4. \E i \in 1..Len(routes) : \A j \in i..Len(routes) : \E e \in Dialogs : routes[j] = Offer(e)
    BY <2>3
  <2>5. QED
    BY <1>0, <2>1, <2>2, <2>4 DEF StackInv
<1>5. ASSUME LeaveTrip \/ \E d \in Dialogs : TapDecline(d) PROVE StackInv'
  <2>1. routes' = Popped /\ routes # << >> /\ UNCHANGED <<asked, answers>>
    BY <1>5 DEF LeaveTrip, TapDecline, OnTop
  <2>2. NoReads
    <3>1. CASE \E d \in Dialogs : TapDecline(d)
      BY <3>1 DEF TapDecline, RiderMayTap, PatientRun, Settled, NoReads, Asking
    <3>2. CASE LeaveTrip
      <4>1. PICK r \in Requests : routes[Len(routes)] = Trip(r)
        BY <3>2 DEF LeaveTrip, OnTop
      <4>2. ASSUME NEW d \in Dialogs, Asking(d) PROVE FALSE
        <5>1. PICK i \in 1..Len(routes) :
                      \A j \in i..Len(routes) : \E e \in Dialogs : routes[j] = Offer(e)
          BY <4>2 DEF StackInv
        <5>2. Len(routes) \in i..Len(routes)
          BY <1>0
        <5>3. r \in SlotValue
          BY DEF SlotValue
        <5>4. QED
          BY <4>1, <5>1, <5>2, <5>3, RoutesDiffer
      <4>3. QED
        BY <4>2 DEF NoReads
    <3>3. QED
      BY <1>5, <3>1, <3>2
  <2>3. \A d \in Dialogs : ~Asking(d)'
    BY <2>1, <2>2 DEF NoReads, Asking
  <2>4. routes' \in Seq(AnyRoute) /\ \A i \in 1..Len(routes') : routes'[i] = Home => i = 1
    BY <1>0, <2>1, Pop DEF StackInv
  <2>5. QED
    BY <2>3, <2>4 DEF StackInv
<1>6. ASSUME NEW d \in Dialogs, CheckAnswered(d) PROVE StackInv'
  <2>1. /\ answers[d] # << >> /\ answers' = [answers EXCEPT ![d] = Tail(@)] /\ asked' = asked
        /\ \/ routes' = routes
           \/ routes # << >> /\ routes' = Popped
           \/ routes # << >> /\ IsMine(Head(answers[d]), d)
              /\ routes' = Append(Popped, Trip(dialog[d].request))
    BY <1>6 DEF CheckAnswered
  <2>2. Handling(d)
    BY <2>1, OneAnswer
  <2>3. \A e \in Dialogs : ~Asking(e)'
    <3>1. answers[d] \in Seq(SlotValue) /\ Len(answers[d]) = 1
      BY <1>0, <2>2 DEF Handling
    <3>2. Tail(answers[d]) \in Seq(SlotValue) /\ Len(Tail(answers[d])) = 0
      BY <2>1, <3>1, HeadTailProperties
    <3>3. Tail(answers[d]) = << >>
      BY <3>2, EmptySeq
    <3>4. QED
      BY <1>0, <2>1, <2>2, <3>3 DEF Handling, Asking
  <2>4. ASSUME routes # << >>, routes' = Append(Popped, Trip(dialog[d].request)),
               dialog[d].request \in SlotValue
        PROVE  routes' \in Seq(AnyRoute) /\ \A i \in 1..Len(routes') : routes'[i] = Home => i = 1
    <3> DEFINE m == Len(Popped)
    <3>1. /\ Popped \in Seq(AnyRoute) /\ m \in Nat
          /\ \A i \in 1..m : Popped[i] = routes[i] /\ i \in 1..Len(routes)
      BY <1>0, <2>4, Pop
    <3>2. /\ routes' \in Seq(AnyRoute) /\ Len(routes') = m + 1
          /\ \A i \in 1..m : routes'[i] = Popped[i]
          /\ routes'[m + 1] = Trip(dialog[d].request)
      BY <2>4, <3>1, RoutesDiffer, AppendProperties
    <3> HIDE DEF m
    <3>3. routes'[m + 1] # Home
      BY <2>4, <3>2, RoutesDiffer
    <3>4. QED
      BY <3>1, <3>2, <3>3 DEF StackInv
  <2>5. CASE routes # << >> /\ routes' = Popped
    <3>1. routes' \in Seq(AnyRoute) /\ \A i \in 1..Len(routes') : routes'[i] = Home => i = 1
      BY <1>0, <2>5, Pop DEF StackInv
    <3>2. QED
      BY <2>3, <3>1 DEF StackInv
  <2>6. CASE routes' = routes
    BY <2>3, <2>6 DEF StackInv
  <2>7. CASE routes # << >> /\ IsMine(Head(answers[d]), d)
             /\ routes' = Append(Popped, Trip(dialog[d].request))
    <3>1. answers[d] \in Seq(SlotValue) /\ Head(answers[d]) = dialog[d].request
      BY <1>0, <2>7 DEF IsMine
    <3>2. dialog[d].request \in SlotValue
      BY <2>1, <3>1, HeadTailProperties
    <3>3. QED
      BY <2>3, <2>4, <2>7, <3>2 DEF StackInv
  <2>8. QED
    BY <2>1, <2>5, <2>6, <2>7
<1>7. ~Crash
  BY DEF Crash, PatientRun
<1>8. QED
  BY <1>1, <1>2, <1>3, <1>4, <1>5, <1>6, <1>7 DEF Next

LEMMA StackInit == Init => StackInv
<1> SUFFICES ASSUME Init PROVE StackInv
  OBVIOUS
<1>1. routes = <<Home>> /\ Home \in AnyRoute
  BY DEF Init, AnyRoute
<1>2. routes \in Seq(AnyRoute) /\ Len(routes) = 1
  BY <1>1
<1>3. \A d \in Dialogs : ~Asking(d)
  BY DEF Init, Asking
<1>4. QED
  BY <1>2, <1>3 DEF StackInv

\* Only accepting puts a trip screen on the stack.
LEMMA TripsOnStack ==
    ASSUME PatientRun, RaceInv, Activity, StackInv, [Next]_vars, NEW r \in Requests, OnStack(Trip(r))'
    PROVE  OnStack(Trip(r)) \/ \E d \in Dialogs : CheckAnswered(d) /\ outbox' = outbox \o acceptWrites
<1> USE DEF database, button, offers, outside
<1>0. routes \in Seq(AnyRoute) /\ Len(routes) \in Nat /\ r \in SlotValue
  BY DEF StackInv, SlotValue
<1>1. CASE routes' = routes
  BY <1>1 DEF OnStack
<1>2. CASE routes' = Popped /\ routes # << >>
  <2>1. PICK i \in 1..Len(Popped) : Popped[i] = Trip(r)
    BY <1>0, <1>2, Pop DEF OnStack
  <2>2. QED
    BY <1>0, <1>2, <2>1, Pop DEF OnStack
<1>3. ASSUME NEW d \in Dialogs, ShowOffer(d) PROVE OnStack(Trip(r))
  <2>1. routes' = Append(routes, Offer(d))
    BY <1>3 DEF ShowOffer
  <2> DEFINE n == Len(routes)
  <2>2. /\ routes' \in Seq(AnyRoute) /\ Len(routes') = n + 1 /\ n \in Nat
        /\ \A i \in 1..n : routes'[i] = routes[i]
        /\ routes'[n + 1] = Offer(d)
    BY <1>0, <2>1, RoutesDiffer, AppendProperties
  <2>3. PICK i \in 1..Len(routes') : routes'[i] = Trip(r)
    BY <2>2 DEF OnStack
  <2>4. i \in 1..n
    <3> HIDE DEF n
    <3>1. i \in 1..n \/ i = n + 1
      BY <2>2
    <3>2. QED
      BY <1>0, <2>2, <2>3, <3>1, RoutesDiffer
  <2>5. QED
    BY <1>0, <2>2, <2>3, <2>4 DEF OnStack
<1>4. \/ routes' = routes
      \/ (routes' = Popped /\ routes # << >>)
      \/ \E d \in Dialogs : ShowOffer(d)
      \/ \E d \in Dialogs : CheckAnswered(d) /\ outbox' = outbox \o acceptWrites
  <2>1. ASSUME \/ AdministratorDecides \/ SwitchTab \/ UNCHANGED vars \/ Perform
               \/ \E q \in Requests : \/ ClientOffers(q) \/ ClientWithdraws(q)
                                      \/ ClientSeesAcceptance(q) \/ PushFails(q)
               \/ \E q \in Requests, d \in Dialogs : ReceivePush(q, d)
               \/ \E d \in Dialogs : FetchFails(d) \/ DisposeDialog(d) \/ ReuseDialog(d)
                                     \/ TapAccept(d)
               \/ \E h \in Toggles : TapToggle(h) \/ ToggleHandler(h)
        PROVE  routes' = routes
    BY <2>1 DEF AdministratorDecides, SwitchTab, vars, Perform, ClientOffers, ClientWithdraws,
       ClientSeesAcceptance, PushFails, ReceivePush, FetchFails, DisposeDialog, ReuseDialog,
       TapAccept, TapToggle, ToggleHandler, ToggleDeactivated, ToggleOnline, ToggleOffline,
       StatusReadFails, Located, LocationFails
  <2>2. ASSUME LeaveTrip \/ \E d \in Dialogs : TapDecline(d)
        PROVE  routes' = Popped /\ routes # << >>
    BY <2>2 DEF LeaveTrip, TapDecline, OnTop
  <2>3. ASSUME NEW d \in Dialogs, CheckAnswered(d)
        PROVE  \/ routes' = routes
               \/ (routes' = Popped /\ routes # << >>)
               \/ outbox' = outbox \o acceptWrites
    BY <2>3 DEF CheckAnswered
  <2>4. ~Crash
    BY DEF Crash, PatientRun
  <2>5. QED
    BY <2>1, <2>2, <2>3, <2>4 DEF Next
<1>5. QED
  BY <1>1, <1>2, <1>3, <1>4

-----------------------------------------------------------------------------
(* A rider on a trip is not offered to anybody else.                       *)

OnTrip == \E r \in Requests : OnStack(Trip(r))

BusyInv ==
    OnTrip => /\ AllIdle
              /\ outbox \notin {OnA, OnB}
              /\ pool => outbox \in {AccA, AccB}

LEMMA BusyNext ==
    ASSUME PatientRun, RaceInv, Activity, StackInv, BusyInv, [Next]_vars
    PROVE  BusyInv'
<1> USE DEF database, button, offers, outside
<1>0. SUFFICES ASSUME NEW r \in Requests, OnStack(Trip(r))'
               PROVE  /\ AllIdle' /\ outbox' \notin {OnA, OnB}
                      /\ pool' => outbox' \in {AccA, AccB}
  BY DEF BusyInv, OnTrip
<1>1. ASSUME NEW d \in Dialogs, CheckAnswered(d), outbox' = outbox \o acceptWrites
      PROVE  AllIdle' /\ (outbox' = AccA \/ (outbox' = AccN /\ ~pool'))
  <2>1. Handling(d)
    BY <1>1, OneAnswer DEF CheckAnswered
  <2>2. outbox' = AccA \/ (outbox' = AccN /\ ~pool')
    BY <1>1, <2>1, SeriesIssued DEF Handling, RaceInv, CheckAnswered
  <2>3. AllIdle'
    BY <1>1, <2>1 DEF CheckAnswered, Handling, AllIdle
  <2>4. QED
    BY <2>2, <2>3
<1>2. ASSUME ~\E d \in Dialogs : CheckAnswered(d) /\ outbox' = outbox \o acceptWrites
      PROVE  /\ AllIdle' /\ outbox' \notin {OnA, OnB}
             /\ pool' => outbox' \in {AccA, AccB}
  <2>1. OnStack(Trip(r))
    BY <1>0, <1>2, TripsOnStack
  <2>2. AllIdle /\ outbox \notin {OnA, OnB} /\ (pool => outbox \in {AccA, AccB})
    BY <2>1 DEF BusyInv, OnTrip
  <2>3. CASE Perform
    <3>1. AllIdle'
      BY <2>2, <2>3, PerformOne DEF AllIdle
    <3>2. CASE Writing
      <4>1. outbox' \notin {OnA, OnB} /\ (pool' => pool)
        <5>1. outbox \in {OffA, OffB, OnC, AccA, AccN, AccB, AccC}
          BY <2>2, <3>2 DEF Writing
        <5>2. outbox' \in {OffB, AccB, AccC, << >>}
          BY <2>3, <5>1, PerformStages
        <5>3. pool' = FALSE \/ pool' = pool
          BY <2>3, <5>1, PerformStages
        <5>4. outbox' \notin {OnA, OnB}
          BY <5>2, StagesDiffer
        <5>5. pool' => pool
          BY <5>3, Zenon
        <5>6. QED
          BY <5>4, <5>5
      <4>2. pool' => outbox' \in {AccA, AccB}
        BY <2>2, <2>3, <4>1, PerformStages
      <4>3. QED
        BY <3>1, <4>1, <4>2
    <3>3. ASSUME NEW d \in Dialogs, Reading(d) PROVE outbox' = << >> /\ ~pool'
      BY <2>2, <2>3, <3>3, PerformRead, StagesDiffer DEF Reading
    <3>4. QED
      BY <2>3, <3>1, <3>2, <3>3, PerformCases, StagesDiffer
  <2>4. ASSUME NEW d \in Dialogs, TapAccept(d)
        PROVE  AllIdle' /\ outbox' \notin {OnA, OnB} /\ ~pool'
    <3>1. Settled /\ UNCHANGED <<toggle, pool>> /\ outbox' = Append(outbox, SlotRead(d))
      BY <2>4 DEF TapAccept, RiderMayTap, PatientRun
    <3>2. outbox = << >> /\ outbox' = <<SlotRead(d)>>
      BY <3>1 DEF Settled
    <3>3. QED
      BY <2>2, <3>1, <3>2, StagesDiffer DEF AllIdle
  <2>5. ASSUME NEW h \in Toggles, TapToggle(h) PROVE FALSE
    <3>1. routes \in Seq(AnyRoute) /\ routes # << >> /\ routes[Len(routes)] = Home
      BY <2>5 DEF TapToggle, OnTop, StackInv
    <3>2. Len(routes) \in Nat /\ Len(routes) \in 1..Len(routes)
      BY <3>1, EmptySeq
    <3>3. Len(routes) = 1
      BY <3>1, <3>2 DEF StackInv
    <3>4. \A i \in 1..Len(routes) : routes[i] = Home
      BY <3>1, <3>3
    <3>5. r \in SlotValue
      BY DEF SlotValue
    <3>6. QED
      BY <2>1, <3>1, <3>4, <3>5, RoutesDiffer DEF OnStack
  <2>6. \A h \in Toggles : ~ToggleHandler(h)
    BY <2>2 DEF AllIdle, ToggleHandler, ToggleDeactivated, ToggleOnline, ToggleOffline,
       StatusReadFails, Located, LocationFails
  <2>7. ASSUME NEW d \in Dialogs, CheckAnswered(d)
        PROVE  UNCHANGED <<toggle, pool, outbox>>
    BY <1>2, <2>7 DEF CheckAnswered
  <2>8. ASSUME \/ AdministratorDecides \/ SwitchTab \/ LeaveTrip \/ UNCHANGED vars
               \/ \E q \in Requests : \/ ClientOffers(q) \/ ClientWithdraws(q)
                                      \/ ClientSeesAcceptance(q) \/ PushFails(q)
               \/ \E q \in Requests, d \in Dialogs : ReceivePush(q, d)
               \/ \E d \in Dialogs : ShowOffer(d) \/ FetchFails(d) \/ TapDecline(d)
                                     \/ DisposeDialog(d) \/ ReuseDialog(d)
        PROVE  UNCHANGED <<toggle, pool, outbox>>
    BY <2>8 DEF AdministratorDecides, SwitchTab, LeaveTrip, vars, ClientOffers, ClientWithdraws,
       ClientSeesAcceptance, PushFails, ReceivePush, ShowOffer, FetchFails, TapDecline,
       DisposeDialog, ReuseDialog
  <2>9. UNCHANGED <<toggle, pool, outbox>> =>
           AllIdle' /\ outbox' \notin {OnA, OnB} /\ (pool' => outbox' \in {AccA, AccB})
    BY <2>2 DEF AllIdle
  <2>10. ~Crash
    BY DEF Crash, PatientRun
  <2>11. QED
    BY <2>3, <2>4, <2>5, <2>6, <2>7, <2>8, <2>9, <2>10 DEF Next
<1>3. AccA \notin {OnA, OnB} /\ AccN \notin {OnA, OnB}
  BY StagesDiffer
<1>4. QED
  BY <1>1, <1>2, <1>3

LEMMA BusyInit == Init => BusyInv
<1> SUFFICES ASSUME Init PROVE BusyInv
  OBVIOUS
<1>1. AllIdle /\ outbox = << >> /\ pool = FALSE
  BY DEF Init, AllIdle
<1>2. QED
  BY <1>1, StagesDiffer DEF BusyInv

LEMMA PatientInvariant ==
    ASSUME PatientRun
    PROVE  Spec => [](RaceInv /\ Activity /\ StackInv /\ BusyInv)
<1> DEFINE Inv == RaceInv /\ Activity /\ StackInv /\ BusyInv
<1>1. Init => Inv
  BY QueueInit, ActivityInit, StackInit, BusyInit
<1>2. Inv /\ [Next]_vars => Inv'
  BY RaceNext, ActivityNext, StackNext, BusyNext DEF PatientRun
<1>3. QED
  BY <1>1, <1>2, PTL DEF Spec

\* Nobody on a trip is offered to other clients once things have settled.
THEOREM BusyRiderHidden == PatientRun => (Spec => []BusyIsHidden)
<1> SUFFICES ASSUME PatientRun PROVE Spec => []BusyIsHidden
  OBVIOUS
<1>1. StackInv /\ BusyInv => BusyIsHidden
  <2>1. SUFFICES ASSUME StackInv, BusyInv, Settled, NEW r \in Requests, OnTop(Trip(r)) PROVE ~pool
    BY DEF BusyIsHidden
  <2>2. OnStack(Trip(r))
    <3>1. routes \in Seq(AnyRoute) /\ routes # << >> /\ routes[Len(routes)] = Trip(r)
      BY <2>1 DEF StackInv, OnTop
    <3>2. Len(routes) \in DOMAIN routes
      BY <3>1, EmptySeq
    <3>3. QED
      BY <3>1, <3>2 DEF OnStack
  <2>3. outbox = << >>
    BY <2>1 DEF Settled
  <2>4. QED
    BY <2>1, <2>2, <2>3, StagesDiffer DEF BusyInv, OnTrip
<1>2. QED
  BY <1>1, PatientInvariant, PTL

\* Nothing but leaving it takes a trip screen away: the answer to an offer pops
\* an offer, whichever is on top by then.
THEOREM TripScreenStays == PatientRun => (Spec => TripStays)
<1> SUFFICES ASSUME PatientRun PROVE Spec => TripStays
  OBVIOUS
<1> USE DEF database, button, offers, outside
<1>1. ASSUME Activity, StackInv, [Next]_vars, NEW r \in Requests, OnStack(Trip(r))
      PROVE  OnStack(Trip(r))' \/ LeaveTrip
  <2>0. routes \in Seq(AnyRoute) /\ Len(routes) \in Nat /\ r \in SlotValue
    BY <1>1 DEF StackInv, SlotValue
  <2>1. PICK i \in 1..Len(routes) : routes[i] = Trip(r)
    BY <1>1, <2>0 DEF OnStack
  <2>2. ASSUME NEW e \in Dialogs, routes # << >>, routes[Len(routes)] = Offer(e)
        PROVE  i \in 1..Len(Popped) /\ Popped[i] = Trip(r) /\ Popped \in Seq(AnyRoute)
    <3>1. i # Len(routes)
      BY <2>0, <2>1, <2>2, RoutesDiffer
    <3>2. Popped \in Seq(AnyRoute) /\ Len(Popped) = Len(routes) - 1
          /\ \A j \in 1..Len(Popped) : Popped[j] = routes[j]
      BY <2>0, <2>2, Pop
    <3>3. i \in 1..Len(Popped)
      BY <2>0, <3>1, <3>2
    <3>4. QED
      BY <2>1, <3>2, <3>3
  <2>3. ASSUME NEW d \in Dialogs, ShowOffer(d) PROVE OnStack(Trip(r))'
    <3>1. routes' = Append(routes, Offer(d))
      BY <2>3 DEF ShowOffer
    <3>2. routes' \in Seq(AnyRoute) /\ Len(routes') = Len(routes) + 1 /\ routes'[i] = routes[i]
      BY <2>0, <3>1, RoutesDiffer, AppendProperties
    <3>3. i \in DOMAIN routes' /\ routes'[i] = Trip(r)
      BY <2>0, <2>1, <3>2
    <3>4. QED
      BY <3>3 DEF OnStack, Trip
  <2>4. ASSUME NEW d \in Dialogs, TapDecline(d) PROVE OnStack(Trip(r))'
    <3>1. routes' = Popped /\ routes # << >> /\ routes[Len(routes)] = Offer(d)
      BY <2>4 DEF TapDecline, OnTop
    <3>2. i \in DOMAIN routes' /\ routes'[i] = Trip(r)
      BY <2>2, <3>1
    <3>3. QED
      BY <3>2 DEF OnStack, Trip
  <2>5. ASSUME NEW d \in Dialogs, CheckAnswered(d) PROVE OnStack(Trip(r))'
    <3>1. /\ answers[d] # << >>
          /\ \/ routes' = routes
             \/ routes # << >> /\ routes' = Popped
             \/ routes # << >> /\ IsMine(Head(answers[d]), d)
                /\ routes' = Append(Popped, Trip(dialog[d].request))
      BY <2>5 DEF CheckAnswered
    <3>2. Asking(d) /\ answers[d] \in Seq(SlotValue)
      BY <1>1, <3>1 DEF Asking, Activity
    <3>3. PICK k \in 1..Len(routes) :
                  \A j \in k..Len(routes) : \E e \in Dialogs : routes[j] = Offer(e)
      BY <1>1, <3>2 DEF StackInv
    <3>4. Len(routes) \in k..Len(routes)
      BY <2>0
    <3>5. PICK e \in Dialogs : routes[Len(routes)] = Offer(e)
      BY <3>3, <3>4
    <3>6. CASE routes' = routes
      BY <1>1, <3>6 DEF OnStack, Trip
    <3>7. CASE routes # << >> /\ routes' = Popped
      <4>1. i \in DOMAIN routes' /\ routes'[i] = Trip(r)
        BY <2>2, <3>5, <3>7
      <4>2. QED
        BY <4>1 DEF OnStack, Trip
    <3>8. CASE routes # << >> /\ IsMine(Head(answers[d]), d)
               /\ routes' = Append(Popped, Trip(dialog[d].request))
      <4>1. dialog[d].request \in SlotValue
        BY <3>1, <3>2, <3>8, HeadTailProperties DEF IsMine
      <4>2. i \in 1..Len(Popped) /\ Popped[i] = Trip(r) /\ Popped \in Seq(AnyRoute)
        BY <2>2, <3>5, <3>8
      <4>3. Trip(dialog[d].request) \in AnyRoute
        BY <4>1, RoutesDiffer
      <4>4. routes' \in Seq(AnyRoute) /\ Len(routes') = Len(Popped) + 1 /\ routes'[i] = Popped[i]
        BY <3>8, <4>2, <4>3, AppendProperties
      <4>5. i \in DOMAIN routes' /\ routes'[i] = Trip(r)
        BY <4>2, <4>4
      <4>6. QED
        BY <4>5 DEF OnStack, Trip
    <3>9. QED
      BY <3>1, <3>6, <3>7, <3>8
  <2>6. ASSUME \/ AdministratorDecides \/ SwitchTab \/ UNCHANGED vars \/ Perform
               \/ \E q \in Requests : \/ ClientOffers(q) \/ ClientWithdraws(q)
                                      \/ ClientSeesAcceptance(q) \/ PushFails(q)
               \/ \E q \in Requests, d \in Dialogs : ReceivePush(q, d)
               \/ \E d \in Dialogs : FetchFails(d) \/ DisposeDialog(d) \/ ReuseDialog(d)
                                     \/ TapAccept(d)
               \/ \E h \in Toggles : TapToggle(h) \/ ToggleHandler(h)
        PROVE  OnStack(Trip(r))'
    <3>1. routes' = routes
      BY <2>6 DEF AdministratorDecides, SwitchTab, vars, Perform, ClientOffers, ClientWithdraws,
         ClientSeesAcceptance, PushFails, ReceivePush, FetchFails, DisposeDialog, ReuseDialog,
         TapAccept, TapToggle, ToggleHandler, ToggleDeactivated, ToggleOnline, ToggleOffline,
         StatusReadFails, Located, LocationFails
    <3>2. QED
      BY <1>1, <3>1 DEF OnStack, Trip
  <2>7. ~Crash
    BY DEF Crash, PatientRun
  <2>8. QED
    BY <1>1, <2>3, <2>4, <2>5, <2>6, <2>7 DEF Next
<1>2. Activity /\ StackInv /\ [Next]_vars =>
         [\A r \in Requests : OnStack(Trip(r)) => OnStack(Trip(r))' \/ LeaveTrip]_vars
  BY <1>1
<1>3. QED
  BY <1>2, PatientInvariant, PTL DEF Spec, TripStays

-----------------------------------------------------------------------------
(* Types, with any fault.  A read that is counted is in the outbox, and an *)
(* offer is on the stack once at most and while its dialog is open.        *)

\* The places of d's reads in a series of operations.
ReadsIn(s, d) == {i \in 1..Len(s) : s[i] = SlotRead(d)}

ReadsCounted == \A d \in Dialogs : asked[d] = Cardinality(ReadsIn(outbox, d))

NotAnnounced == \A r \in Requests : client[r] = "waiting" => pushes[r] = 0

OffersOpen ==
    \A d \in Dialogs, i \in 1..Len(routes) :
       routes[i] = Offer(d) => /\ dialog[d].life = "open"
                               /\ \A j \in 1..Len(routes) : routes[j] = Offer(d) => j = i

ShapeInv == TypeOK /\ ReadsCounted /\ NotAnnounced /\ OffersOpen

LEMMA ReadsFinite ==
    ASSUME NEW s \in Seq(Operation), NEW d
    PROVE  IsFiniteSet(ReadsIn(s, d)) /\ Cardinality(ReadsIn(s, d)) \in Nat
<1>1. Len(s) \in Nat
  OBVIOUS
<1>2. IsFiniteSet(1..Len(s))
  BY <1>1, FS_Interval
<1>3. ReadsIn(s, d) \in SUBSET (1..Len(s))
  BY DEF ReadsIn
<1>4. QED
  BY <1>2, <1>3, FS_Subset, FS_CardinalityType

LEMMA ReadsEmpty ==
    ASSUME NEW d
    PROVE  Cardinality(ReadsIn(<< >>, d)) = 0
<1>1. ReadsIn(<< >>, d) = {}
  BY DEF ReadsIn
<1>2. QED
  BY <1>1, FS_EmptySet

\* A series without reads of d leaves their places as they are.
LEMMA ReadsConcat ==
    ASSUME NEW s \in Seq(Operation), NEW t \in Seq(Operation), NEW d, ReadsIn(t, d) = {}
    PROVE  ReadsIn(s \o t, d) = ReadsIn(s, d)
<1> DEFINE u == s \o t
<1>1. /\ Len(u) = Len(s) + Len(t) /\ Len(s) \in Nat /\ Len(t) \in Nat
      /\ \A i \in 1..Len(u) : u[i] = IF i <= Len(s) THEN s[i] ELSE t[i - Len(s)]
  BY ConcatProperties
<1>2. \A i \in 1..Len(u) : i > Len(s) => i - Len(s) \in 1..Len(t)
  BY <1>1
<1>3. \A j \in 1..Len(t) : t[j] # SlotRead(d)
  BY DEF ReadsIn
<1> HIDE DEF u
<1>4. ASSUME NEW i \in 1..Len(u) PROVE u[i] = SlotRead(d) <=> i \in 1..Len(s) /\ s[i] = SlotRead(d)
  <2>1. CASE i <= Len(s)
    <3>1. i \in 1..Len(s) /\ u[i] = s[i]
      BY <1>1, <2>1
    <3>2. QED
      BY <3>1
  <2>2. CASE ~(i <= Len(s))
    <3>1. i \notin 1..Len(s) /\ u[i] = t[i - Len(s)] /\ i - Len(s) \in 1..Len(t)
      BY <1>1, <1>2, <2>2
    <3>2. QED
      BY <1>3, <3>1
  <2>3. QED
    BY <2>1, <2>2
<1>5. 1..Len(s) \subseteq 1..Len(u)
  BY <1>1
<1>6. ReadsIn(u, d) = ReadsIn(s, d)
  BY <1>4, <1>5 DEF ReadsIn
<1>7. QED
  BY <1>6 DEF u

LEMMA ReadsAppend ==
    ASSUME NEW s \in Seq(Operation), NEW o \in Operation, NEW d
    PROVE  Cardinality(ReadsIn(Append(s, o), d)) =
              Cardinality(ReadsIn(s, d)) + (IF o = SlotRead(d) THEN 1 ELSE 0)
<1> DEFINE n == Len(s)  u == Append(s, o)
<1>1. /\ n \in Nat /\ Len(u) = n + 1 /\ u[n + 1] = o
      /\ \A i \in 1..n : u[i] = s[i]
  BY AppendProperties
<1> HIDE DEF u, n
<1>2. 1..(n + 1) = (1..n) \cup {n + 1} /\ n + 1 \notin 1..n
  BY <1>1
<1>3. ReadsIn(s, d) = {i \in 1..n : s[i] = SlotRead(d)}
  BY DEF ReadsIn, n
<1>4. ReadsIn(u, d) = {i \in 1..(n + 1) : u[i] = SlotRead(d)}
  BY <1>1 DEF ReadsIn
<1>5. CASE o = SlotRead(d)
  <2>1. ReadsIn(u, d) = ReadsIn(s, d) \cup {n + 1} /\ n + 1 \notin ReadsIn(s, d)
    BY <1>1, <1>2, <1>3, <1>4, <1>5
  <2>2. QED
    BY <1>5, <2>1, ReadsFinite, FS_AddElement DEF u
<1>6. CASE o # SlotRead(d)
  <2>1. ReadsIn(u, d) = ReadsIn(s, d)
    BY <1>1, <1>2, <1>3, <1>4, <1>6
  <2>2. QED
    BY <1>6, <2>1, ReadsFinite DEF u
<1>7. QED
  BY <1>5, <1>6

LEMMA ReadsTail ==
    ASSUME NEW s \in Seq(Operation), s # << >>, NEW d
    PROVE  Cardinality(ReadsIn(Tail(s), d)) =
              Cardinality(ReadsIn(s, d)) - (IF Head(s) = SlotRead(d) THEN 1 ELSE 0)
<1> DEFINE n == Len(s)  u == Tail(s)  S == ReadsIn(s, d) \ {1}  T == ReadsIn(u, d)
<1>1. /\ n \in Nat \ {0} /\ u \in Seq(Operation) /\ Len(u) = n - 1 /\ Head(s) = s[1]
      /\ \A i \in 1..(n - 1) : u[i] = s[i + 1]
  BY HeadTailProperties, EmptySeq
<1>2. S = {i \in 2..n : s[i] = SlotRead(d)}
  BY <1>1 DEF ReadsIn
<1>3. T = {i \in 1..(n - 1) : s[i + 1] = SlotRead(d)}
  BY <1>1 DEF ReadsIn
<1>4. IsFiniteSet(S) /\ Cardinality(S) = Cardinality(ReadsIn(s, d)) - (IF Head(s) = SlotRead(d) THEN 1 ELSE 0)
  <2>1. 1 \in ReadsIn(s, d) <=> Head(s) = SlotRead(d)
    BY <1>1 DEF ReadsIn
  <2> DEFINE R == ReadsIn(s, d)
  <2>2. IsFiniteSet(R) /\ Cardinality(R) \in Nat
    BY ReadsFinite
  <2> HIDE DEF R
  <2>3. IsFiniteSet(R \ {1}) /\ Cardinality(R \ {1}) = IF 1 \in R THEN Cardinality(R) - 1 ELSE Cardinality(R)
    BY <2>2, FS_RemoveElement
  <2>4. QED
    BY <2>1, <2>2, <2>3 DEF R
<1> HIDE DEF S, T, u, n
<1>5. ExistsBijection(S, T)
  <2> DEFINE f == [i \in S |-> i - 1]
  <2>1. f \in [S -> T]
    BY <1>1, <1>2, <1>3
  <2>2. \A i, j \in S : f[i] = f[j] => i = j
    BY <1>1, <1>2
  <2>3. ASSUME NEW k \in T PROVE \E i \in S : f[i] = k
    <3>1. k + 1 \in S /\ f[k + 1] = k
      BY <1>1, <1>2, <1>3
    <3>2. QED
      BY <3>1
  <2> HIDE DEF f
  <2>4. f \in Bijection(S, T)
    BY <2>1, <2>2, <2>3 DEF Bijection, Injection, Surjection, IsInjective
  <2>5. QED
    BY <2>4 DEF ExistsBijection
<1>6. Cardinality(T) = Cardinality(S)
  BY <1>4, <1>5, FS_Bijection
<1>7. QED
  BY <1>4, <1>6 DEF T, u

\* What the handlers issue together reads nothing.
LEMMA SeriesRead ==
    ASSUME NEW s \in {makeRiderOfflineNow, onlineWrites, acceptWrites}
    PROVE  s \in Seq(Operation) /\ \A d \in Dialogs : ReadsIn(s, d) = {}
<1>1. s \in Seq(Operation)
  BY SeriesHarmless DEF Harmless
<1>2. /\ {"none", "searching", "accepted", "history"} \subseteq SlotValue
  BY DEF SlotValue
<1> DEFINE W == {PoolWrite(b) : b \in BOOLEAN} \cup {SlotWrite(v) : v \in SlotValue}
<1>3. /\ {PoolWrite(TRUE), PoolWrite(FALSE)} \subseteq W
      /\ \A v \in {"none", "searching", "accepted", "history"} : SlotWrite(v) \in W
      /\ \A o \in W, d \in Dialogs : o # SlotRead(d)
  BY <1>2, OperationsDiffer
<1> HIDE DEF W
<1>4. s \in Seq(W)
  <2>1. \A a, b, c \in W : <<a>> \in Seq(W) /\ <<a, b>> \in Seq(W) /\ <<a, b, c>> \in Seq(W)
    OBVIOUS
  <2>2. /\ SlotWrite("none") \in W /\ SlotWrite("searching") \in W
        /\ SlotWrite("accepted") \in W /\ SlotWrite("history") \in W
        /\ PoolWrite(TRUE) \in W /\ PoolWrite(FALSE) \in W
    BY <1>3
  <2>3. /\ OffA \in Seq(W) /\ OffB \in Seq(W) /\ OnA \in Seq(W)
        /\ AccA \in Seq(W) /\ AccN \in Seq(W)
    BY <2>1, <2>2, Zenon DEF OffA, OffB, OnA, AccA, AccN
  <2>4. QED
    BY <2>3, SeriesAre
<1>5. \A i \in 1..Len(s), d \in Dialogs : s[i] # SlotRead(d)
  BY <1>3, <1>4
<1>6. QED
  BY <1>1, <1>5 DEF ReadsIn

LEMMA ReadsIssue ==
    ASSUME TypeOK, ReadsCounted, asked' = asked,
           \/ outbox' = outbox
           \/ \E s \in {makeRiderOfflineNow, onlineWrites, acceptWrites} : outbox' = outbox \o s
    PROVE  outbox' \in Seq(Operation) /\ ReadsCounted'
<1>1. outbox \in Seq(Operation)
  BY DEF TypeOK
<1>2. CASE outbox' = outbox
  BY <1>1, <1>2 DEF ReadsCounted
<1>3. ASSUME NEW s \in {makeRiderOfflineNow, onlineWrites, acceptWrites}, outbox' = outbox \o s
      PROVE  outbox' \in Seq(Operation) /\ ReadsCounted'
  <2>1. s \in Seq(Operation) /\ \A d \in Dialogs : ReadsIn(s, d) = {}
    BY <1>3, SeriesRead
  <2>2. outbox' \in Seq(Operation)
    BY <1>1, <1>3, <2>1
  <2>3. \A d \in Dialogs : ReadsIn(outbox', d) = ReadsIn(outbox, d)
    BY <1>1, <1>3, <2>1, ReadsConcat
  <2>4. QED
    BY <2>2, <2>3 DEF ReadsCounted
<1>4. QED
  BY <1>2, <1>3

LEMMA OpenRecord ==
    ASSUME TypeOK, NEW d \in Dialogs,
           NEW l \in {"fetching", "open", "closing", "gone"}, dialog[d].life # "free"
    PROVE  /\ dialog[d] \in [life : {"fetching", "open", "closing", "gone"}, request : Requests]
           /\ [dialog EXCEPT ![d].life = l] \in [Dialogs -> DialogState]
           /\ \A e \in Dialogs : [dialog EXCEPT ![d].life = l][e].life = (IF e = d THEN l ELSE dialog[e].life)
<1>1. dialog \in [Dialogs -> DialogState]
  BY DEF TypeOK
<1>2. dialog[d] \in [life : {"fetching", "open", "closing", "gone"}, request : Requests]
  BY <1>1 DEF DialogState, NoDialog
<1>3. [dialog[d] EXCEPT !.life = l] \in DialogState /\ [dialog[d] EXCEPT !.life = l].life = l
  BY <1>2 DEF DialogState
<1>4. QED
  BY <1>1, <1>2, <1>3

\* Of two routes one is at its own place only; popping keeps the other places.
LEMMA OffersPop ==
    ASSUME TypeOK, OffersOpen, routes # << >>
    PROVE  /\ Popped \in Seq(Route) /\ Len(Popped) = Len(routes) - 1
           /\ \A i \in 1..Len(Popped) : Popped[i] = routes[i] /\ i \in 1..Len(routes)
           /\ \A d \in Dialogs, i \in 1..Len(Popped) :
                 Popped[i] = Offer(d) => dialog[d].life = "open" /\ ~OnTop(Offer(d))
<1> DEFINE n == Len(routes) - 1
<1>1. Len(routes) \in Nat \ {0} /\ routes \in Seq(Route)
  BY EmptySeq DEF TypeOK
<1>2. n \in Nat /\ 1 \in Int /\ n \in Int /\ \A i \in 1..n : routes[i] \in Route
  BY <1>1
<1>3. Popped = SubSeq(routes, 1, n)
  BY DEF Popped
<1> HIDE DEF n
<1>4. /\ Popped \in Seq(Route) /\ Len(Popped) = IF 1 <= n THEN n - 1 + 1 ELSE 0
      /\ \A i \in 1..(n - 1 + 1) : Popped[i] = routes[1 + i - 1]
  BY <1>2, <1>3, SubSeqProperties
<1>5. Len(Popped) = n /\ \A i \in 1..n : Popped[i] = routes[i]
  BY <1>2, <1>4
<1>6. \A i \in 1..n : i \in 1..Len(routes) /\ i # Len(routes)
  BY <1>1 DEF n
<1>7. Len(routes) \in 1..Len(routes)
  BY <1>1
<1>8. ASSUME NEW d \in Dialogs, NEW i \in 1..Len(Popped), Popped[i] = Offer(d)
      PROVE  dialog[d].life = "open" /\ ~OnTop(Offer(d))
  <2>1. routes[i] = Offer(d) /\ i \in 1..Len(routes) /\ i # Len(routes)
    BY <1>5, <1>6, <1>8
  <2>2. dialog[d].life = "open" /\ \A j \in 1..Len(routes) : routes[j] = Offer(d) => j = i
    BY <2>1 DEF OffersOpen
  <2>3. QED
    BY <1>7, <2>1, <2>2 DEF OnTop
<1>9. QED
  BY <1>4, <1>5, <1>6, <1>8 DEF n

\* The stack is left alone, and no open dialog closes.
LEMMA OffersFrame ==
    ASSUME OffersOpen, routes' = routes,
           \A d \in Dialogs : dialog[d].life = "open" => dialog'[d].life = "open"
    PROVE  OffersOpen'
BY DEF OffersOpen

LEMMA RouteKinds ==
    /\ Home \in Route
    /\ \A d \in Dialogs : Offer(d) \in Route /\ Offer(d) # Home
    /\ \A d, e \in Dialogs : Offer(d) = Offer(e) => d = e
    /\ \A r \in Requests : Trip(r) \in Route
    /\ \A r \in Requests, d \in Dialogs : Trip(r) # Offer(d)
<1>1. \A d \in Dialogs : Offer(d).kind = "offer" /\ Offer(d).dialog = d
  BY DEF Offer
<1>2. \A r \in Requests : Trip(r).kind = "trip"
  BY DEF Trip
<1>3. Home.kind = "home"
  BY DEF Home
<1>4. QED
  BY <1>1, <1>2, <1>3 DEF Route

LEMMA ShapeInit == Init => ShapeInv
<1> SUFFICES ASSUME Init PROVE ShapeInv
  OBVIOUS
<1>1. << >> \in Seq(Operation) /\ << >> \in Seq(SlotValue) /\ <<Home>> \in Seq(Route)
  BY RouteKinds
<1>2. TypeOK
  <2>1. "none" \in SlotValue /\ NoDialog \in DialogState /\ 0 \in 0..MaxAccepts /\ 0 \in 0..MaxPushes
    BY DEF SlotValue, DialogState
  <2>2. QED
    BY <1>1, <2>1 DEF Init, TypeOK
<1>3. ReadsCounted
  BY ReadsEmpty DEF Init, ReadsCounted
<1>4. NotAnnounced
  BY DEF Init, NotAnnounced
<1>5. OffersOpen
  BY RouteKinds DEF Init, OffersOpen
<1>6. QED
  BY <1>2, <1>3, <1>4, <1>5 DEF ShapeInv

LEMMA ShapePerform ==
    ASSUME ShapeInv, Perform
    PROVE  ShapeInv'
<1> USE DEF ShapeInv
<1>1. /\ outbox \in Seq(Operation) /\ answers \in [Dialogs -> Seq(SlotValue)] /\ slot \in SlotValue
      /\ pool \in BOOLEAN /\ asked \in [Dialogs -> 0..MaxAccepts]
  BY DEF TypeOK
<1>2. /\ outbox' = Tail(outbox) /\ outbox # << >>
      /\ UNCHANGED <<account, online, banner, toggle, tab, geofire, routes, dialog, pushes, client, opened>>
  BY PerformOne
<1>3. Head(outbox) \in Operation /\ outbox' \in Seq(Operation)
  BY <1>1, <1>2, HeadTailProperties
<1>4. \A d \in Dialogs : Cardinality(ReadsIn(outbox', d)) =
         Cardinality(ReadsIn(outbox, d)) - (IF Head(outbox) = SlotRead(d) THEN 1 ELSE 0)
  BY <1>1, <1>2, ReadsTail
<1>5. ReadsCounted' /\ slot' \in SlotValue /\ pool' \in BOOLEAN
      /\ answers' \in [Dialogs -> Seq(SlotValue)] /\ asked' \in [Dialogs -> 0..MaxAccepts]
  <2>1. CASE \E v \in SlotValue : Head(outbox) = SlotWrite(v)
    <3>1. PICK v \in SlotValue : Head(outbox) = SlotWrite(v)
      BY <2>1
    <3>2. slot' = v /\ UNCHANGED <<pool, answers, asked>>
      BY <3>1, PerformOne
    <3>3. \A d \in Dialogs : Head(outbox) # SlotRead(d)
      BY <3>1, OperationsDiffer
    <3>4. ReadsCounted'
      BY <1>1, <1>4, <3>2, <3>3, ReadsFinite DEF ReadsCounted
    <3>5. QED
      BY <1>1, <3>2, <3>4
  <2>2. CASE \E b \in BOOLEAN : Head(outbox) = PoolWrite(b)
    <3>1. PICK b \in BOOLEAN : Head(outbox) = PoolWrite(b)
      BY <2>2
    <3>2. pool' = b /\ UNCHANGED <<slot, answers, asked>>
      BY <3>1, PerformOne
    <3>3. \A d \in Dialogs : Head(outbox) # SlotRead(d)
      BY <3>1, OperationsDiffer
    <3>4. ReadsCounted'
      BY <1>1, <1>4, <3>2, <3>3, ReadsFinite DEF ReadsCounted
    <3>5. QED
      BY <1>1, <3>2, <3>4
  <2>3. CASE \E d \in Dialogs : Head(outbox) = SlotRead(d)
    <3>1. PICK d \in Dialogs : Head(outbox) = SlotRead(d)
      BY <2>3
    <3>2. /\ answers' = [answers EXCEPT ![d] = Append(@, slot)]
          /\ asked' = [asked EXCEPT ![d] = @ - 1]
          /\ UNCHANGED <<slot, pool>>
      BY <3>1, PerformOne
    <3>3. \A e \in Dialogs : Head(outbox) = SlotRead(e) <=> e = d
      BY <3>1 DEF SlotRead
    <3>4. \A e \in Dialogs : asked'[e] = asked[e] - (IF e = d THEN 1 ELSE 0)
      BY <1>1, <3>2
    <3>5. ReadsCounted'
      BY <1>4, <3>3, <3>4 DEF ReadsCounted
    <3>6. Cardinality(ReadsIn(outbox', d)) \in Nat
      BY <1>3, ReadsFinite
    <3>7. asked'[d] \in 0..MaxAccepts
      <4>1. asked[d] \in 0..MaxAccepts /\ asked'[d] = asked[d] - 1 /\ asked'[d] \in Nat
        <5>1. asked[d] \in 0..MaxAccepts /\ asked'[d] = asked[d] - 1
          BY <1>1, <3>4
        <5>2. asked'[d] \in Nat
          BY <3>5, <3>6 DEF ReadsCounted
        <5>3. QED
          BY <5>1, <5>2
      <4>2. \A n \in 0..MaxAccepts : n - 1 \in Nat => n - 1 \in 0..MaxAccepts
        OBVIOUS
      <4>3. QED
        BY <4>1, <4>2
    <3>8. asked' \in [Dialogs -> 0..MaxAccepts]
      BY <1>1, <3>2, <3>4, <3>7
    <3>9. Append(answers[d], slot) \in Seq(SlotValue)
      BY <1>1
    <3>10. answers' \in [Dialogs -> Seq(SlotValue)]
      BY <1>1, <3>2, <3>9
    <3>11. QED
      BY <1>1, <3>2, <3>5, <3>8, <3>10
  <2>4. QED
    BY <1>3, <2>1, <2>2, <2>3 DEF Operation
<1>6. TypeOK'
  BY <1>2, <1>3, <1>5 DEF TypeOK
<1>7. NotAnnounced' /\ OffersOpen'
  BY <1>2 DEF NotAnnounced, OffersOpen
<1>8. QED
  BY <1>5, <1>6, <1>7

\* The database's other side, and the toggle button.
LEMMA ShapeOutside ==
    ASSUME ShapeInv,
           \/ AdministratorDecides \/ UNCHANGED vars
           \/ \E r \in Requests : \/ ClientOffers(r) \/ ClientWithdraws(r)
                                  \/ ClientSeesAcceptance(r) \/ PushFails(r)
    PROVE  ShapeInv'
<1> USE DEF ShapeInv, database, button, offers, outside
<1>0. /\ account \in {"activated", "deactivated"} /\ slot \in SlotValue
      /\ pushes \in [Requests -> 0..MaxPushes] /\ MaxPushes \in Nat \ {0}
      /\ client \in [Requests -> {"waiting", "offered", "withdrawn", "served"}]
  BY DEF TypeOK
<1>1. /\ UNCHANGED <<pool, outbox, online, banner, toggle, tab, geofire, routes, dialog, answers, asked, opened>>
  BY DEF AdministratorDecides, vars, ClientOffers, ClientWithdraws, ClientSeesAcceptance, PushFails
<1>2. ReadsCounted' /\ OffersOpen'
  BY <1>1 DEF ReadsCounted, OffersOpen
<1>3. /\ account' \in {"activated", "deactivated"} /\ slot' \in SlotValue
      /\ pushes' \in [Requests -> 0..MaxPushes]
      /\ client' \in [Requests -> {"waiting", "offered", "withdrawn", "served"}]
      /\ NotAnnounced'
  <2>1. CASE AdministratorDecides \/ UNCHANGED vars
    BY <1>0, <2>1 DEF AdministratorDecides, vars, NotAnnounced
  <2>2. ASSUME NEW r \in Requests, ClientOffers(r)
        PROVE  <1>3!:
    <3>1. pushes[r] = 0 /\ 1 \in 0..MaxPushes
      BY <2>2 DEF ClientOffers, NotAnnounced
    <3>2. pushes' = [pushes EXCEPT ![r] = 1] /\ client' = [client EXCEPT ![r] = "offered"]
      BY <2>2, <3>1 DEF ClientOffers
    <3>3. pushes' \in [Requests -> 0..MaxPushes] /\ NotAnnounced'
      BY <1>0, <3>1, <3>2 DEF NotAnnounced
    <3>4. account' = account /\ slot' \in SlotValue
      BY <2>2 DEF ClientOffers, SlotValue
    <3>5. client' \in [Requests -> {"waiting", "offered", "withdrawn", "served"}]
      BY <1>0, <3>2
    <3>6. QED
      BY <1>0, <3>3, <3>4, <3>5
  <2>3. ASSUME NEW r \in Requests, ClientWithdraws(r) PROVE <1>3!:
    BY <1>0, <2>3 DEF ClientWithdraws, NotAnnounced, SlotValue
  <2>4. ASSUME NEW r \in Requests, ClientSeesAcceptance(r) PROVE <1>3!:
    BY <1>0, <2>4 DEF ClientSeesAcceptance, NotAnnounced
  <2>5. ASSUME NEW r \in Requests, PushFails(r) PROVE <1>3!:
    <3>1. pushes[r] \in 0..MaxPushes /\ pushes[r] > 0 /\ client[r] # "waiting"
      BY <1>0, <2>5 DEF PushFails, NotAnnounced
    <3>2. PICK n \in 0..MaxPushes : pushes' = [pushes EXCEPT ![r] = n]
      <4>1. pushes[r] - 1 \in 0..MaxPushes /\ (pushes[r] < MaxPushes => pushes[r] + 1 \in 0..MaxPushes)
        BY <3>1
      <4>2. \/ pushes' = [pushes EXCEPT ![r] = pushes[r] - 1]
            \/ (pushes[r] < MaxPushes /\ pushes' = [pushes EXCEPT ![r] = pushes[r] + 1])
        BY <2>5 DEF PushFails
      <4>3. QED
        BY <4>1, <4>2
    <3>3. UNCHANGED <<account, slot, client>>
      BY <2>5 DEF PushFails
    <3>4. pushes' \in [Requests -> 0..MaxPushes] /\ NotAnnounced'
      BY <1>0, <3>1, <3>2, <3>3 DEF NotAnnounced
    <3>5. QED
      BY <1>0, <3>3, <3>4
  <2>6. QED
    BY <2>1, <2>2, <2>3, <2>4, <2>5
<1>4. TypeOK'
  BY <1>1, <1>3 DEF TypeOK
<1>5. QED
  BY <1>2, <1>3, <1>4

LEMMA ShapeToggle ==
    ASSUME ShapeInv, NEW h \in Toggles, TapToggle(h) \/ ToggleHandler(h)
    PROVE  ShapeInv'
<1> USE DEF ShapeInv, database, button, offers, outside
<1>1. /\ UNCHANGED <<account, slot, pool, tab, routes, dialog, answers, asked, pushes, client,
                     opened>>
      /\ geofire' \in BOOLEAN
      /\ \E s \in {"idle", "status", "position"} : toggle' = [toggle EXCEPT ![h] = s]
      /\ online' \in BOOLEAN /\ banner' \in {"Offline", "Online", "Offline - Deactivated"}
      /\ outbox' \in {outbox, outbox \o makeRiderOfflineNow, outbox \o onlineWrites}
  BY DEF TapToggle, ToggleHandler, ToggleDeactivated, ToggleOnline, ToggleOffline, StatusReadFails,
     Located, LocationFails, updateDriverStatus, TypeOK
<1>2. outbox' \in Seq(Operation) /\ ReadsCounted'
  BY <1>1, ReadsIssue
<1>3. NotAnnounced' /\ OffersOpen'
  BY <1>1 DEF NotAnnounced, OffersOpen
<1>4. TypeOK'
  BY <1>1, <1>2 DEF TypeOK
<1>5. QED
  BY <1>2, <1>3, <1>4

LEMMA ShapeSwitchTab ==
    ASSUME ShapeInv, SwitchTab
    PROVE  ShapeInv'
<1> USE DEF ShapeInv, database, button, offers, outside
<1>1. /\ UNCHANGED <<account, slot, pool, outbox, online, banner, toggle, geofire, routes, answers, asked,
                     pushes, client, opened>>
      /\ tab' \in {"home", "other"}
      /\ dialog' = [d \in Dialogs |-> IF dialog[d].life = "fetching" THEN NoDialog ELSE dialog[d]]
  BY DEF SwitchTab
<1>2. dialog' \in [Dialogs -> DialogState]
  BY <1>1 DEF TypeOK, DialogState
<1>3. OffersOpen'
  BY <1>1, OffersFrame
<1>4. TypeOK' /\ ReadsCounted' /\ NotAnnounced'
  BY <1>1, <1>2 DEF TypeOK, ReadsCounted, NotAnnounced
<1>5. QED
  BY <1>3, <1>4

\* A push message and the life of a dialog that is not on the stack.
LEMMA ShapeDialog ==
    ASSUME ShapeInv, NEW d \in Dialogs,
           \/ \E r \in Requests : ReceivePush(r, d)
           \/ FetchFails(d) \/ DisposeDialog(d) \/ ReuseDialog(d)
    PROVE  ShapeInv'
<1> USE DEF ShapeInv, database, button, offers, outside
<1>0. dialog \in [Dialogs -> DialogState] /\ pushes \in [Requests -> 0..MaxPushes]
  BY DEF TypeOK
<1>1. /\ UNCHANGED <<account, slot, pool, outbox, online, banner, toggle, tab, geofire, routes, answers, asked,
                     client, opened>>
      /\ dialog[d].life # "open"
      /\ dialog' = dialog \/ \E v \in DialogState : dialog' = [dialog EXCEPT ![d] = v]
  <2>1. ASSUME NEW r \in Requests, ReceivePush(r, d) PROVE <1>1!:
    <3>1. [life |-> "fetching", request |-> r] \in DialogState
      BY DEF DialogState
    <3>2. QED
      BY <2>1, <3>1 DEF ReceivePush, NoDialog
  <2>2. CASE FetchFails(d) \/ ReuseDialog(d)
    <3>1. NoDialog \in DialogState
      BY DEF DialogState
    <3>2. QED
      BY <2>2, <3>1 DEF FetchFails, ReuseDialog
  <2>3. CASE DisposeDialog(d)
    <3>1. dialog[d].life = "closing" /\ dialog' = [dialog EXCEPT ![d].life = "gone"]
      BY <2>3 DEF DisposeDialog
    <3>2. [dialog[d] EXCEPT !.life = "gone"] \in DialogState
      <4>1. dialog[d] \in [life : {"fetching", "open", "closing", "gone"}, request : Requests]
        BY <3>1, OpenRecord
      <4>2. QED
        BY <4>1 DEF DialogState
    <3>3. QED
      BY <2>3, <3>1, <3>2 DEF DisposeDialog
  <2>4. QED
    BY <2>1, <2>2, <2>3
<1>2. dialog' \in [Dialogs -> DialogState]
  BY <1>0, <1>1
<1>3. \A e \in Dialogs : dialog[e].life = "open" => dialog'[e].life = "open"
  BY <1>0, <1>1
<1>4. OffersOpen'
  BY <1>1, <1>3, OffersFrame
<1>5. pushes' \in [Requests -> 0..MaxPushes] /\ NotAnnounced'
  <2>1. ASSUME NEW r \in Requests, ReceivePush(r, d) PROVE <1>5!:
    <3>1. /\ pushes[r] \in 0..MaxPushes /\ pushes[r] > 0 /\ client' = client
          /\ pushes' = [pushes EXCEPT ![r] = @ - 1]
      BY <1>0, <2>1 DEF ReceivePush
    <3>2. pushes[r] - 1 \in 0..MaxPushes
      BY <3>1
    <3>3. pushes' \in [Requests -> 0..MaxPushes]
      BY <1>0, <3>1, <3>2
    <3>4. QED
      BY <1>0, <3>1, <3>3 DEF NotAnnounced
  <2>2. CASE FetchFails(d) \/ DisposeDialog(d) \/ ReuseDialog(d)
    BY <1>0, <2>2 DEF FetchFails, DisposeDialog, ReuseDialog, NotAnnounced
  <2>3. QED
    BY <2>1, <2>2
<1>6. TypeOK' /\ ReadsCounted'
  BY <1>1, <1>2, <1>5 DEF TypeOK, ReadsCounted
<1>7. QED
  BY <1>4, <1>5, <1>6

LEMMA ShapeShow ==
    ASSUME ShapeInv, NEW d \in Dialogs, ShowOffer(d)
    PROVE  ShapeInv'
<1> USE DEF ShapeInv, database, button, offers, outside
<1>1. /\ UNCHANGED <<account, slot, pool, outbox, online, banner, toggle, tab, geofire, answers, asked,
                     pushes, client, opened>>
      /\ dialog[d].life = "fetching" /\ dialog' = [dialog EXCEPT ![d].life = "open"]
      /\ routes' = Append(routes, Offer(d)) /\ routes \in Seq(Route)
  BY DEF ShowOffer, TypeOK
<1>2. /\ dialog' \in [Dialogs -> DialogState]
      /\ \A e \in Dialogs : dialog'[e].life = (IF e = d THEN "open" ELSE dialog[e].life)
  BY <1>1, OpenRecord
<1> DEFINE n == Len(routes)
<1>3. /\ n \in Nat /\ routes' \in Seq(Route) /\ Len(routes') = n + 1
      /\ routes'[n + 1] = Offer(d) /\ \A i \in 1..n : routes'[i] = routes[i]
  BY <1>1, RouteKinds, AppendProperties
<1> HIDE DEF n
<1>4. \A i \in 1..n : routes[i] # Offer(d)
  BY <1>1 DEF OffersOpen, n
<1>5. ASSUME NEW e \in Dialogs, NEW i \in 1..Len(routes'), routes'[i] = Offer(e)
      PROVE  /\ dialog'[e].life = "open"
             /\ \A j \in 1..Len(routes') : routes'[j] = Offer(e) => j = i
  <2>0. \A j \in 1..Len(routes') : j \in 1..n \/ j = n + 1
    BY <1>3
  <2>1. CASE e = d
    BY <1>2, <1>3, <1>4, <1>5, <2>0, <2>1
  <2>2. CASE e # d
    <3>1. Offer(e) # Offer(d)
      BY <2>2, RouteKinds
    <3>2. \A j \in 1..Len(routes') : routes'[j] = Offer(e) => j \in 1..n /\ routes[j] = Offer(e)
      BY <1>3, <2>0, <3>1
    <3>3. dialog[e].life = "open" /\ \A j \in 1..n : routes[j] = Offer(e) => j = i
      BY <1>5, <3>2 DEF OffersOpen, n
    <3>4. QED
      BY <1>2, <2>2, <3>2, <3>3
  <2>3. QED
    BY <2>1, <2>2
<1>6. OffersOpen'
  BY <1>5 DEF OffersOpen
<1>7. TypeOK' /\ ReadsCounted' /\ NotAnnounced'
  BY <1>1, <1>2, <1>3 DEF TypeOK, ReadsCounted, NotAnnounced
<1>8. QED
  BY <1>6, <1>7

LEMMA ShapeAccept ==
    ASSUME ShapeInv, NEW d \in Dialogs, TapAccept(d)
    PROVE  ShapeInv'
<1> USE DEF ShapeInv, database, button, offers, outside
<1>1. /\ UNCHANGED <<account, slot, pool, online, banner, toggle, tab, geofire, routes, dialog, answers,
                     pushes, client, opened>>
      /\ asked[d] + Len(answers[d]) < MaxAccepts
      /\ asked' = [asked EXCEPT ![d] = @ + 1] /\ outbox' = Append(outbox, SlotRead(d))
  BY DEF TapAccept
<1>2. /\ asked \in [Dialogs -> 0..MaxAccepts] /\ outbox \in Seq(Operation)
      /\ answers \in [Dialogs -> Seq(SlotValue)]
  BY DEF TypeOK
<1>3. SlotRead(d) \in Operation
  BY DEF Operation
<1>4. outbox' \in Seq(Operation)
  BY <1>1, <1>2, <1>3
<1>5. asked' \in [Dialogs -> 0..MaxAccepts]
  <2>1. asked[d] \in 0..MaxAccepts /\ Len(answers[d]) \in Nat
    BY <1>2
  <2>2. asked[d] + 1 \in 0..MaxAccepts
    BY <1>1, <2>1
  <2>3. QED
    BY <1>1, <1>2, <2>2
<1>6. ASSUME NEW e \in Dialogs PROVE asked'[e] = Cardinality(ReadsIn(outbox', e))
  <2>1. Cardinality(ReadsIn(outbox', e)) =
           Cardinality(ReadsIn(outbox, e)) + (IF SlotRead(d) = SlotRead(e) THEN 1 ELSE 0)
    BY <1>1, <1>2, <1>3, ReadsAppend
  <2>2. SlotRead(d) = SlotRead(e) <=> d = e
    BY DEF SlotRead
  <2>3. asked'[e] = asked[e] + (IF d = e THEN 1 ELSE 0)
    BY <1>1, <1>2
  <2>4. QED
    BY <2>1, <2>2, <2>3 DEF ReadsCounted
<1>7. TypeOK'
  BY <1>1, <1>4, <1>5 DEF TypeOK
<1>8. ReadsCounted'
  BY <1>6 DEF ReadsCounted
<1>9. NotAnnounced' /\ OffersOpen'
  BY <1>1 DEF NotAnnounced, OffersOpen
<1>10. QED
  BY <1>7, <1>8, <1>9

\* Of the dialogs a pop takes off the stack, and no other, the route was on top.
LEMMA ShapePop ==
    ASSUME ShapeInv, routes # << >>,
           UNCHANGED <<account, slot, pool, online, banner, toggle, tab, geofire, asked, pushes, client>>,
           outbox' \in {outbox, outbox \o acceptWrites},
           answers' \in [Dialogs -> Seq(SlotValue)], opened' \in [Requests -> Nat],
           dialog' = Closing,
           \/ routes' = Popped
           \/ \E r \in Requests : routes' = Append(Popped, Trip(r))
    PROVE  ShapeInv'
<1> USE DEF ShapeInv
<1>1. Len(routes) \in Nat \ {0} /\ routes \in Seq(Route) /\ dialog \in [Dialogs -> DialogState]
  BY EmptySeq DEF TypeOK
<1>2. ASSUME NEW d \in Dialogs, OnTop(Offer(d)) PROVE dialog[d].life = "open"
  BY <1>1, <1>2 DEF OnTop, OffersOpen
<1>3. \A d \in Dialogs : dialog'[d] \in DialogState
  <2>1. ASSUME NEW d \in Dialogs, OnTop(Offer(d)) PROVE [dialog[d] EXCEPT !.life = "closing"] \in DialogState
    <3>1. dialog[d] \in [life : {"fetching", "open", "closing", "gone"}, request : Requests]
      BY <1>2, <2>1, OpenRecord
    <3>2. QED
      BY <3>1 DEF DialogState
  <2>2. QED
    BY <1>1, <2>1 DEF Closing
<1>4. dialog' \in [Dialogs -> DialogState]
  BY <1>3 DEF Closing
<1>5. \A d \in Dialogs : ~OnTop(Offer(d)) => dialog'[d] = dialog[d]
  BY DEF Closing
<1> DEFINE P == Popped  n == Len(P)
<1>6. /\ P \in Seq(Route) /\ n \in Nat
      /\ \A i \in 1..n : P[i] = routes[i] /\ i \in 1..Len(routes)
      /\ \A d \in Dialogs, i \in 1..n : P[i] = Offer(d) => dialog[d].life = "open" /\ ~OnTop(Offer(d))
  BY OffersPop
<1>7. \/ routes' = P
      \/ \E r \in Requests : routes' = Append(P, Trip(r))
  OBVIOUS
<1> HIDE DEF P, n
<1>8. \A d \in Dialogs, i, j \in 1..n : P[i] = Offer(d) /\ P[j] = Offer(d) => j = i
  <2>1. ASSUME NEW d \in Dialogs, NEW i \in 1..n, NEW j \in 1..n, P[i] = Offer(d), P[j] = Offer(d)
        PROVE  j = i
    <3>1. /\ i \in 1..Len(routes) /\ routes[i] = Offer(d)
          /\ j \in 1..Len(routes) /\ routes[j] = Offer(d)
      BY <1>6, <2>1
    <3>2. QED
      BY <3>1 DEF OffersOpen
  <2>2. QED
    BY <2>1
<1>9. routes' \in Seq(Route) /\ Len(routes') \in Nat
      /\ \A d \in Dialogs, i \in 1..Len(routes') : routes'[i] = Offer(d) => i \in 1..n /\ P[i] = Offer(d)
  <2>1. CASE routes' = P
    BY <1>6, <2>1 DEF n
  <2>2. ASSUME NEW r \in Requests, routes' = Append(P, Trip(r)) PROVE <1>9!:
    <3>1. Trip(r) \in Route /\ \A d \in Dialogs : Trip(r) # Offer(d)
      BY RouteKinds
    <3>2. /\ routes' \in Seq(Route) /\ Len(routes') = n + 1 /\ routes'[n + 1] = Trip(r)
          /\ \A i \in 1..n : routes'[i] = P[i]
      BY <1>6, <2>2, <3>1, AppendProperties DEF n
    <3>3. \A i \in 1..(n + 1) : i \in 1..n \/ i = n + 1
      BY <1>6
    <3>4. QED
      BY <1>6, <3>1, <3>2, <3>3
  <2>3. QED
    BY <1>7, <2>1, <2>2
<1>10. OffersOpen'
  <2>1. ASSUME NEW d \in Dialogs, NEW i \in 1..Len(routes'), routes'[i] = Offer(d)
        PROVE  /\ dialog'[d].life = "open"
               /\ \A j \in 1..Len(routes') : routes'[j] = Offer(d) => j = i
    <3>1. i \in 1..n /\ P[i] = Offer(d)
      BY <1>9, <2>1
    <3>2. dialog'[d].life = "open"
      BY <1>5, <1>6, <3>1
    <3>3. QED
      BY <1>8, <1>9, <3>1, <3>2
  <2>2. QED
    BY <2>1 DEF OffersOpen
<1>11. outbox' \in Seq(Operation) /\ ReadsCounted'
  BY ReadsIssue
<1>12. TypeOK' /\ NotAnnounced'
  BY <1>4, <1>9, <1>11 DEF TypeOK, NotAnnounced
<1>13. QED
  BY <1>10, <1>11, <1>12

\* Declining and leaving a trip pop the stack.
LEMMA ShapeLeave ==
    ASSUME ShapeInv, LeaveTrip \/ \E d \in Dialogs : TapDecline(d)
    PROVE  ShapeInv'
<1> USE DEF ShapeInv, database, button, offers, outside
<1>1. routes \in Seq(Route) /\ dialog \in [Dialogs -> DialogState]
  BY DEF TypeOK
<1>2. /\ UNCHANGED <<account, slot, pool, online, banner, toggle, tab, geofire, outbox, answers, asked,
                     pushes, client, opened>>
      /\ routes # << >> /\ routes' = Popped
  BY DEF LeaveTrip, TapDecline, OnTop
<1>3. dialog' = Closing
  <2>1. CASE LeaveTrip
    <3>1. PICK r \in Requests : OnTop(Trip(r))
      BY <2>1 DEF LeaveTrip
    <3>2. \A d \in Dialogs : ~OnTop(Offer(d))
      BY <3>1, RouteKinds DEF OnTop
    <3>3. dialog' = dialog
      BY <2>1 DEF LeaveTrip
    <3>4. QED
      BY <1>1, <3>2, <3>3 DEF Closing
  <2>2. ASSUME NEW d \in Dialogs, TapDecline(d) PROVE dialog' = Closing
    <3>1. OnTop(Offer(d)) /\ dialog' = [dialog EXCEPT ![d].life = "closing"]
      BY <2>2 DEF TapDecline
    <3>2. \A e \in Dialogs : OnTop(Offer(e)) <=> e = d
      BY <3>1, RouteKinds DEF OnTop
    <3>3. QED
      BY <1>1, <3>1, <3>2 DEF Closing
  <2>3. QED
    BY <2>1, <2>2
<1>4. answers' \in [Dialogs -> Seq(SlotValue)] /\ opened' \in [Requests -> Nat]
  BY <1>2 DEF TypeOK
<1>5. QED
  BY <1>2, <1>3, <1>4, ShapePop

LEMMA ShapeAnswered ==
    ASSUME ShapeInv, NEW d \in Dialogs, CheckAnswered(d)
    PROVE  ShapeInv'
<1> USE DEF ShapeInv, database, button, offers, outside
<1>1. answers \in [Dialogs -> Seq(SlotValue)] /\ opened \in [Requests -> Nat]
  BY DEF TypeOK
<1>2. /\ UNCHANGED <<account, slot, pool, online, banner, toggle, tab, geofire, asked, pushes, client>>
      /\ answers[d] # << >> /\ answers' = [answers EXCEPT ![d] = Tail(@)]
  BY DEF CheckAnswered
<1>3. answers' \in [Dialogs -> Seq(SlotValue)]
  <2>1. Tail(answers[d]) \in Seq(SlotValue)
    BY <1>1, <1>2, HeadTailProperties
  <2>2. QED
    BY <1>1, <1>2, <2>1
<1>4. CASE ContextValid(d) /\ routes # << >>
  <2>1. dialog[d].request \in Requests
    <3>1. dialog[d].life # "free"
      BY <1>4 DEF ContextValid
    <3>2. dialog[d] \in [life : {"fetching", "open", "closing", "gone"}, request : Requests]
      BY <3>1, OpenRecord
    <3>3. QED
      BY <3>2
  <2>2. CASE IsMine(Head(answers[d]), d)
    <3>1. /\ dialog' = Closing /\ routes' = Append(Popped, Trip(dialog[d].request))
          /\ opened' = [opened EXCEPT ![dialog[d].request] = @ + 1]
          /\ outbox' = outbox \o acceptWrites
      BY <1>4, <2>2 DEF CheckAnswered
    <3>2. opened' \in [Requests -> Nat]
      BY <1>1, <2>1, <3>1
    <3>3. QED
      BY <1>2, <1>3, <1>4, <2>1, <3>1, <3>2, ShapePop
  <2>3. CASE ~IsMine(Head(answers[d]), d)
    <3>1. dialog' = Closing /\ routes' = Popped /\ UNCHANGED <<opened, outbox>>
      BY <1>4, <2>3 DEF CheckAnswered
    <3>2. QED
      BY <1>1, <1>2, <1>3, <1>4, <3>1, ShapePop
  <2>4. QED
    BY <2>2, <2>3
<1>5. CASE ~(ContextValid(d) /\ routes # << >>)
  <2>1. UNCHANGED <<dialog, routes, opened, outbox>>
    BY <1>5 DEF CheckAnswered
  <2>2. TypeOK'
    BY <1>2, <1>3, <2>1 DEF TypeOK
  <2>3. ReadsCounted' /\ NotAnnounced' /\ OffersOpen'
    BY <1>2, <2>1 DEF ReadsCounted, NotAnnounced, OffersOpen
  <2>4. QED
    BY <2>2, <2>3
<1>6. QED
  BY <1>4, <1>5

\* A crash empties what the process held; the database and the clients stay.
LEMMA ShapeCrash ==
    ASSUME ShapeInv, Crash
    PROVE  ShapeInv'
<1> USE DEF ShapeInv, database, button, offers, outside
<1>1. << >> \in Seq(Operation) /\ << >> \in Seq(SlotValue) /\ <<Home>> \in Seq(Route)
  BY RouteKinds
<1>2. TypeOK'
  <2>1. NoDialog \in DialogState /\ 0 \in 0..MaxAccepts
    BY DEF DialogState
  <2>2. QED
    BY <1>1, <2>1 DEF Crash, TypeOK
<1>3. ReadsCounted'
  BY ReadsEmpty DEF Crash, ReadsCounted
<1>4. NotAnnounced'
  BY DEF Crash, NotAnnounced
<1>5. OffersOpen'
  BY RouteKinds DEF Crash, OffersOpen
<1>6. QED
  BY <1>2, <1>3, <1>4, <1>5

LEMMA ShapeNext == ShapeInv /\ [Next]_vars => ShapeInv'
<1> SUFFICES ASSUME ShapeInv, [Next]_vars PROVE ShapeInv'
  OBVIOUS
<1>1. CASE Perform
  BY <1>1, ShapePerform
<1>2. CASE \/ AdministratorDecides \/ UNCHANGED vars
           \/ \E r \in Requests : \/ ClientOffers(r) \/ ClientWithdraws(r)
                                  \/ ClientSeesAcceptance(r) \/ PushFails(r)
  BY <1>2, ShapeOutside
<1>3. CASE \E h \in Toggles : TapToggle(h) \/ ToggleHandler(h)
  BY <1>3, ShapeToggle
<1>4. CASE SwitchTab
  BY <1>4, ShapeSwitchTab
<1>5. CASE \/ \E r \in Requests, d \in Dialogs : ReceivePush(r, d)
           \/ \E d \in Dialogs : FetchFails(d) \/ DisposeDialog(d) \/ ReuseDialog(d)
  BY <1>5, ShapeDialog
<1>6. CASE \E d \in Dialogs : ShowOffer(d)
  BY <1>6, ShapeShow
<1>7. CASE \E d \in Dialogs : TapAccept(d)
  BY <1>7, ShapeAccept
<1>8. CASE LeaveTrip \/ \E d \in Dialogs : TapDecline(d)
  BY <1>8, ShapeLeave
<1>9. CASE \E d \in Dialogs : CheckAnswered(d)
  BY <1>9, ShapeAnswered
<1>10. CASE Crash
  BY <1>10, ShapeCrash
<1>11. QED
  BY <1>1, <1>2, <1>3, <1>4, <1>5, <1>6, <1>7, <1>8, <1>9, <1>10 DEF Next

\* Whatever fails and whatever is tapped in whatever order, the pages, the
\* dialogs, the operations under way and the counts of the Accept taps keep
\* their form: an answer finds its dialog, and no tap is counted twice.
THEOREM DispatchTypes == Spec => []TypeOK
<1>1. ShapeInv => TypeOK
  BY DEF ShapeInv
<1>2. QED
  BY ShapeInit, ShapeNext, <1>1, PTL DEF Spec

=============================================================================
