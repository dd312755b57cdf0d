---------------------------- MODULE Fares_proofs ----------------------------
(***************************************************************************)
(* What calculateFares guarantees for every trip, whichever totals the     *)
(* floats round down.                                                      *)
(***************************************************************************)
EXTENDS Fares, TLAPS

\* The total is a whole amount, within one of the exact total.
LEMMA TotalBounds ==
    ASSUME NEW t \in Trip
    PROVE  /\ Units(t) \in Nat
           /\ totalFareAmount(t) \in Nat
           /\ 15000 * totalFareAmount(t) <= Units(t)
           /\ Units(t) < 15000 * (totalFareAmount(t) + 1) \/ t \in RoundedDown
           /\ Units(t) <= 15000 * (totalFareAmount(t) + 1)
           /\ t \in RoundedDown => Units(t) = 15000 * (totalFareAmount(t) + 1)
<1> DEFINE u == Units(t)  q == u \div 15000
<1>1. u \in Nat
  BY DEF Trip, Units
<1> HIDE DEF u
<1>2. q \in Nat /\ 15000 * q <= u /\ u < 15000 * (q + 1)
  BY <1>1, SMT
<1>3. t \in RoundedDown => u = 15000 * q /\ q > 0
  BY <1>1, RoundedDownAssumption, SMT DEF Whole, u
<1> HIDE DEF q
<1>4. totalFareAmount(t) = IF t \in RoundedDown THEN q - 1 ELSE q
  BY DEF totalFareAmount, q, u
<1> QED
  BY <1>1, <1>2, <1>3, <1>4, SMT DEF u

\* A fare is never negative, for any ride type (calculateFares returns an int
\* that is written to the request and paid).
THEOREM FareNatural ==
    ASSUME NEW t \in Trip, NEW rideType
    PROVE  calculateFares(t, rideType) \in Nat
<1>1. totalFareAmount(t) \in Nat
  BY TotalBounds
<1> DEFINE q == totalFareAmount(t)
<1>2. 2 * q \in Nat /\ q \div 2 \in Nat
  BY <1>1, SMT
<1> QED
  BY <1>1, <1>2 DEF calculateFares

LEMMA TotalMonotone ==
    ASSUME NEW t \in Trip, NEW s \in Trip,
           t.time <= s.time, t.distance <= s.distance
    PROVE  totalFareAmount(t) <= totalFareAmount(s)
<1>1. t.time \in Nat /\ t.distance \in Nat /\ s.time \in Nat /\ s.distance \in Nat
  BY DEF Trip
<1>2. CASE t.time = s.time /\ t.distance = s.distance
  <2>1. t = s
    BY <1>2 DEF Trip
  <2> QED
    BY <2>1, TotalBounds, SMT
<1>3. CASE ~(t.time = s.time /\ t.distance = s.distance)
  <2>1. ASSUME NEW a \in Nat, NEW b \in Nat, NEW c \in Nat, NEW d \in Nat,
               a <= c, b <= d, a # c \/ b # d
        PROVE  50 * a + 3 * b + 1 <= 50 * c + 3 * d
    BY <2>1, SMT
  <2>2. Units(t) + 1 <= Units(s)
    BY <1>1, <1>3, <2>1 DEF Units
  <2> DEFINE q == totalFareAmount(t)  r == totalFareAmount(s)
             u == Units(t)            v == Units(s)
  <2>3. /\ q \in Nat /\ r \in Nat /\ u \in Nat /\ v \in Nat
        /\ 15000 * q <= u /\ v <= 15000 * (r + 1)
    BY TotalBounds
  <2> HIDE DEF q, r, u, v
  <2>4. u + 1 <= v
    BY <2>2 DEF u, v
  <2>5. q <= r
    BY <2>3, <2>4, SMT
  <2> QED
    BY <2>5 DEF q, r
<1> QED
  BY <1>2, <1>3

\* A trip that is longer and farther is never cheaper under the same ride type:
\* neither the truncation nor the rounding of the floats turns the order round.
THEOREM FareMonotone ==
    ASSUME NEW t \in Trip, NEW s \in Trip, NEW rideType,
           t.time <= s.time, t.distance <= s.distance
    PROVE  calculateFares(t, rideType) <= calculateFares(s, rideType)
<1> DEFINE q == totalFareAmount(t)  r == totalFareAmount(s)
<1>1. q \in Nat /\ r \in Nat /\ q <= r
  BY TotalBounds, TotalMonotone
<1> HIDE DEF q, r
<1>2. 2 * q <= 2 * r /\ q \div 2 <= r \div 2
  BY <1>1, SMT
<1> QED
  BY <1>1, <1>2 DEF calculateFares, q, r

LEMMA SplitTotal ==
    ASSUME NEW t \in Trip, NEW s \in Trip, NEW whole \in Trip,
           whole.time = t.time + s.time, whole.distance = t.distance + s.distance
    PROVE  /\ totalFareAmount(t) + totalFareAmount(s) <= totalFareAmount(whole) + 1
           /\ totalFareAmount(whole) <= totalFareAmount(t) + totalFareAmount(s) + 2
<1>1. Units(whole) = Units(t) + Units(s)
  BY SMT DEF Units, Trip
<1> DEFINE q == totalFareAmount(t)  r == totalFareAmount(s)  w == totalFareAmount(whole)
           u == Units(t)  v == Units(s)  x == Units(whole)
<1>2. /\ q \in Nat /\ r \in Nat /\ w \in Nat /\ u \in Nat /\ v \in Nat /\ x \in Nat
      /\ 15000 * q <= u /\ u <= 15000 * (q + 1)
      /\ 15000 * r <= v /\ v <= 15000 * (r + 1)
      /\ 15000 * w <= x /\ x <= 15000 * (w + 1)
  BY TotalBounds
<1>3. x = u + v
  BY <1>1
<1> HIDE DEF q, r, w, u, v, x
<1>4. q + r <= w + 1 /\ w <= q + r + 2
  BY <1>2, <1>3, SMT
<1> QED
  BY <1>4 DEF q, r, w

\* What a trip charged in two parts costs, against the same trip charged at once:
\* one more at most, when the floats round down the whole, and two less at most,
\* by what truncation takes from each part; for a "Rev-x" ride, whose truncated
\* total calculateFares doubles, twice that.
THEOREM SplitTrip ==
    ASSUME NEW t \in Trip, NEW s \in Trip, NEW whole \in Trip, NEW rideType,
           whole.time = t.time + s.time, whole.distance = t.distance + s.distance
    PROVE  LET parts == calculateFares(t, rideType) + calculateFares(s, rideType)
               once  == calculateFares(whole, rideType)
               unit  == IF rideType = "Rev-x" THEN 2 ELSE 1
           IN  parts <= once + unit /\ once <= parts + 2 * unit
<1> DEFINE q == totalFareAmount(t)  r == totalFareAmount(s)  w == totalFareAmount(whole)
<1>1. q \in Nat /\ r \in Nat /\ w \in Nat /\ q + r <= w + 1 /\ w <= q + r + 2
  BY TotalBounds, SplitTotal
<1> HIDE DEF q, r, w
<1>2. CASE rideType = "Rev-x"
  <2>1. 2 * q + 2 * r <= 2 * w + 2 /\ 2 * w <= 2 * q + 2 * r + 4
    BY <1>1, SMT
  <2> QED
    BY <1>2, <2>1 DEF calculateFares, q, r, w
<1>3. CASE rideType = "Rev-standard"
  <2>1. /\ (q \div 2) + (r \div 2) <= (w \div 2) + 1
        /\ w \div 2 <= (q \div 2) + (r \div 2) + 2
    BY <1>1, SMT
  <2> QED
    BY <1>3, <2>1 DEF calculateFares, q, r, w
<1>4. CASE rideType \notin {"Rev-x", "Rev-standard"}
  BY <1>1, <1>4 DEF calculateFares, q, r, w
<1> QED
  BY <1>2, <1>3, <1>4

\* How the ride types relate: a "Rev-x" ride costs twice an ordinary one, and
\* twice two "Rev-standard" rides cost it or one unit of truncation less.
THEOREM RideTypesRelated ==
    ASSUME NEW t \in Trip, NEW other, other \notin {"Rev-x", "Rev-standard"}
    PROVE  /\ calculateFares(t, "Rev-x") = 2 * calculateFares(t, other)
           /\ 2 * calculateFares(t, "Rev-standard") <= calculateFares(t, other)
           /\ calculateFares(t, other) <= 2 * calculateFares(t, "Rev-standard") + 1
<1> DEFINE q == totalFareAmount(t)
<1>1. q \in Nat
  BY TotalBounds
<1>2. /\ calculateFares(t, "Rev-x") = 2 * q
      /\ calculateFares(t, "Rev-standard") = q \div 2
      /\ calculateFares(t, other) = q
  BY DEF calculateFares
<1> HIDE DEF q
<1>3. 2 * (q \div 2) <= q /\ q <= 2 * (q \div 2) + 1
  BY <1>1, SMT
<1> QED
  BY <1>2, <1>3
=============================================================================
