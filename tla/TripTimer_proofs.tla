-------------------------- MODULE TripTimer_proofs ---------------------------
(***************************************************************************)
(* The timer of the delivery screen, for any set of handlers: a handler    *)
(* awaits one write at a time and writes are acknowledged in their order,  *)
(* so the handler that starts the timer comes to that before another one   *)
(* can look for a timer to cancel.  Then, for a rider with one handler at  *)
(* a time who never goes back: the trip screen is left through the fare    *)
(* dialog, its end is the last status, and no dialog of the last stage     *)
(* stays behind.                                                           *)
(***************************************************************************)
EXTENDS TripScreen_proofs

USE ChainsAssumption, BackPressesAssumption, FaultsAssumption

-----------------------------------------------------------------------------
(* Handlers and the writes they await                                      *)

AwaitsWrite(c) == chain[c] \in {"set_arrived", "set_returning", "set_at_gas_station",
                                "set_completed", "set_completed_again"}

\* Handlers with a write under way or applied are waiting for it, and for one.
OneWriteEach ==
    /\ \A i \in 1..Len(acks) : AwaitsWrite(acks[i])
    /\ \A i \in 1..Len(outbox) : outbox[i].by # NoChain => AwaitsWrite(outbox[i].by)
    /\ \A i, j \in 1..Len(acks) : acks[i] = acks[j] => i = j
    /\ \A i, j \in 1..Len(outbox) :
          outbox[i].by # NoChain /\ outbox[i].by = outbox[j].by => i = j
    /\ \A i \in 1..Len(acks), j \in 1..Len(outbox) : acks[i] # outbox[j].by

Ends(c) == chain[c] = "set_completed_again"
Starts(c) == chain[c] = "set_returning"

\* The write of the handler that will start the timer, applied or not, has none
\* of an end-trip branch before it.
AckedFirst(c) ==
    \E i \in 1..Len(acks) :
       acks[i] = c /\ \A j \in 1..Len(acks) : j < i => ~Ends(acks[j])

WrittenFirst(c) ==
    /\ \A j \in 1..Len(acks) : ~Ends(acks[j])
    /\ \E i \in 1..Len(outbox) :
          /\ outbox[i].by = c
          /\ \A j \in 1..Len(outbox) :
                j < i /\ outbox[j].by # NoChain => ~Ends(outbox[j].by)

TimerBeforeEnd == \A c \in Chains : Starts(c) => AckedFirst(c) \/ WrittenFirst(c)

NoStart == \A c \in Chains : ~Starts(c)

\* A trip is being ended, or has been.
Ending ==
    \/ \E c \in Chains : chain[c] = "end_directions"
    \/ \E i \in 1..Len(outbox) : outbox[i].what \in {"fares", "ended"}
    \/ request.stage = "ended"

OneTimer ==
    /\ liveTimers = IF timer THEN 1 ELSE 0
    /\ \A c, d \in Chains : Starts(c) /\ Starts(d) => c = d
    /\ status \in {"accepted", "arrived"} => liveTimers = 0 /\ NoStart
    /\ liveTimers = 0 \/ NoStart
    /\ (\E d \in Chains : chain[d] = "notify_completed") => NoStart
    /\ Ending => status = "completed" /\ liveTimers = 0 /\ NoStart

TimerInv == Inv /\ OneWriteEach /\ TimerBeforeEnd /\ OneTimer

-----------------------------------------------------------------------------
(* Steps                                                                   *)

LEMMA TimerInit == Init => TimerInv
<1> SUFFICES ASSUME Init PROVE TimerInv
  OBVIOUS
<1>1. Inv
  BY InvInit
<1>2. /\ Len(outbox) = 3 /\ Len(acks) = 0
      /\ \A i \in 1..3 : outbox[i].by = NoChain /\ outbox[i].what \notin {"fares", "ended"}
  BY DEF Init, acceptRideRequest
<1>3. request.stage = "requested" /\ \A c \in Chains : chain[c] = "idle"
  BY DEF Init, Lifecycle!NewRequest
<1>4. OneWriteEach /\ TimerBeforeEnd
  BY <1>2, <1>3 DEF OneWriteEach, TimerBeforeEnd, Starts
<1>5. OneTimer
  BY <1>2, <1>3 DEF Init, OneTimer, Ending, Starts, NoStart
<1>6. QED
  BY <1>1, <1>4, <1>5 DEF TimerInv

\* The handlers' own steps that issue no write and await none before or after.
Quiet(c) ==
    /\ ~AwaitsWrite(c)
    /\ \E w \in {"client_id", "token", "idle", "notify_arrived", "end_directions"} :
          chain' = [chain EXCEPT ![c] = w]
    /\ acks' = acks

LEMMA QuietHandler ==
    ASSUME NEW c \in Chains, Handler(c), ~TokenRead(c)
    PROVE  Quiet(c) /\ status' = status /\ request' = request
BY DEF Handler, Tap, ClientIdRead, ReadFails, DirectionsThrow, DirectionsNull, Directions,
   Directions2, NotifiedArrived, NotifiedAtGasStation, NotifyCompletedFails, EndTheTrip,
   FinishTrip, Quiet, Stops, AwaitsWrite, db, nav

LEMMA WriteIn ==
    ASSUME TypeInv, NEW i \in 1..Len(outbox)
    PROVE  outbox[i] \in Write
BY DEF TypeInv, TypeOK

LEMMA QuietOrder ==
    ASSUME TypeInv, OneWriteEach, TimerBeforeEnd, NEW c \in Chains, Quiet(c), outbox' = outbox
    PROVE  OneWriteEach' /\ TimerBeforeEnd'
<1>1. \A d \in Chains : d # c => chain'[d] = chain[d]
  BY DEF Quiet, TypeInv, TypeOK
<1>2. \A i \in 1..Len(acks) : acks[i] \in Chains /\ acks[i] # c
  BY DEF Quiet, OneWriteEach, TypeInv, TypeOK
<1>3. \A i \in 1..Len(outbox) :
         outbox[i].by # NoChain => outbox[i].by \in Chains /\ outbox[i].by # c
  <2>1. \A i \in 1..Len(outbox) : outbox[i].by \in Chains \cup {NoChain}
    BY WriteIn DEF Write
  <2>2. QED
    BY <2>1 DEF Quiet, OneWriteEach
<1>4. OneWriteEach'
  BY <1>1, <1>2, <1>3 DEF OneWriteEach, AwaitsWrite, Quiet
<1>5. \A d \in Chains : Starts(d)' => Starts(d) /\ d # c
  BY <1>1 DEF Starts, Quiet, TypeInv, TypeOK
<1>6. ASSUME NEW d \in Chains, AckedFirst(d) PROVE AckedFirst(d)'
  BY <1>6, <1>1, <1>2 DEF AckedFirst, Ends, Quiet
<1>7. ASSUME NEW d \in Chains, WrittenFirst(d) PROVE WrittenFirst(d)'
  BY <1>7, <1>1, <1>2, <1>3 DEF WrittenFirst, Ends, Quiet
<1>8. QED
  BY <1>4, <1>5, <1>6, <1>7 DEF TimerBeforeEnd

\* A handler enters a stage: its write is the last of all.
LEMMA EnterOrder ==
    ASSUME TypeInv, Pipeline, OneWriteEach, TimerBeforeEnd, OneTimer,
           NEW c \in Chains, TokenRead(c)
    PROVE  OneWriteEach' /\ TimerBeforeEnd'
<1>1. PICK w \in Write, t \in Waiting :
         /\ outbox' = Append(outbox, w) /\ w.by = c
         /\ chain' = [chain EXCEPT ![c] = t]
         /\ t \in {"set_arrived", "set_returning", "set_at_gas_station", "set_completed",
                   "set_completed_again"}
         /\ t = "set_returning" => status = "arrived"
  <2>1. ASSUME NEW from, NEW to \in LocalStatus, NEW t, Enter(c, from, to, t)
        PROVE  /\ outbox' = Append(outbox, [what |-> to, by |-> c])
               /\ [what |-> to, by |-> c] \in Write
               /\ chain' = [chain EXCEPT ![c] = t]
               /\ status = from
    BY <2>1 DEF Enter, Write
  <2>2. QED
    BY <2>1 DEF TokenRead, Branch, LocalStatus, Waiting
<1>2. acks' = acks /\ ~AwaitsWrite(c)
  BY DEF TokenRead, AwaitsWrite
<1>3. chain'[c] = t /\ \A d \in Chains : d # c => chain'[d] = chain[d]
  BY <1>1 DEF TypeInv, TypeOK
<1>4. \A i \in 1..Len(acks) : acks[i] \in Chains /\ acks[i] # c
  BY <1>2 DEF OneWriteEach, TypeInv, TypeOK
<1>5. \A i \in 1..Len(outbox) :
         outbox[i].by # NoChain => outbox[i].by \in Chains /\ outbox[i].by # c
  <2>1. \A i \in 1..Len(outbox) : outbox[i].by \in Chains \cup {NoChain}
    BY WriteIn DEF Write
  <2>2. QED
    BY <2>1, <1>2 DEF OneWriteEach
<1>6. /\ Len(outbox) \in Nat /\ Len(outbox') = Len(outbox) + 1
      /\ \A i \in 1..Len(outbox) : outbox'[i] = outbox[i]
      /\ outbox'[Len(outbox) + 1] = w
  BY <1>1, AppendProperties DEF TypeInv, TypeOK
<1>7. OneWriteEach'
  <2>1. \A i \in 1..Len(acks') : AwaitsWrite(acks[i])'
    BY <1>2, <1>3, <1>4 DEF OneWriteEach, AwaitsWrite
  <2>2. \A i \in 1..Len(outbox') : outbox'[i].by # NoChain => AwaitsWrite(outbox[i].by)'
    <3>1. AwaitsWrite(c)'
      BY <1>1, <1>3 DEF AwaitsWrite
    <3>2. \A d \in Chains : d # c /\ AwaitsWrite(d) => AwaitsWrite(d)'
      BY <1>3 DEF AwaitsWrite
    <3>3. \A i \in 1..Len(outbox) :
             outbox[i].by # NoChain => outbox[i].by \in Chains /\ AwaitsWrite(outbox[i].by)
      BY <1>5 DEF OneWriteEach
    <3>4. \A i \in 1..Len(outbox') : outbox'[i].by # c /\ outbox'[i].by # NoChain
             => outbox'[i].by \in Chains /\ outbox'[i].by # c /\ AwaitsWrite(outbox'[i].by)
      BY <3>3, <1>1, <1>6
    <3>5. \A i \in 1..Len(outbox') :
             outbox'[i].by # NoChain => chain'[outbox'[i].by] \in
                {"set_arrived", "set_returning", "set_at_gas_station", "set_completed",
                 "set_completed_again"}
      BY <3>1, <3>2, <3>4, <1>1, <1>3 DEF AwaitsWrite
    <3>6. QED
      BY <3>5 DEF AwaitsWrite
  <2>3. \A i, j \in 1..Len(outbox') :
           outbox'[i].by # NoChain /\ outbox'[i].by = outbox'[j].by => i = j
    BY <1>1, <1>5, <1>6 DEF OneWriteEach
  <2>4. \A i \in 1..Len(acks), j \in 1..Len(outbox') : acks[i] # outbox'[j].by
    BY <1>1, <1>4, <1>6 DEF OneWriteEach
  <2>5. QED
    BY <1>2, <2>1, <2>2, <2>3, <2>4 DEF OneWriteEach
<1>8. ASSUME NEW d \in Chains, d # c, Starts(d)
      PROVE  AckedFirst(d)' \/ WrittenFirst(d)'
  <2>1. AckedFirst(d) => AckedFirst(d)'
    BY <1>2, <1>3, <1>4 DEF AckedFirst, Ends
  <2>2. ASSUME WrittenFirst(d) PROVE WrittenFirst(d)'
    <3>1. \A j \in 1..Len(acks') : ~Ends(acks[j])'
      BY <2>2, <1>2, <1>3, <1>4 DEF WrittenFirst, Ends
    <3>2. PICK i \in 1..Len(outbox) :
             /\ outbox[i].by = d
             /\ \A j \in 1..Len(outbox) :
                   j < i /\ outbox[j].by # NoChain => ~Ends(outbox[j].by)
      BY <2>2 DEF WrittenFirst
    <3>3. i \in 1..Len(outbox') /\ outbox'[i].by = d
      BY <3>2, <1>6
    <3>4. ASSUME NEW j \in 1..Len(outbox'), j < i, outbox'[j].by # NoChain
          PROVE  ~Ends(outbox[j].by)'
      <4>1. j \in 1..Len(outbox) /\ outbox'[j] = outbox[j]
        BY <3>4, <3>2, <1>6
      <4>2. QED
        BY <4>1, <3>2, <3>4, <1>3, <1>5 DEF Ends
    <3>5. QED
      BY <3>1, <3>3, <3>4 DEF WrittenFirst
  <2>3. QED
    BY <1>8, <2>1, <2>2 DEF TimerBeforeEnd
<1>9. ASSUME Starts(c)' PROVE WrittenFirst(c)'
  <2>1. \A d \in Chains : ~Ends(d)
    BY <1>9, <1>1, <1>3 DEF Starts, Ends, Pipeline
  <2>2. \A d \in Chains : ~Ends(d)'
    BY <2>1, <1>9, <1>3 DEF Starts, Ends
  <2>3. outbox'[Len(outbox) + 1].by = c /\ Len(outbox) + 1 \in 1..Len(outbox')
    BY <1>1, <1>6
  <2>4. \A j \in 1..Len(outbox') : outbox'[j].by # NoChain => outbox'[j].by \in Chains
    BY <1>1, <1>5, <1>6
  <2>5. QED
    BY <2>2, <2>3, <2>4, <1>2, <1>4 DEF WrittenFirst
<1>10. \A d \in Chains : d # c => (Starts(d)' <=> Starts(d))
  BY <1>3 DEF Starts
<1>11. QED
  BY <1>7, <1>8, <1>9, <1>10 DEF TimerBeforeEnd

\* The writes of the fare are nobody's to await.
LEMMA FinishOrder ==
    ASSUME TypeInv, OneWriteEach, TimerBeforeEnd, NEW c \in Chains, Quiet(c),
           outbox' = outbox \o fareWrites
    PROVE  OneWriteEach' /\ TimerBeforeEnd'
<1>1. \A d \in Chains : d # c => chain'[d] = chain[d]
  BY DEF Quiet, TypeInv, TypeOK
<1>2. \A i \in 1..Len(acks) : acks[i] \in Chains /\ acks[i] # c
  BY DEF Quiet, OneWriteEach, TypeInv, TypeOK
<1>3. \A i \in 1..Len(outbox) :
         outbox[i].by # NoChain => outbox[i].by \in Chains /\ outbox[i].by # c
  <2>1. \A i \in 1..Len(outbox) : outbox[i].by \in Chains \cup {NoChain}
    BY WriteIn DEF Write
  <2>2. QED
    BY <2>1 DEF Quiet, OneWriteEach
<1>4. /\ Len(outbox) \in Nat /\ Len(outbox') = Len(outbox) + 2
      /\ \A i \in 1..Len(outbox) : outbox'[i] = outbox[i]
      /\ \A i \in 1..Len(outbox') : i \notin 1..Len(outbox) => outbox'[i].by = NoChain
  <2>1. fareWrites \in Seq(Write) /\ Len(fareWrites) = 2
        /\ \A i \in 1..2 : fareWrites[i].by = NoChain
    BY DEF fareWrites, Write, LocalStatus
  <2>2. outbox \in Seq(Write)
    BY DEF TypeInv, TypeOK
  <2>3. /\ Len(outbox \o fareWrites) = Len(outbox) + Len(fareWrites)
        /\ \A i \in 1..(Len(outbox) + Len(fareWrites)) :
              (outbox \o fareWrites)[i] =
                 IF i <= Len(outbox) THEN outbox[i] ELSE fareWrites[i - Len(outbox)]
    BY <2>1, <2>2, ConcatProperties
  <2>4. QED
    BY <2>1, <2>2, <2>3
<1>5. OneWriteEach'
  <2>1. \A i \in 1..Len(acks') : AwaitsWrite(acks[i])'
    BY <1>1, <1>2 DEF OneWriteEach, AwaitsWrite, Quiet
  <2>2. \A i \in 1..Len(outbox') : outbox'[i].by # NoChain => AwaitsWrite(outbox[i].by)'
    <3>1. ASSUME NEW i \in 1..Len(outbox'), outbox'[i].by # NoChain
          PROVE  chain'[outbox'[i].by] = chain[outbox[i].by] /\ AwaitsWrite(outbox[i].by)
      BY <3>1, <1>1, <1>3, <1>4 DEF OneWriteEach
    <3>2. QED
      BY <3>1 DEF AwaitsWrite
  <2>3. \A i, j \in 1..Len(outbox') :
           outbox'[i].by # NoChain /\ outbox'[i].by = outbox'[j].by => i = j
    BY <1>3, <1>4 DEF OneWriteEach
  <2>4. \A i \in 1..Len(acks), j \in 1..Len(outbox') : acks[i] # outbox'[j].by
    BY <1>2, <1>4 DEF OneWriteEach
  <2>5. QED
    BY <2>1, <2>2, <2>3, <2>4 DEF OneWriteEach, Quiet
<1>6. \A d \in Chains : Starts(d)' => Starts(d) /\ d # c
  BY <1>1 DEF Starts, Quiet, TypeInv, TypeOK
<1>7. ASSUME NEW d \in Chains, AckedFirst(d) PROVE AckedFirst(d)'
  BY <1>7, <1>1, <1>2 DEF AckedFirst, Ends, Quiet
<1>8. ASSUME NEW d \in Chains, WrittenFirst(d) PROVE WrittenFirst(d)'
  <2>1. \A j \in 1..Len(acks') : ~Ends(acks[j])'
    BY <1>8, <1>1, <1>2 DEF WrittenFirst, Ends, Quiet
  <2>2. PICK i \in 1..Len(outbox) :
           /\ outbox[i].by = d
           /\ \A j \in 1..Len(outbox) :
                 j < i /\ outbox[j].by # NoChain => ~Ends(outbox[j].by)
    BY <1>8 DEF WrittenFirst
  <2>3. i \in 1..Len(outbox') /\ outbox'[i].by = d
    BY <2>2, <1>4
  <2>4. \A j \in 1..Len(outbox') : j < i /\ outbox'[j].by # NoChain => ~Ends(outbox[j].by)'
    BY <2>2, <1>1, <1>3, <1>4 DEF Ends
  <2>5. QED
    BY <2>1, <2>3, <2>4 DEF WrittenFirst
<1>9. QED
  BY <1>5, <1>6, <1>7, <1>8 DEF TimerBeforeEnd

\* A write moves from one queue to the end of the other.
LEMMA ApplyOrder ==
    ASSUME TypeInv, OneWriteEach, TimerBeforeEnd, Apply
    PROVE  OneWriteEach' /\ TimerBeforeEnd'
<1> DEFINE w == Head(outbox)
<1>1. /\ Len(outbox) \in Nat \ {0} /\ w = outbox[1] /\ w \in Write
      /\ Len(outbox') = Len(outbox) - 1
      /\ \A i \in 1..Len(outbox') : i + 1 \in 1..Len(outbox) /\ outbox'[i] = outbox[i + 1]
  BY HeadTailProperties, WriteIn DEF Apply, TypeInv, TypeOK
<1>2. chain' = chain
  BY DEF Apply, screen
<1>3. CASE w.by = NoChain
  <2>1. acks' = acks
    BY <1>3 DEF Apply
  <2>2. OneWriteEach'
    <3>1. \A i \in 1..Len(acks') : AwaitsWrite(acks[i])'
      BY <1>2, <2>1 DEF OneWriteEach, AwaitsWrite
    <3>2. \A i \in 1..Len(outbox') : outbox'[i].by # NoChain => AwaitsWrite(outbox[i].by)'
      BY <1>1, <1>2 DEF OneWriteEach, AwaitsWrite
    <3>3. \A i, j \in 1..Len(outbox') :
             outbox'[i].by # NoChain /\ outbox'[i].by = outbox'[j].by => i = j
      <4>1. SUFFICES ASSUME NEW i \in 1..Len(outbox'), NEW j \in 1..Len(outbox'),
                            outbox'[i].by # NoChain, outbox'[i].by = outbox'[j].by
                     PROVE  i = j
        OBVIOUS
      <4>2. /\ i + 1 \in 1..Len(outbox) /\ outbox[i + 1].by # NoChain
            /\ j + 1 \in 1..Len(outbox) /\ outbox[i + 1].by = outbox[j + 1].by
        BY <1>1, <4>1
      <4>3. i + 1 = j + 1
        BY <4>2 DEF OneWriteEach
      <4>4. QED
        BY <4>3
    <3>4. \A i \in 1..Len(acks'), j \in 1..Len(outbox') : acks'[i] # outbox'[j].by
      BY <1>1, <2>1 DEF OneWriteEach
    <3>5. QED
      BY <2>1, <3>1, <3>2, <3>3, <3>4 DEF OneWriteEach
  <2>3. ASSUME NEW c \in Chains, WrittenFirst(c) PROVE WrittenFirst(c)'
    <3>1. PICK i \in 1..Len(outbox) :
             /\ outbox[i].by = c
             /\ \A j \in 1..Len(outbox) :
                   j < i /\ outbox[j].by # NoChain => ~Ends(outbox[j].by)
      BY <2>3 DEF WrittenFirst
    <3>2. i - 1 \in 1..Len(outbox') /\ outbox'[i - 1] = outbox[i]
      BY <3>1, <1>1, <1>3
    <3>3. \A j \in 1..Len(outbox') :
             j < i - 1 /\ outbox'[j].by # NoChain => ~Ends(outbox[j].by)'
      BY <3>1, <1>1, <1>2 DEF Ends
    <3>4. \A j \in 1..Len(acks') : ~Ends(acks[j])'
      BY <2>1, <2>3, <1>2 DEF WrittenFirst, Ends
    <3>5. QED
      BY <3>1, <3>2, <3>3, <3>4 DEF WrittenFirst
  <2>4. \A c \in Chains : AckedFirst(c) => AckedFirst(c)'
    BY <2>1, <1>2 DEF AckedFirst, Ends
  <2>5. QED
    BY <2>2, <2>3, <2>4, <1>2 DEF TimerBeforeEnd, Starts
<1>4. CASE w.by # NoChain
  <2>1. /\ Len(acks) \in Nat /\ Len(acks') = Len(acks) + 1
        /\ \A i \in 1..Len(acks) : acks'[i] = acks[i]
        /\ acks'[Len(acks) + 1] = w.by
        /\ w.by \in Chains
    <3>1. w.by \in Chains
      BY <1>1, <1>4 DEF Write
    <3>2. acks' = Append(acks, w.by)
      BY <1>4 DEF Apply
    <3>3. QED
      BY <3>1, <3>2, AppendProperties DEF TypeInv, TypeOK
  <2>2. OneWriteEach'
    <3>1. \A i \in 1..Len(acks') : AwaitsWrite(acks[i])'
      BY <1>1, <1>2, <1>4, <2>1 DEF OneWriteEach, AwaitsWrite
    <3>2. \A i \in 1..Len(outbox') : outbox'[i].by # NoChain => AwaitsWrite(outbox[i].by)'
      BY <1>1, <1>2 DEF OneWriteEach, AwaitsWrite
    <3>3. \A i, j \in 1..Len(acks') : acks'[i] = acks'[j] => i = j
      BY <1>1, <2>1 DEF OneWriteEach
    <3>4. \A i, j \in 1..Len(outbox') :
             outbox'[i].by # NoChain /\ outbox'[i].by = outbox'[j].by => i = j
      <4>1. SUFFICES ASSUME NEW i \in 1..Len(outbox'), NEW j \in 1..Len(outbox'),
                            outbox'[i].by # NoChain, outbox'[i].by = outbox'[j].by
                     PROVE  i = j
        OBVIOUS
      <4>2. /\ i + 1 \in 1..Len(outbox) /\ outbox[i + 1].by # NoChain
            /\ j + 1 \in 1..Len(outbox) /\ outbox[i + 1].by = outbox[j + 1].by
        BY <1>1, <4>1
      <4>3. i + 1 = j + 1
        BY <4>2 DEF OneWriteEach
      <4>4. QED
        BY <4>3
    <3>5. \A i \in 1..Len(acks'), j \in 1..Len(outbox') : acks'[i] # outbox'[j].by
      BY <1>1, <1>4, <2>1 DEF OneWriteEach
    <3>6. QED
      BY <3>1, <3>2, <3>3, <3>4, <3>5 DEF OneWriteEach
  <2>3. ASSUME NEW c \in Chains, AckedFirst(c) PROVE AckedFirst(c)'
    <3>1. PICK i \in 1..Len(acks) :
             acks[i] = c /\ \A j \in 1..Len(acks) : j < i => ~Ends(acks[j])
      BY <2>3 DEF AckedFirst
    <3>2. \A j \in 1..Len(acks') : j < i => ~Ends(acks[j])'
      BY <3>1, <2>1, <1>2 DEF Ends
    <3>3. QED
      BY <3>1, <3>2, <2>1 DEF AckedFirst
  <2>4. ASSUME NEW c \in Chains, Starts(c), WrittenFirst(c)
        PROVE  AckedFirst(c)' \/ WrittenFirst(c)'
    <3>1. PICK i \in 1..Len(outbox) :
             /\ outbox[i].by = c
             /\ \A j \in 1..Len(outbox) :
                   j < i /\ outbox[j].by # NoChain => ~Ends(outbox[j].by)
      BY <2>4 DEF WrittenFirst
    <3>2. CASE i = 1
      <4>1. acks'[Len(acks) + 1] = c /\ Len(acks) + 1 \in 1..Len(acks')
        BY <3>1, <3>2, <1>1, <2>1
      <4>2. \A j \in 1..Len(acks') : j < Len(acks) + 1 => ~Ends(acks[j])'
        BY <2>4, <2>1, <1>2 DEF WrittenFirst, Ends
      <4>3. QED
        BY <4>1, <4>2 DEF AckedFirst
    <3>3. CASE i > 1
      <4>1. i - 1 \in 1..Len(outbox') /\ outbox'[i - 1] = outbox[i]
        BY <3>1, <3>3, <1>1
      <4>2. \A j \in 1..Len(outbox') :
               j < i - 1 /\ outbox'[j].by # NoChain => ~Ends(outbox[j].by)'
        BY <3>1, <1>1, <1>2 DEF Ends
      <4>3. ~Ends(w.by)
        BY <3>1, <3>3, <1>1, <1>4
      <4>4. \A j \in 1..Len(acks') : ~Ends(acks[j])'
        BY <4>3, <2>4, <2>1, <1>2 DEF WrittenFirst, Ends
      <4>5. QED
        BY <3>1, <4>1, <4>2, <4>4 DEF WrittenFirst
    <3>4. QED
      BY <3>2, <3>3
  <2>5. QED
    BY <2>2, <2>3, <2>4, <1>2 DEF TimerBeforeEnd, Starts
<1>5. QED
  BY <1>3, <1>4

\* The handler acknowledged leaves the queue and awaits no write any more.
LEMMA AckOrder ==
    ASSUME TypeInv, OneWriteEach, TimerBeforeEnd, Ack
    PROVE  OneWriteEach' /\ TimerBeforeEnd'
<1> DEFINE c == Head(acks)
<1>1. /\ Len(acks) \in Nat \ {0} /\ c = acks[1] /\ c \in Chains
      /\ Len(acks') = Len(acks) - 1
      /\ \A i \in 1..Len(acks') : i + 1 \in 1..Len(acks) /\ acks'[i] = acks[i + 1]
  BY HeadTailProperties DEF Ack, TypeInv, TypeOK
<1>2. outbox' = outbox
  BY DEF Ack
<1>3. \E w \in {"idle", "directions", "notify_at_gas_station", "directions2",
                "notify_completed"} :
         chain' = [chain EXCEPT ![c] = w]
  BY DEF Ack, AfterArrived, AfterReturning, AfterAtGasStation, AfterCompleted,
     AfterCompletedAgain, Stops
<1>4. /\ chain'[c] \notin {"set_returning", "set_completed_again"}
      /\ \A d \in Chains : d # c => chain'[d] = chain[d]
  BY <1>1, <1>3 DEF TypeInv, TypeOK
<1>5. \A i \in 1..Len(acks') : acks'[i] \in Chains /\ acks'[i] # c
  <2>1. \A i \in 1..Len(acks) : acks[i] \in Chains
    BY DEF TypeInv, TypeOK
  <2>2. QED
    BY <2>1, <1>1 DEF OneWriteEach
<1>6. \A i \in 1..Len(outbox) : outbox[i].by # NoChain =>
         outbox[i].by \in Chains /\ outbox[i].by # c
  <2>1. \A i \in 1..Len(outbox) : outbox[i].by \in Chains \cup {NoChain}
    BY WriteIn DEF Write
  <2>2. QED
    BY <2>1, <1>1 DEF OneWriteEach
<1>7. OneWriteEach'
  <2>1. \A i \in 1..Len(acks') : AwaitsWrite(acks[i])'
    BY <1>1, <1>4, <1>5 DEF OneWriteEach, AwaitsWrite
  <2>2. \A i \in 1..Len(outbox') : outbox'[i].by # NoChain => AwaitsWrite(outbox[i].by)'
    BY <1>2, <1>4, <1>6 DEF OneWriteEach, AwaitsWrite
  <2>3. \A i, j \in 1..Len(acks') : acks'[i] = acks'[j] => i = j
    <3>1. SUFFICES ASSUME NEW i \in 1..Len(acks'), NEW j \in 1..Len(acks'),
                          acks'[i] = acks'[j]
                   PROVE  i = j
      OBVIOUS
    <3>2. i + 1 \in 1..Len(acks) /\ j + 1 \in 1..Len(acks) /\ acks[i + 1] = acks[j + 1]
      BY <1>1, <3>1
    <3>3. i + 1 = j + 1
      BY <3>2 DEF OneWriteEach
    <3>4. QED
      BY <3>3
  <2>4. \A i \in 1..Len(acks'), j \in 1..Len(outbox') : acks'[i] # outbox'[j].by
    BY <1>1, <1>2 DEF OneWriteEach
  <2>5. QED
    BY <1>2, <2>1, <2>2, <2>3, <2>4 DEF OneWriteEach
<1>8. ASSUME NEW d \in Chains, d # c, AckedFirst(d) PROVE AckedFirst(d)'
  <2>1. PICK i \in 1..Len(acks) :
           acks[i] = d /\ \A j \in 1..Len(acks) : j < i => ~Ends(acks[j])
    BY <1>8 DEF AckedFirst
  <2>2. i - 1 \in 1..Len(acks') /\ acks'[i - 1] = d
    BY <2>1, <1>1, <1>8
  <2>3. \A j \in 1..Len(acks') : j < i - 1 => ~Ends(acks[j])'
    BY <2>1, <1>1, <1>4, <1>5 DEF Ends
  <2>4. QED
    BY <2>2, <2>3 DEF AckedFirst
<1>9. ASSUME NEW d \in Chains, WrittenFirst(d) PROVE WrittenFirst(d)'
  <2>1. \A j \in 1..Len(acks') : ~Ends(acks[j])'
    BY <1>9, <1>1, <1>4, <1>5 DEF WrittenFirst, Ends
  <2>2. \A j \in 1..Len(outbox) : outbox[j].by # NoChain =>
           chain'[outbox[j].by] = chain[outbox[j].by]
    BY <1>4, <1>6
  <2>3. QED
    BY <1>9, <1>2, <2>1, <2>2 DEF WrittenFirst, Ends
<1>10. \A d \in Chains : Starts(d)' => Starts(d) /\ d # c
  BY <1>4 DEF Starts
<1>11. QED
  BY <1>7, <1>8, <1>9, <1>10 DEF TimerBeforeEnd

\* When an end-trip branch is acknowledged, no handler is left that could start
\* the timer.
LEMMA NothingToStart ==
    ASSUME TypeInv, OneWriteEach, TimerBeforeEnd, Ack, AfterCompletedAgain(Head(acks))
    PROVE  NoStart
<1>1. 1 \in 1..Len(acks) /\ Head(acks) = acks[1] /\ Ends(acks[1])
  BY HeadTailProperties DEF Ack, AfterCompletedAgain, Ends, TypeInv, TypeOK
<1>2. SUFFICES ASSUME NEW c \in Chains, Starts(c) PROVE FALSE
  BY DEF NoStart
<1>3. ~WrittenFirst(c)
  BY <1>1 DEF WrittenFirst
<1>4. PICK i \in 1..Len(acks) :
         acks[i] = c /\ \A j \in 1..Len(acks) : j < i => ~Ends(acks[j])
  BY <1>2, <1>3 DEF TimerBeforeEnd, AckedFirst
<1>5. i = 1
  BY <1>1, <1>4
<1>6. QED
  BY <1>1, <1>2, <1>4, <1>5 DEF Starts, Ends

LEMMA OrderNext ==
    ASSUME TimerInv, [Next]_vars
    PROVE  OneWriteEach' /\ TimerBeforeEnd'
<1> USE DEF TimerInv, Inv, screen, stream, effects, db, nav
<1>1. ASSUME NEW c \in Chains, Handler(c) PROVE OneWriteEach' /\ TimerBeforeEnd'
  <2>1. CASE TokenRead(c)
    BY <2>1, EnterOrder
  <2>2. CASE ~TokenRead(c) /\ ~FinishTrip(c)
    <3>1. outbox' = outbox
      BY <1>1, <2>2 DEF Handler, Tap, ClientIdRead, ReadFails, DirectionsThrow, DirectionsNull,
         Directions, Directions2, NotifiedArrived, NotifiedAtGasStation, NotifyCompletedFails,
         EndTheTrip
    <3>2. QED
      BY <1>1, <2>2, <3>1, QuietHandler, QuietOrder
  <2>3. CASE FinishTrip(c)
    <3>1. Quiet(c)
      BY <2>3 DEF FinishTrip, Quiet, Stops, AwaitsWrite
    <3>2. outbox' = outbox \/ outbox' = outbox \o fareWrites
      BY <2>3 DEF FinishTrip
    <3>3. QED
      BY <3>1, <3>2, QuietOrder, FinishOrder
  <2>4. QED
    BY <2>1, <2>2, <2>3
<1>2. CASE Crash
  <2>1. Len(outbox') = 0 /\ Len(acks') = 0 /\ \A c \in Chains : chain'[c] = "idle"
    BY <1>2 DEF Crash
  <2>2. QED
    BY <2>1 DEF OneWriteEach, TimerBeforeEnd, Starts
<1>3. ClientCancels \/ MapCreated \/ MapDirections \/ MapDirectionsFail \/ IconLoaded
      \/ PositionEvent \/ EtaAnswer \/ Back \/ Done \/ Dispose \/ UNCHANGED vars
      => chain' = chain /\ outbox' = outbox /\ acks' = acks
  BY DEF ClientCancels, MapCreated, MapDirections, MapDirectionsFail, IconLoaded,
     PositionEvent, EtaAnswer, Back, Done, Dispose, vars
<1>4. chain' = chain /\ outbox' = outbox /\ acks' = acks => OneWriteEach' /\ TimerBeforeEnd'
  BY DEF OneWriteEach, TimerBeforeEnd, AwaitsWrite, Starts, Ends, AckedFirst, WrittenFirst
<1>5. QED
  BY <1>1, <1>2, <1>3, <1>4, ApplyOrder, AckOrder DEF Next

-----------------------------------------------------------------------------
(* The timer                                                               *)

\* Steps that touch no timer and no stage, and let no handler come nearer to the
\* start of the timer or to the end of the trip.
LEMMA TimerFrame ==
    ASSUME OneTimer, liveTimers' = liveTimers, timer' = timer, status' = status,
           \A d \in Chains : Starts(d)' => Starts(d),
           \A d \in Chains : chain'[d] = "notify_completed" =>
              NoStart \/ chain[d] = "notify_completed",
           Ending' => Ending
    PROVE  OneTimer'
BY DEF OneTimer, NoStart

LEMMA TimerEnter ==
    ASSUME TypeInv, Pipeline, OneTimer, NEW c \in Chains, TokenRead(c)
    PROVE  OneTimer'
<1>1. PICK w \in LocalStatus, t \in Waiting :
         /\ outbox' = Append(outbox, [what |-> w, by |-> c]) /\ w \notin {"fares", "ended"}
         /\ chain' = [chain EXCEPT ![c] = t] /\ status' = w
         /\ t \notin {"notify_completed", "end_directions"}
         /\ t = "set_returning" => status = "arrived"
         /\ w \in {"accepted", "arrived"} => status = "accepted" /\ t # "set_returning"
         /\ status = "completed" => w = "completed"
  BY DEF TokenRead, Branch, Enter, LocalStatus, Waiting
<1>2. chain'[c] = t /\ \A d \in Chains : d # c => chain'[d] = chain[d]
  BY <1>1 DEF TypeInv, TypeOK
<1>3. liveTimers' = liveTimers /\ timer' = timer /\ request' = request
  BY DEF TokenRead, effects
<1>4. Ending' => Ending
  <2>1. /\ Len(outbox) \in Nat /\ Len(outbox') = Len(outbox) + 1
        /\ \A i \in 1..Len(outbox) : outbox'[i] = outbox[i]
        /\ outbox'[Len(outbox) + 1].what = w
    BY <1>1, AppendProperties DEF TypeInv, TypeOK, Write
  <2>2. \A i \in 1..Len(outbox') : outbox'[i].what \in {"fares", "ended"} =>
           i \in 1..Len(outbox) /\ outbox[i].what \in {"fares", "ended"}
    BY <1>1, <2>1
  <2>3. QED
    BY <1>1, <1>2, <1>3, <2>2 DEF Ending
<1>5. CASE t # "set_returning"
  <2>1. \A d \in Chains : Starts(d)' => Starts(d)
    BY <1>2, <1>5 DEF Starts
  <2>2. QED
    BY <1>1, <1>2, <1>3, <1>4, <2>1 DEF OneTimer, NoStart
<1>6. CASE t = "set_returning"
  <2>1. status = "arrived" /\ status' \notin {"accepted", "arrived"} /\ ~Ending
    BY <1>1, <1>6 DEF OneTimer
  <2>2. liveTimers = 0 /\ NoStart
    BY <2>1 DEF OneTimer
  <2>3. \A d \in Chains : Starts(d)' => d = c
    BY <1>2, <2>2 DEF NoStart, Starts
  <2>4. \A d \in Chains : chain'[d] # "notify_completed"
    BY <1>1, <1>2, <2>1 DEF Pipeline
  <2>5. QED
    BY <1>3, <1>4, <2>1, <2>2, <2>3, <2>4 DEF OneTimer, NoStart
<1>7. QED
  BY <1>5, <1>6

\* The end of the trip cancels the timer, which no handler starts any more.
LEMMA TimerEnd ==
    ASSUME TypeInv, Pipeline, OneTimer, NEW c \in Chains, EndTheTrip(c)
    PROVE  OneTimer'
<1>1. NoStart /\ status = "completed" /\ status' = status
  BY DEF EndTheTrip, OneTimer, Pipeline
<1>2. PICK w \in {"idle", "end_directions"} :
         /\ chain' = [chain EXCEPT ![c] = w]
         /\ w = "end_directions" => cancelTimer
  BY DEF EndTheTrip, Stops
<1>3. \A d \in Chains : chain'[d] \in {chain[d], "idle"} \/ (d = c /\ chain'[d] = w)
  BY <1>2 DEF TypeInv, TypeOK
<1>4. NoStart'
  BY <1>1, <1>2, <1>3 DEF NoStart, Starts
<1>5. outbox' = outbox /\ request' = request
  BY DEF EndTheTrip, db
<1>6. CASE cancelTimer
  <2>1. liveTimers' = 0 /\ timer' = FALSE
    BY <1>6 DEF cancelTimer, OneTimer
  <2>2. QED
    BY <1>1, <1>4, <2>1 DEF OneTimer, NoStart
<1>7. CASE ~cancelTimer
  <2>1. liveTimers' = liveTimers /\ timer' = timer
    BY <1>7 DEF EndTheTrip
  <2>2. \A d \in Chains : chain'[d] = "end_directions" => chain[d] = "end_directions"
    BY <1>2, <1>3, <1>7
  <2>3. Ending' => Ending
    BY <1>5, <2>2 DEF Ending
  <2>4. QED
    BY <1>1, <1>4, <2>1, <2>3 DEF OneTimer, NoStart
<1>8. QED
  BY <1>6, <1>7

LEMMA TimerHandler ==
    ASSUME TypeInv, Pipeline, OneTimer, NEW c \in Chains, Handler(c)
    PROVE  OneTimer'
<1>1. CASE TokenRead(c)
  BY <1>1, TimerEnter
<1>2. CASE EndTheTrip(c)
  BY <1>2, TimerEnd
<1>3. CASE ~TokenRead(c) /\ ~EndTheTrip(c)
  <2>1. liveTimers' = liveTimers /\ timer' = timer /\ status' = status /\ request' = request
    BY <1>3 DEF Handler, Tap, ClientIdRead, ReadFails, DirectionsThrow, DirectionsNull,
       Directions, Directions2, NotifiedArrived, NotifiedAtGasStation, NotifyCompletedFails,
       FinishTrip, effects, db
  <2>2. \E w \in {"client_id", "token", "idle", "notify_arrived"} :
           chain' = [chain EXCEPT ![c] = w]
    BY <1>3 DEF Handler, Tap, ClientIdRead, ReadFails, DirectionsThrow, DirectionsNull,
       Directions, Directions2, NotifiedArrived, NotifiedAtGasStation, NotifyCompletedFails,
       FinishTrip, Stops
  <2>3. \A d \in Chains :
           chain'[d] \in {"set_returning", "notify_completed", "end_directions"}
              => chain'[d] = chain[d]
    BY <2>2 DEF TypeInv, TypeOK
  <2>4. Ending' => Ending
    <3>1. CASE FinishTrip(c)
      BY <3>1 DEF FinishTrip, Ending
    <3>2. CASE ~FinishTrip(c)
      <4>1. outbox' = outbox
        BY <1>3, <3>2 DEF Handler, Tap, ClientIdRead, ReadFails, DirectionsThrow,
           DirectionsNull, Directions, Directions2, NotifiedArrived, NotifiedAtGasStation,
           NotifyCompletedFails, db
      <4>2. QED
        BY <4>1, <2>1, <2>3 DEF Ending
    <3>3. QED
      BY <3>1, <3>2
  <2>5. QED
    BY <2>1, <2>3, <2>4, TimerFrame DEF Starts
<1>4. QED
  BY <1>1, <1>2, <1>3

\* Only the handler of the returning stage starts a timer, and only once.
LEMMA TimerAck ==
    ASSUME TypeInv, OneWriteEach, TimerBeforeEnd, OneTimer, Ack
    PROVE  OneTimer'
<1> DEFINE c == Head(acks)
<1>1. c \in Chains
  BY HeadTailProperties DEF Ack, TypeInv, TypeOK
<1>2. status' = status /\ request' = request /\ outbox' = outbox
  BY DEF Ack
<1>3. PICK w \in {"idle", "directions", "notify_at_gas_station", "directions2",
                  "notify_completed"} :
         /\ chain' = [chain EXCEPT ![c] = w]
         /\ w = "notify_completed" => AfterCompletedAgain(c)
  BY DEF Ack, AfterArrived, AfterReturning, AfterAtGasStation, AfterCompleted,
     AfterCompletedAgain, Stops
<1>4. chain'[c] = w /\ \A d \in Chains : d # c => chain'[d] = chain[d]
  BY <1>1, <1>3 DEF TypeInv, TypeOK
<1>5. Ending' => Ending
  BY <1>2, <1>3, <1>4 DEF Ending
<1>6. CASE liveTimers' = liveTimers /\ timer' = timer
  <2>1. \A d \in Chains : Starts(d)' => Starts(d)
    BY <1>3, <1>4 DEF Starts
  <2>2. w = "notify_completed" => NoStart
    BY <1>3, NothingToStart
  <2>3. \A d \in Chains : chain'[d] = "notify_completed" =>
           NoStart \/ chain[d] = "notify_completed"
    BY <1>4, <2>2
  <2>4. QED
    BY <1>2, <1>5, <1>6, <2>1, <2>3, TimerFrame
<1>7. CASE ~(liveTimers' = liveTimers /\ timer' = timer)
  <2>1. Starts(c) /\ initTimer /\ w = "idle"
    BY <1>3, <1>4, <1>7, <1>1 DEF Ack, AfterArrived, AfterReturning, AfterAtGasStation,
       AfterCompleted, AfterCompletedAgain, Stops, Starts, TypeInv, TypeOK
  <2>2. liveTimers = 0 /\ status \notin {"accepted", "arrived"} /\ ~Ending
    BY <1>1, <2>1 DEF OneTimer, NoStart
  <2>3. NoStart'
    <3>1. \A d \in Chains : d # c => ~Starts(d)
      BY <1>1, <2>1 DEF OneTimer
    <3>2. QED
      BY <1>4, <2>1, <3>1 DEF NoStart, Starts
  <2>4. liveTimers' = 1 /\ timer' = TRUE
    BY <2>1, <2>2 DEF initTimer
  <2>5. QED
    BY <1>2, <1>5, <2>2, <2>3, <2>4 DEF OneTimer, NoStart
<1>8. QED
  BY <1>6, <1>7

LEMMA TimerApply ==
    ASSUME TypeInv, OneTimer, Apply
    PROVE  OneTimer'
<1>1. /\ Head(outbox) = outbox[1] /\ 1 \in 1..Len(outbox) /\ Head(outbox) \in Write
      /\ \A i \in 1..Len(outbox') : i + 1 \in 1..Len(outbox) /\ outbox'[i] = outbox[i + 1]
  BY HeadTailProperties, WriteIn DEF Apply, TypeInv, TypeOK
<1>2. chain' = chain /\ status' = status /\ timer' = timer /\ liveTimers' = liveTimers
  BY DEF Apply, screen, effects
<1>3. request'.stage \in {request.stage, Head(outbox).what}
  BY <1>1 DEF Apply, Applied, TypeInv, TypeOK, Lifecycle!Request
<1>4. Ending' => Ending
  BY <1>1, <1>2, <1>3 DEF Ending
<1>5. QED
  BY <1>2, <1>4, TimerFrame DEF Starts

LEMMA TimerNext == TimerInv /\ [Next]_vars => TimerInv'
<1> SUFFICES ASSUME TimerInv, [Next]_vars PROVE TimerInv'
  OBVIOUS
<1>1. Inv' /\ OneWriteEach' /\ TimerBeforeEnd'
  BY InvNext, OrderNext DEF TimerInv
<1> USE DEF TimerInv, Inv, screen, stream, effects, db, nav
<1>2. OneTimer'
  <2>1. ASSUME NEW c \in Chains, Handler(c) PROVE OneTimer'
    BY <2>1, TimerHandler
  <2>2. CASE Crash
    <3>1. Len(outbox') = 0 /\ \A c \in Chains : chain'[c] = "idle"
      BY <2>2 DEF Crash
    <3>2. Ending' => Ending
      BY <2>2, <3>1 DEF Ending, Crash
    <3>3. liveTimers' = 0 /\ timer' = FALSE /\ status' = status
      BY <2>2 DEF Crash
    <3>4. QED
      BY <3>1, <3>2, <3>3 DEF OneTimer, NoStart, Starts
  <2>3. CASE ClientCancels
    <3>1. request'.stage = request.stage
      BY <2>3 DEF ClientCancels, TypeInv, TypeOK, Lifecycle!Request
    <3>2. Ending' => Ending
      BY <2>3, <3>1 DEF Ending, ClientCancels
    <3>3. QED
      BY <2>3, <3>2, TimerFrame DEF Starts, ClientCancels
  <2>4. MapCreated \/ MapDirections \/ MapDirectionsFail \/ IconLoaded
        \/ PositionEvent \/ EtaAnswer \/ Back \/ Done \/ Dispose \/ UNCHANGED vars
        => /\ chain' = chain /\ outbox' = outbox /\ request' = request /\ status' = status
           /\ timer' = timer /\ liveTimers' = liveTimers
    BY DEF MapCreated, MapDirections, MapDirectionsFail, IconLoaded, PositionEvent,
       EtaAnswer, Back, Done, Dispose, vars
  <2>5. /\ chain' = chain /\ outbox' = outbox /\ request' = request /\ status' = status
        /\ timer' = timer /\ liveTimers' = liveTimers
        => OneTimer'
    BY TimerFrame DEF Starts, Ending
  <2>6. QED
    BY <2>1, <2>2, <2>3, <2>4, <2>5, TimerAck, TimerApply DEF Next
<1>3. QED
  BY <1>1, <1>2

\* However many handlers the rider's taps start, and in whatever order their
\* answers come, a trip that is ended leaves no timer of the screen running.
THEOREM TimerStopped == Spec => []NoTimerAfterEnd
<1>1. TimerInv => NoTimerAfterEnd
  BY DEF TimerInv, OneTimer, Ending, NoTimerAfterEnd
<1>2. QED
  BY <1>1, TimerInit, TimerNext, PTL DEF Spec

-----------------------------------------------------------------------------
(* The rider who waits for a handler to finish before the next tap and     *)
(* never goes back: pops take whatever is on top, but the dialogs above    *)
(* the trip screen are as many as the pops still to come, or more.         *)

PatientTrip == BackPresses = 0 /\ \A c, d \in Chains : c = d

NoHandler == \A c \in Chains : chain[c] = "idle"

\* The dialogs that onMapCreated and the handler c still have to close.
MapDialogs == IF map = "directions" THEN 1 ELSE 0
HandlerDialogs(c) == IF chain[c] = "directions" THEN 2
                     ELSE IF chain[c] \in {"directions2", "end_directions"} THEN 1 ELSE 0

\* The trip screen with nothing but dialogs of the two kinds above it.
TripStack(r) ==
    /\ r \in Seq(Route)
    /\ Len(r) >= 2 /\ r[1] = "home" /\ r[2] = "trip"
    /\ \A i \in 3..Len(r) : r[i] \in {"wait", "busy"}

NothingEnded ==
    /\ request.stage # "ended"
    /\ \A i \in 1..Len(outbox) : outbox[i].what # "ended"

\* A dialog can stay behind, but then there is no handler and no tap can start
\* one, or the map has failed and the position is never known.
TripOpen ==
    /\ mounted
    /\ TripStack(routes)
    /\ Len(routes) >= 2 + MapDialogs
    /\ \A c \in Chains : chain[c] # "idle" =>
          /\ Len(routes) >= 2 + MapDialogs + HandlerDialogs(c)
          /\ map # "dead" => Len(routes) = 2 + MapDialogs + HandlerDialogs(c)
    /\ \A c \in Chains : chain[c] = "end_directions" => position
    /\ \A c \in Chains : chain[c] \in {"set_arrived", "directions"} => status = "arrived"
    /\ NothingEnded

FareOpen == mounted /\ NoHandler /\ map = "live" /\ routes = <<"home", "trip", "fare">>

TripLeft == NoHandler /\ map \in {"live", "dead"} /\ routes = <<"home">>

StackInv ==
    /\ TripOpen \/ FareOpen \/ TripLeft
    /\ position => map = "live"
    /\ \A i \in 1..Len(outbox) : outbox[i].what = "ended" => i = Len(outbox)
    /\ request.stage = "ended" => outbox = << >>

LEMMA TripStackPop ==
    ASSUME TripStack(routes), NEW n \in Nat, Len(routes) >= 2 + n
    PROVE  TripStack(Popped(n)) /\ Len(Popped(n)) = Len(routes) - n
<1> DEFINE m == Len(routes) - n
<1>1. routes \in Seq(Route) /\ Len(routes) \in Nat /\ m \in Nat /\ m >= 2 /\ m <= Len(routes)
  BY DEF TripStack
<1>2. 1 \in Int /\ m \in Int /\ \A i \in 1..m : routes[i] \in Route
  BY <1>1
<1>3. Popped(n) = SubSeq(routes, 1, m)
  BY DEF Popped
<1> HIDE DEF m
<1>4. /\ Popped(n) \in Seq(Route) /\ Len(Popped(n)) = (IF 1 <= m THEN m - 1 + 1 ELSE 0)
      /\ \A i \in 1..(m - 1 + 1) : Popped(n)[i] = routes[1 + i - 1]
  BY <1>2, <1>3, SubSeqProperties
<1>5. Len(Popped(n)) = m /\ \A i \in 1..m : Popped(n)[i] = routes[i]
  BY <1>1, <1>4
<1>6. 1 \in 1..m /\ 2 \in 1..m /\ \A i \in 3..m : i \in 1..m /\ i \in 3..Len(routes)
  BY <1>1
<1>7. Popped(n)[1] = "home" /\ Popped(n)[2] = "trip" /\ \A i \in 3..m : Popped(n)[i] \in {"wait", "busy"}
  BY <1>5, <1>6 DEF TripStack
<1>8. QED
  BY <1>1, <1>4, <1>5, <1>7 DEF TripStack, m

LEMMA TripStackPush ==
    ASSUME NEW r, TripStack(r), NEW x \in {"wait", "busy"}
    PROVE  TripStack(Append(r, x)) /\ Len(Append(r, x)) = Len(r) + 1
<1> DEFINE s == Append(r, x)
<1>1. r \in Seq(Route) /\ Len(r) \in Nat /\ Len(r) >= 2 /\ x \in Route
  BY RouteNames DEF TripStack
<1>2. /\ s \in Seq(Route) /\ Len(s) = Len(r) + 1 /\ s[Len(r) + 1] = x
      /\ \A i \in 1..Len(r) : s[i] = r[i]
  BY <1>1, AppendProperties
<1> HIDE DEF s
<1>3. \A i \in 3..Len(s) : i = Len(r) + 1 \/ (i \in 3..Len(r) /\ i \in 1..Len(r))
  BY <1>1, <1>2
<1>4. \A i \in 3..Len(s) : s[i] \in {"wait", "busy"}
  BY <1>2, <1>3 DEF TripStack
<1>5. s[1] = "home" /\ s[2] = "trip"
  BY <1>1, <1>2 DEF TripStack
<1>6. QED
  BY <1>1, <1>2, <1>4, <1>5 DEF TripStack, s

\* With a dialog above it the trip screen takes no taps, and the top is no fare.
LEMMA TripStackTop ==
    ASSUME TripStack(routes)
    PROVE  /\ routes # << >> /\ Len(routes) \in Nat
           /\ OnTop("trip") <=> Len(routes) = 2
           /\ Len(routes) = 2 => routes[Len(routes)] = "trip"
           /\ ~OnTop("fare") /\ ~OnTop("home")
           /\ OnTrip
<1>1. routes \in Seq(Route) /\ Len(routes) \in Nat /\ Len(routes) >= 2 /\ routes # << >>
  BY DEF TripStack
<1>2. Len(routes) = 2 \/ Len(routes) \in 3..Len(routes)
  <2>1. \A n \in Nat : n >= 2 => n = 2 \/ n \in 3..n
    OBVIOUS
  <2>2. QED
    BY <1>1, <2>1
<1>3. Len(routes) = 2 => routes[Len(routes)] = "trip"
  BY DEF TripStack
<1>4. Len(routes) # 2 => routes[Len(routes)] \in {"wait", "busy"}
  BY <1>2 DEF TripStack
<1>5. OnTrip
  BY <1>1 DEF TripStack, OnTrip
<1>6. QED
  BY <1>1, <1>3, <1>4, <1>5 DEF OnTop

\* A stack of two is the trip screen on the home page.
LEMMA TripStackTwo ==
    ASSUME NEW r, TripStack(r), Len(r) = 2
    PROVE  r = <<"home", "trip">> /\ Append(r, "fare") = <<"home", "trip", "fare">>
<1>1. r \in Seq(Route) /\ r[1] = "home" /\ r[2] = "trip"
  BY DEF TripStack
<1>2. r = <<"home", "trip">>
  BY <1>1
<1> DEFINE t == <<"home", "trip">>  u == <<"home", "trip", "fare">>
<1>3. /\ t \in Seq(Route) /\ Len(t) = 2 /\ t[1] = "home" /\ t[2] = "trip"
      /\ u \in Seq(Route) /\ Len(u) = 3 /\ u[1] = "home" /\ u[2] = "trip" /\ u[3] = "fare"
  BY RouteNames
<1> HIDE DEF t, u
<1>4. /\ Append(t, "fare") \in Seq(Route) /\ Len(Append(t, "fare")) = 3
      /\ Append(t, "fare")[1] = "home" /\ Append(t, "fare")[2] = "trip"
      /\ Append(t, "fare")[3] = "fare"
  <2>1. "fare" \in Route
    BY RouteNames
  <2>2. /\ Append(t, "fare") \in Seq(Route) /\ Len(Append(t, "fare")) = Len(t) + 1
        /\ \A i \in 1..Len(t) : Append(t, "fare")[i] = t[i]
        /\ Append(t, "fare")[Len(t) + 1] = "fare"
    BY <1>3, <2>1, AppendProperties
  <2>3. 1 \in 1..Len(t) /\ 2 \in 1..Len(t) /\ Len(t) + 1 = 3
    BY <1>3
  <2>4. QED
    BY <1>3, <2>2, <2>3
<1>5. \A i \in 1..3 : Append(t, "fare")[i] = u[i]
  <2>1. \A i \in 1..3 : i = 1 \/ i = 2 \/ i = 3
    OBVIOUS
  <2>2. QED
    BY <1>3, <1>4, <2>1
<1>6. Append(t, "fare") = u
  BY <1>3, <1>4, <1>5, SeqEqual
<1>7. QED
  BY <1>2, <1>6 DEF t, u

-----------------------------------------------------------------------------
(* Steps of the handlers while the trip screen is open                     *)

\* The routes and the map stay; a handler goes on without a dialog, or stops.
LEMMA OpenFrame ==
    ASSUME TripOpen,
           UNCHANGED <<mounted, routes, map, status>>, position => position',
           NothingEnded',
           \A c \in Chains : \/ chain'[c] \in {chain[c], "idle"}
                             \/ /\ chain[c] # "idle" /\ HandlerDialogs(c) = 0
                                /\ chain'[c] \notin {"set_arrived", "directions", "directions2",
                                                     "end_directions"}
    PROVE  TripOpen'
<1>1. ASSUME NEW c \in Chains, chain'[c] # "idle"
      PROVE  chain[c] # "idle" /\ HandlerDialogs(c)' = HandlerDialogs(c)
  BY <1>1 DEF HandlerDialogs
<1>2. MapDialogs' = MapDialogs
  BY DEF MapDialogs
<1>3. \A c \in Chains : chain'[c] # "idle" =>
         /\ Len(routes') >= 2 + MapDialogs' + HandlerDialogs(c)'
         /\ map' # "dead" => Len(routes') = 2 + MapDialogs' + HandlerDialogs(c)'
  BY <1>1, <1>2 DEF TripOpen
<1>4. \A c \in Chains : chain'[c] = "end_directions" => position'
  BY DEF TripOpen
<1>5. \A c \in Chains : chain'[c] \in {"set_arrived", "directions"} => status' = "arrived"
  BY DEF TripOpen
<1>6. TripStack(routes') /\ mounted' /\ Len(routes') >= 2 + MapDialogs'
  BY <1>2 DEF TripOpen
<1>7. QED
  BY <1>3, <1>4, <1>5, <1>6 DEF TripOpen

\* The one handler stops: dialogs may stay behind.
LEMMA OpenStop ==
    ASSUME PatientTrip, TypeOK, TripOpen, NEW c \in Chains, chain' = [chain EXCEPT ![c] = "idle"],
           UNCHANGED <<mounted, map, position>>, NothingEnded', TripStack(routes'),
           Len(routes') >= 2 + MapDialogs
    PROVE  TripOpen'
<1>1. \A d \in Chains : chain'[d] = "idle"
  BY DEF PatientTrip, TypeOK
<1>2. MapDialogs' = MapDialogs /\ mounted'
  BY DEF MapDialogs, TripOpen
<1>3. QED
  BY <1>1, <1>2 DEF TripOpen

\* It goes on: no more is popped than it owed, and it owes what it pushed.
LEMMA OpenGo ==
    ASSUME PatientTrip, TypeOK, TripOpen, NEW c \in Chains, NEW w, chain' = [chain EXCEPT ![c] = w],
           UNCHANGED <<mounted, map, position>>, NothingEnded', TripStack(routes'),
           w \in {"set_arrived", "directions"} => status' = "arrived",
           w = "end_directions" => position,
           Len(routes') \in Nat, HandlerDialogs(c)' \in Nat,
           Len(routes') >= 2 + MapDialogs + HandlerDialogs(c)',
           map # "dead" => Len(routes') = 2 + MapDialogs + HandlerDialogs(c)'
    PROVE  TripOpen'
<1>1. \A d \in Chains : d = c /\ chain'[d] = w
  BY DEF PatientTrip, TypeOK
<1>2. MapDialogs' = MapDialogs /\ mounted' /\ map' = map /\ MapDialogs \in Nat
  BY DEF MapDialogs, TripOpen
<1>3. \A d \in Chains : chain'[d] # "idle" =>
         /\ Len(routes') >= 2 + MapDialogs' + HandlerDialogs(d)'
         /\ map' # "dead" => Len(routes') = 2 + MapDialogs' + HandlerDialogs(d)'
  BY <1>1, <1>2
<1>4. /\ \A d \in Chains : chain'[d] = "end_directions" => position'
      /\ \A d \in Chains : chain'[d] \in {"set_arrived", "directions"} => status' = "arrived"
  BY <1>1
<1>5. Len(routes') >= 2 + MapDialogs'
  BY <1>2
<1>6. QED
  BY <1>2, <1>3, <1>4, <1>5 DEF TripOpen

LEMMA OpenQuiet ==
    ASSUME TypeOK, TripOpen, NEW c \in Chains,
           \/ ClientIdRead(c) \/ ReadFails(c) \/ DirectionsThrow(c)
           \/ NotifiedArrived(c) \/ NotifiedAtGasStation(c) \/ NotifyCompletedFails(c)
    PROVE  TripOpen'
<1> USE DEF stream, effects, db, nav
<1>1. /\ UNCHANGED <<mounted, routes, map, status, position, request, outbox>>
      /\ \/ chain' = [chain EXCEPT ![c] = "idle"]
         \/ chain[c] = "client_id" /\ chain' = [chain EXCEPT ![c] = "token"]
  BY DEF ClientIdRead, ReadFails, DirectionsThrow, NotifiedArrived, NotifiedAtGasStation,
     NotifyCompletedFails, Stops
<1>2. chain \in [Chains -> Waiting \cup {"idle"}]
  BY DEF TypeOK
<1>3. NothingEnded'
  BY <1>1 DEF TripOpen, NothingEnded
<1>4. QED
  BY <1>1, <1>2, <1>3, OpenFrame DEF HandlerDialogs

LEMMA OpenTap ==
    ASSUME PatientTrip, TypeOK, TripOpen, NEW c \in Chains, Tap(c)
    PROVE  TripOpen'
<1> USE DEF stream, effects, db, nav
<1>1. /\ UNCHANGED <<mounted, routes, map, status, position, request, outbox>>
      /\ OnTop("trip") /\ chain' = [chain EXCEPT ![c] = "client_id"]
  BY DEF Tap
<1>2. chain \in [Chains -> Waiting \cup {"idle"}]
  BY DEF TypeOK
<1>3. NothingEnded' /\ TripStack(routes')
  BY <1>1 DEF TripOpen, NothingEnded
<1>4. Len(routes) = 2 /\ Len(routes) >= 2 + MapDialogs
  BY <1>1, TripStackTop DEF TripOpen
<1>5. MapDialogs = 0
  BY <1>4 DEF MapDialogs
<1>6. HandlerDialogs(c)' = 0
  BY <1>1, <1>2 DEF HandlerDialogs
<1>7. /\ Len(routes') = 2 + MapDialogs + HandlerDialogs(c)' /\ Len(routes') \in Nat
      /\ Len(routes') >= 2 + MapDialogs + HandlerDialogs(c)' /\ HandlerDialogs(c)' \in Nat
  BY <1>1, <1>4, <1>5, <1>6
<1>8. UNCHANGED <<mounted, map, position>> /\ chain' = [chain EXCEPT ![c] = "client_id"]
  BY <1>1
<1>9. "client_id" \notin {"set_arrived", "directions"} /\ "client_id" # "end_directions"
  OBVIOUS
<1>10. QED
  BY <1>3, <1>7, <1>8, <1>9, OpenGo, Zenon

LEMMA OpenEnter ==
    ASSUME PatientTrip, TypeOK, TripOpen, NEW c \in Chains, TokenRead(c)
    PROVE  TripOpen'
<1> USE DEF stream, effects, db, nav
<1>0. chain \in [Chains -> Waiting \cup {"idle"}] /\ outbox \in Seq(Write)
  BY DEF TypeOK
<1>1. /\ UNCHANGED <<mounted, routes, map, position, request>> /\ chain[c] = "token"
      /\ \E to \in LocalStatus, w \in {"set_arrived", "set_returning", "set_at_gas_station",
                                       "set_completed", "set_completed_again"} :
            /\ outbox' = Append(outbox, [what |-> to, by |-> c])
            /\ chain' = [chain EXCEPT ![c] = w]
            /\ w = "set_arrived" => status' = "arrived"
  BY DEF TokenRead, Branch, Enter, LocalStatus
<1>2. PICK to \in LocalStatus, w \in {"set_arrived", "set_returning", "set_at_gas_station",
                                    "set_completed", "set_completed_again"} :
            /\ outbox' = Append(outbox, [what |-> to, by |-> c])
            /\ chain' = [chain EXCEPT ![c] = w]
            /\ w = "set_arrived" => status' = "arrived"
  BY <1>1
<1>3. NothingEnded'
  <2>1. [what |-> to, by |-> c] \in Write /\ [what |-> to, by |-> c].what # "ended"
    BY DEF Write, LocalStatus
  <2>2. /\ Len(outbox') = Len(outbox) + 1 /\ Len(outbox) \in Nat
        /\ outbox'[Len(outbox) + 1] = [what |-> to, by |-> c]
        /\ \A i \in 1..Len(outbox) : outbox'[i] = outbox[i]
    BY <1>0, <1>2, <2>1, AppendProperties
  <2>3. \A i \in 1..Len(outbox') : i \in 1..Len(outbox) \/ i = Len(outbox) + 1
    BY <2>2
  <2>4. QED
    BY <1>1, <2>1, <2>2, <2>3 DEF TripOpen, NothingEnded
<1>4. HandlerDialogs(c) = 0 /\ HandlerDialogs(c)' = 0
  BY <1>0, <1>1, <1>2 DEF HandlerDialogs
<1>5. /\ TripStack(routes') /\ Len(routes') >= 2 + MapDialogs + HandlerDialogs(c)
      /\ map # "dead" => Len(routes') = 2 + MapDialogs + HandlerDialogs(c)
  BY <1>1 DEF TripOpen
<1>6. Len(routes') \in Nat /\ HandlerDialogs(c)' \in Nat /\ HandlerDialogs(c)' = HandlerDialogs(c)
  BY <1>4, <1>5 DEF TripStack
<1>7. UNCHANGED <<mounted, map, position>> /\ (w \in {"set_arrived", "directions"} => status' = "arrived")
      /\ w # "end_directions"
  BY <1>1, <1>2
<1>8. QED
  BY <1>2, <1>3, <1>5, <1>6, <1>7, OpenGo

\* Directions that fail or come: as many dialogs are closed as the handler owes,
\* or fewer.
LEMMA OpenPops ==
    ASSUME PatientTrip, TypeOK, TripOpen, NEW c \in Chains,
           DirectionsNull(c) \/ Directions(c) \/ Directions2(c)
    PROVE  TripOpen'
<1> USE DEF stream, effects, db, nav
<1>0. chain \in [Chains -> Waiting \cup {"idle"}] /\ MapDialogs \in {0, 1}
      /\ TripStack(routes) /\ mounted /\ routes # << >> /\ Len(routes) \in Nat /\ CanPop
  BY TripStackTop DEF TypeOK, TripOpen, MapDialogs, CanPop
<1>1. UNCHANGED <<mounted, map, position, status, request, outbox>>
  BY DEF DirectionsNull, Directions, Directions2
<1>2. NothingEnded'
  BY <1>1 DEF TripOpen, NothingEnded
<1>3. /\ chain[c] # "idle" /\ Len(routes) >= 2 + MapDialogs + HandlerDialogs(c)
      /\ map # "dead" => Len(routes) = 2 + MapDialogs + HandlerDialogs(c)
  BY DEF DirectionsNull, Directions, Directions2, TripOpen
<1>4. CASE DirectionsNull(c) \/ Directions2(c) \/ (Directions(c) /\ routes' = Popped(1))
  <2>1. /\ chain' = [chain EXCEPT ![c] = "idle"] /\ routes' = Popped(1) /\ HandlerDialogs(c) >= 1
    <3>1. CASE DirectionsNull(c)
      BY <1>0, <3>1 DEF DirectionsNull, Stops, HandlerDialogs
    <3>2. CASE Directions2(c)
      BY <1>0, <3>2 DEF Directions2, Stops, HandlerDialogs
    <3>3. CASE Directions(c) /\ routes' = Popped(1)
      <4>1. chain[c] = "directions" /\ HandlerDialogs(c) = 2
        BY <3>3 DEF Directions, HandlerDialogs
      <4>2. CASE map = "none" \/ Len(routes) = 1
        BY <1>0, <3>3, <4>1, <4>2 DEF Directions, Stops
      <4>3. CASE ~(map = "none" \/ Len(routes) = 1)
        <5>1. routes' = Popped(2)
          BY <1>0, <3>3, <4>3 DEF Directions
        <5>2. Len(routes) >= 2 + 2
          BY <1>0, <1>3, <4>1
        <5>3. Len(Popped(1)) = Len(routes) - 1 /\ Len(Popped(2)) = Len(routes) - 2
          BY <1>0, <5>2, TripStackPop
        <5>4. QED
          BY <1>0, <3>3, <5>1, <5>3
      <4>4. QED
        BY <4>2, <4>3
    <3>4. QED
      BY <1>4, <3>1, <3>2, <3>3
  <2>2. HandlerDialogs(c) \in {0, 1, 2} /\ Len(routes) >= 2 + 1
    BY <1>0, <1>3, <2>1 DEF HandlerDialogs
  <2>3. TripStack(routes') /\ Len(routes') = Len(routes) - 1
    BY <1>0, <2>1, <2>2, TripStackPop
  <2>4. Len(routes') >= 2 + MapDialogs
    BY <1>0, <1>3, <2>1, <2>2, <2>3
  <2>5. UNCHANGED <<mounted, map, position>>
    BY <1>1
  <2>6. QED
    BY <1>2, <2>1, <2>3, <2>4, <2>5, OpenStop
<1>5. CASE Directions(c) /\ routes' # Popped(1)
  <2>1. /\ chain[c] = "directions" /\ routes' = Popped(2)
        /\ chain' = [chain EXCEPT ![c] = "notify_arrived"]
    BY <1>0, <1>5 DEF Directions
  <2>2. HandlerDialogs(c) = 2 /\ HandlerDialogs(c)' = 0
    BY <1>0, <2>1 DEF HandlerDialogs
  <2>3. TripStack(routes') /\ Len(routes') = Len(routes) - 2
    BY <1>0, <1>3, <2>1, <2>2, TripStackPop
  <2>4. /\ Len(routes') >= 2 + MapDialogs + HandlerDialogs(c)' /\ Len(routes') \in Nat
        /\ map # "dead" => Len(routes') = 2 + MapDialogs + HandlerDialogs(c)'
        /\ HandlerDialogs(c)' \in Nat
    BY <1>0, <1>3, <2>2, <2>3
  <2>5. UNCHANGED <<mounted, map, position>>
    BY <1>1
  <2>6. "notify_arrived" \notin {"set_arrived", "directions"} /\ "notify_arrived" # "end_directions"
    OBVIOUS
  <2>7. QED
    BY <1>2, <2>1, <2>3, <2>4, <2>5, <2>6, OpenGo, Zenon
<1>6. QED
  BY <1>4, <1>5

LEMMA OpenEnd ==
    ASSUME PatientTrip, TypeOK, TripOpen, NEW c \in Chains, EndTheTrip(c)
    PROVE  TripOpen'
<1> USE DEF stream, effects, db, nav
<1>0. chain \in [Chains -> Waiting \cup {"idle"}] /\ MapDialogs \in {0, 1}
      /\ TripStack(routes) /\ mounted /\ Len(routes) \in Nat /\ chain[c] = "notify_completed"
  BY TripStackTop DEF TypeOK, TripOpen, MapDialogs, EndTheTrip
<1>1. /\ UNCHANGED <<mounted, map, position, status, request, outbox>>
      /\ routes' = Append(routes, "busy")
      /\ \/ position /\ chain' = [chain EXCEPT ![c] = "end_directions"]
         \/ chain' = [chain EXCEPT ![c] = "idle"]
  BY <1>0 DEF EndTheTrip, Stops
<1>2. NothingEnded'
  BY <1>1 DEF TripOpen, NothingEnded
<1>3. HandlerDialogs(c) = 0
  BY <1>0 DEF HandlerDialogs
<1>4. /\ Len(routes) >= 2 + MapDialogs
      /\ map # "dead" => Len(routes) = 2 + MapDialogs
  BY <1>0, <1>3 DEF TripOpen
<1>5. TripStack(routes') /\ Len(routes') = Len(routes) + 1
  BY <1>0, <1>1, TripStackPush
<1>6. Len(routes') >= 2 + MapDialogs /\ Len(routes') >= 2 + MapDialogs + 1
      /\ (map # "dead" => Len(routes') = 2 + MapDialogs + 1) /\ Len(routes') \in Nat
  BY <1>0, <1>4, <1>5
<1>A. UNCHANGED <<mounted, map, position>>
  BY <1>1
<1>7. CASE position /\ chain' = [chain EXCEPT ![c] = "end_directions"]
  <2>1. HandlerDialogs(c)' = 1 /\ HandlerDialogs(c)' \in Nat
    BY <1>0, <1>7 DEF HandlerDialogs
  <2>2. Len(routes') >= 2 + MapDialogs + HandlerDialogs(c)'
        /\ (map # "dead" => Len(routes') = 2 + MapDialogs + HandlerDialogs(c)')
    BY <1>6, <2>1
  <2>3. QED
    BY <1>2, <1>5, <1>6, <1>7, <1>A, <2>1, <2>2, OpenGo
<1>8. CASE chain' = [chain EXCEPT ![c] = "idle"]
  BY <1>2, <1>5, <1>6, <1>8, <1>A, OpenStop
<1>9. QED
  BY <1>1, <1>7, <1>8

\* The fare dialog takes the place of the last one, on the trip screen itself.
LEMMA OpenFinish ==
    ASSUME PatientTrip, TypeOK, TripOpen, position => map = "live",
           NEW c \in Chains, FinishTrip(c)
    PROVE  /\ FareOpen' /\ outbox' = outbox \o fareWrites
           /\ UNCHANGED <<request, map, position>>
<1> USE DEF stream, effects, db, nav
<1>0. chain \in [Chains -> Waiting \cup {"idle"}]
      /\ TripStack(routes) /\ mounted /\ CanPop /\ Len(routes) \in Nat /\ chain[c] = "end_directions"
  BY TripStackTop DEF TypeOK, TripOpen, FinishTrip, CanPop
<1>1. position /\ map = "live"
  BY <1>0 DEF TripOpen
<1>2. /\ UNCHANGED <<mounted, map, position, request>> /\ chain' = [chain EXCEPT ![c] = "idle"]
      /\ routes' = Append(Popped(1), "fare") /\ outbox' = outbox \o fareWrites
  BY <1>0 DEF FinishTrip, Stops
<1>3. MapDialogs = 0 /\ HandlerDialogs(c) = 1
  BY <1>0, <1>1 DEF MapDialogs, HandlerDialogs
<1>4. Len(routes) = 3
  <2>1. map # "dead" => Len(routes) = 2 + MapDialogs + HandlerDialogs(c)
    BY <1>0 DEF TripOpen
  <2>2. QED
    BY <1>1, <1>3, <2>1
<1>5. TripStack(Popped(1)) /\ Len(Popped(1)) = 2
  <2>1. Len(routes) >= 2 + 1 /\ Len(routes) - 1 = 2
    BY <1>4
  <2>2. QED
    BY <1>0, <2>1, TripStackPop
<1>6. routes' = <<"home", "trip", "fare">>
  BY <1>2, <1>5, TripStackTwo
<1>7. NoHandler'
  BY <1>0, <1>2 DEF NoHandler, PatientTrip
<1>8. QED
  BY <1>0, <1>1, <1>2, <1>6, <1>7 DEF FareOpen

LEMMA OpenAck ==
    ASSUME PatientTrip, TypeOK, TripOpen, Ack
    PROVE  TripOpen' /\ UNCHANGED <<outbox, request, map, position>>
<1>0. /\ chain \in [Chains -> Waiting \cup {"idle"}] /\ MapDialogs \in {0, 1}
      /\ TripStack(routes) /\ mounted /\ Len(routes) \in Nat
  BY TripStackTop DEF TypeOK, TripOpen, MapDialogs
<1>1. PICK c \in Chains : AfterArrived(c) \/ AfterReturning(c) \/ AfterAtGasStation(c)
                          \/ AfterCompleted(c) \/ AfterCompletedAgain(c)
  <2>1. acks \in Seq(Chains) /\ acks # << >>
    BY DEF Ack, TypeOK
  <2>2. Head(acks) \in Chains
    BY <2>1, HeadTailProperties
  <2>3. QED
    BY <2>2 DEF Ack
<1>2. UNCHANGED <<mounted, map, position, status, request, outbox>>
  BY DEF Ack, stream
<1>3. UNCHANGED <<mounted, map, position>>
  BY <1>2
<1>4. NothingEnded'
  BY <1>2 DEF TripOpen, NothingEnded
<1>5. /\ chain[c] # "idle" => /\ Len(routes) >= 2 + MapDialogs + HandlerDialogs(c)
                              /\ map # "dead" => Len(routes) = 2 + MapDialogs + HandlerDialogs(c)
  BY <1>1 DEF TripOpen
<1>6. CASE AfterArrived(c)
  <2>1. /\ chain[c] = "set_arrived" /\ chain' = [chain EXCEPT ![c] = "directions"]
        /\ routes' = routes \o <<"busy", "wait">>
    BY <1>0, <1>6 DEF AfterArrived
  <2>2. routes \o <<"busy", "wait">> = Append(Append(routes, "busy"), "wait")
    BY <1>0 DEF TripStack
  <2>3. TripStack(Append(routes, "busy")) /\ Len(Append(routes, "busy")) = Len(routes) + 1
    BY <1>0, TripStackPush
  <2>4. TripStack(routes') /\ Len(routes') = Len(routes) + 1 + 1
    BY <2>1, <2>2, <2>3, TripStackPush
  <2>5. HandlerDialogs(c) = 0 /\ HandlerDialogs(c)' = 2
    BY <1>0, <1>1, <2>1 DEF HandlerDialogs
  <2>6. status' = "arrived"
    BY <1>1, <1>2, <2>1 DEF TripOpen
  <2>7. /\ Len(routes') >= 2 + MapDialogs + HandlerDialogs(c)' /\ Len(routes') \in Nat
        /\ map # "dead" => Len(routes') = 2 + MapDialogs + HandlerDialogs(c)'
        /\ HandlerDialogs(c)' \in Nat
    BY <1>0, <1>5, <2>1, <2>4, <2>5
  <2>8. "directions" # "end_directions"
    OBVIOUS
  <2>9. TripOpen'
    BY <1>1, <1>3, <1>4, <2>1, <2>4, <2>6, <2>7, <2>8, OpenGo, Zenon
  <2>10. QED
    BY <1>2, <2>9
<1>7. CASE AfterReturning(c) \/ AfterAtGasStation(c) \/ AfterCompletedAgain(c)
  <2>1. /\ routes' = routes
        /\ chain[c] \in {"set_returning", "set_at_gas_station", "set_completed_again"}
        /\ \E w \in {"idle", "notify_at_gas_station", "notify_completed"} :
              chain' = [chain EXCEPT ![c] = w]
    BY <1>7 DEF AfterReturning, AfterAtGasStation, AfterCompletedAgain, Stops
  <2>2. HandlerDialogs(c) = 0
    BY <2>1 DEF HandlerDialogs
  <2>3. \A d \in Chains : \/ chain'[d] \in {chain[d], "idle"}
                          \/ /\ chain[d] # "idle" /\ HandlerDialogs(d) = 0
                             /\ chain'[d] \notin {"set_arrived", "directions", "directions2",
                                                  "end_directions"}
    BY <1>0, <1>1, <2>1, <2>2
  <2>4. UNCHANGED <<mounted, routes, map, status>> /\ (position => position')
    BY <1>2, <2>1
  <2>5. TripOpen'
    BY <1>4, <2>3, <2>4, OpenFrame
  <2>6. QED
    BY <1>2, <2>5
<1>8. CASE AfterCompleted(c)
  <2>1. /\ chain[c] = "set_completed" /\ chain' = [chain EXCEPT ![c] = "directions2"]
        /\ routes' = Append(routes, "wait")
    BY <1>0, <1>8 DEF AfterCompleted
  <2>2. TripStack(routes') /\ Len(routes') = Len(routes) + 1
    BY <1>0, <2>1, TripStackPush
  <2>3. HandlerDialogs(c) = 0 /\ HandlerDialogs(c)' = 1
    BY <1>0, <1>1, <2>1 DEF HandlerDialogs
  <2>4. /\ Len(routes') >= 2 + MapDialogs + HandlerDialogs(c)' /\ Len(routes') \in Nat
        /\ map # "dead" => Len(routes') = 2 + MapDialogs + HandlerDialogs(c)'
        /\ HandlerDialogs(c)' \in Nat
    BY <1>0, <1>5, <2>1, <2>2, <2>3
  <2>5. "directions2" \notin {"set_arrived", "directions"} /\ "directions2" # "end_directions"
    OBVIOUS
  <2>6. TripOpen'
    BY <1>1, <1>3, <1>4, <2>1, <2>2, <2>4, <2>5, OpenGo, Zenon
  <2>7. QED
    BY <1>2, <2>6
<1>9. QED
  BY <1>1, <1>6, <1>7, <1>8

\* The map's own dialog is pushed above the handler's or below: the pops count.
LEMMA OpenMap ==
    ASSUME TripOpen, MapCreated \/ MapDirections \/ MapDirectionsFail
    PROVE  TripOpen' /\ UNCHANGED <<outbox, request, position>> /\ map # "live"
<1>0. /\ MapDialogs \in {0, 1} /\ TripStack(routes) /\ mounted /\ Len(routes) \in Nat /\ CanPop
      /\ \A c \in Chains : HandlerDialogs(c) \in {0, 1, 2}
  BY TripStackTop DEF TripOpen, MapDialogs, HandlerDialogs, CanPop
<1>1. UNCHANGED <<mounted, position, status, chain, request, outbox>> /\ map # "live"
  BY DEF MapCreated, MapDirections, MapDirectionsFail, effects, db
<1>2. \/ map = "none" /\ map' = "directions" /\ routes' = Append(routes, "wait")
      \/ map \in {"none", "directions"} /\ map' = "dead" /\ routes' = routes
      \/ map = "directions" /\ map' \in {"live", "dead"} /\ routes' = Popped(1)
  BY <1>0 DEF MapCreated, MapDirections, MapDirectionsFail
<1>3. /\ TripStack(routes') /\ Len(routes') \in Nat /\ MapDialogs' \in {0, 1} /\ map # "dead"
      /\ Len(routes') - MapDialogs' >= Len(routes) - MapDialogs
      /\ map' # "dead" => Len(routes') - MapDialogs' = Len(routes) - MapDialogs
  <2>1. CASE map = "none" /\ map' = "directions" /\ routes' = Append(routes, "wait")
    <3>1. TripStack(routes') /\ Len(routes') = Len(routes) + 1
      BY <1>0, <2>1, TripStackPush
    <3>2. MapDialogs = 0 /\ MapDialogs' = 1
      BY <2>1 DEF MapDialogs
    <3>3. QED
      BY <1>0, <2>1, <3>1, <3>2
  <2>2. CASE map \in {"none", "directions"} /\ map' = "dead" /\ routes' = routes
    <3>1. MapDialogs' = 0
      BY <2>2 DEF MapDialogs
    <3>2. QED
      BY <1>0, <2>2, <3>1
  <2>3. CASE map = "directions" /\ map' \in {"live", "dead"} /\ routes' = Popped(1)
    <3>1. MapDialogs = 1 /\ MapDialogs' = 0
      BY <2>3 DEF MapDialogs
    <3>2. Len(routes) >= 2 + 1
      BY <3>1 DEF TripOpen
    <3>3. TripStack(routes') /\ Len(routes') = Len(routes) - 1
      BY <1>0, <2>3, <3>2, TripStackPop
    <3>4. QED
      BY <1>0, <2>3, <3>1, <3>3
  <2>4. QED
    BY <1>2, <2>1, <2>2, <2>3
<1>4. \A c \in Chains : HandlerDialogs(c)' = HandlerDialogs(c)
  BY <1>1 DEF HandlerDialogs
<1>5. ASSUME NEW c \in Chains, chain'[c] # "idle"
      PROVE  /\ Len(routes') >= 2 + MapDialogs' + HandlerDialogs(c)'
             /\ map' # "dead" => Len(routes') = 2 + MapDialogs' + HandlerDialogs(c)'
  <2>1. Len(routes) = 2 + MapDialogs + HandlerDialogs(c)
    BY <1>1, <1>3, <1>5 DEF TripOpen
  <2>2. QED
    BY <1>0, <1>3, <1>4, <2>1
<1>6. Len(routes') >= 2 + MapDialogs'
  <2>1. Len(routes) >= 2 + MapDialogs
    BY DEF TripOpen
  <2>2. QED
    BY <1>0, <1>3, <2>1
<1>7. NothingEnded'
  BY <1>1 DEF TripOpen, NothingEnded
<1>8. mounted' /\ TripStack(routes')
  BY <1>0, <1>1, <1>3
<1>9. /\ \A c \in Chains : chain'[c] = "end_directions" => position'
      /\ \A c \in Chains : chain'[c] \in {"set_arrived", "directions"} => status' = "arrived"
  BY <1>1 DEF TripOpen
<1>10. TripOpen'
  BY <1>5, <1>6, <1>7, <1>8, <1>9 DEF TripOpen
<1>11. QED
  BY <1>1, <1>10

\* The position stream and the database leave the stack alone.
LEMMA OpenRest ==
    ASSUME TypeOK, TripOpen, Apply \/ ClientCancels \/ IconLoaded \/ PositionEvent \/ EtaAnswer \/ UNCHANGED vars
    PROVE  TripOpen'
<1> USE DEF vars, screen, stream, effects, db, nav
<1>1. UNCHANGED <<mounted, routes, map, status, chain>> /\ (position => position')
  BY DEF Apply, ClientCancels, IconLoaded, PositionEvent, EtaAnswer
<1>2. NothingEnded'
  <2>1. CASE Apply
    <3>1. /\ outbox \in Seq(Write) /\ outbox # << >> /\ outbox' = Tail(outbox)
          /\ request' = Applied(Head(outbox)) /\ request \in Lifecycle!Request
      BY <2>1 DEF Apply, TypeOK
    <3>2. /\ Head(outbox) = outbox[1] /\ outbox[1] \in Write /\ 1 \in 1..Len(outbox)
          /\ Len(outbox') = Len(outbox) - 1 /\ Len(outbox) \in Nat
          /\ \A i \in 1..Len(outbox') : outbox'[i] = outbox[i + 1] /\ i + 1 \in 1..Len(outbox)
      BY <3>1, HeadTailProperties, EmptySeq
    <3>3. Head(outbox).what # "ended" /\ request.stage # "ended"
      BY <3>2 DEF TripOpen, NothingEnded
    <3>4. request'.stage # "ended"
      BY <3>1, <3>2, <3>3 DEF Applied, Lifecycle!Request
    <3>5. QED
      BY <3>2, <3>4 DEF TripOpen, NothingEnded
  <2>2. CASE ~Apply
    <3>1. outbox' = outbox /\ (request' = request \/ ClientCancels)
      BY <2>2 DEF ClientCancels, IconLoaded, PositionEvent, EtaAnswer
    <3>2. request'.stage = request.stage
      BY <3>1 DEF ClientCancels, TypeOK, Lifecycle!Request
    <3>3. QED
      BY <3>1, <3>2 DEF TripOpen, NothingEnded
  <2>3. QED
    BY <2>1, <2>2
<1>3. QED
  BY <1>1, <1>2, OpenFrame

-----------------------------------------------------------------------------
(* The last write, and the screen after the fare dialog                    *)

EndedLast ==
    /\ \A i \in 1..Len(outbox) : outbox[i].what = "ended" => i = Len(outbox)
    /\ request.stage = "ended" => outbox = << >>

LEMMA EndedApply ==
    ASSUME TypeOK, EndedLast, Apply
    PROVE  EndedLast'
<1>1. /\ outbox \in Seq(Write) /\ outbox # << >> /\ outbox' = Tail(outbox)
      /\ request' = Applied(Head(outbox)) /\ request \in Lifecycle!Request
  BY DEF Apply, TypeOK
<1>2. /\ Head(outbox) = outbox[1] /\ outbox[1] \in Write /\ 1 \in 1..Len(outbox)
      /\ outbox' \in Seq(Write) /\ Len(outbox') = Len(outbox) - 1 /\ Len(outbox) \in Nat
      /\ \A i \in 1..Len(outbox') : outbox'[i] = outbox[i + 1] /\ i + 1 \in 1..Len(outbox)
  BY <1>1, HeadTailProperties, EmptySeq
<1>3. request.stage # "ended"
  BY <1>1 DEF EndedLast
<1>4. ASSUME request'.stage = "ended" PROVE outbox' = << >>
  <2>1. Head(outbox).what = "ended"
    BY <1>1, <1>2, <1>3, <1>4 DEF Applied, Lifecycle!Request
  <2>2. Len(outbox) = 1
    BY <1>2, <2>1 DEF EndedLast
  <2>3. QED
    BY <1>2, <2>2, EmptySeq
<1>5. ASSUME NEW i \in 1..Len(outbox'), outbox'[i].what = "ended" PROVE i = Len(outbox')
  <2>1. i + 1 = Len(outbox)
    BY <1>2, <1>5 DEF EndedLast
  <2>2. QED
    BY <1>2, <2>1
<1>6. QED
  BY <1>4, <1>5 DEF EndedLast

LEMMA EndedFinish ==
    ASSUME TypeOK, NothingEnded, request' = request, outbox' = outbox \o fareWrites
    PROVE  EndedLast'
<1>1. outbox \in Seq(Write) /\ Len(outbox) \in Nat
  BY DEF TypeOK
<1>2. fareWrites \in Seq(Write) /\ Len(fareWrites) = 2 /\ fareWrites[1].what = "fares"
  BY DEF fareWrites, Write
<1>3. /\ Len(outbox') = Len(outbox) + 2
      /\ \A i \in 1..Len(outbox') :
            outbox'[i] = IF i <= Len(outbox) THEN outbox[i] ELSE fareWrites[i - Len(outbox)]
  BY <1>1, <1>2, ConcatProperties
<1>4. ASSUME NEW i \in 1..Len(outbox'), i # Len(outbox') PROVE outbox'[i].what # "ended"
  <2>1. CASE i <= Len(outbox)
    <3>1. i \in 1..Len(outbox) /\ outbox'[i] = outbox[i]
      BY <1>1, <1>3, <2>1
    <3>2. QED
      BY <3>1 DEF NothingEnded
  <2>2. CASE ~(i <= Len(outbox))
    <3>1. i - Len(outbox) = 1 /\ outbox'[i] = fareWrites[i - Len(outbox)]
      BY <1>1, <1>3, <1>4, <2>2
    <3>2. QED
      BY <1>2, <3>1
  <2>3. QED
    BY <2>1, <2>2
<1>5. QED
  BY <1>4 DEF EndedLast, NothingEnded

\* With nothing under way and no trip screen on top no handler can step.
LEMMA StackIdle ==
    ASSUME TypeOK, BackPresses = 0, NoHandler, map \in {"live", "dead"}, ~OnTop("trip"), [Next]_vars
    PROVE  \/ Crash
           \/ /\ UNCHANGED <<chain, map>>
              /\ routes' = routes \/ Done
              /\ mounted' = mounted \/ Dispose
              /\ Apply \/ (outbox' = outbox /\ request'.stage = request.stage)
<1> USE DEF vars, screen, stream, effects, db, nav
<1>1. ASSUME NEW c \in Chains, Handler(c) PROVE FALSE
  BY <1>1 DEF Handler, NoHandler, Tap, ClientIdRead, ReadFails, TokenRead, DirectionsThrow, DirectionsNull,
     Directions, Directions2, NotifiedArrived, NotifiedAtGasStation, NotifyCompletedFails, EndTheTrip,
     FinishTrip
<1>2. ~Ack
  <2>1. Ack => Head(acks) \in Chains
    BY HeadTailProperties DEF Ack, TypeOK
  <2>2. QED
    BY <2>1 DEF Ack, NoHandler, AfterArrived, AfterReturning, AfterAtGasStation, AfterCompleted,
       AfterCompletedAgain
<1>3. ~MapCreated /\ ~MapDirections /\ ~MapDirectionsFail
  BY DEF MapCreated, MapDirections, MapDirectionsFail
<1>4. ~Back
  BY DEF Back, TypeOK
<1>5. CASE Apply
  BY <1>5 DEF Apply
<1>6. CASE ClientCancels \/ UNCHANGED vars
  BY <1>6 DEF ClientCancels, TypeOK, Lifecycle!Request
<1>7. CASE IconLoaded \/ PositionEvent \/ EtaAnswer
  BY <1>7 DEF IconLoaded, PositionEvent, EtaAnswer
<1>8. CASE Done \/ Dispose
  BY <1>8 DEF Done, Dispose
<1>9. QED
  BY <1>1, <1>2, <1>3, <1>4, <1>5, <1>6, <1>7, <1>8 DEF Next

\* What becomes of the open trip screen: the fare dialog, or a killed process.
LEMMA OpenNext ==
    ASSUME PatientTrip, TypeOK, StackInv, TripOpen, [Next]_vars
    PROVE  \/ TripOpen' /\ (position' => map' = "live")
           \/ FareOpen' /\ (position' => map' = "live") /\ EndedLast'
           \/ Crash
<1> USE DEF stream, effects, db, nav
<1>0. position => map = "live"
  BY DEF StackInv
<1>1. ASSUME NEW c \in Chains, Handler(c)
      PROVE  \/ TripOpen' /\ (position' => map' = "live")
             \/ FareOpen' /\ (position' => map' = "live") /\ EndedLast'
  <2>1. CASE Tap(c)
    BY <1>0, <2>1, OpenTap DEF Tap
  <2>2. CASE \/ ClientIdRead(c) \/ ReadFails(c) \/ DirectionsThrow(c)
             \/ NotifiedArrived(c) \/ NotifiedAtGasStation(c) \/ NotifyCompletedFails(c)
    BY <1>0, <2>2, OpenQuiet DEF ClientIdRead, ReadFails, DirectionsThrow, NotifiedArrived,
       NotifiedAtGasStation, NotifyCompletedFails
  <2>3. CASE TokenRead(c)
    BY <1>0, <2>3, OpenEnter DEF TokenRead
  <2>4. CASE DirectionsNull(c) \/ Directions(c) \/ Directions2(c)
    BY <1>0, <2>4, OpenPops DEF DirectionsNull, Directions, Directions2
  <2>5. CASE EndTheTrip(c)
    BY <1>0, <2>5, OpenEnd DEF EndTheTrip
  <2>6. CASE FinishTrip(c)
    <3>1. FareOpen' /\ outbox' = outbox \o fareWrites /\ UNCHANGED <<request, map, position>>
      BY <1>0, <2>6, OpenFinish
    <3>2. EndedLast'
      BY <3>1, EndedFinish DEF TripOpen
    <3>3. QED
      BY <1>0, <3>1, <3>2
  <2>7. QED
    BY <1>1, <2>1, <2>2, <2>3, <2>4, <2>5, <2>6 DEF Handler
<1>2. CASE Ack
  BY <1>0, <1>2, OpenAck
<1>3. CASE MapCreated \/ MapDirections \/ MapDirectionsFail
  BY <1>0, <1>3, OpenMap
<1>4. CASE Apply \/ ClientCancels \/ IconLoaded \/ PositionEvent \/ EtaAnswer \/ UNCHANGED vars
  <2>1. TripOpen'
    BY <1>4, OpenRest
  <2>2. position' => map' = "live"
    BY <1>0, <1>4 DEF Apply, ClientCancels, IconLoaded, PositionEvent, EtaAnswer, vars, screen
  <2>3. QED
    BY <2>1, <2>2
<1>5. ~Back
  BY DEF Back, TypeOK, PatientTrip
<1>6. ~Done
  BY TripStackTop DEF Done, TripOpen
<1>7. ~Dispose
  BY TripStackTop DEF Dispose, TripOpen, OnTrip
<1>8. QED
  BY <1>1, <1>2, <1>3, <1>4, <1>5, <1>6, <1>7 DEF Next

\* A killed process has left the screen, with no write under way.
LEMMA CrashLeft ==
    ASSUME Crash
    PROVE  /\ TripLeft' /\ ~position' /\ outbox' = << >> /\ request' = request
           /\ TypeOK => EndedLast'
<1>1. TripLeft' /\ ~position' /\ outbox' = << >> /\ request' = request
  BY DEF Crash, TripLeft, NoHandler
<1>2. EndedLast'
  BY <1>1 DEF EndedLast
<1>3. QED
  BY <1>1, <1>2

\* From the fare dialog the rider gets to the home page, and nowhere else.
LEMMA FareNext ==
    ASSUME PatientTrip, TypeOK, FareOpen, [Next]_vars
    PROVE  \/ FareOpen' /\ map' = "live"
           \/ Done /\ TripLeft' /\ map' = "live"
           \/ Crash
<1>1. /\ routes = <<"home", "trip", "fare">> /\ map = "live" /\ mounted /\ NoHandler
      /\ OnTop("fare") /\ ~OnTop("trip")
  BY DEF FareOpen, OnTop
<1>2. ~Dispose
  <2>1. 2 \in 1..Len(routes) /\ routes[2] = "trip"
    BY <1>1
  <2>2. QED
    BY <2>1 DEF Dispose
<1>3. \/ Crash
      \/ UNCHANGED <<chain, map, mounted>> /\ (routes' = routes \/ Done)
  BY <1>1, <1>2, StackIdle DEF PatientTrip
<1>4. CASE Done
  <2>1. routes' = SubSeq(<<"home", "trip", "fare">>, 1, 1)
    BY <1>1, <1>4 DEF Done, Popped
  <2>2. routes' = <<"home">>
    <3> DEFINE u == <<"home", "trip", "fare">>
    <3>1. u \in Seq(Route) /\ u[1] = "home" /\ Len(u) = 3
      BY RouteNames
    <3> HIDE DEF u
    <3>2. u[1] \in Route /\ \A i \in 1..1 : u[i] \in Route
      BY <3>1
    <3>3. /\ SubSeq(u, 1, 1) \in Seq(Route) /\ Len(SubSeq(u, 1, 1)) = 1
          /\ SubSeq(u, 1, 1)[1] = "home"
      BY <3>1, <3>2, SubSeqProperties
    <3>4. SubSeq(u, 1, 1) = <<"home">>
      <4>1. \A r \in Seq(Route) : Len(r) = 1 /\ r[1] = "home" => r = <<"home">>
        OBVIOUS
      <4>2. QED
        BY <3>3, <4>1
    <3>5. QED
      BY <2>1, <3>4 DEF u
  <2>3. UNCHANGED <<chain, map>>
    BY <1>4 DEF Done, screen, stream
  <2>4. QED
    BY <1>1, <1>4, <2>2, <2>3 DEF TripLeft, NoHandler
<1>5. QED
  BY <1>1, <1>3, <1>4 DEF FareOpen, NoHandler

LEMMA LeftNext ==
    ASSUME PatientTrip, TypeOK, TripLeft, position => map = "live", [Next]_vars
    PROVE  TripLeft' /\ (position' => map' = "live")
<1>1. routes = <<"home">> /\ NoHandler /\ map \in {"live", "dead"} /\ ~OnTop("trip") /\ ~OnTop("fare")
  BY DEF TripLeft, OnTop
<1>2. \/ Crash
      \/ UNCHANGED <<chain, map, routes>>
  BY <1>1, StackIdle DEF PatientTrip, Done
<1>3. CASE Crash
  BY <1>3, CrashLeft
<1>4. CASE UNCHANGED <<chain, map, routes>>
  <2>1. TripLeft'
    BY <1>1, <1>4 DEF TripLeft, NoHandler
  <2>2. position' = position \/ map = "live" \/ Crash
    <3>1. ASSUME NEW c \in Chains, Handler(c) PROVE position' = position
      BY <3>1 DEF Handler, Tap, ClientIdRead, ReadFails, TokenRead, DirectionsThrow, DirectionsNull,
         Directions, Directions2, NotifiedArrived, NotifiedAtGasStation, NotifyCompletedFails, EndTheTrip,
         FinishTrip, stream
    <3>2. QED
      BY <3>1 DEF Next, vars, screen, stream, Apply, Ack, ClientCancels, MapCreated, MapDirections,
         MapDirectionsFail, IconLoaded, PositionEvent, EtaAnswer, Back, Done, Dispose
  <2>3. QED
    BY <1>3, <1>4, <2>1, <2>2
<1>5. QED
  BY <1>2, <1>3, <1>4

\* Once a fare dialog was shown, or the screen left, nothing but Apply touches
\* the writes under way, and a crash that drops them.
LEMMA EndedNext ==
    ASSUME PatientTrip, TypeOK, FareOpen \/ TripLeft, EndedLast, [Next]_vars
    PROVE  EndedLast'
<1>1. NoHandler /\ map \in {"live", "dead"} /\ ~OnTop("trip")
  BY DEF FareOpen, TripLeft, OnTop
<1>2. \/ Crash
      \/ Apply
      \/ outbox' = outbox /\ request'.stage = request.stage
  BY <1>1, StackIdle DEF PatientTrip
<1>3. CASE outbox' = outbox /\ request'.stage = request.stage
  BY <1>3 DEF EndedLast
<1>4. QED
  BY <1>2, <1>3, CrashLeft, EndedApply

LEMMA StackInit == Init => StackInv
<1> SUFFICES ASSUME Init PROVE StackInv
  OBVIOUS
<1>1. /\ routes = <<"home", "trip">> /\ map = "none" /\ mounted /\ ~position
      /\ chain = [c \in Chains |-> "idle"] /\ outbox = acceptRideRequest
      /\ request = Lifecycle!NewRequest
  BY DEF Init
<1>2. TripStack(routes) /\ Len(routes) = 2
  BY <1>1, RouteNames DEF TripStack
<1>3. request.stage = "requested"
  BY <1>1 DEF Lifecycle!NewRequest
<1>4. Len(outbox) = 3 /\ \A i \in 1..Len(outbox) : outbox[i].what # "ended"
  BY <1>1 DEF acceptRideRequest
<1>5. NothingEnded /\ EndedLast
  BY <1>3, <1>4 DEF NothingEnded, EndedLast
<1>6. MapDialogs = 0
  BY <1>1 DEF MapDialogs
<1>7. TripOpen
  BY <1>1, <1>2, <1>5, <1>6 DEF TripOpen
<1>8. QED
  BY <1>1, <1>5, <1>7 DEF StackInv, EndedLast

LEMMA StackNext ==
    ASSUME PatientTrip, TypeOK, StackInv, [Next]_vars
    PROVE  StackInv'
<1>0. (position => map = "live") /\ EndedLast
  BY DEF StackInv, EndedLast
<1>1. ASSUME TripOpen' PROVE EndedLast'
  BY <1>1 DEF TripOpen, NothingEnded, EndedLast
<1>2. CASE Crash
  BY <1>2, CrashLeft DEF StackInv, EndedLast
<1>3. CASE TripOpen
  BY <1>1, <1>2, <1>3, OpenNext DEF StackInv, EndedLast
<1>4. CASE FareOpen
  <2>1. EndedLast'
    BY <1>0, <1>4, EndedNext
  <2>2. QED
    BY <1>2, <1>4, <2>1, FareNext DEF StackInv, EndedLast
<1>5. CASE TripLeft
  <2>1. EndedLast'
    BY <1>0, <1>5, EndedNext
  <2>2. TripLeft' /\ (position' => map' = "live")
    BY <1>0, <1>5, LeftNext
  <2>3. QED
    BY <2>1, <2>2 DEF StackInv, EndedLast
<1>6. QED
  BY <1>3, <1>4, <1>5 DEF StackInv

\* A rider who never goes back and waits for each handler leaves the trip screen
\* through the fare dialog, whatever fails: no dialog's pop takes the screen itself.
THEOREM TripLeftThroughFare == PatientTrip => (Spec => LeftThroughFare)
<1> SUFFICES ASSUME PatientTrip PROVE Spec => LeftThroughFare
  OBVIOUS
<1>1. ASSUME TypeInv, StackInv, [Next]_vars
      PROVE  [OnTrip /\ ~OnTrip' => Crash \/ (Done /\ routes' = <<"home">>)]_vars
  <2>1. SUFFICES ASSUME OnTrip, ~OnTrip' PROVE Crash \/ (Done /\ routes' = <<"home">>)
    OBVIOUS
  <2>2. TypeOK
    BY <1>1 DEF TypeInv
  <2>3. ~TripOpen'
    <3>1. ASSUME TripOpen' PROVE OnTrip'
      <4>1. routes' \in Seq(Route) /\ Len(routes') >= 2 /\ routes'[2] = "trip"
        BY <3>1 DEF TripOpen, TripStack
      <4>2. 2 \in 1..Len(routes')
        BY <4>1
      <4>3. QED
        BY <4>1, <4>2 DEF OnTrip
    <3>2. QED
      BY <2>1, <3>1
  <2>4. ~FareOpen'
    <3>1. ASSUME FareOpen' PROVE OnTrip'
      <4>1. 2 \in 1..Len(routes') /\ routes'[2] = "trip"
        BY <3>1 DEF FareOpen
      <4>2. QED
        BY <4>1 DEF OnTrip
    <3>2. QED
      BY <2>1, <3>1
  <2>5. CASE TripOpen
    BY <1>1, <2>2, <2>3, <2>4, <2>5, OpenNext
  <2>6. CASE FareOpen
    BY <1>1, <2>2, <2>4, <2>6, FareNext DEF TripLeft
  <2>7. CASE TripLeft
    BY <2>1, <2>7 DEF TripLeft, OnTrip
  <2>8. QED
    BY <1>1, <2>5, <2>6, <2>7 DEF StackInv
<1>2. TypeInv /\ StackInv /\ [Next]_vars => TypeInv' /\ StackInv'
  BY TypeNext, StackNext DEF TypeInv
<1>3. Init => TypeInv /\ StackInv
  BY TypeInit, StackInit
<1>4. QED
  BY <1>1, <1>2, <1>3, PTL DEF Spec, LeftThroughFare

\* For that rider nothing is written over "ended".
THEOREM EndedIsFinal == PatientTrip => (Spec => EndedFinal)
<1> SUFFICES ASSUME PatientTrip PROVE Spec => EndedFinal
  OBVIOUS
<1>1. ASSUME TypeInv, StackInv, [Next]_vars
      PROVE  [request.stage = "ended" => request'.stage = "ended"]_vars
  <2>1. SUFFICES ASSUME request.stage = "ended" PROVE request'.stage = "ended"
    OBVIOUS
  <2>2. outbox = << >>
    BY <1>1, <2>1 DEF StackInv
  <2>3. ~Apply
    BY <2>2 DEF Apply
  <2>4. request' = request \/ ClientCancels
    BY <1>1, <2>3, RequestChanges
  <2>5. QED
    BY <1>1, <2>1, <2>4 DEF ClientCancels, TypeInv, TypeOK, Lifecycle!Request
<1>2. TypeInv /\ StackInv /\ [Next]_vars => TypeInv' /\ StackInv'
  BY TypeNext, StackNext DEF TypeInv
<1>3. Init => TypeInv /\ StackInv
  BY TypeInit, StackInit
<1>4. QED
  BY <1>1, <1>2, <1>3, PTL DEF Spec, EndedFinal

\* A handler of the last stage stops on the trip screen itself, or on the fare.
LEMMA StopsClear ==
    ASSUME PatientTrip, "throw" \notin Faults, TypeOK, StackInv, [Next]_vars,
           NEW c \in Chains, chain[c] # "idle", chain'[c] = "idle", status = "completed", position
    PROVE  routes'[Len(routes')] # "busy"
<1> USE DEF stream, effects, db, nav
<1>1. TripOpen /\ map = "live"
  BY DEF StackInv, FareOpen, TripLeft, NoHandler
<1>2. MapDialogs = 0 /\ Len(routes) = 2 + HandlerDialogs(c) /\ TripStack(routes) /\ mounted
  <2>1. MapDialogs = 0
    BY <1>1 DEF MapDialogs
  <2>2. HandlerDialogs(c) \in {0, 1, 2}
    BY DEF HandlerDialogs
  <2>3. Len(routes) = 2 + MapDialogs + HandlerDialogs(c)
    BY <1>1 DEF TripOpen
  <2>4. QED
    BY <1>1, <2>1, <2>2, <2>3 DEF TripOpen
<1>3. chain[c] \notin {"set_arrived", "directions"}
  BY <1>1 DEF TripOpen
<1>4. CanPop /\ routes # << >> /\ (Len(routes) = 2 => routes[Len(routes)] = "trip")
  BY <1>2, TripStackTop DEF CanPop
<1>5. CASE routes' = routes /\ HandlerDialogs(c) = 0
  BY <1>2, <1>4, <1>5
<1>6. CASE routes' = Popped(1) /\ HandlerDialogs(c) = 1
  <2>1. Len(routes) >= 2 + 1 /\ Len(routes) - 1 = 2
    BY <1>2, <1>6
  <2>2. TripStack(routes') /\ Len(routes') = 2
    BY <1>2, <1>6, <2>1, TripStackPop
  <2>3. QED
    BY <2>2 DEF TripStack
<1>7. CASE Crash
  BY <1>7 DEF Crash
<1>8. ASSUME NEW d \in Chains, Handler(d), ~FinishTrip(d)
      PROVE  \/ routes' = routes /\ HandlerDialogs(c) = 0
             \/ routes' = Popped(1) /\ HandlerDialogs(c) = 1
  <2>0. d = c /\ chain \in [Chains -> Waiting \cup {"idle"}]
    BY DEF PatientTrip, TypeOK
  <2>1. ~Tap(c) /\ ~ClientIdRead(c) /\ ~TokenRead(c) /\ ~EndTheTrip(c)
    BY <2>0, <1>2 DEF Tap, ClientIdRead, TokenRead, Branch, Enter, EndTheTrip
  <2>2. ~DirectionsThrow(c) /\ ~Directions(c)
    BY <1>3 DEF DirectionsThrow, Directions
  <2>3. CASE ReadFails(c) \/ NotifiedArrived(c) \/ NotifiedAtGasStation(c) \/ NotifyCompletedFails(c)
    BY <2>3 DEF ReadFails, NotifiedArrived, NotifiedAtGasStation, NotifyCompletedFails, HandlerDialogs
  <2>4. CASE DirectionsNull(c) \/ Directions2(c)
    BY <1>3, <1>4, <2>4 DEF DirectionsNull, Directions2, HandlerDialogs
  <2>5. QED
    BY <1>8, <2>0, <2>1, <2>2, <2>3, <2>4 DEF Handler
<1>9. ASSUME NEW d \in Chains, FinishTrip(d) PROVE routes'[Len(routes')] # "busy"
  <2>1. FareOpen'
    BY <1>1, <1>9, OpenFinish
  <2>2. QED
    BY <2>1 DEF FareOpen
<1>10. ASSUME Ack PROVE routes' = routes /\ HandlerDialogs(c) = 0
  <2>1. PICK d \in Chains : AfterArrived(d) \/ AfterReturning(d) \/ AfterAtGasStation(d)
                           \/ AfterCompleted(d) \/ AfterCompletedAgain(d)
    <3>1. Head(acks) \in Chains
      BY <1>10, HeadTailProperties DEF Ack, TypeOK
    <3>2. QED
      BY <1>10, <3>1 DEF Ack
  <2>2. d = c /\ chain \in [Chains -> Waiting \cup {"idle"}]
    BY DEF PatientTrip, TypeOK
  <2>3. AfterReturning(c)
    BY <1>2, <2>1, <2>2 DEF AfterArrived, AfterAtGasStation, AfterCompleted, AfterCompletedAgain
  <2>4. QED
    BY <2>3 DEF AfterReturning, HandlerDialogs
<1>11. ASSUME \/ Apply \/ ClientCancels \/ MapCreated \/ MapDirections \/ MapDirectionsFail
              \/ IconLoaded \/ PositionEvent \/ EtaAnswer \/ Back \/ Done \/ Dispose \/ UNCHANGED vars
       PROVE  chain' = chain
  BY <1>11 DEF Apply, ClientCancels, MapCreated, MapDirections, MapDirectionsFail, IconLoaded,
     PositionEvent, EtaAnswer, Back, Done, Dispose, vars, screen
<1>12. QED
  BY <1>5, <1>6, <1>7, <1>8, <1>9, <1>10, <1>11 DEF Next

\* For that rider, when no directions request throws, no handler of the last stage
\* that ends with the position known leaves a dialog that blocks the screen.
THEOREM LastStageUnblocked ==
    PatientTrip /\ "throw" \notin Faults => (Spec => DialogsClosed)
<1> SUFFICES ASSUME PatientTrip, "throw" \notin Faults PROVE Spec => DialogsClosed
  OBVIOUS
<1>1. ASSUME TypeInv, StackInv, [Next]_vars
      PROVE  [ \A c \in Chains :
                 chain[c] # "idle" /\ chain'[c] = "idle" /\ status = "completed" /\ position
                    => ~(routes' # << >> /\ routes'[Len(routes')] = "busy") ]_vars
  BY <1>1, StopsClear DEF TypeInv
<1>2. TypeInv /\ StackInv /\ [Next]_vars => TypeInv' /\ StackInv'
  BY TypeNext, StackNext DEF TypeInv
<1>3. Init => TypeInv /\ StackInv
  BY TypeInit, StackInit
<1>4. QED
  BY <1>1, <1>2, <1>3, PTL DEF Spec, DialogsClosed

=============================================================================
