-------------------------- MODULE TripScreen_proofs --------------------------
(***************************************************************************)
(* Proofs about TripScreen for any set of handlers, any number of back     *)
(* presses and any selection of faults: type correctness, the invariant    *)
(* Pipeline of the writes under way, and from these that the screen keeps  *)
(* the promise of DeliveryLifecycle and asks for a payment at most once.   *)
(***************************************************************************)
EXTENDS TripScreen, SequenceTheorems, TLAPS

USE ChainsAssumption, BackPressesAssumption, FaultsAssumption

-----------------------------------------------------------------------------
(* Type correctness                                                        *)

\* liveTimers counts the timer the field holds, so cancelling it stays in Nat.
TypeInv == TypeOK /\ (timer => liveTimers > 0)

\* Removing routes from the top leaves a stack of routes.
LEMMA PoppedType ==
    ASSUME routes \in Seq(Route), NEW n \in Nat
    PROVE  Popped(n) \in Seq(Route)
<1>1. Len(routes) - n \in Int /\ \A i \in 1..(Len(routes) - n) : routes[i] \in Route
  OBVIOUS
<1>2. QED
  BY <1>1, SubSeqProperties DEF Popped

\* So does putting one on it.
LEMMA PushedType ==
    ASSUME NEW s \in Seq(Route), NEW r \in Route
    PROVE  Append(s, r) \in Seq(Route)
BY AppendProperties

LEMMA RouteNames == {"home", "trip", "wait", "busy", "fare"} \subseteq Route
BY DEF Route

\* A handler that stops leaves a well-typed function.
LEMMA ChainType ==
    ASSUME TypeOK, NEW c \in Chains, NEW w \in Waiting \cup {"idle"}
    PROVE  [chain EXCEPT ![c] = w] \in [Chains -> Waiting \cup {"idle"}]
BY DEF TypeOK

LEMMA StopsType ==
    ASSUME TypeOK, NEW c \in Chains, Stops(c)
    PROVE  chain' \in [Chains -> Waiting \cup {"idle"}]
BY ChainType DEF Stops

LEMMA TypeInit == Init => TypeInv
<1> SUFFICES ASSUME Init PROVE TypeInv
  OBVIOUS
<1>1. acceptRideRequest \in Seq(Write)
  BY DEF acceptRideRequest, Write, LocalStatus
<1>2. request \in Lifecycle!Request
  <2>1. "requested" \in Lifecycle!Stage
    <3>1. 1 \in 1..Len(Lifecycle!Stages) /\ Lifecycle!Stages[1] = "requested"
      BY DEF Lifecycle!Stages
    <3>2. QED
      BY <3>1 DEF Lifecycle!Stage
  <2>2. QED
    BY <2>1 DEF Init, Lifecycle!NewRequest, Lifecycle!Request
<1>3. routes \in Seq(Route)
  BY DEF Init, Route
<1>4. chain \in [Chains -> Waiting \cup {"idle"}]
  BY DEF Init
<1>5. status \in LocalStatus
  BY DEF Init, LocalStatus
<1>6. outbox \in Seq(Write) /\ acks \in Seq(Chains)
  BY <1>1 DEF Init
<1>7. timer = FALSE /\ liveTimers = 0 /\ backs \in 0..BackPresses
  BY DEF Init
<1>8. mounted \in BOOLEAN /\ position \in BOOLEAN /\ icon \in BOOLEAN
      /\ requesting \in BOOLEAN /\ map \in {"none", "directions", "live", "dead"}
  BY DEF Init
<1>9. ~timer /\ timer \in BOOLEAN
  BY <1>7
<1>10. etaRequests \in Nat /\ liveTimers \in Nat /\ payRequests \in Nat
  BY DEF Init
<1>11. QED
  BY <1>2, <1>3, <1>4, <1>5, <1>6, <1>7, <1>8, <1>9, <1>10 DEF TypeInv, TypeOK

\* The stages, listed.
LEMMA StageSet ==
    Lifecycle!Stage = {"requested", "accepted", "arrived", "returning",
                       "arrived_at_gas_station", "completed", "ended"}
<1>1. Len(Lifecycle!Stages) = 7
  BY DEF Lifecycle!Stages
<1>2. 1..7 = {1, 2, 3, 4, 5, 6, 7}
  OBVIOUS
<1>3. QED
  BY <1>1, <1>2 DEF Lifecycle!Stage, Lifecycle!Stages

\* The database holds a well-formed request after any write.
LEMMA AppliedType ==
    ASSUME request \in Lifecycle!Request, NEW w \in Write
    PROVE  Applied(w) \in Lifecycle!Request
BY StageSet DEF Applied, Lifecycle!Request, Write, LocalStatus

\* A write issued by a handler is well typed.
LEMMA EnterType ==
    ASSUME TypeOK, NEW c \in Chains, Branch(c)
    PROVE  /\ status' \in LocalStatus
           /\ chain' \in [Chains -> Waiting \cup {"idle"}]
           /\ outbox' \in Seq(Write)
<1>1. ASSUME NEW from \in LocalStatus, NEW to \in LocalStatus, NEW w \in Waiting,
             Enter(c, from, to, w)
      PROVE  /\ status' \in LocalStatus
             /\ chain' \in [Chains -> Waiting \cup {"idle"}]
             /\ outbox' \in Seq(Write)
  <2>1. [what |-> to, by |-> c] \in Write
    BY DEF Write
  <2>2. QED
    BY <1>1, <2>1, ChainType, AppendProperties DEF Enter, TypeOK
<1>2. QED
  BY <1>1 DEF Branch, LocalStatus, Waiting

\* What an acknowledged handler does next is well typed.
LEMMA AckType ==
    ASSUME TypeInv, Ack
    PROVE  TypeInv'
<1> DEFINE c == Head(acks)
<1>1. c \in Chains /\ acks' \in Seq(Chains)
  BY HeadTailProperties DEF TypeInv, TypeOK, Ack
<1>2. routes' \in Seq(Route) /\ chain' \in [Chains -> Waiting \cup {"idle"}]
      /\ timer' \in BOOLEAN /\ liveTimers' \in Nat /\ (timer' => liveTimers' > 0)
  <2>1. CASE AfterArrived(c)
    <3>1. routes \o <<"busy", "wait">> \in Seq(Route)
      <4>1. <<"busy", "wait">> \in Seq(Route)
        BY DEF Route
      <4>2. QED
        BY <4>1, ConcatProperties DEF TypeInv, TypeOK
    <3>2. "directions" \in Waiting
      BY DEF Waiting
    <3>3. QED
      BY <1>1, <2>1, <3>1, <3>2, ChainType, StopsType DEF AfterArrived, TypeInv, TypeOK
  <2>2. CASE AfterReturning(c)
    <3>1. chain' \in [Chains -> Waiting \cup {"idle"}]
      BY <1>1, <2>2, StopsType DEF AfterReturning, TypeInv
    <3>2. CASE mounted
      BY <2>2, <3>1, <3>2 DEF AfterReturning, initTimer, TypeInv, TypeOK
    <3>3. CASE ~mounted
      BY <2>2, <3>1, <3>3 DEF AfterReturning, TypeInv, TypeOK
    <3>4. QED
      BY <3>2, <3>3
  <2>3. CASE AfterAtGasStation(c)
    <3>1. "notify_at_gas_station" \in Waiting
      BY DEF Waiting
    <3>2. QED
      BY <1>1, <2>3, <3>1, ChainType, StopsType DEF AfterAtGasStation, TypeInv, TypeOK
  <2>4. CASE AfterCompleted(c)
    <3>1. Append(routes, "wait") \in Seq(Route)
      BY PushedType, RouteNames DEF TypeInv, TypeOK
    <3>2. "directions2" \in Waiting
      BY DEF Waiting
    <3>3. QED
      BY <1>1, <2>4, <3>1, <3>2, ChainType, StopsType DEF AfterCompleted, TypeInv, TypeOK
  <2>5. CASE AfterCompletedAgain(c)
    <3>1. "notify_completed" \in Waiting
      BY DEF Waiting
    <3>2. QED
      BY <1>1, <2>5, <3>1, ChainType DEF AfterCompletedAgain, TypeInv, TypeOK
  <2>6. QED
    BY <2>1, <2>2, <2>3, <2>4, <2>5 DEF Ack
<1>3. QED
  BY <1>1, <1>2 DEF Ack, TypeInv, TypeOK, stream

\* Every piece of a handler keeps the types.
LEMMA HandlerType ==
    ASSUME TypeInv, NEW c \in Chains, Handler(c)
    PROVE  TypeInv'
<1> USE DEF TypeInv, stream, effects, db, nav
<1>1. CASE Tap(c)
  <2>1. "client_id" \in Waiting
    BY DEF Waiting
  <2>2. QED
    BY <1>1, <2>1, ChainType DEF Tap, TypeOK
<1>2. CASE ClientIdRead(c)
  <2>1. "token" \in Waiting
    BY DEF Waiting
  <2>2. QED
    BY <1>2, <2>1, ChainType DEF ClientIdRead, TypeOK
<1>3. CASE ReadFails(c)
  BY <1>3, StopsType DEF ReadFails, TypeOK
<1>4. CASE TokenRead(c)
  BY <1>4, EnterType DEF TokenRead, TypeOK
<1>5. CASE DirectionsThrow(c)
  BY <1>5, StopsType DEF DirectionsThrow, TypeOK
<1>6. CASE DirectionsNull(c)
  <2>1. routes' \in Seq(Route)
    BY <1>6, PoppedType DEF DirectionsNull, TypeOK
  <2>2. QED
    BY <1>6, <2>1, StopsType DEF DirectionsNull, TypeOK
<1>7. CASE Directions(c)
  <2>1. routes' \in Seq(Route)
    BY <1>7, PoppedType DEF Directions, TypeOK
  <2>2. "notify_arrived" \in Waiting
    BY DEF Waiting
  <2>3. chain' \in [Chains -> Waiting \cup {"idle"}]
    BY <1>7, <2>2, StopsType, ChainType DEF Directions
  <2>4. QED
    BY <1>7, <2>1, <2>3 DEF Directions, TypeOK
<1>8. CASE Directions2(c)
  <2>1. routes' \in Seq(Route)
    BY <1>8, PoppedType DEF Directions2, TypeOK
  <2>2. QED
    BY <1>8, <2>1, StopsType DEF Directions2, TypeOK
<1>9. CASE NotifiedArrived(c)
  BY <1>9, StopsType DEF NotifiedArrived, TypeOK
<1>10. CASE NotifiedAtGasStation(c)
  BY <1>10, StopsType DEF NotifiedAtGasStation, TypeOK
<1>11. CASE NotifyCompletedFails(c)
  BY <1>11, StopsType DEF NotifyCompletedFails, TypeOK
<1>12. CASE EndTheTrip(c)
  <2>1. routes' \in Seq(Route)
    BY <1>12, PushedType, RouteNames DEF EndTheTrip, TypeOK
  <2>2. "end_directions" \in Waiting
    BY DEF Waiting
  <2>3. chain' \in [Chains -> Waiting \cup {"idle"}]
    BY <1>12, <2>2, StopsType, ChainType DEF EndTheTrip
  <2>4. timer' \in BOOLEAN /\ liveTimers' \in Nat /\ (timer' => liveTimers' > 0)
    <3>1. CASE mounted /\ timer
      <4>1. ~timer' /\ timer' \in BOOLEAN /\ liveTimers' = liveTimers - 1
        BY <1>12, <3>1 DEF EndTheTrip, cancelTimer
      <4>2. QED
        BY <3>1, <4>1 DEF TypeOK
    <3>2. CASE mounted /\ ~timer
      BY <1>12, <3>2 DEF EndTheTrip, cancelTimer, TypeOK
    <3>3. CASE ~mounted
      BY <1>12, <3>3 DEF EndTheTrip, TypeOK
    <3>4. QED
      BY <3>1, <3>2, <3>3
  <2>5. QED
    BY <1>12, <2>1, <2>3, <2>4 DEF EndTheTrip, TypeOK
<1>13. CASE FinishTrip(c)
  <2>1. routes' \in Seq(Route)
    <3>1. Popped(1) \in Seq(Route)
      BY PoppedType DEF TypeOK
    <3>2. QED
      BY <1>13, <3>1, PushedType, RouteNames DEF FinishTrip, TypeOK
  <2>2. outbox' \in Seq(Write)
    <3>1. fareWrites \in Seq(Write)
      BY DEF fareWrites, Write, LocalStatus
    <3>2. outbox \o fareWrites \in Seq(Write)
      BY <3>1, ConcatProperties DEF TypeOK
    <3>3. QED
      BY <1>13, <3>2 DEF FinishTrip, TypeOK
  <2>3. QED
    BY <1>13, <2>1, <2>2, StopsType DEF FinishTrip, TypeOK
<1>14. QED
  BY <1>1, <1>2, <1>3, <1>4, <1>5, <1>6, <1>7, <1>8, <1>9, <1>10, <1>11, <1>12,
     <1>13 DEF Handler

LEMMA TypeNext == TypeInv /\ [Next]_vars => TypeInv'
<1> SUFFICES ASSUME TypeInv, [Next]_vars PROVE TypeInv'
  OBVIOUS
<1> USE DEF stream, effects, screen, db, nav
<1>1. ASSUME NEW c \in Chains, Handler(c) PROVE TypeInv'
  BY <1>1, HandlerType
<1>2. CASE Apply
  <2>1. Head(outbox) \in Write /\ outbox' \in Seq(Write)
    BY <1>2, HeadTailProperties DEF Apply, TypeInv, TypeOK
  <2>2. request' \in Lifecycle!Request
    BY <1>2, <2>1, AppliedType DEF Apply, TypeInv, TypeOK
  <2>3. acks' \in Seq(Chains)
    BY <1>2, <2>1, AppendProperties DEF Apply, TypeInv, TypeOK, Write
  <2>4. QED
    BY <1>2, <2>1, <2>2, <2>3 DEF Apply, TypeInv, TypeOK
<1>3. CASE Ack
  BY <1>3, AckType
<1>4. CASE ClientCancels
  BY <1>4 DEF ClientCancels, TypeInv, TypeOK, Lifecycle!Request
<1>5. CASE MapCreated
  <2>1. routes' \in Seq(Route)
    BY <1>5, PushedType, RouteNames DEF MapCreated, TypeInv, TypeOK
  <2>2. QED
    BY <1>5, <2>1 DEF MapCreated, TypeInv, TypeOK
<1>6. CASE MapDirections
  BY <1>6, PoppedType DEF MapDirections, TypeInv, TypeOK
<1>7. CASE MapDirectionsFail
  BY <1>7, PoppedType DEF MapDirectionsFail, TypeInv, TypeOK
<1>8. CASE IconLoaded
  BY <1>8 DEF IconLoaded, TypeInv, TypeOK
<1>9. CASE PositionEvent
  <2>1. etaRequests' \in Nat /\ requesting' \in BOOLEAN
    <3>1. CASE icon /\ mounted /\ ~requesting
      BY <1>9, <3>1 DEF PositionEvent, updateRideDetails, TypeInv, TypeOK
    <3>2. CASE ~(icon /\ mounted /\ ~requesting)
      BY <1>9, <3>2 DEF PositionEvent, updateRideDetails, TypeInv, TypeOK
    <3>3. QED
      BY <3>1, <3>2
  <2>2. QED
    BY <1>9, <2>1 DEF PositionEvent, TypeInv, TypeOK
<1>10. CASE EtaAnswer
  <2>1. etaRequests' \in Nat
    BY <1>10 DEF EtaAnswer, TypeInv, TypeOK
  <2>2. requesting' \in BOOLEAN
    BY <1>10, Zenon DEF EtaAnswer, TypeInv, TypeOK
  <2>3. QED
    BY <1>10, <2>1, <2>2 DEF EtaAnswer, TypeInv, TypeOK
<1>11. CASE Back
  BY <1>11, PoppedType DEF Back, TypeInv, TypeOK
<1>12. CASE Done
  BY <1>12, PoppedType DEF Done, TypeInv, TypeOK
<1>13. CASE Dispose
  BY <1>13 DEF Dispose, TypeInv, TypeOK
<1>14. CASE Crash
  <2>1. <<"home">> \in Seq(Route)
    BY RouteNames
  <2>2. chain' \in [Chains -> Waiting \cup {"idle"}]
    BY <1>14 DEF Crash
  <2>3. outbox' \in Seq(Write) /\ acks' \in Seq(Chains)
    BY <1>14 DEF Crash
  <2>4. timer' = FALSE /\ liveTimers' = 0
    BY <1>14 DEF Crash
  <2>5. ~timer' /\ timer' \in BOOLEAN
    BY <2>4
  <2>6. mounted' \in BOOLEAN /\ position' \in BOOLEAN /\ icon' \in BOOLEAN
        /\ requesting' \in BOOLEAN /\ map' \in {"none", "directions", "live", "dead"}
    BY <1>14 DEF Crash
  <2>7. etaRequests' \in Nat /\ liveTimers' \in Nat
    BY <1>14 DEF Crash
  <2>8. /\ status' \in LocalStatus /\ payRequests' \in Nat
        /\ request' \in Lifecycle!Request /\ backs' \in 0..BackPresses
        /\ routes' \in Seq(Route)
    BY <1>14, <2>1 DEF Crash, TypeInv, TypeOK
  <2>9. QED
    BY <2>2, <2>3, <2>4, <2>5, <2>6, <2>7, <2>8 DEF TypeInv, TypeOK
<1>15. CASE UNCHANGED vars
  BY <1>15 DEF vars, TypeInv, TypeOK
<1>16. QED
  BY <1>1, <1>2, <1>3, <1>4, <1>5, <1>6, <1>7, <1>8, <1>9, <1>10, <1>11, <1>12,
     <1>13, <1>14, <1>15 DEF Next

\* The screen's variables keep their types, the number of running timers never
\* becomes negative, in every behaviour of the screen.
THEOREM TypeCorrect == Spec => []TypeOK
<1>1. Init => TypeInv
  BY TypeInit
<1>2. TypeInv /\ [Next]_vars => TypeInv'
  BY TypeNext
<1>3. TypeInv => TypeOK
  BY DEF TypeInv
<1>4. QED
  BY <1>1, <1>2, <1>3, PTL DEF Spec

-----------------------------------------------------------------------------
(* The writes under way                                                    *)

Closing == {"set_completed_again", "notify_completed", "end_directions"}

\* Steps that issue and apply no write, move no stage, start no handler of a
\* dead process and let no handler enter the end-trip branch.
LEMMA PipelineFrame ==
    ASSUME Pipeline,
           outbox' = outbox, status' = status,
           request'.stage = request.stage, request'.driver = request.driver,
           request'.history = request.history, request'.fares = request.fares,
           Running' => Running,
           \A c \in Chains : chain'[c] \in Closing => chain[c] \in Closing
    PROVE  Pipeline'
<1>1. \A w : CanApply(request, w) => CanApply(request', w)
  BY DEF CanApply
<1>2. (outbox # << >> => CanApply(request, outbox[1].what))'
  BY <1>1 DEF Pipeline
<1>3. (\A i \in 1..(Len(outbox) - 1) : Continues(outbox[i].what, outbox[i + 1].what))'
  BY DEF Pipeline, Continues
<1>4. (Running /\ outbox # << >> => outbox[Len(outbox)].what \in LastIssued(status))'
  BY DEF Pipeline, LastIssued
<1>5. (Running /\ outbox = << >> =>
          /\ request.driver /\ request.history
          /\ request.stage \in IF status = "completed" THEN {"completed", "ended"}
                               ELSE {status})'
  BY DEF Pipeline
<1>6. \A c \in Chains : chain'[c] \in Closing => status' = "completed"
  BY DEF Pipeline, Closing
<1>7. QED
  BY <1>2, <1>3, <1>4, <1>5, <1>6 DEF Pipeline, Closing

LEMMA PipelineInit == Init => Pipeline
<1> SUFFICES ASSUME Init PROVE Pipeline
  OBVIOUS
<1>1. outbox = << [what |-> "accepted", by |-> NoChain],
                  [what |-> "driver",   by |-> NoChain],
                  [what |-> "history",  by |-> NoChain] >>
  BY DEF Init, acceptRideRequest
<1>2. Len(outbox) = 3 /\ outbox[1].what = "accepted" /\ outbox[2].what = "driver"
      /\ outbox[3].what = "history"
  BY <1>1
<1>3. request.stage = "requested"
  BY DEF Init, Lifecycle!NewRequest
<1>4. \A i \in 1..(Len(outbox) - 1) : Continues(outbox[i].what, outbox[i + 1].what)
  <2>1. 1..(Len(outbox) - 1) = {1, 2}
    BY <1>2
  <2>2. Continues("accepted", "driver") /\ Continues("driver", "history")
    BY DEF Continues
  <2>3. QED
    BY <1>2, <2>1, <2>2
<1>5. CanApply(request, outbox[1].what)
  BY <1>2, <1>3 DEF CanApply
<1>6. outbox[Len(outbox)].what \in LastIssued(status)
  BY <1>2 DEF Init, LastIssued
<1>7. \A c \in Chains : chain[c] = "idle"
  BY DEF Init
<1>8. outbox # << >>
  BY <1>2
<1>9. QED
  BY <1>4, <1>5, <1>6, <1>7, <1>8 DEF Pipeline

\* A write issued after the last one under way, or, with none under way, one the
\* database can take, extends the pipeline.
LEMMA Issue ==
    ASSUME Pipeline, outbox \in Seq(Write), NEW w \in Write,
           outbox # << >> => Continues(outbox[Len(outbox)].what, w.what),
           outbox = << >> => CanApply(request, w.what),
           request' = request, outbox' = Append(outbox, w)
    PROVE  /\ (outbox # << >> => CanApply(request, outbox[1].what))'
           /\ (\A i \in 1..(Len(outbox) - 1) :
                  Continues(outbox[i].what, outbox[i + 1].what))'
           /\ outbox' # << >> /\ outbox'[Len(outbox')] = w
<1>1. /\ Len(outbox') = Len(outbox) + 1
      /\ \A i \in 1..Len(outbox) : outbox'[i] = outbox[i]
      /\ outbox'[Len(outbox) + 1] = w
      /\ outbox' # << >>
  BY AppendProperties
<1>2. Len(outbox) \in Nat /\ (outbox = << >> <=> Len(outbox) = 0)
  BY EmptySeq
<1>3. \A v : CanApply(request, v) => CanApply(request', v)
  BY DEF CanApply
<1>4. CanApply(request', outbox'[1].what)
  <2>1. CASE outbox = << >>
    BY <1>1, <1>2, <1>3, <2>1
  <2>2. CASE outbox # << >>
    <3>1. outbox'[1] = outbox[1]
      BY <1>1, <1>2, <2>2
    <3>2. QED
      BY <1>3, <2>2, <3>1 DEF Pipeline
  <2>3. QED
    BY <2>1, <2>2
<1>5. ASSUME NEW i \in 1..(Len(outbox') - 1)
      PROVE  Continues(outbox'[i].what, outbox'[i + 1].what)
  <2>1. CASE i = Len(outbox)
    BY <1>1, <1>2, <2>1
  <2>2. CASE i # Len(outbox)
    <3>1. i \in 1..(Len(outbox) - 1) /\ i + 1 \in 1..Len(outbox) /\ i \in 1..Len(outbox)
      BY <1>1, <1>2, <2>2
    <3>2. outbox'[i] = outbox[i] /\ outbox'[i + 1] = outbox[i + 1]
      BY <1>1, <3>1
    <3>3. QED
      BY <3>1, <3>2 DEF Pipeline
  <2>3. QED
    BY <2>1, <2>2
<1>6. QED
  BY <1>1, <1>4, <1>5 DEF Continues

\* A stage's write continues whatever the screen issued before it.
LEMMA PipelineEnter ==
    ASSUME TypeInv, Pipeline, NEW c \in Chains, TokenRead(c)
    PROVE  Pipeline'
<1>1. Running
  BY DEF TokenRead, Running
<1>2. ASSUME NEW from \in LocalStatus, NEW to \in LocalStatus, NEW wt \in Waiting,
             Enter(c, from, to, wt),
             <<from, to>> \in { <<"accepted", "arrived">>, <<"arrived", "returning">>,
                                <<"returning", "arrived_at_gas_station">>,
                                <<"arrived_at_gas_station", "completed">>,
                                <<"completed", "completed">> },
             wt \in Closing => to = "completed"
      PROVE  Pipeline'
  <2> DEFINE w == [what |-> to, by |-> c]
  <2>1. w \in Write /\ w.what = to
    BY DEF Write
  <2>2. outbox # << >> => Continues(outbox[Len(outbox)].what, w.what)
    BY <1>1, <1>2, <2>1 DEF Pipeline, Enter, LastIssued, Continues
  <2>3. outbox = << >> => CanApply(request, w.what)
    BY <1>1, <1>2, <2>1 DEF Pipeline, Enter, CanApply
  <2>4. request' = request /\ outbox' = Append(outbox, w)
    BY <1>2 DEF Enter, TokenRead
  <2> HIDE DEF w
  <2>5. /\ (outbox # << >> => CanApply(request, outbox[1].what))'
        /\ (\A i \in 1..(Len(outbox) - 1) :
               Continues(outbox[i].what, outbox[i + 1].what))'
        /\ outbox' # << >> /\ outbox'[Len(outbox')] = w
    BY <2>1, <2>2, <2>3, <2>4, Issue DEF TypeInv, TypeOK
  <2>6. to \in LastIssued(status')
    BY <1>2 DEF Enter, LastIssued
  <2>7. \A d \in Chains : chain'[d] \in Closing => status' = "completed"
    <3> SUFFICES ASSUME NEW d \in Chains, chain'[d] \in Closing
                 PROVE  status' = "completed"
      OBVIOUS
    <3>1. CASE d = c
      BY <1>2, <3>1 DEF Enter, TypeInv, TypeOK
    <3>2. CASE d # c
      <4>1. status = "completed"
        BY <1>2, <3>2 DEF Enter, Pipeline, Closing, TypeInv, TypeOK
      <4>2. QED
        BY <1>2, <4>1 DEF Enter
    <3>3. QED
      BY <3>1, <3>2
  <2>8. QED
    BY <2>1, <2>5, <2>6, <2>7 DEF Pipeline, Closing
<1>3. CASE Enter(c, "accepted", "arrived", "set_arrived")
  BY <1>2, <1>3 DEF LocalStatus, Waiting, Closing
<1>4. CASE Enter(c, "arrived", "returning", "set_returning")
  BY <1>2, <1>4 DEF LocalStatus, Waiting, Closing
<1>5. CASE Enter(c, "returning", "arrived_at_gas_station", "set_at_gas_station")
  BY <1>2, <1>5 DEF LocalStatus, Waiting, Closing
<1>6. CASE Enter(c, "arrived_at_gas_station", "completed", "set_completed")
  BY <1>2, <1>6 DEF LocalStatus, Waiting, Closing
<1>7. CASE Enter(c, "completed", "completed", "set_completed_again")
  BY <1>2, <1>7 DEF LocalStatus, Waiting, Closing
<1>8. QED
  BY <1>3, <1>4, <1>5, <1>6, <1>7 DEF TokenRead, Branch

\* endTheTrip issues the fare and then "ended": two writes, one after the other.
LEMMA PipelineFinish ==
    ASSUME TypeInv, Pipeline, NEW c \in Chains, FinishTrip(c)
    PROVE  Pipeline'
<1>1. Running /\ status = "completed" /\ status' = status /\ request' = request
  BY DEF FinishTrip, Running, Pipeline
<1>2. chain' \in [Chains -> Waiting \cup {"idle"}]
      /\ \A d \in Chains : chain'[d] = chain[d] \/ chain'[d] = "idle"
  BY StopsType DEF FinishTrip, Stops, TypeInv, TypeOK
<1>3. CASE ~CanPop
  BY <1>1, <1>2, <1>3, PipelineFrame DEF FinishTrip, Closing
<1>4. CASE CanPop
  <2> DEFINE n == Len(outbox)
  <2>1. outbox \in Seq(Write) /\ fareWrites \in Seq(Write) /\ Len(fareWrites) = 2
        /\ fareWrites[1].what = "fares" /\ fareWrites[2].what = "ended"
    BY DEF fareWrites, Write, LocalStatus, TypeInv, TypeOK
  <2>2. n \in Nat /\ (outbox = << >> <=> n = 0)
    BY <2>1, EmptySeq
  <2>3. /\ Len(outbox') = n + 2
        /\ \A i \in 1..n : outbox'[i] = outbox[i]
        /\ outbox'[n + 1].what = "fares"
        /\ outbox'[n + 2].what = "ended"
    <3>1. outbox' = outbox \o fareWrites
      BY <1>4 DEF FinishTrip
    <3>2. /\ Len(outbox') = n + 2
          /\ \A i \in 1..(n + 2) :
                outbox'[i] = IF i <= n THEN outbox[i] ELSE fareWrites[i - n]
      <4>1. /\ Len(outbox \o fareWrites) = Len(outbox) + Len(fareWrites)
            /\ \A i \in 1..(Len(outbox) + Len(fareWrites)) :
                  (outbox \o fareWrites)[i] =
                     IF i <= Len(outbox) THEN outbox[i] ELSE fareWrites[i - Len(outbox)]
        BY <2>1, ConcatProperties
      <4>2. QED
        BY <2>1, <3>1, <4>1
    <3>3. outbox'[n + 1] = fareWrites[1] /\ outbox'[n + 2] = fareWrites[2]
      <4>1. n + 1 \in 1..(n + 2) /\ n + 2 \in 1..(n + 2) /\ ~(n + 1 <= n)
            /\ ~(n + 2 <= n) /\ (n + 1) - n = 1 /\ (n + 2) - n = 2
        BY <2>2
      <4>2. QED
        BY <3>2, <4>1
    <3>4. QED
      BY <2>1, <2>2, <3>2, <3>3
  <2>4. (outbox # << >> => CanApply(request, outbox[1].what))'
    <3>1. CASE n = 0
      <4>1. outbox'[1].what = "fares"
        BY <2>3, <3>1
      <4>2. QED
        BY <1>1, <2>2, <3>1, <4>1 DEF Pipeline, CanApply
    <3>2. CASE n # 0
      <4>1. outbox'[1] = outbox[1]
        BY <2>2, <2>3, <3>2
      <4>2. QED
        BY <1>1, <2>2, <3>2, <4>1 DEF Pipeline
    <3>3. QED
      BY <3>1, <3>2
  <2>5. ASSUME NEW i \in 1..(Len(outbox') - 1)
        PROVE  Continues(outbox'[i].what, outbox'[i + 1].what)
    <3>1. CASE i = n + 1
      BY <2>2, <2>3, <3>1 DEF Continues
    <3>2. CASE i = n
      <4>1. outbox # << >> /\ outbox[n].what \in {"completed", "ended"}
        BY <1>1, <2>2, <3>2 DEF Pipeline, LastIssued
      <4>2. outbox'[i] = outbox[n] /\ outbox'[i + 1].what = "fares"
        BY <2>2, <2>3, <3>2
      <4>3. QED
        BY <4>1, <4>2 DEF Continues
    <3>3. CASE i # n /\ i # n + 1
      <4>1. i \in 1..(n - 1) /\ i \in 1..n /\ i + 1 \in 1..n
        BY <2>2, <2>3, <3>3
      <4>2. QED
        BY <2>3, <4>1 DEF Pipeline
    <3>4. QED
      BY <3>1, <3>2, <3>3
  <2>6. outbox' # << >> /\ outbox'[Len(outbox')].what = "ended"
    BY <2>2, <2>3
  <2>7. "ended" \in LastIssued(status')
    BY <1>1 DEF LastIssued
  <2>8. \A d \in Chains : chain'[d] \in Closing => status' = "completed"
    BY <1>1
  <2>9. QED
    BY <2>4, <2>5, <2>6, <2>7, <2>8 DEF Pipeline, Closing
<1>5. QED
  BY <1>3, <1>4

\* After a write is applied the database can take the one that follows it.
LEMMA CanApplyNext ==
    ASSUME request \in Lifecycle!Request, NEW wr \in Write, NEW w,
           CanApply(request, wr.what), Continues(wr.what, w)
    PROVE  CanApply(Applied(wr), w)
BY DEF CanApply, Continues, Applied, Lifecycle!Request

\* The state a request is in after the last write under way was applied.
LEMMA CaughtUp ==
    ASSUME request \in Lifecycle!Request, NEW wr \in Write, status \in LocalStatus,
           CanApply(request, wr.what), wr.what \in LastIssued(status)
    PROVE  /\ Applied(wr).driver /\ Applied(wr).history
           /\ Applied(wr).stage \in IF status = "completed" THEN {"completed", "ended"}
                                    ELSE {status}
<1>1. CASE status = "accepted"
  BY <1>1 DEF CanApply, Applied, LastIssued, Lifecycle!Request
<1>2. CASE status = "completed"
  BY <1>2 DEF CanApply, Applied, LastIssued, Lifecycle!Request
<1>3. CASE status \in {"arrived", "returning", "arrived_at_gas_station"}
  BY <1>3 DEF CanApply, Applied, LastIssued, Lifecycle!Request
<1>4. QED
  BY <1>1, <1>2, <1>3 DEF LocalStatus

\* The database takes the first write under way.
LEMMA PipelineApply ==
    ASSUME TypeInv, Pipeline, Apply
    PROVE  Pipeline'
<1> DEFINE n == Len(outbox)
<1>1. outbox \in Seq(Write) /\ outbox # << >> /\ request \in Lifecycle!Request
      /\ status \in LocalStatus
  BY DEF Apply, TypeInv, TypeOK
<1>2. n \in Nat \ {0} /\ Head(outbox) = outbox[1] /\ outbox[1] \in Write
  BY <1>1, EmptySeq
<1>3. /\ Len(outbox') = n - 1
      /\ \A i \in 1..(n - 1) : outbox'[i] = outbox[i + 1]
      /\ outbox' \in Seq(Write)
  <2>1. outbox' = Tail(outbox)
    BY DEF Apply
  <2>2. QED
    BY <1>1, <2>1, HeadTailProperties
<1>4. request' = Applied(outbox[1]) /\ status' = status /\ chain' = chain
      /\ mounted' = mounted
  BY <1>2 DEF Apply, screen, nav
<1>5. CanApply(request, outbox[1].what)
  BY <1>1 DEF Pipeline
<1>6. Running' => Running
  BY <1>4 DEF Running
<1>7. ASSUME outbox' # << >>
      PROVE  CanApply(request', outbox'[1].what)
  <2>1. n - 1 \in Nat \ {0}
    BY <1>3, <1>7, EmptySeq
  <2>2. outbox'[1] = outbox[2] /\ Continues(outbox[1].what, outbox[2].what)
    BY <1>2, <1>3, <2>1 DEF Pipeline
  <2>3. CanApply(Applied(outbox[1]), outbox[2].what)
    BY <1>1, <1>2, <1>5, <2>2, CanApplyNext
  <2>4. QED
    BY <1>4, <2>2, <2>3
<1>8. ASSUME NEW i \in 1..(Len(outbox') - 1)
      PROVE  Continues(outbox'[i].what, outbox'[i + 1].what)
  <2>1. i \in 1..(n - 1) /\ i + 1 \in 1..(n - 1) /\ i + 1 \in 1..(n - 1)
    BY <1>2, <1>3
  <2>2. outbox'[i] = outbox[i + 1] /\ outbox'[i + 1] = outbox[(i + 1) + 1]
    BY <1>3, <2>1
  <2>3. QED
    BY <2>1, <2>2 DEF Pipeline
<1>9. ASSUME Running', outbox' # << >>
      PROVE  outbox'[Len(outbox')].what \in LastIssued(status')
  <2>1. n - 1 \in Nat \ {0}
    BY <1>3, <1>9, EmptySeq
  <2>2. outbox'[Len(outbox')] = outbox[n]
    BY <1>2, <1>3, <2>1
  <2>3. LastIssued(status') = LastIssued(status)
    BY <1>4
  <2>4. QED
    BY <1>1, <1>6, <1>9, <2>2, <2>3 DEF Pipeline
<1>10. ASSUME Running', outbox' = << >>
       PROVE  /\ request'.driver /\ request'.history
              /\ request'.stage \in IF status' = "completed" THEN {"completed", "ended"}
                                    ELSE {status'}
  <2>1. n = 1
    BY <1>2, <1>3, <1>10, EmptySeq
  <2>2. outbox[1].what \in LastIssued(status)
    BY <1>1, <1>6, <1>10, <2>1 DEF Pipeline
  <2>3. QED
    BY <1>1, <1>2, <1>4, <1>5, <2>2, CaughtUp
<1>11. \A c \in Chains : chain'[c] \in Closing => status' = "completed"
  BY <1>4 DEF Pipeline, Closing
<1>12. QED
  BY <1>7, <1>8, <1>9, <1>10, <1>11 DEF Pipeline, Closing

\* The other steps of the handlers.
LEMMA PipelineHandler ==
    ASSUME TypeInv, Pipeline, NEW c \in Chains, Handler(c)
    PROVE  Pipeline'
<1> USE DEF db, nav
<1>1. CASE TokenRead(c)
  BY <1>1, PipelineEnter
<1>2. CASE FinishTrip(c)
  BY <1>2, PipelineFinish
<1>3. CASE ~TokenRead(c) /\ ~FinishTrip(c)
  <2>1. Running
    <3>1. mounted \/ chain[c] # "idle"
      BY <1>3 DEF Handler, Tap, ClientIdRead, ReadFails, DirectionsThrow, DirectionsNull,
         Directions, Directions2, NotifiedArrived, NotifiedAtGasStation,
         NotifyCompletedFails, EndTheTrip
    <3>2. QED
      BY <3>1 DEF Running
  <2>2. outbox' = outbox /\ status' = status /\ request' = request
    BY <1>3 DEF Handler, Tap, ClientIdRead, ReadFails, DirectionsThrow, DirectionsNull,
       Directions, Directions2, NotifiedArrived, NotifiedAtGasStation,
       NotifyCompletedFails, EndTheTrip
  <2>3. \E w \in {"client_id", "token", "idle", "notify_arrived", "end_directions"} :
           /\ chain' = [chain EXCEPT ![c] = w]
           /\ w = "end_directions" => chain[c] \in Closing
    BY <1>3 DEF Handler, Tap, ClientIdRead, ReadFails, DirectionsThrow, DirectionsNull,
       Directions, Directions2, NotifiedArrived, NotifiedAtGasStation,
       NotifyCompletedFails, EndTheTrip, Stops, Closing
  <2>4. \A d \in Chains : chain'[d] \in Closing => chain[d] \in Closing
    BY <2>3 DEF TypeInv, TypeOK, Closing
  <2>5. QED
    BY <2>1, <2>2, <2>4, PipelineFrame
<1>4. QED
  BY <1>1, <1>2, <1>3

LEMMA PipelineNext == TypeInv /\ Pipeline /\ [Next]_vars => Pipeline'
<1> SUFFICES ASSUME TypeInv, Pipeline, [Next]_vars PROVE Pipeline'
  OBVIOUS
<1> USE DEF stream, effects, screen, db, nav
<1>1. ASSUME NEW c \in Chains, Handler(c) PROVE Pipeline'
  BY <1>1, PipelineHandler
<1>2. CASE Apply
  BY <1>2, PipelineApply
<1>3. CASE Ack
  <2> DEFINE c == Head(acks)
  <2>1. c \in Chains
    BY <1>3, HeadTailProperties DEF Ack, TypeInv, TypeOK
  <2>2. chain[c] # "idle"
    BY <1>3 DEF Ack, AfterArrived, AfterReturning, AfterAtGasStation, AfterCompleted,
       AfterCompletedAgain
  <2>3. \E w \in {"idle", "directions", "notify_at_gas_station", "directions2",
                  "notify_completed"} :
           /\ chain' = [chain EXCEPT ![c] = w]
           /\ w = "notify_completed" => chain[c] \in Closing
    BY <1>3 DEF Ack, AfterArrived, AfterReturning, AfterAtGasStation, AfterCompleted,
       AfterCompletedAgain, Stops, Closing
  <2>4. \A d \in Chains : chain'[d] \in Closing => chain[d] \in Closing
    BY <2>1, <2>3 DEF TypeInv, TypeOK, Closing
  <2>5. Running
    BY <2>1, <2>2 DEF Running
  <2>6. outbox' = outbox /\ status' = status /\ request' = request
    BY <1>3 DEF Ack
  <2>7. QED
    BY <2>4, <2>5, <2>6, PipelineFrame
<1>4. CASE ClientCancels
  <2>1. request'.stage = request.stage /\ request'.driver = request.driver
        /\ request'.history = request.history /\ request'.fares = request.fares
    BY <1>4 DEF ClientCancels, TypeInv, TypeOK, Lifecycle!Request
  <2>2. QED
    BY <1>4, <2>1, PipelineFrame DEF ClientCancels, Running
<1>5. CASE MapCreated
  BY <1>5, PipelineFrame DEF MapCreated, Running
<1>6. CASE MapDirections
  BY <1>6, PipelineFrame DEF MapDirections, Running
<1>7. CASE MapDirectionsFail
  BY <1>7, PipelineFrame DEF MapDirectionsFail, Running
<1>8. CASE IconLoaded
  BY <1>8, PipelineFrame DEF IconLoaded, Running
<1>9. CASE PositionEvent
  BY <1>9, PipelineFrame DEF PositionEvent, Running
<1>10. CASE EtaAnswer
  BY <1>10, PipelineFrame DEF EtaAnswer, Running
<1>11. CASE Back
  BY <1>11, PipelineFrame DEF Back, Running
<1>12. CASE Done
  BY <1>12, PipelineFrame DEF Done, Running
<1>13. CASE Dispose
  BY <1>13, PipelineFrame DEF Dispose, Running
<1>14. CASE Crash
  <2>1. outbox' = << >> /\ ~mounted' /\ \A c \in Chains : chain'[c] = "idle"
    BY <1>14 DEF Crash
  <2>2. ~Running'
    BY <2>1 DEF Running
  <2>3. \A i \in 1..(Len(outbox') - 1) : Continues(outbox'[i].what, outbox'[i + 1].what)
    BY <2>1
  <2>4. QED
    BY <2>1, <2>2, <2>3 DEF Pipeline
<1>15. CASE UNCHANGED vars
  BY <1>15, PipelineFrame DEF vars, Running
<1>16. QED
  BY <1>1, <1>2, <1>3, <1>4, <1>5, <1>6, <1>7, <1>8, <1>9, <1>10, <1>11, <1>12,
     <1>13, <1>14, <1>15 DEF Next

-----------------------------------------------------------------------------
(* What the client sees                                                    *)

Inv == TypeInv /\ Pipeline /\ EndedHasFares

\* Only Apply and ClientCancels touch the request.
LEMMA RequestChanges ==
    ASSUME TypeInv, [Next]_vars
    PROVE  \/ request' = request
           \/ Apply
           \/ ClientCancels
<1> USE DEF db, nav, screen
<1>1. ASSUME NEW c \in Chains, Handler(c) PROVE request' = request
  BY <1>1 DEF Handler, Tap, ClientIdRead, ReadFails, TokenRead, Branch, DirectionsThrow,
     DirectionsNull, Directions, Directions2, NotifiedArrived, NotifiedAtGasStation,
     NotifyCompletedFails, EndTheTrip, FinishTrip
<1>2. Ack \/ MapCreated \/ MapDirections \/ MapDirectionsFail \/ IconLoaded
      \/ PositionEvent \/ EtaAnswer \/ Back \/ Done \/ Dispose \/ Crash
      => request' = request
  BY DEF Ack, MapCreated, MapDirections, MapDirectionsFail, IconLoaded, PositionEvent,
     EtaAnswer, Back, Done, Dispose, Crash
<1>3. UNCHANGED vars => request' = request
  BY DEF vars
<1>4. QED
  BY <1>1, <1>2, <1>3 DEF Next

\* The first write under way is one the database can take.
LEMMA AppliedWrite ==
    ASSUME TypeInv, Pipeline, Apply
    PROVE  \E w \in Write : request' = Applied(w) /\ CanApply(request, w.what)
<1>1. Head(outbox) = outbox[1] /\ Head(outbox) \in Write /\ outbox # << >>
  BY HeadTailProperties DEF Apply, TypeInv, TypeOK
<1>2. QED
  BY <1>1 DEF Apply, Pipeline

LEMMA InvNext == Inv /\ [Next]_vars => Inv'
<1> SUFFICES ASSUME Inv, [Next]_vars PROVE Inv'
  OBVIOUS
<1>1. TypeInv' /\ Pipeline'
  BY TypeNext, PipelineNext DEF Inv
<1>2. EndedHasFares'
  <2>1. CASE request' = request
    BY <2>1 DEF Inv, EndedHasFares
  <2>2. CASE Apply
    <3>1. PICK w \in Write : request' = Applied(w) /\ CanApply(request, w.what)
      BY <2>2, AppliedWrite DEF Inv
    <3>2. QED
      BY <3>1 DEF Applied, CanApply, Inv, EndedHasFares, TypeInv, TypeOK, Lifecycle!Request
  <2>3. CASE ClientCancels
    BY <2>3 DEF ClientCancels, Inv, EndedHasFares, TypeInv, TypeOK, Lifecycle!Request
  <2>4. QED
    BY <2>1, <2>2, <2>3, RequestChanges DEF Inv
<1>3. QED
  BY <1>1, <1>2 DEF Inv

LEMMA InvInit == Init => Inv
<1>1. Init => EndedHasFares
  BY DEF Init, EndedHasFares, Lifecycle!NewRequest
<1>2. QED
  BY <1>1, TypeInit, PipelineInit DEF Inv

\* The writes under way always lead from the database's request to the stage
\* the screen believes to be in, whatever the handlers in flight.
THEOREM PipelineCorrect == Spec => []Pipeline
<1>1. Inv => Pipeline
  BY DEF Inv
<1>2. QED
  BY <1>1, InvInit, InvNext, PTL DEF Spec

\* No request is "ended" in the database before its fare is recorded there,
\* also when the process dies between the two writes.
THEOREM FaresBeforeEnd == Spec => []EndedHasFares
<1>1. Inv => EndedHasFares
  BY DEF Inv
<1>2. QED
  BY <1>1, InvInit, InvNext, PTL DEF Spec

\* The order of the stages, as pairs.
LEMMA FollowsPairs ==
    /\ Lifecycle!Follows("requested", "accepted")
    /\ Lifecycle!Follows("accepted", "arrived")
    /\ Lifecycle!Follows("arrived", "returning")
    /\ Lifecycle!Follows("returning", "arrived_at_gas_station")
    /\ Lifecycle!Follows("arrived_at_gas_station", "completed")
    /\ Lifecycle!Follows("completed", "ended")
<1>1. Len(Lifecycle!Stages) = 7
  BY DEF Lifecycle!Stages
<1>2. ASSUME NEW i \in 1..6
      PROVE  Lifecycle!Follows(Lifecycle!Stages[i], Lifecycle!Stages[i + 1])
  BY <1>1 DEF Lifecycle!Follows
<1>3. /\ Lifecycle!Stages[1] = "requested" /\ Lifecycle!Stages[2] = "accepted"
      /\ Lifecycle!Stages[3] = "arrived" /\ Lifecycle!Stages[4] = "returning"
      /\ Lifecycle!Stages[5] = "arrived_at_gas_station"
      /\ Lifecycle!Stages[6] = "completed" /\ Lifecycle!Stages[7] = "ended"
  BY DEF Lifecycle!Stages
<1>4. /\ Lifecycle!Follows(Lifecycle!Stages[1], Lifecycle!Stages[2])
      /\ Lifecycle!Follows(Lifecycle!Stages[2], Lifecycle!Stages[3])
      /\ Lifecycle!Follows(Lifecycle!Stages[3], Lifecycle!Stages[4])
      /\ Lifecycle!Follows(Lifecycle!Stages[4], Lifecycle!Stages[5])
      /\ Lifecycle!Follows(Lifecycle!Stages[5], Lifecycle!Stages[6])
      /\ Lifecycle!Follows(Lifecycle!Stages[6], Lifecycle!Stages[7])
  BY <1>2
<1>5. QED
  BY <1>3, <1>4

\* A write the database can take is a step of the lifecycle, or changes nothing.
LEMMA AppliedRefines ==
    ASSUME request \in Lifecycle!Request, EndedHasFares, NEW w \in Write,
           CanApply(request, w.what), request' = Applied(w)
    PROVE  Lifecycle!Next \/ request' = request
<1> USE DEF CanApply, Applied
<1>1. CASE w.what \in {"driver", "history"}
  BY <1>1 DEF Lifecycle!Next, Lifecycle!Identify
<1>2. CASE w.what = "fares"
  <2>1. request' = [request EXCEPT !.fares = TRUE]
    BY <1>2
  <2>2. CASE request.stage = "completed"
    BY <1>2, <2>1, <2>2 DEF Lifecycle!Next, Lifecycle!Price
  <2>3. CASE request.stage = "ended"
    <3>1. request.fares = TRUE
      BY <2>3 DEF EndedHasFares, Lifecycle!Request
    <3>2. QED
      BY <2>1, <3>1 DEF Lifecycle!Request
  <2>4. QED
    BY <1>2, <2>2, <2>3
<1>3. CASE w.what = "completed" /\ request.stage \in {"completed", "ended"}
  BY <1>3 DEF Lifecycle!Next, Lifecycle!AnnounceAgain, Lifecycle!At
<1>4. CASE w.what = "ended" /\ request.stage = "ended"
  BY <1>4 DEF Lifecycle!Next, Lifecycle!EndAgain, Lifecycle!At
<1>5. CASE \/ w.what \in {"accepted", "arrived", "returning", "arrived_at_gas_station"}
           \/ w.what = "completed" /\ request.stage = "arrived_at_gas_station"
           \/ w.what = "ended" /\ request.stage = "completed"
  <2>1. request' = Lifecycle!At(w.what)
    BY <1>5 DEF Lifecycle!At
  <2>2. Lifecycle!Follows(request.stage, w.what)
    BY <1>5, FollowsPairs
  <2>3. w.what \in Lifecycle!Stage
    BY <1>5, StageSet
  <2>4. w.what \notin {"requested", "accepted"} => request.driver /\ request.history
    BY <1>5
  <2>5. w.what = "ended" => request.fares
    OBVIOUS
  <2>6. Lifecycle!Advance
    BY <2>1, <2>2, <2>3, <2>4, <2>5 DEF Lifecycle!Advance
  <2>7. QED
    BY <2>6 DEF Lifecycle!Next
<1>6. w.what \in {"accepted", "driver", "history", "arrived", "returning",
                  "arrived_at_gas_station", "completed", "fares", "ended"}
  BY DEF Write, LocalStatus
<1>7. QED
  BY <1>1, <1>2, <1>3, <1>4, <1>5, <1>6

\* The delivery screen implements the lifecycle: whatever the rider taps, the
\* services answer and the process suffers, the client sees no stage skipped, no
\* anonymous rider at its door and no ended trip without a fare.
THEOREM LifecycleImplemented == Spec => ImplementsLifecycle
<1>1. Init => Lifecycle!Init
  BY DEF Init, Lifecycle!Init
<1>2. Inv /\ [Next]_vars => [Lifecycle!Next]_request
  <2> SUFFICES ASSUME Inv, [Next]_vars PROVE Lifecycle!Next \/ request' = request
    OBVIOUS
  <2>1. CASE Apply
    <3>1. PICK w \in Write : request' = Applied(w) /\ CanApply(request, w.what)
      BY <2>1, AppliedWrite DEF Inv
    <3>2. QED
      BY <3>1, AppliedRefines DEF Inv, TypeInv, TypeOK
  <2>2. CASE ClientCancels
    BY <2>2 DEF ClientCancels, Lifecycle!Next, Lifecycle!ClientCancels
  <2>3. QED
    BY <2>1, <2>2, RequestChanges DEF Inv
<1>3. QED
  BY <1>1, <1>2, InvInit, InvNext, PTL DEF Spec, ImplementsLifecycle, Lifecycle!Spec

-----------------------------------------------------------------------------
(* The request for payment                                                 *)

PaidInv == TypeInv /\ StationOnce /\ PaidOnce

\* Steps that leave the gas-station branch and the stage alone.
LEMMA StationFrame ==
    ASSUME StationOnce, PaidOnce, status' = status, payRequests' = payRequests,
           \A c \in Chains : InStationBranch(c)' => InStationBranch(c)
    PROVE  StationOnce' /\ PaidOnce'
BY DEF StationOnce, PaidOnce

LEMMA StationHandler ==
    ASSUME TypeInv, StationOnce, PaidOnce, NEW c \in Chains, Handler(c)
    PROVE  StationOnce' /\ PaidOnce'
<1>1. CASE TokenRead(c)
  <2>1. payRequests' = payRequests
    BY <1>1 DEF TokenRead, effects
  <2>2. \A d \in Chains : d # c => (InStationBranch(d)' <=> InStationBranch(d))
    BY <1>1 DEF TokenRead, Branch, Enter, InStationBranch, TypeInv, TypeOK
  <2>3. CASE Enter(c, "returning", "arrived_at_gas_station", "set_at_gas_station")
    BY <2>1, <2>2, <2>3 DEF Enter, StationOnce, PaidOnce, TypeInv, TypeOK
  <2>4. CASE ~Enter(c, "returning", "arrived_at_gas_station", "set_at_gas_station")
    <3>1. ~InStationBranch(c)'
      BY <1>1, <2>4 DEF TokenRead, Branch, Enter, InStationBranch, TypeInv, TypeOK
    <3>2. status' \in {"accepted", "arrived", "returning"} =>
             status \in {"accepted", "arrived", "returning"}
      BY <1>1, <2>4 DEF TokenRead, Branch, Enter
    <3>3. QED
      BY <2>1, <2>2, <3>1, <3>2 DEF StationOnce, PaidOnce
  <2>5. QED
    BY <2>3, <2>4
<1>2. CASE NotifiedAtGasStation(c)
  <2>1. InStationBranch(c) /\ ~InStationBranch(c)' /\ status' = status
    BY <1>2 DEF NotifiedAtGasStation, Stops, InStationBranch, TypeInv, TypeOK
  <2>2. \A d \in Chains : d # c => (InStationBranch(d)' <=> InStationBranch(d))
    BY <1>2 DEF NotifiedAtGasStation, Stops, InStationBranch, TypeInv, TypeOK
  <2>3. payRequests = 0
    BY <2>1 DEF StationOnce, PaidOnce, TypeInv, TypeOK
  <2>4. payRequests' \in {0, 1}
    BY <1>2, <2>3 DEF NotifiedAtGasStation
  <2>5. \A d \in Chains : ~InStationBranch(d)'
    BY <2>1, <2>2 DEF StationOnce
  <2>6. status' \notin {"accepted", "arrived", "returning"}
    BY <2>1 DEF StationOnce
  <2>7. QED
    BY <2>4, <2>5, <2>6 DEF StationOnce, PaidOnce
<1>3. CASE ~TokenRead(c) /\ ~NotifiedAtGasStation(c)
  <2>1. status' = status /\ payRequests' = payRequests
    BY <1>3 DEF Handler, Tap, ClientIdRead, ReadFails, DirectionsThrow, DirectionsNull,
       Directions, Directions2, NotifiedArrived, NotifyCompletedFails, EndTheTrip,
       FinishTrip, effects
  <2>2. \E w \in {"client_id", "token", "idle", "notify_arrived", "end_directions"} :
           chain' = [chain EXCEPT ![c] = w]
    BY <1>3 DEF Handler, Tap, ClientIdRead, ReadFails, DirectionsThrow, DirectionsNull,
       Directions, Directions2, NotifiedArrived, NotifyCompletedFails, EndTheTrip,
       FinishTrip, Stops
  <2>3. \A d \in Chains : InStationBranch(d)' => InStationBranch(d)
    BY <2>2 DEF InStationBranch, TypeInv, TypeOK
  <2>4. QED
    BY <2>1, <2>3, StationFrame
<1>4. QED
  BY <1>1, <1>2, <1>3

LEMMA PaidNext == PaidInv /\ [Next]_vars => PaidInv'
<1> SUFFICES ASSUME PaidInv, [Next]_vars PROVE PaidInv'
  OBVIOUS
<1> USE DEF PaidInv, screen, effects
<1>1. TypeInv'
  BY TypeNext
<1>2. StationOnce' /\ PaidOnce'
  <2>1. ASSUME NEW c \in Chains, Handler(c) PROVE StationOnce' /\ PaidOnce'
    BY <2>1, StationHandler
  <2>2. CASE Ack
    <3> DEFINE c == Head(acks)
    <3>1. c \in Chains
      BY <2>2, HeadTailProperties DEF Ack, TypeInv, TypeOK
    <3>2. \E w \in {"idle", "directions", "notify_at_gas_station", "directions2",
                    "notify_completed"} :
             /\ chain' = [chain EXCEPT ![c] = w]
             /\ w = "notify_at_gas_station" => chain[c] = "set_at_gas_station"
      BY <2>2 DEF Ack, AfterArrived, AfterReturning, AfterAtGasStation, AfterCompleted,
         AfterCompletedAgain, Stops
    <3>3. \A d \in Chains : InStationBranch(d)' => InStationBranch(d)
      BY <3>1, <3>2 DEF InStationBranch, TypeInv, TypeOK
    <3>4. QED
      BY <2>2, <3>3, StationFrame DEF Ack
  <2>3. CASE Crash
    <3>1. \A d \in Chains : ~InStationBranch(d)'
      BY <2>3 DEF Crash, InStationBranch
    <3>2. QED
      BY <2>3, <3>1, StationFrame DEF Crash
  <2>4. Apply \/ ClientCancels \/ MapCreated \/ MapDirections \/ MapDirectionsFail
        \/ IconLoaded \/ PositionEvent \/ EtaAnswer \/ Back \/ Done \/ Dispose
        \/ UNCHANGED vars
        => status' = status /\ chain' = chain /\ payRequests' = payRequests
    BY DEF Apply, ClientCancels, MapCreated, MapDirections, MapDirectionsFail, IconLoaded,
       PositionEvent, EtaAnswer, Back, Done, Dispose, vars
  <2>5. status' = status /\ chain' = chain /\ payRequests' = payRequests
        => StationOnce' /\ PaidOnce'
    BY StationFrame DEF InStationBranch
  <2>6. QED
    BY <2>1, <2>2, <2>3, <2>4, <2>5 DEF Next
<1>3. QED
  BY <1>1, <1>2

\* However many handlers the rider's taps start, the message that asks for the
\* refill to be paid is sent at most once in a trip.
THEOREM PaidAtMostOnce == Spec => []PaidOnce
<1>1. Init => PaidInv
  BY TypeInit DEF PaidInv, Init, StationOnce, PaidOnce, InStationBranch
<1>2. PaidInv => PaidOnce
  BY DEF PaidInv
<1>3. QED
  BY <1>1, <1>2, PaidNext, PTL DEF Spec

-----------------------------------------------------------------------------
(* The request of updateRideDetails                                        *)

\* A request in flight keeps isRequestingDirection set.
EtaInv == TypeInv /\ EtaSingleFlight /\ (etaRequests > 0 => requesting)

LEMMA EtaNext == EtaInv /\ [Next]_vars => EtaInv'
<1> SUFFICES ASSUME EtaInv, [Next]_vars PROVE EtaInv'
  OBVIOUS
<1> USE DEF EtaInv, EtaSingleFlight
<1>1. TypeInv' /\ etaRequests \in Nat /\ requesting \in BOOLEAN
  BY TypeNext DEF TypeInv, TypeOK
<1>2. CASE PositionEvent
  BY <1>1, <1>2 DEF PositionEvent, updateRideDetails
<1>3. CASE EtaAnswer
  BY <1>1, <1>3 DEF EtaAnswer
<1>4. CASE Crash
  BY <1>1, <1>4 DEF Crash
<1>5. CASE UNCHANGED <<requesting, etaRequests>>
  BY <1>1, <1>5
<1>6. ASSUME NEW c \in Chains, Handler(c) PROVE UNCHANGED <<requesting, etaRequests>>
  BY <1>6 DEF Handler, Tap, ClientIdRead, ReadFails, TokenRead, DirectionsThrow,
     DirectionsNull, Directions, Directions2, NotifiedArrived, NotifiedAtGasStation,
     NotifyCompletedFails, EndTheTrip, FinishTrip, stream
<1>7. Apply \/ Ack \/ ClientCancels \/ MapCreated \/ MapDirections \/ MapDirectionsFail
      \/ IconLoaded \/ Back \/ Done \/ Dispose \/ UNCHANGED vars
      => UNCHANGED <<requesting, etaRequests>>
  BY DEF Apply, Ack, ClientCancels, MapCreated, MapDirections, MapDirectionsFail,
     IconLoaded, Back, Done, Dispose, vars, screen, stream
<1>8. QED
  BY <1>2, <1>3, <1>4, <1>5, <1>6, <1>7 DEF Next

\* However fast the positions come, and although an exception leaves the flag
\* set for good, updateRideDetails has one directions request in flight at most.
THEOREM EtaOneAtATime == Spec => []EtaSingleFlight
<1>1. Init => EtaInv
  BY TypeInit DEF EtaInv, Init, EtaSingleFlight
<1>2. EtaInv => EtaSingleFlight
  BY DEF EtaInv
<1>3. QED
  BY <1>1, <1>2, EtaNext, PTL DEF Spec
=============================================================================
