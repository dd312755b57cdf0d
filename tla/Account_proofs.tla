--------------------------- MODULE Account_proofs ----------------------------
(***************************************************************************)
(* Proofs about Account for any sets of accounts and of handlers, any      *)
(* number of crashes and any faults: type correctness, the order of the    *)
(* two updates of a profile, the images of a record, that saving a profile *)
(* never takes an activation away, and that nobody without an account is   *)
(* left registered.                                                        *)
(***************************************************************************)
EXTENDS Account, SequenceTheorems, TLAPS

USE NoOneAssumption, ImagesAssumption, BoundsAssumption, FaultsAssumption

-----------------------------------------------------------------------------
(* The invariant                                                           *)

\* What a write not yet performed tells of the rest of the state.
PendingWrite(i) ==
    /\ outbox[i].what \notin {"profile", "car"} => outbox[i].by = NoOne
    /\ outbox[i].what \in {"profile", "car"} =>
          outbox[i].by \in Saves /\ save[outbox[i].by].phase = "update"
    /\ outbox[i].what = "profile" => save[outbox[i].by].acks = 0
    /\ outbox[i].what = "car" /\ i = 1 =>
          save[outbox[1].by].acks = 1 /\ record[outbox[1].account].details
    /\ outbox[i].what = "car" /\ i > 1 =>
          /\ outbox[i - 1].what = "profile"
          /\ outbox[i - 1].by = outbox[i].by
          /\ outbox[i - 1].account = outbox[i].account
    /\ outbox[i].what = "remove" => deletion.phase = "remove"
    /\ outbox[i].what = "register" =>
          auth[outbox[i].account] # "none" /\ ~record[outbox[i].account].registered
    /\ outbox[i].images \subseteq stored[outbox[i].account]

\* A handler issues one profile, an account is registered once, and one deletion
\* runs at a time.
SameWrite(v, w) ==
    /\ v.what = w.what
    /\ \/ v.what = "profile" /\ v.by = w.by
       \/ v.what = "register" /\ v.account = w.account
       \/ v.what = "remove"

Pending ==
    /\ \A i \in 1..Len(outbox) : PendingWrite(i)
    /\ \A i, j \in 1..Len(outbox) : SameWrite(outbox[i], outbox[j]) => i = j

Recorded ==
    /\ ProfileBeforeCar
    /\ ImagesUploaded
    /\ \A u \in Accounts : record[u].status # "null" => record[u].registered
    /\ \A u \in Accounts : auth[u] = "none" => ~record[u].registered
    /\ \A h \in Saves :
          save[h].phase = "upload" =>
             save[h].done \subseteq stored[save[h].account] /\ save[h].acks = 0

\* Who the home page's answers are for is known when one is waited for.
Waiting == /\ late["token"] > 0 => current # NoOne
           /\ late["slot"] > 0 => reference # NoOne

AccountInv == TypeOK /\ Waiting /\ Pending /\ Recorded

-----------------------------------------------------------------------------
(* Types                                                                   *)

LEMMA WriteIn ==
    ASSUME TypeOK, NEW i \in 1..Len(outbox)
    PROVE  outbox[i] \in Write
BY DEF TypeOK

\* A handler that is not idle has all its fields.
LEMMA SaveType ==
    ASSUME TypeOK, NEW h \in Saves, save[h].phase # "idle"
    PROVE  save[h] \in [phase : {"upload", "update"}, account : Accounts,
                        picked : SUBSET Images, done : SUBSET Images, acks : 0..2,
                        at : Nat]
BY DEF TypeOK, Save, Idle

LEMMA SigningType ==
    ASSUME TypeOK, signing.phase # "idle"
    PROVE  signing \in [phase : {"create", "login", "login_again"},
                        account : Accounts, exact : BOOLEAN, at : Nat]
BY DEF TypeOK, Signing, Idle

LEMMA DeletionType ==
    ASSUME TypeOK, deletion.phase # "idle"
    PROVE  deletion \in [phase : {"remove", "delete"}, account : Accounts]
BY DEF TypeOK, Deletion, Idle

LEMMA IdleTypes == /\ Idle \in Save /\ Idle \in Signing /\ Idle \in Deletion
                   /\ Idle.phase = "idle"
BY DEF Idle, Save, Signing, Deletion

\* The stacks the actions make of the stack of routes.
LEMMA RoutesType ==
    ASSUME TypeOK
    PROVE  /\ Len(routes) \in Nat
           /\ Len(routes) > 0 => Popped \in Seq(Route)
           /\ \A r \in Route : <<r>> \in Seq(Route) /\ Append(routes, r) \in Seq(Route)
           /\ Len(routes) > 0 => \A r \in Route : Append(Popped, r) \in Seq(Route)
<1>1. routes \in Seq(Route) /\ Len(routes) \in Nat
  BY DEF TypeOK
<1>2. ASSUME Len(routes) > 0 PROVE Popped \in Seq(Route)
  <2>1. Len(routes) - 1 \in Int
        /\ \A i \in 1..(Len(routes) - 1) : routes[i] \in Route
    BY <1>1, <1>2
  <2>2. QED
    BY <2>1, SubSeqProperties DEF Popped
<1>3. \A r \in Route : <<r>> \in Seq(Route) /\ Append(routes, r) \in Seq(Route)
  BY <1>1, AppendProperties
<1>4. ASSUME Len(routes) > 0, NEW r \in Route PROVE Append(Popped, r) \in Seq(Route)
  BY <1>2, <1>4, AppendProperties
<1>5. QED
  BY <1>1, <1>2, <1>3, <1>4

LEMMA RouteNames == {"onboarding", "auth", "details", "main", "busy"} \subseteq Route
BY DEF Route

LEMMA AccountInit == Init => AccountInv
<1> SUFFICES ASSUME Init PROVE AccountInv
  OBVIOUS
<1>1. Blank \in Record
  BY DEF Blank, Record
<1>2. TypeOK
  <2>1. record \in [Accounts -> Record]
    BY <1>1 DEF Init
  <2>2. outbox \in Seq(Write) /\ routes \in Seq(Route)
    BY DEF Init
  <2>3. auth \in [Accounts -> {"none", "exists", "deleted"}] /\ user \in Accounts \cup {NoOne}
        /\ stored \in [Accounts -> SUBSET Images]
    BY DEF Init
  <2>4. /\ signing \in Signing /\ save \in [Saves -> Save] /\ deletion \in Deletion
        /\ current \in Accounts \cup {NoOne} /\ reference \in Accounts \cup {NoOne}
        /\ late \in [Field -> 0..MaxLate]
    BY IdleTypes DEF Init
  <2>5. QED
    BY <2>1, <2>2, <2>3, <2>4 DEF Init, TypeOK
<1>3. Pending
  BY DEF Init, Pending
<1>4. Recorded
  BY IdleTypes DEF Init, Recorded, ProfileBeforeCar, ImagesUploaded, Blank
<1>5. Waiting
  BY DEF Init, Waiting, Field
<1>6. QED
  BY <1>2, <1>3, <1>4, <1>5 DEF AccountInv

\* The answers the home page waits for, and who they are for.
Homely == /\ current \in Accounts \cup {NoOne} /\ reference \in Accounts \cup {NoOne}
          /\ late \in [Field -> 0..MaxLate]
          /\ Waiting

\* Steps of the pages alone: the services, the database and the handlers of the
\* form and of the deletion are left alone.
Paging == UNCHANGED <<auth, db, save, deletion>>

PageStep == \/ StartRoute \/ OnboardingEnds \/ SigningFails \/ LoggedIn
            \/ LoggedInAgain \/ SecondLoginFails \/ SignOut \/ Back \/ UNCHANGED vars
            \/ HomeTab \/ TapAvailability \/ \E f \in Field : NoAnswer(f)
            \/ \E u \in Accounts : TapSignUp(u)
            \/ \E u \in Accounts, exact \in BOOLEAN : TapLogin(u, exact)

LEMMA PageStepPages == PageStep => Paging
BY DEF PageStep, Paging, StartRoute, OnboardingEnds, SigningFails, LoggedIn, LoggedInAgain,
   SecondLoginFails, SignOut, Back, TapSignUp, TapLogin, HomeTab, TapAvailability, NoAnswer,
   vars, service, db, tasks, home, bounds

LEMMA TopNotEmpty == ASSUME TypeOK, NEW r, OnTop(r) PROVE Len(routes) > 0
BY EmptySeq DEF OnTop, TypeOK

LEMMA PageStepType == TypeOK /\ Homely' /\ PageStep => TypeOK'
<1> SUFFICES ASSUME TypeOK, Homely', PageStep PROVE TypeOK'
  OBVIOUS
<1> USE DEF service, db, tasks, home, bounds
<1>1. auth' = auth /\ record' = record /\ stored' = stored /\ outbox' = outbox
      /\ save' = save /\ deletion' = deletion
  BY PageStepPages DEF Paging
<1>2. user' \in Accounts \cup {NoOne} /\ signing' \in Signing
  <2>1. CASE \E u \in Accounts : TapSignUp(u)
    BY <2>1, RoutesType DEF TapSignUp, TypeOK, Signing
  <2>2. CASE \E u \in Accounts, exact \in BOOLEAN : TapLogin(u, exact)
    BY <2>2, RoutesType DEF TapLogin, TypeOK, Signing
  <2>3. CASE LoggedIn
    <3>1. signing \in [phase : {"create", "login", "login_again"},
                       account : Accounts, exact : BOOLEAN, at : Nat]
      BY <2>3, SigningType DEF LoggedIn
    <3>2. QED
      BY <2>3, <3>1 DEF LoggedIn, TypeOK, Signing
  <2>4. CASE LoggedInAgain
    <3>1. signing.account \in Accounts
      BY <2>4, SigningType DEF LoggedInAgain
    <3>2. QED
      BY <2>4, <3>1, IdleTypes DEF LoggedInAgain, TypeOK
  <2>5. CASE SigningFails \/ SecondLoginFails \/ SignOut \/ StartRoute \/ OnboardingEnds
             \/ Back \/ UNCHANGED vars \/ HomeTab \/ TapAvailability
             \/ \E f \in Field : NoAnswer(f)
    BY <2>5, IdleTypes DEF SigningFails, SecondLoginFails, SignOut, StartRoute,
       OnboardingEnds, Back, HomeTab, TapAvailability, NoAnswer, vars, TypeOK
  <2>6. QED
    BY <2>1, <2>2, <2>3, <2>4, <2>5 DEF PageStep
<1>3. routes' \in Seq(Route)
  <2> USE RoutesType, RouteNames
  <2>1. CASE \E u \in Accounts : TapSignUp(u)
    BY <2>1 DEF TapSignUp
  <2>2. CASE \E u \in Accounts, exact \in BOOLEAN : TapLogin(u, exact)
    BY <2>2 DEF TapLogin
  <2>3. CASE SigningFails
    <3>1. PageThere("auth", signing.at) => Len(routes) > 0
      BY DEF PageThere, TypeOK
    <3>2. QED
      BY <2>3, <3>1 DEF SigningFails, TypeOK
  <2>4. CASE StartRoute \/ OnboardingEnds \/ LoggedInAgain \/ SignOut
    <3>1. \A r \in {"onboarding", "auth", "details", "main"} : <<r>> \in Seq(Route)
      OBVIOUS
    <3>2. CASE StartRoute
      BY <3>1, <3>2, Zenon DEF StartRoute
    <3>3. CASE OnboardingEnds \/ SignOut
      BY <3>1, <3>3 DEF OnboardingEnds, SignOut
    <3>4. CASE LoggedInAgain
      BY <3>1, <3>4 DEF LoggedInAgain, TypeOK
    <3>5. QED
      BY <2>4, <3>2, <3>3, <3>4
  <2>5. CASE Back
    BY <2>5 DEF Back
  <2>6. CASE \/ LoggedIn \/ SecondLoginFails \/ UNCHANGED vars \/ HomeTab
             \/ TapAvailability \/ \E f \in Field : NoAnswer(f)
    BY <2>6 DEF LoggedIn, SecondLoginFails, HomeTab, TapAvailability, NoAnswer, vars, TypeOK
  <2>7. QED
    BY <2>1, <2>2, <2>3, <2>4, <2>5, <2>6 DEF PageStep
<1>4. backs' \in 0..BackPresses /\ crashes' \in 0..Crashes
  BY DEF PageStep, StartRoute, OnboardingEnds, SigningFails, LoggedIn, LoggedInAgain,
     SecondLoginFails, SignOut, Back, TapSignUp, TapLogin, HomeTab, TapAvailability,
     NoAnswer, vars, TypeOK
<1>5. QED
  BY <1>1, <1>2, <1>3, <1>4 DEF TypeOK, Homely

LEMMA SaveUpdate ==
    ASSUME TypeOK, NEW h \in Saves, NEW r \in Save
    PROVE  [save EXCEPT ![h] = r] \in [Saves -> Save]
BY DEF TypeOK

LEMMA FormStepType ==
    ASSUME TypeOK, NEW h \in Saves,
           \/ \E picked \in SUBSET Images : TapSave(h, picked)
           \/ \E i \in Images : Uploaded(h, i)
           \/ UploadFails(h) \/ UpdateProfile(h) \/ ProfileSaved(h)
    PROVE  TypeOK'
<1> USE DEF service, db, tasks, home, bounds
<1>1. ASSUME NEW picked \in SUBSET Images, TapSave(h, picked) PROVE TypeOK'
  <2>1. user \in Accounts /\ Len(routes) \in Nat
    BY <1>1, RoutesType DEF TapSave, TypeOK
  <2>2. [phase |-> "upload", account |-> user, picked |-> picked, done |-> {}, acks |-> 0,
         at |-> Len(routes)] \in Save
    BY <2>1 DEF Save
  <2>3. save' \in [Saves -> Save] /\ routes' \in Seq(Route)
    BY <1>1, <2>2, SaveUpdate, RoutesType, RouteNames DEF TapSave
  <2>4. QED
    BY <1>1, <2>3 DEF TapSave, TypeOK
<1>2. ASSUME NEW i \in Images, Uploaded(h, i) PROVE TypeOK'
  <2>1. save[h] \in [phase : {"upload", "update"}, account : Accounts,
                     picked : SUBSET Images, done : SUBSET Images, acks : 0..2, at : Nat]
    BY <1>2, SaveType DEF Uploaded
  <2>2. [save[h] EXCEPT !.done = save[h].done \cup {i}] \in Save
    BY <2>1 DEF Save
  <2>3. save' = [save EXCEPT ![h] = [save[h] EXCEPT !.done = save[h].done \cup {i}]]
    BY <1>2 DEF Uploaded, TypeOK
  <2>4. save' \in [Saves -> Save]
    BY <2>2, <2>3, SaveUpdate
  <2>5. stored' \in [Accounts -> SUBSET Images]
    BY <1>2, <2>1 DEF Uploaded, TypeOK
  <2>6. QED
    BY <1>2, <2>4, <2>5 DEF Uploaded, TypeOK
<1>3. CASE UploadFails(h)
  BY <1>3, IdleTypes, SaveUpdate DEF UploadFails, TypeOK
<1>4. CASE UpdateProfile(h)
  <2>1. save[h] \in [phase : {"upload", "update"}, account : Accounts,
                     picked : SUBSET Images, done : SUBSET Images, acks : 0..2, at : Nat]
    BY <1>4, SaveType DEF UpdateProfile, AllUploaded
  <2>2. profileWrites(h) \in Seq(Write)
    <3>1. save[h].picked \cap {"rider"} \in SUBSET Images
          /\ save[h].picked \cap {"license", "ghana_card"} \in SUBSET Images
      BY <2>1
    <3>2. QED
      BY <2>1, <3>1 DEF profileWrites, Write
  <2>3. outbox' \in Seq(Write)
    BY <1>4, <2>2, ConcatProperties DEF UpdateProfile, TypeOK
  <2>4. [save[h] EXCEPT !.phase = "update"] \in Save
    BY <2>1 DEF Save
  <2>5. save' = [save EXCEPT ![h] = [save[h] EXCEPT !.phase = "update"]]
    BY <1>4 DEF UpdateProfile
  <2>6. save' \in [Saves -> Save]
    BY <2>4, <2>5, SaveUpdate
  <2>7. QED
    BY <1>4, <2>3, <2>6 DEF UpdateProfile, TypeOK
<1>5. CASE ProfileSaved(h)
  <2>1. save' \in [Saves -> Save]
    BY <1>5, IdleTypes, SaveUpdate DEF ProfileSaved
  <2>2. routes' \in Seq(Route)
    BY <1>5, RoutesType, RouteNames DEF ProfileSaved, TypeOK
  <2>3. QED
    BY <1>5, <2>1, <2>2 DEF ProfileSaved, TypeOK
<1>6. QED
  BY <1>1, <1>2, <1>3, <1>4, <1>5

\* The write performed, and the queue it leaves.
LEMMA FirstWrite ==
    ASSUME TypeOK, outbox # << >>
    PROVE  /\ 1 \in 1..Len(outbox) /\ Head(outbox) = outbox[1] /\ outbox[1] \in Write
           /\ Tail(outbox) \in Seq(Write) /\ Len(Tail(outbox)) = Len(outbox) - 1
           /\ \A i \in 1..Len(Tail(outbox)) :
                 i + 1 \in 1..Len(outbox) /\ Tail(outbox)[i] = outbox[i + 1]
BY HeadTailProperties, WriteIn DEF TypeOK

\* The home page's writes change its fields alone.
LEMMA PerformedField ==
    ASSUME NEW rec \in Record, NEW w \in Write,
           w.what \notin {"register", "profile", "car", "remove"}
    PROVE  \E fs \in SUBSET Field : Performed(rec, w) = [rec EXCEPT !.fields = fs]
<1>1. w.what \in Field \/ w.what = "no_token" \/ w.what = "no_slot"
  BY DEF Write, Field
<1>2. rec.fields \in SUBSET Field
  BY DEF Record
<1>3. CASE w.what \in Field
  <2>1. Performed(rec, w) = [rec EXCEPT !.fields = rec.fields \cup {w.what}]
    BY <1>3 DEF Performed, Field
  <2>2. QED
    BY <2>1, <1>2, <1>3
<1>4. CASE w.what = "no_token"
  <2>1. Performed(rec, w) = [rec EXCEPT !.fields = rec.fields \ {"token"}]
    BY <1>4 DEF Performed, Field
  <2>2. QED
    BY <2>1, <1>2
<1>5. CASE w.what = "no_slot"
  <2>1. Performed(rec, w) = [rec EXCEPT !.fields = rec.fields \ {"slot"}]
    BY <1>5 DEF Performed, Field
  <2>2. QED
    BY <2>1, <1>2
<1>6. QED
  BY <1>1, <1>3, <1>4, <1>5

\* What a write performed can do to a record.
LEMMA PerformedKeeps ==
    ASSUME NEW rec \in Record, NEW w \in Write
    PROVE  /\ w.what # "register" /\ ~rec.registered => ~Performed(rec, w).registered
           /\ w.what # "register" =>
                 Performed(rec, w).status = rec.status \/ Performed(rec, w) = Blank
           /\ w.what # "car" /\ (rec.car => rec.details) =>
                 (Performed(rec, w).car => Performed(rec, w).details)
           /\ Performed(rec, w).images \subseteq rec.images \cup w.images
           /\ (rec.status # "null" => rec.registered) =>
                 (Performed(rec, w).status # "null" => Performed(rec, w).registered)
<1> DEFINE new == Performed(rec, w)
<1>1. CASE w.what \in {"register", "profile", "car", "remove"}
  BY <1>1 DEF Performed, Updated, Record, Write, Blank, Field
<1>2. CASE w.what \notin {"register", "profile", "car", "remove"}
  <2>1. /\ new.registered = rec.registered /\ new.status = rec.status
        /\ new.details = rec.details /\ new.car = rec.car /\ new.images = rec.images
    BY <1>2, PerformedField DEF Record
  <2>2. QED
    BY <1>2, <2>1
<1>3. QED
  BY <1>1, <1>2

LEMMA PerformedType ==
    ASSUME NEW rec \in Record, NEW w \in Write
    PROVE  Performed(rec, w) \in Record
<1>1. Blank \in Record
  BY DEF Blank, Record
<1>2. CASE w.what = "register"
  BY <1>1, <1>2 DEF Performed, Record, Blank
<1>3. CASE w.what = "profile"
  BY <1>3 DEF Performed, Updated, Record, Write
<1>4. CASE w.what = "car"
  BY <1>4 DEF Performed, Record, Write
<1>5. CASE w.what = "remove"
  BY <1>1, <1>5 DEF Performed, Field
<1>6. CASE w.what \notin {"register", "profile", "car", "remove"}
  BY <1>6, PerformedField DEF Record
<1>7. QED
  BY <1>2, <1>3, <1>4, <1>5, <1>6 DEF Write

\* What performing a write changes besides the record.
LEMMA PerformCases ==
    ASSUME TypeOK, Pending, Perform
    PROVE  /\ outbox # << >> /\ outbox' = Tail(outbox)
           /\ record' = [record EXCEPT ![outbox[1].account] =
                            Performed(record[outbox[1].account], outbox[1])]
           /\ outbox[1].what \notin {"profile", "car"} => save' = save
           /\ outbox[1].what \in {"profile", "car"} =>
                 /\ outbox[1].by \in Saves
                 /\ save[outbox[1].by].phase = "update"
                 /\ save[outbox[1].by].acks \in {0, 1}
                 /\ save' = [save EXCEPT ![outbox[1].by] =
                       [save[outbox[1].by] EXCEPT !.acks = save[outbox[1].by].acks + 1]]
           /\ outbox[1].what # "remove" => deletion' = deletion
           /\ outbox[1].what = "remove" =>
                 deletion.phase = "remove" /\ deletion' = [deletion EXCEPT !.phase = "delete"]
           /\ UNCHANGED <<auth, user, stored, routes, signing, home, bounds>>
<1>1. outbox # << >> /\ Head(outbox) = outbox[1] /\ PendingWrite(1)
  BY FirstWrite DEF Perform, Pending
<1>2. outbox[1].what \in {"profile", "car"} =>
         /\ outbox[1].by \in Saves /\ outbox[1].by # NoOne
         /\ save[outbox[1].by].phase = "update"
         /\ save[outbox[1].by].acks \in {0, 1}
  BY <1>1 DEF PendingWrite
<1>3. outbox[1].what \notin {"profile", "car"} => outbox[1].by = NoOne
  BY <1>1 DEF PendingWrite
<1>4. outbox[1].what = "remove" => deletion.phase = "remove"
  BY <1>1 DEF PendingWrite
<1>5. QED
  BY <1>1, <1>2, <1>3, <1>4 DEF Perform, service

LEMMA PerformType ==
    ASSUME TypeOK, Pending, Perform
    PROVE  TypeOK'
<1>1. record' \in [Accounts -> Record]
  <2>1. outbox[1] \in Write /\ outbox[1].account \in Accounts
    BY PerformCases, FirstWrite DEF Write
  <2>2. Performed(record[outbox[1].account], outbox[1]) \in Record
    BY <2>1, PerformedType DEF TypeOK
  <2>3. QED
    BY <2>1, <2>2, PerformCases DEF TypeOK
<1>2. outbox' \in Seq(Write)
  BY PerformCases, FirstWrite
<1>3. save' \in [Saves -> Save]
  <2>1. CASE outbox[1].what \notin {"profile", "car"}
    BY <2>1, PerformCases DEF TypeOK
  <2>2. CASE outbox[1].what \in {"profile", "car"}
    <3> DEFINE h == outbox[1].by
    <3>1. /\ h \in Saves /\ save[h].acks \in {0, 1}
          /\ save[h] \in [phase : {"upload", "update"}, account : Accounts,
                          picked : SUBSET Images, done : SUBSET Images, acks : 0..2, at : Nat]
      BY <2>2, PerformCases, SaveType
    <3>2. [save[h] EXCEPT !.acks = save[h].acks + 1] \in Save
      <4>1. save[h].acks + 1 \in 0..2
        BY <3>1
      <4>2. QED
        BY <3>1, <4>1 DEF Save
    <3>3. QED
      <4>1. save' = [save EXCEPT ![h] = [save[h] EXCEPT !.acks = save[h].acks + 1]]
        BY <2>2, PerformCases
      <4>2. QED
        BY <3>1, <3>2, <4>1, SaveUpdate
  <2>3. QED
    BY <2>1, <2>2
<1>4. deletion' \in Deletion
  <2>1. CASE outbox[1].what # "remove"
    BY <2>1, PerformCases DEF TypeOK
  <2>2. CASE outbox[1].what = "remove"
    <3>1. deletion \in [phase : {"remove", "delete"}, account : Accounts]
      BY <2>2, PerformCases, DeletionType
    <3>2. QED
      BY <2>2, <3>1, PerformCases DEF Deletion
  <2>3. QED
    BY <2>1, <2>2
<1>5. QED
  BY <1>1, <1>2, <1>3, <1>4, PerformCases DEF TypeOK, home, bounds

\* An answer adds a write to the current user's record or to the slot of uid.
LEMMA AnswerWrite ==
    ASSUME TypeOK, Waiting, TokenAnswers \/ SlotAnswers
    PROVE  /\ \E w \in Write :
                 /\ outbox' = Append(outbox, w)
                 /\ w.what \in {"token", "no_token", "slot", "no_slot"}
                 /\ w.by = NoOne /\ w.images = {}
           /\ UNCHANGED <<auth, user, record, stored, save, signing, deletion, routes, bounds>>
<1>1. CASE TokenAnswers
  <2>1. current \in Accounts
    BY <1>1 DEF TokenAnswers, Waiting, TypeOK
  <2>2. \A what \in {"token", "no_token"} : fieldWrite(what, current) \in Write
    BY <2>1 DEF fieldWrite, Write
  <2>3. PICK what \in {"token", "no_token"} :
           outbox' = Append(outbox, fieldWrite(what, current))
    BY <1>1 DEF TokenAnswers
  <2>4. /\ fieldWrite(what, current).what \in {"token", "no_token", "slot", "no_slot"}
        /\ fieldWrite(what, current).by = NoOne /\ fieldWrite(what, current).images = {}
    BY DEF fieldWrite
  <2>5. QED
    BY <1>1, <2>2, <2>3, <2>4 DEF TokenAnswers, service, tasks
<1>2. CASE SlotAnswers
  <2>1. reference \in Accounts
    BY <1>2 DEF SlotAnswers, Waiting, TypeOK
  <2>2. \A what \in {"slot", "no_slot"} : fieldWrite(what, reference) \in Write
    BY <2>1 DEF fieldWrite, Write
  <2>3. PICK what \in {"slot", "no_slot"} :
           outbox' = Append(outbox, fieldWrite(what, reference))
    BY <1>2 DEF SlotAnswers
  <2>4. /\ fieldWrite(what, reference).what \in {"token", "no_token", "slot", "no_slot"}
        /\ fieldWrite(what, reference).by = NoOne /\ fieldWrite(what, reference).images = {}
    BY DEF fieldWrite
  <2>5. QED
    BY <1>2, <2>2, <2>3, <2>4 DEF SlotAnswers, service, tasks
<1>3. QED
  BY <1>1, <1>2

LEMMA AccountStepType ==
    ASSUME TypeOK, Waiting, Homely',
           \/ Created \/ TapDelete \/ AccountDeleted \/ DeletionFails \/ Crash
           \/ TokenAnswers \/ SlotAnswers
           \/ \E u \in Accounts : AdministratorDecides(u)
    PROVE  TypeOK'
<1> USE DEF service, db, tasks, home, bounds
<1>1. CASE Created
  <2>1. signing.account \in Accounts
    BY <1>1, SigningType DEF Created
  <2>2. registration(signing.account) \in Write
    BY <2>1 DEF registration, Write
  <2>3. outbox' \in Seq(Write)
    BY <1>1, <2>2, AppendProperties DEF Created, TypeOK
  <2>4. PageThere("auth", signing.at) => Len(routes) > 0
    BY DEF PageThere, TypeOK
  <2>5. routes' \in Seq(Route)
    BY <1>1, <2>4, RoutesType, RouteNames DEF Created, TypeOK
  <2>6. QED
    BY <1>1, <2>1, <2>3, <2>5, IdleTypes DEF Created, TypeOK
<1>2. CASE TapDelete
  <2>1. user \in Accounts
    BY <1>2 DEF TapDelete, TypeOK
  <2>2. removal(user) \in Write
    BY <2>1 DEF removal, Write
  <2>3. outbox' \in Seq(Write)
    BY <1>2, <2>2, AppendProperties DEF TapDelete, TypeOK
  <2>4. deletion' \in Deletion
    BY <1>2, <2>1 DEF TapDelete, Deletion
  <2>5. QED
    BY <1>2, <2>3, <2>4 DEF TapDelete, TypeOK
<1>3. CASE AccountDeleted
  <2>1. deletion.account \in Accounts
    BY <1>3, DeletionType DEF AccountDeleted
  <2>2. routes' \in Seq(Route)
    BY <1>3, RoutesType, RouteNames DEF AccountDeleted, TypeOK
  <2>3. QED
    BY <1>3, <2>1, <2>2, IdleTypes DEF AccountDeleted, TypeOK
<1>4. CASE DeletionFails
  BY <1>4, IdleTypes DEF DeletionFails, TypeOK
<1>5. CASE Crash
  BY <1>5, IdleTypes DEF Crash, TypeOK, Homely
<1>6. ASSUME NEW u \in Accounts, AdministratorDecides(u) PROVE TypeOK'
  <2>1. PICK t \in {"activated", "deactivated"} :
           record' = [record EXCEPT ![u].status = t]
    BY <1>6 DEF AdministratorDecides
  <2>2. record' \in [Accounts -> Record]
    <3>1. record[u] \in Record
      BY DEF TypeOK
    <3>2. [record[u] EXCEPT !.status = t] \in Record
      BY <3>1 DEF Record
    <3>3. QED
      BY <2>1, <3>2 DEF TypeOK
  <2>3. QED
    BY <1>6, <2>2 DEF AdministratorDecides, TypeOK
<1>7. CASE TokenAnswers \/ SlotAnswers
  <2>1. outbox' \in Seq(Write)
    <3>1. PICK w \in Write : outbox' = Append(outbox, w)
      BY <1>7, AnswerWrite
    <3>2. QED
      BY <3>1, AppendProperties DEF TypeOK
  <2>2. /\ UNCHANGED <<auth, user, record, stored, save, signing, deletion, routes>>
        /\ UNCHANGED <<backs, crashes>>
    BY <1>7, AnswerWrite
  <2>3. QED
    BY <2>1, <2>2 DEF TypeOK, Homely
<1>8. QED
  BY <1>1, <1>2, <1>3, <1>4, <1>5, <1>6, <1>7

\* The actions, by what they touch.
LEMMA NextCases ==
    ASSUME [Next]_vars
    PROVE  \/ PageStep
           \/ \E h \in Saves :
                 \/ \E picked \in SUBSET Images : TapSave(h, picked)
                 \/ \E i \in Images : Uploaded(h, i)
                 \/ UploadFails(h) \/ UpdateProfile(h) \/ ProfileSaved(h)
           \/ Perform
           \/ Created \/ TapDelete \/ AccountDeleted \/ DeletionFails \/ Crash
           \/ TokenAnswers \/ SlotAnswers
           \/ \E u \in Accounts : AdministratorDecides(u)
BY Zenon DEF Next, PageStep

LEMMA AskedType ==
    ASSUME TypeOK, NEW f \in Field, Asked(f)
    PROVE  /\ late' \in [Field -> 0..MaxLate]
           /\ \A g \in Field : g # f => late'[g] = late[g]
<1>1. late[f] \in 0..MaxLate /\ late[f] < MaxLate /\ MaxLate \in Nat
  BY DEF Asked, TypeOK
<1>2. late[f] + 1 \in 0..MaxLate
  BY <1>1
<1>3. QED
  BY <1>2 DEF Asked, TypeOK

LEMMA AnsweredType ==
    ASSUME TypeOK, NEW f \in Field, late[f] > 0, late' = [late EXCEPT ![f] = @ - 1]
    PROVE  /\ late' \in [Field -> 0..MaxLate]
           /\ \A g \in Field : late'[g] > 0 => late[g] > 0
<1>1. late[f] \in 0..MaxLate /\ late[f] > 0 /\ MaxLate \in Nat
  BY DEF TypeOK
<1>2. late[f] - 1 \in 0..MaxLate
  BY <1>1
<1>3. QED
  BY <1>1, <1>2 DEF TypeOK

\* A page or a button that asks has taken the user before, and uid is not lost.
LEMMA HomelyNext == TypeOK /\ Waiting /\ [Next]_vars => Homely'
<1> SUFFICES ASSUME TypeOK, Waiting, [Next]_vars PROVE Homely'
  OBVIOUS
<1>1. "token" \in Field /\ "slot" \in Field
  BY DEF Field
<1>2. CASE UNCHANGED home
  BY <1>2 DEF home, TypeOK, Homely, Waiting
<1>3. ASSUME NEW u \in Accounts, homeOpens(u) PROVE Homely'
  <2>1. /\ current' = u /\ u # NoOne /\ reference' = reference
        /\ late' \in [Field -> 0..MaxLate] /\ late'["slot"] = late["slot"]
    BY <1>1, <1>3, AskedType DEF homeOpens
  <2>2. QED
    BY <2>1 DEF Homely, Waiting, TypeOK
<1>4. CASE TapAvailability
  <2>1. /\ current' \in Accounts /\ reference' \in Accounts
        /\ late' \in [Field -> 0..MaxLate]
    BY <1>1, <1>4, AskedType DEF TapAvailability, TypeOK
  <2>2. QED
    BY <2>1 DEF Homely, Waiting
<1>5. ASSUME NEW f \in Field, late[f] > 0, late' = [late EXCEPT ![f] = @ - 1],
             UNCHANGED <<current, reference>>
      PROVE  Homely'
  BY <1>1, <1>5, AnsweredType DEF Homely, Waiting, TypeOK
<1>6. CASE Crash
  BY <1>1, <1>6 DEF Crash, Homely, Waiting
<1>7. CASE StartRoute
  <2>1. UNCHANGED home \/ (user \in Accounts /\ homeOpens(user))
    BY <1>7 DEF StartRoute, TypeOK
  <2>2. QED
    BY <2>1, <1>2, <1>3
<1>8. CASE LoggedInAgain
  <2>1. signing.account \in Accounts
    BY <1>8, SigningType DEF LoggedInAgain
  <2>2. UNCHANGED home \/ homeOpens(signing.account)
    BY <1>8 DEF LoggedInAgain, home
  <2>3. QED
    BY <2>1, <2>2, <1>2, <1>3
<1>9. CASE HomeTab
  <2>1. user \in Accounts /\ homeOpens(user)
    BY <1>9 DEF HomeTab, TypeOK
  <2>2. QED
    BY <2>1, <1>3
<1>10. CASE TokenAnswers \/ SlotAnswers \/ \E f \in Field : NoAnswer(f)
  BY <1>1, <1>5, <1>10 DEF TokenAnswers, SlotAnswers, NoAnswer
<1>11. ASSUME NEW h \in Saves,
              \/ \E picked \in SUBSET Images : TapSave(h, picked)
              \/ \E i \in Images : Uploaded(h, i)
              \/ UploadFails(h) \/ UpdateProfile(h) \/ ProfileSaved(h)
       PROVE  UNCHANGED home
  BY <1>11 DEF TapSave, Uploaded, UploadFails, UpdateProfile, ProfileSaved
<1>12. ASSUME \/ OnboardingEnds \/ SigningFails \/ LoggedIn \/ SecondLoginFails
              \/ SignOut \/ Back \/ UNCHANGED vars \/ Perform \/ Created \/ TapDelete
              \/ AccountDeleted \/ DeletionFails
              \/ \E u \in Accounts : TapSignUp(u) \/ AdministratorDecides(u)
              \/ \E u \in Accounts, exact \in BOOLEAN : TapLogin(u, exact)
       PROVE  UNCHANGED home
  BY <1>12 DEF OnboardingEnds, SigningFails, LoggedIn, SecondLoginFails, SignOut, Back, vars,
     Perform, Created, TapDelete, AccountDeleted, DeletionFails, TapSignUp,
     AdministratorDecides, TapLogin
<1>13. QED
  BY <1>2, <1>4, <1>6, <1>7, <1>8, <1>9, <1>10, <1>11, <1>12, NextCases DEF PageStep

LEMMA TypeNext == TypeOK /\ Waiting /\ Pending /\ [Next]_vars => TypeOK'
BY NextCases, HomelyNext, PageStepType, FormStepType, PerformType, AccountStepType

-----------------------------------------------------------------------------
(* The writes under way                                                    *)

\* A handler with a write under way has not had both acknowledgements.
LEMMA HandlerWaits ==
    ASSUME TypeOK, Pending, NEW i \in 1..Len(outbox), outbox[i].what \in {"profile", "car"}
    PROVE  /\ outbox[i].by \in Saves
           /\ save[outbox[i].by].phase = "update" /\ save[outbox[i].by].acks # 2
<1>1. PendingWrite(i)
  BY DEF Pending
<1>2. CASE outbox[i].what = "car" /\ i > 1
  <2>1. i - 1 \in 1..Len(outbox)
    BY <1>2
  <2>2. PendingWrite(i - 1)
    BY <2>1 DEF Pending
  <2>3. outbox[i - 1].what = "profile" /\ outbox[i - 1].by = outbox[i].by
    BY <1>1, <1>2 DEF PendingWrite
  <2>4. save[outbox[i - 1].by].acks = 0
    BY <2>2, <2>3 DEF PendingWrite
  <2>5. QED
    BY <1>1, <2>3, <2>4 DEF PendingWrite
<1>3. CASE outbox[i].what = "profile" \/ i = 1
  BY <1>1, <1>3 DEF PendingWrite
<1>4. QED
  BY <1>2, <1>3

\* Steps that leave the queue alone, and the handlers that wait for it.
LEMMA PendingFrame ==
    ASSUME TypeOK, Pending, outbox' = outbox,
           \A u \in Accounts : auth[u] # "none" => auth'[u] # "none",
           \A u \in Accounts : stored[u] \subseteq stored'[u],
           \A u \in Accounts : record'[u].registered = record[u].registered
                               /\ record'[u].details = record[u].details,
           deletion.phase = "remove" => deletion'.phase = "remove",
           \A h \in Saves : save[h].phase = "update" /\ save[h].acks # 2 =>
              save'[h].phase = "update" /\ save'[h].acks = save[h].acks
    PROVE  Pending'
<1>1. ASSUME NEW i \in 1..Len(outbox) PROVE PendingWrite(i)'
  <2>1. PendingWrite(i) /\ outbox[i].account \in Accounts
    BY WriteIn DEF Pending, Write
  <2>2. outbox[i].what \in {"profile", "car"} =>
           /\ outbox[i].by \in Saves
           /\ save'[outbox[i].by].phase = "update"
           /\ save'[outbox[i].by].acks = save[outbox[i].by].acks
    BY HandlerWaits
  <2>3. i = 1 => outbox[i] = outbox[1]
    OBVIOUS
  <2>4. QED
    BY <2>1, <2>2, <2>3 DEF PendingWrite
<1>2. QED
  BY <1>1 DEF Pending

\* A write other than a profile's is added; a registration or a removal is not
\* there yet, and its account or the deletion knows of it.
LEMMA PendingAppend ==
    ASSUME TypeOK, Pending, NEW w \in Write, outbox' = Append(outbox, w),
           w.what \notin {"profile", "car"},
           \A i \in 1..Len(outbox) : ~SameWrite(outbox[i], w),
           w.by = NoOne, w.images = {},
           w.what = "remove" => deletion'.phase = "remove",
           w.what = "register" => auth'[w.account] # "none" /\ ~record[w.account].registered,
           deletion.phase = "remove" => deletion'.phase = "remove",
           \A u \in Accounts : auth[u] # "none" => auth'[u] # "none",
           UNCHANGED <<save, record, stored>>
    PROVE  Pending'
<1>1. /\ Len(outbox) \in Nat /\ Len(outbox') = Len(outbox) + 1
      /\ \A i \in 1..Len(outbox) : outbox'[i] = outbox[i]
      /\ outbox'[Len(outbox) + 1] = w
  BY AppendProperties DEF TypeOK
<1>2. ASSUME NEW i \in 1..Len(outbox) PROVE PendingWrite(i)'
  <2>1. PendingWrite(i) /\ outbox'[i] = outbox[i] /\ outbox[i].account \in Accounts
        /\ (i > 1 => outbox'[i - 1] = outbox[i - 1]) /\ outbox'[1] = outbox[1]
    BY <1>1, WriteIn DEF Pending, Write
  <2>2. QED
    BY <2>1 DEF PendingWrite
<1>3. ASSUME NEW i \in Nat, i = Len(outbox) + 1 PROVE PendingWrite(i)'
  <2>1. outbox'[i] = w /\ (i = 1 => outbox'[1] = w)
    BY <1>1, <1>3
  <2>2. QED
    BY <2>1 DEF PendingWrite
<1>4. \A i, j \in 1..Len(outbox') : SameWrite(outbox'[i], outbox'[j]) => i = j
  <2>1. \A i, j \in 1..Len(outbox) : SameWrite(outbox[i], outbox[j]) => i = j
    BY DEF Pending
  <2>2. \A i \in 1..Len(outbox) : ~SameWrite(outbox[i], w) /\ ~SameWrite(w, outbox[i])
    BY DEF SameWrite
  <2>3. QED
    BY <1>1, <2>1, <2>2
<1>5. \A i \in 1..Len(outbox') : i \in 1..Len(outbox) \/ i = Len(outbox) + 1
  BY <1>1
<1>6. \A i \in 1..Len(outbox') : PendingWrite(i)'
  BY <1>2, <1>3, <1>5
<1>7. QED
  BY <1>4, <1>6 DEF Pending

\* What the update of a profile adds to the queue.
LEMMA ProfileIssued ==
    ASSUME TypeOK, NEW h \in Saves, UpdateProfile(h)
    PROVE  /\ Len(outbox) \in Nat /\ Len(outbox') = Len(outbox) + 2
           /\ \A i \in 1..Len(outbox) : outbox'[i] = outbox[i]
           /\ outbox'[Len(outbox) + 1] = profileWrites(h)[1]
           /\ outbox'[Len(outbox) + 2] = profileWrites(h)[2]
<1> DEFINE n == Len(outbox)
<1>1. outbox \in Seq(Write) /\ n \in Nat
  BY DEF TypeOK
<1>2. profileWrites(h) \in Seq(Write) /\ Len(profileWrites(h)) = 2
  <2>1. save[h].account \in Accounts /\ save[h].picked \in SUBSET Images
    BY SaveType DEF UpdateProfile, AllUploaded
  <2>2. QED
    BY <2>1 DEF profileWrites, Write
<1>3. outbox' = outbox \o profileWrites(h)
  BY DEF UpdateProfile
<1>4. /\ Len(outbox \o profileWrites(h)) = n + Len(profileWrites(h))
      /\ \A i \in 1..(n + Len(profileWrites(h))) :
            (outbox \o profileWrites(h))[i] =
               IF i <= n THEN outbox[i] ELSE profileWrites(h)[i - n]
  BY <1>1, <1>2, ConcatProperties
<1>5. QED
  BY <1>1, <1>2, <1>3, <1>4

\* The two updates of a profile are added: the handler had issued none.
LEMMA PendingProfile ==
    ASSUME AccountInv, NEW h \in Saves, UpdateProfile(h)
    PROVE  Pending'
<1> USE DEF AccountInv
<1>1. /\ save[h].phase = "upload" /\ save[h].acks = 0 /\ save[h].account \in Accounts
      /\ save[h].picked \subseteq stored[save[h].account]
      /\ outbox \in Seq(Write)
  <2>1. save[h].phase = "upload" /\ save[h].done = save[h].picked
    BY DEF UpdateProfile, AllUploaded
  <2>2. QED
    BY <2>1, SaveType DEF Recorded, TypeOK
<1>2. save'[h].phase = "update" /\ save'[h].acks = 0
      /\ \A g \in Saves : g # h => save'[g] = save[g]
  <2>1. save[h] \in [phase : {"upload", "update"}, account : Accounts,
                     picked : SUBSET Images, done : SUBSET Images, acks : 0..2, at : Nat]
    BY <1>1, SaveType
  <2>2. QED
    BY <1>1, <2>1 DEF UpdateProfile, TypeOK
<1>3. UNCHANGED <<auth, record, stored, deletion>>
  BY DEF UpdateProfile, service
<1> DEFINE n == Len(outbox)
           v == profileWrites(h)[1]
           w == profileWrites(h)[2]
<1>4. /\ v.what = "profile" /\ v.by = h /\ v.account = save[h].account
      /\ v.images \subseteq stored[save[h].account]
      /\ w.what = "car" /\ w.by = h /\ w.account = save[h].account
      /\ w.images \subseteq stored[save[h].account]
  BY <1>1 DEF profileWrites
<1>5. /\ n \in Nat /\ Len(outbox') = n + 2
      /\ \A i \in 1..n : outbox'[i] = outbox[i]
      /\ outbox'[n + 1] = v /\ outbox'[n + 2] = w
  BY ProfileIssued
<1>6. \A i \in 1..n : outbox[i].what \in {"profile", "car"} => outbox[i].by # h
  BY <1>1, HandlerWaits
<1>7. ASSUME NEW i \in 1..n PROVE PendingWrite(i)'
  <2>1. PendingWrite(i) /\ outbox'[i] = outbox[i] /\ outbox[i].account \in Accounts
        /\ (i > 1 => outbox'[i - 1] = outbox[i - 1]) /\ outbox'[1] = outbox[1]
    BY <1>5, WriteIn DEF Pending, Write
  <2>2. outbox[i].what \in {"profile", "car"} => save'[outbox[i].by] = save[outbox[i].by]
    BY <1>2, <1>6, HandlerWaits
  <2>3. i = 1 => outbox[i] = outbox[1]
    OBVIOUS
  <2>4. QED
    BY <2>1, <2>2, <2>3, <1>3 DEF PendingWrite
<1>8. ASSUME NEW i \in Nat, i = n + 1 PROVE PendingWrite(i)'
  <2>1. outbox'[i] = v
    BY <1>5, <1>8
  <2>2. QED
    BY <2>1, <1>2, <1>3, <1>4 DEF PendingWrite
<1>9. ASSUME NEW i \in Nat, i = n + 2 PROVE PendingWrite(i)'
  <2>1. outbox'[i] = w /\ outbox'[i - 1] = v /\ i > 1
    BY <1>5, <1>9
  <2>2. QED
    BY <2>1, <1>2, <1>3, <1>4 DEF PendingWrite
<1>10. \A i \in 1..Len(outbox') : PendingWrite(i)'
  <2>1. \A i \in 1..Len(outbox') : i \in 1..n \/ (i \in Nat /\ i = n + 1) \/ (i \in Nat /\ i = n + 2)
    BY <1>5
  <2>2. QED
    BY <2>1, <1>7, <1>8, <1>9
<1>11. \A i, j \in 1..Len(outbox') : SameWrite(outbox'[i], outbox'[j]) => i = j
  <2>1. \A i, j \in 1..n : SameWrite(outbox[i], outbox[j]) => i = j
    BY DEF Pending
  <2>2. \A i \in 1..n : ~SameWrite(outbox[i], v) /\ ~SameWrite(v, outbox[i])
                        /\ ~SameWrite(outbox[i], w) /\ ~SameWrite(w, outbox[i])
    BY <1>4, <1>6 DEF SameWrite
  <2>3. ~SameWrite(v, w) /\ ~SameWrite(w, v)
    BY <1>4 DEF SameWrite
  <2>4. \A i \in 1..Len(outbox') : i \in 1..n \/ i = n + 1 \/ i = n + 2
    BY <1>5
  <2>5. QED
    BY <1>5, <2>1, <2>2, <2>3, <2>4
<1>12. QED
  BY <1>10, <1>11 DEF Pending

\* The first write is performed.  A car update is the first only after the
\* profile update before it was performed.
LEMMA PendingPerform ==
    ASSUME AccountInv, Perform
    PROVE  Pending'
<1> USE DEF AccountInv
<1> DEFINE v == outbox[1]
<1>1. /\ v \in Write /\ 1 \in 1..Len(outbox) /\ PendingWrite(1)
      /\ Len(outbox') = Len(outbox) - 1
      /\ \A i \in 1..Len(outbox') : i + 1 \in 1..Len(outbox) /\ outbox'[i] = outbox[i + 1]
  BY PerformCases, FirstWrite DEF Pending
<1>2. \A i \in 1..Len(outbox) : SameWrite(outbox[i], v) => i = 1
  BY <1>1 DEF Pending
<1>3. auth' = auth /\ stored' = stored /\ v.account \in Accounts
  BY <1>1, PerformCases DEF Write
<1>4. \A u \in Accounts : u # v.account => record'[u] = record[u]
  BY PerformCases DEF TypeOK
<1>5. record'[v.account] = Performed(record[v.account], v)
  BY <1>3, PerformCases DEF TypeOK
<1>6. ASSUME NEW i \in 1..Len(outbox') PROVE PendingWrite(i)'
  <2> DEFINE w == outbox[i + 1]
  <2>1. /\ i + 1 \in 1..Len(outbox) /\ outbox'[i] = w /\ w \in Write /\ PendingWrite(i + 1)
        /\ i + 1 # 1 /\ i \in Nat
    BY <1>1, WriteIn DEF Pending
  <2>2. ~SameWrite(w, v)
    BY <2>1, <1>2
  <2>3. w.what \notin {"profile", "car"} => w.by = NoOne
    BY <2>1 DEF PendingWrite
  <2>4. ASSUME w.what \in {"profile", "car"}
        PROVE  /\ w.by \in Saves /\ save'[w.by].phase = "update"
               /\ (w.by # v.by \/ v.what \notin {"profile", "car"}) =>
                     save'[w.by].acks = save[w.by].acks
               /\ w.by = v.by /\ v.what \in {"profile", "car"} =>
                     save'[w.by].acks = save[w.by].acks + 1
    <3>1. w.by \in Saves /\ save[w.by].phase = "update"
      BY <2>1, <2>4 DEF PendingWrite
    <3>2. CASE v.what \notin {"profile", "car"}
      BY <3>1, <3>2, PerformCases
    <3>3. CASE v.what \in {"profile", "car"}
      <4>1. /\ v.by \in Saves /\ save[v.by].phase = "update"
            /\ save' = [save EXCEPT ![v.by] = [save[v.by] EXCEPT !.acks = save[v.by].acks + 1]]
        BY <3>3, PerformCases
      <4>2. save[v.by] \in [phase : {"upload", "update"}, account : Accounts,
                            picked : SUBSET Images, done : SUBSET Images, acks : 0..2, at : Nat]
        BY <4>1, SaveType
      <4>3. save'[v.by].phase = "update" /\ save'[v.by].acks = save[v.by].acks + 1
            /\ \A g \in Saves : g # v.by => save'[g] = save[g]
        BY <4>1, <4>2 DEF TypeOK
      <4>4. QED
        BY <3>1, <3>3, <4>3
    <3>4. QED
      BY <3>2, <3>3
  <2>5. w.what = "profile" => save'[w.by].acks = 0
    <3>1. SUFFICES ASSUME w.what = "profile" PROVE save'[w.by].acks = 0
      OBVIOUS
    <3>2. save[w.by].acks = 0
      BY <2>1, <3>1 DEF PendingWrite
    <3>3. ~(v.what = "profile" /\ v.by = w.by)
      BY <2>2, <3>1 DEF SameWrite
    <3>4. ~(v.what = "car" /\ v.by = w.by)
      BY <1>1, <3>2 DEF PendingWrite
    <3>5. QED
      BY <2>4, <3>1, <3>2, <3>3, <3>4
  <2>6. w.what = "car" => /\ outbox[i].what = "profile" /\ outbox[i].by = w.by
                          /\ outbox[i].account = w.account /\ i \in 1..Len(outbox)
    BY <2>1 DEF PendingWrite
  <2>7. w.what = "car" /\ i = 1 => save'[w.by].acks = 1 /\ record'[w.account].details
    <3>1. SUFFICES ASSUME w.what = "car", i = 1
                   PROVE  save'[w.by].acks = 1 /\ record'[w.account].details
      OBVIOUS
    <3>2. v.what = "profile" /\ v.by = w.by /\ v.account = w.account
      BY <2>6, <3>1
    <3>3. save[v.by].acks = 0
      BY <1>1, <3>2 DEF PendingWrite
    <3>4. record'[v.account].details
      <4>1. record[v.account] \in Record
        BY <1>3 DEF TypeOK
      <4>2. record'[v.account] = Updated(record[v.account], v)
        BY <1>5, <3>2 DEF Performed, Field
      <4>3. QED
        BY <4>1, <4>2 DEF Updated, Record
    <3>5. QED
      BY <2>4, <3>1, <3>2, <3>3, <3>4
  <2>8. w.what = "car" /\ i > 1 =>
           /\ outbox'[i - 1].what = "profile" /\ outbox'[i - 1].by = w.by
           /\ outbox'[i - 1].account = w.account
    <3>1. i > 1 => outbox'[i - 1] = outbox[i]
      BY <1>1
    <3>2. QED
      BY <2>6, <3>1
  <2>9. w.what = "remove" => deletion'.phase = "remove"
    <3>1. w.what = "remove" => deletion.phase = "remove" /\ v.what # "remove"
      BY <2>1, <2>2 DEF PendingWrite, SameWrite
    <3>2. QED
      BY <3>1, PerformCases
  <2>10. w.what = "register" => auth'[w.account] # "none" /\ ~record'[w.account].registered
    <3>1. SUFFICES ASSUME w.what = "register"
                   PROVE  auth'[w.account] # "none" /\ ~record'[w.account].registered
      OBVIOUS
    <3>2. auth[w.account] # "none" /\ ~record[w.account].registered /\ w.account \in Accounts
      BY <2>1, <3>1 DEF PendingWrite, Write
    <3>3. ~(v.what = "register" /\ v.account = w.account)
      BY <2>2, <3>1 DEF SameWrite
    <3>4. v.account = w.account => ~Performed(record[v.account], v).registered
      BY <3>2, <3>3, <2>1, <1>1, PerformedKeeps DEF TypeOK
    <3>5. QED
      BY <3>2, <3>4, <1>3, <1>4, <1>5
  <2>11. w.images \subseteq stored'[w.account]
    BY <2>1, <1>3 DEF PendingWrite
  <2>12. outbox'[i] = w /\ (i = 1 => outbox'[1] = w)
    BY <2>1
  <2>13. QED
    BY <2>3, <2>4, <2>5, <2>7, <2>8, <2>9, <2>10, <2>11, <2>12 DEF PendingWrite
<1>7. \A i, j \in 1..Len(outbox') : SameWrite(outbox'[i], outbox'[j]) => i = j
  <2>1. SUFFICES ASSUME NEW i \in 1..Len(outbox'), NEW j \in 1..Len(outbox'),
                        SameWrite(outbox'[i], outbox'[j])
                 PROVE  i = j
    OBVIOUS
  <2>2. /\ i + 1 \in 1..Len(outbox) /\ j + 1 \in 1..Len(outbox)
        /\ SameWrite(outbox[i + 1], outbox[j + 1])
    BY <1>1, <2>1
  <2>3. i + 1 = j + 1
    BY <2>2 DEF Pending
  <2>4. QED
    BY <2>3
<1>8. QED
  BY <1>6, <1>7 DEF Pending

LEMMA PendingNext == AccountInv /\ [Next]_vars => Pending'
<1> SUFFICES ASSUME AccountInv, [Next]_vars PROVE Pending'
  OBVIOUS
<1> USE DEF AccountInv, service, db, tasks, home, bounds
<1>1. CASE PageStep
  <2>1. Paging
    BY <1>1, PageStepPages
  <2>2. QED
    BY <2>1, PendingFrame DEF Paging
<1>2. ASSUME NEW h \in Saves,
             \/ \E picked \in SUBSET Images : TapSave(h, picked)
             \/ \E i \in Images : Uploaded(h, i)
             \/ UploadFails(h) \/ ProfileSaved(h)
      PROVE  Pending'
  <2>1. \A g \in Saves : save[g].phase = "update" /\ save[g].acks # 2 => save'[g] = save[g]
    BY <1>2, IdleTypes DEF TapSave, Uploaded, UploadFails, ProfileSaved, TypeOK
  <2>2. UNCHANGED <<auth, record, outbox, deletion>>
    BY <1>2 DEF TapSave, Uploaded, UploadFails, ProfileSaved
  <2>3. \A u \in Accounts : stored[u] \subseteq stored'[u]
    BY <1>2 DEF TapSave, Uploaded, UploadFails, ProfileSaved, TypeOK
  <2>4. QED
    BY <2>1, <2>2, <2>3, PendingFrame
<1>3. CASE Created
  <2> DEFINE w == registration(signing.account)
  <2>1. signing.account \in Accounts /\ auth[signing.account] = "none"
    BY <1>3, SigningType DEF Created
  <2>2. w \in Write /\ w.what = "register" /\ w.account = signing.account /\ w.by = NoOne
        /\ w.images = {}
    BY <2>1 DEF registration, Write
  <2>3. \A i \in 1..Len(outbox) : ~SameWrite(outbox[i], w)
    <3>1. ASSUME NEW i \in 1..Len(outbox), outbox[i].what = "register"
          PROVE  auth[outbox[i].account] # "none"
      BY <3>1 DEF Pending, PendingWrite
    <3>2. QED
      BY <2>1, <2>2, <3>1 DEF SameWrite
  <2>4. ~record[w.account].registered
    BY <2>1, <2>2 DEF Recorded
  <2>5. auth'[w.account] # "none" /\ \A u \in Accounts : auth[u] # "none" => auth'[u] # "none"
    BY <1>3, <2>1, <2>2 DEF Created, TypeOK
  <2>6. outbox' = Append(outbox, w) /\ UNCHANGED <<save, record, stored, deletion>>
    BY <1>3 DEF Created
  <2>7. QED
    BY <2>2, <2>3, <2>4, <2>5, <2>6, PendingAppend
<1>4. CASE TapDelete
  <2> DEFINE w == removal(user)
  <2>1. user \in Accounts
    BY <1>4 DEF TapDelete, TypeOK
  <2>2. w \in Write /\ w.what = "remove" /\ w.by = NoOne /\ w.images = {}
    BY <2>1 DEF removal, Write
  <2>3. \A i \in 1..Len(outbox) : ~SameWrite(outbox[i], w)
    <3>1. deletion.phase # "remove"
      BY <1>4, IdleTypes DEF TapDelete
    <3>2. \A i \in 1..Len(outbox) : outbox[i].what # "remove"
      BY <3>1 DEF Pending, PendingWrite
    <3>3. QED
      BY <2>2, <3>2 DEF SameWrite
  <2>4. outbox' = Append(outbox, w) /\ deletion'.phase = "remove"
        /\ UNCHANGED <<auth, save, record, stored>>
    BY <1>4 DEF TapDelete
  <2>5. QED
    BY <2>2, <2>3, <2>4, PendingAppend
<1>5. CASE AccountDeleted \/ DeletionFails
  <2>1. deletion.phase # "remove" /\ UNCHANGED <<save, record, outbox, stored>>
    BY <1>5 DEF AccountDeleted, DeletionFails
  <2>2. \A u \in Accounts : auth[u] # "none" => auth'[u] # "none"
    BY <1>5 DEF AccountDeleted, DeletionFails, TypeOK
  <2>3. QED
    BY <2>1, <2>2, PendingFrame
<1>6. CASE Crash
  BY <1>6 DEF Crash, Pending
<1>7. ASSUME NEW u \in Accounts, AdministratorDecides(u) PROVE Pending'
  <2>1. PICK t : record' = [record EXCEPT ![u].status = t]
    BY <1>7 DEF AdministratorDecides
  <2>2. \A v \in Accounts : record'[v].registered = record[v].registered
                            /\ record'[v].details = record[v].details
    BY <2>1 DEF TypeOK, Record
  <2>3. QED
    BY <1>7, <2>2, PendingFrame DEF AdministratorDecides
<1>8. CASE TokenAnswers \/ SlotAnswers
  <2>1. PICK w \in Write :
           /\ outbox' = Append(outbox, w)
           /\ w.what \in {"token", "no_token", "slot", "no_slot"}
           /\ w.by = NoOne /\ w.images = {}
    BY <1>8, AnswerWrite
  <2>2. UNCHANGED <<auth, save, record, stored, deletion>>
    BY <1>8, AnswerWrite
  <2>3. \A i \in 1..Len(outbox) : ~SameWrite(outbox[i], w)
    BY <2>1 DEF SameWrite
  <2>4. QED
    BY <2>1, <2>2, <2>3, PendingAppend
<1>9. QED
  BY <1>1, <1>2, <1>3, <1>4, <1>5, <1>6, <1>7, <1>8, PendingProfile, PendingPerform,
     NextCases

-----------------------------------------------------------------------------
(* The records                                                             *)

\* A write performed leaves a record that keeps the promises, if it did before.
LEMMA RecordedPerform ==
    ASSUME AccountInv, Perform
    PROVE  Recorded'
<1> USE DEF AccountInv
<1> DEFINE w == outbox[1]
           u == w.account
<1>1. w \in Write /\ u \in Accounts /\ PendingWrite(1) /\ record[u] \in Record
  BY PerformCases, FirstWrite DEF Pending, Write, TypeOK
<1>2. auth' = auth /\ stored' = stored
  BY PerformCases
<1>3. record'[u] = Performed(record[u], w)
      /\ \A v \in Accounts : v # u => record'[v] = record[v]
  BY <1>1, PerformCases DEF TypeOK
<1>4. record'[u].car => record'[u].details
  <2>1. CASE w.what = "car"
    <3>1. record[u].details
      BY <1>1, <2>1 DEF PendingWrite
    <3>2. QED
      BY <1>1, <1>3, <2>1, <3>1 DEF Performed, Record
  <2>2. CASE w.what # "car"
    BY <1>1, <1>3, <2>2, PerformedKeeps DEF Recorded, ProfileBeforeCar
  <2>3. QED
    BY <2>1, <2>2
<1>5. record'[u].images \subseteq stored'[u]
  <2>1. w.images \subseteq stored[u] /\ record[u].images \subseteq stored[u]
    BY <1>1 DEF PendingWrite, Recorded, ImagesUploaded
  <2>2. record'[u].images \subseteq record[u].images \cup w.images
    BY <1>1, <1>3, PerformedKeeps
  <2>3. QED
    BY <2>1, <2>2, <1>2
<1>6. record'[u].status # "null" => record'[u].registered
  <2>1. record[u].status # "null" => record[u].registered
    BY <1>1 DEF Recorded
  <2>2. QED
    BY <1>1, <1>3, <2>1, PerformedKeeps
<1>7. auth'[u] = "none" => ~record'[u].registered
  <2>1. auth[u] = "none" => ~record[u].registered /\ w.what # "register"
    BY <1>1 DEF Recorded, PendingWrite
  <2>2. w.what # "register" /\ ~record[u].registered => ~record'[u].registered
    BY <1>1, <1>3, PerformedKeeps
  <2>3. QED
    BY <1>2, <2>1, <2>2
<1>8. \A h \in Saves : save'[h].phase = "upload" => save'[h] = save[h]
  <2>1. CASE w.what \notin {"profile", "car"}
    BY <2>1, PerformCases
  <2>2. CASE w.what \in {"profile", "car"}
    <3>1. /\ w.by \in Saves /\ save[w.by].phase = "update"
          /\ save' = [save EXCEPT ![w.by] = [save[w.by] EXCEPT !.acks = save[w.by].acks + 1]]
      BY <2>2, PerformCases
    <3>2. save[w.by] \in [phase : {"upload", "update"}, account : Accounts,
                          picked : SUBSET Images, done : SUBSET Images, acks : 0..2, at : Nat]
      BY <3>1, SaveType
    <3>3. save'[w.by].phase = "update" /\ \A g \in Saves : g # w.by => save'[g] = save[g]
      BY <3>1, <3>2 DEF TypeOK
    <3>4. QED
      BY <3>3
  <2>3. QED
    BY <2>1, <2>2
<1>9. QED
  BY <1>1, <1>2, <1>3, <1>4, <1>5, <1>6, <1>7, <1>8
     DEF Recorded, ProfileBeforeCar, ImagesUploaded

LEMMA RecordedForm ==
    ASSUME AccountInv, NEW h \in Saves,
           \/ \E picked \in SUBSET Images : TapSave(h, picked)
           \/ \E i \in Images : Uploaded(h, i)
           \/ UploadFails(h) \/ UpdateProfile(h) \/ ProfileSaved(h)
    PROVE  Recorded'
<1> USE DEF AccountInv, service, db, tasks, home, bounds
<1>1. UNCHANGED <<auth, record>>
  BY DEF TapSave, Uploaded, UploadFails, UpdateProfile, ProfileSaved
<1>2. \A u \in Accounts : stored[u] \subseteq stored'[u]
  BY DEF TapSave, Uploaded, UploadFails, UpdateProfile, ProfileSaved, TypeOK
<1>3. \A g \in Saves : g # h => save'[g] = save[g]
  BY DEF TapSave, Uploaded, UploadFails, UpdateProfile, ProfileSaved, TypeOK
<1>4. \A g \in Saves : save[g].phase = "upload" =>
         /\ save[g].account \in Accounts /\ save[g].acks = 0
         /\ save[g].done \subseteq stored[save[g].account]
  BY SaveType DEF Recorded
<1>5. save'[h].phase = "upload" =>
         save'[h].done \subseteq stored'[save'[h].account] /\ save'[h].acks = 0
  <2>1. ASSUME NEW picked \in SUBSET Images, TapSave(h, picked)
        PROVE  save'[h].done = {} /\ save'[h].acks = 0
    BY <2>1 DEF TapSave, TypeOK
  <2>2. ASSUME NEW i \in Images, Uploaded(h, i)
        PROVE  save'[h].done \subseteq stored'[save'[h].account] /\ save'[h].acks = 0
    <3>1. save[h] \in [phase : {"upload", "update"}, account : Accounts,
                       picked : SUBSET Images, done : SUBSET Images, acks : 0..2, at : Nat]
      BY <2>2, SaveType DEF Uploaded
    <3>2. save'[h] = [save[h] EXCEPT !.done = save[h].done \cup {i}]
      BY <2>2 DEF Uploaded, TypeOK
    <3>3. save'[h].done = save[h].done \cup {i} /\ save'[h].account = save[h].account
          /\ save'[h].acks = save[h].acks
      BY <3>1, <3>2
    <3>4. stored'[save[h].account] = stored[save[h].account] \cup {i}
      BY <2>2, <3>1 DEF Uploaded, TypeOK
    <3>5. QED
      BY <2>2, <3>3, <3>4, <1>4 DEF Uploaded
  <2>3. ASSUME UploadFails(h) \/ ProfileSaved(h) PROVE save'[h].phase # "upload"
    BY <2>3, IdleTypes DEF UploadFails, ProfileSaved, TypeOK
  <2>4. ASSUME UpdateProfile(h) PROVE save'[h].phase # "upload"
    <3>1. save[h] \in [phase : {"upload", "update"}, account : Accounts,
                       picked : SUBSET Images, done : SUBSET Images, acks : 0..2, at : Nat]
      BY <2>4, SaveType DEF UpdateProfile, AllUploaded
    <3>2. QED
      BY <2>4, <3>1 DEF UpdateProfile, TypeOK
  <2>5. QED
    BY <2>1, <2>2, <2>3, <2>4
<1>6. \A g \in Saves : save'[g].phase = "upload" =>
         save'[g].done \subseteq stored'[save'[g].account] /\ save'[g].acks = 0
  BY <1>2, <1>3, <1>4, <1>5
<1>7. QED
  BY <1>1, <1>2, <1>6 DEF Recorded, ProfileBeforeCar, ImagesUploaded

LEMMA RecordedNext == AccountInv /\ [Next]_vars => Recorded'
<1> SUFFICES ASSUME AccountInv, [Next]_vars PROVE Recorded'
  OBVIOUS
<1> USE DEF AccountInv, service, db, tasks, home, bounds
<1>1. CASE PageStep
  <2>1. UNCHANGED <<auth, record, stored, save>>
    BY <1>1, PageStepPages DEF Paging
  <2>2. QED
    BY <2>1 DEF Recorded, ProfileBeforeCar, ImagesUploaded
<1>2. CASE Created \/ TapDelete \/ AccountDeleted \/ DeletionFails \/ TokenAnswers
           \/ SlotAnswers
  <2>1. UNCHANGED <<record, stored, save>>
    BY <1>2, AnswerWrite DEF Created, TapDelete, AccountDeleted, DeletionFails
  <2>2. \A u \in Accounts : auth'[u] = "none" => auth[u] = "none"
    BY <1>2, AnswerWrite DEF Created, TapDelete, AccountDeleted, DeletionFails, TypeOK
  <2>3. QED
    BY <2>1, <2>2 DEF Recorded, ProfileBeforeCar, ImagesUploaded
<1>3. CASE Crash
  <2>1. UNCHANGED <<auth, record, stored>> /\ \A h \in Saves : save'[h].phase = "idle"
    BY <1>3, IdleTypes DEF Crash
  <2>2. QED
    BY <2>1 DEF Recorded, ProfileBeforeCar, ImagesUploaded
<1>4. ASSUME NEW u \in Accounts, AdministratorDecides(u) PROVE Recorded'
  <2>1. PICK t : record' = [record EXCEPT ![u].status = t]
    BY <1>4 DEF AdministratorDecides
  <2>2. \A v \in Accounts :
           /\ record'[v].registered = record[v].registered
           /\ record'[v].details = record[v].details /\ record'[v].car = record[v].car
           /\ record'[v].images = record[v].images
           /\ record'[v].status = record[v].status \/ record[v].registered
    BY <2>1, <1>4 DEF AdministratorDecides, TypeOK, Record
  <2>3. UNCHANGED <<auth, stored, save>>
    BY <1>4 DEF AdministratorDecides
  <2>4. QED
    BY <2>2, <2>3 DEF Recorded, ProfileBeforeCar, ImagesUploaded
<1>5. QED
  BY <1>1, <1>2, <1>3, <1>4, RecordedForm, RecordedPerform, NextCases

LEMMA AccountNext == AccountInv /\ [Next]_vars => AccountInv'
BY TypeNext, HomelyNext, PendingNext, RecordedNext DEF AccountInv, Homely

-----------------------------------------------------------------------------
(* Results                                                                 *)

\* Every variable keeps its type: in particular each update performed finds its
\* handler waiting, and the removal of a record its deletion.
THEOREM AccountTypeCorrect == Spec => []TypeOK
<1>1. AccountInv => TypeOK
  BY DEF AccountInv
<1>2. QED
  BY <1>1, AccountInit, AccountNext, PTL DEF Spec

\* With any number of saves in flight and crashes between the two updates, a
\* record with car details has the profile they belong to.
THEOREM CarHasProfile == Spec => []ProfileBeforeCar
<1>1. AccountInv => ProfileBeforeCar
  BY DEF AccountInv, Recorded
<1>2. QED
  BY <1>1, AccountInit, AccountNext, PTL DEF Spec

\* Every address in a record is of an image in the storage.
THEOREM ImagesAreStored == Spec => []ImagesUploaded
<1>1. AccountInv => ImagesUploaded
  BY DEF AccountInv, Recorded
<1>2. QED
  BY <1>1, AccountInit, AccountNext, PTL DEF Spec

\* A registration is performed on a record nobody has activated, and no update
\* writes the status: only the administrator or the removal takes it away.
THEOREM ActivationIsKept == Spec => ActivationKept
<1>1. ASSUME AccountInv, [Next]_vars, NEW u \in Accounts,
             record[u].status = "activated", record'[u].status # "activated"
      PROVE  AdministratorDecides(u) \/ record'[u] = Blank
  <2> USE DEF AccountInv, service, db, tasks, home, bounds
  <2>1. record' # record
    BY <1>1
  <2>2. ASSUME NEW h \in Saves,
               \/ \E picked \in SUBSET Images : TapSave(h, picked)
               \/ \E i \in Images : Uploaded(h, i)
               \/ UploadFails(h) \/ UpdateProfile(h) \/ ProfileSaved(h)
        PROVE  record' = record
    BY <2>2 DEF TapSave, Uploaded, UploadFails, UpdateProfile, ProfileSaved
  <2>3. PageStep \/ Created \/ TapDelete \/ AccountDeleted \/ DeletionFails \/ Crash
        \/ TokenAnswers \/ SlotAnswers => record' = record
    BY <1>1, PageStepPages, AnswerWrite DEF Paging, Created, TapDelete, AccountDeleted, DeletionFails, Crash
  <2>4. ASSUME NEW v \in Accounts, AdministratorDecides(v) PROVE AdministratorDecides(u)
    <3>1. u = v
      BY <1>1, <2>4 DEF AdministratorDecides, TypeOK
    <3>2. QED
      BY <2>4, <3>1
  <2>5. CASE Perform
    <3> DEFINE w == outbox[1]
    <3>1. /\ w \in Write /\ w.account \in Accounts /\ PendingWrite(1)
          /\ record' = [record EXCEPT ![w.account] = Performed(record[w.account], w)]
      BY <1>1, <2>5, PerformCases, FirstWrite DEF Pending, Write
    <3>2. w.account = u /\ record'[u] = Performed(record[u], w) /\ record[u] \in Record
      BY <1>1, <3>1 DEF TypeOK
    <3>3. w.what # "register"
      BY <1>1, <3>1, <3>2 DEF PendingWrite, Recorded
    <3>4. QED
      BY <1>1, <3>1, <3>2, <3>3, PerformedKeeps
  <2>6. QED
    BY <1>1, <2>1, <2>2, <2>3, <2>4, <2>5, NextCases
<1>2. AccountInv /\ [Next]_vars =>
         [\A u \in Accounts :
            record[u].status = "activated" /\ record'[u].status # "activated"
              => AdministratorDecides(u) \/ record'[u] = Blank]_vars
  BY <1>1
<1>3. QED
  BY <1>2, AccountInit, AccountNext, PTL DEF Spec, ActivationKept

-----------------------------------------------------------------------------
(* Registered riders have accounts                                         *)

\* Who is signed in, about to be registered or about to be deleted has an
\* account; a removal comes after the registration it takes back, and once it
\* was performed nothing registers the account again.
Existing ==
    /\ user # NoOne => auth[user] = "exists"
    /\ \A i \in 1..Len(outbox) :
          /\ outbox[i].what = "register" => auth[outbox[i].account] = "exists"
          /\ outbox[i].what = "remove" => outbox[i].account = deletion.account
    /\ \A i, j \in 1..Len(outbox) :
          outbox[i].what = "remove" /\ outbox[j].what = "register"
             /\ outbox[i].account = outbox[j].account => j < i
    /\ deletion.phase # "idle" => auth[deletion.account] = "exists"
    /\ deletion.phase = "delete" =>
          /\ ~record[deletion.account].registered
          /\ \A i \in 1..Len(outbox) :
                outbox[i].what = "register" => outbox[i].account # deletion.account
    /\ NoOrphanRegistration

RegistrationInv == AccountInv /\ Existing

LEMMA ExistingInit == Init => Existing
<1> SUFFICES ASSUME Init PROVE Existing
  OBVIOUS
<1>1. Len(outbox) = 0 /\ user = NoOne /\ deletion.phase = "idle"
  BY IdleTypes DEF Init
<1>2. NoOrphanRegistration
  BY DEF Init, NoOrphanRegistration, Blank
<1>3. QED
  BY <1>1, <1>2 DEF Existing

\* Steps that add no registration and no removal.
LEMMA ExistingFrame ==
    ASSUME TypeOK, Existing, auth' = auth, deletion' = deletion,
           user' = user \/ user' = NoOne \/ auth[user'] = "exists",
           \A u \in Accounts : record'[u].registered = record[u].registered,
           \A i \in 1..Len(outbox') : outbox'[i].what \in {"register", "remove"} =>
              i \in 1..Len(outbox) /\ outbox'[i] = outbox[i]
    PROVE  Existing'
<1>1. user' # NoOne => auth'[user'] = "exists"
  BY DEF Existing
<1>2. \A i \in 1..Len(outbox') :
         /\ outbox'[i].what = "register" => auth'[outbox'[i].account] = "exists"
         /\ outbox'[i].what = "remove" => outbox'[i].account = deletion'.account
  BY DEF Existing
<1>3. \A i, j \in 1..Len(outbox') :
         outbox'[i].what = "remove" /\ outbox'[j].what = "register"
            /\ outbox'[i].account = outbox'[j].account => j < i
  BY DEF Existing
<1>4. deletion'.phase # "idle" => auth'[deletion'.account] = "exists"
  BY DEF Existing
<1>5. deletion'.phase = "delete" =>
         /\ ~record'[deletion'.account].registered
         /\ \A i \in 1..Len(outbox') :
               outbox'[i].what = "register" => outbox'[i].account # deletion'.account
  <2>1. deletion.phase = "delete" => deletion.account \in Accounts
    BY DeletionType
  <2>2. QED
    BY <2>1 DEF Existing
<1>6. NoOrphanRegistration'
  BY DEF Existing, NoOrphanRegistration
<1>7. QED
  BY <1>1, <1>2, <1>3, <1>4, <1>5, <1>6 DEF Existing

\* The first write is performed: a removal leaves no registration of its account,
\* neither in the record nor among the writes that follow it.
LEMMA ExistingPerform ==
    ASSUME AccountInv, Existing, Perform
    PROVE  Existing'
<1> USE DEF AccountInv
<1> DEFINE w == outbox[1]
           u == w.account
<1>1. w \in Write /\ u \in Accounts /\ 1 \in 1..Len(outbox) /\ record[u] \in Record
  BY PerformCases, FirstWrite DEF Write, TypeOK
<1>2. \A i \in 1..Len(outbox') : i + 1 \in 1..Len(outbox) /\ outbox'[i] = outbox[i + 1]
  BY PerformCases, FirstWrite
<1>3. auth' = auth /\ user' = user
  BY PerformCases
<1>4. record'[u] = Performed(record[u], w)
      /\ \A v \in Accounts : v # u => record'[v] = record[v]
  BY <1>1, PerformCases DEF TypeOK
<1>5. deletion'.account = deletion.account /\ (deletion'.phase = "idle" <=> deletion.phase = "idle")
      /\ (w.what # "remove" => deletion' = deletion)
  <2>1. CASE w.what # "remove"
    BY <2>1, PerformCases
  <2>2. CASE w.what = "remove"
    <3>1. deletion.phase = "remove" /\ deletion' = [deletion EXCEPT !.phase = "delete"]
      BY <2>2, PerformCases
    <3>2. deletion \in [phase : {"remove", "delete"}, account : Accounts]
      BY <3>1, DeletionType
    <3>3. QED
      BY <2>2, <3>1, <3>2
  <2>3. QED
    BY <2>1, <2>2
<1>6. user' # NoOne => auth'[user'] = "exists"
  BY <1>3 DEF Existing
<1>7. \A i \in 1..Len(outbox') :
         /\ outbox'[i].what = "register" => auth'[outbox'[i].account] = "exists"
         /\ outbox'[i].what = "remove" => outbox'[i].account = deletion'.account
  BY <1>2, <1>3, <1>5 DEF Existing
<1>8. \A i, j \in 1..Len(outbox') :
         outbox'[i].what = "remove" /\ outbox'[j].what = "register"
            /\ outbox'[i].account = outbox'[j].account => j < i
  <2>1. SUFFICES ASSUME NEW i \in 1..Len(outbox'), NEW j \in 1..Len(outbox'),
                        outbox'[i].what = "remove", outbox'[j].what = "register",
                        outbox'[i].account = outbox'[j].account
                 PROVE  j < i
    OBVIOUS
  <2>2. j + 1 < i + 1
    BY <1>2, <2>1 DEF Existing
  <2>3. QED
    BY <2>2
<1>9. deletion'.phase # "idle" => auth'[deletion'.account] = "exists"
  BY <1>3, <1>5 DEF Existing
<1>10. ASSUME deletion'.phase = "delete"
       PROVE  /\ ~record'[deletion'.account].registered
              /\ \A i \in 1..Len(outbox') :
                    outbox'[i].what = "register" => outbox'[i].account # deletion'.account
  <2>1. CASE w.what = "remove"
    <3>1. u = deletion'.account
      BY <1>1, <1>5, <2>1 DEF Existing
    <3>2. record'[u] = Blank
      BY <1>4, <2>1 DEF Performed, Field
    <3>3. ASSUME NEW i \in 1..Len(outbox'), outbox'[i].what = "register",
                 outbox'[i].account = u
          PROVE  FALSE
      <4>1. i + 1 < 1
        BY <1>1, <1>2, <2>1, <3>3 DEF Existing
      <4>2. QED
        BY <4>1
    <3>4. QED
      BY <3>1, <3>2, <3>3 DEF Blank
  <2>2. CASE w.what # "remove"
    <3>1. /\ deletion' = deletion /\ ~record[deletion.account].registered
          /\ deletion.account \in Accounts
          /\ \A i \in 1..Len(outbox) :
                outbox[i].what = "register" => outbox[i].account # deletion.account
      BY <1>5, <1>10, <2>2, DeletionType DEF Existing
    <3>2. u = deletion.account => w.what # "register"
      BY <1>1, <3>1
    <3>3. ~record'[deletion.account].registered
      BY <1>1, <1>4, <3>1, <3>2, PerformedKeeps
    <3>4. QED
      BY <1>2, <3>1, <3>3
  <2>3. QED
    BY <2>1, <2>2
<1>11. ASSUME NEW v \in Accounts, record'[v].registered PROVE auth'[v] = "exists"
  <2>1. CASE v # u \/ w.what = "register"
    BY <1>1, <1>3, <1>4, <1>11, <2>1 DEF Existing, NoOrphanRegistration
  <2>2. CASE v = u /\ w.what # "register"
    <3>1. record[u].registered
      BY <1>1, <1>4, <1>11, <2>2, PerformedKeeps
    <3>2. QED
      BY <1>1, <1>3, <2>2, <3>1 DEF Existing, NoOrphanRegistration
  <2>3. QED
    BY <2>1, <2>2
<1>12. QED
  BY <1>6, <1>7, <1>8, <1>9, <1>10, <1>11 DEF Existing, NoOrphanRegistration

\* A registration is added with the account: no removal of it is under way.
LEMMA ExistingCreated ==
    ASSUME AccountInv, Existing, Created
    PROVE  Existing'
<1> USE DEF AccountInv
<1> DEFINE u == signing.account
<1>1. u \in Accounts /\ auth[u] = "none"
  BY SigningType DEF Created
<1>2. /\ auth'[u] = "exists" /\ (\A v \in Accounts : v # u => auth'[v] = auth[v])
      /\ user' = u /\ record' = record /\ deletion' = deletion
      /\ \A v \in Accounts : auth[v] = "exists" => auth'[v] = "exists"
  BY <1>1 DEF Created, TypeOK
<1>3. /\ Len(outbox) \in Nat /\ Len(outbox') = Len(outbox) + 1
      /\ \A i \in 1..Len(outbox) : outbox'[i] = outbox[i] /\ outbox[i].account \in Accounts
      /\ outbox'[Len(outbox) + 1] = registration(u)
  <2>1. outbox' = Append(outbox, registration(u)) /\ outbox \in Seq(Write)
    BY DEF Created, TypeOK
  <2>2. \A i \in 1..Len(outbox) : outbox[i].account \in Accounts
    BY WriteIn DEF Write
  <2>3. QED
    BY <2>1, <2>2, AppendProperties
<1>4. registration(u).what = "register" /\ registration(u).account = u
  BY DEF registration
<1>5. deletion.phase # "idle" => deletion.account \in Accounts /\ deletion.account # u
  BY <1>1, DeletionType DEF Existing
<1>6. \A i \in 1..Len(outbox) : outbox[i].what = "remove" => outbox[i].account # u
  <2>1. \A i \in 1..Len(outbox) :
           outbox[i].what = "remove" =>
              deletion.phase = "remove" /\ outbox[i].account = deletion.account
    BY DEF Existing, Pending, PendingWrite
  <2>2. QED
    BY <2>1, <1>5
<1>7. \A i \in 1..Len(outbox') :
         /\ outbox'[i].what = "register" => auth'[outbox'[i].account] = "exists"
         /\ outbox'[i].what = "remove" => outbox'[i].account = deletion'.account
  BY <1>2, <1>3, <1>4 DEF Existing
<1>8. \A i, j \in 1..Len(outbox') :
         outbox'[i].what = "remove" /\ outbox'[j].what = "register"
            /\ outbox'[i].account = outbox'[j].account => j < i
  BY <1>3, <1>4, <1>6 DEF Existing
<1>9. deletion'.phase # "idle" => auth'[deletion'.account] = "exists"
  BY <1>2, <1>5 DEF Existing
<1>10. deletion'.phase = "delete" =>
          /\ ~record'[deletion'.account].registered
          /\ \A i \in 1..Len(outbox') :
                outbox'[i].what = "register" => outbox'[i].account # deletion'.account
  BY <1>2, <1>3, <1>4, <1>5 DEF Existing
<1>11. NoOrphanRegistration'
  BY <1>2 DEF Existing, NoOrphanRegistration
<1>12. QED
  BY <1>2, <1>7, <1>8, <1>9, <1>10, <1>11 DEF Existing

\* A removal is added behind every registration.
LEMMA ExistingTapDelete ==
    ASSUME AccountInv, Existing, TapDelete
    PROVE  Existing'
<1> USE DEF AccountInv
<1>1. user \in Accounts /\ auth[user] = "exists" /\ deletion.phase = "idle"
  BY IdleTypes DEF TapDelete, TypeOK, Existing
<1>2. /\ UNCHANGED <<auth, user, record>>
      /\ deletion'.phase = "remove" /\ deletion'.account = user
  BY DEF TapDelete, service
<1>3. /\ Len(outbox) \in Nat /\ Len(outbox') = Len(outbox) + 1
      /\ \A i \in 1..Len(outbox) : outbox'[i] = outbox[i]
      /\ outbox'[Len(outbox) + 1] = removal(user)
  <2>1. outbox' = Append(outbox, removal(user)) /\ outbox \in Seq(Write)
    BY DEF TapDelete, TypeOK
  <2>2. QED
    BY <2>1, AppendProperties
<1>4. removal(user).what = "remove" /\ removal(user).account = user
  BY DEF removal
<1>5. \A i \in 1..Len(outbox) : outbox[i].what # "remove"
  BY <1>1 DEF Pending, PendingWrite
<1>6. \A i \in 1..Len(outbox') :
         /\ outbox'[i].what = "register" => auth'[outbox'[i].account] = "exists"
         /\ outbox'[i].what = "remove" => outbox'[i].account = deletion'.account
  BY <1>2, <1>3, <1>4, <1>5 DEF Existing
<1>7. \A i, j \in 1..Len(outbox') :
         outbox'[i].what = "remove" /\ outbox'[j].what = "register"
            /\ outbox'[i].account = outbox'[j].account => j < i
  BY <1>3, <1>4, <1>5
<1>8. QED
  BY <1>1, <1>2, <1>6, <1>7 DEF Existing, NoOrphanRegistration

\* The account goes only after its registration did, from the record and from the
\* writes under way.
LEMMA ExistingDeleted ==
    ASSUME AccountInv, Existing, AccountDeleted
    PROVE  Existing'
<1> USE DEF AccountInv
<1> DEFINE u == deletion.account
<1>1. /\ u \in Accounts /\ deletion.phase = "delete" /\ ~record[u].registered
      /\ \A i \in 1..Len(outbox) : outbox[i].what = "register" => outbox[i].account # u
  BY DeletionType DEF AccountDeleted, Existing
<1>2. /\ \A v \in Accounts : v # u => auth'[v] = auth[v]
      /\ user' = NoOne /\ deletion'.phase = "idle" /\ UNCHANGED <<record, outbox>>
  BY <1>1, IdleTypes DEF AccountDeleted, TypeOK, db
<1>3. \A i \in 1..Len(outbox) : outbox[i].what # "remove"
  BY <1>1 DEF Pending, PendingWrite
<1>4. \A i \in 1..Len(outbox') :
         /\ outbox'[i].what = "register" => auth'[outbox'[i].account] = "exists"
         /\ outbox'[i].what = "remove" => outbox'[i].account = deletion'.account
  <2>1. \A i \in 1..Len(outbox) : outbox[i].account \in Accounts
    BY WriteIn DEF Write
  <2>2. QED
    BY <2>1, <1>1, <1>2, <1>3 DEF Existing
<1>5. NoOrphanRegistration'
  BY <1>1, <1>2 DEF Existing, NoOrphanRegistration
<1>6. QED
  BY <1>2, <1>3, <1>4, <1>5 DEF Existing

LEMMA ExistingNext == AccountInv /\ Existing /\ [Next]_vars => Existing'
<1> SUFFICES ASSUME AccountInv, Existing, [Next]_vars PROVE Existing'
  OBVIOUS
<1> USE DEF AccountInv, service, db, tasks, home, bounds
<1>1. CASE PageStep
  <2>1. UNCHANGED <<auth, record, outbox, deletion>>
    BY <1>1, PageStepPages DEF Paging
  <2>2. user' = user \/ user' = NoOne \/ auth[user'] = "exists"
    BY <1>1 DEF PageStep, StartRoute, OnboardingEnds, SigningFails, LoggedIn, LoggedInAgain,
       SecondLoginFails, SignOut, Back, TapSignUp, TapLogin, HomeTab, TapAvailability,
       NoAnswer, vars
  <2>3. QED
    BY <2>1, <2>2, ExistingFrame
<1>2. ASSUME NEW h \in Saves,
             \/ \E picked \in SUBSET Images : TapSave(h, picked)
             \/ \E i \in Images : Uploaded(h, i)
             \/ UploadFails(h) \/ ProfileSaved(h)
      PROVE  Existing'
  <2>1. UNCHANGED <<auth, user, record, outbox, deletion>>
    BY <1>2 DEF TapSave, Uploaded, UploadFails, ProfileSaved
  <2>2. QED
    BY <2>1, ExistingFrame
<1>3. ASSUME NEW h \in Saves, UpdateProfile(h) PROVE Existing'
  <2>1. UNCHANGED <<auth, user, record, deletion>>
    BY <1>3 DEF UpdateProfile
  <2>2. \A i \in 1..Len(outbox') : outbox'[i].what \in {"register", "remove"} =>
           i \in 1..Len(outbox) /\ outbox'[i] = outbox[i]
    <3>1. profileWrites(h)[1].what = "profile" /\ profileWrites(h)[2].what = "car"
      BY DEF profileWrites
    <3>2. QED
      BY <1>3, <3>1, ProfileIssued
  <2>3. QED
    BY <2>1, <2>2, ExistingFrame
<1>4. CASE TokenAnswers \/ SlotAnswers
  <2>1. PICK w \in Write :
           /\ outbox' = Append(outbox, w)
           /\ w.what \in {"token", "no_token", "slot", "no_slot"}
    BY <1>4, AnswerWrite
  <2>2. \A i \in 1..Len(outbox') : outbox'[i].what \in {"register", "remove"} =>
           i \in 1..Len(outbox) /\ outbox'[i] = outbox[i]
    <3>1. /\ Len(outbox) \in Nat /\ Len(outbox') = Len(outbox) + 1
          /\ \A i \in 1..Len(outbox) : outbox'[i] = outbox[i]
          /\ outbox'[Len(outbox) + 1] = w
      BY <2>1, AppendProperties DEF TypeOK
    <3>2. QED
      BY <2>1, <3>1
  <2>3. QED
    BY <1>4, <2>2, AnswerWrite, ExistingFrame
<1>5. ASSUME NEW u \in Accounts, AdministratorDecides(u) PROVE Existing'
  <2>1. PICK t : record' = [record EXCEPT ![u].status = t]
    BY <1>5 DEF AdministratorDecides
  <2>2. \A v \in Accounts : record'[v].registered = record[v].registered
    BY <2>1 DEF TypeOK, Record
  <2>3. QED
    BY <1>5, <2>2, ExistingFrame DEF AdministratorDecides
<1>6. CASE DeletionFails
  <2>1. /\ UNCHANGED <<auth, user, record, outbox>> /\ deletion'.phase = "idle"
        /\ deletion.phase = "delete"
    BY <1>6, IdleTypes DEF DeletionFails
  <2>2. \A i \in 1..Len(outbox) : outbox[i].what # "remove"
    BY <2>1 DEF Pending, PendingWrite
  <2>3. QED
    BY <2>1, <2>2 DEF Existing, NoOrphanRegistration
<1>7. CASE Crash
  <2>1. /\ UNCHANGED <<auth, user, record>> /\ deletion'.phase = "idle"
        /\ Len(outbox') = 0
    BY <1>7, IdleTypes DEF Crash
  <2>2. QED
    BY <2>1 DEF Existing, NoOrphanRegistration
<1>8. QED
  BY <1>1, <1>2, <1>3, <1>4, <1>5, <1>6, <1>7, ExistingPerform, ExistingCreated,
     ExistingTapDelete, ExistingDeleted, NextCases

\* Whatever crashes and fails between the steps of registering and of deleting,
\* with any back presses and any answers that come late, a registered rider has
\* an account: the removal was performed before the account is deleted, and it
\* comes after the registration among the writes under way.
THEOREM RegisteredHasAccount == Spec => []NoOrphanRegistration
<1>1. Init => RegistrationInv
  BY AccountInit, ExistingInit DEF RegistrationInv
<1>2. RegistrationInv /\ [Next]_vars => RegistrationInv'
  BY AccountNext, ExistingNext DEF RegistrationInv
<1>3. RegistrationInv => NoOrphanRegistration
  BY DEF RegistrationInv, Existing
<1>4. QED
  BY <1>1, <1>2, <1>3, PTL DEF Spec
=============================================================================
