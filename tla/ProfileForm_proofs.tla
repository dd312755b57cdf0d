------------------------- MODULE ProfileForm_proofs --------------------------
(***************************************************************************)
(* Proofs about ProfileForm for any set of texts, any number of tasks      *)
(* under way and any number of restarts: type correctness, and that the    *)
(* copy on the device catches up with the form.                            *)
(***************************************************************************)
EXTENDS ProfileForm, SequenceTheorems, TLAPS

USE TextsAssumption, BoundsAssumption

\* Loading comes before every save: initState starts it first.
CopyInv ==
    /\ TypeOK
    /\ \A i \in 1..Len(tasks) : i > 1 => tasks[i] = "save"
    /\ CopyIsCurrent

LEMMA LoadedType == TypeOK => Loaded \in Value
BY DEF TypeOK, Loaded, Value

\* What is under way after the oldest body has gone on.
LEMMA TasksLeft ==
    ASSUME TypeOK, tasks # << >>
    PROVE  /\ Head(tasks) = tasks[1]
           /\ Tail(tasks) \in Seq({"load", "save"})
           /\ \A i \in 1..Len(Tail(tasks)) :
                 i + 1 \in 1..Len(tasks) /\ Tail(tasks)[i] = tasks[i + 1]
BY HeadTailProperties DEF TypeOK

\* What is under way after a picked image has started its saves.
LEMMA TasksAdded ==
    ASSUME CopyInv, NEW s \in Seq({"save"}), s # << >>
    PROVE  /\ tasks \o s \in Seq({"load", "save"})
           /\ tasks \o s # << >>
           /\ \A i \in 1..Len(tasks \o s) : i > 1 => (tasks \o s)[i] = "save"
<1>1. tasks \in Seq({"load", "save"}) /\ s \in Seq({"load", "save"})
  BY DEF CopyInv, TypeOK
<1>2. /\ tasks \o s \in Seq({"load", "save"})
      /\ Len(tasks \o s) = Len(tasks) + Len(s)
      /\ \A i \in 1..(Len(tasks) + Len(s)) :
            (tasks \o s)[i] = IF i <= Len(tasks) THEN tasks[i] ELSE s[i - Len(tasks)]
  BY <1>1, ConcatProperties
<1>3. Len(s) > 0 /\ \A i \in 1..Len(s) : s[i] = "save"
  BY EmptySeq
<1>4. QED
  BY <1>1, <1>2, <1>3, EmptySeq DEF CopyInv

\* A new form: a copy being loaded, and nothing else.
LEMMA NewForm == /\ <<"load">> \in Seq({"load", "save"})
                 /\ Len(<<"load">>) = 1 /\ <<"load">> # << >>
OBVIOUS

LEMMA CopyInit == Init => CopyInv
<1> SUFFICES ASSUME Init PROVE CopyInv
  OBVIOUS
<1>1. TypeOK
  <2>1. tasks \in Seq({"load", "save"})
    BY NewForm DEF Init
  <2>2. image \in BOOLEAN /\ picking \in BOOLEAN
    BY DEF Init
  <2>3. shown \in Value /\ field \in Value /\ restarts \in 0..Restarts
    BY DEF Init, Value
  <2>4. local \in [text : Value \cup {Absent}, image : BOOLEAN]
    BY DEF Init
  <2>5. QED
    BY <2>1, <2>2, <2>3, <2>4 DEF TypeOK
<1>2. Len(tasks) = 1 /\ tasks # << >>
  BY NewForm DEF Init
<1>3. QED
  BY <1>1, <1>2 DEF CopyInv, CopyIsCurrent

LEMMA CopyNext == CopyInv /\ [Next]_vars => CopyInv'
<1> SUFFICES ASSUME CopyInv, [Next]_vars PROVE CopyInv'
  OBVIOUS
<1> USE DEF form
<1>1. CASE LoadSavedData
  <2>1. TypeOK'
    BY <1>1, TasksLeft, LoadedType DEF CopyInv, LoadSavedData, TypeOK
  <2>2. \A i \in 1..Len(tasks') : i > 1 => tasks'[i] = "save"
    BY <1>1, TasksLeft DEF CopyInv, LoadSavedData
  <2>3. CopyIsCurrent'
    BY <1>1 DEF LoadSavedData, CopyIsCurrent, Loaded
  <2>4. QED
    BY <2>1, <2>2, <2>3 DEF CopyInv
<1>2. CASE SaveDataLocally
  <2>1. local' = [local EXCEPT !.text = field] /\ field' = field /\ field \in Value
    BY <1>2 DEF SaveDataLocally, CopyInv, TypeOK
  <2>2. TypeOK'
    BY <1>2, <2>1, TasksLeft DEF CopyInv, SaveDataLocally, TypeOK
  <2>3. \A i \in 1..Len(tasks') : i > 1 => tasks'[i] = "save"
    BY <1>2, TasksLeft DEF CopyInv, SaveDataLocally
  <2>4. local'.text = field /\ field # Absent
    BY <2>1 DEF CopyInv, TypeOK, Value
  <2>5. CopyIsCurrent'
    BY <2>1, <2>4 DEF CopyIsCurrent, Loaded
  <2>6. QED
    BY <2>2, <2>3, <2>5 DEF CopyInv
<1>3. ASSUME NEW v \in Texts, Type(v) PROVE CopyInv'
  <2>1. tasks \in Seq({"load", "save"}) /\ tasks' = Append(tasks, "save")
    BY <1>3 DEF Type, CopyInv, TypeOK
  <2>2. /\ Len(tasks') = Len(tasks) + 1 /\ tasks' \in Seq({"load", "save"})
        /\ \A i \in 1..Len(tasks) : tasks'[i] = tasks[i]
        /\ tasks'[Len(tasks) + 1] = "save"
    BY <2>1, AppendProperties
  <2>3. /\ tasks' \in Seq({"load", "save"}) /\ tasks' # << >>
        /\ \A i \in 1..Len(tasks') : i > 1 => tasks'[i] = "save"
    BY <2>1, <2>2, EmptySeq DEF CopyInv
  <2>4. QED
    BY <1>3, <2>3 DEF Type, CopyInv, TypeOK, CopyIsCurrent, Value
<1>4. CASE ImagePicked
  <2>1. <<"save", "save">> \in Seq({"save"}) /\ <<"save", "save">> # << >>
    OBVIOUS
  <2>2. /\ tasks' \in Seq({"load", "save"}) /\ tasks' # << >>
        /\ \A i \in 1..Len(tasks') : i > 1 => tasks'[i] = "save"
    BY <1>4, <2>1, TasksAdded DEF ImagePicked
  <2>3. QED
    BY <1>4, <2>2 DEF ImagePicked, CopyInv, TypeOK, CopyIsCurrent
<1>5. CASE OpenPicker \/ PickerCancelled
  BY <1>5 DEF OpenPicker, PickerCancelled, CopyInv, TypeOK, CopyIsCurrent, Loaded
<1>6. CASE Restart
  <2>1. TypeOK'
    <3>1. tasks' \in Seq({"load", "save"})
      BY <1>6, NewForm DEF Restart
    <3>2. image' \in BOOLEAN /\ picking' \in BOOLEAN
      BY <1>6 DEF Restart
    <3>3. shown' \in Value /\ field' \in Value /\ restarts' \in 0..Restarts
      BY <1>6 DEF Restart, Value, CopyInv, TypeOK
    <3>4. local' \in [text : Value \cup {Absent}, image : BOOLEAN]
      BY <1>6 DEF Restart, CopyInv, TypeOK
    <3>5. QED
      BY <3>1, <3>2, <3>3, <3>4 DEF TypeOK
  <2>2. Len(tasks') = 1 /\ tasks' # << >>
    BY <1>6, NewForm DEF Restart
  <2>3. QED
    BY <2>1, <2>2 DEF CopyInv, CopyIsCurrent
<1>7. CASE UNCHANGED vars
  BY <1>7 DEF vars, CopyInv, TypeOK, CopyIsCurrent, Loaded
<1>8. QED
  BY <1>1, <1>2, <1>3, <1>4, <1>5, <1>6, <1>7 DEF Next

\* Every variable keeps its type, whatever is loaded, typed, picked or restarted.
THEOREM FormTypeCorrect == Spec => []TypeOK
<1>1. CopyInv => TypeOK
  BY DEF CopyInv
<1>2. QED
  BY <1>1, CopyInit, CopyNext, PTL DEF Spec

\* With nothing under way, the copy on the device is what the form would upload:
\* every change has a save behind it, and no load comes after a save.
THEOREM CopyCatchesUp == Spec => []CopyIsCurrent
<1>1. CopyInv => CopyIsCurrent
  BY DEF CopyInv
<1>2. QED
  BY <1>1, CopyInit, CopyNext, PTL DEF Spec
=============================================================================
