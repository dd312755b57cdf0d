---------------------------- MODULE ProfileForm ----------------------------
(***************************************************************************)
(* The draft of the profile form, src/lib/pages/riderdetails.dart: what    *)
(* the rider types and picks, and its copy on the device.  Loading the     *)
(* copy and saving it are asynchronous, and each change saves.             *)
(*                                                                         *)
(* The eight text fields are handled alike and are one field here, and so  *)
(* are the four images.                                                    *)
(***************************************************************************)
EXTENDS Naturals, Sequences

CONSTANTS
    Texts,     \* what may be typed
    Empty,     \* the field of a new form
    Absent,    \* nothing is stored on the device
    MaxTasks,  \* bound: changes are made with fewer tasks than this under way
    Restarts   \* bound: how often the application is killed and started again

ASSUME TextsAssumption == Empty \notin Texts /\ Absent \notin Texts \cup {Empty}
ASSUME BoundsAssumption == MaxTasks \in Nat \ {0} /\ Restarts \in Nat

VARIABLES
    shown,     \* what the text field shows
    field,     \* the State's field behind it, which is what gets saved
    image,     \* an image is picked
    picking,   \* the image picker is open
    local,     \* the copy on the device (SharedPreferences)
    tasks,     \* asynchronous bodies waiting for SharedPreferences, oldest first
    restarts   \* restarts so far

form == <<shown, field, image, picking>>
vars == <<form, local, tasks, restarts>>

Value == Texts \cup {Empty}

TypeOK ==
    /\ shown \in Value
    /\ field \in Value
    /\ image \in BOOLEAN
    /\ picking \in BOOLEAN
    /\ local \in [text : Value \cup {Absent}, image : BOOLEAN]
    /\ tasks \in Seq({"load", "save"})
    /\ restarts \in 0..Restarts

\* initState starts loading; the text fields have no controller and stay empty.
Init ==
    /\ shown = Empty
    /\ field = Empty
    /\ image = FALSE
    /\ picking = FALSE
    /\ local = [text |-> Absent, image |-> FALSE]
    /\ tasks = <<"load">>
    /\ restarts = 0

MayChange == ~picking /\ Len(tasks) < MaxTasks

\* Mutant: the default is left out.
Loaded_NoDefault == local.text

\* prefs.getString(...) ?? ''
Loaded == IF local.text = Absent THEN Empty ELSE local.text

\* The oldest body goes on with its SharedPreferences: _loadSavedData.
LoadSavedData ==
    /\ tasks # << >>
    /\ Head(tasks) = "load"
    /\ tasks' = Tail(tasks)
    /\ field' = Loaded
    /\ UNCHANGED <<shown, image, picking, local, restarts>>

\* _saveDataLocally writes the fields as they are now, and no image.
SaveDataLocally ==
    /\ tasks # << >>
    /\ Head(tasks) = "save"
    /\ tasks' = Tail(tasks)
    /\ local' = [local EXCEPT !.text = field]
    /\ UNCHANGED <<form, restarts>>

\* Mutant: typing does not save.
Type_NotSaved(v) ==
    /\ MayChange
    /\ shown' = v
    /\ field' = v
    /\ UNCHANGED <<image, picking, local, tasks, restarts>>

\* onChanged of a text field.
Type(v) ==
    /\ MayChange
    /\ shown' = v
    /\ field' = v
    /\ tasks' = Append(tasks, "save")
    /\ UNCHANGED <<image, picking, local, restarts>>

OpenPicker ==
    /\ MayChange
    /\ picking' = TRUE
    /\ UNCHANGED <<shown, field, image, local, tasks, restarts>>

\* _pickImage: the callback saves, and _pickImage saves once more.
ImagePicked ==
    /\ picking
    /\ picking' = FALSE
    /\ image' = TRUE
    /\ tasks' = tasks \o <<"save", "save">>
    /\ UNCHANGED <<shown, field, local, restarts>>

PickerCancelled ==
    /\ picking
    /\ picking' = FALSE
    /\ UNCHANGED <<shown, field, image, local, tasks, restarts>>

\* The application is killed, also by the system while the picker is open, and
\* shows a new form.
Restart ==
    /\ restarts < Restarts
    /\ restarts' = restarts + 1
    /\ shown' = Empty
    /\ field' = Empty
    /\ image' = FALSE
    /\ picking' = FALSE
    /\ tasks' = <<"load">>
    /\ UNCHANGED local

Next ==
    \/ LoadSavedData \/ SaveDataLocally
    \/ \E v \in Texts : Type(v)
    \/ OpenPicker \/ ImagePicked \/ PickerCancelled \/ Restart

Spec == Init /\ [][Next]_vars

-----------------------------------------------------------------------------
(* Properties                                                              *)

\* With nothing under way the copy on the device is what the form would upload,
\* in spite of the load racing the first changes.
CopyIsCurrent == tasks = << >> => Loaded = field

\* "Save the state after picking an image" (riderdetails.dart:73): with nothing
\* under way, a picked image is part of the copy.
ImageIsSaved == tasks = << >> /\ image => local.image
=============================================================================
