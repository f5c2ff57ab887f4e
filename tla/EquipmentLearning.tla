-------------------------- MODULE EquipmentLearning --------------------------
(***************************************************************************)
(* What BrewZilla is observed to do (brewzilla_equipment_learning.py and   *)
(* its patch of the advice's builder): each observation is counted in the  *)
(* segment of its profile and kept among the recent ones, and the model is *)
(* stored now and then. The observer's timer and the looks at the advice   *)
(* both record; a look records in a task of its own, one at a time.        *)
(* The averages of a segment are left out, and its suggestion: that one    *)
(* reads fields that the advice's snapshot does not have.                  *)
(***************************************************************************)
EXTENDS RecordBounds, FiniteSetsExt

Keys == {v.key : v \in Views}
NoModel == [total |-> 0, counts |-> [k \in Keys |-> 0], sight |-> None, recent |-> 0]

VARIABLES
    view,    \* what an observation would see, or None outside the hot side's stages
    model,   \* the model in memory
    disk,    \* the stored one, or None
    setup,   \* "none", "started", "complete"
    task,    \* the record of a look: "none", "due", "saving"
    saving,  \* whether the timer's own save is under way
    written  \* observations that a finished save holds (ghost)

equipmentVars == <<view, model, disk, setup, task, saving, written>>

Init ==
    /\ view = None /\ model = NoModel /\ disk = None
    /\ setup = "none" /\ task = "none" /\ saving = FALSE /\ written = 0

Sight ==
    /\ view' \in Views \cup {None} /\ view' # view
    /\ UNCHANGED <<model, disk, setup, task, saving, written>>

(* A look at the advice starts the load, and once that is complete a       *)
(* record, unless the last one is not done.                                *)
Look ==
    /\ \/ setup = "none" /\ setup' = "started" /\ UNCHANGED task
       \/ setup = "complete" /\ task = "none" /\ task' = "due" /\ UNCHANGED setup
    /\ UNCHANGED <<view, model, disk, saving, written>>

(* Mutant: what is stored is not read back.                                *)
LoadedAnew ==
    /\ setup = "started" /\ setup' = "complete" /\ model' = NoModel
    /\ UNCHANGED <<view, disk, task, saving, written>>

Loaded ==
    /\ setup = "started" /\ setup' = "complete"
    /\ model' = IF disk = None THEN NoModel ELSE disk
    /\ UNCHANGED <<view, disk, task, saving, written>>

(* Mutant: the count of the profile's segment starts again.                *)
CountedAgain(m) ==
    [total |-> m.total + 1, counts |-> [k \in Keys |-> IF k = view.key THEN 1 ELSE m.counts[k]],
     sight |-> view.sight, recent |-> Min({m.recent + 1, MaxRecent})]

Recorded(m) ==
    [total |-> m.total + 1, counts |-> [m.counts EXCEPT ![view.key] = @ + 1],
     sight |-> view.sight, recent |-> Min({m.recent + 1, MaxRecent})]

(* The task of a look: it counts whatever it sees, seen before or not.     *)
RecordLook ==
    /\ task = "due"
    /\ \/ view = None /\ task' = "none" /\ UNCHANGED model
       \/ /\ view # None /\ model.total < MaxTotal
          /\ task' = "saving" /\ model' = Recorded(model)
    /\ UNCHANGED <<view, disk, setup, saving, written>>

(* Mutant: the timer's observations are stored with the next look's.       *)
Never(total) == FALSE
(* The timer's observations are stored every so often.                     *)
Due(total) == total % SaveEvery = 0

(* The timer counts what differs from the last observation. It needs one:  *)
(* without any, its tick fails.                                            *)
RecordTick ==
    /\ setup = "complete" /\ view # None /\ model.total < MaxTotal
    /\ model.sight # None /\ model.sight # view.sight
    /\ model' = Recorded(model)
    /\ saving' = (saving \/ Due(model.total + 1))
    /\ UNCHANGED <<view, disk, setup, task, written>>

(* A save writes the model as it is by then.                               *)
Save ==
    /\ \/ task = "saving" /\ task' = "none" /\ UNCHANGED saving
       \/ saving /\ saving' = FALSE /\ UNCHANGED task
    /\ disk' = model /\ written' = model.total
    /\ UNCHANGED <<view, model, setup>>

Restart ==
    /\ model' = NoModel /\ setup' = "none" /\ task' = "none" /\ saving' = FALSE
    /\ UNCHANGED <<view, disk, written>>

Next == Sight \/ Look \/ Loaded \/ RecordLook \/ RecordTick \/ Save \/ Restart

-----------------------------------------------------------------------------
Model == [total : Nat, counts : [Keys -> Nat], sight : {v.sight : v \in Views} \cup {None},
          recent : 0..MaxRecent]

TypeOK ==
    /\ view \in Views \cup {None}
    /\ model \in Model /\ disk \in Model \cup {None}
    /\ setup \in {"none", "started", "complete"} /\ task \in {"none", "due", "saving"}
    /\ saving \in BOOLEAN /\ written \in 0..MaxTotal

(* The observations that the segments of a model count. *)
Evidence(m) == UNION {{k} \X (1..m.counts[k]) : k \in Keys}

(* The evidence of the profiles is all the observations, in memory and as  *)
(* stored.                                                                 *)
AddsUp(m) ==
    /\ Cardinality(Evidence(m)) = m.total
    /\ m.recent = Min({m.total, MaxRecent})

(* What the equipment was seen to do survives: nothing that was stored is  *)
(* lost by a restart or a load, and when no save is under way fewer than   *)
(* SaveEvery observations are in memory only.                              *)
StoredSurvives ==
    /\ disk # None => disk.total >= written
    /\ setup = "complete" =>
         /\ model.total >= written
         /\ task # "saving" /\ ~saving => model.total < written + SaveEvery

(* What was seen survives, and adds up.                                    *)
EvidenceIsKept == StoredSurvives /\ AddsUp(model) /\ (disk # None => AddsUp(disk))
=============================================================================
