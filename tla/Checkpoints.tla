------------------------------ MODULE Checkpoints ------------------------------
(***************************************************************************)
(* Retained Baum-Welch updates: what a training stage leaves in its model  *)
(* directory, what list_checkpoints says of it and how restore_checkpoint  *)
(* puts an update back (lib/checkpoints.py, the staged update of           *)
(* lib/model.py, and the parts of lib/steps/train.py that write the        *)
(* directory).                                                             *)
(*                                                                         *)
(* A file is one of a few values: the mdef is the state mapping it defines, *)
(* a parameter or count file is the mapping it was computed over with an   *)
(* identifier of the update, Torn stands for bytes nothing else has.  The  *)
(* stage rewrites its directory in place; the staged saves of a variance   *)
(* floor are in BWTraining.  The user keeps training and restoration apart, *)
(* as restore_checkpoint requires, but may edit checkpoints at any time.   *)
(***************************************************************************)
EXTENDS Naturals, Sequences, SequencesExt, FiniteSets

CONSTANTS
    NIter,          \* n_iter, and so the largest checkpoint number
    ParameterFiles, \* MODEL_PARAMETER_FILES, a sequence
    Mappings,       \* state mappings an mdef may define
    Updates,        \* identifiers of the updates a pass may compute
    Absent, Torn,   \* no file; bytes of no update
    MaxStages,      \* bound: training stages started
    MaxRestores,    \* bound: restorations started
    MaxFaults,      \* bound: exceptions, interrupts, deaths and lost writes
    MaxEdits        \* bound: edits of checkpoints by the user

Mdef == "mdef"
Counts == "gauden_counts"
Parameters == Range(ParameterFiles)
Required == Parameters \cup {Mdef}             \* MODEL_FILES_REQUIRED
File == Required \cup {Counts}
Number == 1 .. NIter

ASSUME ConstantsAssumption ==
    /\ NIter \in Nat \ {0}
    /\ ParameterFiles \in Seq(STRING) \ {<<>>} /\ IsInjective(ParameterFiles)
    /\ {Mdef, Counts} \cap Parameters = {}
    /\ Absent # Torn /\ {Absent, Torn} \cap (Mappings \cup Mappings \X Updates) = {}
    /\ {MaxStages, MaxRestores, MaxFaults, MaxEdits} \subseteq Nat

\* What a file can hold, and a directory.
Values(f) == {Absent, Torn} \cup IF f = Mdef THEN Mappings ELSE Mappings \X Updates
Snapshot ==
    {s \in [File -> UNION {Values(f) : f \in File}] : \A f \in File : s[f] \in Values(f)}
Nowhere == [f \in File |-> Absent]

NoRow == [seen |-> FALSE, snapshot |-> Nowhere, healthy |-> FALSE]
NoRows == [n \in Number |-> NoRow]
SuccessFiles == <<"complete", "provenance">>

VARIABLES
    model,      \* the stage's model directory
    kept,       \* iterations/NN, per number
    reported,   \* bw_telemetry.json: n -> the row of pass n + 1
    success,    \* which of the completion marker and provenance.json exist
    pc,         \* where the running process is, "idle" when none runs
    todo,       \* files the current step still has to write, in order
    stage,      \* [retaining, mapping, pass, update, rows] of a training stage
    restore,    \* [number, selected, staging, original, outcome] of a restore
    backup,     \* recovery-history/restore-*, the last one
    budget,     \* what is left of the bounds
    scored,     \* history: snapshots a pass has scored as healthy
    completed,  \* history: the directory as the last stage returned
    before      \* history: the directory as the last restore found it

disk == <<model, kept, reported, success, backup>>
process == <<pc, todo, stage, restore>>
history == <<scored, completed, before>>
vars == <<disk, process, budget, history>>

NoStage == [retaining |-> FALSE, mapping |-> Absent, pass |-> 1,
            update |-> Absent, rows |-> NoRows]
Outcomes == {"none", "returned", "raised", "unrecovered", "killed"}
NoRestore == [number |-> 1, selected |-> Nowhere, staging |-> Nowhere,
              original |-> Nowhere, outcome |-> "none"]
NoBackup == [made |-> FALSE, files |-> Nowhere]
TrainingSteps == {"clear", "structure", "evaluate", "report", "refuse", "save",
                  "retain", "close", "finish", "mark"}
RestoreSteps == {"backup", "invalidate", "copy", "verify", "publish",
                 "rollback", "cleanup", "cleanupFailed"}

Init ==
    /\ model = Nowhere /\ kept = [n \in Number |-> Nowhere]
    /\ reported = NoRows /\ success = {} /\ backup = NoBackup
    /\ pc = "idle" /\ todo = <<>> /\ restore = NoRestore
    /\ stage = NoStage
    /\ budget = [stages |-> MaxStages, restores |-> MaxRestores,
                 faults |-> MaxFaults, edits |-> MaxEdits]
    /\ scored = {} /\ completed = Nowhere /\ before = Nowhere

Spend(what) == /\ budget[what] > 0
               /\ budget' = [budget EXCEPT ![what] = @ - 1]

\* A file being written in place by the step that was cut short.
CutShort(old, new) == {old, Torn, new}

-----------------------------------------------------------------------------
(* list_checkpoints                                                        *)

Whole(snapshot) == \A f \in Required : snapshot[f] # Absent

\* (Mistaken: the row of pass n + 1 is taken for evidence on update n.)
StatusByNumber(n) ==
    CASE ~reported[n].seen -> "unevaluated"
      [] reported[n].seen /\ ~Whole(kept[n]) -> "reported-unverified"
      [] reported[n].seen /\ Whole(kept[n]) ->
           IF reported[n].healthy THEN "evaluated-healthy"
                                  ELSE "evaluated-unhealthy"

\* Update n is evaluated by pass n + 1; its row counts only for the very files
\* that pass has read.
Status(n) ==
    CASE ~reported[n].seen -> "unevaluated"
      [] reported[n].seen /\ ~Whole(kept[n]) -> "reported-unverified"
      [] reported[n].seen /\ Whole(kept[n]) ->
           CASE reported[n].snapshot # kept[n] -> "evidence-mismatch"
             [] reported[n].snapshot = kept[n] /\ reported[n].healthy ->
                  "evaluated-healthy"
             [] OTHER -> "evaluated-unhealthy"

-----------------------------------------------------------------------------
(* A training stage: the task, run_bw_training and its checkpoints          *)

\* The runner withdraws the stage's completion marker before the task; the
\* stage discards the checkpoints of an earlier run only if it retains its own.
StartStage(mapping, retaining) ==
    /\ pc = "idle" /\ Spend("stages")
    /\ success' = success \ {"complete"}
    /\ stage' = [NoStage EXCEPT !.mapping = mapping, !.retaining = retaining]
    /\ restore' = NoRestore /\ before' = Nowhere
    /\ pc' = IF retaining THEN "clear" ELSE "structure"
    /\ UNCHANGED <<model, kept, reported, backup, todo, scored, completed>>

\* rmtree of iterations, taken to succeed unless the process dies in it.
Clear ==
    /\ pc = "clear" /\ pc' = "structure"
    /\ kept' = [n \in Number |-> Nowhere]
    /\ UNCHANGED <<model, reported, success, backup, todo, stage, restore, budget,
                   history>>

CopyStructure ==
    /\ pc = "structure"
    /\ model' = [model EXCEPT ![Mdef] = stage.mapping]
    /\ pc' = "evaluate"
    /\ UNCHANGED <<kept, reported, success, backup, todo, stage, restore,
                   budget, history>>

\* A pass binds its verdict to the files it has read; the first pass reads the
\* model of the stage before.  An unhealthy pass may also end the stage: too
\* many skips, no utterance processed, no frame.
Evaluate(healthy, refused) ==
    /\ pc = "evaluate" /\ (refused => ~healthy)
    /\ stage' = [stage EXCEPT !.rows =
         IF stage.pass = 1 THEN @ ELSE
           [@ EXCEPT ![stage.pass - 1] =
              [seen |-> TRUE, snapshot |-> model, healthy |-> healthy]]]
    /\ scored' = IF healthy /\ stage.pass > 1 THEN scored \cup {model} ELSE scored
    /\ pc' = IF refused THEN "refuse" ELSE "report"
    /\ UNCHANGED <<disk, todo, restore, budget, completed, before>>

\* _write_telemetry replaces the report by the rows of this run, or only warns;
\* then the update of the pass is normalised and saved, unless it was refused.
WriteReport(lost) ==
    /\ pc \in {"report", "refuse"}
    /\ IF lost THEN Spend("faults") /\ UNCHANGED reported
               ELSE reported' = stage.rows /\ UNCHANGED budget
    /\ IF pc = "refuse" THEN pc' = "idle" /\ stage' = NoStage /\ UNCHANGED todo
       ELSE /\ pc' = "save" /\ todo' = <<Counts>> \o ParameterFiles
            /\ \E u \in Updates : stage' = [stage EXCEPT !.update = u]
    /\ UNCHANGED <<model, kept, success, backup, restore, history>>

Updated == <<stage.mapping, stage.update>>

\* The counts, then the normalised parameters, each written in place.
SaveFile ==
    /\ pc = "save"
    /\ model' = [model EXCEPT ![Head(todo)] = Updated]
    /\ IF Len(todo) > 1 THEN todo' = Tail(todo) /\ UNCHANGED pc
       ELSE IF stage.retaining
         THEN pc' = "retain" /\ todo' = <<Mdef>> \o ParameterFiles \o <<Counts>>
         ELSE pc' = "close" /\ todo' = <<>>
    /\ UNCHANGED <<kept, reported, success, backup, stage, restore, budget,
                   history>>

\* _checkpoint_iteration copies file by file into the numbered directory.
RetainFile ==
    /\ pc = "retain"
    /\ kept' = [kept EXCEPT ![stage.pass][Head(todo)] = model[Head(todo)]]
    /\ todo' = Tail(todo)
    /\ pc' = IF Len(todo) > 1 THEN pc ELSE "close"
    /\ UNCHANGED <<model, reported, success, backup, stage, restore, budget,
                   history>>

\* (Mistaken: one pass more than n_iter.)
OnePassMore(stop) ==
    /\ pc = "close"
    /\ IF stop
         THEN /\ stage.pass > 1
              /\ pc' = "finish" /\ completed' = model /\ UNCHANGED stage
         ELSE /\ stage.pass <= NIter
              /\ pc' = "evaluate" /\ stage' = [stage EXCEPT !.pass = @ + 1]
              /\ UNCHANGED completed
    /\ UNCHANGED <<disk, todo, restore, budget, scored, before>>

\* The stage stops at the cap or by convergence, never after its first pass
\* otherwise.
ClosePass(stop) ==
    /\ pc = "close"
    /\ IF stop
         THEN /\ stage.pass > 1 \/ stage.pass = NIter
              /\ pc' = "finish" /\ completed' = model /\ UNCHANGED stage
         ELSE /\ stage.pass < NIter
              /\ pc' = "evaluate" /\ stage' = [stage EXCEPT !.pass = @ + 1]
              /\ UNCHANGED completed
    /\ UNCHANGED <<disk, todo, restore, budget, scored, before>>

RecordProvenance ==
    /\ pc = "finish" /\ pc' = "mark"
    /\ success' = success \cup {"provenance"}
    /\ UNCHANGED <<model, kept, reported, backup, todo, stage, restore, budget,
                   history>>

MarkComplete ==
    /\ pc = "mark" /\ pc' = "idle" /\ stage' = NoStage
    /\ success' = success \cup {"complete"}
    /\ UNCHANGED <<model, kept, reported, backup, todo, restore, budget, history>>

\* An exception or a death in any step of a stage leaves the file it was writing
\* as it was, torn or written, and any part of what it was removing; a save that
\* raises is reported as well.
StageFails ==
    /\ pc \in TrainingSteps /\ Spend("faults")
    /\ pc' = "idle" /\ todo' = <<>> /\ stage' = NoStage
    /\ CASE pc = "clear" ->
              /\ \E left \in [Number -> SUBSET File] :
                   kept' = [n \in Number |-> [f \in File |->
                     IF f \in left[n] THEN kept[n][f] ELSE Absent]]
              /\ UNCHANGED <<model, reported>>
         [] pc = "structure" ->
              /\ \E v \in CutShort(model[Mdef], stage.mapping) :
                   model' = [model EXCEPT ![Mdef] = v]
              /\ UNCHANGED <<kept, reported>>
         [] pc = "save" ->
              /\ \E v \in CutShort(model[Head(todo)], Updated) :
                   model' = [model EXCEPT ![Head(todo)] = v]
              /\ reported' \in {reported, stage.rows}
              /\ UNCHANGED kept
         [] pc = "retain" ->
              /\ \E v \in CutShort(kept[stage.pass][Head(todo)], model[Head(todo)]) :
                   kept' = [kept EXCEPT ![stage.pass][Head(todo)] = v]
              /\ UNCHANGED <<model, reported>>
         [] OTHER -> UNCHANGED <<model, kept, reported>>
    /\ UNCHANGED <<success, backup, restore, history>>

-----------------------------------------------------------------------------
(* restore_checkpoint and the staged_model_update it publishes through      *)

Selected == restore.selected
Published == IF Selected[Counts] = Absent THEN ParameterFiles
                                          ELSE ParameterFiles \o <<Counts>>
Affected == ParameterFiles \o <<Counts>>      \* published, then removed

\* (Mistaken: the state mappings are not compared.)
MayRestoreAny(n) == Whole(kept[n])

\* Whatever is known of it, a checkpoint is restored if its files are there and
\* its mdef is the destination's.
MayRestore(n) == Whole(kept[n]) /\ kept[n][Mdef] = model[Mdef]

StartRestore(n) ==
    /\ pc = "idle" /\ MayRestore(n) /\ Spend("restores")
    /\ restore' = [NoRestore EXCEPT !.number = n, !.selected = kept[n]]
    /\ before' = model
    /\ backup' = NoBackup /\ pc' = "backup"
    /\ UNCHANGED <<model, kept, reported, success, todo, stage, scored,
                   completed>>

\* (Mistaken: success metadata is left for the end.)
RetainOnly ==
    /\ pc = "backup"
    /\ backup' = [made |-> TRUE, files |-> model]
    /\ pc' = "copy"
    /\ UNCHANGED <<model, kept, reported, success, todo, stage, restore, budget,
                   history>>

\* The durable copy comes first, whole.
Retain ==
    /\ pc = "backup"
    /\ backup' = [made |-> TRUE, files |-> model]
    /\ pc' = "invalidate" /\ todo' = SuccessFiles
    /\ UNCHANGED <<model, kept, reported, success, stage, restore, budget,
                   history>>

\* Success metadata goes before any file of the model does.
Invalidate ==
    /\ pc = "invalidate"
    /\ success' = success \ {Head(todo)} /\ todo' = Tail(todo)
    /\ pc' = IF Len(todo) > 1 THEN pc ELSE "copy"
    /\ UNCHANGED <<model, kept, reported, backup, stage, restore, budget,
                   history>>

CopyStaging ==
    /\ pc = "copy" /\ pc' = "verify"
    /\ restore' = [restore EXCEPT !.staging = kept[restore.number]]
    /\ UNCHANGED <<disk, todo, stage, budget, history>>

\* A checkpoint changed since it was selected is not published; then the
\* originals are set aside in the staging directory.
Verify ==
    /\ pc = "verify"
    /\ IF /\ kept[restore.number] = Selected
          /\ \A f \in Range(Published) : restore.staging[f] = Selected[f]
       THEN /\ restore' = [restore EXCEPT !.original = model]
            /\ pc' = "publish" /\ todo' = Affected
       ELSE /\ pc' = "cleanupFailed" /\ UNCHANGED <<todo, restore>>
    /\ UNCHANGED <<disk, stage, budget, history>>

\* What the head of Affected becomes: renamed from staging, or unlinked.
NewContent(f) == IF f = Counts THEN Selected[Counts] ELSE restore.staging[f]

PublishFile ==
    /\ pc = "publish"
    /\ model' = [model EXCEPT ![Head(todo)] = NewContent(Head(todo))]
    /\ todo' = Tail(todo)
    /\ pc' = IF Len(todo) > 1 THEN pc ELSE "cleanup"
    /\ UNCHANGED <<kept, reported, success, backup, stage, restore, budget,
                   history>>

\* (Mistaken: only the operations known to have succeeded are undone.)
UndoKnown == SelectSeq(Reverse(Affected), LAMBDA f : f \notin Range(todo))

\* The rollback covers every file, last published first: an operation may have
\* taken effect before its error reached Python.
Undo == Reverse(Affected)

\* An error or interrupt of one operation, before or after it took effect.
PublishFails ==
    /\ pc = "publish" /\ Spend("faults")
    /\ model' \in {model, [model EXCEPT ![Head(todo)] = NewContent(Head(todo))]}
    /\ todo' = Undo
    /\ pc' = IF Undo = <<>> THEN "cleanupFailed" ELSE "rollback"
    /\ UNCHANGED <<kept, reported, success, backup, stage, restore, history>>

\* Moving an original back empties its place in the staging backup.
RolledBack(f) ==
    /\ model' = [model EXCEPT ![f] = restore.original[f]]
    /\ restore' = [restore EXCEPT !.original[f] = Absent]

RollBackFile ==
    /\ pc = "rollback" /\ RolledBack(Head(todo))
    /\ todo' = Tail(todo)
    /\ pc' = IF Len(todo) > 1 THEN pc ELSE "cleanupFailed"
    /\ UNCHANGED <<kept, reported, success, backup, stage, budget, history>>

Finish(outcome) ==
    /\ pc' = "idle" /\ todo' = <<>>
    /\ restore' = [restore EXCEPT !.outcome = outcome, !.staging = Nowhere,
                                  !.original = Nowhere]

\* (Mistaken: the staging directory goes even if the rollback did not finish.)
RollbackFailsDiscarding ==
    /\ pc = "rollback" /\ Spend("faults")
    /\ Finish("unrecovered") /\ UNCHANGED <<disk, stage, history>>

\* A rollback that fails stops, and keeps the staging directory.
RollbackFails ==
    /\ pc = "rollback" /\ Spend("faults")
    /\ pc' = "idle" /\ todo' = <<>>
    /\ \/ /\ restore' = [restore EXCEPT !.outcome = "unrecovered"]
          /\ UNCHANGED model
       \/ /\ model' = [model EXCEPT ![Head(todo)] = restore.original[Head(todo)]]
          /\ restore' = [restore EXCEPT !.outcome = "unrecovered",
                                        !.original[Head(todo)] = Absent]
    /\ UNCHANGED <<kept, reported, success, backup, stage, history>>

\* Removing the staging directory ends the restoration, and may itself raise.
CleanUp ==
    /\ pc = "cleanup" /\ UNCHANGED <<disk, stage, history>>
    /\ \/ Finish("returned") /\ UNCHANGED budget
       \/ Finish("raised") /\ Spend("faults")

CleanUpFailed ==
    /\ pc = "cleanupFailed" /\ Finish("raised")
    /\ UNCHANGED <<disk, stage, budget, history>>

\* Before anything is published an error or interrupt just ends it: a staging
\* directory goes, what was invalidated stays so.
RestoreFails ==
    /\ pc \in {"backup", "invalidate", "copy", "verify"} /\ Spend("faults")
    /\ Finish("raised")
    /\ \/ UNCHANGED <<disk, stage, history>>
       \/ /\ pc = "invalidate" /\ success' = success \ {Head(todo)}
          /\ UNCHANGED <<model, kept, reported, backup, stage, history>>

\* Death leaves everything, the staging directory included, where it is.
RestoreKilled ==
    /\ pc \in RestoreSteps /\ Spend("faults")
    /\ pc' = "idle" /\ todo' = <<>>
    /\ restore' = [restore EXCEPT !.outcome = "killed"]
    /\ UNCHANGED <<disk, stage, history>>

\* The user alters, removes or copies files of a checkpoint.
EditCheckpoint ==
    /\ Spend("edits")
    /\ \E n, k \in Number, f \in File :
         \E v \in {Absent, Torn, kept[k][f]} :
           /\ kept[n][f] \notin {Absent, v}
           /\ kept' = [kept EXCEPT ![n][f] = v]
    /\ UNCHANGED <<model, reported, success, backup, process, history>>

Train ==
    \/ \E m \in Mappings, keep \in BOOLEAN : StartStage(m, keep)
    \/ Clear \/ CopyStructure
    \/ \E healthy, refused \in BOOLEAN : Evaluate(healthy, refused)
    \/ \E lost \in BOOLEAN : WriteReport(lost)
    \/ SaveFile \/ RetainFile
    \/ \E stop \in BOOLEAN : ClosePass(stop)
    \/ RecordProvenance \/ MarkComplete \/ StageFails

Restore ==
    \/ \E n \in Number : StartRestore(n)
    \/ Retain \/ Invalidate \/ CopyStaging \/ Verify
    \/ PublishFile \/ PublishFails \/ RollBackFile \/ RollbackFails
    \/ CleanUp \/ CleanUpFailed \/ RestoreFails \/ RestoreKilled

Next == Train \/ Restore \/ EditCheckpoint

Spec == Init /\ [][Next]_vars

-----------------------------------------------------------------------------
(* Properties                                                              *)

Row == [seen : BOOLEAN, snapshot : Snapshot, healthy : BOOLEAN]

DiskOK ==
    /\ model \in Snapshot /\ kept \in [Number -> Snapshot]
    /\ reported \in [Number -> Row]
    /\ success \subseteq Range(SuccessFiles)
    /\ backup \in [made : BOOLEAN, files : Snapshot]

ProcessOK ==
    /\ pc \in TrainingSteps \cup RestoreSteps \cup {"idle"}
    /\ todo \in Seq(File \cup Range(SuccessFiles))
    /\ stage \in [retaining : BOOLEAN, mapping : Mappings \cup {Absent},
                  pass : Number, update : Updates \cup {Absent},
                  rows : [Number -> Row]]
    /\ restore \in [number : Number, selected : Snapshot, staging : Snapshot,
                    original : Snapshot, outcome : Outcomes]

HistoryOK ==
    /\ budget \in [{"stages", "restores", "faults", "edits"} -> Nat]
    /\ scored \subseteq Snapshot
    /\ completed \in Snapshot /\ before \in Snapshot

TypeOK == DiskOK /\ ProcessOK /\ HistoryOK

\* list_checkpoints calls a checkpoint evaluated-healthy only if some pass has
\* scored exactly these files, counts included, and found them healthy: across
\* reruns with and without retention, lost reports, half-copied or half-removed
\* checkpoints and edits (lib/checkpoints.py, list_checkpoints).
HealthyIsEarned ==
    \A n \in Number : Status(n) = "evaluated-healthy" => kept[n] \in scored

\* While the completion marker exists the directory holds what the stage
\* returned with: no interrupted training or restoration presents a model as a
\* completed stage (runner._execute_task, restore_checkpoint).
MarkerMeansComplete == "complete" \in success => model = completed

\* A restoration that returns has published the selected snapshot; one that
\* raises has published all of it or nothing, whichever operation failed and
\* whether or not it had taken effect (staged_model_update).
RestoreIsAllOrNothing ==
    LET IsPublished == \A f \in Range(Affected) : model[f] = Selected[f]
    IN  /\ restore.outcome = "returned" => IsPublished
        /\ restore.outcome = "raised" => IsPublished \/ model = before

\* Whatever ends a restoration, a failed rollback and death included, nothing
\* of the earlier model is lost: every file is in its place or in the staging
\* backup, or the durable copy has all of it.
NothingIsLost ==
    /\ restore.outcome = "unrecovered" =>
         \A f \in File : before[f] \in {Absent, model[f], restore.original[f]}
    /\ restore.outcome # "none" =>
         model = before \/ (backup.made /\ backup.files = before)

\* A restoration never pairs an mdef with parameters of another state mapping
\* (restore_checkpoint compares the two mdefs), short of files nobody computed.
MappingIsKept ==
    restore.outcome = "returned" /\ model[Mdef] # Torn =>
      \A p \in Parameters : model[p] \in ({model[Mdef]} \X Updates) \cup {Torn}

-----------------------------------------------------------------------------
(* The inductive invariant behind the first two.                           *)

\* What a step has left to write: the stage never its mdef once it saves, the
\* restoration success metadata first, then files of the model.
TodoIsLeft ==
    /\ pc \in {"save", "publish", "rollback"} =>
         todo \in Seq(File \ {Mdef}) \ {<<>>}
    /\ pc = "retain" => todo \in Seq(File) \ {<<>>}
    /\ pc = "invalidate" =>
         \/ todo = SuccessFiles
         \/ todo = <<"provenance">> /\ "complete" \notin success

\* A stage knows its state mapping, and its update once it saves.
StageIsSet ==
    /\ pc \in TrainingSteps => stage.mapping \in Mappings
    /\ pc = "save" => stage.update \in Updates

\* The marker is gone before a file of the model is touched.
MarkerIsWithdrawn ==
    /\ pc \in TrainingSteps \cup {"copy", "verify", "publish", "rollback"} =>
         "complete" \notin success
    /\ pc \in {"finish", "mark"} => model = completed

\* A healthy row is of a snapshot that was scored.
RowsAreScored ==
    \A n \in Number : /\ reported[n].healthy => reported[n].snapshot \in scored
                      /\ stage.rows[n].healthy => stage.rows[n].snapshot \in scored

Safe ==
    /\ TypeOK /\ TodoIsLeft /\ StageIsSet
    /\ MarkerIsWithdrawn /\ MarkerMeansComplete /\ RowsAreScored
-----------------------------------------------------------------------------
(* The inductive invariant behind the other three.                         *)

\* A snapshot over one state mapping, but for files that are torn or missing.
Over(m, s) ==
    /\ s[Mdef] \in {m, Torn, Absent}
    /\ \A f \in File \ {Mdef} : s[f] \in ({m} \X Updates) \cup {Torn, Absent}

\* A stage writes files of its own mapping only, once it has written its mdef.
WritesOwnMapping ==
    /\ pc \in TrainingSteps \ {"clear", "structure"} => model[Mdef] = stage.mapping
    /\ pc = "save" =>
         \A f \in File \ {Mdef} : f \in Range(todo) \/ model[f] = Updated
    /\ pc = "retain" =>
         \A f \in File \ {Mdef} : model[f] \in {stage.mapping} \X Updates

\* All checkpoints there are come from one stage, and so have one mapping: a
\* stage that retains its own has removed the others.
KeptAreOfOneMapping ==
    /\ \E m \in Mappings \cup {Absent} : \A n \in Number : Over(m, kept[n])
    /\ pc = "retain" => stage.retaining
    /\ pc \in TrainingSteps \ {"clear"} /\ stage.retaining =>
         \A n \in Number : Over(stage.mapping, kept[n])

\* What was selected is whole, of one mapping, and has the destination's mdef.
SelectedIsFit ==
    pc \in RestoreSteps \/ restore.outcome # "none" =>
      /\ Whole(Selected) /\ Selected[Mdef] = before[Mdef]
      /\ \E m \in Mappings \cup {Absent} : Over(m, Selected)

\* Where the files are at each step of a restoration: the earlier model in its
\* place, in the durable copy and in the staging backup, the selected snapshot
\* in staging and, file by file, in the model directory.
RestorationIsOn ==
    /\ restore.outcome # "none" => pc = "idle"
    /\ pc \in {"backup", "invalidate", "copy", "verify", "cleanupFailed"} =>
         model = before
    /\ pc \in RestoreSteps \ {"backup"} => backup.made /\ backup.files = before
    /\ pc = "publish" =>
         /\ IsInjective(todo) /\ restore.original = before
         /\ \A f \in Range(Affected) : NewContent(f) = Selected[f]
         /\ \A f \in File :
              model[f] = IF f \in Range(todo) THEN before[f] ELSE Selected[f]
    /\ pc = "rollback" =>
         /\ IsInjective(todo)
         /\ \A f \in File : IF f \in Range(todo)
              THEN restore.original[f] = before[f] ELSE model[f] = before[f]
    /\ pc = "cleanup" => model = Selected

\* How the files are when it has ended.
RestorationHasEnded ==
    /\ restore.outcome = "returned" => model = Selected
    /\ restore.outcome = "raised" => model \in {Selected, before}
    /\ NothingIsLost

Restorable ==
    /\ WritesOwnMapping /\ KeptAreOfOneMapping /\ SelectedIsFit
    /\ RestorationIsOn /\ RestorationHasEnded
=============================================================================
