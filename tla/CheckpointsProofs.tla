--------------------------- MODULE CheckpointsProofs ---------------------------
(***************************************************************************)
(* What TLAPS proves of checkpoints: for every number of passes, list of   *)
(* parameter files, set of mappings and of updates, and any number of      *)
(* stages, restorations, faults and edits, the evidence list_checkpoints   *)
(* trusts is real, the completion marker never sits over a directory the   *)
(* stage did not return with, and a restoration is all or nothing, loses   *)
(* no file of the earlier model and mixes no two state mappings.           *)
(***************************************************************************)
EXTENDS Checkpoints, SequenceTheorems, TLAPS

(* Data: files, snapshots and the sequences of files still to write.       *)

LEMMA FileShape ==
    /\ Mdef \in File /\ Counts \in File /\ Counts # Mdef
    /\ Parameters \subseteq File \ {Mdef}
    /\ ParameterFiles \in Seq(File \ {Mdef}) \ {<<>>}
  <1>1. Mdef \in File /\ Counts \in File /\ Counts # Mdef
    BY DEF File, Required, Mdef, Counts
  <1>2. Parameters \subseteq File \ {Mdef}
    BY ConstantsAssumption DEF File, Required
  <1>3. ParameterFiles \in Seq(STRING) /\ ParameterFiles # <<>>
    BY ConstantsAssumption
  <1>4. Len(ParameterFiles) \in Nat /\ DOMAIN ParameterFiles = 1 .. Len(ParameterFiles)
        /\ ParameterFiles \in [1 .. Len(ParameterFiles) -> STRING]
    BY <1>3, LenProperties
  <1>5. \A i \in 1 .. Len(ParameterFiles) : ParameterFiles[i] \in File \ {Mdef}
    BY <1>2, <1>4 DEF Parameters, Range
  <1>6. ParameterFiles \in [1 .. Len(ParameterFiles) -> File \ {Mdef}]
    BY <1>4, <1>5
  <1>7. ParameterFiles \in Seq(File \ {Mdef})
    BY <1>4, <1>6, SeqDef
  <1> QED
    BY <1>1, <1>2, <1>3, <1>7

LEMMA ValuesShape ==
    /\ \A f \in File : {Absent, Torn} \subseteq Values(f)
    /\ Mappings \subseteq Values(Mdef)
    /\ \A f \in File \ {Mdef} : Mappings \X Updates \subseteq Values(f)
  BY DEF Values

LEMMA SnapshotShape ==
    /\ \A s \in Snapshot : DOMAIN s = File /\ \A f \in File : s[f] \in Values(f)
    /\ Nowhere \in Snapshot
  BY ValuesShape DEF Snapshot, Nowhere

\* A directory stays one when a file of it is written.
LEMMA SnapshotExcept ==
    ASSUME NEW s \in Snapshot, NEW f \in File, NEW v \in Values(f)
    PROVE  [s EXCEPT ![f] = v] \in Snapshot
  BY DEF Snapshot

\* Head and Tail of what is left to write.
LEMMA TailShape ==
    ASSUME NEW S, NEW s \in Seq(S) \ {<<>>}
    PROVE  /\ Head(s) \in S /\ Tail(s) \in Seq(S)
           /\ Len(s) > 1 => Tail(s) # <<>>
           /\ ~(Len(s) > 1) => Tail(s) = <<>>
  <1>1. Head(s) \in S /\ Tail(s) \in Seq(S) /\ Len(Tail(s)) = Len(s) - 1
    BY HeadTailProperties
  <1>2. Len(s) \in Nat \ {0} /\ Len(<<>>) = 0
    BY EmptySeq
  <1>3. Tail(s) # <<>> => Len(Tail(s)) \in Nat \ {0}
    BY <1>1, EmptySeq
  <1>4. Tail(s) = <<>> => Len(Tail(s)) = 0
    BY <1>2
  <1> DEFINE m == Len(Tail(s))
             n == Len(s)
  <1>5. m = n - 1 /\ n \in Nat \ {0}
    BY <1>1, <1>2
  <1>6. (Tail(s) # <<>> => m \in Nat \ {0}) /\ (Tail(s) = <<>> => m = 0)
    BY <1>3, <1>4
  <1> HIDE DEF m
  <1>7. n > 1 <=> Tail(s) # <<>>
    BY <1>5, <1>6
  <1> QED
    BY <1>1, <1>7

\* The sequences a step starts with.
LEMMA WorkShape ==
    /\ <<Counts>> \o ParameterFiles \in Seq(File \ {Mdef}) \ {<<>>}
    /\ <<Mdef>> \o ParameterFiles \o <<Counts>> \in Seq(File) \ {<<>>}
    /\ Affected \in Seq(File \ {Mdef}) \ {<<>>}
    /\ Undo \in Seq(File \ {Mdef}) \ {<<>>}
  <1> DEFINE S == File \ {Mdef}
             P == ParameterFiles
  <1>1. P \in Seq(S) /\ P # <<>> /\ <<Counts>> \in Seq(S) /\ <<Counts>> # <<>>
    BY FileShape
  <1>2. P \in Seq(File) /\ <<Counts>> \in Seq(File) /\ <<Mdef>> \in Seq(File)
        /\ <<Mdef>> # <<>>
    <2>1. S \subseteq File
      OBVIOUS
    <2> QED
      BY <1>1, <2>1, SeqMonotonic, FileShape
  <1> HIDE DEF P, S
  <1>3. <<Counts>> \o P \in Seq(S) /\ <<Counts>> \o P # <<>>
    BY <1>1, ConcatProperties, ConcatEqualIffEmpty
  <1>4. P \o <<Counts>> \in Seq(S) /\ P \o <<Counts>> # <<>>
    BY <1>1, ConcatProperties, ConcatEqualIffEmpty
  <1>5. <<Mdef>> \o P \in Seq(File) /\ <<Mdef>> \o P # <<>>
    BY <1>2, ConcatProperties, ConcatEqualIffEmpty
  <1>6. <<Mdef>> \o P \o <<Counts>> \in Seq(File)
        /\ <<Mdef>> \o P \o <<Counts>> # <<>>
    BY <1>2, <1>5, ConcatProperties, ConcatEqualIffEmpty
  <1>7. Affected \in Seq(S) /\ Affected # <<>>
    BY <1>4 DEF Affected, P
  <1>8. Undo \in Seq(S) /\ Undo # <<>>
    <2> DEFINE n == Len(Affected)
    <2>1. n \in Nat \ {0} /\ Affected \in [1 .. n -> S]
      BY <1>7, LenProperties, EmptySeq
    <2> HIDE DEF n
    <2>2. \A i \in 1 .. n : (n - i) + 1 \in 1 .. n
      BY <2>1
    <2>3. Undo = [i \in 1 .. n |-> Affected[(n - i) + 1]]
      BY DEF Undo, Reverse, n
    <2>4. Undo \in [1 .. n -> S]
      BY <2>1, <2>2, <2>3
    <2>5. Undo \in Seq(S)
      BY <2>1, <2>4, SeqDef
    <2>6. DOMAIN Undo = 1 .. n /\ DOMAIN <<>> = {}
      BY <2>3
    <2>7. 1 \in 1 .. n
      BY <2>1
    <2> QED
      BY <2>5, <2>6, <2>7
  <1> QED
    BY <1>3, <1>6, <1>7, <1>8 DEF P, S

LEMMA RowShape ==
    NoRows \in [Number -> Row] /\ \A n \in Number : ~NoRows[n].healthy
  BY SnapshotShape DEF NoRows, NoRow, Row

(* The initial state.                                                      *)

LEMMA InitSafe == Init => Safe
  <1> SUFFICES ASSUME Init PROVE Safe
    OBVIOUS
  <1> USE SnapshotShape, RowShape
  <1>1. DiskOK
    BY DEF Init, DiskOK, NoBackup
  <1>2. ProcessOK
    <2>1. 1 \in Number
      BY ConstantsAssumption DEF Number
    <2>2. stage \in [retaining : BOOLEAN, mapping : Mappings \cup {Absent},
                     pass : Number, update : Updates \cup {Absent},
                     rows : [Number -> Row]]
      BY <2>1 DEF Init, NoStage
    <2>3. restore \in [number : Number, selected : Snapshot, staging : Snapshot,
                       original : Snapshot, outcome : Outcomes]
      BY <2>1 DEF Init, NoRestore, Outcomes
    <2>4. todo \in Seq(File \cup Range(SuccessFiles))
      BY EmptySeq DEF Init
    <2> QED
      BY <2>2, <2>3, <2>4 DEF Init, ProcessOK
  <1>3. HistoryOK
    <2>1. MaxStages \in Nat /\ MaxRestores \in Nat /\ MaxFaults \in Nat /\ MaxEdits \in Nat
      BY ConstantsAssumption
    <2> QED
      BY <2>1 DEF Init, HistoryOK
  <1>4. TodoIsLeft /\ StageIsSet /\ MarkerIsWithdrawn /\ MarkerMeansComplete
    BY DEF Init, TodoIsLeft, StageIsSet, MarkerIsWithdrawn, MarkerMeansComplete,
           TrainingSteps
  <1>5. RowsAreScored
    BY DEF Init, RowsAreScored, NoStage
  <1> QED
    BY <1>1, <1>2, <1>3, <1>4, <1>5 DEF Safe, TypeOK

(* Which actions touch what: every other one leaves it.                    *)

LEMMA ModelTouched ==
    ASSUME Next
    PROVE  \/ UNCHANGED model \/ CopyStructure \/ SaveFile \/ StageFails
           \/ PublishFile \/ PublishFails \/ RollBackFile \/ RollbackFails
  BY DEF Next, Train, Restore, disk, StartStage, Clear, Evaluate, WriteReport,
         RetainFile, ClosePass, RecordProvenance, MarkComplete, StartRestore, Retain,
         Invalidate, CopyStaging, Verify, CleanUp, CleanUpFailed, RestoreFails,
         RestoreKilled, EditCheckpoint

LEMMA KeptTouched ==
    ASSUME Next
    PROVE  UNCHANGED kept \/ Clear \/ RetainFile \/ StageFails \/ EditCheckpoint
  BY DEF Next, Train, Restore, disk, StartStage, CopyStructure, Evaluate, WriteReport,
         SaveFile, ClosePass, RecordProvenance, MarkComplete, StartRestore, Retain,
         Invalidate, CopyStaging, Verify, PublishFile, PublishFails, RollBackFile,
         RollbackFails, CleanUp, CleanUpFailed, RestoreFails, RestoreKilled

LEMMA ReportedTouched ==
    ASSUME Next
    PROVE  \/ UNCHANGED reported \/ reported' = stage.rows
  BY DEF Next, Train, Restore, disk, StartStage, Clear, CopyStructure, Evaluate,
         WriteReport, SaveFile, RetainFile, ClosePass, RecordProvenance, MarkComplete,
         StageFails, StartRestore, Retain, Invalidate, CopyStaging, Verify,
         PublishFile, PublishFails, RollBackFile, RollbackFails, CleanUp,
         CleanUpFailed, RestoreFails, RestoreKilled, EditCheckpoint

LEMMA SuccessTouched ==
    ASSUME Next
    PROVE  \/ success' \subseteq success
           \/ RecordProvenance \/ MarkComplete
  BY DEF Next, Train, Restore, disk, StartStage, Clear, CopyStructure, Evaluate,
         WriteReport, SaveFile, RetainFile, ClosePass, StageFails, StartRestore,
         Retain, Invalidate, CopyStaging, Verify, PublishFile, PublishFails,
         RollBackFile, RollbackFails, CleanUp, CleanUpFailed, RestoreFails,
         RestoreKilled, EditCheckpoint

LEMMA StageTouched ==
    ASSUME Next
    PROVE  \/ UNCHANGED stage \/ stage' = NoStage
           \/ \E m \in Mappings, keep \in BOOLEAN : StartStage(m, keep)
           \/ \E healthy, refused \in BOOLEAN : Evaluate(healthy, refused)
           \/ \E lost \in BOOLEAN : WriteReport(lost)
           \/ \E stop \in BOOLEAN : ClosePass(stop)
  BY DEF Next, Train, Restore, process, Clear, CopyStructure, SaveFile, RetainFile,
         RecordProvenance, MarkComplete, StageFails, StartRestore, Retain, Invalidate,
         CopyStaging, Verify, PublishFile, PublishFails, RollBackFile, RollbackFails,
         CleanUp, CleanUpFailed, RestoreFails, RestoreKilled, EditCheckpoint

LEMMA ScoredTouched ==
    ASSUME Next
    PROVE  \/ UNCHANGED scored
           \/ \E healthy, refused \in BOOLEAN : Evaluate(healthy, refused)
  BY DEF Next, Train, Restore, history, StartStage, Clear, CopyStructure, WriteReport,
         SaveFile, RetainFile, ClosePass, RecordProvenance, MarkComplete, StageFails,
         StartRestore, Retain, Invalidate, CopyStaging, Verify, PublishFile,
         PublishFails, RollBackFile, RollbackFails, CleanUp, CleanUpFailed,
         RestoreFails, RestoreKilled, EditCheckpoint

LEMMA CompletedTouched ==
    ASSUME Next
    PROVE  \/ UNCHANGED completed
           \/ \E stop \in BOOLEAN : ClosePass(stop)
  BY DEF Next, Train, Restore, history, StartStage, Clear, CopyStructure, Evaluate,
         WriteReport, SaveFile, RetainFile, RecordProvenance, MarkComplete, StageFails,
         StartRestore, Retain, Invalidate, CopyStaging, Verify, PublishFile,
         PublishFails, RollBackFile, RollbackFails, CleanUp, CleanUpFailed,
         RestoreFails, RestoreKilled, EditCheckpoint

LEMMA BeforeTouched ==
    ASSUME Next
    PROVE  before' \in {before, Nowhere, model}
  BY DEF Next, Train, Restore, history, StartStage, Clear, CopyStructure, Evaluate,
         WriteReport, SaveFile, RetainFile, ClosePass, RecordProvenance, MarkComplete,
         StageFails, StartRestore, Retain, Invalidate, CopyStaging, Verify,
         PublishFile, PublishFails, RollBackFile, RollbackFails, CleanUp,
         CleanUpFailed, RestoreFails, RestoreKilled, EditCheckpoint

LEMMA BackupTouched ==
    ASSUME Next
    PROVE  backup' \in {backup, NoBackup, [made |-> TRUE, files |-> model]}
  BY DEF Next, Train, Restore, disk, StartStage, Clear, CopyStructure, Evaluate,
         WriteReport, SaveFile, RetainFile, ClosePass, RecordProvenance, MarkComplete,
         StageFails, StartRestore, Retain, Invalidate, CopyStaging, Verify,
         PublishFile, PublishFails, RollBackFile, RollbackFails, CleanUp,
         CleanUpFailed, RestoreFails, RestoreKilled, EditCheckpoint

LEMMA BudgetTouched ==
    ASSUME Next
    PROVE  \/ UNCHANGED budget
           \/ \E what \in {"stages", "restores", "faults", "edits"} : Spend(what)
  BY DEF Next, Train, Restore, StartStage, Clear, CopyStructure, Evaluate,
         WriteReport, SaveFile, RetainFile, ClosePass, RecordProvenance, MarkComplete,
         StageFails, StartRestore, Retain, Invalidate, CopyStaging, Verify,
         PublishFile, PublishFails, RollBackFile, RollbackFails, CleanUp,
         CleanUpFailed, RestoreFails, RestoreKilled, EditCheckpoint

(* Types: what each variable becomes.                                      *)

LEMMA DiskShape ==
    ASSUME TypeOK
    PROVE  /\ model \in Snapshot /\ kept \in [Number -> Snapshot]
           /\ \A n \in Number, f \in File : kept[n][f] \in Values(f)
           /\ \A f \in File : model[f] \in Values(f)
  BY SnapshotShape DEF TypeOK, DiskOK

LEMMA StageShape ==
    ASSUME TypeOK
    PROVE  /\ stage.mapping \in Mappings \cup {Absent}
           /\ stage.pass \in Number /\ stage.update \in Updates \cup {Absent}
           /\ stage.rows \in [Number -> Row]
           /\ stage.retaining \in BOOLEAN
           /\ stage = [retaining |-> stage.retaining, mapping |-> stage.mapping,
                       pass |-> stage.pass, update |-> stage.update,
                       rows |-> stage.rows]
  BY DEF TypeOK, ProcessOK

LEMMA RestoreShape ==
    ASSUME TypeOK
    PROVE  /\ restore.number \in Number /\ restore.selected \in Snapshot
           /\ restore.staging \in Snapshot /\ restore.original \in Snapshot
           /\ restore.outcome \in Outcomes
           /\ \A f \in File : /\ restore.selected[f] \in Values(f)
                              /\ restore.staging[f] \in Values(f)
                              /\ restore.original[f] \in Values(f)
  BY SnapshotShape DEF TypeOK, ProcessOK

LEMMA HeadShape ==
    ASSUME TodoIsLeft
    PROVE  /\ pc \in {"save", "publish", "rollback"} => Head(todo) \in File \ {Mdef}
           /\ pc = "retain" => Head(todo) \in File
  BY TailShape DEF TodoIsLeft

LEMMA ModelStays ==
    ASSUME Safe, Next
    PROVE  model' \in Snapshot
  <1> USE DEF Safe
  <1> USE FileShape, ValuesShape, DiskShape, StageShape, RestoreShape, HeadShape
  <1>1. CASE UNCHANGED model
    BY <1>1
  <1>2. CASE CopyStructure
    <2>1. stage.mapping \in Values(Mdef)
      BY <1>2 DEF CopyStructure, StageIsSet, TrainingSteps
    <2> QED
      BY <1>2, <2>1, SnapshotExcept DEF CopyStructure
  <1>3. ASSUME pc = "save" PROVE Updated \in Values(Head(todo))
    <2>1. Updated \in Mappings \X Updates
      BY <1>3 DEF Updated, StageIsSet, TrainingSteps
    <2> QED
      BY <1>3, <2>1
  <1>4. CASE SaveFile
    BY <1>3, <1>4, SnapshotExcept DEF SaveFile
  <1>5. CASE StageFails
    <2>1. CASE pc = "structure"
      <3>1. stage.mapping \in Values(Mdef)
        BY <2>1 DEF StageIsSet, TrainingSteps
      <3>2. PICK v \in CutShort(model[Mdef], stage.mapping) :
              model' = [model EXCEPT ![Mdef] = v]
        BY <1>5, <2>1 DEF StageFails
      <3>3. v \in Values(Mdef)
        BY <3>1, <3>2 DEF CutShort
      <3> QED
        BY <3>2, <3>3, SnapshotExcept
    <2>2. CASE pc = "save"
      <3>1. PICK v \in CutShort(model[Head(todo)], Updated) :
              model' = [model EXCEPT ![Head(todo)] = v]
        BY <1>5, <2>2 DEF StageFails
      <3>2. v \in Values(Head(todo)) /\ Head(todo) \in File
        BY <1>3, <2>2, <3>1 DEF CutShort
      <3> QED
        BY <3>1, <3>2, SnapshotExcept
    <2>3. CASE pc \notin {"structure", "save"}
      BY <1>5, <2>3 DEF StageFails
    <2> QED
      BY <2>1, <2>2, <2>3
  <1>6. ASSUME pc \in {"publish"} PROVE NewContent(Head(todo)) \in Values(Head(todo))
    BY <1>6 DEF NewContent, Selected
  <1>7. CASE PublishFile
    BY <1>6, <1>7, SnapshotExcept DEF PublishFile
  <1>8. CASE PublishFails
    BY <1>6, <1>8, SnapshotExcept DEF PublishFails
  <1>9. CASE RollBackFile
    BY <1>9, SnapshotExcept DEF RollBackFile, RolledBack
  <1>10. CASE RollbackFails
    BY <1>10, SnapshotExcept DEF RollbackFails
  <1> QED
    BY <1>1, <1>2, <1>4, <1>5, <1>7, <1>8, <1>9, <1>10, ModelTouched

\* A checkpoint of one number is written at one file.
LEMMA KeptExcept ==
    ASSUME kept \in [Number -> Snapshot],
           NEW n \in Number, NEW f \in File, NEW v \in Values(f)
    PROVE  [kept EXCEPT ![n][f] = v] \in [Number -> Snapshot]
  <1>1. [kept[n] EXCEPT ![f] = v] \in Snapshot
    BY SnapshotExcept
  <1> QED
    BY <1>1

LEMMA KeptStays ==
    ASSUME Safe, Next
    PROVE  kept' \in [Number -> Snapshot]
  <1> USE DEF Safe
  <1> USE FileShape, ValuesShape, DiskShape, StageShape, HeadShape
  <1>1. CASE UNCHANGED kept
    BY <1>1
  <1>2. CASE Clear
    BY <1>2, SnapshotShape DEF Clear
  <1>3. CASE RetainFile
    BY <1>3, KeptExcept DEF RetainFile
  <1>4. CASE StageFails
    <2>1. CASE pc = "clear"
      <3>1. PICK left \in [Number -> SUBSET File] :
              kept' = [n \in Number |-> [f \in File |->
                        IF f \in left[n] THEN kept[n][f] ELSE Absent]]
        BY <1>4, <2>1 DEF StageFails
      <3>2. \A n \in Number :
              [f \in File |-> IF f \in left[n] THEN kept[n][f] ELSE Absent] \in Snapshot
        <4> TAKE n \in Number
        <4>1. \A f \in File : kept[n][f] \in Values(f) /\ Absent \in Values(f)
          OBVIOUS
        <4>2. \A f \in File :
                (IF f \in left[n] THEN kept[n][f] ELSE Absent) \in Values(f)
          BY <4>1
        <4> DEFINE s == [f \in File |-> IF f \in left[n] THEN kept[n][f] ELSE Absent]
        <4>3. \A f \in File : s[f] \in Values(f)
          BY <4>2
        <4>4. s = [f \in File |-> s[f]]
          OBVIOUS
        <4> HIDE DEF s
        <4>5. s \in [File -> UNION {Values(f) : f \in File}]
          BY <4>3, <4>4
        <4>6. s \in Snapshot
          BY <4>3, <4>5 DEF Snapshot
        <4> QED
          BY <4>6 DEF s
      <3> QED
        BY <3>1, <3>2
    <2>2. CASE pc = "retain"
      <3>1. PICK v \in CutShort(kept[stage.pass][Head(todo)], model[Head(todo)]) :
              kept' = [kept EXCEPT ![stage.pass][Head(todo)] = v]
        BY <1>4, <2>2 DEF StageFails
      <3>2. v \in Values(Head(todo)) /\ Head(todo) \in File
        BY <2>2, <3>1 DEF CutShort
      <3> QED
        BY <3>1, <3>2, KeptExcept
    <2>3. CASE pc \notin {"clear", "retain"}
      BY <1>4, <2>3 DEF StageFails
    <2> QED
      BY <2>1, <2>2, <2>3
  <1>5. CASE EditCheckpoint
    <2>1. PICK n \in Number, k \in Number, f \in File :
            \E v \in {Absent, Torn, kept[k][f]} :
              kept[n][f] \notin {Absent, v} /\ kept' = [kept EXCEPT ![n][f] = v]
      BY <1>5, Zenon DEF EditCheckpoint
    <2>2. PICK v \in {Absent, Torn, kept[k][f]} : kept' = [kept EXCEPT ![n][f] = v]
      BY <2>1
    <2>3. v \in Values(f)
      BY <2>2
    <2>4. [kept EXCEPT ![n][f] = v] \in [Number -> Snapshot]
      BY <2>3, KeptExcept
    <2> QED
      BY <2>2, <2>4
  <1> QED
    BY <1>1, <1>2, <1>3, <1>4, <1>5, KeptTouched

LEMMA RowExcept ==
    ASSUME NEW rows \in [Number -> Row], NEW n \in Number, NEW healthy \in BOOLEAN,
           NEW snapshot \in Snapshot
    PROVE  [rows EXCEPT ![n] = [seen |-> TRUE, snapshot |-> snapshot,
                                healthy |-> healthy]] \in [Number -> Row]
  BY DEF Row

LEMMA StageStays ==
    ASSUME Safe, Next
    PROVE  stage' \in [retaining : BOOLEAN, mapping : Mappings \cup {Absent},
                       pass : Number, update : Updates \cup {Absent},
                       rows : [Number -> Row]]
  <1> USE DEF Safe
  <1> USE StageShape
  <1>1. 1 \in Number
    BY ConstantsAssumption DEF Number
  <1>2. CASE UNCHANGED stage
    BY <1>2 DEF TypeOK, ProcessOK
  <1>3. CASE stage' = NoStage
    BY <1>1, <1>3, RowShape DEF NoStage
  <1>4. ASSUME NEW m \in Mappings, NEW keep \in BOOLEAN, StartStage(m, keep)
        PROVE  stage'= [retaining |-> keep, mapping |-> m, pass |-> 1,
                        update |-> Absent, rows |-> NoRows]
    BY <1>4 DEF StartStage, NoStage
  <1>5. ASSUME NEW healthy \in BOOLEAN, NEW refused \in BOOLEAN,
               Evaluate(healthy, refused)
        PROVE  \E r \in [Number -> Row] : stage' = [stage EXCEPT !.rows = r]
    <2>1. CASE stage.pass = 1
      BY <1>5, <2>1 DEF Evaluate
    <2>2. CASE stage.pass # 1
      <3>1. stage.pass - 1 \in Number
        BY <2>2, ConstantsAssumption DEF Number
      <3>2. stage' = [stage EXCEPT !.rows = [stage.rows EXCEPT ![stage.pass - 1] =
                       [seen |-> TRUE, snapshot |-> model, healthy |-> healthy]]]
        BY <1>5, <2>2 DEF Evaluate
      <3> QED
        BY <3>1, <3>2, RowExcept, DiskShape
    <2> QED
      BY <2>1, <2>2
  <1>6. ASSUME NEW lost \in BOOLEAN, WriteReport(lost)
        PROVE  stage' = NoStage \/ \E u \in Updates : stage' = [stage EXCEPT !.update = u]
    BY <1>6 DEF WriteReport
  <1>7. ASSUME NEW stop \in BOOLEAN, ClosePass(stop)
        PROVE  stage' = stage \/ \E k \in Number : stage' = [stage EXCEPT !.pass = k]
    <2>1. CASE stop
      BY <1>7, <2>1 DEF ClosePass
    <2>2. CASE ~stop
      <3>1. stage.pass + 1 \in Number
        BY <1>7, <2>2, ConstantsAssumption DEF ClosePass, Number
      <3>2. stage' = [stage EXCEPT !.pass = stage.pass + 1]
        BY <1>7, <2>2 DEF ClosePass
      <3> QED
        BY <3>1, <3>2
    <2> QED
      BY <2>1, <2>2
  <1>8. CASE \E m \in Mappings, keep \in BOOLEAN : StartStage(m, keep)
    BY <1>1, <1>4, <1>8, RowShape
  <1>9. CASE \E healthy, refused \in BOOLEAN : Evaluate(healthy, refused)
    <2>1. PICK r \in [Number -> Row] : stage' = [stage EXCEPT !.rows = r]
      BY <1>5, <1>9
    <2> QED
      BY <2>1
  <1>10. CASE \E lost \in BOOLEAN : WriteReport(lost)
    <2>1. CASE \E u \in Updates : stage' = [stage EXCEPT !.update = u]
      BY <2>1
    <2> QED
      BY <1>3, <1>6, <1>10, <2>1
  <1>11. CASE \E stop \in BOOLEAN : ClosePass(stop)
    <2>1. CASE \E k \in Number : stage' = [stage EXCEPT !.pass = k]
      BY <2>1
    <2> QED
      BY <1>2, <1>7, <1>11, <2>1
  <1> QED
    BY <1>2, <1>3, <1>8, <1>9, <1>10, <1>11, StageTouched

LEMMA RestoreTouched ==
    ASSUME Next
    PROVE  \/ UNCHANGED restore \/ restore' = NoRestore
           \/ (\E n \in Number : StartRestore(n)) \/ CopyStaging \/ Verify
           \/ RollBackFile \/ RollbackFails \/ RestoreKilled
           \/ \E outcome \in Outcomes : Finish(outcome)
  BY DEF Next, Train, Restore, process, Outcomes, StartStage, Clear, CopyStructure,
         Evaluate, WriteReport, SaveFile, RetainFile, ClosePass, RecordProvenance,
         MarkComplete, StageFails, Retain, Invalidate, PublishFile, PublishFails,
         CleanUp, CleanUpFailed, RestoreFails, EditCheckpoint

LEMMA RestoreStays ==
    ASSUME Safe, Next
    PROVE  restore' \in [number : Number, selected : Snapshot, staging : Snapshot,
                         original : Snapshot, outcome : Outcomes]
  <1> USE DEF Safe
  <1> USE RestoreShape, DiskShape, SnapshotShape
  <1>0. restore \in [number : Number, selected : Snapshot, staging : Snapshot,
                     original : Snapshot, outcome : Outcomes]
    BY DEF TypeOK, ProcessOK
  <1>1. 1 \in Number /\ {"none", "returned", "raised", "unrecovered", "killed"} = Outcomes
    BY ConstantsAssumption DEF Number, Outcomes
  <1>2. CASE UNCHANGED restore
    BY <1>0, <1>2
  <1>3. CASE restore' = NoRestore
    BY <1>1, <1>3 DEF NoRestore
  <1>4. CASE \E n \in Number : StartRestore(n)
    BY <1>1, <1>4 DEF StartRestore, NoRestore
  <1>5. CASE CopyStaging
    BY <1>0, <1>5 DEF CopyStaging
  <1>6. CASE Verify
    BY <1>0, <1>6 DEF Verify
  <1>7. \A f \in File : [restore.original EXCEPT ![f] = Absent] \in Snapshot
    BY SnapshotExcept, ValuesShape
  <1>8. CASE RollBackFile
    <2>1. restore' = [restore EXCEPT !.original =
                        [restore.original EXCEPT ![Head(todo)] = Absent]]
          /\ Head(todo) \in File
      BY <1>8, HeadShape DEF RollBackFile, RolledBack
    <2> QED
      BY <1>0, <1>7, <2>1
  <1>9. CASE RollbackFails
    <2>1. \/ restore' = [restore EXCEPT !.outcome = "unrecovered"]
          \/ restore' = [restore EXCEPT !.outcome = "unrecovered",
                           !.original = [restore.original EXCEPT ![Head(todo)] = Absent]]
      BY <1>9 DEF RollbackFails
    <2>2. Head(todo) \in File
      BY <1>9, HeadShape DEF RollbackFails
    <2> QED
      BY <1>0, <1>1, <1>7, <2>1, <2>2
  <1>10. CASE RestoreKilled
    BY <1>0, <1>1, <1>10 DEF RestoreKilled
  <1>11. CASE \E outcome \in Outcomes : Finish(outcome)
    BY <1>0, <1>11 DEF Finish
  <1> QED
    BY <1>2, <1>3, <1>4, <1>5, <1>6, <1>8, <1>9, <1>10, <1>11, RestoreTouched

\* Work is begun, continued behind its head, or dropped.
LEMMA TodoTouched ==
    ASSUME Next
    PROVE  \/ todo' \in {todo, <<>>, <<Counts>> \o ParameterFiles,
                         <<Mdef>> \o ParameterFiles \o <<Counts>>,
                         Affected, Undo, SuccessFiles}
           \/ /\ todo' = Tail(todo)
              /\ pc \in {"save", "retain", "invalidate", "publish", "rollback"}
  BY DEF Next, Train, Restore, process, Finish, StartStage, Clear, CopyStructure,
         Evaluate, WriteReport, SaveFile, RetainFile, ClosePass, RecordProvenance,
         MarkComplete, StageFails, StartRestore, Retain, Invalidate, CopyStaging, Verify,
         PublishFile, PublishFails, RollBackFile, RollbackFails, CleanUp, CleanUpFailed,
         RestoreFails, RestoreKilled, EditCheckpoint

LEMMA SuccessShape ==
    /\ Range(SuccessFiles) = {"complete", "provenance"}
    /\ SuccessFiles \in Seq({"complete", "provenance"}) \ {<<>>}
    /\ Head(SuccessFiles) = "complete" /\ Tail(SuccessFiles) = <<"provenance">>
    /\ Len(SuccessFiles) > 1
    /\ <<"provenance">> \in Seq({"complete", "provenance"}) \ {<<>>}
    /\ ~(Len(<<"provenance">>) > 1)
  BY DEF SuccessFiles, Range

LEMMA TodoStays ==
    ASSUME Safe, Next
    PROVE  todo' \in Seq(File \cup Range(SuccessFiles))
  <1> DEFINE T == File \cup Range(SuccessFiles)
  <1>1. todo \in Seq(T) /\ TodoIsLeft
    BY DEF Safe, TypeOK, ProcessOK
  <1>2. \A q \in Seq(File \ {Mdef}) : q \in Seq(T)
    BY SeqMonotonic
  <1>3. \A q \in Seq(File) : q \in Seq(T)
    BY SeqMonotonic
  <1>4. \A q \in Seq({"complete", "provenance"}) : q \in Seq(T)
    BY SeqMonotonic, SuccessShape
  <1>5. ASSUME pc \in {"save", "retain", "invalidate", "publish", "rollback"}
        PROVE  Tail(todo) \in Seq(T)
    <2>1. todo # <<>>
      BY <1>1, <1>5, SuccessShape DEF TodoIsLeft
    <2> QED
      BY <1>1, <2>1, HeadTailProperties
  <1>6. <<>> \in Seq(T)
    BY EmptySeq
  <1> HIDE DEF T
  <1>7. todo' \in Seq(T)
    BY <1>1, <1>2, <1>3, <1>4, <1>5, <1>6, WorkShape, SuccessShape, TodoTouched
  <1> QED
    BY <1>7 DEF T

LEMMA DiskStays == ASSUME Safe, Next PROVE DiskOK'
  <1>1. TypeOK /\ reported \in [Number -> Row]
        /\ backup \in [made : BOOLEAN, files : Snapshot]
        /\ success \subseteq Range(SuccessFiles)
    BY DEF Safe, TypeOK, DiskOK
  <1>2. model' \in Snapshot /\ kept' \in [Number -> Snapshot]
    BY ModelStays, KeptStays
  <1>3. reported' \in [Number -> Row]
    BY <1>1, ReportedTouched, StageShape
  <1>4. backup' \in [made : BOOLEAN, files : Snapshot]
    <2> DEFINE B == [made : BOOLEAN, files : Snapshot]
    <2>1. \A s \in Snapshot : [made |-> TRUE, files |-> s] \in B
                              /\ [made |-> FALSE, files |-> s] \in B
      OBVIOUS
    <2>2. NoBackup \in B /\ [made |-> TRUE, files |-> model] \in B
      BY <1>1, <2>1, DiskShape, SnapshotShape DEF NoBackup
    <2> QED
      BY <1>1, <2>2, BackupTouched
  <1>5. success' \subseteq Range(SuccessFiles)
    BY <1>1, SuccessTouched, SuccessShape DEF RecordProvenance, MarkComplete
  <1> QED
    BY <1>2, <1>3, <1>4, <1>5 DEF DiskOK

LEMMA ProcessStays == ASSUME Safe, Next PROVE ProcessOK'
  <1>1. pc \in TrainingSteps \cup RestoreSteps \cup {"idle"}
    BY DEF Safe, TypeOK, ProcessOK
  <1>2. pc' \in TrainingSteps \cup RestoreSteps \cup {"idle"}
    BY <1>1 DEF Next, Train, Restore, process, Finish, StartStage, Clear, CopyStructure,
       Evaluate, WriteReport, SaveFile, RetainFile, ClosePass, RecordProvenance,
       MarkComplete, StageFails, StartRestore, Retain, Invalidate, CopyStaging, Verify,
       PublishFile, PublishFails, RollBackFile, RollbackFails, CleanUp, CleanUpFailed,
       RestoreFails, RestoreKilled, EditCheckpoint, TrainingSteps, RestoreSteps
  <1> QED
    BY <1>2, TodoStays, StageStays, RestoreStays DEF ProcessOK

LEMMA HistoryStays == ASSUME Safe, Next PROVE HistoryOK'
  <1>1. TypeOK /\ HistoryOK
    BY DEF Safe, TypeOK
  <1>2. budget' \in [{"stages", "restores", "faults", "edits"} -> Nat]
    <2>1. budget \in [{"stages", "restores", "faults", "edits"} -> Nat]
      BY <1>1 DEF HistoryOK
    <2>2. ASSUME NEW what \in {"stages", "restores", "faults", "edits"}, Spend(what)
          PROVE  /\ budget[what] - 1 \in Nat
                 /\ budget' = [budget EXCEPT ![what] = budget[what] - 1]
      BY <2>1, <2>2 DEF Spend
    <2> QED
      BY <2>1, <2>2, BudgetTouched
  <1>3. scored' \subseteq Snapshot
    BY <1>1, ScoredTouched, DiskShape DEF HistoryOK, Evaluate
  <1>4. completed' \in Snapshot
    BY <1>1, CompletedTouched, DiskShape DEF HistoryOK, ClosePass
  <1>5. before' \in Snapshot
    BY <1>1, BeforeTouched, DiskShape, SnapshotShape DEF HistoryOK
  <1> QED
    BY <1>2, <1>3, <1>4, <1>5 DEF HistoryOK

(* What a step has left to write.                                          *)

LEMMA TodoIsLeftStays == ASSUME Safe, Next PROVE TodoIsLeft'
  <1> DEFINE Writing == {"save", "publish", "rollback"}
             Busy == {"save", "publish", "rollback", "retain", "invalidate"}
             Rest == Seq(File \ {Mdef}) \ {<<>>}
  <1>0. TodoIsLeft
    BY DEF Safe
  <1> USE WorkShape, SuccessShape
  <1>1. ASSUME pc \in Writing
        PROVE  Tail(todo) \in Seq(File \ {Mdef}) /\ (Len(todo) > 1 => Tail(todo) # <<>>)
    BY <1>0, <1>1, TailShape DEF TodoIsLeft
  <1>2. ASSUME pc = "retain"
        PROVE  Tail(todo) \in Seq(File) /\ (Len(todo) > 1 => Tail(todo) # <<>>)
    BY <1>0, <1>2, TailShape DEF TodoIsLeft
  <1>3. CASE pc' \notin Busy
    BY <1>3 DEF TodoIsLeft
  <1>4. CASE UNCHANGED <<pc, todo, success>>
    BY <1>0, <1>4 DEF TodoIsLeft
  <1>5. CASE \E lost \in BOOLEAN : WriteReport(lost)
    <2>1. pc' \in Busy => pc' = "save" /\ todo' = <<Counts>> \o ParameterFiles
      BY <1>5 DEF WriteReport
    <2> QED
      BY <1>3, <2>1 DEF TodoIsLeft
  <1>6. CASE SaveFile
    <2>1. pc' \in Busy =>
            \/ pc' = "save" /\ todo' = Tail(todo) /\ Len(todo) > 1
            \/ pc' = "retain" /\ todo' = <<Mdef>> \o ParameterFiles \o <<Counts>>
      BY <1>6 DEF SaveFile
    <2>2. pc \in Writing
      BY <1>6 DEF SaveFile
    <2> QED
      BY <1>1, <1>3, <2>1, <2>2 DEF TodoIsLeft
  <1>7. CASE RetainFile
    <2>1. pc = "retain" /\ todo' = Tail(todo)
          /\ (pc' = "close" \/ (pc' = "retain" /\ Len(todo) > 1))
      BY <1>7 DEF RetainFile
    <2> QED
      BY <1>2, <2>1 DEF TodoIsLeft
  <1>8. CASE Retain
    BY <1>8 DEF Retain, TodoIsLeft
  <1>9. CASE Invalidate
    <2>1. pc = "invalidate" /\ todo' = Tail(todo) /\ success' = success \ {Head(todo)}
          /\ pc' = IF Len(todo) > 1 THEN pc ELSE "copy"
      BY <1>9 DEF Invalidate
    <2>2. CASE todo = SuccessFiles
      BY <2>1, <2>2 DEF TodoIsLeft
    <2>3. CASE todo = <<"provenance">>
      BY <2>1, <2>3 DEF TodoIsLeft
    <2> QED
      BY <1>0, <2>1, <2>2, <2>3 DEF TodoIsLeft
  <1>10. CASE Verify
    <2>1. (pc' = "publish" /\ todo' = Affected) \/ pc' = "cleanupFailed"
      BY <1>10 DEF Verify
    <2> QED
      BY <2>1 DEF TodoIsLeft
  <1>11. CASE PublishFails
    <2>1. pc' \in {"rollback", "cleanupFailed"} /\ todo' = Undo
      BY <1>11 DEF PublishFails
    <2> QED
      BY <2>1 DEF TodoIsLeft
  <1>12. CASE PublishFile \/ RollBackFile
    <2>1. pc \in Writing /\ todo' = Tail(todo)
          /\ (pc' \in {"cleanup", "cleanupFailed"}
              \/ (pc' \in {"publish", "rollback"} /\ Len(todo) > 1))
      BY <1>12 DEF PublishFile, RollBackFile
    <2> QED
      BY <1>1, <2>1 DEF TodoIsLeft
  <1>13. \/ pc' \notin Busy \/ UNCHANGED <<pc, todo, success>>
         \/ (\E lost \in BOOLEAN : WriteReport(lost)) \/ SaveFile \/ RetainFile \/ Retain
         \/ Invalidate \/ Verify \/ PublishFails \/ PublishFile \/ RollBackFile
    BY DEF Next, Train, Restore, process, Finish, StartStage, Clear, CopyStructure,
       Evaluate, ClosePass, RecordProvenance, MarkComplete, StageFails, StartRestore,
       CopyStaging, RollbackFails, CleanUp, CleanUpFailed, RestoreFails, RestoreKilled,
       EditCheckpoint
  <1> QED
    BY <1>3, <1>4, <1>5, <1>6, <1>7, <1>8, <1>9, <1>10, <1>11, <1>12, <1>13

(* A stage knows its mapping and its update.                               *)

LEMMA StageIsSetStays == ASSUME Safe, Next PROVE StageIsSet'
  <1>0. StageIsSet /\ TypeOK
    BY DEF Safe
  <1> USE StageShape
  <1>1. CASE pc' \notin TrainingSteps
    BY <1>1 DEF StageIsSet, TrainingSteps
  <1>2. CASE \E m \in Mappings, keep \in BOOLEAN : StartStage(m, keep)
    BY <1>2 DEF StartStage, NoStage, StageIsSet, TrainingSteps
  <1>3. CASE \E healthy, refused \in BOOLEAN : Evaluate(healthy, refused)
    <2>1. PICK healthy \in BOOLEAN, refused \in BOOLEAN : Evaluate(healthy, refused)
      BY <1>3
    <2>2. pc \in TrainingSteps /\ pc' # "save" /\ stage'.mapping = stage.mapping
      BY <1>0, <2>1 DEF Evaluate, TrainingSteps
    <2> QED
      BY <1>0, <2>2 DEF StageIsSet
  <1>4. CASE \E lost \in BOOLEAN : WriteReport(lost)
    <2>1. PICK lost \in BOOLEAN : WriteReport(lost)
      BY <1>4
    <2>2. CASE pc = "refuse"
      BY <1>1, <2>1, <2>2 DEF WriteReport, TrainingSteps
    <2>3. CASE pc # "refuse"
      <3>1. PICK u \in Updates : stage' = [stage EXCEPT !.update = u]
        BY <2>1, <2>3 DEF WriteReport
      <3>2. stage'.mapping = stage.mapping /\ stage'.update = u
        BY <1>0, <3>1
      <3>3. pc \in TrainingSteps
        BY <2>1 DEF WriteReport, TrainingSteps
      <3> QED
        BY <1>0, <3>2, <3>3 DEF StageIsSet
    <2> QED
      BY <2>2, <2>3
  <1>5. CASE \E stop \in BOOLEAN : ClosePass(stop)
    <2>1. pc \in TrainingSteps /\ pc' # "save" /\ stage'.mapping = stage.mapping
      BY <1>0, <1>5 DEF ClosePass, TrainingSteps
    <2> QED
      BY <1>0, <2>1 DEF StageIsSet
  <1>6. CASE /\ UNCHANGED stage /\ pc \in TrainingSteps
             /\ pc' = "save" => pc = "save"
    BY <1>0, <1>6 DEF StageIsSet
  <1>7. CASE UNCHANGED <<pc, stage>>
    BY <1>0, <1>7 DEF StageIsSet
  <1>8. CASE Restore
    <2>1. pc' \notin TrainingSteps
      BY <1>8 DEF Restore, Finish, StartRestore, Retain, Invalidate, CopyStaging, Verify,
         PublishFile, PublishFails, RollBackFile, RollbackFails, CleanUp, CleanUpFailed,
         RestoreFails, RestoreKilled, TrainingSteps
    <2> QED
      BY <1>1, <2>1
  <1>9. CASE EditCheckpoint
    BY <1>7, <1>9 DEF EditCheckpoint, process
  <1>10. CASE Clear \/ CopyStructure \/ SaveFile \/ RetainFile \/ RecordProvenance
    BY <1>6, <1>10 DEF Clear, CopyStructure, SaveFile, RetainFile, RecordProvenance,
       TrainingSteps
  <1>11. CASE MarkComplete \/ StageFails
    BY <1>1, <1>11 DEF MarkComplete, StageFails, TrainingSteps
  <1> QED
    BY <1>2, <1>3, <1>4, <1>5, <1>8, <1>9, <1>10, <1>11 DEF Next, Train

(* The completion marker.                                                  *)

LEMMA MarkerStays ==
    ASSUME Safe, Next
    PROVE  MarkerIsWithdrawn' /\ MarkerMeansComplete'
  <1>0. MarkerIsWithdrawn /\ MarkerMeansComplete /\ TodoIsLeft
    BY DEF Safe
  <1> DEFINE Touching == TrainingSteps \cup {"copy", "verify", "publish", "rollback"}
  <1>1. pc' \in Touching => "complete" \notin success'
    <2>1. CASE \E m \in Mappings, keep \in BOOLEAN : StartStage(m, keep)
      BY <2>1 DEF StartStage
    <2>2. CASE pc \in Touching /\ ~MarkComplete
      <3>1. "complete" \notin success
        BY <1>0, <2>2 DEF MarkerIsWithdrawn
      <3>2. RecordProvenance => success' = success \cup {"provenance"}
        BY DEF RecordProvenance
      <3> QED
        BY <2>2, <3>1, <3>2, SuccessTouched
    <2>3. CASE Invalidate
      <3>1. pc = "invalidate" /\ success' = success \ {Head(todo)}
        BY <2>3 DEF Invalidate
      <3>2. todo = SuccessFiles \/ "complete" \notin success
        BY <1>0, <3>1 DEF TodoIsLeft
      <3> QED
        BY <3>1, <3>2, SuccessShape
    <2>4. CASE pc' \notin Touching
      BY <2>4
    <2>5. \/ \E m \in Mappings, keep \in BOOLEAN : StartStage(m, keep)
          \/ pc \in Touching /\ ~MarkComplete
          \/ Invalidate \/ pc' \notin Touching
      BY DEF Next, Train, Restore, process, Finish, Clear, CopyStructure, Evaluate,
         WriteReport, SaveFile, RetainFile, ClosePass, RecordProvenance, MarkComplete,
         StageFails, StartRestore, Retain, CopyStaging, Verify, PublishFile,
         PublishFails, RollBackFile, RollbackFails, CleanUp, CleanUpFailed,
         RestoreFails, RestoreKilled, EditCheckpoint, TrainingSteps
    <2> QED
      BY <2>1, <2>2, <2>3, <2>4, <2>5
  <1>2. pc' \in {"finish", "mark"} => model' = completed'
    <2>1. \/ \E stop \in BOOLEAN : ClosePass(stop)
          \/ pc \in {"finish", "mark"} /\ UNCHANGED <<model, completed>>
          \/ pc' \notin {"finish", "mark"}
      BY DEF Next, Train, Restore, disk, process, history, Finish, StartStage, Clear,
         CopyStructure, Evaluate, WriteReport, SaveFile, RetainFile, RecordProvenance,
         MarkComplete, StageFails, StartRestore, Retain, Invalidate, CopyStaging, Verify,
         PublishFile, PublishFails, RollBackFile, RollbackFails, CleanUp, CleanUpFailed,
         RestoreFails, RestoreKilled, EditCheckpoint
    <2>2. CASE \E stop \in BOOLEAN : ClosePass(stop)
      BY <2>2 DEF ClosePass, disk
    <2> QED
      BY <1>0, <2>1, <2>2 DEF MarkerIsWithdrawn
  <1>3. "complete" \in success' => model' = completed'
    <2>1. CASE MarkComplete
      BY <1>0, <2>1 DEF MarkComplete, MarkerIsWithdrawn, history
    <2>2. CASE "complete" \notin success /\ ~MarkComplete
      BY <2>2, SuccessTouched DEF RecordProvenance
    <2>3. CASE "complete" \in success
      <3>1. pc \notin Touching
        BY <1>0, <2>3 DEF MarkerIsWithdrawn
      <3>2. UNCHANGED model
        BY <3>1, ModelTouched DEF CopyStructure, SaveFile, StageFails, PublishFile,
           PublishFails, RollBackFile, RollbackFails, TrainingSteps
      <3>3. UNCHANGED completed
        BY <3>1, CompletedTouched DEF ClosePass, TrainingSteps
      <3> QED
        BY <1>0, <2>3, <3>2, <3>3 DEF MarkerMeansComplete
    <2> QED
      BY <2>1, <2>2, <2>3
  <1> QED
    BY <1>1, <1>2, <1>3 DEF MarkerIsWithdrawn, MarkerMeansComplete

(* Healthy rows are of scored snapshots.                                   *)

LEMMA RowsAreScoredStays == ASSUME Safe, Next PROVE RowsAreScored'
  <1>0. RowsAreScored /\ TypeOK
    BY DEF Safe
  <1> USE StageShape
  <1>1. scored \subseteq scored'
    BY ScoredTouched DEF Evaluate
  <1>2. \A n \in Number : reported'[n].healthy => reported'[n].snapshot \in scored'
    BY <1>0, <1>1, ReportedTouched DEF RowsAreScored
  <1>3. \A n \in Number : stage.rows'[n].healthy => stage.rows'[n].snapshot \in scored'
    <2>1. CASE stage'.rows = stage.rows
      BY <1>0, <1>1, <2>1 DEF RowsAreScored
    <2>2. CASE stage'.rows = NoRows
      BY <2>2, RowShape
    <2>3. CASE \E healthy, refused \in BOOLEAN : Evaluate(healthy, refused)
      <3>1. PICK healthy \in BOOLEAN, refused \in BOOLEAN : Evaluate(healthy, refused)
        BY <2>3
      <3>2. CASE stage.pass = 1
        BY <1>0, <2>1, <3>1, <3>2 DEF Evaluate
      <3>3. CASE stage.pass # 1
        <4>1. stage.pass - 1 \in Number
          BY <1>0, <3>3, ConstantsAssumption DEF Number
        <4>2. stage'.rows = [stage.rows EXCEPT ![stage.pass - 1] =
                [seen |-> TRUE, snapshot |-> model, healthy |-> healthy]]
          BY <1>0, <3>1, <3>3 DEF Evaluate
        <4>3. healthy => model \in scored'
          <5>1. stage.pass > 1
            BY <1>0, <3>3, ConstantsAssumption DEF Number
          <5> QED
            BY <3>1, <5>1 DEF Evaluate
        <4>4. \A n \in Number : stage'.rows[n] = IF n = stage.pass - 1
                THEN [seen |-> TRUE, snapshot |-> model, healthy |-> healthy]
                ELSE stage.rows[n]
          BY <1>0, <4>1, <4>2
        <4> QED
          BY <1>0, <1>1, <4>3, <4>4 DEF RowsAreScored
      <3> QED
        BY <3>2, <3>3
    <2>4. ASSUME ~\E healthy, refused \in BOOLEAN : Evaluate(healthy, refused)
          PROVE  stage'.rows = stage.rows \/ stage'.rows = NoRows
      <3>1. CASE UNCHANGED stage \/ stage' = NoStage
        BY <3>1 DEF NoStage
      <3>2. CASE \E m \in Mappings, keep \in BOOLEAN : StartStage(m, keep)
        BY <3>2 DEF StartStage, NoStage
      <3>3. CASE \E lost \in BOOLEAN : WriteReport(lost)
        BY <1>0, <3>3 DEF WriteReport, NoStage
      <3>4. CASE \E stop \in BOOLEAN : ClosePass(stop)
        BY <1>0, <3>4 DEF ClosePass
      <3> QED
        BY <2>4, <3>1, <3>2, <3>3, <3>4, StageTouched
    <2> QED
      BY <2>1, <2>2, <2>3, <2>4
  <1> QED
    BY <1>2, <1>3 DEF RowsAreScored

(* The theorems.                                                           *)

LEMMA SafeIsInductive == Safe /\ [Next]_vars => Safe'
  <1>1. ASSUME Safe, UNCHANGED vars PROVE Safe'
    <2> USE <1>1 DEF vars, disk, process, history
    <2>1. TypeOK'
      BY DEF Safe, TypeOK, DiskOK, ProcessOK, HistoryOK
    <2>2. TodoIsLeft' /\ StageIsSet'
      BY DEF Safe, TodoIsLeft, StageIsSet
    <2>3. MarkerIsWithdrawn' /\ MarkerMeansComplete' /\ RowsAreScored'
      BY DEF Safe, MarkerIsWithdrawn, MarkerMeansComplete, RowsAreScored
    <2> QED
      BY <2>1, <2>2, <2>3 DEF Safe
  <1>2. ASSUME Safe, Next PROVE Safe'
    <2>1. TypeOK'
      BY <1>2, DiskStays, ProcessStays, HistoryStays DEF TypeOK
    <2>2. TodoIsLeft' /\ StageIsSet'
      BY <1>2, TodoIsLeftStays, StageIsSetStays
    <2>3. MarkerIsWithdrawn' /\ MarkerMeansComplete' /\ RowsAreScored'
      BY <1>2, MarkerStays, RowsAreScoredStays
    <2> QED
      BY <2>1, <2>2, <2>3 DEF Safe
  <1> QED
    BY <1>1, <1>2

\* Every reachable directory, report and process state is of its type
\* (lib/checkpoints.py, lib/model.py, lib/steps/train.py).
THEOREM TypeCorrect == Spec => []TypeOK
  <1>1. Safe => TypeOK
    BY DEF Safe
  <1> QED
    BY InitSafe, SafeIsInductive, <1>1, PTL DEF Spec

\* The completion marker is only ever over the directory the stage returned
\* with: withdrawn before a file is touched (runner._execute_task,
\* restore_checkpoint).
THEOREM MarkerIsTrue == Spec => []MarkerMeansComplete
  <1>1. Safe => MarkerMeansComplete
    BY DEF Safe
  <1> QED
    BY InitSafe, SafeIsInductive, <1>1, PTL DEF Spec

\* A checkpoint listed evaluated-healthy was scored, file for file, by a pass
\* that found it healthy (list_checkpoints).
THEOREM HealthIsEarned == Spec => []HealthyIsEarned
  <1>1. Safe => HealthyIsEarned
    <2> SUFFICES ASSUME Safe, NEW n \in Number, Status(n) = "evaluated-healthy"
                 PROVE  kept[n] \in scored
      BY DEF HealthyIsEarned
    <2>1. reported[n].snapshot = kept[n] /\ reported[n].healthy
      BY DEF Status
    <2> QED
      BY <2>1 DEF Safe, RowsAreScored
  <1> QED
    BY InitSafe, SafeIsInductive, <1>1, PTL DEF Spec
(***************************************************************************)
(* Restoration: what the steps that publish and roll back have left to     *)
(* write, and the invariant Restorable.                                    *)
(***************************************************************************)

\* A sequence is its head and its tail, apart when nothing is in it twice.
LEMMA HeadAndTail ==
    ASSUME NEW S, NEW s \in Seq(S) \ {<<>>}
    PROVE  /\ Range(s) = {Head(s)} \cup Range(Tail(s))
           /\ IsInjective(s) => IsInjective(Tail(s)) /\ Head(s) \notin Range(Tail(s))
           /\ ~(Len(s) > 1) => Range(Tail(s)) = {}
  <1> DEFINE n == Len(s)
             t == Tail(s)
  <1>1. n \in Nat \ {0} /\ DOMAIN s = 1 .. n
    BY EmptySeq, LenProperties
  <1>2. t \in Seq(S) /\ Len(t) = n - 1 /\ \A i \in 1 .. Len(t) : t[i] = s[i + 1]
    BY HeadTailProperties
  <1>3. DOMAIN t = 1 .. Len(t)
    BY <1>2, LenProperties
  <1>4. Head(s) = s[1]
    BY DEF Head
  <1> HIDE DEF n, t
  <1>5. DOMAIN t = 1 .. (n - 1) /\ \A i \in 1 .. (n - 1) : t[i] = s[i + 1]
    BY <1>2, <1>3
  <1>6. Range(s) = {Head(s)} \cup Range(t)
    <2>1. \A i \in 1 .. n : i = 1 \/ (i - 1 \in 1 .. (n - 1) /\ s[i] = t[i - 1])
      BY <1>1, <1>5
    <2>2. \A i \in 1 .. (n - 1) : i + 1 \in 1 .. n /\ t[i] = s[i + 1]
      BY <1>1, <1>5
    <2>3. 1 \in 1 .. n
      BY <1>1
    <2>4. ASSUME NEW x \in Range(s) PROVE x \in {Head(s)} \cup Range(t)
      <3>1. PICK i \in 1 .. n : x = s[i]
        BY <1>1 DEF Range
      <3> QED
        BY <1>4, <1>5, <2>1, <3>1 DEF Range
    <2>5. ASSUME NEW x \in {Head(s)} \cup Range(t) PROVE x \in Range(s)
      <3>1. CASE x = Head(s)
        BY <1>1, <1>4, <2>3, <3>1 DEF Range
      <3>2. CASE x \in Range(t)
        <4>1. PICK i \in 1 .. (n - 1) : x = t[i]
          BY <1>5, <3>2 DEF Range
        <4> QED
          BY <1>1, <2>2, <4>1 DEF Range
      <3> QED
        BY <3>1, <3>2
    <2> QED
      BY <2>4, <2>5
  <1>7. ASSUME IsInjective(s) PROVE IsInjective(t) /\ Head(s) \notin Range(t)
    <2>1. \A i, j \in 1 .. n : s[i] = s[j] => i = j
      BY <1>1, <1>7 DEF IsInjective
    <2>2. IsInjective(t)
      <3> SUFFICES ASSUME NEW i \in 1 .. (n - 1), NEW j \in 1 .. (n - 1), t[i] = t[j]
                   PROVE  i = j
        BY <1>5 DEF IsInjective
      <3>1. s[i + 1] = s[j + 1] /\ i + 1 \in 1 .. n /\ j + 1 \in 1 .. n
        BY <1>1, <1>5
      <3> QED
        BY <2>1, <3>1
    <2>3. ASSUME NEW i \in 1 .. (n - 1) PROVE t[i] # Head(s)
      <3>1. t[i] = s[i + 1] /\ i + 1 \in 1 .. n /\ i + 1 # 1 /\ 1 \in 1 .. n
        BY <1>1, <1>5
      <3> QED
        BY <1>4, <2>1, <3>1
    <2> QED
      BY <1>5, <2>2, <2>3 DEF Range
  <1>8. ~(n > 1) => Range(t) = {}
    BY <1>1, <1>5 DEF Range
  <1> QED
    BY <1>6, <1>7, <1>8 DEF n, t

\* The counts and the parameters, each once, in either order: every file of the
\* model but its mdef.
LEMMA WorkRange ==
    /\ Range(<<Counts>> \o ParameterFiles) = File \ {Mdef}
    /\ Range(Affected) = File \ {Mdef} /\ IsInjective(Affected)
    /\ Range(Undo) = File \ {Mdef} /\ IsInjective(Undo)
    /\ Parameters \subseteq Range(Published) /\ Range(<<>>) = {}
  <1> DEFINE P == ParameterFiles
             p == Len(P)
             S == File \ {Mdef}
             A == P \o <<Counts>>
  <1>1. P \in Seq(S) /\ <<Counts>> \in Seq(S) /\ p \in Nat
    BY FileShape, LenProperties
  <1>2. Range(P) = Parameters /\ DOMAIN P = 1 .. p
    BY <1>1, LenProperties DEF Parameters
  <1>3. IsInjective(P) /\ Counts \notin Parameters
    BY ConstantsAssumption
  <1>4. Range(<<Counts>>) = {Counts} /\ Len(<<Counts>>) = 1 /\ <<Counts>>[1] = Counts
    BY DEF Range
  <1>5. S = Parameters \cup {Counts}
    BY FileShape, <1>3 DEF File, Required
  <1>r. ASSUME NEW s1 \in Seq(S), NEW s2 \in Seq(S)
        PROVE  Range(s1 \o s2) = Range(s1) \cup Range(s2)
    <2> HIDE DEF S
    <2> QED
      BY RangeConcatenation
  <1>6. Range(<<Counts>> \o P) = Range(<<Counts>>) \cup Range(P)
    <2> HIDE DEF S, P
    <2> QED
      BY <1>1, <1>r
  <1>7. Range(A) = Range(P) \cup Range(<<Counts>>)
    <2> HIDE DEF S, P
    <2> QED
      BY <1>1, <1>r
  <1>8. /\ A \in Seq(S) /\ Len(A) = p + 1
        /\ \A i \in 1 .. p + 1 : A[i] = IF i <= p THEN P[i] ELSE Counts
    <2>1. /\ A \in Seq(S) /\ Len(A) = p + 1
          /\ \A i \in 1 .. p + 1 : A[i] = IF i <= p THEN P[i] ELSE <<Counts>>[i - p]
      BY <1>1, <1>4, ConcatProperties
    <2> QED
      BY <1>1, <1>4, <2>1
  <1>9. DOMAIN A = 1 .. p + 1
    BY <1>8, LenProperties
  <1> HIDE DEF P, p, A, S
  <1>10. \A i, j \in 1 .. p + 1 : A[i] = A[j] => i = j
    <2> TAKE i, j \in 1 .. p + 1
    <2>1. \A k \in 1 .. p : P[k] \in Parameters
      BY <1>2 DEF Range
    <2>2. \A k, l \in 1 .. p : P[k] = P[l] => k = l
      BY <1>2, <1>3 DEF IsInjective
    <2> QED
      BY <1>1, <1>3, <1>8, <2>1, <2>2
  <1>11. Range(A) = S /\ IsInjective(A)
    BY <1>2, <1>4, <1>5, <1>7, <1>9, <1>10 DEF IsInjective
  <1>12. Affected = A
    BY DEF Affected, A, P
  <1> DEFINE n == p + 1
  <1>13. Undo = [i \in 1 .. n |-> A[(n - i) + 1]]
    BY <1>8, <1>12 DEF Undo, Reverse
  <1>14. \A i \in 1 .. n : (n - i) + 1 \in 1 .. n /\ (n - ((n - i) + 1)) + 1 = i
    BY <1>1
  <1> HIDE DEF n
  <1>15. Range(Undo) = Range(A)
    <2>1. DOMAIN A = 1 .. n /\ DOMAIN Undo = 1 .. n
      BY <1>9, <1>13 DEF n
    <2>2. \A i \in 1 .. n : Undo[i] = A[(n - i) + 1] /\ A[i] = Undo[(n - i) + 1]
      BY <1>13, <1>14
    <2> QED
      BY <1>14, <2>1, <2>2 DEF Range
  <1>16. IsInjective(Undo)
    <2> SUFFICES ASSUME NEW i \in 1 .. n, NEW j \in 1 .. n, Undo[i] = Undo[j]
                 PROVE  i = j
      BY <1>13 DEF IsInjective
    <2>1. A[(n - i) + 1] = A[(n - j) + 1]
      BY <1>13
    <2>2. (n - i) + 1 = (n - j) + 1
      BY <1>10, <1>14, <2>1 DEF n
    <2> QED
      BY <1>1, <2>2 DEF n
  <1>17. Parameters \subseteq Range(Published)
    BY <1>2, <1>7, <1>12 DEF Published, Affected, A, P
  <1>18. Range(<<>>) = {}
    BY DEF Range
  <1> QED
    BY <1>2, <1>4, <1>5, <1>6, <1>11, <1>12, <1>15, <1>16, <1>17, <1>18 DEF S, P
LEMMA InitRestorable == Init => Restorable
  <1> SUFFICES ASSUME Init PROVE Restorable
    OBVIOUS
  <1>1. WritesOwnMapping /\ SelectedIsFit /\ RestorationIsOn
    BY DEF Init, WritesOwnMapping, SelectedIsFit, RestorationIsOn, TrainingSteps,
       RestoreSteps, NoRestore
  <1>2. KeptAreOfOneMapping
    <2>1. \A n \in Number : Over(Absent, kept[n])
      BY FileShape DEF Init, Over, Nowhere
    <2> QED
      BY <2>1 DEF Init, KeptAreOfOneMapping, TrainingSteps
  <1>3. RestorationHasEnded
    BY DEF Init, RestorationHasEnded, NothingIsLost, NoRestore
  <1> QED
    BY <1>1, <1>2, <1>3 DEF Restorable

(* The training stage.                                                     *)

LEMMA WritesOwnMappingStays ==
    ASSUME Safe, Restorable, Next PROVE WritesOwnMapping'
  <1>0. TypeOK /\ TodoIsLeft /\ StageIsSet /\ WritesOwnMapping
    BY DEF Safe, Restorable
  <1> DEFINE Writing == TrainingSteps \ {"clear", "structure"}
  <1> USE FileShape, DiskShape, StageShape
  <1>1. CASE pc' \notin Writing
    BY <1>1 DEF WritesOwnMapping, TrainingSteps
  <1>2. CASE pc \in Writing /\ UNCHANGED model /\ stage'.mapping = stage.mapping
             /\ pc' \notin {"save", "retain"}
    BY <1>0, <1>2 DEF WritesOwnMapping
  <1>3. CASE CopyStructure
    <2>1. model'[Mdef] = stage.mapping /\ stage'.mapping = stage.mapping
          /\ pc' = "evaluate"
      BY <1>0, <1>3, SnapshotShape DEF CopyStructure
    <2> QED
      BY <2>1 DEF WritesOwnMapping
  <1>4. CASE \E healthy, refused \in BOOLEAN : Evaluate(healthy, refused)
    <2>1. pc \in Writing /\ UNCHANGED model /\ stage'.mapping = stage.mapping
          /\ pc' \in {"refuse", "report"}
      BY <1>0, <1>4 DEF Evaluate, TrainingSteps, disk
    <2> QED
      BY <1>2, <2>1
  <1>5. CASE \E lost \in BOOLEAN : WriteReport(lost)
    <2>1. CASE pc = "refuse"
      BY <1>1, <1>5, <2>1 DEF WriteReport, TrainingSteps
    <2>2. CASE pc # "refuse"
      <3>1. pc = "report" /\ pc' = "save" /\ todo' = <<Counts>> \o ParameterFiles
            /\ UNCHANGED model /\ \E u \in Updates : stage' = [stage EXCEPT !.update = u]
        BY <1>5, <2>2 DEF WriteReport
      <3>2. stage'.mapping = stage.mapping
        BY <1>0, <3>1
      <3>3. Range(todo') = File \ {Mdef}
        BY <3>1, WorkRange
      <3> QED
        BY <1>0, <3>1, <3>2, <3>3 DEF WritesOwnMapping, TrainingSteps
    <2> QED
      BY <2>1, <2>2
  <1>6. CASE SaveFile
    <2> DEFINE h == Head(todo)
    <2>1. pc = "save" /\ UNCHANGED stage /\ model' = [model EXCEPT ![h] = Updated]
          /\ \/ pc' = "save" /\ todo' = Tail(todo)
             \/ pc' = "retain" /\ ~(Len(todo) > 1)
             \/ pc' = "close"
      BY <1>6 DEF SaveFile
    <2>2. todo \in Seq(File \ {Mdef}) \ {<<>>}
      BY <1>0, <2>1 DEF TodoIsLeft
    <2>3. h \in File \ {Mdef} /\ Range(todo) = {h} \cup Range(Tail(todo))
          /\ (~(Len(todo) > 1) => Range(Tail(todo)) = {})
      BY <2>2, HeadAndTail, TailShape
    <2> HIDE DEF h
    <2>4. model'[Mdef] = model[Mdef]
      BY <1>0, <2>1, <2>3, SnapshotShape
    <2>5. \A f \in File \ {Mdef} : f \in Range(Tail(todo)) \/ model'[f] = Updated
      BY <1>0, <2>1, <2>3, SnapshotShape DEF WritesOwnMapping
    <2>6. model'[Mdef] = stage'.mapping /\ Updated' = Updated
      BY <1>0, <2>1, <2>4 DEF WritesOwnMapping, TrainingSteps, Updated
    <2>7. Updated \in {stage.mapping} \X Updates
      BY <1>0, <2>1 DEF StageIsSet, Updated
    <2> QED
      BY <2>1, <2>3, <2>5, <2>6, <2>7 DEF WritesOwnMapping
  <1>7. CASE RetainFile
    <2>1. pc = "retain" /\ UNCHANGED <<model, stage>> /\ pc' \in {"retain", "close"}
      BY <1>7 DEF RetainFile
    <2> QED
      BY <1>0, <2>1 DEF WritesOwnMapping, TrainingSteps, Updated
  <1>8. CASE (\E stop \in BOOLEAN : ClosePass(stop)) \/ RecordProvenance
    <2>1. pc \in Writing /\ UNCHANGED model /\ stage'.mapping = stage.mapping
          /\ pc' \notin {"save", "retain"}
      BY <1>0, <1>8 DEF ClosePass, RecordProvenance, TrainingSteps, disk
    <2> QED
      BY <1>2, <2>1
  <1>9. CASE EditCheckpoint
    BY <1>0, <1>9 DEF EditCheckpoint, process, WritesOwnMapping, Updated
  <1>10. \/ pc' \notin Writing \/ CopyStructure
         \/ (\E healthy, refused \in BOOLEAN : Evaluate(healthy, refused))
         \/ (\E lost \in BOOLEAN : WriteReport(lost)) \/ SaveFile \/ RetainFile
         \/ (\E stop \in BOOLEAN : ClosePass(stop)) \/ RecordProvenance \/ EditCheckpoint
    BY DEF Next, Train, Restore, process, Finish, StartStage, Clear, MarkComplete,
       StageFails, StartRestore, Retain, Invalidate, CopyStaging, Verify, PublishFile,
       PublishFails, RollBackFile, RollbackFails, CleanUp, CleanUpFailed, RestoreFails,
       RestoreKilled, TrainingSteps
  <1> QED
    BY <1>1, <1>3, <1>4, <1>5, <1>6, <1>7, <1>8, <1>9, <1>10

\* A file written to a checkpoint keeps it of one mapping if its content is torn,
\* missing, or of that mapping.
LEMMA OverExcept ==
    ASSUME kept \in [Number -> Snapshot], NEW m, \A k \in Number : Over(m, kept[k]),
           NEW n \in Number, NEW f \in File, NEW v,
           \/ v \in {Absent, Torn}
           \/ f = Mdef /\ v = m
           \/ f # Mdef /\ v \in {m} \X Updates
    PROVE  \A k \in Number : Over(m, [kept EXCEPT ![n][f] = v][k])
  <1> SUFFICES ASSUME NEW k \in Number PROVE Over(m, [kept EXCEPT ![n][f] = v][k])
    OBVIOUS
  <1>1. DOMAIN kept[n] = File
    BY SnapshotShape
  <1>2. \A g \in File : [kept EXCEPT ![n][f] = v][k][g] =
                          IF k = n /\ g = f THEN v ELSE kept[k][g]
    BY <1>1
  <1> QED
    BY <1>2, FileShape DEF Over

LEMMA KeptAreOfOneMappingStays ==
    ASSUME Safe, Restorable, Next PROVE KeptAreOfOneMapping'
  <1>0. TypeOK /\ TodoIsLeft /\ StageIsSet /\ WritesOwnMapping /\ KeptAreOfOneMapping
    BY DEF Safe, Restorable
  <1> USE DiskShape, StageShape
  <1> DEFINE Retaining == pc \in TrainingSteps \ {"clear"} /\ stage.retaining
             All(m) == \A n \in Number : Over(m, kept[n])
             AllNext(m) == \A n \in Number : Over(m, kept'[n])
  <1>1. pc' = "retain" => stage'.retaining
    <2>1. CASE SaveFile
      BY <2>1 DEF SaveFile
    <2>2. CASE pc = "retain" /\ UNCHANGED stage
      BY <1>0, <2>2 DEF KeptAreOfOneMapping
    <2>3. pc' = "retain" => SaveFile \/ (pc = "retain" /\ UNCHANGED stage)
      BY DEF Next, Train, Restore, process, Finish, StartStage, Clear, CopyStructure,
         Evaluate, WriteReport, RetainFile, ClosePass, RecordProvenance, MarkComplete,
         StageFails, StartRestore, Retain, Invalidate, CopyStaging, Verify, PublishFile,
         PublishFails, RollBackFile, RollbackFails, CleanUp, CleanUpFailed, RestoreFails,
         RestoreKilled, EditCheckpoint
    <2> QED
      BY <2>1, <2>2, <2>3
  <1>2. CASE Clear
    <2>1. \A m : AllNext(m)
      BY <1>2, FileShape DEF Clear, Over, Nowhere
    <2>2. stage'.mapping \in Mappings
      BY <1>0, <1>2 DEF Clear, StageIsSet, TrainingSteps
    <2> QED
      BY <1>1, <2>1, <2>2 DEF KeptAreOfOneMapping
  <1>3. CASE RetainFile
    <2> DEFINE h == Head(todo)
    <2>1. pc = "retain" /\ UNCHANGED stage
          /\ kept' = [kept EXCEPT ![stage.pass][h] = model[h]]
      BY <1>3 DEF RetainFile
    <2>2. stage.retaining /\ stage.mapping \in Mappings /\ h \in File
      BY <1>0, <2>1, HeadShape DEF KeptAreOfOneMapping, StageIsSet, TrainingSteps
    <2>3. All(stage.mapping)
      BY <1>0, <2>1, <2>2 DEF KeptAreOfOneMapping, TrainingSteps
    <2>4. \/ h = Mdef /\ model[h] = stage.mapping
          \/ h # Mdef /\ model[h] \in {stage.mapping} \X Updates
      BY <1>0, <2>1, <2>2 DEF WritesOwnMapping, TrainingSteps
    <2> HIDE DEF h
    <2>5. AllNext(stage.mapping)
      BY <1>0, <2>1, <2>2, <2>3, <2>4, OverExcept
    <2> QED
      BY <1>1, <2>1, <2>2, <2>5 DEF KeptAreOfOneMapping
  <1>4. CASE EditCheckpoint
    <2>1. PICK n \in Number, k \in Number, f \in File :
            \E v \in {Absent, Torn, kept[k][f]} :
              kept[n][f] \notin {Absent, v} /\ kept' = [kept EXCEPT ![n][f] = v]
      BY <1>4, Zenon DEF EditCheckpoint
    <2>2. PICK v \in {Absent, Torn, kept[k][f]} : kept' = [kept EXCEPT ![n][f] = v]
      BY <2>1
    <2>3. ASSUME NEW m, All(m) PROVE AllNext(m)
      <3>1. \/ v \in {Absent, Torn}
            \/ f = Mdef /\ v = m
            \/ f # Mdef /\ v \in {m} \X Updates
        BY <2>2, <2>3 DEF Over
      <3> QED
        BY <1>0, <2>2, <2>3, <3>1, OverExcept
    <2>4. UNCHANGED <<pc, stage>>
      BY <1>4 DEF EditCheckpoint, process
    <2> QED
      BY <1>0, <1>1, <2>3, <2>4 DEF KeptAreOfOneMapping
  <1>5. CASE StageFails
    <2>1. pc' = "idle"
      BY <1>5 DEF StageFails
    <2>2. PICK m \in Mappings \cup {Absent} :
            All(m) /\ (Retaining => m = stage.mapping)
      <3>1. CASE Retaining
        BY <1>0, <3>1 DEF KeptAreOfOneMapping
      <3>2. CASE ~Retaining
        BY <1>0, <3>2 DEF KeptAreOfOneMapping
      <3> QED
        BY <3>1, <3>2
    <2>3. CASE pc = "clear"
      <3>1. PICK left \in [Number -> SUBSET File] :
              kept' = [n \in Number |-> [f \in File |->
                        IF f \in left[n] THEN kept[n][f] ELSE Absent]]
        BY <1>5, <2>3 DEF StageFails
      <3>2. AllNext(m)
        BY <2>2, <3>1, FileShape DEF Over
      <3> QED
        BY <2>1, <3>2 DEF KeptAreOfOneMapping, TrainingSteps
    <2>4. CASE pc = "retain"
      <3> DEFINE h == Head(todo)
      <3>1. PICK v \in CutShort(kept[stage.pass][h], model[h]) :
              kept' = [kept EXCEPT ![stage.pass][h] = v]
        BY <1>5, <2>4 DEF StageFails
      <3>2. h \in File /\ m = stage.mapping
        BY <1>0, <2>2, <2>4, HeadShape DEF KeptAreOfOneMapping, TrainingSteps
      <3>3. \/ h = Mdef /\ model[h] = m
            \/ h # Mdef /\ model[h] \in {m} \X Updates
        BY <1>0, <2>4, <3>2 DEF WritesOwnMapping, TrainingSteps
      <3>4. Over(m, kept[stage.pass])
        BY <1>0, <2>2
      <3> HIDE DEF h
      <3>5. \/ v \in {Absent, Torn}
            \/ h = Mdef /\ v = m
            \/ h # Mdef /\ v \in {m} \X Updates
        BY <3>1, <3>2, <3>3, <3>4 DEF CutShort, Over
      <3>6. AllNext(m)
        BY <1>0, <2>2, <3>1, <3>2, <3>5, OverExcept
      <3> QED
        BY <2>1, <3>6 DEF KeptAreOfOneMapping, TrainingSteps
    <2>5. CASE pc \notin {"clear", "retain"}
      <3>1. kept' = kept
        BY <1>5, <2>5 DEF StageFails
      <3> QED
        BY <2>1, <2>2, <3>1 DEF KeptAreOfOneMapping, TrainingSteps
    <2> QED
      BY <2>3, <2>4, <2>5
  <1>6. CASE UNCHANGED kept /\ ~Clear
    <2>1. \/ pc' \notin TrainingSteps \ {"clear"} \/ ~stage'.retaining
          \/ /\ pc \in TrainingSteps \ {"clear"} /\ stage'.mapping = stage.mapping
             /\ stage'.retaining = stage.retaining
      <3>1. CASE UNCHANGED <<stage, pc>>
        BY <3>1
      <3>2. CASE \E m \in Mappings, keep \in BOOLEAN : StartStage(m, keep)
        BY <3>2 DEF StartStage, NoStage
      <3>3. CASE \/ \E healthy, refused \in BOOLEAN : Evaluate(healthy, refused)
                 \/ \E lost \in BOOLEAN : WriteReport(lost)
                 \/ \E stop \in BOOLEAN : ClosePass(stop)
        <4>1. /\ pc \in TrainingSteps \ {"clear"}
              /\ \/ pc' = "idle"
                 \/ stage'.mapping = stage.mapping /\ stage'.retaining = stage.retaining
          BY <1>0, <3>3 DEF Evaluate, WriteReport, ClosePass, TrainingSteps
        <4> QED
          BY <4>1 DEF TrainingSteps
      <3>4. CASE CopyStructure \/ SaveFile \/ RetainFile \/ RecordProvenance
        BY <3>4 DEF CopyStructure, SaveFile, RetainFile, RecordProvenance, TrainingSteps
      <3>5. CASE MarkComplete \/ StageFails \/ Restore
        BY <3>5 DEF MarkComplete, StageFails, Restore, Finish, StartRestore, Retain,
           Invalidate, CopyStaging, Verify, PublishFile, PublishFails, RollBackFile,
           RollbackFails, CleanUp, CleanUpFailed, RestoreFails, RestoreKilled,
           TrainingSteps
      <3>6. CASE EditCheckpoint
        BY <3>6 DEF EditCheckpoint, process
      <3> QED
        BY <1>6, <3>2, <3>3, <3>4, <3>5, <3>6 DEF Next, Train
    <2> QED
      BY <1>0, <1>1, <1>6, <2>1 DEF KeptAreOfOneMapping
  <1> QED
    BY <1>2, <1>3, <1>4, <1>5, <1>6, KeptTouched
(* The restoration.                                                        *)

\* A training stage starts from no restoration and none runs beside it.
LEMMA TrainsAlone ==
    ASSUME Safe, Restorable, Train
    PROVE  restore'.outcome = "none" /\ pc' \notin RestoreSteps
  <1>1. RestorationIsOn
    BY DEF Restorable
  <1>2. CASE \E m \in Mappings, keep \in BOOLEAN : StartStage(m, keep)
    BY <1>2 DEF StartStage, NoRestore, RestoreSteps
  <1>3. CASE ~\E m \in Mappings, keep \in BOOLEAN : StartStage(m, keep)
    <2>1. pc # "idle" /\ UNCHANGED restore /\ pc' \notin RestoreSteps
      BY <1>3 DEF Train, Clear, CopyStructure, Evaluate, WriteReport, SaveFile,
         RetainFile, ClosePass, RecordProvenance, MarkComplete, StageFails,
         TrainingSteps, RestoreSteps
    <2> QED
      BY <1>1, <2>1 DEF RestorationIsOn
  <1> QED
    BY <1>2, <1>3

LEMMA SelectedStays ==
    ASSUME SelectedIsFit, pc \in RestoreSteps, UNCHANGED before,
           restore'.selected = restore.selected
    PROVE  SelectedIsFit'
  BY DEF SelectedIsFit, Selected, Whole, Over

\* A restoration that is still on has nothing to answer for yet.
LEMMA SameFiles ==
    ASSUME NEW s \in Snapshot, NEW t \in Snapshot, \A f \in File : s[f] = t[f]
    PROVE  s = t
  BY DEF Snapshot

\* Up to the first file that is published.
LEMMA PreparationStays ==
    ASSUME Safe, Restorable,
           \/ \E n \in Number : StartRestore(n)
           \/ Retain \/ Invalidate \/ CopyStaging \/ Verify
    PROVE  SelectedIsFit' /\ RestorationIsOn' /\ RestorationHasEnded'
  <1>0. /\ TypeOK /\ KeptAreOfOneMapping /\ SelectedIsFit /\ RestorationIsOn
    BY DEF Safe, Restorable
  <1> USE FileShape, DiskShape, RestoreShape DEF RestoreSteps
  <1>1. CASE \E n \in Number : StartRestore(n)
    <2>1. PICK n \in Number : StartRestore(n)
      BY <1>1
    <2>2. /\ pc' = "backup" /\ restore'.selected = kept[n] /\ restore'.outcome = "none"
          /\ before' = model /\ model' = model
      BY <2>1 DEF StartRestore, NoRestore
    <2>3. \E m \in Mappings \cup {Absent} : Over(m, kept[n])
      BY <1>0 DEF KeptAreOfOneMapping
    <2>4. SelectedIsFit'
      BY <2>1, <2>2, <2>3 DEF StartRestore, MayRestore, SelectedIsFit, Selected, Whole,
         Over
    <2>5. RestorationIsOn'
      BY <2>2 DEF RestorationIsOn
    <2>6. RestorationHasEnded'
      BY <2>2 DEF RestorationHasEnded, NothingIsLost
    <2> QED
      BY <2>4, <2>5, <2>6
  <1>2. ASSUME Retain \/ Invalidate \/ CopyStaging \/ Verify
        PROVE  /\ pc \in {"backup", "invalidate", "copy", "verify"} /\ model = before
               /\ restore.outcome = "none" /\ UNCHANGED <<model, before>>
               /\ restore'.selected = restore.selected /\ restore'.outcome = "none"
    <2>1. pc \in {"backup", "invalidate", "copy", "verify"} /\ UNCHANGED <<model, before>>
      BY <1>2 DEF Retain, Invalidate, CopyStaging, Verify, disk, history
    <2>2. restore.outcome = "none" /\ model = before
      BY <1>0, <2>1 DEF RestorationIsOn
    <2>3. restore'.selected = restore.selected /\ restore'.outcome = restore.outcome
      <3>1. /\ [restore EXCEPT !.staging = kept[restore.number]].selected = restore.selected
            /\ [restore EXCEPT !.staging = kept[restore.number]].outcome = restore.outcome
            /\ [restore EXCEPT !.original = model].selected = restore.selected
            /\ [restore EXCEPT !.original = model].outcome = restore.outcome
        BY <1>0 DEF TypeOK, ProcessOK
      <3> QED
        BY <1>2, <3>1 DEF Retain, Invalidate, CopyStaging, Verify
    <2> QED
      BY <2>1, <2>2, <2>3
  <1>3. CASE Retain \/ Invalidate \/ CopyStaging
    <2>1. /\ pc' \in {"invalidate", "copy", "verify"}
          /\ backup'.made /\ backup'.files = before
      <3>1. CASE Retain
        BY <1>2, <3>1 DEF Retain
      <3>2. CASE Invalidate \/ CopyStaging
        BY <1>0, <3>2 DEF Invalidate, CopyStaging, disk, RestorationIsOn
      <3> QED
        BY <1>3, <3>1, <3>2
    <2>2. RestorationIsOn'
      BY <1>2, <1>3, <2>1 DEF RestorationIsOn
    <2> QED
      BY <1>0, <1>2, <1>3, <2>2, SelectedStays DEF RestorationHasEnded, NothingIsLost
  <1>4. CASE Verify
    <2>1. pc = "verify" /\ UNCHANGED backup /\ backup.made /\ backup.files = before
      BY <1>0, <1>4 DEF Verify, disk, RestorationIsOn
    <2>2. CASE pc' = "cleanupFailed"
      <3>1. RestorationIsOn'
        BY <1>2, <1>4, <2>1, <2>2 DEF RestorationIsOn
      <3> QED
        BY <1>0, <1>2, <1>4, <3>1, SelectedStays DEF RestorationHasEnded, NothingIsLost
    <2>3. CASE pc' # "cleanupFailed"
      <3>1. /\ pc' = "publish" /\ todo' = Affected
            /\ restore' = [restore EXCEPT !.original = model]
            /\ \A f \in Range(Published) : restore.staging[f] = Selected[f]
        BY <1>4, <2>3 DEF Verify
      <3>2. /\ restore'.original = before /\ restore'.selected = restore.selected
            /\ restore'.staging = restore.staging
        BY <1>0, <1>2, <1>4, <3>1 DEF TypeOK, ProcessOK
      <3>3. ASSUME NEW f \in File \ {Mdef} PROVE NewContent(f)' = Selected[f]
        <4>1. f = Counts \/ f \in Range(Published)
          BY WorkRange DEF File, Required
        <4> QED
          BY <3>1, <3>2, <4>1 DEF NewContent, Selected
      <3>4. Selected[Mdef] = before[Mdef]
        BY <1>0, <2>1 DEF SelectedIsFit
      <3>5. RestorationIsOn'
        BY <1>2, <1>4, <2>1, <3>1, <3>2, <3>3, <3>4, WorkRange
        DEF RestorationIsOn, Selected, Affected
      <3> QED
        BY <1>0, <1>2, <1>4, <3>5, SelectedStays DEF RestorationHasEnded, NothingIsLost
    <2> QED
      BY <2>2, <2>3
  <1> QED
    BY <1>1, <1>3, <1>4

\* What is known of the head of todo while files are published or rolled back.
LEMMA HeadOfWork ==
    ASSUME Safe, Restorable, pc \in {"publish", "rollback"}
    PROVE  /\ Head(todo) \in File \ {Mdef}
           /\ Mdef \notin Range(todo)
           /\ Range(todo) = {Head(todo)} \cup Range(Tail(todo))
           /\ Head(todo) \notin Range(Tail(todo)) /\ IsInjective(Tail(todo))
           /\ ~(Len(todo) > 1) => Range(Tail(todo)) = {}
  <1>1. todo \in Seq(File \ {Mdef}) \ {<<>>}
    BY DEF Safe, TodoIsLeft
  <1>2. IsInjective(todo)
    BY DEF Restorable, RestorationIsOn
  <1>3. Range(todo) \subseteq File \ {Mdef}
    BY <1>1, RangeOfSeq
  <1> QED
    BY <1>1, <1>2, <1>3, HeadAndTail, TailShape

LEMMA PublicationStays ==
    ASSUME Safe, Restorable, PublishFile \/ PublishFails, model' \in Snapshot
    PROVE  SelectedIsFit' /\ RestorationIsOn' /\ RestorationHasEnded'
  <1>0. TypeOK /\ SelectedIsFit /\ RestorationIsOn
    BY DEF Safe, Restorable
  <1> DEFINE h == Head(todo)
  <1> USE FileShape, DiskShape, RestoreShape
  <1>1. /\ pc = "publish" /\ UNCHANGED <<restore, backup, before>>
        /\ restore.outcome = "none" /\ backup.made /\ backup.files = before
    BY <1>0 DEF PublishFile, PublishFails, history, RestorationIsOn, RestoreSteps
  <1>2. /\ restore.original = before /\ NewContent(h) = Selected[h]
        /\ \A f \in Range(Affected) : NewContent(f) = Selected[f]
        /\ \A f \in File : model[f] = IF f \in Range(todo) THEN before[f] ELSE Selected[f]
    BY <1>0, <1>1, HeadOfWork, WorkRange DEF RestorationIsOn
  <1>3. SelectedIsFit' /\ RestorationHasEnded'
    BY <1>0, <1>1, SelectedStays DEF RestorationHasEnded, NothingIsLost, RestoreSteps
  <1>4. CASE PublishFile
    <2>1. /\ model' = [model EXCEPT ![h] = Selected[h]] /\ todo' = Tail(todo)
          /\ pc' = IF Len(todo) > 1 THEN "publish" ELSE "cleanup"
      BY <1>1, <1>2, <1>4 DEF PublishFile
    <2>2. \A f \in File :
            model'[f] = IF f \in Range(Tail(todo)) THEN before[f] ELSE Selected[f]
      BY <1>0, <1>1, <1>2, <2>1, HeadOfWork, SnapshotShape
    <2>3. CASE Len(todo) > 1
      <3>1. /\ pc' = "publish" /\ restore' = restore /\ backup' = backup
            /\ IsInjective(todo') /\ Mdef \notin Range(todo')
        BY <1>1, <2>1, <2>3, HeadOfWork
      <3>2. Selected' = Selected /\ \A f \in File : NewContent(f)' = NewContent(f)
        BY <3>1 DEF Selected, NewContent
      <3>3. Range(Affected)' = Range(Affected)
        BY DEF Affected
      <3>4. RestorationIsOn'
        BY <1>1, <1>2, <2>1, <2>2, <3>1, <3>2, <3>3, WorkRange
        DEF RestorationIsOn, RestoreSteps
      <3> QED
        BY <1>3, <3>4
    <2>4. CASE ~(Len(todo) > 1)
      <3>1. \A f \in File : model'[f] = Selected[f]
        BY <1>1, <2>2, <2>4, HeadOfWork
      <3>2. model' = Selected
        BY <1>0, <3>1, SameFiles DEF Selected
      <3> QED
        BY <1>1, <1>3, <2>1, <2>4, <3>2 DEF RestorationIsOn, RestoreSteps, Selected
    <2> QED
      BY <1>3, <2>3, <2>4
  <1>5. CASE PublishFails
    <2>1. pc' = "rollback" /\ todo' = Undo
          /\ model' \in {model, [model EXCEPT ![h] = NewContent(h)]}
      BY <1>5, WorkShape DEF PublishFails
    <2>2. model'[Mdef] = before[Mdef]
      <3>1. model'[Mdef] = model[Mdef]
        BY <1>0, <1>1, <2>1, HeadOfWork, SnapshotShape
      <3>2. model[Mdef] = Selected[Mdef]
        BY <1>1, <1>2, HeadOfWork
      <3> QED
        BY <1>0, <1>1, <3>1, <3>2 DEF SelectedIsFit, RestoreSteps
    <2>3. RestorationIsOn'
      BY <1>1, <1>2, <2>1, <2>2, WorkRange DEF RestorationIsOn, RestoreSteps
    <2> QED
      BY <1>3, <2>3
  <1> QED
    BY <1>4, <1>5

LEMMA RollbackStays ==
    ASSUME Safe, Restorable, RollBackFile \/ RollbackFails, model' \in Snapshot
    PROVE  SelectedIsFit' /\ RestorationIsOn' /\ RestorationHasEnded'
  <1>0. TypeOK /\ SelectedIsFit /\ RestorationIsOn
    BY DEF Safe, Restorable
  <1> DEFINE h == Head(todo)
             Emptied == [restore.original EXCEPT ![h] = Absent]
  <1> USE FileShape, DiskShape, RestoreShape
  <1>1. /\ pc = "rollback" /\ UNCHANGED <<backup, before>>
        /\ restore.outcome = "none" /\ backup.made /\ backup.files = before
    BY <1>0 DEF RollBackFile, RollbackFails, history, RestorationIsOn, RestoreSteps
  <1>2. \A f \in File : IF f \in Range(todo) THEN restore.original[f] = before[f]
                                             ELSE model[f] = before[f]
    BY <1>0, <1>1 DEF RestorationIsOn
  <1>3. /\ h \in File /\ h \in Range(todo) /\ restore.original[h] = before[h]
        /\ \A f \in File : Emptied[f] = IF f = h THEN Absent ELSE restore.original[f]
    BY <1>0, <1>1, <1>2, HeadOfWork, SnapshotShape
  <1> HIDE DEF h
  <1>4. CASE RollBackFile
    <2>1. /\ model' = [model EXCEPT ![h] = before[h]] /\ todo' = Tail(todo)
          /\ restore' = [restore EXCEPT !.original = Emptied]
          /\ pc' = IF Len(todo) > 1 THEN "rollback" ELSE "cleanupFailed"
      BY <1>1, <1>3, <1>4 DEF RollBackFile, RolledBack, h
    <2>2. /\ restore'.original = Emptied /\ restore'.selected = restore.selected
          /\ restore'.outcome = "none"
      BY <1>0, <1>1, <2>1 DEF TypeOK, ProcessOK
    <2>3. SelectedIsFit' /\ RestorationHasEnded'
      BY <1>0, <1>1, <2>2, SelectedStays
      DEF RestorationHasEnded, NothingIsLost, RestoreSteps
    <2>4. \A f \in File : model'[f] = IF f = h THEN before[f] ELSE model[f]
      BY <1>0, <1>3, <2>1, SnapshotShape
    <2>5. \A f \in File : IF f \in Range(Tail(todo)) THEN restore'.original[f] = before[f]
                                                     ELSE model'[f] = before[f]
      BY <1>1, <1>2, <1>3, <2>2, <2>4, HeadOfWork DEF h
    <2>6. CASE Len(todo) > 1
      BY <1>1, <2>1, <2>2, <2>3, <2>5, <2>6, HeadOfWork DEF RestorationIsOn, RestoreSteps
    <2>7. CASE ~(Len(todo) > 1)
      <3>1. \A f \in File : model'[f] = before[f]
        BY <1>1, <2>5, <2>7, HeadOfWork
      <3>2. model' = before
        BY <1>0, <3>1, SameFiles DEF TypeOK, HistoryOK
      <3> QED
        BY <1>1, <2>1, <2>2, <2>3, <2>7, <3>2 DEF RestorationIsOn, RestoreSteps
    <2> QED
      BY <2>6, <2>7
  <1>5. CASE RollbackFails
    <2>1. pc' = "idle" /\ restore'.selected = restore.selected
          /\ restore'.outcome = "unrecovered"
      BY <1>0, <1>5 DEF RollbackFails, TypeOK, ProcessOK
    <2>2. \A f \in File : before[f] \in {Absent, model'[f], restore'.original[f]}
      <3>1. CASE UNCHANGED model
        <4>1. restore'.original = restore.original \/ model'[h] = before[h]
          <5>1. CASE restore' = [restore EXCEPT !.outcome = "unrecovered"]
            BY <1>0, <5>1 DEF TypeOK, ProcessOK
          <5>2. CASE model' = [model EXCEPT ![h] = before[h]]
            BY <1>0, <1>3, <5>2, SnapshotShape
          <5> QED
            BY <1>3, <1>5, <5>1, <5>2 DEF RollbackFails, h
        <4>2. restore'.original \in {restore.original, Emptied}
          BY <1>0, <1>5 DEF RollbackFails, TypeOK, ProcessOK, h
        <4> QED
          BY <1>2, <1>3, <3>1, <4>1, <4>2
      <3>2. CASE /\ model' = [model EXCEPT ![h] = before[h]]
                 /\ restore'.original = Emptied
        BY <1>0, <1>2, <1>3, <3>2, SnapshotShape
      <3> QED
        BY <1>0, <1>3, <1>5, <3>1, <3>2 DEF RollbackFails, TypeOK, ProcessOK, h
    <2>3. SelectedIsFit'
      BY <1>0, <1>1, <2>1, SelectedStays DEF RestoreSteps
    <2>4. RestorationIsOn'
      BY <2>1 DEF RestorationIsOn, RestoreSteps
    <2>5. RestorationHasEnded'
      BY <1>1, <2>1, <2>2 DEF RestorationHasEnded, NothingIsLost
    <2> QED
      BY <2>3, <2>4, <2>5
  <1> QED
    BY <1>4, <1>5

LEMMA EndingStays ==
    ASSUME Safe, Restorable, CleanUp \/ CleanUpFailed \/ RestoreFails \/ RestoreKilled
    PROVE  SelectedIsFit' /\ RestorationIsOn' /\ RestorationHasEnded'
  <1>0. TypeOK /\ SelectedIsFit /\ RestorationIsOn
    BY DEF Safe, Restorable
  <1>1. pc \in RestoreSteps /\ pc' = "idle" /\ UNCHANGED <<model, backup, before>>
    BY DEF CleanUp, CleanUpFailed, RestoreFails, RestoreKilled, Finish, disk, history,
       RestoreSteps
  <1>2. restore'.selected = restore.selected
        /\ restore'.outcome \in {"returned", "raised", "killed"}
    BY <1>0 DEF CleanUp, CleanUpFailed, RestoreFails, RestoreKilled, Finish, TypeOK,
       ProcessOK
  <1>3. restore'.outcome = "returned" => pc = "cleanup"
    BY <1>0 DEF CleanUp, CleanUpFailed, RestoreFails, RestoreKilled, Finish, TypeOK,
       ProcessOK
  <1>4. restore'.outcome = "raised" =>
          pc \in {"cleanup", "cleanupFailed", "backup", "invalidate", "copy", "verify"}
    BY <1>0 DEF CleanUp, CleanUpFailed, RestoreFails, RestoreKilled, Finish, TypeOK,
       ProcessOK
  <1>5. model = before \/ (backup.made /\ backup.files = before)
    BY <1>0, <1>1 DEF RestorationIsOn
  <1>6. SelectedIsFit'
    BY <1>0, <1>1, <1>2, SelectedStays
  <1>7. RestorationIsOn'
    BY <1>1 DEF RestorationIsOn, RestoreSteps
  <1>8. RestorationHasEnded'
    BY <1>0, <1>1, <1>2, <1>3, <1>4, <1>5
    DEF RestorationHasEnded, RestorationIsOn, NothingIsLost, Selected
  <1> QED
    BY <1>6, <1>7, <1>8

LEMMA RestorableIsInductive == Safe /\ Restorable /\ [Next]_vars => Restorable'
  <1>1. ASSUME Restorable, UNCHANGED vars PROVE Restorable'
    BY <1>1 DEF vars, disk, process, history, Restorable, WritesOwnMapping,
       KeptAreOfOneMapping, SelectedIsFit, RestorationIsOn, RestorationHasEnded,
       NothingIsLost, Updated, Selected, NewContent, Over, Whole, Affected
  <1>2. ASSUME Safe, Restorable, Next
        PROVE  SelectedIsFit' /\ RestorationIsOn' /\ RestorationHasEnded'
    <2>1. CASE Train
      <3>1. restore'.outcome = "none" /\ pc' \notin RestoreSteps
        BY <1>2, <2>1, TrainsAlone
      <3> QED
        BY <3>1 DEF SelectedIsFit, RestorationIsOn, RestorationHasEnded, NothingIsLost,
           RestoreSteps
    <2>2. CASE EditCheckpoint
      BY <1>2, <2>2 DEF EditCheckpoint, process, history, Restorable, SelectedIsFit,
         RestorationIsOn, RestorationHasEnded, NothingIsLost, Selected, NewContent,
         Over, Whole, Affected
    <2>3. CASE Restore
      <3>1. model' \in Snapshot
        BY <1>2, ModelStays
      <3> QED
        BY <1>2, <2>3, <3>1, PreparationStays, PublicationStays, RollbackStays,
           EndingStays DEF Restore
    <2> QED
      BY <1>2, <2>1, <2>2, <2>3 DEF Next
  <1>3. ASSUME Safe, Restorable, Next PROVE Restorable'
    BY <1>2, <1>3, WritesOwnMappingStays, KeptAreOfOneMappingStays DEF Restorable
  <1> QED
    BY <1>1, <1>3

LEMMA RestorableAlways == Spec => [](Safe /\ Restorable)
  <1>1. Init => Safe /\ Restorable
    BY InitSafe, InitRestorable
  <1>2. (Safe /\ Restorable) /\ [Next]_vars => (Safe /\ Restorable)'
    BY SafeIsInductive, RestorableIsInductive
  <1> QED
    BY <1>1, <1>2, PTL DEF Spec

\* A restoration that returns has published the whole snapshot; one that raises
\* has published all of it or nothing, whichever operation failed and whether or
\* not it had taken effect (staged_model_update).
THEOREM RestoresAllOrNothing == Spec => []RestoreIsAllOrNothing
  <1>1. Restorable => RestoreIsAllOrNothing
    BY DEF Restorable, RestorationHasEnded, RestoreIsAllOrNothing
  <1> QED
    BY <1>1, RestorableAlways, PTL

\* However a restoration ends, every file of the earlier model is in its place or
\* in the staging backup, or the durable copy has all of it (staged_model_update,
\* restore_checkpoint).
THEOREM NothingLost == Spec => []NothingIsLost
  <1>1. Restorable => NothingIsLost
    BY DEF Restorable, RestorationHasEnded
  <1> QED
    BY <1>1, RestorableAlways, PTL

\* A restored model is of one state mapping, through reruns with and without
\* retention, deaths in the middle of either and edits (restore_checkpoint).
THEOREM MappingKept == Spec => []MappingIsKept
  <1>1. Restorable => MappingIsKept
    <2> SUFFICES ASSUME Restorable, restore.outcome = "returned", model[Mdef] # Torn,
                        NEW p \in Parameters
                 PROVE  model[p] \in ({model[Mdef]} \X Updates) \cup {Torn}
      BY DEF MappingIsKept
    <2>1. model = Selected /\ Whole(Selected)
      BY DEF Restorable, RestorationHasEnded, SelectedIsFit
    <2>2. PICK m : Over(m, Selected)
      BY DEF Restorable, SelectedIsFit
    <2>3. p \in File \ {Mdef} /\ p \in Required /\ Mdef \in Required
      BY FileShape DEF Required
    <2> QED
      BY <2>1, <2>2, <2>3 DEF Over, Whole
  <1> QED
    BY <1>1, RestorableAlways, PTL
=============================================================================
