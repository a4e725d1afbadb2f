--------------------------- MODULE PipelineProofs ---------------------------
(***************************************************************************)
(* What TLAPS proves of the build runner, for every task graph, number of  *)
(* jobs and clock.                                                         *)
(***************************************************************************)
EXTENDS Pipeline, FiniteSetTheorems, TLAPS

\* An order of the plan gives each task a natural number.
LEMMA TopoIsNat == TopoOrders \subseteq [Task -> Nat]
  <1>1. Cardinality(Task) \in Nat
    BY BoundAssumption, FS_CardinalityType
  <1> QED BY <1>1 DEF TopoOrders

LEMMA NoRunType == NoRun \in Run
  BY DEF NoRun, Run

LEMMA EndRunType ==
  ASSUME NEW status \in Status, TypeOK, EndRun(status)
  PROVE  TypeOK'
  <1>1. run.executed \cup run.done \in SUBSET Task /\ run.closure \in SUBSET Task
    BY DEF TypeOK, RunOK, Run
  <1>2. "completed" \in Status /\ "aborted" \in Status
    BY DEF Status
  <1>3. report' \in Report
    BY <1>1, <1>2 DEF EndRun, Ending, Report
  <1>4. RunOK'
    BY <1>3, NoRunType DEF EndRun, Ending, TypeOK, RunOK
  <1> QED BY <1>4 DEF EndRun, Ending, TypeOK, FilesOK, FrameOK, OrphanOK, files,
                      frame, left

LEMMA LeaveType ==
  ASSUME NEW t \in Task, TypeOK, Leave(t)
  PROVE  FrameOK'
  BY DEF TypeOK, FrameOK, Leave

LEMMA LeftType ==
  ASSUME TypeOK, UNCHANGED left
  PROVE  OrphanOK'
  BY DEF TypeOK, OrphanOK, left

\* Where everything is put away, nothing is at work.
LEMMA AllOffShape ==
  ASSUME AllOff
  PROVE  /\ FrameOK' /\ future' \in [Task -> {"none", "queued", "running", "ok", "error"}]
         /\ \A t \in Task : /\ stage'[t] = "off" /\ written'[t] = {}
                            /\ future'[t] = "none" /\ ~Busy(t)' /\ ~Active(t)'
                            /\ ~InFlight(t)'
  BY DEF AllOff, FrameOK, Busy, Active, InFlight

LEMMA TypesStart == Init => TypeOK
  <1> SUFFICES ASSUME Init PROVE TypeOK
    OBVIOUS
  <1>1. FilesOK
    BY TickAssumption DEF Init, FilesOK
  <1>2. FrameOK
    BY DEF Init, FrameOK
  <1>3. RunOK
    BY NoRunType DEF Init, RunOK, NoReport, Report, Status
  <1>4. OrphanOK
    BY DEF Init, OrphanOK, Gone
  <1> QED BY <1>1, <1>2, <1>3, <1>4 DEF TypeOK

\* Ordering moves outputs only, to a nanosecond past an input.
LEMMA OrderShape ==
  ASSUME FilesOK, NEW t \in Task, OrderOutputs(t)
  PROVE  /\ mtime' \in [File -> Nat]
         /\ \A f \in File \ Outputs[t] : mtime'[f] = mtime[f]
         /\ \A f \in Outputs[t] : \/ mtime'[f] = mtime[f]
                                  \/ \E d \in Deps(t) : mtime'[f] = mtime[d] + 1
  <1>1. mtime \in [File -> Nat] /\ Deps(t) \subseteq File /\ Outputs[t] \subseteq File
    BY GraphAssumption DEF FilesOK, Deps
  <1>2. CASE UNCHANGED mtime
    BY <1>1, <1>2
  <1>3. CASE ~UNCHANGED mtime
    <2>1. PICK d \in Deps(t) :
            mtime' = [f \in File |-> IF f \in NotNewerThan(t, mtime[d])
                                    THEN mtime[d] + 1 ELSE mtime[f]]
      BY <1>3 DEF OrderOutputs
    <2>2. NotNewerThan(t, mtime[d]) \subseteq Outputs[t] /\ mtime[d] \in Nat
      BY <1>1 DEF NotNewerThan
    <2> QED BY <1>1, <2>1, <2>2
  <1> QED BY <1>2, <1>3

\* The steps of a worker that an earlier run left.
LEMMA OrphanStepTypes ==
  ASSUME TypeOK, NEW t \in Task, OrphanStep(t)
  PROVE  TypeOK'
  <1> DEFINE Fields == {"stage", "reads", "present", "written"}
  <1>0. FilesOK /\ OrphanOK /\ UNCHANGED <<now, frame, future, run, cancelled, report>>
        /\ suspect' = suspect
    BY DEF TypeOK, OrphanStep
  <1>1. FrameOK' /\ RunOK'
    BY <1>0 DEF TypeOK, FrameOK, RunOK, frame
  <1>2. OptionalPresence(t) \subseteq OptInputs[t] /\ OptInputs[t] \subseteq File
    BY GraphAssumption DEF OptionalPresence
  <1>3. Gone(t) \in [stage : {"off"}, reads : {Nothing(t)}, present : {{}}, written : {{}}]
    BY DEF Gone
  <1>4. DOMAIN orphan[t] = Fields /\ orphan[t].present \subseteq OptInputs[t]
    BY <1>0 DEF OrphanOK
  \* It is enough to look at the entry of this task.
  <1>5. ASSUME NEW r, orphan' = [orphan EXCEPT ![t] = r],
               DOMAIN r = Fields, r.present \subseteq OptInputs[t],
               r.stage \in {"off", "queued", "reading", "writing", "ordered"}
        PROVE  OrphanOK'
    BY <1>0, <1>5 DEF OrphanOK
  <1>6. ASSUME orphan' = [orphan EXCEPT ![t] = Gone(t)] PROVE OrphanOK'
    BY <1>3, <1>5, <1>6
  <1>7. CASE OrphanBegins(t)
    <2>1. FilesOK'
      BY <1>0, <1>7 DEF OrphanBegins, FilesOK
    <2>2. CASE orphan' = [orphan EXCEPT ![t] = [@ EXCEPT !.stage = "reading",
                                                 !.present = OptionalPresence(t)]]
      BY <1>1, <1>2, <1>4, <1>5, <2>1, <2>2 DEF TypeOK
    <2> QED BY <1>1, <1>6, <1>7, <2>1, <2>2 DEF OrphanBegins, TypeOK
  <1>8. CASE OrphanReads(t)
    <2>1. orphan' = [orphan EXCEPT ![t] = [@ EXCEPT !.stage = "writing",
                                                    !.reads = ReadNow(t)]]
      BY <1>8 DEF OrphanReads
    <2>2. OrphanOK'
      BY <1>4, <1>5, <2>1
    <2> QED BY <1>0, <1>1, <1>8, <2>2 DEF OrphanReads, TypeOK, FilesOK, files
  <1>9. ASSUME NEW o \in Outputs[t], OrphanWrites(t, o) PROVE TypeOK'
    <2>1. FilesOK'
      BY <1>0, <1>9 DEF OrphanWrites, FilesOK
    <2>2. CASE orphan' = [orphan EXCEPT ![t].written = @ \cup {o}]
      <3>1. orphan[t].stage \in {"off", "queued", "reading", "writing", "ordered"}
        BY <1>0 DEF OrphanOK
      <3> QED BY <1>1, <1>4, <1>5, <2>1, <2>2, <3>1 DEF TypeOK
    <2>3. CASE UNCHANGED orphan
      BY <1>0, <1>1, <2>1, <2>3 DEF TypeOK, OrphanOK
    <2> QED BY <1>9, <2>2, <2>3 DEF OrphanWrites
  <1>10. CASE OrphanReturns(t)
    <2>1. orphan' = [orphan EXCEPT ![t] = [@ EXCEPT !.stage = "ordered"]]
      BY <1>10 DEF OrphanReturns
    <2>2. OrphanOK'
      BY <1>4, <1>5, <2>1
    <2>3. mtime' \in [File -> Nat]
      BY <1>0, <1>10, OrderShape DEF OrphanReturns
    <2> QED BY <1>0, <1>1, <1>10, <2>2, <2>3 DEF OrphanReturns, TypeOK, FilesOK
  <1>11. CASE OrphanPublishes(t)
    <2>1. orphan[t].present \in SUBSET File
      BY <1>2, <1>4
    <2>2. FilesOK'
      BY <1>0, <1>11, <2>1 DEF OrphanPublishes, FilesOK
    <2> QED BY <1>1, <1>6, <1>11, <2>2 DEF OrphanPublishes, TypeOK
  <1>12. CASE OrphanEnds(t)
    BY <1>0, <1>1, <1>6, <1>12 DEF OrphanEnds, TypeOK, FilesOK, files
  <1> QED BY <1>7, <1>8, <1>9, <1>10, <1>11, <1>12 DEF OrphanStep

LEMMA TypesStay == TypeOK /\ [Next]_vars => TypeOK'
  <1> SUFFICES ASSUME TypeOK, [Next]_vars PROVE TypeOK'
    OBVIOUS
  <1> USE GraphAssumption, TickAssumption
  <1>1. ASSUME NEW t \in Task, NEW force \in BOOLEAN, Plan(t, force)
        PROVE  TypeOK'
    <2>1. Closure(t) \subseteq Task
      BY DEF Closure, Closures
    <2>2. StaleIn(Closure(t), force) \subseteq Task
      BY <2>1 DEF StaleIn
    <2>3. ClockStep /\ AllOff /\ LeaveBehind /\ BesideWorkers /\ UNCHANGED files
      BY <1>1 DEF Plan
    <2>9. FilesOK' /\ FrameOK'
      BY <2>3, AllOffShape DEF ClockStep, TypeOK, FilesOK, files
    <2>10. OrphanOK'
      BY <2>3 DEF LeaveBehind, BesideWorkers, TypeOK, OrphanOK, FrameOK
    <2>4. ASSUME NEW p \in TopoOrders, NEW j \in Jobs
          PROVE [NoRun EXCEPT !.pc = "loop", !.jobs = j, !.closure = Closure(t),
                   !.toRun = StaleIn(Closure(t), force), !.pos = p] \in Run
      BY <2>1, <2>2, TopoIsNat, BoundAssumption DEF NoRun, Run
    <2>5. run' \in Run
      <3>1. CASE run' = NoRun
        BY <3>1, NoRunType
      <3>2. CASE run' # NoRun
        <4>1. PICK p \in TopoOrders, j \in Jobs :
                run' = [NoRun EXCEPT !.pc = "loop", !.jobs = j,
                          !.closure = Closure(t),
                          !.toRun = StaleIn(Closure(t), force), !.pos = p]
          BY <1>1, <3>2 DEF Plan
        <4> QED BY <2>4, <4>1
      <3> QED BY <3>1, <3>2
    <2>6. \A s \in Status :
            [status |-> s, closure |-> Closure(t), verified |-> {}] \in Report
      BY <2>1 DEF Report
    <2>8. NoReport \in Report /\ "refused" \in Status /\ "uptodate" \in Status
      BY DEF NoReport, Report, Status
    <2>7. report' \in Report
      BY <1>1, <2>6, <2>8 DEF Plan
    <2>11. future' \in [Task -> {"none", "queued", "running", "ok", "error"}]
      BY <2>3, AllOffShape
    <2> QED BY <1>1, <2>9, <2>10, <2>11, <2>5, <2>7 DEF Plan, TypeOK, RunOK
  <1>2. ASSUME NEW f \in File, Edit(f) \/ Remove(f) PROVE TypeOK'
    <2>1. PICK c : UserTouches(f, c)
      BY <1>2 DEF Edit, Remove
    <2>2. FilesOK'
      BY <2>1 DEF UserTouches, ClockStep, TypeOK, FilesOK
    <2>3. NoReport \in Report
      BY DEF NoReport, Report, Status
    <2>4. OrphanOK'
      BY <2>1 DEF UserTouches, BesideWorkers, TypeOK, OrphanOK
    <2> QED BY <2>1, <2>2, <2>3, <2>4 DEF UserTouches, TypeOK, FrameOK, RunOK, frame
  <1>3. CASE Advance
    BY <1>3, LeftType DEF Advance, ClockStep, TypeOK, FilesOK, FrameOK, RunOK, files,
                          frame
  <1>4. CASE Cancel
    BY <1>4, LeftType DEF Cancel, TypeOK, FilesOK, FrameOK, RunOK, files, frame
  <1>5. CASE Crash
    <2>1. NoReport \in Report
      BY DEF NoReport, Report, Status
    <2>2. RunOK'
      BY <1>5, <2>1, NoRunType, AllOffShape DEF Crash, TypeOK, RunOK, NoRun, Run
    <2>3. FrameOK'
      BY <1>5, AllOffShape DEF Crash, TypeOK, FrameOK, frame
    <2> QED BY <1>5, <2>2, <2>3, LeftType DEF Crash, TypeOK, FilesOK, files
  <1>6. CASE AllDone \/ Abort
    BY <1>6, EndRunType DEF AllDone, Abort, Status
  <1>7. CASE BatchDone
    <2>1. CASE EndRun("failed")
      BY <2>1, EndRunType DEF Status
    <2>2. CASE ~EndRun("failed")
      <3>0. run' = [run EXCEPT !.pc = "loop", !.batch = {}, !.done = {},
                               !.executed = @ \cup run.batch]
        BY <1>7, <2>2 DEF BatchDone
      <3>1. run' \in Run
        BY <3>0 DEF TypeOK, RunOK, Run
      <3> QED BY <1>7, <2>2, <3>1, LeftType
          DEF BatchDone, TypeOK, FilesOK, FrameOK, RunOK, files, frame
    <2> QED BY <2>1, <2>2
  <1>8. CASE Terminate
    BY <1>8, LeftType DEF Terminate, TypeOK, FilesOK, FrameOK, RunOK, Run, files, frame
  <1>9. CASE Terminated
    BY <1>9, EndRunType DEF Terminated, Status
  <1>10. ASSUME NEW t \in Task, RunInline(t) PROVE TypeOK'
    <2>1. run' \in Run
      BY <1>10 DEF RunInline, TypeOK, RunOK, Run
    <2> QED BY <1>10, <2>1, LeftType
        DEF RunInline, TypeOK, FilesOK, FrameOK, RunOK, files, frame
  <1>11. ASSUME NEW t \in Task, InlineDone(t) PROVE TypeOK'
    <2>1. CASE EndRun("failed")
      BY <2>1, EndRunType DEF Status
    <2>2. CASE ~EndRun("failed")
      <3>0. run' = [run EXCEPT !.pc = "loop", !.batch = {},
                               !.executed = @ \cup {t}]
        BY <1>11, <2>2 DEF InlineDone
      <3>1. run' \in Run
        BY <3>0 DEF TypeOK, RunOK, Run
      <3> QED BY <1>11, <2>2, <3>1, LeftType
          DEF InlineDone, TypeOK, FilesOK, FrameOK, RunOK, files, frame
    <2> QED BY <2>1, <2>2
  <1>12. ASSUME NEW t \in Task, RunBatch(t) PROVE TypeOK'
    <2>1. PICK sub \in SUBSET BatchOf(t) :
            /\ future' = [u \in Task |-> IF u \in sub THEN "queued" ELSE "none"]
            /\ run' = [run EXCEPT !.pc = "batch", !.batch = BatchOf(t),
                                  !.failed = (sub # BatchOf(t))]
      BY <1>12 DEF RunBatch
    <2>2. BatchOf(t) \in SUBSET Task
      BY DEF BatchOf, Pending, TypeOK, RunOK, Run
    <2>3. (sub # BatchOf(t)) \in BOOLEAN
      OBVIOUS
    <2>4. \A b \in BOOLEAN : [run EXCEPT !.pc = "batch", !.batch = BatchOf(t),
                                         !.failed = b] \in Run
      BY <2>2 DEF TypeOK, RunOK, Run
    <2>5. run' \in Run
      BY <2>1, <2>3, <2>4
    <2> QED BY <1>12, <2>1, <2>5, LeftType
        DEF RunBatch, TypeOK, FilesOK, FrameOK, RunOK, files, frame
  <1>13. ASSUME NEW t \in Task, BatchUnstartable(t) PROVE TypeOK'
    BY <1>13, EndRunType DEF BatchUnstartable, Status
  <1>14. ASSUME NEW t \in Task, Collect(t) PROVE TypeOK'
    <2>1. run' \in Run
      BY <1>14 DEF Collect, TypeOK, RunOK, Run
    <2> QED BY <1>14, <2>1, LeftType
        DEF Collect, TypeOK, FilesOK, FrameOK, RunOK, files, frame
  <1>15. ASSUME NEW t \in Task, WorkerDies(t) \/ Killed(t) PROVE TypeOK'
    <2>1. FrameOK'
      BY <1>15, LeaveType DEF WorkerDies, Killed
    <2> QED BY <1>15, <2>1, LeftType
        DEF WorkerDies, Killed, TypeOK, FilesOK, RunOK, files
  <1>16. ASSUME NEW t \in Task, Begin(t) PROVE TypeOK'
    <2>1. FrameOK'
      BY <1>16 DEF Begin, TypeOK, FrameOK, frame, OptionalPresence
    <2>2. RunOK'
      BY <1>16 DEF Begin, TypeOK, RunOK
    <2> QED BY <1>16, <2>1, <2>2, LeftType DEF Begin, TypeOK, FilesOK
  <1>17. ASSUME NEW t \in Task, Read(t) PROVE TypeOK'
    BY <1>17, LeftType DEF Read, TypeOK, FilesOK, FrameOK, RunOK, files
  <1>18. ASSUME NEW t \in Task, NEW o \in Outputs[t], Write(t, o) PROVE TypeOK'
    BY <1>18, LeftType DEF Write, TypeOK, FilesOK, FrameOK, RunOK
  <1>19. ASSUME NEW t \in Task, Raise(t) PROVE TypeOK'
    BY <1>19, LeaveType, LeftType DEF Raise, Stops, TypeOK, FilesOK, RunOK, files
  <1>20. ASSUME NEW t \in Task, Return(t) PROVE TypeOK'
    <2>1. CASE Stops(t, "error") /\ UNCHANGED files
      BY <2>1, LeaveType, LeftType DEF Stops, TypeOK, FilesOK, RunOK, files
    <2>2. CASE ~(Stops(t, "error") /\ UNCHANGED files)
      <3>1. /\ stage' = [stage EXCEPT ![t] = "ordered"] /\ OrderOutputs(t)
            /\ UNCHANGED <<content, marker, now, reads, present, written, future, run,
                           cancelled, report, left>>
        BY <1>20, <2>2 DEF Return
      <3>2. mtime' \in [File -> Nat]
        BY <3>1, OrderShape DEF TypeOK
      <3> QED BY <3>1, <3>2, LeftType DEF TypeOK, FilesOK, FrameOK, RunOK
    <2> QED BY <2>1, <2>2
  <1>21. ASSUME NEW t \in Task, Publish(t) PROVE TypeOK'
    BY <1>21, LeaveType, LeftType DEF Publish, Stops, TypeOK, FilesOK, FrameOK, RunOK
  <1>22. CASE UNCHANGED vars
    BY <1>22, LeftType DEF vars, files, frame, TypeOK, FilesOK, FrameOK, RunOK
  <1>23. ASSUME NEW t \in Task, OrphanStep(t) PROVE TypeOK'
    BY <1>23, OrphanStepTypes
  <1> QED
    BY <1>1, <1>2, <1>3, <1>4, <1>5, <1>6, <1>7, <1>8, <1>9, <1>10, <1>11,
       <1>12, <1>13, <1>14, <1>15, <1>16, <1>17, <1>18, <1>19, <1>20, <1>21,
       <1>22, <1>23 DEF Next, RunnerStep, TaskStep

\* Every variable keeps its type.
THEOREM TypeCorrect == Spec => []TypeOK
  BY TypesStart, TypesStay, PTL DEF Spec

-----------------------------------------------------------------------------
(* Tasks that depend on each other never run together. *)

LEMMA NotBusyAtEnd ==
  ASSUME TypeOK, Isolation, NEW status, EndRun(status)
  PROVE  Isolation'
  <1>1. run'.pc = "idle"
    BY DEF EndRun, Ending, NoRun
  <1>2. \A t \in Task : Busy(t)' => Busy(t)
    BY DEF EndRun, Ending, Busy, Active, InFlight, frame
  <1> QED BY <1>1, <1>2 DEF Isolation, Upstream, Deps

LEMMA IsolationStarts == Init => Isolation
  BY DEF Init, Isolation, Busy, Active, InFlight, NoRun

LEMMA IsolationStays == TypeOK /\ Isolation /\ [Next]_vars => Isolation'
  <1> SUFFICES ASSUME TypeOK, Isolation, [Next]_vars PROVE Isolation'
    OBVIOUS
  <1> USE DEF Busy, Active, InFlight
  <1>0. \A t, u \in Task : (t \in Upstream(u))' <=> t \in Upstream(u)
    BY DEF Upstream, Deps
  <1>1. ASSUME NEW t \in Task, NEW force \in BOOLEAN, Plan(t, force)
        PROVE  Isolation'
    <2>1. \A u \in Task : ~Busy(u)'
      BY <1>1, AllOffShape DEF Plan
    <2>2. \/ run' = NoRun
          \/ \E pp \in TopoOrders, j \in Jobs :
               run' = [NoRun EXCEPT !.pc = "loop", !.jobs = j,
                         !.closure = Closure(t), !.toRun = StaleIn(Closure(t), force),
                         !.pos = pp]
      BY <1>1 DEF Plan
    <2>3. \/ run'.pc = "idle"
          \/ run'.pc = "loop" /\ run'.pos \in TopoOrders
      BY <2>2, NoRunType DEF NoRun, Run
    <2> QED BY <2>1, <2>3 DEF Isolation
  <1>2. ASSUME NEW f \in File, Edit(f) \/ Remove(f) PROVE Isolation'
    BY <1>2 DEF Edit, Remove, UserTouches, Isolation, frame, Upstream, Deps
  <1>3. CASE Advance \/ Cancel \/ UNCHANGED vars
    BY <1>3 DEF Advance, Cancel, vars, Isolation, frame, Upstream, Deps
  <1>4. CASE Crash
    <2>1. run'.pc = "idle" /\ \A t \in Task : Busy(t)' => Busy(t)
      BY <1>4, AllOffShape DEF Crash, NoRun, frame
    <2> QED BY <2>1, <1>0 DEF Isolation
  <1>5. CASE AllDone \/ Abort \/ Terminated
    BY <1>5, NotBusyAtEnd DEF AllDone, Abort, Terminated
  <1>6. ASSUME NEW t \in Task, BatchUnstartable(t) PROVE Isolation'
    BY <1>6, NotBusyAtEnd DEF BatchUnstartable
  <1>7. CASE BatchDone
    <2>1. CASE EndRun("failed")
      BY <2>1, NotBusyAtEnd
    <2>2. CASE ~EndRun("failed")
      <3>1. run' = [run EXCEPT !.pc = "loop", !.batch = {}, !.done = {},
                               !.executed = @ \cup run.batch]
            /\ UNCHANGED <<frame, future>> /\ run.pc = "batch"
            /\ \A t \in Task : future[t] = "none" /\ ~Active(t)
        BY <1>7, <2>2 DEF BatchDone
      <3>2. run'.pc = "loop" /\ run'.pos = run.pos
        BY <3>1 DEF TypeOK, RunOK, Run
      <3> QED BY <3>1, <3>2 DEF Isolation, frame
    <2> QED BY <2>1, <2>2
  <1>8. CASE Terminate
    <2>1. run.pc = "batch" /\ run'.pc = "terminating" /\ run'.pos = run.pos
      BY <1>8 DEF Terminate, TypeOK, RunOK, Run
    <2> QED BY <1>8, <2>1, <1>0 DEF Terminate, Isolation, frame
  <1>9. ASSUME NEW t \in Task, RunInline(t) PROVE Isolation'
    <2>1. run.pc = "loop" /\ run'.pc = "inline" /\ run'.pos = run.pos
          /\ run'.batch = {t}
      BY <1>9 DEF RunInline, TypeOK, RunOK, Run
    <2>2. \A u \in Task : Busy(u)' => u = t
      BY <1>9, <2>1 DEF RunInline, Isolation, frame, TypeOK, RunOK
    <2>3. \A u \in Task : ~Active(u)'
      BY <1>9, <2>1 DEF RunInline, Isolation, frame
    <2>4. t \notin Upstream(t)
      BY GraphAssumption DEF Upstream, Deps
    <2> QED BY <2>1, <2>2, <2>3, <2>4, <1>0 DEF Isolation
  <1>10. ASSUME NEW t \in Task, InlineDone(t) PROVE Isolation'
    <2>1. CASE EndRun("failed")
      BY <2>1, NotBusyAtEnd
    <2>2. CASE ~EndRun("failed")
      <3>1. run' = [run EXCEPT !.pc = "loop", !.batch = {},
                               !.executed = @ \cup {t}]
            /\ run.pc = "inline" /\ t \in run.batch /\ future[t] = "ok"
            /\ future' = [future EXCEPT ![t] = "none"] /\ UNCHANGED frame
        BY <1>10, <2>2 DEF InlineDone
      <3>2. run'.pc = "loop" /\ run'.pos = run.pos
        BY <3>1 DEF TypeOK, RunOK, Run
      <3>3. \A u \in Task : ~Busy(u)'
        BY <3>1 DEF Isolation, frame, TypeOK, RunOK
      <3> QED BY <3>1, <3>2, <3>3 DEF Isolation
    <2> QED BY <2>1, <2>2
  <1>11. ASSUME NEW t \in Task, RunBatch(t) PROVE Isolation'
    <2>1. PICK sub \in SUBSET BatchOf(t) :
            /\ future' = [u \in Task |-> IF u \in sub THEN "queued" ELSE "none"]
            /\ run' = [run EXCEPT !.pc = "batch", !.batch = BatchOf(t),
                                  !.failed = (sub # BatchOf(t))]
      BY <1>11 DEF RunBatch
    <2>2. run.pc = "loop" /\ run'.pc = "batch" /\ run'.pos = run.pos
      BY <1>11, <2>1 DEF RunBatch, TypeOK, RunOK, Run
    <2>3. \A u \in Task : Busy(u)' => u \in BatchOf(t)
      BY <1>11, <2>1, <2>2 DEF RunBatch, Isolation, frame
    <2>4. \A u, v \in BatchOf(t) : u \notin Upstream(v)
      BY DEF BatchOf, Ready, Pending
    <2> QED BY <2>2, <2>3, <2>4, <1>0 DEF Isolation
  <1>12. ASSUME NEW t \in Task,
                Collect(t) \/ WorkerDies(t) \/ Killed(t)
         PROVE  Isolation'
    <2>1. \A u \in Task : Busy(u)' => Busy(u)
      BY <1>12 DEF Collect, WorkerDies, Killed, Leave, frame, TypeOK, RunOK,
                   FrameOK
    <2>2. run'.pc = run.pc /\ run'.pos = run.pos /\ run'.batch = run.batch
      BY <1>12 DEF Collect, WorkerDies, Killed, TypeOK, RunOK, Run
    <2>3. run.pc = "inline" => UNCHANGED <<frame, future>>
      BY <1>12 DEF Collect, WorkerDies, Killed, Isolation
    <2> QED BY <2>1, <2>2, <2>3, <1>0 DEF Isolation, frame
  <1>13. ASSUME NEW t \in Task, Begin(t) PROVE Isolation'
    <2>1. \A u \in Task : Busy(u)' => Busy(u)
      BY <1>13 DEF Begin, frame, TypeOK, RunOK, FrameOK
    <2>2. run.pc = "inline" =>
            \A u \in Task : Active(u)' => future'[u] = "running"
      BY <1>13 DEF Begin, frame, TypeOK, RunOK, FrameOK, Isolation
    <2> QED BY <1>13, <2>1, <2>2, <1>0 DEF Begin, Isolation
  <1>14. ASSUME NEW t \in Task,
                \/ Read(t) \/ (\E o \in Outputs[t] : Write(t, o))
                \/ Raise(t) \/ Return(t) \/ Publish(t)
         PROVE  Isolation'
    <2>1. \A u \in Task : Busy(u)' => Busy(u)
      BY <1>14 DEF Read, Write, Raise, Return, Publish, Stops, Leave, TypeOK,
                   RunOK, FrameOK
    <2>2. UNCHANGED run
      BY <1>14 DEF Read, Write, Raise, Return, Publish, Stops
    <2>3. run.pc = "inline" =>
            \A u \in Task : Active(u)' => future'[u] = "running"
      BY <1>14 DEF Read, Write, Raise, Return, Publish, Stops, Leave, TypeOK,
                   RunOK, FrameOK, Isolation
    <2> QED BY <2>1, <2>2, <2>3, <1>0 DEF Isolation
  <1>15. ASSUME NEW t \in Task, OrphanStep(t) PROVE Isolation'
    BY <1>15, <1>0 DEF OrphanStep, Isolation, frame
  <1> QED
    BY <1>1, <1>2, <1>3, <1>4, <1>5, <1>6, <1>7, <1>8, <1>9, <1>10, <1>11,
       <1>12, <1>13, <1>14, <1>15 DEF Next, RunnerStep, TaskStep

\* Tasks handed out together do not depend on each other and nothing is left
\* running between batches: the inductive invariant of the runner.
THEOREM IsolationHolds == Spec => []Isolation
  BY IsolationStarts, IsolationStays, TypeCorrect, PTL DEF Spec

\* The workers of one run do not read what another of them writes.
LEMMA NoneOverlap ==
  ASSUME Isolation, NEW t \in Task, NEW u \in Task, Active(t), Active(u)
  PROVE  Outputs[t] \cap Deps(u) = {}
  BY DEF Isolation, Busy, Upstream

LEMMA HeadsAreReady == TypeOK /\ Isolation => HeadIsReady
  <1> SUFFICES ASSUME TypeOK, Isolation, run.pc = "loop", NEW t \in Task,
                      IsHead(t), NEW u \in Upstream(t) \cap run.toRun
               PROVE  u \in run.executed
    BY DEF HeadIsReady, Ready
  <1>1. run.pos \in TopoOrders /\ u \in Task /\ t \in Task
    BY DEF Isolation, Upstream
  <1>2. run.pos[u] < run.pos[t] /\ run.pos[u] \in Nat /\ run.pos[t] \in Nat
    BY <1>1, TopoIsNat DEF TopoOrders
  <1>3. u \notin Pending
    BY <1>2 DEF IsHead
  <1> QED BY <1>3 DEF Pending

\* The head of pending has every producer behind it.
THEOREM HeadReady == Spec => []HeadIsReady
  BY HeadsAreReady, IsolationHolds, TypeCorrect, PTL

-----------------------------------------------------------------------------
(* What a plan calls unchanged.                                            *)

LEMMA GraphShape ==
  ASSUME NEW t \in Task
  PROVE  /\ Deps(t) \subseteq File /\ Outputs[t] \subseteq Generated
         /\ Inputs[t] \subseteq Deps(t) /\ OptInputs[t] \subseteq Deps(t)
         /\ Outputs[t] \subseteq File /\ Outputs[t] # {} /\ Upstream(t) \subseteq Task
         /\ t \notin Upstream(t) /\ Outputs[t] \cap Deps(t) = {}
         /\ \A u \in Task \ {t} : Outputs[t] \cap Outputs[u] = {}
         /\ \A u \in Task \ Upstream(t) : Outputs[u] \cap Deps(t) = {}
         /\ \A f \in Deps(t), o \in Outputs[t] : Rank[f] < Rank[o]
  <1>1. Outputs[t] \subseteq File /\ Outputs[t] # {} /\ Deps(t) \subseteq File
    BY GraphAssumption DEF Deps
  <1>2. \A f \in Deps(t), o \in Outputs[t] : Rank[f] < Rank[o]
    BY GraphAssumption DEF Deps
  <1>3. Outputs[t] \cap Deps(t) = {}
    BY <1>1, <1>2, GraphAssumption
  <1>4. \A u \in Task \ {t} : Outputs[t] \cap Outputs[u] = {}
    BY GraphAssumption
  <1> QED BY <1>1, <1>2, <1>3, <1>4 DEF Generated, Upstream, Deps

LEMMA ClosureIs ==
  ASSUME NEW target \in Task
  PROVE  Closure(target) =
           {t \in Task : \A S \in SUBSET Task : target \in S /\ ClosedUp(S) => t \in S}
  BY DEF Closure, Closures

\* The tasks a target reaches include their producers.
LEMMA ClosureIsClosed ==
  ASSUME NEW target \in Task, NEW t \in Closure(target)
  PROVE  t \in Task /\ Upstream(t) \subseteq Closure(target)
  <1>1. t \in Task
    BY ClosureIs
  <1>2. ASSUME NEW u \in Upstream(t), NEW S \in SUBSET Task, target \in S, ClosedUp(S)
        PROVE  u \in S
    BY <1>2, ClosureIs DEF ClosedUp
  <1> QED BY <1>1, <1>2, GraphShape, ClosureIs

\* What a task reaches, it reaches by way of its producers too.
LEMMA ClosureNests ==
  ASSUME NEW t \in Task, NEW u \in Closure(t)
  PROVE  t \in Closure(t) /\ Closure(u) \subseteq Closure(t)
  <1>1. u \in Task /\ t \in Closure(t)
    BY ClosureIs
  <1>2. ASSUME NEW w \in Closure(u), NEW S \in SUBSET Task, t \in S, ClosedUp(S)
        PROVE  w \in S
    <2>1. u \in S
      BY <1>2, ClosureIs
    <2> QED BY <1>1, <1>2, <2>1, ClosureIs
  <1> QED BY <1>1, <1>2, ClosureIs

-----------------------------------------------------------------------------
(* The tasks that no worker of an earlier run can disturb.                 *)

\* They are no suspects, and neither is what they are made from.
LEMMA SoundAbove ==
  ASSUME NEW t \in Task, Sound(t)
  PROVE  t \notin suspect /\ \A u \in Upstream(t) : Sound(u) /\ u \notin suspect
  <1>1. t \in Closure(t) /\ Upstream(t) \subseteq Closure(t)
    BY ClosureNests, ClosureIsClosed, ClosureIs
  <1>2. \A u \in Upstream(t) : Closure(u) \subseteq Closure(t)
    BY <1>1, ClosureNests
  <1> QED BY <1>1, <1>2 DEF Sound

\* Once a suspect, a task stays one.
LEMMA SuspectGrows == [Next]_vars => suspect \subseteq suspect'
  <1> SUFFICES ASSUME [Next]_vars PROVE suspect \subseteq suspect'
    OBVIOUS
  <1>1. CASE RunnerStep
    BY <1>1 DEF RunnerStep, AllDone, Abort, BatchDone, Terminate, Terminated, RunInline,
         InlineDone, RunBatch, Collect, Killed, EndRun, Ending, left
  <1>2. CASE Advance \/ Cancel \/ Crash \/ UNCHANGED vars
    BY <1>2 DEF Advance, Cancel, Crash, vars, left
  <1>3. ASSUME NEW t \in Task, TaskStep(t) \/ OrphanStep(t)
        PROVE  suspect' = suspect
    BY <1>3 DEF TaskStep, OrphanStep, Begin, Read, Write, Raise, Return, Publish, Stops,
                left
  <1>4. ASSUME NEW t \in Task, NEW force \in BOOLEAN,
               WorkerDies(t) \/ BatchUnstartable(t) \/ Plan(t, force)
        PROVE  suspect \subseteq suspect'
    BY <1>4 DEF WorkerDies, BatchUnstartable, EndRun, Ending, Plan, BesideWorkers, left
  <1>5. ASSUME NEW f \in File, Edit(f) \/ Remove(f)
        PROVE  suspect \subseteq suspect'
    BY <1>5 DEF Edit, Remove, UserTouches, BesideWorkers
  <1> QED BY <1>1, <1>2, <1>3, <1>4, <1>5 DEF Next

LEMMA SoundBefore ==
  ASSUME [Next]_vars, NEW t \in Task, Sound(t)'
  PROVE  Sound(t)
  <1>1. Closure(t)' = Closure(t)
    BY DEF Closure, Closures, ClosedUp, Upstream, Deps
  <1> QED BY <1>1, SuspectGrows DEF Sound

\* A worker that an earlier run left is at a suspect task.
LEMMA OrphansStay == TypeOK /\ OrphansAreSuspect /\ [Next]_vars => OrphansAreSuspect'
  <1> SUFFICES ASSUME TypeOK, OrphansAreSuspect, [Next]_vars,
                      NEW t \in Task, Lingers(t)'
               PROVE  t \in suspect'
    BY DEF OrphansAreSuspect
  <1>1. CASE Lingers(t)
    BY <1>1, SuspectGrows DEF OrphansAreSuspect
  <1>2. ASSUME NEW target \in Task, NEW force \in BOOLEAN, Plan(target, force), ~Lingers(t)
        PROVE  t \in suspect'
    BY <1>2 DEF Plan, LeaveBehind, BesideWorkers, Lingers
  <1>3. ASSUME NEW u \in Task, OrphanStep(u) PROVE Lingers(t)
    <2>1. OrphanOK /\ Lingers(u)
      BY <1>3 DEF TypeOK, OrphanStep, OrphanBegins, OrphanReads, OrphanWrites,
           OrphanReturns, OrphanPublishes, OrphanEnds, OrphanAt, Lingers
    <2>2. t # u => orphan'[t] = orphan[t]
      BY <1>3, <2>1 DEF OrphanStep, OrphanBegins, OrphanReads, OrphanWrites,
           OrphanReturns, OrphanPublishes, OrphanEnds, OrphanOK
    <2> QED BY <2>1, <2>2 DEF Lingers
  <1>4. CASE \/ RunnerStep \/ Advance \/ Cancel \/ Crash \/ UNCHANGED vars
             \/ \E u \in Task : TaskStep(u) \/ WorkerDies(u) \/ BatchUnstartable(u)
             \/ \E f \in File : Edit(f) \/ Remove(f)
    <2>1. UNCHANGED orphan
      BY <1>4 DEF RunnerStep, AllDone, Abort, BatchDone, Terminate, Terminated, RunInline,
         InlineDone, RunBatch, Collect, Killed, EndRun, Ending, Advance, Cancel, Crash,
         vars, left, TaskStep, Begin, Read, Write, Raise, Return, Publish, Stops,
         WorkerDies, BatchUnstartable, Edit, Remove, UserTouches
    <2> QED BY <2>1, <1>1 DEF Lingers
  <1> QED BY <1>1, <1>2, <1>3, <1>4 DEF Next

\* What is written at its task is not what a sound task has to do with.
LEMMA ApartFromSound ==
  ASSUME OrphansAreSuspect, NEW v \in Task, Lingers(v), NEW t \in Task, Sound(t)
  PROVE  /\ t # v /\ Outputs[v] \cap Deps(t) = {} /\ Outputs[v] \cap Outputs[t] = {}
         /\ Deps(t) \cup Outputs[t] \subseteq File
  <1>1. v \in suspect
    BY DEF OrphansAreSuspect
  <1>2. t # v /\ v \notin Upstream(t)
    BY <1>1, SoundAbove
  <1> QED BY <1>2, GraphShape

\* No task runs while the producer of one of its inputs does, in one run or
\* after its crash, nor beside a worker of an earlier run at its producers,
\* unless what it is made from is suspect already.
THEOREM NoOverlap == Spec => []NoReadWriteOverlap
  <1>1. Isolation /\ OrphansAreSuspect => NoReadWriteOverlap
    BY NoneOverlap, ApartFromSound DEF NoReadWriteOverlap
  <1>2. Init => OrphansAreSuspect
    BY DEF Init, OrphansAreSuspect, Lingers, Gone
  <1>3. Spec => []OrphansAreSuspect
    BY <1>2, OrphansStay, TypeCorrect, PTL DEF Spec
  <1> QED BY <1>1, <1>3, IsolationHolds, PTL

\* Its steps leave the files of every sound task alone.
LEMMA OrphanShape ==
  ASSUME TypeOK, OrphansAreSuspect, NEW v \in Task, OrphanStep(v)
  PROVE  /\ UNCHANGED <<now, frame, future, run, cancelled, report, suspect>>
         /\ \A t \in Task : Sound(t) =>
              /\ marker'[t] = marker[t]
              /\ \A f \in Deps(t) \cup Outputs[t] :
                   content'[f] = content[f] /\ mtime'[f] = mtime[f]
         /\ \A f \in File : \/ mtime'[f] = mtime[f] \/ mtime'[f] = now
                            \/ \E d \in Deps(v) : f \in Outputs[v] /\ mtime'[f] = mtime[d] + 1
  <1>0. FilesOK /\ UNCHANGED <<now, frame, future, run, cancelled, report, suspect>>
    BY DEF TypeOK, OrphanStep
  <1>1. Lingers(v)
    BY DEF OrphanStep, OrphanBegins, OrphanReads, OrphanWrites, OrphanReturns,
           OrphanPublishes, OrphanEnds, OrphanAt, Lingers
  <1>2. \A t \in Task \ {v} : marker'[t] = marker[t]
    BY <1>0 DEF OrphanStep, OrphanBegins, OrphanReads, OrphanWrites, OrphanReturns,
           OrphanPublishes, OrphanEnds, FilesOK, files
  <1>3. CASE OrphanReturns(v)
    <2>1. UNCHANGED content /\ OrderOutputs(v)
      BY <1>3 DEF OrphanReturns
    <2>2. /\ \A f \in File \ Outputs[v] : mtime'[f] = mtime[f]
          /\ \A f \in Outputs[v] : \/ mtime'[f] = mtime[f]
                                   \/ \E d \in Deps(v) : mtime'[f] = mtime[d] + 1
      BY <1>0, <2>1, OrderShape
    <2> QED BY <2>1, <2>2, <1>0, <1>1, <1>2, ApartFromSound
  <1>4. ASSUME NEW o \in Outputs[v], OrphanWrites(v, o)
        PROVE  /\ \A f \in File \ Outputs[v] : content'[f] = content[f] /\ mtime'[f] = mtime[f]
               /\ \A f \in File : mtime'[f] = mtime[f] \/ mtime'[f] = now
    BY <1>0, <1>4 DEF OrphanWrites, FilesOK
  <1>5. CASE \E o \in Outputs[v] : OrphanWrites(v, o)
    BY <1>0, <1>1, <1>2, <1>4, <1>5, ApartFromSound
  <1>6. CASE UNCHANGED <<content, mtime>>
    BY <1>0, <1>1, <1>2, <1>6, ApartFromSound
  <1> QED BY <1>3, <1>5, <1>6 DEF OrphanStep, OrphanBegins, OrphanReads,
             OrphanPublishes, OrphanEnds, files

\* What is not stale is not directly so, nor is anything above it.
LEMMA NotStale ==
  ASSUME NEW S \in SUBSET Task, NEW force \in BOOLEAN,
         NEW t \in S \ StaleIn(S, force)
  PROVE  ~DirectlyStale(t) /\ Upstream(t) \cap StaleIn(S, force) = {}
  <1>1. PICK R \in SUBSET S :
          /\ \A u \in S : force \/ DirectlyStale(u) => u \in R
          /\ \A u \in S : Upstream(u) \cap R # {} => u \in R
          /\ t \notin R
    BY DEF StaleIn
  <1>2. StaleIn(S, force) \subseteq R
    BY <1>1 DEF StaleIn
  <1> QED BY <1>1, <1>2

\* The stale tasks are the fewest that propagate staleness.
LEMMA StaleIsLeast ==
  ASSUME NEW S \in SUBSET Task, NEW force \in BOOLEAN, NEW R \in SUBSET S,
         \A u \in S : force \/ DirectlyStale(u) => u \in R,
         \A u \in S : Upstream(u) \cap R # {} => u \in R
  PROVE  StaleIn(S, force) \subseteq R
  BY DEF StaleIn

\* Nothing is missing above a task whose producers are not directly stale.
LEMMA NothingMissing ==
  ASSUME NEW S \in SUBSET Task, ~MissingSource(S), NEW t \in S,
         \A u \in Upstream(t) : ~DirectlyStale(u)
  PROVE  \A f \in Inputs[t] : Exists(f)
  <1> SUFFICES ASSUME NEW f \in Inputs[t], ~Exists(f) PROVE FALSE
    OBVIOUS
  <1>1. f \in Deps(t) /\ f \in File
    BY GraphShape
  <1>2. f \in Generated
    BY <1>1 DEF MissingSource, External
  <1>3. PICK u \in Task : f \in Outputs[u]
    BY <1>2 DEF Generated
  <1>4. u \in Upstream(t)
    BY <1>1, <1>3 DEF Upstream
  <1> QED BY <1>3, <1>4 DEF DirectlyStale

\* A marker says of an unchanged task that its outputs are what they should be.
LEMMA UnchangedIsClean ==
  ASSUME TypeOK, MarkersTell, NEW target \in Task, NEW force \in BOOLEAN,
         ~MissingSource(Closure(target)),
         NEW t \in Closure(target) \ StaleIn(Closure(target), force), Sound(t)
  PROVE  Clean(t)
  <1> DEFINE S == Closure(target)
  <1>1. S \in SUBSET Task /\ t \in Task /\ Upstream(t) \subseteq S
    BY ClosureIsClosed, ClosureIs
  <1>2. ~DirectlyStale(t) /\ \A u \in Upstream(t) : u \in S \ StaleIn(S, force)
    BY <1>1, NotStale
  <1>3. \A u \in Upstream(t) : ~DirectlyStale(u)
    BY <1>1, <1>2, NotStale
  <1>4. \A f \in Inputs[t] : Exists(f)
    BY <1>1, <1>3, NothingMissing
  <1>5. ASSUME NEW o \in Outputs[t]
        PROVE  content[o] = Built(t, o, ReadNow(t))
    <2>1. Exists(o) /\ marker[t] # NoMarker
      BY <1>2 DEF DirectlyStale
    <2> DEFINE r == content[o].from
    <2>2. /\ content[o] = Built(t, o, r) /\ r = [f \in Deps(t) |-> r[f]]
          /\ marker[t] = {f \in OptInputs[t] : r[f] # Absent}
          /\ \A f \in Deps(t) : \/ content[f] = r[f] \/ ~Exists(f)
                                \/ mtime[o] <= mtime[f]
      BY <1>1, <2>1 DEF MarkersTell, Tells
    <2>3. ASSUME NEW f \in Deps(t) PROVE content[f] = r[f]
      <3>1. CASE Exists(f)
        <4>1. ~(mtime[f] >= mtime[o])
          BY <1>2, <3>1 DEF DirectlyStale
        <4>2. mtime[f] \in Nat /\ mtime[o] \in Nat
          BY <1>1, GraphShape DEF TypeOK, FilesOK
        <4> QED BY <4>1, <4>2, <3>1, <2>2
      <3>2. CASE ~Exists(f)
        <4>1. f \in OptInputs[t]
          BY <1>4, <3>2 DEF Deps
        <4>2. marker[t] = OptionalPresence(t)
          BY <1>2, <4>1 DEF DirectlyStale
        <4>3. f \notin marker[t]
          BY <4>2, <3>2 DEF OptionalPresence
        <4>4. r[f] = Absent
          BY <2>2, <4>1, <4>3
        <4> QED BY <4>4, <3>2 DEF Exists
      <3> QED BY <3>1, <3>2
    <2>4. ReadNow(t) = r
      BY <2>2, <2>3 DEF ReadNow
    <2> QED BY <2>2, <2>4
  <1> QED BY <1>2, <1>5 DEF Clean, Consistent

-----------------------------------------------------------------------------
(* The steps, grouped by what they do to the files and to the run.         *)

\* The return of fn with every output there.
Orders(t) ==
  /\ stage[t] = "writing" /\ \A o \in Outputs[t] : o \in written[t] /\ Exists(o)
  /\ stage' = [stage EXCEPT ![t] = "ordered"]
  /\ \A f \in File \ Outputs[t] : mtime'[f] = mtime[f]
  /\ \A o \in Outputs[t] :
       /\ mtime[o] <= mtime'[o]
       /\ \A f \in Deps(t) : Exists(f) => mtime[f] < mtime'[o]
       /\ \/ mtime'[o] = mtime[o]
          \/ \E f \in Deps(t) : mtime'[o] = mtime[f] + 1
  /\ UNCHANGED <<content, marker, now, reads, present, written, future, run,
                 cancelled, report, suspect>>

\* The end of a run, with nothing at work any more.
Ends ==
  \E status \in {"completed", "failed", "aborted"} :
    /\ EndRun(status) /\ run.pc # "idle"
    /\ \A t \in Task : ~Active(t)
    /\ status = "completed" => Pending = {}

\* The serial and the pooled path go on with the next task.
InlineGoesOn(t) ==
  /\ run.pc = "inline" /\ t \in run.batch /\ future[t] = "ok"
  /\ run' = [run EXCEPT !.pc = "loop", !.batch = {}, !.executed = @ \cup {t}]
  /\ future' = [future EXCEPT ![t] = "none"]
  /\ UNCHANGED <<files, now, frame, cancelled, report, left>>

BatchGoesOn ==
  /\ run.pc = "batch" /\ ~run.failed
  /\ \A t \in Task : future[t] = "none" /\ ~Active(t)
  /\ run' = [run EXCEPT !.pc = "loop", !.batch = {}, !.done = {},
                        !.executed = @ \cup run.batch]
  /\ UNCHANGED <<files, now, frame, future, cancelled, report, left>>

\* A task ends without a marker, its files as they are.
Fails(t) == Active(t) /\ Stops(t, "error") /\ UNCHANGED files

Touches(f) ==
  \E c : UserTouches(f, c) /\ (c # Absent => f \in External)

LEMMA ReturnShape ==
  ASSUME TypeOK, NEW t \in Task, Return(t)
  PROVE  Orders(t) \/ Fails(t)
  <1> SUFFICES ASSUME ~Fails(t) PROVE Orders(t)
    OBVIOUS
  <1> DEFINE seen == {mtime[f] : f \in {d \in Deps(t) : Exists(d)}}
  <1>1. /\ stage[t] = "writing" /\ \A o \in Outputs[t] \ written[t] : ~Exists(o)
        /\ \A o \in Outputs[t] : Exists(o)
        /\ stage' = [stage EXCEPT ![t] = "ordered"]
        /\ \/ seen = {} /\ UNCHANGED mtime
           \/ \E newest \in seen :
                /\ \A m \in seen : m <= newest
                /\ mtime' = [f \in File |-> IF f \in NotNewerThan(t, newest)
                                            THEN newest + 1 ELSE mtime[f]]
        /\ UNCHANGED <<content, marker, now, reads, present, written, future,
                       run, cancelled, report, suspect>>
    BY DEF Return, OrderOutputs, Fails, Active, left
  <1>2. mtime \in [File -> Nat] /\ \A f \in Deps(t) : f \in File
    BY GraphShape DEF TypeOK, FilesOK
  <1>3. Outputs[t] \subseteq File
    BY GraphShape
  <1>4. CASE seen = {} /\ UNCHANGED mtime
    BY <1>1, <1>2, <1>3, <1>4 DEF Orders
  <1>5. CASE \E newest \in seen :
               /\ \A m \in seen : m <= newest
               /\ mtime' = [f \in File |-> IF f \in NotNewerThan(t, newest)
                                           THEN newest + 1 ELSE mtime[f]]
    <2>1. PICK d \in Deps(t) :
            /\ Exists(d) /\ \A m \in seen : m <= mtime[d]
            /\ mtime' = [f \in File |-> IF f \in NotNewerThan(t, mtime[d])
                                        THEN mtime[d] + 1 ELSE mtime[f]]
      BY <1>5
    <2>2. \A f \in File \ Outputs[t] : mtime'[f] = mtime[f]
      BY <2>1 DEF NotNewerThan
    <2>3. mtime[d] \in Nat /\ \A f \in Deps(t) : Exists(f) => mtime[f] <= mtime[d]
      BY <2>1, <1>2
    <2>4. ASSUME NEW o \in Outputs[t]
          PROVE  /\ mtime[o] <= mtime'[o]
                 /\ \A f \in Deps(t) : Exists(f) => mtime[f] < mtime'[o]
                 /\ \/ mtime'[o] = mtime[o]
                    \/ \E f \in Deps(t) : mtime'[o] = mtime[f] + 1
      <3>1. mtime'[o] = IF mtime[o] <= mtime[d] THEN mtime[d] + 1 ELSE mtime[o]
        BY <1>3, <2>1 DEF NotNewerThan
      <3>2. mtime[o] \in Nat
        BY <1>2, <1>3
      <3> QED BY <3>1, <3>2, <2>3, <1>2
    <2> QED BY <1>1, <2>2, <2>4 DEF Orders
  <1> QED BY <1>1, <1>4, <1>5

LEMMA EndShape ==
  ASSUME Isolation,
         \/ AllDone \/ Abort \/ Terminated
         \/ BatchDone /\ ~BatchGoesOn
         \/ \E t \in Task : \/ InlineDone(t) /\ ~InlineGoesOn(t)
                            \/ BatchUnstartable(t)
  PROVE  Ends
  <1>1. run.pc = "loop" => \A t \in Task : ~Active(t)
    BY DEF Isolation, Busy
  <1>2. CASE AllDone \/ Abort \/ \E t \in Task : BatchUnstartable(t)
    BY <1>1, <1>2 DEF Ends, AllDone, Abort, BatchUnstartable
  <1>3. CASE Terminated
    BY <1>3 DEF Ends, Terminated
  <1>4. CASE BatchDone /\ ~BatchGoesOn
    BY <1>4 DEF Ends, BatchDone, BatchGoesOn
  <1>5. ASSUME NEW t \in Task, InlineDone(t), ~InlineGoesOn(t)
        PROVE  Ends
    <2>1. run.pc = "inline" /\ future[t] = "error" /\ EndRun("failed") /\ t \in run.batch
      BY <1>5 DEF InlineDone, InlineGoesOn
    <2>2. \A u \in Task : ~Active(u)
      BY <2>1 DEF Isolation, Busy
    <2> QED BY <2>1, <2>2 DEF Ends
  <1> QED BY <1>2, <1>3, <1>4, <1>5

LEMMA NextCases ==
  ASSUME TypeOK, Isolation, [Next]_vars
  PROVE  \/ \E t \in Task, force \in BOOLEAN : Plan(t, force)
         \/ \E f \in File : Touches(f)
         \/ Advance \/ Cancel \/ Terminate \/ Crash \/ Ends
         \/ BatchGoesOn \/ UNCHANGED vars
         \/ \E t \in Task :
              \/ RunInline(t) \/ InlineGoesOn(t) \/ RunBatch(t) \/ Collect(t)
              \/ WorkerDies(t) \/ Killed(t) \/ Begin(t) \/ Read(t) \/ Fails(t)
              \/ (\E o \in Outputs[t] : Write(t, o)) \/ Orders(t) \/ Publish(t)
              \/ OrphanStep(t)
  <1>1. ASSUME NEW f \in File, Edit(f) \/ Remove(f) PROVE Touches(f)
    BY <1>1 DEF Edit, Remove, Touches
  <1>2. ASSUME NEW t \in Task, Raise(t) PROVE Fails(t)
    BY <1>2 DEF Raise, Fails, Active
  <1>3. CASE RunnerStep
    BY <1>3, EndShape DEF RunnerStep
  <1>4. ASSUME NEW t \in Task, TaskStep(t)
        PROVE  \/ Begin(t) \/ Read(t) \/ (\E o \in Outputs[t] : Write(t, o))
               \/ Fails(t) \/ Orders(t) \/ Publish(t)
    BY <1>4, <1>2, ReturnShape DEF TaskStep
  <1>5. ASSUME NEW t \in Task, BatchUnstartable(t) PROVE Ends
    BY <1>5, EndShape
  <1> QED BY <1>1, <1>3, <1>4, <1>5 DEF Next

\* Only a task at work writes, and only its own outputs.
Writes(t) ==
  /\ t \in Task /\ stage[t] = "writing"
  /\ \A f \in File \ Outputs[t] : content'[f] = content[f] /\ mtime'[f] = mtime[f]
  /\ UNCHANGED <<marker, now, future, run, cancelled, report>>

LEMMA WriteShape ==
  ASSUME TypeOK, NEW t \in Task, Orders(t) \/ \E o \in Outputs[t] : Write(t, o)
  PROVE  Writes(t)
  <1>1. CASE Orders(t)
    BY <1>1 DEF Orders, Writes
  <1>2. ASSUME NEW o \in Outputs[t], Write(t, o) PROVE Writes(t)
    <2>1. \A f \in File \ Outputs[t] : content'[f] = content[f] /\ mtime'[f] = mtime[f]
      BY <1>2 DEF Write, TypeOK, FilesOK
    <2> QED BY <1>2, <2>1 DEF Write, Writes
  <1> QED BY <1>1, <1>2

\* The cleanness of a task depends on its files and its marker.
LEMMA CleanFrame ==
  ASSUME NEW t \in Task, marker'[t] = marker[t],
         \A f \in Deps(t) \cup Outputs[t] :
           content'[f] = content[f] /\ mtime'[f] = mtime[f]
  PROVE  /\ ReadNow(t)' = ReadNow(t) /\ OptionalPresence(t)' = OptionalPresence(t)
         /\ Clean(t)' <=> Clean(t)
         /\ DirectlyStale(t)' <=> DirectlyStale(t)
  <1>1. ReadNow(t)' = ReadNow(t)
    BY DEF ReadNow, Deps
  <1>2. \A f \in Deps(t) \cup Outputs[t] : Exists(f)' <=> Exists(f)
    BY DEF Exists
  <1>3. OptionalPresence(t)' = OptionalPresence(t)
    BY <1>2, GraphShape DEF OptionalPresence
  <1>4. DirectlyStale(t)' <=> DirectlyStale(t)
    BY <1>2, <1>3 DEF DirectlyStale, Deps
  <1>5. Consistent(t)' <=> Consistent(t)
    BY <1>1 DEF Consistent, Built
  <1> QED BY <1>1, <1>3, <1>4, <1>5 DEF Clean

LEMMA FilesFrame ==
  ASSUME UNCHANGED files
  PROVE  /\ \A t \in Task : /\ ReadNow(t)' = ReadNow(t)
                            /\ OptionalPresence(t)' = OptionalPresence(t)
                            /\ Clean(t)' <=> Clean(t)
                            /\ DirectlyStale(t)' <=> DirectlyStale(t)
         /\ \A S \in SUBSET Task : StaleIn(S, FALSE)' = StaleIn(S, FALSE)
  <1>1. \A t \in Task : /\ ReadNow(t)' = ReadNow(t)
                        /\ OptionalPresence(t)' = OptionalPresence(t)
                        /\ Clean(t)' <=> Clean(t)
                        /\ DirectlyStale(t)' <=> DirectlyStale(t)
    BY CleanFrame DEF files
  <1>2. ASSUME NEW S \in SUBSET Task
        PROVE  StaleIn(S, FALSE)' = StaleIn(S, FALSE)
    <2>1. \A u \in S : DirectlyStale(u)' <=> DirectlyStale(u)
      BY <1>1
    <2> QED BY <2>1 DEF StaleIn, Upstream, Deps
  <1> QED BY <1>1, <1>2

\* When anyone acts, no file is as new as the clock.
LEMMA FilesAreOlder ==
  ASSUME TypeOK, TimesAreNear, ClockStep, NEW f \in File
  PROVE  mtime[f] < now' /\ now' \in Nat
  BY TickAssumption, GraphAssumption DEF TypeOK, FilesOK, TimesAreNear, ClockStep

-----------------------------------------------------------------------------
(* The files.                                                              *)

LEMMA TimesStay ==
  ASSUME Safe, [Next]_vars
  PROVE  TimesAreNear'
  <1> USE GraphAssumption, TickAssumption
  <1>0. TypeOK /\ TimesAreNear /\ OrphansAreSuspect /\ Isolation
    BY DEF Safe
  <1>1. mtime \in [File -> Nat] /\ now \in Nat
    BY <1>0 DEF TypeOK, FilesOK
  <1>2. ASSUME UNCHANGED mtime, now' = now \/ now' = now + Tick
        PROVE  TimesAreNear'
    BY <1>0, <1>1, <1>2 DEF TimesAreNear
  <1>3. ASSUME NEW f \in File, Touches(f) PROVE TimesAreNear'
    <2>1. PICK c : UserTouches(f, c)
      BY <1>3 DEF Touches
    <2> QED BY <2>1, <1>0, <1>1 DEF UserTouches, ClockStep, TimesAreNear
  <1>4. ASSUME NEW t \in Task, NEW o \in Outputs[t], Write(t, o)
        PROVE  TimesAreNear'
    BY <1>4, <1>0, <1>1 DEF Write, TimesAreNear
  <1>5. ASSUME NEW t \in Task, Orders(t) PROVE TimesAreNear'
    <2> SUFFICES ASSUME NEW f \in File PROVE mtime'[f] <= now + Rank[f]
      BY <1>5 DEF Orders, TimesAreNear
    <2>1. CASE f \notin Outputs[t] \/ mtime'[f] = mtime[f]
      BY <2>1, <1>5, <1>0 DEF Orders, TimesAreNear
    <2>2. CASE f \in Outputs[t] /\ \E d \in Deps(t) : mtime'[f] = mtime[d] + 1
      <3>1. PICK d \in Deps(t) : mtime'[f] = mtime[d] + 1
        BY <2>2
      <3>2. d \in File /\ Rank[d] < Rank[f]
        BY <2>2, GraphShape
      <3>3. mtime[d] <= now + Rank[d] /\ mtime[d] \in Nat
        BY <3>2, <1>0, <1>1 DEF TimesAreNear
      <3> QED BY <3>1, <3>2, <3>3, <1>1
    <2> QED BY <2>1, <2>2, <1>5 DEF Orders
  <1>6. CASE \/ Advance \/ Cancel \/ Terminate \/ Crash \/ Ends
             \/ BatchGoesOn \/ UNCHANGED vars
    BY <1>2, <1>6 DEF Advance, ClockStep, Cancel, Terminate, Crash, Ends, EndRun,
                      Ending, BatchGoesOn, vars, files
  <1>7. ASSUME NEW t \in Task, NEW force \in BOOLEAN, Plan(t, force)
        PROVE  TimesAreNear'
    BY <1>2, <1>7 DEF Plan, ClockStep, files
  <1>8. ASSUME NEW t \in Task,
               \/ RunInline(t) \/ InlineGoesOn(t) \/ RunBatch(t) \/ Collect(t)
               \/ WorkerDies(t) \/ Killed(t) \/ Begin(t) \/ Read(t) \/ Fails(t)
               \/ Publish(t)
        PROVE  TimesAreNear'
    BY <1>2, <1>8 DEF RunInline, InlineGoesOn, RunBatch, Collect, WorkerDies,
                      Killed, Begin, Read, Fails, Stops, Publish, files
  <1>9. ASSUME NEW v \in Task, OrphanStep(v) PROVE TimesAreNear'
    <2>1. now' = now
      BY <1>9 DEF OrphanStep
    <2> SUFFICES ASSUME NEW f \in File PROVE mtime'[f] <= now + Rank[f]
      BY <2>1 DEF TimesAreNear
    <2>2. CASE mtime'[f] = mtime[f] \/ mtime'[f] = now
      BY <2>2, <1>0, <1>1 DEF TimesAreNear
    <2>3. CASE \E d \in Deps(v) : f \in Outputs[v] /\ mtime'[f] = mtime[d] + 1
      <3>1. PICK d \in Deps(v) : f \in Outputs[v] /\ mtime'[f] = mtime[d] + 1
        BY <2>3
      <3>2. d \in File /\ Rank[d] < Rank[f]
        BY <3>1, GraphShape
      <3>3. mtime[d] <= now + Rank[d] /\ mtime[d] \in Nat
        BY <3>2, <1>0, <1>1 DEF TimesAreNear
      <3> QED BY <3>1, <3>2, <3>3, <1>1
    <2> QED BY <1>0, <1>9, <2>2, <2>3, OrphanShape
  <1> QED BY <1>0, NextCases, <1>3, <1>4, <1>5, <1>6, <1>7, <1>8, <1>9

\* Markers and files seen from a task that a step leaves alone.
LEMMA MarkersStay ==
  ASSUME Safe, [Next]_vars
  PROVE  MarkersTell'
  <1>0. /\ TypeOK /\ TimesAreNear /\ WorkIsUndisturbed /\ Isolation
        /\ MarkersTell /\ NothingIsAhead /\ OrphansAreSuspect
    BY DEF Safe
  <1>1. mtime \in [File -> Nat] /\ now \in Nat /\ DOMAIN content = File
    BY <1>0 DEF TypeOK, FilesOK
  <1> SUFFICES ASSUME NEW t \in Task, Sound(t)', marker'[t] # NoMarker,
                      NEW o \in Outputs[t], content'[o] # Absent
               PROVE  Tells(t, o)'
    BY DEF MarkersTell, Exists
  <1>15. Sound(t)
    BY SoundBefore
  <1>2. marker[t] # NoMarker /\ Exists(o) => Tells(t, o)
    BY <1>0, <1>15 DEF MarkersTell
  <1>3. o \in File /\ o \in Generated /\ Deps(t) \subseteq File /\ o \notin Deps(t)
    BY GraphShape
  \* It is enough that the inputs keep their content, go, or become newer.
  <1>4. ASSUME marker'[t] = marker[t], content'[o] = content[o],
               mtime'[o] = mtime[o],
               \A f \in Deps(t) :
                 \/ content'[f] = content[f] /\ mtime[f] <= mtime'[f]
                 \/ content'[f] = Absent
                 \/ mtime[o] <= mtime'[f]
        PROVE  Tells(t, o)'
    <2> DEFINE r == content[o].from
    <2>1. Tells(t, o)
      BY <1>2, <1>4 DEF Exists
    <2>2. ASSUME NEW f \in Deps(t)
          PROVE  \/ content'[f] = r[f] \/ content'[f] = Absent
                 \/ mtime[o] <= mtime'[f]
      <3>1. \/ content[f] = r[f] \/ content[f] = Absent \/ mtime[o] <= mtime[f]
        BY <2>1 DEF Tells, Exists
      <3>2. \/ content'[f] = content[f] /\ mtime[f] <= mtime'[f]
            \/ content'[f] = Absent
            \/ mtime[o] <= mtime'[f]
        BY <1>4
      <3>3. mtime[o] \in Nat /\ mtime[f] \in Nat
        BY <1>1, <1>3
      <3>4. CASE mtime[o] <= mtime[f] /\ mtime[f] <= mtime'[f]
        <4>1. mtime' \in [File -> Nat]
          BY TypesStay, <1>0 DEF TypeOK, FilesOK
        <4> QED BY <3>3, <3>4, <4>1, <1>3
      <3> QED BY <3>1, <3>2, <3>4
    <2>3. content'[o].from = r /\ content'[o] = Built(t, o, r)
          /\ r = [f \in Deps(t) |-> r[f]]
          /\ marker'[t] = {f \in OptInputs[t] : r[f] # Absent}
      BY <2>1, <1>4 DEF Tells
    <2> QED BY <2>2, <2>3, <1>4 DEF Tells, Exists, Built, Deps
  <1>5. ASSUME UNCHANGED files PROVE Tells(t, o)'
    BY <1>4, <1>5, <1>1, <1>3 DEF files
  <1>6. ASSUME NEW f \in File, Touches(f) PROVE Tells(t, o)'
    <2>1. PICK c : UserTouches(f, c) /\ (c # Absent => f \in External)
      BY <1>6 DEF Touches
    <2>2. /\ content' = [content EXCEPT ![f] = c] /\ marker' = marker
          /\ mtime' = [mtime EXCEPT ![f] = IF c = Absent THEN 0 ELSE now']
          /\ ClockStep
      BY <2>1 DEF UserTouches
    <2>3. f # o
      BY <2>1, <2>2, <1>3, <1>1 DEF External
    <2>4. mtime[o] <= now'
      BY <1>0, <1>1, <1>3, <2>2, FilesAreOlder
    <2> QED BY <1>4, <2>2, <2>3, <2>4, <1>1, <1>3
  <1>7. ASSUME NEW v \in Task, Begin(v) PROVE Tells(t, o)'
    <2>1. v # t /\ marker'[t] = marker[t] /\ UNCHANGED <<content, mtime>>
      BY <1>7, <1>0 DEF Begin, TypeOK, FilesOK
    <2> QED BY <2>1, <1>4, <1>1, <1>3
  <1>8. ASSUME NEW v \in Task, Publish(v) PROVE Tells(t, o)'
    <2>1. marker' = [marker EXCEPT ![v] = present[v]] /\ UNCHANGED <<content, mtime>>
          /\ stage[v] = "ordered"
      BY <1>8 DEF Publish
    <2>2. CASE t # v
      BY <2>1, <2>2, <1>4, <1>1, <1>3 DEF TypeOK, FilesOK
    <2>3. CASE t = v
      <3>1. /\ content[o] = Built(t, o, reads[t]) /\ reads[t] = ReadNow(t)
            /\ present[t] = OptionalPresence(t)
        BY <1>0, <1>15, <2>1, <2>3 DEF WorkIsUndisturbed, Undisturbed, Active
      <3>2. content[o].from = ReadNow(t) /\ content[o] = Built(t, o, ReadNow(t))
        BY <3>1 DEF Built
      <3>3. marker'[t] = OptionalPresence(t)
        BY <2>1, <2>3, <3>1, <1>0 DEF TypeOK, FilesOK
      <3>4. OptionalPresence(t) = {f \in OptInputs[t] : ReadNow(t)[f] # Absent}
        BY DEF OptionalPresence, ReadNow, Exists, Deps
      <3>5. ReadNow(t) = [f \in Deps(t) |-> ReadNow(t)[f]]
            /\ \A f \in Deps(t) : content[f] = ReadNow(t)[f]
        BY DEF ReadNow
      <3> QED BY <2>1, <3>2, <3>3, <3>4, <3>5, Zenon DEF Tells, Built, Deps, Exists
    <2> QED BY <2>2, <2>3
  <1>9. ASSUME NEW v \in Task, Writes(v),
               \A f \in Outputs[v] :
                 \/ mtime[f] <= mtime'[f] /\ content'[f] = content[f]
                 \/ mtime'[f] = now
        PROVE  Tells(t, o)'
    <2>1. t # v /\ marker' = marker
      BY <1>9, <1>0, <1>15 DEF Writes, WorkIsUndisturbed, Undisturbed, Active
    <2>2. o \notin Outputs[v]
      BY <2>1, GraphShape
    <2>3. ASSUME NEW f \in Deps(t), f \in Outputs[v] PROVE mtime[o] <= now
      <3>1. v \in Upstream(t) /\ Ahead(v)
        BY <2>3, <1>9 DEF Upstream, Writes, Ahead
      <3> QED BY <3>1, <1>0, <1>15 DEF NothingIsAhead
    <2>4. content'[o] = content[o] /\ mtime'[o] = mtime[o]
      BY <2>2, <1>3, <1>9 DEF Writes
    <2>5. ASSUME NEW f \in Deps(t)
          PROVE  \/ content'[f] = content[f] /\ mtime[f] <= mtime'[f]
                 \/ content'[f] = Absent
                 \/ mtime[o] <= mtime'[f]
      <3>1. CASE f \in Outputs[v]
        BY <3>1, <2>3, <1>9
      <3>2. CASE f \notin Outputs[v]
        BY <3>2, <1>3, <1>1, <1>9 DEF Writes
      <3> QED BY <3>1, <3>2
    <2> QED BY <1>4, <2>1, <2>4, <2>5
  <1>10. ASSUME NEW v \in Task, NEW w \in Outputs[v], Write(v, w)
         PROVE  Tells(t, o)'
    <2>1. Writes(v)
      BY <1>10, <1>0, WriteShape
    <2>2. \A f \in Outputs[v] : \/ mtime[f] <= mtime'[f] /\ content'[f] = content[f]
                                \/ mtime'[f] = now
      BY <1>10, <1>1, GraphShape DEF Write
    <2> QED BY <1>9, <2>1, <2>2
  <1>11. ASSUME NEW v \in Task, Orders(v) PROVE Tells(t, o)'
    <2>1. Writes(v)
      BY <1>11, <1>0, WriteShape
    <2> QED BY <1>9, <1>11, <2>1 DEF Orders
  <1>12. CASE \/ Advance \/ Cancel \/ Terminate \/ Crash \/ Ends
              \/ BatchGoesOn \/ UNCHANGED vars
    BY <1>5, <1>12 DEF Advance, ClockStep, Cancel, Terminate, Crash, Ends, EndRun,
                       Ending, BatchGoesOn, vars
  <1>13. ASSUME NEW v \in Task, NEW force \in BOOLEAN, Plan(v, force)
         PROVE  Tells(t, o)'
    BY <1>5, <1>13 DEF Plan
  <1>14. ASSUME NEW v \in Task,
                \/ RunInline(v) \/ InlineGoesOn(v) \/ RunBatch(v) \/ Collect(v)
                \/ WorkerDies(v) \/ Killed(v) \/ Read(v) \/ Fails(v)
         PROVE  Tells(t, o)'
    BY <1>5, <1>14 DEF RunInline, InlineGoesOn, RunBatch, Collect, WorkerDies,
                       Killed, Read, Fails
  <1>16. ASSUME NEW v \in Task, OrphanStep(v) PROVE Tells(t, o)'
    <2>1. /\ marker'[t] = marker[t]
          /\ \A f \in Deps(t) \cup Outputs[t] :
               content'[f] = content[f] /\ mtime'[f] = mtime[f]
      BY <1>0, <1>15, <1>16, OrphanShape
    <2> QED BY <1>1, <1>3, <1>4, <2>1
  <1> QED BY <1>0, NextCases, <1>6, <1>7, <1>8, <1>10, <1>11, <1>12, <1>13, <1>14,
             <1>16

-----------------------------------------------------------------------------
(* The tasks at work.                                                      *)

LEMMA UndisturbedFrame ==
  ASSUME NEW t \in Task, Undisturbed(t),
         marker'[t] = marker[t], stage'[t] = stage[t], present'[t] = present[t],
         reads'[t] = reads[t], written'[t] = written[t],
         \A f \in Deps(t) \cup Outputs[t] :
           content'[f] = content[f] /\ mtime'[f] = mtime[f]
  PROVE  Undisturbed(t)'
  <1>1. ReadNow(t)' = ReadNow(t) /\ OptionalPresence(t)' = OptionalPresence(t)
    BY CleanFrame
  <1>2. Active(t)' <=> Active(t)
    BY DEF Active
  <1>3. \A f \in Deps(t) \cup Outputs[t] : Exists(f)' <=> Exists(f)
    BY DEF Exists
  <1>4. \A o \in written[t] :
          o \in Outputs[t] /\ content'[o] = Built(t, o, reads[t])
    BY DEF Undisturbed
  <1>5. stage[t] = "ordered" =>
          \A o \in Outputs[t] :
            /\ o \in written[t] /\ Exists(o)'
            /\ \A f \in Deps(t) : Exists(f)' => mtime'[f] < mtime'[o]
    BY <1>3 DEF Undisturbed
  <1>6. Active(t) => marker[t] = NoMarker /\ present[t] = OptionalPresence(t)
    BY DEF Undisturbed
  <1>7. /\ stage[t] \in {"writing", "ordered"} => reads[t] = ReadNow(t)
        /\ stage[t] \in {"off", "reading"} => written[t] = {}
    BY DEF Undisturbed
  <1> QED BY <1>1, <1>2, <1>4, <1>5, <1>6, <1>7 DEF Undisturbed, Built, Deps

\* A task that has left, or was never there.
LEMMA UndisturbedOff ==
  ASSUME NEW t \in Task, stage'[t] = "off", written'[t] = {}
  PROVE  Undisturbed(t)'
  BY DEF Undisturbed, Active

LEMMA LeftIsOff ==
  ASSUME TypeOK, NEW v \in Task, Leave(v)
  PROVE  /\ stage'[v] = "off" /\ written'[v] = {}
         /\ \A t \in Task \ {v} :
              /\ stage'[t] = stage[t] /\ present'[t] = present[t]
              /\ reads'[t] = reads[t] /\ written'[t] = written[t]
  BY DEF TypeOK, FrameOK, Leave

\* Beside what a sound task does at work, nobody acts.
LEMMA BesideIsOff ==
  ASSUME BesideWorkers, NEW t \in Task, Sound(t)'
  PROVE  stage[t] = "off" /\ ~Busy(t)
  <1>1. t \in Closure(t) /\ Closure(t)' = Closure(t)
    BY ClosureIs DEF Closure, Closures, ClosedUp, Upstream, Deps
  <1> QED BY <1>1 DEF Sound, BesideWorkers, Busy, Active

LEMMA WorkStays ==
  ASSUME Safe, [Next]_vars
  PROVE  WorkIsUndisturbed'
  <1>0. /\ TypeOK /\ TimesAreNear /\ WorkIsUndisturbed /\ Isolation
        /\ FuturesAreOfTheBatch /\ OrphansAreSuspect
    BY DEF Safe
  <1>1. FilesOK /\ FrameOK
    BY <1>0 DEF TypeOK
  <1> SUFFICES ASSUME NEW t \in Task, Sound(t)' PROVE Undisturbed(t)'
    BY DEF WorkIsUndisturbed
  <1>2. Sound(t) /\ Undisturbed(t)
    BY <1>0, SoundBefore DEF WorkIsUndisturbed
  <1>3. ASSUME UNCHANGED files, UNCHANGED frame PROVE Undisturbed(t)'
    BY <1>2, <1>3, UndisturbedFrame DEF files, frame
  <1>4. ASSUME NEW v \in Task, Leave(v),
               UNCHANGED <<content, mtime>>, t # v => marker'[t] = marker[t]
        PROVE  Undisturbed(t)'
    <2>1. CASE t = v
      BY <1>0, <1>4, <2>1, LeftIsOff, UndisturbedOff
    <2>2. CASE t # v
      BY <1>0, <1>2, <1>4, <2>2, LeftIsOff, UndisturbedFrame
    <2> QED BY <2>1, <2>2
  <1>5. ASSUME NEW f \in File, Touches(f) PROVE Undisturbed(t)'
    <2>1. BesideWorkers /\ UNCHANGED frame
      BY <1>5 DEF Touches, UserTouches
    <2>2. stage[t] = "off" /\ written[t] = {}
      BY <2>1, <1>2, BesideIsOff DEF Undisturbed
    <2> QED BY <2>1, <2>2, UndisturbedOff DEF frame
  <1>6. CASE Crash
    <2>1. CASE UNCHANGED frame
      BY <2>1, <1>3, <1>6 DEF Crash
    <2>2. CASE ~UNCHANGED frame
      BY <2>2, <1>6, UndisturbedOff, AllOffShape DEF Crash
    <2> QED BY <2>1, <2>2
  <1>7. ASSUME NEW v \in Task, Begin(v) PROVE Undisturbed(t)'
    <2>1. /\ UNCHANGED <<content, mtime, reads, written>>
          /\ marker' = [marker EXCEPT ![v] = NoMarker]
          /\ \/ UNCHANGED frame
             \/ /\ stage' = [stage EXCEPT ![v] = "reading"]
                /\ present' = [present EXCEPT ![v] = OptionalPresence(v)]
      BY <1>7 DEF Begin, frame
    <2>2. CASE t # v
      <3>1. /\ marker'[t] = marker[t] /\ stage'[t] = stage[t]
            /\ present'[t] = present[t]
        BY <2>1, <2>2, <1>1 DEF FilesOK, FrameOK, frame
      <3> QED BY <3>1, <2>1, <1>2, UndisturbedFrame
    <2>3. CASE t = v
      <3>1. stage[t] = "off" /\ written'[t] = {}
        BY <1>0, <1>2, <1>7, <2>1, <2>3
           DEF Begin, FuturesAreOfTheBatch, Active, Undisturbed
      <3>2. CASE UNCHANGED frame
        BY <3>1, <3>2, UndisturbedOff DEF frame
      <3>3. CASE ~UNCHANGED frame
        <4>1. stage'[t] = "reading" /\ present'[t] = OptionalPresence(t)
              /\ marker'[t] = NoMarker
          BY <2>1, <2>3, <3>3, <1>1 DEF FilesOK, FrameOK
        <4>2. OptionalPresence(t)' = OptionalPresence(t)
          BY <2>1 DEF OptionalPresence, Exists
        <4> QED BY <4>1, <4>2, <3>1 DEF Undisturbed, Active
      <3> QED BY <3>2, <3>3
    <2> QED BY <2>2, <2>3
  <1>8. ASSUME NEW v \in Task, Read(v) PROVE Undisturbed(t)'
    <2>1. /\ UNCHANGED <<files, present, written>> /\ stage[v] = "reading"
          /\ stage' = [stage EXCEPT ![v] = "writing"]
          /\ reads' = [reads EXCEPT ![v] = ReadNow(v)]
      BY <1>8 DEF Read
    <2>2. CASE t # v
      <3>1. stage'[t] = stage[t] /\ reads'[t] = reads[t]
        BY <2>1, <2>2, <1>1 DEF FrameOK
      <3> QED BY <3>1, <2>1, <1>2, UndisturbedFrame DEF files
    <2>3. CASE t = v
      <3>1. stage'[t] = "writing" /\ reads'[t] = ReadNow(t)
        BY <2>1, <2>3, <1>1 DEF FrameOK
      <3>2. ReadNow(t)' = ReadNow(t) /\ OptionalPresence(t)' = OptionalPresence(t)
        BY <2>1, FilesFrame
      <3>3. /\ marker[t] = NoMarker /\ present[t] = OptionalPresence(t)
            /\ written[t] = {}
        BY <1>2, <2>1, <2>3 DEF Undisturbed, Active
      <3> QED BY <3>1, <3>2, <3>3, <2>1 DEF Undisturbed, files
    <2> QED BY <2>2, <2>3
  \* A task that writes touches no other task's inputs or outputs.
  <1>9. ASSUME NEW v \in Task, Writes(v), t # v,
               stage'[t] = stage[t], present' = present, reads' = reads,
               written'[t] = written[t]
        PROVE  Undisturbed(t)'
    <2>1. CASE stage[t] = "off"
      BY <2>1, <1>2, <1>9, UndisturbedOff DEF Undisturbed
    <2>2. CASE stage[t] # "off"
      <3>1. Outputs[v] \cap Deps(t) = {} /\ Outputs[v] \cap Outputs[t] = {}
        BY <2>2, <1>0, <1>9, NoneOverlap, GraphShape DEF Active, Writes
      <3>2. \A f \in Deps(t) \cup Outputs[t] :
              content'[f] = content[f] /\ mtime'[f] = mtime[f]
        BY <3>1, <1>9, GraphShape DEF Writes
      <3> QED BY <3>2, <1>2, <1>9, UndisturbedFrame DEF Writes
    <2> QED BY <2>1, <2>2
  <1>10. ASSUME NEW v \in Task, NEW o \in Outputs[v], Write(v, o)
         PROVE  Undisturbed(t)'
    <2>0. Writes(v)
      BY <1>0, <1>10, WriteShape
    <2>1. /\ stage[v] = "writing" /\ o \notin written[v]
          /\ UNCHANGED <<marker, stage, reads, present>>
          /\ \/ content' = [content EXCEPT ![o] = Torn] /\ written' = written
             \/ /\ content' = [content EXCEPT ![o] = Built(v, o, reads[v])]
                /\ written' = [written EXCEPT ![v] = @ \cup {o}]
      BY <1>10 DEF Write
    <2>2. CASE t # v
      <3>1. written'[t] = written[t]
        BY <2>1, <2>2, <1>1 DEF FrameOK
      <3> QED BY <3>1, <2>0, <2>1, <2>2, <1>9
    <2>3. CASE t = v
      <3>1. \A f \in Deps(t) : content'[f] = content[f] /\ mtime'[f] = mtime[f]
        BY <2>0, <2>3, GraphShape DEF Writes
      <3>2. ReadNow(t)' = ReadNow(t) /\ OptionalPresence(t)' = OptionalPresence(t)
        BY <3>1, GraphShape DEF ReadNow, OptionalPresence, Exists, Deps
      <3>3. /\ marker[t] = NoMarker /\ present[t] = OptionalPresence(t)
            /\ reads[t] = ReadNow(t)
            /\ \A w \in written[t] :
                 w \in Outputs[t] /\ content[w] = Built(t, w, reads[t])
        BY <1>2, <2>1, <2>3 DEF Undisturbed, Active
      <3>4. ASSUME NEW w \in written'[t]
            PROVE  w \in Outputs[t] /\ content'[w] = Built(t, w, reads[t])
        <4>1. o \in File /\ w \in File
          BY <1>1, <1>10, GraphShape, <3>4, TypesStay, <1>0 DEF TypeOK, FrameOK
        <4>2. CASE w \in written[t]
          BY <4>1, <4>2, <3>3, <2>1, <2>3, <1>1 DEF FilesOK
        <4>3. CASE w \notin written[t]
          <5>1. w = o /\ content' = [content EXCEPT ![o] = Built(v, o, reads[v])]
            BY <4>3, <3>4, <2>1, <2>3, <1>1 DEF FrameOK
          <5> QED BY <5>1, <4>1, <2>3, <1>1, <1>10 DEF FilesOK
        <4> QED BY <4>2, <4>3
      <3> QED BY <2>1, <2>3, <3>2, <3>3, <3>4 DEF Undisturbed, Active, Built, Deps
    <2> QED BY <2>2, <2>3
  <1>11. ASSUME NEW v \in Task, Orders(v) PROVE Undisturbed(t)'
    <2>0. Writes(v)
      BY <1>0, <1>11, WriteShape
    <2>1. /\ stage[v] = "writing" /\ stage' = [stage EXCEPT ![v] = "ordered"]
          /\ \A o \in Outputs[v] : o \in written[v] /\ Exists(o)
          /\ \A o \in Outputs[v] :
               \A f \in Deps(v) : Exists(f) => mtime[f] < mtime'[o]
          /\ UNCHANGED <<content, marker, reads, present, written>>
      BY <1>11 DEF Orders
    <2>2. CASE t # v
      <3>1. stage'[t] = stage[t]
        BY <2>1, <2>2, <1>1 DEF FrameOK
      <3> QED BY <3>1, <2>0, <2>1, <2>2, <1>9
    <2>3. CASE t = v
      <3>1. \A f \in Deps(t) : mtime'[f] = mtime[f]
        BY <2>0, <2>3, GraphShape DEF Writes
      <3>2. /\ ReadNow(t)' = ReadNow(t) /\ OptionalPresence(t)' = OptionalPresence(t)
            /\ \A f : Exists(f)' <=> Exists(f)
        BY <2>1 DEF ReadNow, OptionalPresence, Exists
      <3>3. stage'[t] = "ordered"
        BY <2>1, <2>3, <1>1 DEF FrameOK
      <3>4. /\ marker[t] = NoMarker /\ present[t] = OptionalPresence(t)
            /\ reads[t] = ReadNow(t)
            /\ \A w \in written[t] :
                 w \in Outputs[t] /\ content[w] = Built(t, w, reads[t])
        BY <1>2, <2>1, <2>3 DEF Undisturbed, Active
      <3>5. \A o \in Outputs[t] :
              /\ o \in written[t] /\ Exists(o)'
              /\ \A f \in Deps(t) : Exists(f)' => mtime'[f] < mtime'[o]
        BY <2>1, <2>3, <3>1, <3>2
      <3> QED BY <2>1, <3>2, <3>3, <3>4, <3>5 DEF Undisturbed, Active, Built, Deps
    <2> QED BY <2>2, <2>3
  <1>12. ASSUME NEW v \in Task, Publish(v) PROVE Undisturbed(t)'
    <2>1. t # v => marker'[t] = marker[t]
      BY <1>12, <1>1 DEF Publish, FilesOK
    <2> QED BY <1>4, <1>12, <2>1 DEF Publish, Stops
  <1>13. ASSUME NEW v \in Task, WorkerDies(v) \/ Killed(v) \/ Fails(v)
         PROVE  Undisturbed(t)'
    BY <1>4, <1>13 DEF WorkerDies, Killed, Fails, Stops, files
  <1>14. CASE \/ Advance \/ Cancel \/ Terminate \/ Ends
              \/ BatchGoesOn \/ UNCHANGED vars
    BY <1>3, <1>14 DEF Advance, Cancel, Terminate, Ends, EndRun, Ending,
                       BatchGoesOn, vars
  <1>15. ASSUME NEW v \in Task, NEW force \in BOOLEAN, Plan(v, force)
         PROVE  Undisturbed(t)'
    BY <1>15, UndisturbedOff, AllOffShape DEF Plan
  <1>16. ASSUME NEW v \in Task,
                RunInline(v) \/ InlineGoesOn(v) \/ RunBatch(v) \/ Collect(v)
         PROVE  Undisturbed(t)'
    BY <1>3, <1>16 DEF RunInline, InlineGoesOn, RunBatch, Collect
  <1>17. ASSUME NEW v \in Task, OrphanStep(v) PROVE Undisturbed(t)'
    BY <1>0, <1>2, <1>17, OrphanShape, UndisturbedFrame DEF frame
  <1> QED BY <1>0, NextCases, <1>5, <1>6, <1>7, <1>8, <1>10, <1>11, <1>12, <1>13,
             <1>14, <1>15, <1>16, <1>17

-----------------------------------------------------------------------------
(* The order of the run.                                                   *)

LEMMA RunFields ==
  ASSUME TypeOK
  PROVE  /\ run \in Run /\ run.executed \subseteq Task /\ run.batch \subseteq Task
         /\ run.done \subseteq Task /\ run.toRun \subseteq Task
         /\ run.closure \subseteq Task /\ Pending \subseteq Task
         /\ NoRun.toRun = {} /\ NoRun.executed = {} /\ NoRun.batch = {}
         /\ NoRun.done = {} /\ NoRun.closure = {} /\ NoRun.pc = "idle"
  BY DEF TypeOK, RunOK, Run, NoRun, Pending

\* What each step of the runner does to the run.
LEMMA RunShape ==
  ASSUME TypeOK, [Next]_vars, RunIsOrdered, Isolation
  PROVE  \/ UNCHANGED run
         \/ /\ run'.pc = "idle" /\ run'.toRun = {} /\ run'.executed = {}
            /\ run'.batch = {} /\ run'.done = {} /\ run'.closure = {}
         \/ \E target \in Task, force \in BOOLEAN :
              /\ Plan(target, force) /\ ~MissingSource(Closure(target))
              /\ run'.pc = "loop" /\ run'.closure = Closure(target)
              /\ run'.toRun = StaleIn(Closure(target), force)
              /\ run'.executed = {} /\ run'.batch = {} /\ run'.done = {}
         \/ /\ run'.closure = run.closure /\ run'.toRun = run.toRun /\ run.pc # "idle"
            /\ \/ \E t \in Task :
                    /\ RunInline(t) /\ run.pc = "loop" /\ run'.pc = "inline"
                    /\ run'.batch = {t} /\ run'.done = run.done
                    /\ run'.executed = run.executed /\ t \in Pending /\ Ready(t)
               \/ \E t \in Task :
                    /\ InlineGoesOn(t) /\ run.batch = {t} /\ run'.pc = "loop"
                    /\ run'.batch = {} /\ run'.done = run.done
                    /\ run'.executed = run.executed \cup {t}
               \/ \E t \in Task :
                    /\ RunBatch(t) /\ run.pc = "loop" /\ run'.pc = "batch"
                    /\ run'.batch = BatchOf(t) /\ run'.done = run.done
                    /\ run'.executed = run.executed
               \/ \E t \in Task :
                    /\ Collect(t) /\ run.pc = "batch" /\ run'.pc = "batch"
                    /\ run'.done \in {run.done, run.done \cup {t}}
                    /\ run'.executed = run.executed /\ run'.batch = run.batch
               \/ /\ BatchGoesOn /\ run'.pc = "loop" /\ run'.done = {}
                  /\ run'.executed = run.executed \cup run.batch /\ run'.batch = {}
               \/ /\ Terminate /\ run'.pc = "terminating" /\ run'.done = run.done
                  /\ run'.executed = run.executed /\ run'.batch = run.batch
  <1>0. run \in Run
    BY RunFields
  <1>1. CASE \/ Advance \/ Cancel \/ UNCHANGED vars
             \/ \E f \in File : Touches(f)
             \/ \E t \in Task : \/ WorkerDies(t) \/ Killed(t) \/ Begin(t) \/ Read(t)
                                \/ Fails(t) \/ Orders(t) \/ Publish(t)
                                \/ (\E o \in Outputs[t] : Write(t, o)) \/ OrphanStep(t)
    BY <1>1 DEF Advance, Cancel, vars, Touches, UserTouches, WorkerDies, Killed,
                Begin, Read, Fails, Stops, Orders, Publish, Write, OrphanStep
  <1>2. CASE Crash \/ Ends
    <2>1. run' = NoRun \/ run' = [NoRun EXCEPT !.jobs = run.jobs]
      BY <1>2 DEF Crash, Ends, EndRun, Ending
    <2> QED BY <2>1 DEF NoRun
  <1>3. ASSUME NEW target \in Task, NEW force \in BOOLEAN, Plan(target, force)
        PROVE  \/ run' = NoRun
               \/ /\ ~MissingSource(Closure(target))
                  /\ run'.pc = "loop" /\ run'.closure = Closure(target)
                  /\ run'.toRun = StaleIn(Closure(target), force)
                  /\ run'.executed = {} /\ run'.batch = {} /\ run'.done = {}
    <2> SUFFICES ASSUME run' # NoRun
                 PROVE  /\ ~MissingSource(Closure(target))
                        /\ run'.pc = "loop" /\ run'.closure = Closure(target)
                        /\ run'.toRun = StaleIn(Closure(target), force)
                        /\ run'.executed = {} /\ run'.batch = {} /\ run'.done = {}
      OBVIOUS
    <2>1. /\ ~MissingSource(Closure(target))
          /\ \E pp \in TopoOrders, j \in Jobs :
               run' = [NoRun EXCEPT !.pc = "loop", !.jobs = j,
                         !.closure = Closure(target),
                         !.toRun = StaleIn(Closure(target), force), !.pos = pp]
      BY <1>3 DEF Plan
    <2> QED BY <2>1 DEF NoRun
  <1>4. ASSUME NEW t \in Task, RunInline(t)
        PROVE  /\ run'.closure = run.closure /\ run'.toRun = run.toRun
               /\ run.pc = "loop" /\ run'.pc = "inline"
               /\ run'.batch = {t} /\ run'.done = run.done
               /\ run'.executed = run.executed /\ t \in Pending /\ Ready(t)
    <2>1. t \in Pending /\ Ready(t)
      BY <1>4, HeadsAreReady DEF RunInline, HeadIsReady, IsHead
    <2> QED BY <1>0, <1>4, <2>1 DEF RunInline, Run
  <1>5. ASSUME NEW t \in Task, InlineGoesOn(t)
        PROVE  /\ run'.closure = run.closure /\ run'.toRun = run.toRun
               /\ run.pc # "idle" /\ run.batch = {t} /\ run'.pc = "loop"
               /\ run'.batch = {} /\ run'.done = run.done
               /\ run'.executed = run.executed \cup {t}
    <2>1. run.batch = {t}
      BY <1>5 DEF InlineGoesOn, Isolation
    <2> QED BY <1>0, <1>5, <2>1 DEF InlineGoesOn, Run
  <1>6. ASSUME NEW t \in Task, RunBatch(t)
        PROVE  /\ run'.closure = run.closure /\ run'.toRun = run.toRun
               /\ run.pc = "loop" /\ run'.pc = "batch"
               /\ run'.batch = BatchOf(t) /\ run'.done = run.done
               /\ run'.executed = run.executed
    BY <1>0, <1>6 DEF RunBatch, Run
  <1>7. ASSUME NEW t \in Task, Collect(t)
        PROVE  /\ run'.closure = run.closure /\ run'.toRun = run.toRun
               /\ run.pc = "batch" /\ run'.pc = "batch"
               /\ run'.done \in {run.done, run.done \cup {t}}
               /\ run'.executed = run.executed /\ run'.batch = run.batch
    BY <1>0, <1>7 DEF Collect, Run
  <1>8. ASSUME BatchGoesOn
        PROVE  /\ run'.closure = run.closure /\ run'.toRun = run.toRun
               /\ run.pc # "idle" /\ run'.pc = "loop" /\ run'.done = {}
               /\ run'.executed = run.executed \cup run.batch /\ run'.batch = {}
    BY <1>0, <1>8 DEF BatchGoesOn, Run
  <1>9. ASSUME Terminate
        PROVE  /\ run'.closure = run.closure /\ run'.toRun = run.toRun
               /\ run.pc # "idle" /\ run'.pc = "terminating" /\ run'.done = run.done
               /\ run'.executed = run.executed /\ run'.batch = run.batch
    BY <1>0, <1>9 DEF Terminate, Run
  <1>10. CASE \E target \in Task, force \in BOOLEAN : Plan(target, force)
    <2>1. PICK target \in Task, force \in BOOLEAN : Plan(target, force)
      BY <1>10
    <2>2. CASE run' = NoRun
      BY <2>2 DEF NoRun
    <2> QED BY <2>1, <2>2, <1>3
  <1>11. CASE \E t \in Task : RunInline(t)
    BY <1>11, <1>4
  <1>12. CASE \E t \in Task : InlineGoesOn(t)
    BY <1>12, <1>5
  <1>13. CASE \E t \in Task : RunBatch(t)
    BY <1>13, <1>6
  <1>14. CASE \E t \in Task : Collect(t)
    BY <1>14, <1>7
  <1> QED BY NextCases, <1>1, <1>2, <1>8, <1>9, <1>10, <1>11, <1>12, <1>13, <1>14

LEMMA OrderStays ==
  ASSUME Safe, [Next]_vars
  PROVE  RunIsOrdered'
  <1>0. /\ TypeOK /\ RunIsOrdered /\ Isolation /\ WorkIsUndisturbed
        /\ FuturesAreOfTheBatch
    BY DEF Safe
  <1>1. \A t : Upstream(t)' = Upstream(t)
    BY DEF Upstream, Deps
  <1>2. CASE UNCHANGED run
    BY <1>0, <1>1, <1>2 DEF RunIsOrdered
  <1>3. CASE /\ run'.pc = "idle" /\ run'.toRun = {} /\ run'.executed = {}
             /\ run'.batch = {} /\ run'.done = {} /\ run'.closure = {}
    BY <1>3 DEF RunIsOrdered
  <1>4. ASSUME NEW target \in Task, NEW force \in BOOLEAN,
               run'.pc = "loop", run'.closure = Closure(target),
               run'.toRun = StaleIn(Closure(target), force),
               run'.executed = {}, run'.batch = {}, run'.done = {}
        PROVE  RunIsOrdered'
    <2>1. Closure(target) \in SUBSET Task
      BY ClosureIs
    <2>2. StaleIn(Closure(target), force) \subseteq Closure(target)
      BY DEF StaleIn
    <2>3. \A t \in Closure(target) \ StaleIn(Closure(target), force) :
            Upstream(t) \cap StaleIn(Closure(target), force) = {}
      BY <2>1, NotStale
    <2> QED BY <1>1, <1>4, <2>2, <2>3 DEF RunIsOrdered
  <1> DEFINE Same == run'.closure = run.closure /\ run'.toRun = run.toRun
  <1>5. ASSUME NEW t \in Task, Same, run.pc = "loop", run'.pc = "inline",
               run'.batch = {t}, run'.done = run.done, run'.executed = run.executed,
               t \in Pending, Ready(t)
        PROVE  RunIsOrdered'
    <2>1. run.done = {} /\ t \in run.toRun \ run.executed
      BY <1>0, <1>5 DEF RunIsOrdered, Pending
    <2>2. Upstream(t) \cap run.toRun \subseteq run.executed
      BY <1>5 DEF Ready
    <2> QED BY <1>0, <1>1, <1>5, <2>1, <2>2 DEF RunIsOrdered
  <1>6. ASSUME NEW t \in Task, Same, InlineGoesOn(t), run.batch = {t},
               run'.pc = "loop", run'.batch = {}, run'.done = run.done,
               run'.executed = run.executed \cup {t}
        PROVE  RunIsOrdered'
    <2>1. run.done = {}
      BY <1>0, <1>6 DEF RunIsOrdered, InlineGoesOn
    <2> QED BY <1>0, <1>1, <1>6, <2>1 DEF RunIsOrdered
  <1>7. ASSUME NEW t \in Task, Same, run.pc = "loop", run'.pc = "batch",
               run'.batch = BatchOf(t), run'.done = run.done,
               run'.executed = run.executed
        PROVE  RunIsOrdered'
    <2>1. /\ BatchOf(t) \subseteq run.toRun \ run.executed /\ run.done = {}
          /\ \A u \in BatchOf(t) : Upstream(u) \cap run.toRun \subseteq run.executed
      BY <1>0, <1>7 DEF RunIsOrdered, BatchOf, Pending, Ready
    <2> QED BY <1>0, <1>1, <1>7, <2>1 DEF RunIsOrdered
  <1>8. ASSUME NEW t \in Task, Same, Collect(t), run.pc = "batch", run'.pc = "batch",
               run'.done \in {run.done, run.done \cup {t}},
               run'.executed = run.executed, run'.batch = run.batch
        PROVE  RunIsOrdered'
    <2>1. t \in run.batch
      BY <1>0, <1>8 DEF Collect, FuturesAreOfTheBatch
    <2> QED BY <1>0, <1>1, <1>8, <2>1 DEF RunIsOrdered
  <1>9. ASSUME Same, run'.pc = "loop", run'.done = {},
               run'.executed = run.executed \cup run.batch, run'.batch = {}
        PROVE  RunIsOrdered'
    BY <1>0, <1>1, <1>9 DEF RunIsOrdered
  <1>10. ASSUME Same, run'.pc = "terminating", run'.done = run.done,
                run'.executed = run.executed, run'.batch = run.batch
         PROVE  RunIsOrdered'
    BY <1>0, <1>1, <1>10 DEF RunIsOrdered
  <1> QED BY <1>0, RunShape, <1>2, <1>3, <1>4, <1>5, <1>6, <1>7, <1>8, <1>9, <1>10

\* Whether a task may still write is settled by the run and by its own steps.
LEMMA AheadShrinks ==
  ASSUME Safe, [Next]_vars, NEW u \in Task, Ahead(u)'
  PROVE  \/ Ahead(u)
         \/ \E target \in Task, force \in BOOLEAN : Plan(target, force)
  <1>0. /\ TypeOK /\ RunIsOrdered /\ Isolation /\ WorkIsUndisturbed
        /\ FuturesAreOfTheBatch /\ FrameOK /\ RunOK
    BY DEF Safe, TypeOK
  <1>1. \/ u \in Pending \ run.batch
        \/ ~(u \in (Pending \ run.batch)')
        \/ \E target \in Task, force \in BOOLEAN : Plan(target, force)
    BY <1>0, RunShape DEF Pending, RunIsOrdered
  <1>2. CASE \/ Advance \/ Cancel \/ Terminate \/ UNCHANGED vars
             \/ Ends \/ BatchGoesOn \/ Crash
             \/ (\E f \in File : Touches(f)) \/ \E v \in Task : OrphanStep(v)
    BY <1>1, <1>2, AllOffShape DEF Advance, Cancel, Terminate, vars, Ends, EndRun,
             Ending, frame, BatchGoesOn, Crash, Touches, UserTouches, Ahead, OrphanStep
  <1>3. ASSUME NEW t \in Task,
               \/ InlineGoesOn(t) \/ Collect(t) \/ WorkerDies(t)
               \/ Killed(t) \/ Begin(t) \/ Read(t) \/ Fails(t) \/ Orders(t)
               \/ Publish(t) \/ \E o \in Outputs[t] : Write(t, o)
        PROVE  (future'[u] = "queued" \/ stage'[u] \in {"reading", "writing"})
               => future[u] = "queued" \/ stage[u] \in {"reading", "writing"}
    BY <1>0, <1>3 DEF InlineGoesOn, Collect, WorkerDies, Killed, Begin, Read, Fails,
                      Orders, Publish, Write, Stops, Leave, FrameOK, RunOK, frame,
                      InFlight
  <1>4. ASSUME NEW t \in Task, RunInline(t) \/ RunBatch(t)
        PROVE  Ahead(u)
    <2>1. run.batch = {}
      BY <1>0, <1>4 DEF RunIsOrdered, RunInline, RunBatch
    <2>2. t \in Pending /\ BatchOf(t) \subseteq Pending
      BY <1>4 DEF RunInline, RunBatch, IsHead, BatchOf
    <2>3. UNCHANGED frame /\ (future'[u] = "queued" => u \in {t} \cup BatchOf(t)
                              \/ future[u] = "queued")
      BY <1>0, <1>4 DEF RunInline, RunBatch, RunOK
    <2>4. u \in (Pending \ run.batch)' => u \in Pending
      BY <1>0, <1>4, RunFields DEF RunInline, RunBatch, Pending, Run
    <2> QED BY <2>1, <2>2, <2>3, <2>4 DEF Ahead, frame
  <1> QED BY <1>0, NextCases, <1>1, <1>2, <1>3, <1>4 DEF Ahead

LEMMA AheadStays ==
  ASSUME Safe, [Next]_vars
  PROVE  NothingIsAhead'
  <1>0. /\ TypeOK /\ RunIsOrdered /\ Isolation /\ WorkIsUndisturbed
        /\ FuturesAreOfTheBatch /\ FilesOK /\ TimesAreNear /\ NothingIsAhead
        /\ OrphansAreSuspect
    BY DEF Safe, TypeOK
  <1>1. mtime \in [File -> Nat] /\ now \in Nat
    BY <1>0 DEF FilesOK
  <1> SUFFICES ASSUME NEW u \in Task, NEW t \in Task, Ahead(u)', u \in Upstream(t),
                      Sound(t)', NEW o \in Outputs[t]
               PROVE  mtime'[o] <= now'
    BY DEF NothingIsAhead, Upstream, Deps
  <1>11. Sound(t)
    BY SoundBefore
  <1>2. o \in File
    BY GraphShape
  <1>3. ASSUME NEW target \in Task, NEW force \in BOOLEAN, Plan(target, force)
        PROVE  mtime'[o] <= now'
    <2>1. ClockStep /\ mtime' = mtime
      BY <1>3 DEF Plan, files
    <2>2. mtime[o] < now' /\ now' \in Nat
      BY <2>1, <1>0, <1>2, FilesAreOlder
    <2>3. mtime[o] \in Nat
      BY <1>1, <1>2
    <2> QED BY <2>1, <2>2, <2>3
  <1>4. ASSUME NEW f \in File, Touches(f) PROVE mtime'[o] <= now'
    <2>1. PICK c : UserTouches(f, c)
      BY <1>4 DEF Touches
    <2>2. mtime[o] < now' /\ now' \in Nat /\ ClockStep
      BY <2>1, <1>0, <1>2, FilesAreOlder DEF UserTouches
    <2>3. mtime'[o] \in {mtime[o], 0, now'}
      BY <2>1, <1>1, <1>2 DEF UserTouches
    <2> QED BY <2>2, <2>3, <1>1, <1>2
  <1> USE TickAssumption
  <1>5. ASSUME ~\E target \in Task, force \in BOOLEAN : Plan(target, force)
        PROVE  mtime[o] <= now /\ Ahead(u)
    BY <1>5, <1>0, <1>11, AheadShrinks DEF NothingIsAhead
  <1>6. ASSUME UNCHANGED mtime, now' = now \/ now' = now + Tick,
               ~\E target \in Task, force \in BOOLEAN : Plan(target, force)
        PROVE  mtime'[o] <= now'
    <2>1. mtime[o] \in Nat
      BY <1>1, <1>2
    <2> QED BY <1>1, <1>5, <1>6, <2>1
  <1>7. ASSUME NEW v \in Task, NEW w \in Outputs[v], Write(v, w),
               ~\E target \in Task, force \in BOOLEAN : Plan(target, force)
        PROVE  mtime'[o] <= now'
    BY <1>1, <1>2, <1>5, <1>7 DEF Write
  <1>8. ASSUME NEW v \in Task, Orders(v),
               ~\E target \in Task, force \in BOOLEAN : Plan(target, force)
        PROVE  mtime'[o] <= now'
    <2>1. CASE o \notin Outputs[v]
      BY <2>1, <1>2, <1>5, <1>8 DEF Orders
    <2>2. CASE o \in Outputs[v]
      <3>1. t = v
        BY <2>2, GraphShape
      <3>2. Active(v) /\ Busy(v)
        BY <1>8 DEF Orders, Active, Busy
      <3>3. ~Busy(u)
        BY <1>0, <3>1, <3>2 DEF Isolation
      <3>4. stage'[u] # "ordered" => stage'[u] = stage[u]
        BY <1>0, <1>8 DEF Orders, TypeOK, FrameOK
      <3>5. u \in Pending \ run.batch
        BY <3>3, <3>4, <1>8 DEF Orders, Ahead, Busy, Active, InFlight, Pending
      <3>6. run.pc # "idle"
        BY <3>5, <1>0 DEF RunIsOrdered, Pending
      <3>7. v \in run.batch
        BY <3>2, <3>6, <1>0 DEF FuturesAreOfTheBatch
      <3> QED BY <3>1, <3>5, <3>7, <1>0 DEF RunIsOrdered, Pending
    <2> QED BY <2>1, <2>2
  <1>9. CASE \/ Advance \/ Cancel \/ Terminate \/ Crash \/ Ends
             \/ BatchGoesOn \/ UNCHANGED vars
    BY <1>3, <1>6, <1>9 DEF Advance, ClockStep, Cancel, Terminate, Crash, Ends, EndRun,
                      Ending, BatchGoesOn, vars, files
  <1>10. ASSUME NEW v \in Task,
               \/ RunInline(v) \/ InlineGoesOn(v) \/ RunBatch(v) \/ Collect(v)
               \/ WorkerDies(v) \/ Killed(v) \/ Begin(v) \/ Read(v) \/ Fails(v)
               \/ Publish(v)
        PROVE  mtime'[o] <= now'
    BY <1>3, <1>6, <1>10 DEF RunInline, InlineGoesOn, RunBatch, Collect, WorkerDies,
                      Killed, Begin, Read, Fails, Stops, Publish, files
  <1>12. ASSUME NEW v \in Task, OrphanStep(v),
                ~\E target \in Task, force \in BOOLEAN : Plan(target, force)
         PROVE  mtime'[o] <= now'
    <2>1. mtime'[o] = mtime[o] /\ now' = now
      BY <1>0, <1>11, <1>12, OrphanShape
    <2> QED BY <1>5, <1>12, <2>1
  <1> QED BY <1>0, NextCases, <1>3, <1>4, <1>7, <1>8, <1>9, <1>10, <1>12

\* Futures and frames only change by the steps of their task, or all at once.
LEMMA FutureSteps ==
  ASSUME Safe, [Next]_vars,
         ~\E target \in Task, force \in BOOLEAN : Plan(target, force),
         ~Crash, ~Ends, ~\E t \in Task : RunInline(t) \/ RunBatch(t)
  PROVE  \A u \in Task :
           /\ Active(u)' => Active(u) \/ future[u] = "queued"
           /\ future'[u] = "queued" => future[u] = "queued"
           /\ future'[u] = "queued" => stage'[u] = stage[u]
           /\ future'[u] = "ok" => future[u] = "ok" \/ Publish(u)
           /\ future[u] = "none" => future'[u] = "none"
           /\ future'[u] = "none" /\ future[u] # "none" =>
                \/ InlineGoesOn(u) \/ Collect(u)
                \/ InFlight(u) /\ run.pc \in {"idle", "terminating"}
           /\ Active(u)' /\ ~Active(u) => future'[u] = "running"
  <1>0. /\ TypeOK /\ Isolation /\ WorkIsUndisturbed /\ FuturesAreOfTheBatch
        /\ FrameOK /\ RunOK
    BY DEF Safe, TypeOK
  <1> SUFFICES ASSUME NEW u \in Task
      PROVE  /\ Active(u)' => Active(u) \/ future[u] = "queued"
             /\ future'[u] = "queued" => future[u] = "queued"
             /\ future'[u] = "queued" => stage'[u] = stage[u]
             /\ future'[u] = "ok" => future[u] = "ok" \/ Publish(u)
             /\ future[u] = "none" => future'[u] = "none"
             /\ future'[u] = "none" /\ future[u] # "none" =>
                  \/ InlineGoesOn(u) \/ Collect(u)
                  \/ InFlight(u) /\ run.pc \in {"idle", "terminating"}
             /\ Active(u)' /\ ~Active(u) => future'[u] = "running"
    OBVIOUS
  <1>1. CASE \/ Advance \/ Cancel \/ Terminate \/ BatchGoesOn \/ UNCHANGED vars
             \/ (\E f \in File : Touches(f)) \/ \E v \in Task : OrphanStep(v)
    BY <1>1 DEF Advance, Cancel, Terminate, BatchGoesOn, vars, Touches, UserTouches,
                frame, Active, OrphanStep
  <1>2. ASSUME NEW v \in Task, InlineGoesOn(v) \/ Collect(v)
        PROVE  /\ UNCHANGED frame /\ future' = [future EXCEPT ![v] = "none"]
    BY <1>2 DEF InlineGoesOn, Collect
  <1>3. CASE \E v \in Task : InlineGoesOn(v) \/ Collect(v)
    BY <1>0, <1>2, <1>3 DEF RunOK, frame, Active
  <1>4. ASSUME NEW v \in Task,
               \/ Read(v) \/ Orders(v) \/ \E o \in Outputs[v] : Write(v, o)
        PROVE  /\ UNCHANGED future /\ Active(u)' = Active(u)
               /\ stage'[u] = stage[u] \/ Active(u)
    BY <1>0, <1>4 DEF Read, Orders, Write, FrameOK, Active
  <1>5. CASE \E v \in Task : \/ Read(v) \/ Orders(v)
                             \/ \E o \in Outputs[v] : Write(v, o)
    <2>1. UNCHANGED future /\ Active(u)' = Active(u)
          /\ (stage'[u] = stage[u] \/ Active(u))
      BY <1>4, <1>5
    <2> QED BY <2>1, <1>0 DEF FuturesAreOfTheBatch
  <1>6. ASSUME NEW v \in Task, Begin(v)
        PROVE  /\ future[v] = "queued" /\ future'[v] \in {"error", "running"}
               /\ u # v => future'[u] = future[u] /\ stage'[u] = stage[u]
               /\ future'[v] = "error" => stage'[v] = stage[v]
    BY <1>0, <1>6 DEF Begin, FrameOK, RunOK, frame
  <1>7. ASSUME NEW v \in Task, Begin(v)
        PROVE  /\ Active(u)' => Active(u) \/ future[u] = "queued"
               /\ future'[u] = "queued" => future[u] = "queued"
               /\ future'[u] = "queued" => stage'[u] = stage[u]
               /\ future'[u] = "ok" => future[u] = "ok"
               /\ future[u] = "none" => future'[u] = "none"
               /\ future'[u] = "none" => future[u] = "none"
               /\ Active(u)' /\ ~Active(u) => future'[u] = "running"
    <2>1. CASE u # v
      BY <1>6, <1>7, <2>1 DEF Active
    <2>2. CASE u = v
      BY <1>6, <1>7, <2>2 DEF Active
    <2> QED BY <2>1, <2>2
  <1>8. ASSUME NEW v \in Task, Publish(v) \/ Fails(v)
        PROVE  /\ stage'[u] # stage[u] => u = v /\ stage'[u] = "off"
               /\ u # v => future'[u] = future[u]
               /\ future[v] # "running" => future'[v] = future[v]
               /\ Fails(v) => future'[v] # "ok" \/ future[v] = "ok"
               /\ future[v] = "running" => future'[v] \in {"ok", "error"}
    BY <1>0, <1>8 DEF Publish, Fails, Stops, Leave, FrameOK, RunOK
  <1>9. ASSUME NEW v \in Task, Publish(v) \/ Fails(v)
         PROVE  /\ Active(u)' => Active(u)
                /\ future'[u] = "queued" => future[u] = "queued"
                /\ future'[u] = "queued" => stage'[u] = stage[u] \/ Active(u)
                /\ future'[u] = "ok" => future[u] = "ok" \/ Publish(u)
                /\ future[u] = "none" => future'[u] = "none"
                /\ future'[u] = "none" => future[u] = "none"
    <2>1. CASE u # v
      BY <1>8, <1>9, <2>1 DEF Active
    <2>2. CASE u = v
      BY <1>8, <1>9, <2>2 DEF Active, Publish
    <2> QED BY <2>1, <2>2
  <1>10. ASSUME NEW v \in Task, WorkerDies(v) \/ Killed(v)
         PROVE  /\ Active(u)' => Active(u)
                /\ stage'[u] = stage[u] \/ u = v
                /\ future'[u] = "queued" => future[u] = "queued"
                /\ future'[u] = "ok" => future[u] = "ok"
                /\ future[u] = "none" => future'[u] = "none"
    BY <1>0, <1>10 DEF WorkerDies, Killed, Leave, FrameOK, RunOK, Active, InFlight
  <1>11. ASSUME NEW v \in Task, WorkerDies(v)
         PROVE  /\ future'[u] = "none" => future[u] = "none"
                /\ future'[u] = "queued" => FALSE
    BY <1>0, <1>11 DEF WorkerDies, RunOK, InFlight
  <1>12. ASSUME NEW v \in Task, Killed(v)
         PROVE  /\ future'[u] = "none" /\ future[u] # "none" =>
                     InFlight(u) /\ run.pc \in {"idle", "terminating"}
                /\ future'[u] = "queued" => stage'[u] = stage[u]
    <2>1. /\ future' = [future EXCEPT ![v] = IF InFlight(v) THEN "none" ELSE @]
          /\ Leave(v)
          /\ \/ InFlight(v) /\ run.pc \in {"idle", "terminating"}
             \/ Active(v) /\ future[v] # "running"
      BY <1>12 DEF Killed
    <2>2. InFlight(v) => run.pc \in {"idle", "terminating"}
      BY <2>1, <1>0 DEF FuturesAreOfTheBatch, InFlight
    <2>3. u # v => stage'[u] = stage[u]
      BY <2>1, <1>0 DEF Leave, FrameOK
    <2>4. future'[v] # "queued"
      BY <2>1, <1>0 DEF RunOK, InFlight
    <2> QED BY <2>1, <2>2, <2>3, <2>4, <1>0 DEF RunOK
  <1>13. ASSUME NEW v \in Task, WorkerDies(v) \/ Killed(v)
         PROVE  /\ Active(u)' => Active(u)
                /\ future'[u] = "queued" => future[u] = "queued"
                /\ future'[u] = "queued" => stage'[u] = stage[u]
                /\ future'[u] = "ok" => future[u] = "ok"
                /\ future[u] = "none" => future'[u] = "none"
                /\ future'[u] = "none" /\ future[u] # "none" =>
                     InFlight(u) /\ run.pc \in {"idle", "terminating"}
    BY <1>10, <1>11, <1>12, <1>13
  <1>14. CASE \E v \in Task : Begin(v) \/ WorkerDies(v) \/ Killed(v)
    BY <1>7, <1>13, <1>14
  <1>15. CASE \E v \in Task : Publish(v) \/ Fails(v)
    BY <1>0, <1>9, <1>15 DEF FuturesAreOfTheBatch
  <1> QED BY <1>0, NextCases, <1>1, <1>3, <1>5, <1>14, <1>15

LEMMA FuturesStay ==
  ASSUME Safe, [Next]_vars
  PROVE  FuturesAreOfTheBatch'
  <1>0. /\ TypeOK /\ Isolation /\ WorkIsUndisturbed /\ FuturesAreOfTheBatch
        /\ FrameOK /\ RunOK /\ RunIsOrdered
    BY DEF Safe, TypeOK
  <1>1. TypeOK'
    BY <1>0, TypesStay
  <1>2. run \in Run /\ run' \in Run
    BY <1>0, <1>1 DEF TypeOK, RunOK
  \* Nothing is at work and nothing in flight where a run begins, ends or hands out.
  <1>3. ASSUME \A t \in Task : ~Active(t)', \A t \in Task : future'[t] = "none",
               run'.pc # "batch"
        PROVE  FuturesAreOfTheBatch'
    BY <1>1, <1>3, RunFields DEF FuturesAreOfTheBatch, TypeOK, RunOK, Run
  <1>4. ASSUME NEW target \in Task, NEW force \in BOOLEAN, Plan(target, force)
        PROVE  FuturesAreOfTheBatch'
    <2>1. \A t \in Task : ~Active(t)' /\ future'[t] = "none"
      BY <1>4, AllOffShape DEF Plan
    <2>2. run'.pc # "batch"
      BY <1>0, <1>4, RunShape DEF RunInline, Plan, InlineGoesOn, RunBatch, Collect,
         BatchGoesOn, Terminate, Idle
    <2> QED BY <1>3, <2>1, <2>2
  <1>5. CASE Ends
    <2>1. /\ \A t \in Task : ~Active(t) /\ future'[t] = "none"
          /\ UNCHANGED frame /\ run' = NoRun
      BY <1>5 DEF Ends, EndRun, Ending
    <2> QED BY <1>3, <2>1 DEF frame, Active, NoRun
  <1>6. CASE Crash
    <2>1. run'.pc = "idle" /\ run'.done = {}
      BY <1>6 DEF Crash, NoRun
    <2>2. \A t \in Task : future'[t] \in {"queued", "ok"} => ~Active(t)'
      BY <1>0, <1>6, AllOffShape DEF Crash, frame, Active, FuturesAreOfTheBatch
    <2> QED BY <2>1, <2>2 DEF FuturesAreOfTheBatch
  <1>7. ASSUME NEW t \in Task, RunInline(t) \/ RunBatch(t), ~Crash
        PROVE  FuturesAreOfTheBatch'
    <2>1. run.pc = "loop" /\ UNCHANGED frame
      BY <1>7 DEF RunInline, RunBatch
    <2>2. run.batch = {} /\ run.done = {}
      BY <2>1, <1>0 DEF RunIsOrdered
    <2>3. \A u \in Task : ~Active(u)' /\ future[u] = "none"
      BY <2>1, <2>2, <1>0 DEF FuturesAreOfTheBatch, frame, Active
    <2>4. CASE RunInline(t)
      <3>1. /\ run'.pc = "inline" /\ run'.batch = {t} /\ run'.done = {}
            /\ future' = [future EXCEPT ![t] = "queued"]
        BY <1>2, <2>2, <2>4 DEF RunInline, Run
      <3> QED BY <3>1, <2>3, <1>0 DEF FuturesAreOfTheBatch, RunOK
    <2>5. CASE RunBatch(t)
      <3>1. PICK sub \in SUBSET BatchOf(t) :
              /\ future' = [u \in Task |-> IF u \in sub THEN "queued" ELSE "none"]
              /\ run' = [run EXCEPT !.pc = "batch", !.batch = BatchOf(t),
                                    !.failed = (sub # BatchOf(t))]
        BY <2>5 DEF RunBatch
      <3>2. /\ run'.pc = "batch" /\ run'.batch = BatchOf(t) /\ run'.done = {}
            /\ run'.failed <=> (sub # BatchOf(t))
        BY <3>1, <1>2, <2>2 DEF Run
      <3>3. BatchOf(t) \subseteq Task
        BY <1>0, RunFields DEF BatchOf
      <3> QED BY <3>1, <3>2, <3>3, <2>3 DEF FuturesAreOfTheBatch
    <2> QED BY <1>7, <2>4, <2>5
  <1>8. ASSUME ~\E target \in Task, force \in BOOLEAN : Plan(target, force),
               ~Crash, ~Ends, ~\E t \in Task : RunInline(t) \/ RunBatch(t)
        PROVE  FuturesAreOfTheBatch'
    <2> DEFINE Steps(u) ==
           /\ Active(u)' => Active(u) \/ future[u] = "queued"
           /\ future'[u] = "queued" => future[u] = "queued"
           /\ future'[u] = "queued" => stage'[u] = stage[u]
           /\ future'[u] = "ok" => future[u] = "ok" \/ Publish(u)
           /\ future[u] = "none" => future'[u] = "none"
           /\ future'[u] = "none" /\ future[u] # "none" =>
                \/ InlineGoesOn(u) \/ Collect(u)
                \/ InFlight(u) /\ run.pc \in {"idle", "terminating"}
           /\ Active(u)' /\ ~Active(u) => future'[u] = "running"
    <2>1. \A u \in Task : Steps(u)
      BY <1>8, FutureSteps
    <2>2. \A u \in Task : Active(u)' \/ future'[u] # "none" =>
                            Active(u) \/ future[u] # "none"
      BY <2>1
    <2>3. \A u \in Task : future'[u] \in {"queued", "ok"} => ~Active(u)'
      <3> SUFFICES ASSUME NEW u \in Task, future'[u] \in {"queued", "ok"}
                   PROVE  ~Active(u)'
        OBVIOUS
      <3>1. CASE Publish(u)
        BY <3>1, <1>0, LeftIsOff DEF Publish, Stops, Active
      <3>2. CASE ~Publish(u)
        <4>1. ~Active(u)
          BY <2>1, <3>2, <1>0 DEF FuturesAreOfTheBatch
        <4> QED BY <4>1, <2>1
      <3> QED BY <3>1, <3>2
    <2>4. /\ run.pc = "idle" => run'.pc = "idle"
          /\ run'.pc # "idle" /\ run'.pc # "loop" => run'.batch = run.batch
          /\ \A t \in run'.done : t \in run.done \/ Collect(t)
      BY <1>0, <1>8, RunShape DEF RunIsOrdered
    <2>5. run'.pc # "idle" =>
            \A t \in Task : Active(t)' \/ future'[t] # "none" => t \in run'.batch
      <3>1. CASE run'.pc # "loop"
        BY <3>1, <2>2, <2>4, <1>0 DEF FuturesAreOfTheBatch
      <3>2. CASE run'.pc = "loop" /\ run' = run
        BY <3>2, <2>2, <1>0 DEF FuturesAreOfTheBatch
      <3>3. CASE run'.pc = "loop" /\ run' # run
        <4>1. BatchGoesOn \/ \E t \in Task : InlineGoesOn(t) /\ run.batch = {t}
          BY <3>3, <1>0, <1>8, RunShape
        <4>2. CASE BatchGoesOn
          BY <4>2, <2>2 DEF BatchGoesOn
        <4>3. ASSUME NEW t \in Task, InlineGoesOn(t), run.batch = {t}
              PROVE  \A u \in Task : ~Active(u)' /\ future'[u] = "none"
          <5>1. /\ future[t] = "ok" /\ future' = [future EXCEPT ![t] = "none"]
                /\ UNCHANGED frame /\ run.pc # "idle"
            BY <4>3 DEF InlineGoesOn
          <5> QED BY <5>1, <4>3, <1>0 DEF FuturesAreOfTheBatch, RunOK, frame, Active
        <4> QED BY <4>1, <4>2, <4>3, <2>2
      <3> QED BY <3>1, <3>2, <3>3
    <2>6. \A t \in run'.done : future'[t] = "none" /\ ~Active(t)'
      <3> SUFFICES ASSUME NEW t \in run'.done
                   PROVE  future'[t] = "none" /\ ~Active(t)'
        OBVIOUS
      <3>1. t \in Task
        BY <1>1, RunFields DEF TypeOK, RunOK, Run
      <3>2. CASE t \in run.done
        <4>1. future[t] = "none" /\ ~Active(t)
          BY <3>2, <1>0 DEF FuturesAreOfTheBatch
        <4> QED BY <4>1, <3>1, <2>1
      <3>3. CASE Collect(t) /\ t \notin run.done
        <4>1. /\ future[t] = "ok" /\ future' = [future EXCEPT ![t] = "none"]
              /\ UNCHANGED frame
          BY <3>3, <1>2 DEF Collect, Run
        <4> QED BY <4>1, <3>1, <1>0 DEF FuturesAreOfTheBatch, RunOK, frame, Active
      <3> QED BY <3>2, <3>3, <2>4
    <2>7. run'.pc = "batch" /\ ~run'.failed =>
            \A t \in run'.batch : future'[t] = "none" => t \in run'.done
      <3> SUFFICES ASSUME run'.pc = "batch", ~run'.failed, NEW t \in run'.batch,
                          future'[t] = "none"
                   PROVE  t \in run'.done
        OBVIOUS
      <3>1. t \in Task
        BY <1>2 DEF Run
      <3>2. CASE UNCHANGED run
        <4>1. future[t] = "none"
          <5> SUFFICES ASSUME future[t] # "none" PROVE FALSE
            OBVIOUS
          <5>1. Collect(t)
            BY <3>1, <3>2, <2>1 DEF InlineGoesOn
          <5>2. run' = [run EXCEPT !.done = @ \cup {t}]
            BY <5>1, <3>2, <1>2 DEF Collect, Run
          <5>3. t \in run.done
            BY <5>2, <3>2, <1>2 DEF Run
          <5> QED BY <5>1, <5>3, <1>0 DEF Collect, FuturesAreOfTheBatch
        <4> QED BY <4>1, <3>2, <1>0 DEF FuturesAreOfTheBatch
      <3>3. CASE run' # run
        <4>1. PICK v \in Task : Collect(v)
          BY <3>3, <1>0, <1>8, RunShape
        <4>2. /\ run' = [run EXCEPT !.done = @ \cup {v}] /\ future[v] = "ok"
              /\ future' = [future EXCEPT ![v] = "none"] /\ run.pc = "batch"
          BY <4>1, <1>2 DEF Collect, Run
        <4>3. /\ ~run.failed /\ run'.done = run.done \cup {v} /\ run'.batch = run.batch
          BY <4>2, <1>2 DEF Run
        <4> QED BY <4>2, <4>3, <3>1, <1>0 DEF FuturesAreOfTheBatch, RunOK
      <3> QED BY <3>2, <3>3
    <2> QED BY <2>3, <2>5, <2>6, <2>7 DEF FuturesAreOfTheBatch
  <1> QED BY <1>4, <1>5, <1>6, <1>7, <1>8

-----------------------------------------------------------------------------
(* What the runner takes as done.                                          *)

\* The tasks handed out last come after no task that is settled.
LEMMA WritersAreBelow ==
  ASSUME TypeOK, RunIsOrdered, FuturesAreOfTheBatch, run.pc # "idle",
         NEW v \in Task, Active(v) \/ future[v] = "queued",
         NEW t \in Task, t \in Settled \/ future[t] = "ok"
  PROVE  t # v /\ v \notin Upstream(t)
  <1>1. v \in run.batch /\ v \in run.toRun /\ v \notin run.executed
        /\ v \notin run.done /\ future[v] # "ok"
    BY DEF FuturesAreOfTheBatch, RunIsOrdered
  <1>2. t # v
    BY <1>1 DEF Settled
  <1>3. CASE t \in run.closure \ run.toRun
    BY <1>1, <1>3 DEF RunIsOrdered
  <1>4. CASE t \notin run.closure \ run.toRun
    <2>1. t \in run.executed \cup run.batch
      BY <1>4 DEF Settled, RunIsOrdered, FuturesAreOfTheBatch
    <2> QED BY <1>1, <1>2, <2>1 DEF RunIsOrdered
  <1> QED BY <1>2, <1>3, <1>4

LEMMA DoneStays ==
  ASSUME Safe, [Next]_vars
  PROVE  DoneIsClean'
  <1>0. /\ TypeOK /\ Isolation /\ WorkIsUndisturbed /\ FuturesAreOfTheBatch
        /\ FrameOK /\ RunOK /\ FilesOK /\ RunIsOrdered /\ DoneIsClean /\ MarkersTell
        /\ OrphansAreSuspect
    BY DEF Safe, TypeOK
  <1>1. TypeOK' /\ RunIsOrdered'
    BY <1>0, TypesStay, OrderStays
  <1>2. Settled' \subseteq Task /\ Settled \subseteq Task
    BY <1>0, <1>1, RunFields DEF Settled, TypeOK, RunOK, Run
  <1> SUFFICES ASSUME run'.pc # "idle", NEW t \in Task, Sound(t)',
                      t \in Settled' \/ future'[t] = "ok"
               PROVE  Clean(t)'
    BY <1>2 DEF DoneIsClean
  <1>15. Sound(t)
    BY SoundBefore
  <1>3. ASSUME NEW target \in Task, NEW force \in BOOLEAN, Plan(target, force)
        PROVE  Clean(t)'
    <2>1. /\ UNCHANGED files /\ future'[t] # "ok"
      BY <1>3, AllOffShape DEF Plan
    <2>2. /\ ~MissingSource(Closure(target))
          /\ \E pp \in TopoOrders, j \in Jobs :
               run' = [NoRun EXCEPT !.pc = "loop", !.jobs = j,
                         !.closure = Closure(target),
                         !.toRun = StaleIn(Closure(target), force), !.pos = pp]
      <3>1. run' # NoRun
        BY DEF NoRun
      <3> QED BY <1>3, <3>1 DEF Plan
    <2>3. /\ run'.closure = Closure(target) /\ run'.executed = {} /\ run'.done = {}
          /\ run'.toRun = StaleIn(Closure(target), force)
      BY <2>2 DEF NoRun
    <2>4. t \in Closure(target) \ StaleIn(Closure(target), force)
      BY <2>1, <2>3 DEF Settled
    <2>5. Clean(t)
      BY <2>2, <2>4, <1>0, <1>15, UnchangedIsClean
    <2> QED BY <2>1, <2>5, FilesFrame
  <1> DEFINE NoPlan == ~\E target \in Task, force \in BOOLEAN : Plan(target, force)
  <1>4. ASSUME NoPlan
        PROVE  run.pc # "idle" /\ ~Crash /\ ~Ends
    <2>1. ~Crash /\ ~Ends
      BY DEF Crash, Ends, EndRun, Ending, NoRun
    <2>2. run.pc # "idle"
      BY <1>0, <1>4, RunShape
    <2> QED BY <2>1, <2>2
  <1> DEFINE NoNew == ~Publish(t) \/ (future'[t] = "ok" => future[t] = "ok")
  <1>5. ASSUME NoPlan, NoNew
        PROVE  t \in Settled \/ future[t] = "ok"
    <2>1. run.pc # "idle"
      BY <1>4, <1>5
    <2>2. CASE \E v \in Task : RunInline(v) \/ RunBatch(v)
      <3>1. PICK v \in Task : RunInline(v) \/ RunBatch(v)
        BY <2>2
      <3>2. future'[t] = "ok" => future[t] = "ok"
        BY <3>1, <1>0 DEF RunInline, RunBatch, RunOK
      <3>3. run \in Run
        BY <1>0 DEF RunOK
      <3>4. run'.closure = run.closure /\ run'.toRun = run.toRun
            /\ run'.executed = run.executed /\ run'.done = run.done
        BY <3>1, <3>3 DEF RunInline, RunBatch, Run
      <3> QED BY <3>2, <3>4 DEF Settled
    <2>3. CASE ~\E v \in Task : RunInline(v) \/ RunBatch(v)
      <3>1. future'[t] = "ok" => future[t] = "ok"
        BY <1>4, <1>5, <2>3, FutureSteps
      <3>2. CASE UNCHANGED run
        BY <3>1, <3>2 DEF Settled
      <3>3. CASE run' # run
        <4>1. /\ run'.closure = run.closure /\ run'.toRun = run.toRun
              /\ \/ \E v \in Task :
                      /\ InlineGoesOn(v)
                      /\ run'.done = run.done /\ run'.executed = run.executed \cup {v}
                 \/ \E v \in Task :
                      /\ Collect(v) /\ run'.executed = run.executed
                      /\ run'.done \in {run.done, run.done \cup {v}}
                 \/ /\ BatchGoesOn /\ run'.done = {}
                    /\ run'.executed = run.executed \cup run.batch
                 \/ run'.done = run.done /\ run'.executed = run.executed
          BY <1>0, <1>5, <2>3, <3>3, RunShape
        <4>2. ASSUME NEW v \in Task, InlineGoesOn(v),
                     run'.done = run.done, run'.executed = run.executed \cup {v}
              PROVE  t \in Settled \/ future[t] = "ok"
          BY <4>1, <4>2, <3>1 DEF Settled, InlineGoesOn
        <4>3. ASSUME NEW v \in Task, Collect(v), run'.executed = run.executed,
                     run'.done \in {run.done, run.done \cup {v}}
              PROVE  t \in Settled \/ future[t] = "ok"
          <5>1. run \in Run
            BY <1>0 DEF RunOK
          <5>2. future[v] = "ok" \/ run'.done = run.done
            BY <4>3, <5>1 DEF Collect, Run
          <5> QED BY <4>1, <4>3, <5>2, <3>1 DEF Settled
        <4>4. ASSUME BatchGoesOn, run'.done = {},
                     run'.executed = run.executed \cup run.batch
              PROVE  t \in Settled \/ future[t] = "ok"
          <5>1. run.batch \subseteq run.done
            BY <4>4, <1>0, RunFields DEF BatchGoesOn, FuturesAreOfTheBatch
          <5> QED BY <4>1, <4>4, <5>1, <3>1 DEF Settled
        <4> QED BY <4>1, <4>2, <4>3, <4>4, <3>1 DEF Settled
      <3> QED BY <3>2, <3>3
    <2> QED BY <2>2, <2>3
  <1>6. ASSUME NoPlan, NoNew
        PROVE  Clean(t)
    BY <1>0, <1>4, <1>5, <1>6, <1>15 DEF DoneIsClean
  <1>7. ASSUME NEW v \in Task, NoPlan, Writes(v) PROVE Clean(t)'
    <2>1. Active(v) /\ NoNew
      BY <1>7 DEF Writes, Active
    <2>2. t # v /\ v \notin Upstream(t)
      BY <2>1, <1>0, <1>4, <1>5, <1>7, WritersAreBelow
    <2>3. \A f \in Deps(t) \cup Outputs[t] :
            content'[f] = content[f] /\ mtime'[f] = mtime[f]
      BY <2>2, <1>7, GraphShape DEF Writes
    <2> QED BY <2>1, <2>3, <1>6, <1>7, CleanFrame DEF Writes
  <1>8. ASSUME NEW v \in Task, NoPlan, Begin(v) PROVE Clean(t)'
    <2>1. future[v] = "queued" /\ UNCHANGED run
      BY <1>8 DEF Begin
    <2>2. NoNew
      BY <1>8, <1>0 DEF Begin, RunOK
    <2>3. t # v
      BY <2>1, <2>2, <1>0, <1>4, <1>5, <1>8, WritersAreBelow
    <2>4. UNCHANGED <<content, mtime>> /\ marker'[t] = marker[t]
      BY <2>3, <1>8, <1>0 DEF Begin, FilesOK
    <2> QED BY <2>2, <2>4, <1>6, <1>8, CleanFrame
  <1>9. ASSUME NEW v \in Task, NoPlan, Publish(v) PROVE Clean(t)'
    <2>1. /\ UNCHANGED <<content, mtime>> /\ stage[v] = "ordered"
          /\ marker' = [marker EXCEPT ![v] = present[v]]
      BY <1>9 DEF Publish
    <2>2. CASE t # v
      <3>1. marker'[t] = marker[t]
        BY <2>1, <2>2, <1>0 DEF FilesOK
      <3>2. future'[t] = future[t] /\ UNCHANGED run
        BY <1>9, <2>2, <1>0 DEF Publish, Stops, RunOK
      <3>3. Clean(t)
        BY <3>2, <1>0, <1>4, <1>9, <1>15 DEF Settled, DoneIsClean
      <3> QED BY <3>1, <3>3, <2>1, CleanFrame
    <2>3. CASE t = v
      <3>1. /\ present[t] = OptionalPresence(t) /\ reads[t] = ReadNow(t)
            /\ \A o \in Outputs[t] :
                 /\ content[o] = Built(t, o, reads[t]) /\ Exists(o)
                 /\ \A f \in Deps(t) : Exists(f) => mtime[f] < mtime[o]
        BY <2>1, <2>3, <1>0, <1>15 DEF WorkIsUndisturbed, Undisturbed, Active
      <3>2. /\ ReadNow(t)' = ReadNow(t) /\ OptionalPresence(t)' = OptionalPresence(t)
            /\ \A f : Exists(f)' <=> Exists(f)
        BY <2>1 DEF ReadNow, OptionalPresence, Exists
      <3>3. marker'[t] = OptionalPresence(t) /\ OptionalPresence(t) # NoMarker
        <4>1. OptionalPresence(t) \in SUBSET File
          BY GraphShape DEF OptionalPresence
        <4> QED BY <4>1, <2>1, <2>3, <3>1, <1>0, ValueAssumption DEF FilesOK
      <3>4. Consistent(t)'
        BY <3>1, <3>2, <2>1 DEF Consistent, Built
      <3>5. \A f \in Deps(t), o \in Outputs[t] :
              Exists(f) => ~(mtime[f] >= mtime[o])
        <4> SUFFICES ASSUME NEW f \in Deps(t), NEW o \in Outputs[t], Exists(f)
                     PROVE  ~(mtime[f] >= mtime[o])
          OBVIOUS
        <4>1. mtime[f] < mtime[o]
          BY <3>1
        <4>2. mtime[f] \in Nat /\ mtime[o] \in Nat
          BY <1>0, GraphShape DEF FilesOK
        <4> QED BY <4>1, <4>2
      <3>6. ~DirectlyStale(t)'
        BY <3>1, <3>2, <3>3, <3>5, <2>1 DEF DirectlyStale, Deps
      <3> QED BY <3>4, <3>6 DEF Clean
    <2> QED BY <2>2, <2>3
  <1>10. ASSUME UNCHANGED files, NoPlan, NoNew PROVE Clean(t)'
    BY <1>6, <1>10, FilesFrame
  <1>11. CASE /\ NoPlan /\ ~\E v \in Task : Publish(v)
              /\ \/ Advance \/ Cancel \/ Terminate \/ BatchGoesOn \/ UNCHANGED vars
                 \/ \E v \in Task :
                      \/ RunInline(v) \/ InlineGoesOn(v) \/ RunBatch(v) \/ Collect(v)
                      \/ WorkerDies(v) \/ Killed(v) \/ Read(v) \/ Fails(v)
    BY <1>10, <1>11 DEF Advance, Cancel, Terminate, BatchGoesOn, vars, RunInline,
          InlineGoesOn, RunBatch, Collect, WorkerDies, Killed, Read, Fails
  <1>12. ASSUME NEW f \in File, Touches(f), NoPlan PROVE FALSE
    BY <1>4, <1>12 DEF Touches, UserTouches, Idle
  <1>13. ASSUME NEW v \in Task, NoPlan, Orders(v) \/ \E o \in Outputs[v] : Write(v, o)
         PROVE  Clean(t)'
    BY <1>0, <1>7, <1>13, WriteShape
  <1>16. ASSUME NEW v \in Task, OrphanStep(v), NoPlan PROVE Clean(t)'
    <2>1. NoNew /\ UNCHANGED <<run, future>>
      BY <1>16 DEF OrphanStep
    <2> QED BY <2>1, <1>0, <1>6, <1>15, <1>16, OrphanShape, CleanFrame
  <1> HIDE DEF NoPlan
  <1>14. NoPlan \/ \E target \in Task, force \in BOOLEAN : Plan(target, force)
    BY DEF NoPlan
  <1> QED BY <1>0, NextCases, <1>3, <1>4, <1>8, <1>9, <1>11, <1>12, <1>13, <1>14,
             <1>16

-----------------------------------------------------------------------------
(* What the runner reports.                                                *)

\* Nothing but a user, a new run and what an old one left acts on a quiet system.
LEMMA QuietSteps ==
  ASSUME Safe, [Next]_vars, Quiet
  PROVE  \/ \E target \in Task, force \in BOOLEAN : Plan(target, force)
         \/ \E f \in File : Touches(f)
         \/ \E t \in Task : OrphanStep(t)
         \/ UNCHANGED vars
  <1>0. TypeOK /\ Isolation
    BY DEF Safe
  <1>1. run.pc = "idle" /\ \A t \in Task : ~Active(t) /\ ~InFlight(t)
    BY DEF Quiet, Idle, Busy
  <1>2. ~(Advance \/ Cancel \/ Terminate \/ Crash \/ Ends \/ BatchGoesOn)
    BY <1>1 DEF Advance, Cancel, Terminate, Crash, Ends, BatchGoesOn, Idle
  <1>3. ASSUME NEW t \in Task
        PROVE  ~(RunInline(t) \/ InlineGoesOn(t) \/ RunBatch(t) \/ Collect(t))
    BY <1>1 DEF RunInline, InlineGoesOn, RunBatch, Collect
  <1>4. ASSUME NEW t \in Task
        PROVE  ~(\/ WorkerDies(t) \/ Killed(t) \/ Begin(t) \/ Read(t) \/ Orders(t)
                 \/ Fails(t) \/ Publish(t) \/ \E o \in Outputs[t] : Write(t, o))
    BY <1>1 DEF WorkerDies, Killed, Begin, Read, Orders, Fails, Publish, Write,
                Active, InFlight
  <1> QED BY <1>0, NextCases, <1>2, <1>3, <1>4

\* A step of such a worker makes no sound task stale.
LEMMA OrphanStales ==
  ASSUME TypeOK, OrphansAreSuspect, NEW v \in Task, OrphanStep(v),
         NEW S \in SUBSET Task, NEW t \in S, Sound(t), t \notin StaleIn(S, FALSE)
  PROVE  t \notin StaleIn(S, FALSE)'
  <1> DEFINE R == StaleIn(S, FALSE) \cup {u \in S : ~Sound(u)}
  <1>1. R \in SUBSET S /\ t \notin R
    BY DEF StaleIn
  <1>2. \A u \in S : DirectlyStale(u)' => u \in R
    <2> SUFFICES ASSUME NEW u \in S, DirectlyStale(u)', Sound(u)
                 PROVE  u \in StaleIn(S, FALSE)
      OBVIOUS
    <2>1. DirectlyStale(u)
      BY OrphanShape, CleanFrame
    <2> QED BY <2>1 DEF StaleIn
  <1>3. \A u \in S : Upstream(u) \cap R # {} => u \in R
    <2> SUFFICES ASSUME NEW u \in S, Sound(u), NEW w \in Upstream(u) \cap R
                 PROVE  u \in StaleIn(S, FALSE)
      OBVIOUS
    <2>1. w \in StaleIn(S, FALSE)
      BY SoundAbove
    <2> QED BY <2>1, NotStale
  <1> HIDE DEF R
  <1>4. \A u \in S : Upstream(u)' = Upstream(u)
    BY DEF Upstream, Deps
  <1> QED BY <1>1, <1>2, <1>3, <1>4 DEF StaleIn

LEMMA ReportsStay ==
  ASSUME Safe, [Next]_vars
  PROVE  ReportsAreFinal' /\ SuccessIsCurrent' /\ FinishedWorkIsKept'
  <1>0. /\ TypeOK /\ Isolation /\ WorkIsUndisturbed /\ FuturesAreOfTheBatch
        /\ RunOK /\ RunIsOrdered /\ DoneIsClean /\ MarkersTell
        /\ ReportsAreFinal /\ SuccessIsCurrent /\ FinishedWorkIsKept
        /\ OrphansAreSuspect
    BY DEF Safe, TypeOK
  <1>8. \A t \in Task : Sound(t)' => Sound(t)
    BY SoundBefore
  <1>1. ASSUME report'.status = "none"
        PROVE  ReportsAreFinal' /\ SuccessIsCurrent' /\ FinishedWorkIsKept'
    BY <1>1 DEF ReportsAreFinal, SuccessIsCurrent, FinishedWorkIsKept
  <1>2. CASE UNCHANGED vars
    <2>1. UNCHANGED <<files, run, report, stage, future>> /\ report.closure \subseteq Task
      BY <1>2, <1>0 DEF vars, frame, RunOK, Report
    <2>2. ReportsAreFinal'
      BY <2>1, <1>0 DEF ReportsAreFinal, Quiet, Idle, Busy, Active, InFlight
    <2>3. SuccessIsCurrent'
      BY <2>1, <1>0, <1>8, FilesFrame DEF SuccessIsCurrent, Clean
    <2>4. FinishedWorkIsKept'
      <3>1. report.verified \subseteq Task
        BY <1>0 DEF RunOK, Report
      <3>2. StaleIn(report.closure, FALSE)' = StaleIn(report.closure, FALSE)
        BY <2>1, FilesFrame
      <3> QED BY <2>1, <3>1, <3>2, <1>0, <1>8 DEF FinishedWorkIsKept
    <2> QED BY <2>2, <2>3, <2>4
  <1>3. ASSUME NEW f \in File, Touches(f)
        PROVE  report'.status = "none"
    BY <1>3 DEF Touches, UserTouches, NoReport
  <1>4. ASSUME NEW target \in Task, NEW force \in BOOLEAN, Plan(target, force),
               report'.status # "none"
        PROVE  ReportsAreFinal' /\ SuccessIsCurrent' /\ FinishedWorkIsKept'
    <2>1. /\ UNCHANGED files /\ AllOff /\ report'.verified = {}
          /\ run' = NoRun /\ report'.closure = Closure(target)
          /\ \/ report'.status = "refused"
             \/ /\ report'.status = "uptodate" /\ ~MissingSource(Closure(target))
                /\ StaleIn(Closure(target), force) = {}
      <3>1. report' # NoReport
        BY <1>4 DEF NoReport
      <3>2. /\ UNCHANGED files /\ AllOff /\ run' = NoRun
            /\ \/ report' = [status |-> "refused", closure |-> Closure(target),
                             verified |-> {}]
               \/ /\ report' = [status |-> "uptodate", closure |-> Closure(target),
                                verified |-> {}]
                  /\ ~MissingSource(Closure(target))
                  /\ StaleIn(Closure(target), force) = {}
        BY <1>4, <3>1, Zenon DEF Plan
      <3> QED BY <3>2
    <2>2. ReportsAreFinal'
      BY <2>1, AllOffShape DEF ReportsAreFinal, Quiet, Idle, NoRun
    <2>3. SuccessIsCurrent'
      <3> SUFFICES ASSUME report'.status = "uptodate", NEW t \in Closure(target),
                          Sound(t)'
                   PROVE  Clean(t)'
        BY <2>1 DEF SuccessIsCurrent, Clean
      <3>1. Clean(t) /\ t \in Task
        BY <2>1, <1>0, <1>8, UnchangedIsClean, ClosureIsClosed
      <3> QED BY <2>1, <3>1, FilesFrame
    <2>4. FinishedWorkIsKept'
      BY <2>1 DEF FinishedWorkIsKept
    <2> QED BY <2>2, <2>3, <2>4
  <1>5. CASE Ends
    <2> DEFINE verified == run.executed \cup run.done
    <2>1. PICK status \in {"completed", "failed", "aborted"} :
            EndRun(status) /\ (status = "completed" => Pending = {})
      BY <1>5 DEF Ends
    <2>2. /\ run.pc # "idle" /\ \A t \in Task : ~Active(t)
          /\ UNCHANGED <<files, frame>> /\ run' = NoRun
          /\ future' = [t \in Task |-> "none"]
          /\ report'.closure = run.closure /\ report'.verified = verified
          /\ report'.status = IF ~cancelled THEN status
                              ELSE IF verified = run.toRun THEN "completed"
                                                           ELSE "aborted"
      BY <1>5, <2>1 DEF Ends, EndRun, Ending
    <2>3. run.closure \in SUBSET Task /\ verified \subseteq run.toRun
      BY <1>0, RunFields DEF RunIsOrdered
    <2>4. \A t \in (run.closure \ run.toRun) \cup verified : Sound(t) => Clean(t)
      BY <2>2, <1>0, RunFields DEF DoneIsClean, Settled
    <2>5. ReportsAreFinal'
      BY <2>2 DEF ReportsAreFinal, Quiet, Idle, NoRun, Busy, Active, InFlight, frame
    <2>6. SuccessIsCurrent'
      <3> SUFFICES ASSUME report'.status \in {"completed", "uptodate"},
                          NEW t \in run.closure, Sound(t)'
                   PROVE  Clean(t)'
        BY <2>2 DEF SuccessIsCurrent, Clean
      <3>1. run.toRun \subseteq verified
        BY <2>1, <2>2 DEF Pending
      <3>2. Clean(t) /\ t \in Task
        BY <3>1, <2>3, <2>4, <1>8
      <3> QED BY <2>2, <3>2, FilesFrame
    <2>7. FinishedWorkIsKept'
      <3> DEFINE Left == run.toRun \ verified
                 R == Left \cup {u \in run.closure : ~Sound(u)}
      <3>1. R \in SUBSET run.closure
        BY <1>0 DEF RunIsOrdered
      <3>2. \A u \in run.closure : DirectlyStale(u) => u \in R
        BY <2>4 DEF Clean
      <3>3. ASSUME NEW u \in run.closure, Upstream(u) \cap R # {}
            PROVE  u \in R
        <4>0. CASE Upstream(u) \cap Left = {}
          <5>1. PICK w \in Upstream(u) : ~Sound(w)
            BY <4>0, <3>3
          <5> QED BY <5>1, <3>3, <2>3, SoundAbove
        <4>1. CASE Upstream(u) \cap Left # {}
          <5>1. u \in run.toRun
            BY <4>1, <3>3, <1>0 DEF RunIsOrdered
          <5>2. u \notin verified
            BY <4>1, <3>3, <1>0 DEF RunIsOrdered
          <5> QED BY <5>1, <5>2
        <4> QED BY <4>0, <4>1
      <3>4. StaleIn(run.closure, FALSE) \subseteq R
        <4>1. \A u \in run.closure : FALSE \/ DirectlyStale(u) => u \in R
          BY <3>2
        <4> HIDE DEF R
        <4> QED BY <2>3, <3>1, <3>3, <4>1, StaleIsLeast
      <3>5. \A S \in SUBSET Task : StaleIn(S, FALSE)' = StaleIn(S, FALSE)
        BY <2>2, FilesFrame
      <3>6. \A t \in verified : Sound(t) => t \notin StaleIn(run.closure, FALSE)
        BY <3>4
      <3>7. verified \subseteq Task
        BY <1>0, RunFields
      <3> QED BY <2>2, <2>3, <3>5, <3>6, <3>7, <1>8 DEF FinishedWorkIsKept
    <2> QED BY <2>5, <2>6, <2>7
  <1>6. CASE Crash
    BY <1>1, <1>6 DEF Crash, NoReport
  <1>7. ASSUME ~Quiet, ~Ends, ~Crash,
               \A target \in Task, force \in BOOLEAN : ~Plan(target, force),
               \A f \in File : ~Touches(f)
        PROVE  report'.status = "none"
    <2>1. report.status = "none"
      BY <1>0, <1>7 DEF ReportsAreFinal
    <2>4. CASE Advance \/ Cancel \/ Terminate \/ BatchGoesOn \/ UNCHANGED vars
      BY <2>1, <2>4 DEF Advance, Cancel, Terminate, BatchGoesOn, vars
    <2>5. CASE \E t \in Task :
                 \/ RunInline(t) \/ InlineGoesOn(t) \/ RunBatch(t) \/ Collect(t)
                 \/ WorkerDies(t) \/ Killed(t) \/ Begin(t) \/ Read(t) \/ Fails(t)
                 \/ (\E o \in Outputs[t] : Write(t, o)) \/ Orders(t) \/ Publish(t)
                 \/ OrphanStep(t)
      BY <2>1, <2>5 DEF RunInline, InlineGoesOn, RunBatch, Collect, WorkerDies,
                        Killed, Begin, Read, Fails, Stops, Write, Orders, Publish,
                        OrphanStep
    <2> QED BY <1>0, <1>7, NextCases, <2>4, <2>5
  <1>9. ASSUME NEW v \in Task, OrphanStep(v)
        PROVE  ReportsAreFinal' /\ SuccessIsCurrent' /\ FinishedWorkIsKept'
    <2>1. /\ UNCHANGED <<frame, future, run, report, suspect>>
          /\ report.closure \subseteq Task
      BY <1>9, <1>0 DEF OrphanStep, RunOK, Report
    <2>2. ReportsAreFinal'
      BY <2>1, <1>0 DEF ReportsAreFinal, Quiet, Idle, Busy, Active, InFlight, frame
    <2>3. SuccessIsCurrent'
      <3> SUFFICES ASSUME report.status \in {"completed", "uptodate"},
                          NEW t \in report.closure, Sound(t)'
                   PROVE  Clean(t)'
        BY <2>1 DEF SuccessIsCurrent, Clean
      <3>1. t \in Task /\ Sound(t) /\ Clean(t)
        BY <2>1, <1>0, <1>8 DEF SuccessIsCurrent, Clean
      <3> QED BY <3>1, <1>0, <1>9, OrphanShape, CleanFrame
    <2>4. FinishedWorkIsKept'
      <3> SUFFICES ASSUME report.status \in {"failed", "aborted"},
                          NEW t \in report.verified, Sound(t)'
                   PROVE  t \notin StaleIn(report.closure, FALSE)'
        BY <2>1 DEF FinishedWorkIsKept
      <3>1. t \in Task
        BY <1>0 DEF RunOK, Report
      <3>2. Sound(t) /\ t \notin StaleIn(report.closure, FALSE)
        BY <3>1, <1>0, <1>8 DEF FinishedWorkIsKept
      <3>3. CASE t \in report.closure
        <4> DEFINE S == report.closure
        <4>1. S \in SUBSET Task /\ t \in S /\ S' = S /\ t \notin StaleIn(S, FALSE)
          BY <2>1, <3>2, <3>3
        <4> HIDE DEF S
        <4>2. t \notin StaleIn(S, FALSE)'
          BY <4>1, <3>2, <1>0, <1>9, OrphanStales
        <4> QED BY <4>1, <4>2 DEF S
      <3>4. CASE t \notin report.closure
        BY <3>4, <2>1 DEF StaleIn
      <3> QED BY <3>3, <3>4
    <2> QED BY <2>2, <2>3, <2>4
  <1> QED BY QuietSteps, <1>1, <1>2, <1>3, <1>4, <1>5, <1>6, <1>7, <1>9

-----------------------------------------------------------------------------

LEMMA InitSafe == Init => Safe
  <1> SUFFICES ASSUME Init PROVE Safe
    OBVIOUS
  <1>1. TypeOK /\ Isolation
    BY TypesStart, IsolationStarts
  <1>2. /\ \A t \in Task : /\ stage[t] = "off" /\ written[t] = {}
                           /\ marker[t] = NoMarker /\ future[t] = "none"
        /\ run.pc = "idle" /\ run.toRun = {} /\ run.batch = {} /\ run.done = {}
        /\ run.executed = {} /\ run.closure = {} /\ report.status = "none"
    BY DEF Init, NoRun, NoReport
  <1>3. TimesAreNear
    BY TickAssumption, GraphAssumption DEF Init, TimesAreNear
  <1>4. MarkersTell /\ WorkIsUndisturbed
    BY <1>2 DEF MarkersTell, WorkIsUndisturbed, Undisturbed, Active
  <1>5. NothingIsAhead
    BY <1>2 DEF NothingIsAhead, Ahead, Pending
  <1>6. RunIsOrdered /\ FuturesAreOfTheBatch /\ DoneIsClean
    BY <1>2 DEF RunIsOrdered, FuturesAreOfTheBatch, DoneIsClean, Active
  <1>7. ReportsAreFinal /\ SuccessIsCurrent /\ FinishedWorkIsKept
    BY <1>2 DEF ReportsAreFinal, SuccessIsCurrent, FinishedWorkIsKept
  <1>8. OrphansAreSuspect
    BY DEF Init, OrphansAreSuspect, Lingers, Gone
  <1> QED BY <1>1, <1>3, <1>4, <1>5, <1>6, <1>7, <1>8 DEF Safe

LEMMA SafeIsInductive == Safe /\ [Next]_vars => Safe'
  <1> SUFFICES ASSUME Safe, [Next]_vars PROVE Safe'
    OBVIOUS
  <1>1. TypeOK' /\ Isolation'
    BY TypesStay, IsolationStays DEF Safe
  <1>2. OrphansAreSuspect'
    BY OrphansStay DEF Safe
  <1> QED BY <1>1, <1>2, TimesStay, MarkersStay, WorkStays, AheadStays, OrderStays,
             FuturesStay, DoneStays, ReportsStay DEF Safe

LEMMA SafeAlways == Spec => []Safe
  BY InitSafe, SafeIsInductive, PTL DEF Spec

\* A task that the next plan calls unchanged has the outputs its inputs call
\* for, whatever was interrupted, failed, cancelled or edited before, unless
\* someone acted beside a worker of a crashed run at it or above it.
THEOREM UpToDateIsTrue == Spec => []NoFalseUpToDate
  <1>1. Safe => NoFalseUpToDate
    BY UnchangedIsClean, ClosureIsClosed DEF Safe, NoFalseUpToDate, Clean
  <1> QED BY <1>1, SafeAlways, PTL

\* A run that reports success left every sound task of its target consistent,
\* with nothing for a second run to do.
THEOREM SuccessIsTrue == Spec => []SuccessIsCurrent
  <1>1. Safe => SuccessIsCurrent
    BY DEF Safe
  <1> QED BY <1>1, SafeAlways, PTL

\* After a failed or cancelled run the next one repeats no verified task that
\* is sound.
THEOREM FinishedIsKept == Spec => []FinishedWorkIsKept
  <1>1. Safe => FinishedWorkIsKept
    BY DEF Safe
  <1> QED BY <1>1, SafeAlways, PTL

=============================================================================
