------------------------------ MODULE Pipeline ------------------------------
(***************************************************************************)
(* The incremental build runner of pstrain (lib/pipeline/runner.py): tasks *)
(* tied together by the files they read and write, planning by staleness,  *)
(* serial and pooled execution, cancellation, failure and crash.           *)
(*                                                                         *)
(* A file is its content and its modification time.  What a task writes is *)
(* the term Built(t, o, r) over the contents r it read, so two contents    *)
(* are equal exactly when they come from the same sources by the same      *)
(* steps.  Time counts nanoseconds; the file system's clock moves in steps *)
(* of Tick, so files written close together share one modification time.   *)
(***************************************************************************)
EXTENDS Naturals, FiniteSets

CONSTANTS
  Task, File,
  Inputs,         \* [Task -> SUBSET File]: Task.inputs, which must exist
  OptInputs,      \* [Task -> SUBSET File]: Task.optional_inputs
  Outputs,        \* [Task -> SUBSET File]: Task.outputs
  Group,          \* [Task -> parallel_group], NoGroup for the empty string
  NoGroup,
  Rank,           \* [File -> Nat]: rises from inputs to outputs (no cycle)
  Absent,         \* the content of a file that does not exist
  Torn,           \* the content of a file whose writing was cut short
  NoMarker,       \* the marker of a task whose marker file does not exist
  Version,        \* contents a source file can have
  Original,       \* those that one has at first
  Jobs,           \* the jobs settings that runs are started with
  Tick,           \* nanoseconds per step of the file system's clock
  MaxTime,        \* bound: steps of the clock in one behaviour
  MaxOrphans      \* bound: workers that a later run finds still at work

ASSUME GraphAssumption ==
  /\ Inputs \in [Task -> SUBSET File]
  /\ OptInputs \in [Task -> SUBSET File]
  /\ Outputs \in [Task -> SUBSET File]
  /\ \A t \in Task : Inputs[t] \cap OptInputs[t] = {} /\ Outputs[t] # {}
  /\ \A t, u \in Task : t # u => Outputs[t] \cap Outputs[u] = {}
  /\ Rank \in [File -> Nat]
  /\ \A t \in Task : \A f \in Inputs[t] \cup OptInputs[t], o \in Outputs[t] :
       Rank[f] < Rank[o]
ASSUME TickAssumption == Tick \in Nat /\ \A f \in File : Rank[f] < Tick
ASSUME BoundAssumption ==
  /\ Jobs \subseteq Nat \ {0} /\ MaxTime \in Nat /\ MaxOrphans \in Nat
  /\ IsFiniteSet(Task)
ASSUME ValueAssumption ==
  /\ Original \subseteq Version /\ Absent # Torn /\ Version \cap {Absent, Torn} = {}
  /\ \A S \in SUBSET File : NoMarker # S

VARIABLES
  content, mtime, \* [File -> ...]: the file system
  marker,         \* [Task -> ...]: .complete files, the optional inputs recorded
  now,            \* the clock
  stage, reads, present, written,
                  \* [Task -> ...]: where _execute_task stands, what fn read,
                  \* optional_presence, the outputs fn has written
  future,         \* [Task -> ...]: the tasks' futures
  run,            \* the locals of Pipeline.run and _execute
  cancelled,      \* the run's cancellation token
  report,         \* what the last run reported, until files are touched
  orphan,         \* [Task -> ...]: where the worker stands that a crashed run
                  \* left at the task when the next run began
  suspect         \* history: the tasks that had a worker of a crashed run when
                  \* someone acted beside it

files == <<content, mtime, marker>>
frame == <<stage, reads, present, written>>
left == <<orphan, suspect>>
vars == <<files, now, frame, future, run, cancelled, report, left>>

-----------------------------------------------------------------------------
(* The task graph. *)

Deps(t) == Inputs[t] \cup OptInputs[t]
Generated == UNION {Outputs[t] : t \in Task}
External == File \ Generated

\* The tasks whose outputs t depends on.
Upstream(t) == {u \in Task : Outputs[u] \cap Deps(t) # {}}
ClosedUp(S) == \A t \in S : Upstream(t) \subseteq S

\* _toposort_for: the tasks reachable from the target's producer...
Closures ==
  [target \in Task |->
     {t \in Task : \A S \in SUBSET Task : target \in S /\ ClosedUp(S) => t \in S}]
Closure(target) == Closures[target]

\* ... each after the producers of its dependencies.
TopoOrders ==
  {p \in [Task -> 1..Cardinality(Task)] :
     \A t, u \in Task : /\ p[t] = p[u] => t = u
                        /\ u \in Upstream(t) => p[u] < p[t]}

\* What fn leaves in output o when it has read the contents r.
Built(t, o, r) == [task |-> t, output |-> o, from |-> r]

Exists(f) == content[f] # Absent
ReadNow(t) == [f \in Deps(t) |-> content[f]]
\* (Mistaken: the record takes in the required inputs.)
DependencyPresence(t) == {f \in Deps(t) : Exists(f)}
OptionalPresence(t) == {f \in OptInputs[t] : Exists(f)}

-----------------------------------------------------------------------------
(* Planning. *)

\* (Mistaken: the marker is not looked at unless it holds a record.)
StaleByTimes(t) ==
  \/ \E o \in Outputs[t] : ~Exists(o)
  \/ OptInputs[t] # {} /\ marker[t] # OptionalPresence(t)
  \/ \E f \in Deps(t), o \in Outputs[t] : Exists(f) /\ mtime[f] >= mtime[o]

\* _staleness: a missing output, a missing marker, a different record of the
\* optional inputs, or an existing input no older than some output.
DirectlyStale(t) ==
  \/ \E o \in Outputs[t] : ~Exists(o)
  \/ marker[t] = NoMarker
  \/ OptInputs[t] # {} /\ marker[t] # OptionalPresence(t)
  \/ \E f \in Deps(t), o \in Outputs[t] : Exists(f) /\ mtime[f] >= mtime[o]

\* plan, second pass: a planned task below a stale one is stale too.
StaleIn(S, force) ==
  {t \in S : \A R \in SUBSET S :
     /\ \A u \in S : force \/ DirectlyStale(u) => u \in R
     /\ \A u \in S : Upstream(u) \cap R # {} => u \in R
     => t \in R}

\* plan refuses a target when any task it reaches lacks a required source.
MissingSource(S) == \E t \in S : \E f \in Inputs[t] \cap External : ~Exists(f)

-----------------------------------------------------------------------------
NoRun ==
  [pc |-> "idle", jobs |-> 0, closure |-> {}, toRun |-> {}, pos |-> [t \in Task |-> 0],
   executed |-> {}, batch |-> {}, done |-> {}, failed |-> FALSE]
NoReport == [status |-> "none", closure |-> {}, verified |-> {}]

Idle == run.pc = "idle"
Active(t) == stage[t] # "off"
Nothing(t) == [f \in Deps(t) |-> Absent]
InFlight(t) == future[t] \in {"queued", "running"}

Busy(t) == Active(t) \/ InFlight(t)

\* No run, and the last one left no worker.
Quiet == Idle /\ \A t \in Task : ~Busy(t)

\* A task whose outputs and marker, and all they are made from, have only the
\* run at hand, or its workers, to write them.
Sound(t) == Closure(t) \cap suspect = {}

Gone(t) == [stage |-> "off", reads |-> Nothing(t), present |-> {}, written |-> {}]

Pending == run.toRun \ run.executed
IsHead(t) == t \in Pending /\ \A u \in Pending : run.pos[t] <= run.pos[u]
Ready(t) == Upstream(t) \cap run.toRun \subseteq run.executed
Pooled(t) == Group[t] # NoGroup /\ run.jobs > 1

Init ==
  /\ content \in [File -> {Absent} \cup Original]
  /\ \A f \in Generated : content[f] = Absent
  /\ mtime = [f \in File |-> 0]
  /\ marker = [t \in Task |-> NoMarker]
  /\ now = Tick
  /\ stage = [t \in Task |-> "off"]
  /\ reads = [t \in Task |-> Nothing(t)]
  /\ present = [t \in Task |-> {}] /\ written = [t \in Task |-> {}]
  /\ future = [t \in Task |-> "none"]
  /\ run = NoRun /\ cancelled = FALSE /\ report = NoReport
  /\ orphan = [t \in Task |-> Gone(t)] /\ suspect = {}

-----------------------------------------------------------------------------
(* The user and the clock. A user acts at least a clock step away from the *)
(* start and the end of a run, and perhaps beside workers that a crashed   *)
(* run has left: nothing waits until their parent watch has ended them.    *)

ClockStep == now < MaxTime * Tick /\ now' = now + Tick

Advance == /\ ~Idle /\ ClockStep
           /\ UNCHANGED <<files, frame, future, run, cancelled, report, left>>

BesideWorkers == suspect' = suspect \cup {t \in Task : Busy(t)}

UserTouches(f, c) ==
  /\ Idle /\ ClockStep /\ BesideWorkers
  /\ content' = [content EXCEPT ![f] = c]
  /\ mtime' = [mtime EXCEPT ![f] = IF c = Absent THEN 0 ELSE now']
  /\ report' = NoReport
  /\ UNCHANGED <<marker, frame, future, run, cancelled, orphan>>

Edit(f) == f \in External /\ \E v \in Version \ {content[f]} : UserTouches(f, v)
Remove(f) == Exists(f) /\ UserTouches(f, Absent)

-----------------------------------------------------------------------------
(* Pipeline.run up to _execute, and its end. *)

AllOff ==
  /\ stage' = [t \in Task |-> "off"]
  /\ reads' = [t \in Task |-> Nothing(t)]
  /\ present' = [t \in Task |-> {}] /\ written' = [t \in Task |-> {}]
  /\ future' = [t \in Task |-> "none"]

\* The workers of a crashed run go on beside the next one. (Bounds: no more than
\* MaxOrphans of them, and at one task those of one run.)
LeaveBehind ==
  /\ Cardinality({t \in Task : Busy(t)}) <= MaxOrphans
  /\ \A t \in Task : Busy(t) => orphan[t].stage = "off"
  /\ orphan' = [t \in Task |->
       IF Busy(t)
       THEN [stage |-> IF Active(t) THEN stage[t] ELSE "queued",
             reads |-> reads[t], present |-> present[t], written |-> written[t]]
       ELSE orphan[t]]

Plan(target, force) ==
  LET S == Closure(target)
      stale == StaleIn(S, force)
      Say(status) == [status |-> status, closure |-> S, verified |-> {}]
  IN  /\ Idle /\ ClockStep /\ BesideWorkers
      /\ LeaveBehind /\ AllOff
      /\ cancelled' = FALSE
      /\ \/ MissingSource(S) /\ run' = NoRun /\ report' = Say("refused")
         \/ /\ ~MissingSource(S) /\ stale = {}
            /\ run' = NoRun /\ report' = Say("uptodate")
         \/ /\ ~MissingSource(S) /\ stale # {}
            /\ \E p \in TopoOrders, j \in Jobs :
                 run' = [NoRun EXCEPT !.pc = "loop", !.jobs = j, !.closure = S,
                                      !.toRun = stale, !.pos = p]
            /\ report' = NoReport
      /\ UNCHANGED files

Cancel == /\ ~Idle /\ ~cancelled /\ cancelled' = TRUE
          /\ UNCHANGED <<files, now, frame, future, run, report, left>>

Ending(status, verified) ==
  /\ run' = NoRun
  /\ report' = [status |-> status, closure |-> run.closure,
                verified |-> verified]
  /\ future' = [t \in Task |-> "none"]
  /\ UNCHANGED <<files, now, frame, cancelled, left>>

\* run lets a late cancellation stand only when some planned task did not
\* complete; verified counts executed tasks and completed ones of the batch.
EndRun(status) ==
  LET verified == run.executed \cup run.done
  IN  Ending(IF ~cancelled THEN status
             ELSE IF verified = run.toRun THEN "completed" ELSE "aborted",
             verified)

AllDone == run.pc = "loop" /\ Pending = {} /\ EndRun("completed")

Abort == run.pc = "loop" /\ Pending # {} /\ cancelled /\ EndRun("aborted")

-----------------------------------------------------------------------------
(* _execute and _run_parallel_batch. *)

RunInline(t) ==
  /\ run.pc = "loop" /\ ~cancelled /\ IsHead(t) /\ ~Pooled(t)
  /\ run' = [run EXCEPT !.pc = "inline", !.batch = {t}]
  /\ future' = [future EXCEPT ![t] = "queued"]
  /\ UNCHANGED <<files, now, frame, cancelled, report, left>>

InlineDone(t) ==
  /\ run.pc = "inline" /\ t \in run.batch
  /\ \/ /\ future[t] = "ok"
        /\ run' = [run EXCEPT !.pc = "loop", !.batch = {},
                              !.executed = @ \cup {t}]
        /\ future' = [future EXCEPT ![t] = "none"]
        /\ UNCHANGED <<files, now, frame, cancelled, report, left>>
     \/ future[t] = "error" /\ EndRun("failed")

\* (Mistaken: every pending member of the group.)
WholeGroupOf(h) == {t \in Pending : Group[t] = Group[h]}
BatchOf(h) == {t \in Pending : Group[t] = Group[h] /\ Ready(t)}

\* Submission stops at the first task the pool does not accept.
RunBatch(h) ==
  /\ run.pc = "loop" /\ ~cancelled /\ IsHead(h) /\ Pooled(h)
  /\ \E sub \in SUBSET BatchOf(h) :
       /\ \A t \in sub, u \in BatchOf(h) \ sub : run.pos[t] < run.pos[u]
       /\ future' = [t \in Task |-> IF t \in sub THEN "queued" ELSE "none"]
       /\ run' = [run EXCEPT !.pc = "batch", !.batch = BatchOf(h),
                             !.failed = (sub # BatchOf(h))]
  /\ UNCHANGED <<files, now, frame, cancelled, report, left>>

\* The pool or its startup probe fails: nothing is run in this process instead.
BatchUnstartable(h) ==
  /\ run.pc = "loop" /\ ~cancelled /\ IsHead(h) /\ Pooled(h)
  /\ EndRun("aborted")

\* (Mistaken: a task counts as completed when its future settles.)
CollectSettled(t) ==
  /\ run.pc = "batch" /\ future[t] \in {"ok", "error"}
  /\ run' = [run EXCEPT !.done = @ \cup {t},
                        !.failed = @ \/ future[t] = "error"]
  /\ future' = [future EXCEPT ![t] = "none"]
  /\ UNCHANGED <<files, now, frame, cancelled, report, left>>

\* (Mistaken: the error of a future escapes the loop.)
CollectResults(t) ==
  /\ run.pc = "batch" /\ future[t] = "ok"
  /\ run' = [run EXCEPT !.done = @ \cup {t}]
  /\ future' = [future EXCEPT ![t] = "none"]
  /\ UNCHANGED <<files, now, frame, cancelled, report, left>>

Collect(t) ==
  /\ run.pc = "batch" /\ future[t] \in {"ok", "error"}
  /\ LET good == future[t] = "ok" /\ \A o \in Outputs[t] : Exists(o)
     IN  run' = IF good THEN [run EXCEPT !.done = @ \cup {t}]
                        ELSE [run EXCEPT !.failed = TRUE]
  /\ future' = [future EXCEPT ![t] = "none"]
  /\ UNCHANGED <<files, now, frame, cancelled, report, left>>

\* pool.shutdown(wait=True) returns when every worker is gone.
BatchDone ==
  /\ run.pc = "batch" /\ ~cancelled
  /\ \A t \in Task : future[t] = "none" /\ ~Active(t)
  /\ \/ run.failed /\ EndRun("failed")
     \/ /\ ~run.failed
        /\ run' = [run EXCEPT !.pc = "loop", !.batch = {}, !.done = {},
                              !.executed = @ \cup run.batch]
        /\ UNCHANGED <<files, now, frame, future, cancelled, report, left>>

\* _terminate_pool: results not yet collected are never counted.
Terminate ==
  /\ run.pc = "batch" /\ cancelled
  /\ run' = [run EXCEPT !.pc = "terminating"]
  /\ UNCHANGED <<files, now, frame, future, cancelled, report, left>>

Terminated ==
  /\ run.pc = "terminating" /\ \A t \in Task : ~InFlight(t) /\ ~Active(t)
  /\ EndRun("aborted")

\* The runner's process dies; pool workers outlive it for a moment.
Crash ==
  /\ ~Idle /\ run' = [NoRun EXCEPT !.jobs = run.jobs] /\ report' = NoReport
  /\ IF run.pc = "inline"
     THEN AllOff ELSE UNCHANGED <<frame, future>>
  /\ UNCHANGED <<files, now, cancelled, left>>

-----------------------------------------------------------------------------
(* _execute_task, inline or in a pool worker. *)

Leave(t) ==
  /\ stage' = [stage EXCEPT ![t] = "off"]
  /\ reads' = [reads EXCEPT ![t] = Nothing(t)]
  /\ present' = [present EXCEPT ![t] = {}]
  /\ written' = [written EXCEPT ![t] = {}]

Stops(t, result) ==
  /\ Leave(t)
  /\ future' = [future EXCEPT ![t] = IF @ = "running" THEN result ELSE @]
  /\ UNCHANGED <<now, run, cancelled, report, left>>

Begin(t) ==
  /\ future[t] = "queued"
  /\ Cardinality({u \in Task : future[u] = "running"}) < run.jobs
  /\ marker' = [marker EXCEPT ![t] = NoMarker]
  /\ \/ /\ \E f \in Inputs[t] : ~Exists(f)
        /\ future' = [future EXCEPT ![t] = "error"] /\ UNCHANGED frame
     \/ /\ \A f \in Inputs[t] : Exists(f)
        /\ future' = [future EXCEPT ![t] = "running"]
        /\ stage' = [stage EXCEPT ![t] = "reading"]
        /\ present' = [present EXCEPT ![t] = OptionalPresence(t)]
        /\ UNCHANGED <<reads, written>>
  /\ UNCHANGED <<content, mtime, now, run, cancelled, report, left>>

\* fn reads its inputs ...
Read(t) ==
  /\ stage[t] = "reading"
  /\ stage' = [stage EXCEPT ![t] = "writing"]
  /\ reads' = [reads EXCEPT ![t] = ReadNow(t)]
  /\ UNCHANGED <<files, now, present, written, future, run, cancelled, report,
                 left>>

\* ... writes its outputs one by one, each torn at first ...
Write(t, o) ==
  /\ stage[t] = "writing" /\ o \in Outputs[t] \ written[t]
  /\ \/ /\ content[o] # Torn /\ content' = [content EXCEPT ![o] = Torn]
        /\ UNCHANGED written
     \/ /\ content[o] = Torn
        /\ content' = [content EXCEPT ![o] = Built(t, o, reads[t])]
        /\ written' = [written EXCEPT ![t] = @ \cup {o}]
  /\ mtime' = [mtime EXCEPT ![o] = now]
  /\ UNCHANGED <<marker, now, stage, reads, present, future, run, cancelled, report,
                 left>>

\* ... raises ...
Raise(t) ==
  /\ stage[t] \in {"reading", "writing"} /\ Stops(t, "error")
  /\ UNCHANGED files

\* (Mistaken: an output as old as its newest input is left alone.)
OlderThan(t, m) == {o \in Outputs[t] : mtime[o] < m}
\* _order_output_mtimes: the outputs to move past the newest input.
NotNewerThan(t, m) == {o \in Outputs[t] : mtime[o] <= m}

\* _order_output_mtimes: past the newest input there is.
OrderOutputs(t) ==
  LET seen == {mtime[f] : f \in {d \in Deps(t) : Exists(d)}}
  IN  \/ seen = {} /\ UNCHANGED mtime
      \/ \E newest \in seen :
           /\ \A m \in seen : m <= newest
           /\ mtime' = [f \in File |-> IF f \in NotNewerThan(t, newest)
                                      THEN newest + 1 ELSE mtime[f]]

\* ... or returns, having rewritten every output there was. _verify_outputs
\* and _order_output_mtimes follow.
Return(t) ==
  /\ stage[t] = "writing"
  /\ \A o \in Outputs[t] \ written[t] : ~Exists(o)
  /\ \/ /\ \E o \in Outputs[t] : ~Exists(o)
        /\ Stops(t, "error") /\ UNCHANGED files
     \/ /\ \A o \in Outputs[t] : Exists(o)
        /\ stage' = [stage EXCEPT ![t] = "ordered"]
        /\ OrderOutputs(t)
        /\ UNCHANGED <<content, marker, now, reads, present, written, future,
                       run, cancelled, report, left>>

Publish(t) ==
  /\ stage[t] = "ordered" /\ Stops(t, "ok")
  /\ marker' = [marker EXCEPT ![t] = present[t]]
  /\ UNCHANGED <<content, mtime>>

\* A pool worker dies by itself: every unfinished future of the pool fails,
\* and the executor kills the other workers before its shutdown returns.
WorkerDies(t) ==
  /\ run.pc = "batch" /\ future[t] = "running"
  /\ future' = [u \in Task |-> IF InFlight(u) THEN "error" ELSE future[u]]
  /\ Leave(t)
  /\ UNCHANGED <<files, now, run, cancelled, report, left>>

\* A worker is killed: its pool broke, is being terminated, or lost its parent.
Killed(t) ==
  /\ \/ InFlight(t) /\ run.pc \in {"idle", "terminating"}
     \/ Active(t) /\ future[t] # "running"
  /\ Leave(t)
  /\ future' = [future EXCEPT ![t] = IF InFlight(t) THEN "none" ELSE @]
  /\ UNCHANGED <<files, now, run, cancelled, report, left>>

-----------------------------------------------------------------------------
(* _execute_task in a worker of a crashed run, beside a later run.  It     *)
(* takes the same steps; nobody awaits its result.                         *)

OrphanAt(t, place) == orphan[t].stage = place

OrphanBegins(t) ==
  /\ OrphanAt(t, "queued")
  /\ marker' = [marker EXCEPT ![t] = NoMarker]
  /\ \/ (\E f \in Inputs[t] : ~Exists(f)) /\ orphan' = [orphan EXCEPT ![t] = Gone(t)]
     \/ /\ \A f \in Inputs[t] : Exists(f)
        /\ orphan' = [orphan EXCEPT ![t].stage = "reading",
                                     ![t].present = OptionalPresence(t)]
  /\ UNCHANGED <<content, mtime>>

OrphanReads(t) ==
  /\ OrphanAt(t, "reading")
  /\ orphan' = [orphan EXCEPT ![t].stage = "writing", ![t].reads = ReadNow(t)]
  /\ UNCHANGED files

\* Two workers may have the same output open: then what the one leaves may be
\* cut into by the other.
OrphanWrites(t, o) ==
  /\ OrphanAt(t, "writing") /\ o \in Outputs[t] \ orphan[t].written
  /\ \/ /\ content' = [content EXCEPT ![o] = Torn]
        /\ UNCHANGED orphan
     \/ /\ content[o] = Torn
        /\ content' = [content EXCEPT ![o] = Built(t, o, orphan[t].reads)]
        /\ orphan' = [orphan EXCEPT ![t].written = @ \cup {o}]
  /\ mtime' = [mtime EXCEPT ![o] = now]
  /\ UNCHANGED marker

OrphanReturns(t) ==
  /\ OrphanAt(t, "writing")
  /\ \A o \in Outputs[t] \ orphan[t].written : ~Exists(o)
  /\ \A o \in Outputs[t] : Exists(o)
  /\ orphan' = [orphan EXCEPT ![t].stage = "ordered"]
  /\ OrderOutputs(t)
  /\ UNCHANGED <<content, marker>>

OrphanPublishes(t) ==
  /\ OrphanAt(t, "ordered") /\ orphan' = [orphan EXCEPT ![t] = Gone(t)]
  /\ marker' = [marker EXCEPT ![t] = orphan[t].present]
  /\ UNCHANGED <<content, mtime>>

\* It raises, finds an output missing, or its parent watch ends it.
OrphanEnds(t) ==
  /\ ~OrphanAt(t, "off") /\ orphan' = [orphan EXCEPT ![t] = Gone(t)]
  /\ UNCHANGED files

OrphanStep(t) ==
  /\ \/ OrphanBegins(t) \/ OrphanReads(t) \/ (\E o \in Outputs[t] : OrphanWrites(t, o))
     \/ OrphanReturns(t) \/ OrphanPublishes(t) \/ OrphanEnds(t)
  /\ UNCHANGED <<now, frame, future, run, cancelled, report, suspect>>

-----------------------------------------------------------------------------
TaskStep(t) ==
  \/ Begin(t) \/ Read(t) \/ (\E o \in Outputs[t] : Write(t, o))
  \/ Raise(t) \/ Return(t) \/ Publish(t)

RunnerStep ==
  \/ AllDone \/ Abort \/ BatchDone \/ Terminate \/ Terminated
  \/ \E t \in Task : \/ RunInline(t) \/ InlineDone(t) \/ RunBatch(t)
                     \/ Collect(t) \/ Killed(t)

Next ==
  \/ RunnerStep \/ Advance \/ Cancel \/ Crash
  \/ \E t \in Task : \/ TaskStep(t) \/ OrphanStep(t) \/ WorkerDies(t) \/ BatchUnstartable(t)
                     \/ \E force \in BOOLEAN : Plan(t, force)
  \/ \E f \in File : Edit(f) \/ Remove(f)

Spec == Init /\ [][Next]_vars

-----------------------------------------------------------------------------
(* Properties. *)

Status ==
  {"none", "refused", "uptodate", "completed", "failed", "aborted"}

FilesOK ==
  /\ DOMAIN content = File
  /\ mtime \in [File -> Nat]
  /\ marker \in [Task -> {NoMarker} \cup SUBSET File]
  /\ now \in Nat

FrameOK ==
  /\ stage \in [Task -> {"off", "reading", "writing", "ordered"}]
  /\ DOMAIN reads = Task
  /\ present \in [Task -> SUBSET File]
  /\ \A t \in Task : present[t] \subseteq OptInputs[t]
  /\ written \in [Task -> SUBSET File]

Run ==
  [pc : {"idle", "loop", "inline", "batch", "terminating"},
   jobs : Nat, closure : SUBSET Task, toRun : SUBSET Task, pos : [Task -> Nat],
   executed : SUBSET Task, batch : SUBSET Task, done : SUBSET Task,
   failed : BOOLEAN]
Report == [status : Status, closure : SUBSET Task, verified : SUBSET Task]

RunOK ==
  /\ future \in [Task -> {"none", "queued", "running", "ok", "error"}]
  /\ run \in Run /\ cancelled \in BOOLEAN /\ report \in Report

OrphanOK ==
  /\ DOMAIN orphan = Task /\ suspect \subseteq Task
  /\ \A t \in Task :
       /\ DOMAIN orphan[t] = {"stage", "reads", "present", "written"}
       /\ orphan[t].stage \in {"off", "queued", "reading", "writing", "ordered"}
       /\ orphan[t].present \subseteq OptInputs[t]

TypeOK == FilesOK /\ FrameOK /\ RunOK /\ OrphanOK

\* The outputs of t are what fn makes of the inputs as they are now.
Consistent(t) == \A o \in Outputs[t] : content[o] = Built(t, o, ReadNow(t))

\* Whatever was interrupted, failed, cancelled or edited before, a task that
\* the next plan calls unchanged has the outputs its inputs call for.  Where
\* someone acted beside a worker that a crashed run had left, this is lost for
\* the task of that worker and what depends on it, and for nothing else.
NoFalseUpToDate ==
  Idle => \A target \in Task :
    LET S == Closure(target)
    IN  ~MissingSource(S) =>
          \A t \in S \ StaleIn(S, FALSE) : Sound(t) => Consistent(t)

\* A run that reports success left every task of its target consistent, and a
\* second run of it has nothing to do (those that are sound, as above).
SuccessIsCurrent ==
  report.status \in {"completed", "uptodate"} =>
    \A t \in report.closure : Sound(t) => Consistent(t) /\ ~DirectlyStale(t)

\* No task runs while the producer of one of its inputs does: not in one run,
\* also after its crash, while its workers go on; nor beside a worker that an
\* earlier run left, unless the task depends on one that had such a worker.
Lingers(t) == orphan[t].stage # "off"
NoReadWriteOverlap ==
  \A t, u \in Task : Active(u) /\ (Active(t) \/ (Lingers(t) /\ Sound(u))) =>
    Outputs[t] \cap Deps(u) = {}

\* Why that holds: the tasks handed out together do not depend on each other,
\* and nothing is left running when the next ones are handed out.
Isolation ==
  /\ \A t, u \in Task : Busy(t) /\ Busy(u) => t \notin Upstream(u)
  /\ run.pc = "loop" => \A t \in Task : ~Busy(t)
  /\ run.pc = "inline" =>
       /\ \E b \in Task : run.batch = {b} /\ \A t \in Task : Busy(t) => t = b
       /\ \A t \in Task : Active(t) => future[t] = "running"
  /\ run.pc # "idle" => run.pos \in TopoOrders

\* The task at the head of pending can always run: a batch is never empty and
\* the serial path never runs a task before its producers.
HeadIsReady == run.pc = "loop" => \A t \in Task : IsHead(t) => Ready(t)

\* After a failed or cancelled run the next one repeats none of the tasks that
\* were counted as verified (and are sound).
FinishedWorkIsKept ==
  report.status \in {"failed", "aborted"} =>
    \A t \in report.verified : Sound(t) => t \notin StaleIn(report.closure, FALSE)

\* Every run ends: it succeeds, fails or is aborted, however it is cancelled.
RunEnds == ~Idle ~> Idle

Fairness == WF_vars(RunnerStep \/ \E t \in Task : TaskStep(t))

FairSpec == Spec /\ Fairness

-----------------------------------------------------------------------------
(* The inductive invariant behind the markers and the reports.             *)

Clean(t) == Consistent(t) /\ ~DirectlyStale(t)

\* A task moves its outputs past the newest input by one nanosecond per step
\* of the graph: no further than the clock will be when anyone acts next.
TimesAreNear == \A f \in File : mtime[f] <= now + Rank[f]

\* What a marker says of an output: it was made by the task, from what its
\* reading names; the inputs are as they were then, gone, or newer.
Tells(t, o) ==
  LET r == content[o].from
  IN  /\ content[o] = Built(t, o, r) /\ r = [f \in Deps(t) |-> r[f]]
      /\ marker[t] = {f \in OptInputs[t] : r[f] # Absent}
      /\ \A f \in Deps(t) :
           content[f] = r[f] \/ ~Exists(f) \/ mtime[o] <= mtime[f]
MarkersTell ==
  \A t \in Task : Sound(t) /\ marker[t] # NoMarker =>
    \A o \in Outputs[t] : Exists(o) => Tells(t, o)

\* A task at work has no marker, and nobody touches what it has read, noted or
\* written.
Undisturbed(t) ==
  /\ Active(t) => marker[t] = NoMarker /\ present[t] = OptionalPresence(t)
  /\ stage[t] \in {"writing", "ordered"} => reads[t] = ReadNow(t)
  /\ \A o \in written[t] : o \in Outputs[t] /\ content[o] = Built(t, o, reads[t])
  /\ stage[t] \in {"off", "reading"} => written[t] = {}
  /\ stage[t] = "ordered" =>
       \A o \in Outputs[t] :
         /\ o \in written[t] /\ Exists(o)
         /\ \A f \in Deps(t) : Exists(f) => mtime[f] < mtime[o]
WorkIsUndisturbed == \A t \in Task : Sound(t) => Undisturbed(t)

\* Below a task that may still write, no output lies ahead of the clock.
Ahead(u) == \/ future[u] = "queued" \/ stage[u] \in {"reading", "writing"}
            \/ u \in Pending \ run.batch
NothingIsAhead ==
  \A u, t \in Task : Ahead(u) /\ u \in Upstream(t) /\ Sound(t) =>
    \A o \in Outputs[t] : mtime[o] <= now

\* The tasks of a run are handed out once, each after its producers.
RunIsOrdered ==
  /\ run.batch \subseteq run.toRun \ run.executed /\ run.done \subseteq run.batch
  /\ run.executed \subseteq run.toRun /\ run.toRun \subseteq run.closure
  /\ run.pc = "idle" => run.toRun = {}
  /\ run.pc = "loop" => run.batch = {}
  /\ run.pc = "inline" => run.done = {}
  /\ \A t \in run.executed \cup run.batch :
       Upstream(t) \cap run.toRun \subseteq run.executed
  /\ \A t \in run.closure \ run.toRun : Upstream(t) \cap run.toRun = {}

FuturesAreOfTheBatch ==
  /\ run.pc # "idle" =>
       \A t \in Task : Active(t) \/ future[t] # "none" => t \in run.batch
  /\ \A t \in Task : future[t] \in {"queued", "ok"} => ~Active(t)
  /\ \A t \in run.done : future[t] = "none" /\ ~Active(t)
  /\ run.pc = "batch" /\ ~run.failed =>
       \A t \in run.batch : future[t] = "none" => t \in run.done

\* What a run need not do, and what it has done, stays done.
Settled == (run.closure \ run.toRun) \cup run.executed \cup run.done
DoneIsClean ==
  run.pc # "idle" =>
    \A t \in Task : Sound(t) /\ (t \in Settled \/ future[t] = "ok") => Clean(t)

ReportsAreFinal == report.status # "none" => Quiet

OrphansAreSuspect == \A t \in Task : Lingers(t) => t \in suspect

Safe ==
  /\ TypeOK /\ Isolation
  /\ TimesAreNear /\ MarkersTell /\ WorkIsUndisturbed /\ NothingIsAhead
  /\ RunIsOrdered /\ FuturesAreOfTheBatch /\ DoneIsClean /\ ReportsAreFinal
  /\ OrphansAreSuspect /\ SuccessIsCurrent /\ FinishedWorkIsKept

=============================================================================
