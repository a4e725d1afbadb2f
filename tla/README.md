# A TLA+ model of pstrain

pstrain trains HMM/GMM acoustic models. A Python layer (`src/pstrain/`)
orchestrates native code (`src/csrc/`): it plans and runs a graph of file-to-file
tasks, keeps the native code in a helper process, shards Baum-Welch passes over
worker pools, aligns corpora, publishes model packages and restores checkpoints.
The project models that orchestration: who does what in which order, and what is
left on disk when something fails in between; and, below it, the native algorithm
of one training utterance: from a transcript over its phone graph and its
sentence HMM to the counts that the accumulators keep. Elsewhere the numerical
content of files is a symbolic value.

## Inventory

| Component (source under `src/pstrain/lib/`) | State | Operations | What is hard | What makes it correct |
|---|---|---|---|---|
| Build runner (`pipeline/runner.py`) | files and their mtimes, completion markers, the plan, a process pool | plan, run, cancel, one task, a pooled batch | crashes between output and marker, coarse clock, cancellation races, orphans | nothing stale is called current; success means built |
| Native worker (`native_worker.py`) | helper process, pipe, request ids, objects in the helper | call, start, discard, proxies, exit | deadline against answer, death at any point, resend, late answers | an answer belongs to its request; executed at most once |
| Package publication (`steps/package.py`) | staging, public and backup directories | publish named and unnamed, roll back, clean up | interrupt before or after each rename, failing rollback | old package, new package, never a mixture or a loss |
| Staged model update (`model.py`) | model files, staging, backups | stage, replace, restore | failure between two replacements | all files or none |
| Checkpoints (`checkpoints.py`) | iteration directories, telemetry | list, restore | half-copied checkpoints, stale evidence | what is restored is what was evaluated |
| Baum-Welch training (`steps/train.py`) | model, totals, iteration | pass, retry ladder, sharding, skips, convergence | partial shards, retries, flags per utterance | every utterance accounted for once |
| Retry ladder, pools (`retry_ladder.py`, `bw_pool.py`) | beam rungs, shard workers | climb, contain | parent or worker death | nominal beam restored; no worker left |
| Provenance and timings (`pipeline/tasks.py`, `timings.py`) | stage records | write under a lock | two processes at once | one record per stage |
| Corpus alignment (`alignment/batch.py`, `native.py`, `acceptance.py`) | results, errors, recoveries that wait, yield per rung, the beam in force | open, align, climb, count, calibrate, judge, close | helper lost at any point, judgement after the pass | each utterance in results or errors, as it would end alone |
| Utterance graphs and triphone inventory (`csrc/libs/libcommon/phone_graph*.c`, `mk_phone_list.c`, `cvt2triphone.c`, `csrc/programs/mk_mdef_gen/`) | lexicon, graph of slots, triphone list | read, plan words, split contexts, resolve to senones, list triphones | two builders and the inventory must agree on positions, contexts, fillers | pronunciations are kept; every context met in training has its model |
| Forward-backward and accumulation (`csrc/libs/libcommon/state_seq*.c`, `csrc/programs/bw/`) | sentence HMM, forward lattice, local and global sums | build, bypass the final silence, forward, prune, backward, accumulate, retry | non-emitting states, pruning, sums left by a failed utterance | counts are the expectations over all alignments |

Feature extraction, corpus and dictionary handling, model initialisation, tying,
decoding tests, the native kernels, the Windows package path, the command line
and the maintenance scripts are listed in `PROJECT.json` with the reason why they
have no model: they are sequential transformations of files, or numbers.

### How the parts interact

* A command builds a task graph and hands it to the **build runner**. A task
  is a Python function that reads and writes files; the runner and the tasks
  share nothing but the file system, the completion markers and, for a parallel
  group, a process pool.
* A task that needs native code calls it through the **native worker** of its
  process: one helper process per owner, requests and replies over a pipe.
* A training task runs **Baum-Welch training** in the process it is in, through
  a native session; with several shards it starts a **pool** whose workers each
  hold a session. Shards come back as files and are merged in shard order.
* The training task writes the **model directory** in place, except after a
  variance floor, where the **staged model update** publishes it; with retention
  it copies each update to a **checkpoint**. `restore_checkpoint` publishes a
  checkpoint through the same staged update and withdraws the completion marker
  and the provenance record that the runner and the task wrote.
* **Package publication** takes a finished model directory and replaces a public
  package by it with renames only.

### What is hard

No single part is long; what can go wrong is between the parts. Processes die
between an output and its marker, between two renames, in the middle of an
utterance. The clock of a file system is too coarse to order two writes.
Interrupts arrive before or after an operation took effect. Worker processes
outlive a coordinator. Requests are repeated on a second helper. The evidence
about a checkpoint is matched by number although files of the same number change.
`PROJECT.json` lists each such hazard at the line where it bites, with the
properties that would notice.

## The modules

| Module | Models | State it keeps | Composes |
|---|---|---|---|
| `Pipeline` | `Pipeline.plan`, `.run`, `.cancel`, `_execute`, `_run_parallel_batch`, `_execute_task` of `pipeline/runner.py` | files with content and mtime, markers, each task's progress, futures, the run's locals | |
| `NativeWorker` | `native_worker.py`: the owner's side of a call, the helper's loop, proxies, exit | the call in progress, request ids, helpers with their pipes and objects | implements `AtMostOnce` |
| `AtMostOnce` | what a contained operation promises | outcome, starts and answer per request | |
| `BWTraining` | `run_bw_training` with shards, retry ladder, pool, accounting and publication | line per shard with its session, pool workers, sums, files, row | implements `Reestimation` |
| `Reestimation` | what a training stage promises | published models, ending | |
| `AlignmentBatch` | `align_corpus` of `alignment/batch.py` with the parts of `native.py` and `acceptance.py` it drives | utterance at hand, beam, tables of the job, yield, calibration | |
| `UtteranceTraining` | `pstrain_bw_process_utt_mfcc` over a session: build, forward, backward, accumulate, retry (`programs/bw/*.c`); and `pstrain_mdef_gen_untied` before it | inventory, state sequence, lattice, local and session sums | `PhoneGraph`, `TriphoneInventory`, `SentenceHMM` |
| `PhoneGraph` | lexicon, `mk_phone_graph`, `mk_phone_list`, `phone_graph_split_contexts`, both `cvt2triphone`s | pure | |
| `TriphoneInventory` | the three ways `mk_mdef_gen` lists triphones | pure | uses `PhoneGraph` |
| `SentenceHMM` | `state_seq_make_graph`, `state_seq_make`, `add_boundary_bypass` | pure | |
| `AlignmentReference` | nothing in the code: the alignments of an utterance one by one, the reference for both passes | | over `UtteranceTraining`, for TLC only |
| `Checkpoints` | `checkpoints.py`, `staged_model_update`, and the parts of `train.py` and the runner that write what they read | model directory, checkpoints, report, markers, staging and durable backups | |
| `PackageTransaction` | the descriptor transactions of `steps/package.py` | place of every file object, entries retained and installed | |

`MC*` modules hold the instances for TLC, `*Proofs` modules the proofs. The `map`
of `PROJECT.json` gives the source lines of every definition that models code.
Definitions marked "(Mistaken: ...)" are plausible bugs; no specification uses
them, each is there to show that a property notices it.

### Pipeline

The content of an output is the term `Built(t, o, r)` over what the task read, so
that "stale" is not a matter of timestamps in the model: two outputs are equal
only if they come from the same sources. `StaleIn`, on the other hand, is the
code's comparison of times and recorded optional inputs. `Plan` is `plan` with
the start of `run`; `RunInline`/`InlineDone` and
`RunBatch`/`Collect`/`BatchDone`/`Terminate` are the two branches of `_execute`;
`Begin`, `Read`, `Write`, `Return`, `Publish` are the steps of `_execute_task`,
which withdraws the marker first, orders output times behind input times, and
writes the marker last. `Crash` kills the coordinator and leaves the workers to
notice (`Killed`). Nothing waits for that: `Plan`, `Edit` and `Remove` ask only
that no run is at work. A run that starts first takes over the tables of
progress, so `LeaveBehind` moves what the old workers are doing to `orphan`, and
`OrphanStep` lets them go on beside it: they withdraw and publish markers, tear,
write and order the same outputs, until they end. `suspect` records the tasks that
had such a worker when somebody acted beside it. What the runner promises is then
lost for these tasks and for what depends on them, and the properties say so: they
speak of the tasks that are `Sound`, with no suspect in their closure. That is all
of them as long as nobody acts in the 0.2 s in which orphans live.

### NativeWorker

The owner's variables follow one call through `spawning`, `starting`, `sending`,
`waiting`, `receiving` and `discarding`; the helper's variables are indexed by helper because
an owner that gave up may have left one behind. A request in a pipe is whole or
cut off. An answer need not fit into the pipe: `ReplySome` puts its beginning there
(`begun`), after which the caller is in `receiving`, where no deadline applies
(`BeginReceive`), until the helper has written the rest (`Reply`) or is gone; a
helper that dies in between ends `recv` with an error that nobody classifies
(`WaitIsReset`). `SendFails` is the first failed send, which replaces the helper and
sends once more; `HelperLost` is end-of-file after the send, which is never
repeated. `Interrupt` is a `KeyboardInterrupt` at a blocking call;
`InterruptedReceive` is one inside `recv`, which has taken a part of a message and
leaves the `Rest` in the pipe for the next `recv` to misread (`GarbledReply`).
`CollectInCall` is a wrapper's finalizer that the collector runs inside a call.
An exit of the owner is `BeginExit`, `CloseSends` (the `send(None)` of `close()`,
which has no deadline and may find no room behind an unread request: `Unread`),
`CloseJoins` (the join and kill of `_discard`) and `EndExit`; `OwnerDies` is its
sudden end.

### BWTraining

A sum is not a number but how often each utterance is in it; whether an utterance
aligns, at which rung of the retry ladder, or raises is drawn at the start of a
pass (`nature`) from the verdicts of the instance. A line is a shard or the
coordinator's own loop; its session keeps the beam that is in force, the sums of
the current utterance (`local`) and those of the pass (`acc`), as
`pstrain_bw.c` does. Native processes die in an utterance, pool workers die,
the coordinator is interrupted in any phase or killed; `GiveUp` and `reaping` are
the clean-up of `contained_bw_pool`, and `WatchExit` is the watch a worker keeps
on its parent.

### AlignmentBatch

The corpus says of each utterance whether its audio is there, readable and long
enough, at which rung of the ladder a search first reaches the final state, and
how it scores; everything else is the code's. `NextUtterance` to `CountFailure`
are one turn of the loop of `align_corpus`, split where the helper can be lost:
`AlignAudio` and `ClimbRung` run in it, `Answer` and `CountFailure` in the caller,
which keeps the yield. `LoseHelper` may come at any time; a fresh helper does not
know the aligner, so that every later call fails. After the pass,
`CalibrateRung` takes the threshold of each rung that recovered something from
the run's own first-pass alignments, and `Judge` files what waited. `Close` may
raise, and then no job is returned. The quantile of the model is the lower
quartile and its sample limits are constants; the defaults are 5 %, 20 and 200.
`minimum_frames` never fails here, and a rung never fails for another reason than
the final state.

### UtteranceTraining

A session goes from `start` over a written inventory (`Generate`) through the
utterances it is given: `NextUttStatesGraph` or `NextUttStates` build the state
sequence on one of the two builders, `ForwardFrame` and `BackwardFrame` take a
frame each, `BackwardEnd` adds the local sums to the session's,
`FinalStateNotReached` is the failed final-state test with its diagnosis and the
retry. The ladder is a single wider beam, since further rungs repeat it.
`PhoneGraph` has slots with alternatives where the C code has linked nodes;
`SplitContexts` copies slots per left and right context. A weight is a fraction
of small integers and a density a small integer, so that sums are exact: there is
no scaling, underflow or logarithm, and a beam keeps or drops by comparing
exact products. Gaussian sums (the same posteriors with other weights) are left
out. Triphone thresholds are "counted or not". The reference of
`CountsAreExpectations` enumerates every path through the state sequence and
knows nothing of the passes.

Three things the model makes visible that no property calls wrong. `forward.c`
enters no exit in the first frame, so a sequence whose shortest path has one
emitting state cannot end after one frame; `_infeasible_frame_budget`
(`steps/train.py:453`) finds one frame enough, and the utterance is tried again in
vain. A variant whose first phone has several
neighbours is split into several first slots, each an arc of its own, so that `k`
variants do not get the uniform `1/k` of `docs/design/multi-pron-training.md:16`.
The map of active states in `forward.c:208`
holds 16-bit indices; the sequences of the model are far shorter.

### Checkpoints

A file is the mapping it belongs to with the update that wrote it, absent, or
torn. `StartStage` to `MarkComplete` follow a training task over the directory;
`StartRestore` to `CleanUpFailed` follow `restore_checkpoint`. In `StageFails` and
`PublishFails` the step fails before, in the middle of, or after its effect.
`Status` is the evidence rule of `list_checkpoints`. Stages and restorations
alternate freely; the user may edit checkpoints at any time.

### PackageTransaction

The named and the unnamed transaction have the same phases and one model with a
parameter. `place` says where each object is, so that renames by name and checks
by identity can disagree. `Rename` is the system call, which may raise before or
after it took effect; `Reconcile` is what `_move_reconciled` finds out
afterwards; `LookBack` is the second look of `_restore_open_entry` when the name
turns out to hold another object than the one opened. `Meddle` is another
process at the exposed names.

## What the runs show

| Run | Bounds | States | Shows |
|---|---|---|---|
| `pipeline_run` | four tasks, three of one parallel group, one of which needs the other two through the fourth, with two outputs; an optional source and an optional product; sources of one content at first and of two later; one or two jobs; two clock steps; edits between runs; one worker of an earlier run; fair | 620k | no false "up to date", success is current, no overlap, finished work is not repeated, also beside a worker that a crashed run left; every run ends |
| `native_calls` | three calls, two helpers, one object, interrupts outside send and recv, finalizers | 4.8M | answers belong to requests, at most once, requests accounted for, clean results |
| `native_ends` | two calls, two helpers, one object, interrupts wherever the owner blocks in a call, inside a recv and in the join of a discard too, fair owner | 361k | a call ends if an answer once begun is finished; an exit ends unless the send of `close()` has no room or an interrupted discard left a helper; orphans end |
| `native_reset` | one call, one helper | violation | the error of a connection that a dead helper has reset, or cut off inside an answer, escapes unclassified |
| `native_reentry` | three calls, a finalizer in a call, fair owner | violation | a finalizer that needs the lock its own thread holds never returns |
| `bw_pass` | three utterances, two shards, two passes, six settings (in one the skip budget covers every utterance), one native crash | 2.5M | partition independence, counted once, files agree, refinement |
| `bw_ends` | two utterances, two shards, three passes, three likelihoods, one crash, fair | 151k | endings are justified; the stage ends; orphans exit |
| `checkpoint_recovery` | two passes, two mappings, two updates, two stages, one restoration, two faults, one edit | 4.2M | evidence, markers, all-or-nothing, nothing lost, mapping kept |
| `package_replace` | three entries over any part of an old package, three faults, two moves by others | 1.2M | nothing unapproved removed, old package kept, one package at the end |
| `utterance_training` | graph sessions: two words of up to two pronunciations from six, with pauses, noises, unknown words and empty transcripts, on both builders, every inventory policy, with and without the bypass; scoring sessions: two to six frames over all sequences of three sounds with densities 0 to 2, one or two states per phone, forward beams with one retry, backward beams | 84k | paths kept, contexts modelled, builders agree, HMMs stochastic, counts are expectations, outcomes justified |
| `bypass_counts` | the bypass of the final silence after a pause | violation | an arc between two exits is counted as a transition inside a phone, past the rows of the accumulator |
| `alignment_batch` | corpora of up to four utterances of eleven kinds, two rungs, four settings, a sample of two, a helper lost at any step | 4.6M | jobs are accounted for; outcomes do not depend on what came before |

Why the bounds suffice. *Pipeline*: an error of staleness needs a producer, a
consumer and one task between them, an interrupted run, and a second one; a clock
step is longer than a write, so that writes share a tick. From `now = Tick`,
`MaxTime = 3` leaves two steps, one for each run or edit: TLC sees a run and what
the next plan would make of an edit, of a crash or of a second run beside the
worker of a crashed one. That a third step (run, edit, run) adds nothing is shown
by the proofs only (`UpToDateIsTrue`, `SuccessIsTrue`): with it the state space does
not fit into five minutes. The group with a dependency
through a task outside it is the shape in which batching by group goes wrong.
*NativeWorker*: a late answer must meet a later request, and
a third call must reuse what the second left; two helpers are the resend. For an
end it takes one call that leaves something in the pipe and one that meets it.
*BWTraining*: three utterances on two shards make a shard with two utterances,
where what the first leaves in the session can disturb the second; two passes
carry state from one to the next, three are needed for convergence after
a regression. *Checkpoints*: two stages are needed for stale evidence, two faults
for a failure and a failing rollback. *PackageTransaction*: three entries have a
first, a middle and a last one; two faults make a failing rollback, the third a
failing clean-up after it. *UtteranceTraining*: two words meet at one boundary
with every pair of contexts, fillers and pauses on either side; a second utterance
meets what the first left in the session; the frames reach past the shortest
path by one or two, so that loops, skips and pruning at both ends differ.
*AlignmentBatch*: a sample of two out of three first-pass alignments is uneven, a
recovery can come before, between or after them, two rungs recover different
utterances, and a lost helper separates any two of these.

The three violations are disagreements between a sentence of the repository and
the code; `PROJECT.json` quotes them under `findings`.

### Fairness

`pipeline_run` assumes that as long as the runner or a task can take a step, one of
them does: the executor returns finished futures and a task function ends.
Cancellation, crashes and the workers of an earlier run are not fair. `native_ends`
assumes that the owner is scheduled and its deadline passes; the helper may hang for
ever. Two waits of the owner have no deadline in the code, and the properties name
them instead of assuming them away: `recv` inside an answer, so that `CallEnds`
holds if an answer whose first part is in the pipe is written to its end or its
helper goes, and unless an interrupt has left the rest of a message there
(`Misread`); and the `send(None)` of `close()`, so that `ExitEnds` excepts an owner
that waits there behind an unread request (`Unread`). It excepts one more: an
interrupt in the join of `_discard` leaves a helper that is neither the owner's nor
killed (`Forgotten`), and `multiprocessing` joins it without a timeout. `NoOrphan` adds that native
operations return, since an operation that never returns cannot see its pipe
closed. `bw_ends` assumes that the coordinator, its lines and its pool workers
run, that the executor notices a dead worker, and that a worker's watch notices a
dead parent. `utterance_training` and `alignment_batch` are sequential but for
losses and check safety only. Nothing is fair about crashes, interrupts or failing writes.

## What is proved

The proofs hold for all values of the constants that satisfy the named
assumptions; bounds on faults, edits and calls are arbitrary natural numbers
there.

* `PipelineProofs` — for every acyclic graph in which no two tasks share an
  output (`GraphAssumption`). Types, and `Isolation`: tasks handed out together are
  independent, because a batch holds only tasks with all producers executed, and
  nothing is left running when the runner is between batches. From it
  `HeadIsReady`. Workers of an earlier run are at suspect tasks only
  (`OrphansAreSuspect`), so what they do leaves the marker, the outputs and the inputs
  of every sound task alone (`OrphanShape`); with `Isolation` that gives
  `NoReadWriteOverlap`. On top, `Safe`: a file's time is ahead of the clock by no more
  than its depth in the graph, and not at all below a task that may still write
  (`TimesAreNear`, `NothingIsAhead`); under the marker of a sound task each output names what it was
  built from, and an input that has changed since is gone or as new
  (`MarkersTell`); what a task at work has read is still what is on disk
  (`WorkIsUndisturbed`); and what the runner counts as done is current
  (`DoneIsClean`). From it `NoFalseUpToDate`,
  `SuccessIsCurrent` and `FinishedWorkIsKept`.
* `NativeWorkerProofs` — `TypeOK /\ Accounted` is inductive (`TypeCorrect`, `AccountedAlways`); it says where a
  request can be at each point of a call: ids are fresh, a request is whole in one
  pipe or was started and never both, an answer on its way is the one the
  operation came to. From it: `AnswerIsOwn`, the refinement of `AtMostOnce`
  (`KeepsPromise`), and `OneHelper` if no interrupt hits the join in `_discard`.
  `ResultsAreClean` holds if no interrupt hits a send or a `recv`: the one
  makes `close` forget an object that its helper still holds, and the theorem would be
  false; after the other the helper goes on with a torn stream, of which the proof's
  invariant says nothing (its conjunct `Whole`: no message is torn). `Tidy` is inductive under `Accounted`: what is of the current call is the last
  thing in its helper's pipes; the helper in use holds the objects its owner has
  open and no others, unless something older than the current call comes before its
  answer (`Stale`); a helper with lingering session state has an object. A call whose
  answer is not stale therefore started in a helper without objects.
* `BWTrainingProofs` — for every manifest, number of shards and workers, ladder and
  policy. `Safe` says of each line, at each of its steps, which utterances its sums
  hold and that the beam is the one of its rung (`LineIsAccounted`, `LadderIsKept`),
  of the pool what a worker may be doing in each phase (`PoolIsKept`), of the
  coordinator that its sums are those of the lines it has merged (`SumIsKept`), and
  of the files and the trail of likelihoods what the phase implies
  (`StoreIsKept`, `TrailIsKept`). The partition of the manifest is shown to
  share it out for both ways of placing the remainder. From `Safe`:
  `PartitionIndependent`, `CountedOnce`, `FilesAgree`, `EndIsJustified`, and step by
  step the refinement of `Reestimation` (`Refines`).
* `AlignmentBatchProofs` — for every corpus, ladder, setting and sample size.
  `JobIsAccounted` speaks of the end only; `BatchInv` says at every step that
  the utterances seen are filed once each in results, errors or the recoveries
  that wait, and that what a rung recovered is the sum of what it has in each.
  The proof is one lemma per kind of step over the sizes of those sets.
  `OwnInv` is inductive beside it: the beam is nominal between searches, a climb has
  passed only rungs that cannot help, each calibrated threshold is that of the
  sample unless the helper was lost before, and with a deferred check nothing
  recovered is filed before there is a threshold. From it `OutcomesAreOwn`. What
  the quantile of a sample is does not matter to the argument: `ThresholdOf` is never
  expanded.
* `CheckpointsProofs` — `Safe` is inductive: the marker is withdrawn before a step
  that touches a file, what a step has left to write is never the mdef, and a
  healthy row is of a scored snapshot. From it `MarkerMeansComplete` and
  `HealthyIsEarned`, for any number of stages, restorations, faults and edits.
  `Restorable` is inductive under it: a stage writes its own mapping only, the
  checkpoints of a stage are of one mapping, a restoration has published exactly
  the files that are no longer in `todo`, and the backup holds what was replaced.
  From it `RestoreIsAllOrNothing`, `NothingIsLost` and `MappingIsKept`.
* `PackageTransactionProofs` — `Safe` is inductive: what was retained is what
  validation accepted, what was installed is the new entry of that name, the
  recovery directory is there while anything is in it. From it
  `OnlyApprovedIsRemoved` and `OldIsKept`, under any number of errors and of moves
  by other processes. `EndsWhole` needs `Whole`, which says of each entry how far it
  is: the phase and the position divide the entries into those done, the one at
  hand and those to come, and while no other process acts and one error at most has
  happened, an entry of each kind has its old and new object in a known place.
  It assumes that the entries of a package have different names
  (`NamesAssumption`): they are file names of one directory.
* `SentenceProofs` and, over it, `UtteranceTrainingProofs` — for every dictionary and
  transcript. They assume that these are sequences and the options flags
  (`SetupsAssumption`), that the rows of a transition matrix add up to one
  (`MatricesAssumption`), that a transcript ends in `</s>`, which has one
  pronunciation, a filler's (`EndsAssumption`), and that the integer which stands for
  one can be divided by twice each fan-out (`SharesAssumption`: a choice of the
  model's unit, no statement about the code). The second module, of `TypeOK` and of
  what follows it below, also uses that frames, densities and beams are natural
  numbers (`ScoresAssumption`) and that a topology has no transition back
  (`LeftToRightAssumption`: `create_topology_file`, `lib/flat.py:70`, writes none).
  What the graph, the HMM and the model definition in use were made from is inductive
  (`GraphInv`, `MassInv`, `BuiltInv`, `ModelInv`); the rest is about the operators.
  - *`PathsKept`.* The positions that `Chosen` and `FlattenSeq` take their elements
    from are named by functions of indices, shown by induction over the length. With
    them the graph of a transcript is `Layered`: arcs lead to later slots, and both
    neighbour lists agree. The paths of such a graph, a recursive function, are its
    `Ways`, a set without recursion: `PathsAreWays` goes from the last slot to the
    first. `Classified` says that there is exactly one copy per slot and pair of
    contexts, in the order of the slots. Then replacing copies by slots is a bijection
    between the ways of both graphs: `WantedIsCopy` finds the only copies that can
    stand for the slots of a way, `LoweredIsWay` goes back.
  - *`MassIsOne`.* Sums over finite sets are computed by induction on subsets. A state
    is a slot and a model state, so that the arcs of a built HMM are known one by one
    (`Wired`); the shares of an exit add up to one, also when the bypass takes half of
    that of the final silence. The linear builder is the graph builder on a `Chain`. A
    transcript has one last slot (`EndsAt`), and the split keeps it. Hence every HMM
    that is built is `Weighted`.
  - *`BuildersAgree`.* A lexicon has one entry per spelling. The slots of words with
    one pronunciation are a chain, of which the split makes no further copies, and they
    correspond position by position to the linear list; so each phone gets the same
    position, contexts and model from both.
  - *`EveryContextIsModelled`.* The neighbours of a copy are the ones it was made for
    (`CopyNeighbours`). The position that `cvt2triphone` reads off any neighbour is the
    slot's own (`GraphPositions`, by induction along the graph). A slot is a phone of a
    pronunciation with its neighbours beside it (`Drawn`), so its triphone is one that
    its word has between the words around it (`OwnIsSpoken`); each policy lists that
    one (`AskedIsListed`), and `Resolve` finds it. Of a dictionary that can be read,
    generation fails only for an unknown word.
  - *`TypeOK`.* The invariant is `TypeInv` beside `GraphInv`, `ModelInv` and `MassInv`.
    The HMM at hand is `TypedHMM`: its names are well formed, weights are natural
    numbers and arcs lead ahead. The active list of a frame is a sequence without
    repetition whose elements are exactly the states with an alpha, and pruning leaves
    only alphas above zero. Both passes are recursions over a list (`Activate`,
    `Consume`, `Retreat`), and each stays in its set of tables by induction along the
    list (`ActivatedListing`, `ConsumedAll`, `RetreatBacks`).
  - *`AcceptedAreCounted`*, the conjunct of `CountsAreExpectations` that needs no
    reference. `CountInv` ties the totals to the outcomes: every step but the end of a
    backward pass leaves the totals alone, and that one adds an entry exactly when it
    accepts.
  - *The feasibility search* (`SearchIsExact`). `MinimumEmittingStates` takes, state by
    state, the least of what came before it. Arcs lead ahead, so this is a
    course-of-values recursion that has a solution (`LeastRuns`); by induction along a
    way its value is below the emitting states of the way (`LeastIsBound`), and by
    induction over the states some way meets it (`LeastIsAttained`). So an utterance
    that is set aside as infeasible has no way at all that its frames suffice for
    (`InfeasibleIsHopeless`), which is what lets the code skip the retry.

Only model-checked: all liveness (`RunEnds`, `CallEnds`, `ExitEnds`, `NoOrphan`,
`StageEnds`, `OrphansExit`), since fairness and ENABLED are out of the prover's
reach; and of `UtteranceTraining` what `CountsAreExpectations` says of the sums, and
`OutcomeIsJustified`: the reference of both (`AlignmentReference`) is a recursive
operator, and that the passes agree with it is an induction over frames and paths at
once, exact only for units that every weight on a path divides.
(Induction over the naturals is used where a least counterexample suffices, from
the well-foundedness of `<`.) `Isolation`, `HeadIsReady` and `OneHelper`, and the types
of `NativeWorker` and `AlignmentBatch`, are proved and not part of a run.

## What is not modelled

Inside the modelled parts: the removal of a directory tree is one step and
succeeds unless a fault is spent on it; between the last identity check and an
unlink by name the package code has a documented window that the model closes;
the pool's termination scans are one step; the `sendump` file of a model, dry
runs and symbolic-link refusals of checkpoints; workers of more than one earlier run
at the same task, or of more than `MaxOrphans`; an interrupt while the owner exits;
a handshake or a `None` that is written in part, since they are shorter than any
pipe; bytes from the middle of a message that happen to be a valid message; the deadline of native calls in
pool workers, which do not use one; the 32-bit frame total of a session; the
exact bytes of records, logs and reports. Files that are edited while a task that
has read them runs: `_order_output_mtimes` (`runner.py:840`) moves the outputs past
such an edit, and the next plan does not see it. A clean-up of
`staged_model_update` that fails after publication raises with the new model in
place. An aligner whose `close` raises stays `Aligner._active`
(`alignment/native.py:320`), so that its process cannot open another one. Of a
training utterance: Gaussian sums, scaling and underflow, Viterbi output. Whole
parts: see the `not_modelled`
components.

## Plan

Done, in this order: `Pipeline`, `NativeWorker` over `AtMostOnce`, `BWTraining`
over `Reestimation`, `Checkpoints`, `PackageTransaction`, `UtteranceTraining` over
`PhoneGraph`, `TriphoneInventory` and `SentenceHMM`, `AlignmentBatch`; proofs of the
safety properties of all of them but for the two passes of `UtteranceTraining`.

Next, modelling:

1. *Provenance*: the lock, read, merge and replace of one record per stage, with
   two processes and deaths between them.
2. *State tying* (`dtree.c`): the greedy splits and the leaf numbering that the
   tied model definition is written from.
3. The path-based package transaction beside the descriptor one, against the
   same promises.

Next, proofs: that both passes compute expectations. It needs the reference as a
recursive function over bounded paths, and a weight that is not rounded: pairs of a
numerator and a power of the unit instead of the integer division in `Through`.
