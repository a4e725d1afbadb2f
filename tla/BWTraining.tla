------------------------------ MODULE BWTraining ------------------------------
(***************************************************************************)
(* One Baum-Welch training stage (run_bw_training in                       *)
(* src/pstrain/lib/steps/train.py, with bw_pool.py, retry_ladder.py and    *)
(* the accumulators of the native session behind BWTrainer).  Each pass    *)
(* goes over the manifest on one of three paths: the serial loop of the    *)
(* coordinator, one shard run inline, or a pool of worker processes that   *)
(* take the shards in any interleaving.  The sums are then merged,         *)
(* accounted for, normalised and published.                                *)
(*                                                                         *)
(* The coordinator may be interrupted or killed at any step, a native      *)
(* process may die in an utterance, and any write of a model may fail.     *)
(* What the native search makes of an utterance is chosen at the start of  *)
(* the pass (nature); the numbers in the sums are left out, a sum is how   *)
(* often each utterance is in it.  The fingerprints of _write_shard_metadata *)
(* are left out: writer and checker are the same call.                     *)
(***************************************************************************)
EXTENDS Integers, Sequences, FiniteSets

CONSTANTS
    NUtts,          \* utterances in train.fileids
    MaxShards,      \* bound: shards, and so pool workers
    NIter,          \* n_iter
    MinIter,        \* min_iterations
    Threshold,      \* convergence_ratio
    Likelihoods,    \* per-frame log-likelihoods a pass may report
    NonFinite,      \* the one that is infinite or not a number
    Excused,        \* utterances the accepted-exception band lets fail
    Settings,       \* the arguments a call may have, and the verdicts its
                    \* corpus may meet
    MaxCrashes      \* bound: native processes that die

Utts == 1..NUtts
Lines == 0..MaxShards       \* 0 is the coordinator's own trainer
Workers == 1..MaxShards
File == {"counts", "parameters"}

\* A verdict is where on the ladder an utterance stops being pruned (0 is the
\* nominal beam, MaxRung + 1 is never), and how it ends there.
Verdict == [from : Nat, end : {"aligns", "fails", "raises"}]
             \cup [from : {0}, end : {"absent", "short"}]

ASSUME ConstantsAssumption ==
    /\ NUtts \in Nat \ {0} /\ MaxShards \in Nat \ {0}
    /\ NIter \in Nat \ {0} /\ MinIter \in Nat /\ Threshold \in Nat
    /\ Likelihoods \ {NonFinite} \subseteq Int /\ NonFinite \notin Int
    /\ Excused \subseteq Utts
    /\ MaxCrashes \in Nat
    /\ Settings \subseteq [shards : Workers, multipron : BOOLEAN,
                           remainder : {"first", "last"}, rungs : Nat,
                           policy : {"recover", "abort", "omit"},
                           budget : 0..NUtts, floor : BOOLEAN,
                           verdicts : SUBSET Verdict]

VARIABLES
    opts,       \* the arguments of this call
    phase,      \* where run_bw_training is
    pass,       \* iteration
    nature,     \* this pass's verdict on each utterance
    outcome,    \* what the accounting says of each utterance
    \* The work of each line: a shard, or the serial loop.
    line,       \* how far it is
    at,         \* the utterance it is on
    rung,       \* retries made for that utterance
    beam,       \* the live a_beam, as the rung it belongs to
    alive,      \* does the native session still exist
    local,      \* the session's per-utterance sums
    acc,        \* the session's sums over the pass
    \* The pool.
    submitted,  \* shards submitted so far
    worker,     \* each worker process
    job,        \* the shard it is on
    crashes,    \* native processes that have died
    \* Merging and publishing.
    merged,     \* shard artifacts merged so far
    sum,        \* the sums the coordinator normalises
    update,     \* the sums behind the normalised parameters
    staged,     \* the counts file in a staging directory
    trail,      \* the likelihood each pass reported
    row,        \* stop_decision of the last telemetry row
    files,      \* the sums behind each file of output_dir
    backup,     \* the files a staged update has captured
    history     \* the sums behind each published model

run == <<opts, pass, nature>>
session == <<line, at, rung, beam, alive, local, acc>>
pool == <<submitted, worker, job, crashes>>
merge == <<merged, sum, update, staged>>
store == <<trail, row, files, backup, history>>
vars == <<phase, run, outcome, session, pool, merge, store>>

-------------------------------------------------------------------------------
(* The three paths, and the manifest's contiguous partition.               *)

Serial == opts.multipron /\ opts.shards = 1
Pooled == opts.shards > 1
Shards == 1..opts.shards
Running == IF Serial THEN {0} ELSE Shards

Quotient == NUtts \div opts.shards
Remainder == NUtts % opts.shards
Least(m, n) == IF m < n THEN m ELSE n

First(l) ==
    CASE l = 0 -> 1
      [] l # 0 /\ opts.remainder = "first" ->
           (l - 1) * Quotient + Least(l - 1, Remainder) + 1
      [] OTHER -> (l - 1) * Quotient + 1
Last(l) ==
    CASE l = 0 -> NUtts
      [] l # 0 /\ opts.remainder = "first" ->
           l * Quotient + Least(l, Remainder)
      [] OTHER -> IF l = opts.shards THEN NUtts ELSE l * Quotient

Nobody == [u \in Utts |-> 0]
Only(u) == [v \in Utts |-> IF v = u THEN 1 ELSE 0]
Plus(a, b) == [u \in Utts |-> a[u] + b[u]]
Outcomes == {"none", "processed", "retried", "skipped"}
Counted == {u \in Utts : outcome[u] \in {"processed", "retried"}}
Skipped == {u \in Utts : outcome[u] = "skipped"}

Init ==
    /\ opts \in Settings
    /\ phase = "start" /\ pass = 1
    /\ nature \in [Utts -> opts.verdicts]
    /\ outcome = [u \in Utts |-> "none"]
    /\ line = [l \in Lines |-> "queued"]
    /\ at = [l \in Lines |-> 1]
    /\ rung = [l \in Lines |-> 0] /\ beam = [l \in Lines |-> 0]
    /\ alive = [l \in Lines |-> FALSE]
    /\ local = [l \in Lines |-> Nobody] /\ acc = [l \in Lines |-> Nobody]
    /\ submitted = 0 /\ crashes = 0
    /\ worker = [w \in Workers |-> "none"] /\ job = [w \in Workers |-> 0]
    /\ merged = 0 /\ sum = Nobody /\ update = Nobody /\ staged = Nobody
    /\ trail = <<>> /\ row = "none"
    /\ files = [f \in File |-> Nobody]
    /\ backup = [f \in File |-> Nobody]
    /\ history = <<>>

-------------------------------------------------------------------------------
(* An utterance in a session: _process_with_final_state_retry.             *)

\* Who runs line l is alive and at it.
Busy(l) == IF Pooled THEN \E w \in Workers : worker[w] = "busy" /\ job[w] = l
                     ELSE phase = "work" /\ l \in Running

Result(u, b) ==
    IF nature[u].end = "short" \/ b < nature[u].from THEN "pruned"
                                                     ELSE nature[u].end

\* The native update works on per-utterance sums and adds them to the pass's
\* only when forward and backward both succeed.  Pruning is found before they
\* are cleared; another failure may come before or in the middle of it.
AttemptOnTop(l, u, result) ==   \* does not clear the per-utterance sums
    /\ CASE result = "aligns" -> local' = [local EXCEPT ![l] = Plus(@, Only(u))]
         [] result = "fails" -> local' \in {local, [local EXCEPT ![l] = Only(u)]}
         [] OTHER -> local' = local
    /\ acc' = IF result = "aligns"
                THEN [acc EXCEPT ![l] = Plus(@, local'[l])] ELSE acc
Attempt(l, u, result) ==
    /\ CASE result = "aligns" -> local' = [local EXCEPT ![l] = Only(u)]
         [] result = "fails" -> local' \in {local, [local EXCEPT ![l] = Only(u)]}
         [] OTHER -> local' = local
    /\ acc' = IF result = "aligns"
                THEN [acc EXCEPT ![l] = Plus(@, local'[l])] ELSE acc

Settle(l, u, o) ==
    /\ outcome' = [outcome EXCEPT ![u] = o]
    /\ at' = [at EXCEPT ![l] = @ + 1]
    /\ rung' = [rung EXCEPT ![l] = 0]
    /\ line' = [line EXCEPT ![l] = "next"]

\* TerminalAlignmentError: the accepted-exception band, or the end of the line.
Terminal(l, u) ==
    \/ u \in Excused /\ Settle(l, u, "skipped")
    \/ /\ u \notin Excused
       /\ line' = [line EXCEPT ![l] = "raised"]
       /\ UNCHANGED <<outcome, at, rung>>

\* Scheduled exclusion, a missing feature file or transcript, a bad dimension,
\* or a session that died under an earlier utterance: an error for this one.
Omit(l) ==
    /\ line[l] = "next" /\ at[l] <= Last(l)
    /\ nature[at[l]].end = "absent" \/ ~alive[l]
    /\ Settle(l, at[l], "skipped")
    /\ UNCHANGED <<local, acc, beam>>

Nominal(l) ==
    /\ line[l] = "next" /\ at[l] <= Last(l)
    /\ nature[at[l]].end # "absent" /\ alive[l]
    /\ LET u == at[l]
           result == Result(u, beam[l]) IN
         /\ Attempt(l, u, result)
         /\ CASE result = "aligns" -> Settle(l, u, "processed")
              [] result = "raises" -> Settle(l, u, "skipped")
              [] result = "fails" /\ opts.policy # "abort" ->
                   Settle(l, u, "skipped")
              [] result = "fails" /\ opts.policy = "abort" -> Terminal(l, u)
              [] result = "pruned" /\ nature[u].end = "short" ->
                   IF opts.policy = "abort" THEN Terminal(l, u)
                                            ELSE Settle(l, u, "skipped")
              [] result = "pruned" /\ nature[u].end # "short" ->
                   CASE opts.policy = "omit" -> Settle(l, u, "skipped")
                     [] opts.policy = "abort" \/ (opts.policy = "recover"
                                                   /\ opts.rungs = 0) ->
                          Terminal(l, u)
                     [] OTHER -> /\ line' = [line EXCEPT ![l] = "climb"]
                                 /\ UNCHANGED <<outcome, at, rung>>
    /\ UNCHANGED beam

LeaveWide(l) == beam' = [beam EXCEPT ![l] = rung[l] + 1]
Restore(l) == beam' = [beam EXCEPT ![l] = 0]

\* One rung: widen the beam and try again; the nominal beam comes back however
\* the ladder ends.
Climb(l) ==
    /\ line[l] = "climb"
    /\ LET u == at[l]
           r == rung[l] + 1
           result == Result(u, r) IN
         /\ Attempt(l, u, result)
         /\ IF result = "pruned" /\ r < opts.rungs
              THEN /\ rung' = [rung EXCEPT ![l] = r]
                   /\ beam' = [beam EXCEPT ![l] = r]
                   /\ UNCHANGED <<outcome, at, line>>
              ELSE /\ Settle(l, u, IF result = "aligns" THEN "retried"
                                                        ELSE "skipped")
                   /\ Restore(l)

\* The helper that holds the session dies in the utterance: the call raises.
HelperDies(l) ==
    /\ ~Pooled /\ crashes < MaxCrashes
    /\ line[l] \in {"next", "climb"} /\ at[l] <= Last(l)
    /\ nature[at[l]].end # "absent" /\ alive[l]
    /\ alive' = [k \in Lines |-> FALSE]
    /\ crashes' = crashes + 1
    /\ Settle(l, at[l], "skipped")
    /\ Restore(l)
    /\ UNCHANGED <<local, acc, submitted, worker, job>>

InUtterance(l) == Omit(l) \/ Nominal(l) \/ Climb(l)

\* get_stats, and the artifact of a shard: it is acc[l] of a line that is done.
EndLine(l) ==
    /\ line[l] = "next" /\ at[l] > Last(l)
    /\ line' = [line EXCEPT ![l] = IF alive[l] THEN "done" ELSE "raised"]
    /\ UNCHANGED <<outcome, at, rung, beam, local, acc>>

\* A trainer that cannot be built or statistics that cannot be written.
BreakLine(l) ==
    /\ line[l] = "next" /\ (at[l] = First(l) \/ at[l] > Last(l))
    /\ Pooled
    /\ line' = [line EXCEPT ![l] = "raised"]
    /\ UNCHANGED <<outcome, at, rung, beam, local, acc>>

-------------------------------------------------------------------------------
(* The pool: one process per shard at most, spawned as shards arrive.      *)

Up == {"starting", "free", "busy"}
Broken == \E w \in Workers : worker[w] = "gone"
\* The future of shard l has its result or its exception.
Answered(l) ==
    /\ line[l] \in {"done", "raised", "lost"}
    /\ ~\E w \in Workers : worker[w] = "busy" /\ job[w] = l
Fresh(l) ==
    /\ at' = [at EXCEPT ![l] = First(l)]
    /\ line' = [line EXCEPT ![l] = "next"]
    /\ alive' = [alive EXCEPT ![l] = TRUE]
    /\ UNCHANGED <<rung, beam, local, acc>>

MaySubmitOneMore == submitted <= opts.shards
MaySubmit == submitted < opts.shards

\* pool.submit: a process that has finished a shard is reused.
Submit ==
    /\ phase = "work" /\ Pooled /\ MaySubmit /\ ~Broken
    /\ submitted' = submitted + 1
    /\ IF \E w \in Workers : worker[w] = "free"
         THEN UNCHANGED worker
         ELSE \E w \in Workers :
                /\ worker[w] = "none"
                /\ \A v \in 1..(w - 1) : worker[v] # "none"
                /\ worker' = [worker EXCEPT ![w] = "starting"]
    /\ UNCHANGED <<phase, run, outcome, session, job, crashes, merge, store>>

\* A process takes the next shard and loads the model.
Take(w) ==
    /\ worker[w] \in {"starting", "free"}
    /\ \E l \in 1..submitted :
         /\ line[l] = "queued"
         /\ \A k \in 1..(l - 1) : line[k] # "queued"
         /\ worker' = [worker EXCEPT ![w] = "busy"]
         /\ job' = [job EXCEPT ![w] = l]
         /\ Fresh(l)
    /\ UNCHANGED <<phase, run, outcome, submitted, crashes, merge, store>>

\* The shard's result, or its exception, goes to its future.
Answer(w) ==
    /\ worker[w] = "busy" /\ line[job[w]] \in {"done", "raised"}
    /\ worker' = [worker EXCEPT ![w] = "free"]
    /\ job' = [job EXCEPT ![w] = 0]
    /\ UNCHANGED <<phase, run, outcome, session, submitted, crashes, merge,
                   store>>

Gone(ws) ==
    /\ worker' = [w \in Workers |-> IF w \in ws THEN "gone" ELSE worker[w]]
    /\ job' = [w \in Workers |-> IF w \in ws THEN 0 ELSE job[w]]
    /\ line' = [l \in Lines |->
                  IF \E w \in ws : worker[w] = "busy" /\ job[w] = l
                    THEN "lost" ELSE line[l]]

WorkerDies(w) ==
    /\ worker[w] \in Up /\ crashes < MaxCrashes
    /\ crashes' = crashes + 1
    /\ Gone({w})
    /\ UNCHANGED <<phase, run, outcome, at, rung, beam, alive, local, acc,
                   submitted, merge, store>>

\* The executor gives up the whole pool when one of its processes is gone.
TerminateBroken ==
    /\ phase = "work" /\ Broken
    /\ \E l \in 1..submitted : ~Answered(l)
    /\ worker' = [w \in Workers |-> IF worker[w] \in Up THEN "gone" ELSE worker[w]]
    /\ job' = [w \in Workers |-> 0]
    /\ line' = [l \in Lines |->
                  IF l \in 1..submitted /\ ~Answered(l)
                    THEN "lost" ELSE line[l]]
    /\ UNCHANGED <<phase, run, outcome, at, rung, beam, alive, local, acc,
                   submitted, crashes, merge, store>>

WatchesInTask(w) == worker[w] = "busy"
Watches(w) == worker[w] \in Up

\* watch_bw_parent: a worker leaves when the coordinator is dead.
WatchExit(w) ==
    /\ phase = "dead" /\ Watches(w)
    /\ Gone({w})
    /\ UNCHANGED <<phase, run, outcome, at, rung, beam, alive, local, acc,
                   submitted, crashes, merge, store>>

-------------------------------------------------------------------------------
(* The coordinator.                                                        *)

Begin ==
    /\ phase = "start" /\ phase' = "work"
    /\ alive' = [l \in Lines |-> l = 0 \/ (~Pooled /\ l \in Running)]
    /\ at' = [l \in Lines |-> IF l \in Running THEN First(l) ELSE 1]
    /\ line' = [l \in Lines |-> IF ~Pooled /\ l \in Running THEN "next"
                                                            ELSE "queued"]
    /\ UNCHANGED <<run, outcome, rung, beam, local, acc, pool, merge, store>>

\* The serial loop's sums are the trainer's own; a shard's lie on disk.
EndSerial ==
    /\ phase = "work" /\ Serial /\ line[0] = "done"
    /\ sum' = acc[0] /\ phase' = "account"
    /\ UNCHANGED <<run, outcome, session, pool, merged, update, staged, store>>

\* Every future has answered: the pool shuts down and its processes are joined.
EndShards ==
    /\ phase = "work" /\ ~Serial
    /\ Pooled => submitted = opts.shards
    /\ \A l \in Shards : Answered(l) /\ line[l] = "done"
    /\ phase' = "merge"
    /\ Gone({w \in Workers : worker[w] \in Up})
    /\ UNCHANGED <<run, outcome, at, rung, beam, alive, local, acc, submitted,
                   crashes, merge, store>>

\* _validate_shard_artifacts, then restore_accumulators in shard order.
Covered ==
    \A l \in Shards : \A u \in First(l)..Last(l) : outcome[u] # "none"
MergeShard ==
    /\ phase = "merge" /\ merged < opts.shards /\ Covered
    /\ merged' = merged + 1
    /\ sum' = Plus(sum, acc[merged + 1])
    /\ UNCHANGED <<phase, run, outcome, session, pool, update, staged, store>>
EndMerge ==
    /\ phase = "merge" /\ merged = opts.shards
    /\ phase' = "account"
    /\ UNCHANGED <<run, outcome, session, pool, merge, store>>

\* The future the coordinator waits for raises, or a line it runs itself does.
FailingOnRaise ==      \* a broken pool is not an exception
    \E l \in Running : /\ Answered(l) /\ line[l] = "raised"
                       /\ \A k \in Running : k < l => line[k] = "done"
Failing ==
    \/ \E l \in Running : /\ Answered(l) /\ line[l] # "done"
                          /\ \A k \in Running : k < l => line[k] = "done"
    \/ Pooled /\ Broken /\ submitted < opts.shards
GiveUp == phase' = IF Pooled THEN "reaping" ELSE "failed"
Fail ==
    /\ phase = "work" /\ Failing
    /\ GiveUp
    /\ UNCHANGED <<run, outcome, session, pool, merge, store>>

\* contained_bw_pool kills and joins what is left of the pool.
Kill(w) ==
    /\ phase = "reaping" /\ worker[w] \in Up
    /\ Gone({w})
    /\ UNCHANGED <<phase, run, outcome, at, rung, beam, alive, local, acc,
                   submitted, crashes, merge, store>>
Reaped ==
    /\ phase = "reaping" /\ \A w \in Workers : worker[w] \notin Up
    /\ phase' = "failed"
    /\ UNCHANGED <<run, outcome, session, pool, merge, store>>

\* _convergence_delta and _has_converged on the last two passes.
Delta(current, previous) ==
    IF previous = 0 THEN IF current > 0 THEN 1 ELSE IF current < 0 THEN -1 ELSE 0
                    ELSE current - previous
RegressionConverges(current, previous) ==
    /\ current # NonFinite /\ previous # NonFinite
    /\ Delta(current, previous) <= Threshold
    /\ pass >= MinIter
HasConverged(current, previous) ==
    /\ current # NonFinite /\ previous # NonFinite
    /\ Delta(current, previous) \in 0..Threshold
    /\ pass >= MinIter
Settled(t) == pass > 1 /\ HasConverged(t[pass], t[pass - 1])

\* _account_and_enforce_skips and the telemetry row of the pass.
OverBudgetByTwo == Cardinality(Skipped) > opts.budget + 1
OverBudget == Cardinality(Skipped) > opts.budget
Account ==
    /\ phase = "account"
    /\ IF OverBudget \/ Counted = {}
         THEN /\ phase' = "failed" /\ row' = "failed"
              /\ UNCHANGED trail
         ELSE \E likelihood \in Likelihoods :
                /\ trail' = Append(trail, likelihood)
                /\ row' = CASE Settled(trail') -> "converged"
                            [] ~Settled(trail') /\ pass = NIter -> "cap"
                            [] OTHER -> "continued"
                /\ phase' = "counts"
    /\ UNCHANGED <<run, outcome, session, pool, merge, files, backup, history>>

\* _save_iteration_model: the counts are written before normalising, which
\* clears the sums.  A variance floor stages both files and installs them
\* together; without one they are written in place.
SaveCounts ==
    /\ phase = "counts" /\ phase' = "normalize"
    /\ IF opts.floor THEN staged' = sum /\ UNCHANGED files
         ELSE files' = [files EXCEPT !["counts"] = sum] /\ UNCHANGED staged
    /\ UNCHANGED <<run, outcome, session, pool, merged, sum, update, trail, row,
                   backup, history>>
Normalize ==
    /\ phase = "normalize" /\ phase' = "parameters"
    /\ update' = sum /\ sum' = Nobody
    /\ UNCHANGED <<run, outcome, session, pool, merged, staged, store>>
SaveParameters ==
    /\ phase = "parameters"
    /\ IF opts.floor
         THEN /\ phase' = "install" /\ backup' = files
              /\ UNCHANGED <<files, history>>
         ELSE /\ phase' = "retain" /\ UNCHANGED backup
              /\ files' = [files EXCEPT !["parameters"] = update]
              /\ history' = Append(history, update)
    /\ UNCHANGED <<run, outcome, session, pool, merge, trail, row>>
InstallParameters ==
    /\ phase = "install" /\ phase' = "installing"
    /\ files' = [files EXCEPT !["parameters"] = update]
    /\ UNCHANGED <<run, outcome, session, pool, merge, trail, row, backup,
                   history>>
InstallCounts ==
    /\ phase = "installing" /\ phase' = "retain"
    /\ files' = [files EXCEPT !["counts"] = staged]
    /\ history' = Append(history, update)
    /\ UNCHANGED <<run, outcome, session, pool, merge, trail, row, backup>>
Saving == {"counts", "normalize", "parameters", "install", "installing"}
NoRollback == files
Rollback == IF phase \in {"install", "installing"} THEN backup ELSE files
SaveFails ==
    /\ phase \in Saving /\ phase' = "failed" /\ row' = "failed"
    /\ files' = Rollback
    /\ UNCHANGED <<run, outcome, session, pool, merge, trail, backup, history>>

\* The checkpoint copy, and the end of the pass.
EndPass ==
    /\ phase = "retain"
    /\ phase' = CASE Settled(trail) -> "converged"
                  [] ~Settled(trail) /\ pass = NIter -> "cap"
                  [] OTHER -> "start"
    /\ IF phase' # "start"
         THEN UNCHANGED <<run, outcome, session, pool, merge>>
         ELSE /\ pass' = pass + 1
              /\ nature' \in [Utts -> opts.verdicts]
              /\ outcome' = [u \in Utts |-> "none"]
              /\ line' = [l \in Lines |-> "queued"]
              /\ at' = [l \in Lines |-> 1]
              /\ rung' = [l \in Lines |-> 0] /\ beam' = [l \in Lines |-> 0]
              /\ alive' = [l \in Lines |-> FALSE]
              /\ local' = [l \in Lines |-> Nobody]
              /\ acc' = [l \in Lines |-> Nobody]
              /\ submitted' = 0
              /\ worker' = [w \in Workers |-> "none"]
              /\ job' = [w \in Workers |-> 0]
              /\ merged' = 0 /\ sum' = Nobody
              /\ UNCHANGED <<opts, crashes, update, staged>>
    /\ UNCHANGED store

\* Any exception or interrupt that reaches the coordinator elsewhere.
Raise ==
    /\ phase \in {"start", "work", "merge", "account", "retain"}
    /\ IF phase = "work" THEN GiveUp ELSE phase' = "failed"
    /\ UNCHANGED <<run, outcome, session, pool, merge, store>>

Ended == {"converged", "cap", "failed", "dead"}
Killed ==
    /\ phase \notin Ended /\ phase' = "dead"
    /\ UNCHANGED <<run, outcome, session, pool, merge, store>>

LineStep(l) ==
    /\ Busy(l)
    /\ \/ /\ InUtterance(l) \/ EndLine(l) \/ BreakLine(l)
          /\ UNCHANGED <<alive, pool>>
       \/ HelperDies(l)
    /\ UNCHANGED <<phase, run, merge, store>>
PoolStep ==
    \/ TerminateBroken
    \/ \E w \in Workers : Take(w) \/ Answer(w) \/ WorkerDies(w) \/ WatchExit(w)
Advance ==
    \/ Begin \/ Submit \/ EndSerial \/ EndShards \/ MergeShard \/ EndMerge
    \/ Fail \/ Reaped \/ (\E w \in Workers : Kill(w)) \/ Account
    \/ SaveCounts \/ Normalize \/ SaveParameters \/ InstallParameters
    \/ InstallCounts \/ EndPass
Next ==
    \/ Advance \/ PoolStep \/ SaveFails \/ Raise \/ Killed
    \/ \E l \in Lines : LineStep(l)

Spec == Init /\ [][Next]_vars

\* The scheduler runs every live process; a native call returns or dies; the
\* executor notices a dead process, and a worker its parent's.
Fairness ==
    /\ WF_vars(Advance)
    /\ WF_vars(TerminateBroken)
    /\ \A l \in Lines : WF_vars(LineStep(l))
    /\ \A w \in Workers : WF_vars(Take(w) \/ Answer(w)) /\ WF_vars(WatchExit(w))
FairSpec == Spec /\ Fairness

-------------------------------------------------------------------------------
(* Properties.                                                             *)

TypeOK ==
    /\ opts \in Settings
    /\ phase \in {"start", "work", "reaping", "merge", "account", "retain"}
                   \cup Saving \cup Ended
    /\ pass \in 1..NIter
    /\ nature \in [Utts -> opts.verdicts]
    /\ outcome \in [Utts -> Outcomes]
    /\ line \in [Lines -> {"queued", "next", "climb", "done", "raised", "lost"}]
    /\ at \in [Lines -> Nat] /\ rung \in [Lines -> Nat] /\ beam \in [Lines -> Nat]
    /\ alive \in [Lines -> BOOLEAN]
    /\ local \in [Lines -> [Utts -> Nat]] /\ acc \in [Lines -> [Utts -> Nat]]
    /\ submitted \in 0..MaxShards /\ crashes \in 0..MaxCrashes
    /\ worker \in [Workers -> {"none", "gone"} \cup Up]
    /\ job \in [Workers -> Lines]
    /\ merged \in 0..MaxShards
    /\ {sum, update, staged} \subseteq [Utts -> Nat]
    /\ trail \in Seq(Likelihoods) /\ history \in Seq([Utts -> Nat])
    /\ row \in {"none", "continued", "converged", "cap", "failed"}
    /\ files \in [File -> [Utts -> Nat]] /\ backup \in [File -> [Utts -> Nat]]

AfterWork == Saving \cup {"account", "retain", "converged", "cap"}

\* A pass that gets as far as its accounting has dealt with every utterance of
\* the manifest, and with each as the serial loop would have, whichever path
\* ran it, in whatever order, and whatever came before it in the same session
\* (bw-sharding-contract.md, guarantee 2).
Reference(u) ==
    CASE nature[u].end # "aligns" -> "skipped"
      [] nature[u].end = "aligns" /\ nature[u].from = 0 -> "processed"
      [] OTHER -> IF opts.policy = "recover" /\ nature[u].from <= opts.rungs
                    THEN "retried" ELSE "skipped"
PartitionIndependent ==
    phase \in AfterWork => \A u \in Utts : outcome[u] = Reference(u)

\* The sums that are normalised hold every processed or retried utterance once
\* and nothing of any other: no failed attempt, no attempt of the ladder twice,
\* no shard missing or merged twice.
CountedOnce ==
    phase \in {"account", "counts", "normalize"} =>
        sum = [u \in Utts |-> IF u \in Counted THEN 1 ELSE 0]

\* A stage that returns leaves parameters and density counts of one and the
\* same pass, the last one; a variance floor keeps them of one pass however
\* the stage ends, short of being killed while it installs them or of a
\* rollback that itself fails (module Checkpoints has both).
FilesAgree ==
    /\ phase \in {"converged", "cap"} =>
         \A f \in File : files[f] = history[Len(history)]
    /\ opts.floor /\ phase \notin {"installing", "dead"} =>
         files["counts"] = files["parameters"]

\* The stage converges only on a finite gain within the threshold, never on a
\* regression, not before min_iterations, and at the first pass that earns it;
\* and the telemetry of a stage that returns says how it ended.
Earns(p) ==
    /\ p >= 2 /\ p >= MinIter
    /\ {trail[p], trail[p - 1]} \subseteq Int
    /\ IF trail[p - 1] = 0 THEN trail[p] = 0 \/ (trail[p] > 0 /\ Threshold >= 1)
       ELSE trail[p - 1] <= trail[p] /\ trail[p] - trail[p - 1] <= Threshold
EndIsJustified ==
    phase \in {"converged", "cap"} =>
        /\ Len(trail) = pass
        /\ \A p \in 1..(pass - 1) : ~Earns(p)
        /\ phase = "converged" <=> Earns(pass)
        /\ row = phase

\* The stage implements the abstract re-estimation: every published model is
\* one pass's, within the budget, and nothing is published after the end.
Abstract == INSTANCE Reestimation WITH
    budget <- opts.budget, published <- history,
    ending <- IF phase \in {"converged", "cap", "failed"} THEN phase
                                                          ELSE "running"
Refines == Abstract!Spec

\* The stage ends, and no worker outlives a coordinator that was killed.
StageEnds == <>(phase \in Ended)
OrphansExit ==
    \A w \in Workers : (phase = "dead" ~> worker[w] \notin Up)

-------------------------------------------------------------------------------
(* The inductive invariant behind the safety properties.                   *)

Part(l) == First(l)..Last(l)
Once(us) == [u \in Utts |-> IF u \in us THEN 1 ELSE 0]
Reached(l) == IF line[l] = "queued" THEN First(l) ELSE at[l]

\* A line whose sums may still be used has settled its utterances up to where
\* it is, holds once those of them that count and, while its session lives, has
\* settled them as the reference does.
LineIsAccounted(l) ==
    line[l] \in {"queued", "next", "climb", "done"} =>
        /\ Reached(l) \in First(l)..(Last(l) + 1)
        /\ acc[l] = Once(Part(l) \cap Counted)
        /\ \A u \in Part(l) : outcome[u] = "none" <=> u >= Reached(l)
        /\ alive[l] => \A u \in Part(l) :
                         u < Reached(l) => outcome[u] = Reference(u)

\* Between utterances the beam is nominal; on the ladder it is as wide as the
\* rung, and the search was pruned there.
LadderIsKept(l) ==
    /\ line[l] \in {"queued", "next"} => rung[l] = 0 /\ beam[l] = 0
    /\ line[l] = "climb" =>
         /\ at[l] <= Last(l) /\ beam[l] = rung[l]
         /\ opts.policy = "recover" /\ rung[l] < opts.rungs
         /\ rung[l] < nature[at[l]].from
         /\ nature[at[l]].end \in {"aligns", "fails", "raises"}
    /\ line[l] = "done" => at[l] = Last(l) + 1 /\ alive[l]

\* Only a coordinator that is at the pool, reaps it or was killed has workers.
PoolIsKept ==
    /\ submitted <= opts.shards /\ (~Pooled => submitted = 0)
    /\ \A w \in Workers : worker[w] = "busy" => job[w] \in Shards
    /\ ~Pooled \/ phase \notin {"work", "reaping", "dead"} =>
         \A w \in Workers : worker[w] \notin Up

\* From the first line to the normalisation: what the coordinator's sums hold.
SumIsKept ==
    /\ phase = "start" => \A l \in Running : line[l] = "queued"
    /\ phase \in {"start", "work"} => merged = 0 /\ sum = Nobody
    /\ phase \in {"merge"} \cup AfterWork => \A l \in Running : line[l] = "done"
    /\ phase = "merge" =>
         /\ ~Serial /\ merged <= opts.shards
         /\ sum = Once({u \in Counted : \E l \in 1..merged : u \in Part(l)})
    /\ CountedOnce

\* From there to the published model.
StoreIsKept ==
    /\ phase \in Saving \cup {"retain"} =>
         Counted # {} /\ Cardinality(Skipped) <= opts.budget
    /\ phase \in {"parameters", "install", "installing"} => update = Once(Counted)
    /\ phase = "normalize" =>
         IF opts.floor THEN staged = sum ELSE files["counts"] = sum
    /\ phase = "parameters" =>
         IF opts.floor THEN staged = update ELSE files["counts"] = update
    /\ phase \in {"install", "installing"} => opts.floor /\ staged = update
    /\ phase = "install" => backup = files
    /\ phase = "installing" =>
         files["parameters"] = update /\ backup["counts"] = backup["parameters"]
    /\ phase \in {"retain", "converged", "cap"} =>
         \A f \in File : files[f] = history[Len(history)]
    /\ FilesAgree

\* One likelihood and one model per pass, and no earlier pass that converged.
TrailIsKept ==
    /\ phase \in {"start", "work", "reaping", "merge", "account"} =>
         Len(trail) = pass - 1
    /\ phase \in Saving \cup {"retain", "converged", "cap"} => Len(trail) = pass
    /\ phase \notin {"retain", "converged", "cap", "failed", "dead"} =>
         Len(history) = pass - 1
    /\ phase \in {"retain", "converged", "cap"} => Len(history) = pass
    /\ phase \notin {"failed", "dead"} => \A p \in 1..(pass - 1) : ~Earns(p)
    /\ phase \in Saving \cup {"retain"} =>
         row = CASE Settled(trail) -> "converged"
                 [] ~Settled(trail) /\ pass = NIter -> "cap"
                 [] OTHER -> "continued"
    /\ phase = "converged" => Settled(trail) /\ row = phase
    /\ phase = "cap" => ~Settled(trail) /\ pass = NIter /\ row = phase

Safe ==
    /\ TypeOK
    /\ \A l \in Running : LineIsAccounted(l) /\ LadderIsKept(l)
    /\ PoolIsKept /\ SumIsKept /\ StoreIsKept /\ TrailIsKept
===============================================================================
