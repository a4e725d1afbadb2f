---------------------------- MODULE AlignmentBatch ----------------------------
(***************************************************************************)
(* The alignment of a corpus (align_corpus of alignment/batch.py) with one *)
(* aligner that lives in the native helper (alignment/native.py), its      *)
(* retry ladder, and the acceptance check of what a wider beam recovered   *)
(* (alignment/acceptance.py).                                              *)
(*                                                                         *)
(* What the search of an utterance comes to is given by the corpus: kind   *)
(* says whether there is audio, whether it can be read, whether it is long *)
(* enough; needs is the first rung of the ladder whose beam lets it reach  *)
(* its final state, 0 for the nominal beam; score is its speech score      *)
(* there, less one per rung, since the same path scores lower at a wider   *)
(* beam.  The beam of rung r is r, and the nominal beam 0.                 *)
(***************************************************************************)
EXTENDS Integers, Sequences, FiniteSets, SequencesExt

CONSTANTS R,           \* the rungs of the retry ladder
          Corpora,     \* the corpora to consider
          Settings,    \* policies with their acceptance checks
          MinSamples,  \* RETRY_ACCEPTANCE_MIN_SAMPLES
          MaxSamples,  \* RETRY_ACCEPTANCE_MAX_SAMPLES
          NoScore,     \* the score of an alignment without speech frames
          NoThreshold  \* the threshold of a rung that could not be calibrated

Rungs == 1 .. R

(* A setting is [policy, check, thresholds]: thresholds are those supplied *)
(* when check is "supplied", in quarters like every threshold here.        *)
ASSUME BatchAssumption ==
  /\ R \in Nat /\ MinSamples \in Nat \ {0} /\ MaxSamples \in Nat \ {0}
  /\ \A s \in Settings : /\ s.policy \in {"recover", "abort"}
                         /\ s.check \in {"off", "supplied", "deferred"}
  /\ \A c \in Corpora :
       c \in Seq([kind : {"missing", "bad", "short", "speech"},
                  needs : 0 .. R + 1, score : Int \cup {NoScore}])

VARIABLES corpus, setting,
          pc,           \* what align_corpus does next
          utt,          \* the utterance at hand
          lost,         \* was the helper that holds the aligner lost
          beam,         \* the beam in force in it
          rungs,        \* _last_retry_rungs in it: how far the climb came
          attempts, recoveries, rejections,  \* the yield kept by the caller, per rung
          results,      \* the alignments accepted
          errors,       \* why the others failed
          rejected,     \* the rung of each recovery that was rejected
          pending,      \* the recoveries that wait for a threshold
          firstPass,    \* the utterances aligned at the nominal beam
          calibration,  \* the thresholds calibrated so far
          nAligned, nFailed

job == <<results, errors, rejected, pending, firstPass, nAligned, nFailed>>
yield == <<attempts, recoveries, rejections>>
aligner == <<beam, rungs>>
vars == <<corpus, setting, pc, utt, lost, aligner, yield, job, calibration>>

N == Len(corpus)
Told(f, u, v) == [x \in DOMAIN f \cup {u} |-> IF x = u THEN v ELSE f[x]]

Init ==
  /\ corpus \in Corpora /\ setting \in Settings
  /\ pc = IF corpus = <<>> THEN "done" ELSE "open"
  /\ utt = 0 /\ lost = FALSE /\ beam = 0 /\ rungs = 0
  /\ attempts = [r \in Rungs |-> 0] /\ recoveries = attempts /\ rejections = attempts
  /\ results = <<>> /\ errors = <<>> /\ rejected = <<>> /\ pending = <<>>
  /\ firstPass = <<>> /\ calibration = <<>>
  /\ nAligned = 0 /\ nFailed = 0

(* The aligner's constructor; when it fails, so does every utterance.      *)
(* (A setting it refuses with a ValueError is not among Settings.)         *)
Open ==
  /\ pc = "open"
  /\ \/ pc' = "next" /\ UNCHANGED <<errors, nFailed>>
     \/ /\ pc' = "done"
        /\ errors' = [u \in 1 .. N |-> "unopened"]
        /\ nFailed' = N
  /\ UNCHANGED <<corpus, setting, utt, lost, aligner, yield, results, rejected,
                 pending, firstPass, nAligned, calibration>>

(* Processes die at any time, by a signal, an exit or a missed deadline.   *)
(* A fresh helper does not know the aligner: every later call to it fails. *)
LoseHelper ==
  /\ pc \notin {"open", "done", "raised"} /\ ~lost
  /\ lost' = TRUE
  /\ UNCHANGED <<corpus, setting, pc, utt, aligner, yield, job, calibration>>

Fail(u, reason) ==
  /\ errors' = Told(errors, u, reason)
  /\ nFailed' = nFailed + 1

-----------------------------------------------------------------------------
(* The pass over the corpus.                                               *)

NextUtterance ==
  /\ pc = "next" /\ utt < N
  /\ utt' = utt + 1
  /\ IF corpus[utt'].kind = "missing"
     THEN pc' = "next" /\ Fail(utt', "missing")
     ELSE pc' = "align" /\ UNCHANGED <<errors, nFailed>>
  /\ UNCHANGED <<corpus, setting, lost, aligner, yield, results, rejected, pending,
                 firstPass, nAligned, calibration>>

(* One search at the beam in force.                                        *)
Search(item, b) ==
  IF item.kind = "bad" THEN "error"
  ELSE IF item.kind = "speech" /\ item.needs <= b THEN "aligned" ELSE "pruned"
SpeechScore(item, b) == IF item.score = NoScore THEN NoScore ELSE item.score - b

(* Does the ladder go on: another rung, under the recover policy, unless   *)
(* no beam can help.  The check never withholds the retry: it is off, or   *)
(* has thresholds, or its judgement is deferred.                           *)
MayClimb(item, rung) ==
  setting.policy = "recover" /\ item.kind # "short" /\ rung < R

After(item, outcome, rung) ==
  CASE outcome = "aligned" -> "answer"
    [] outcome = "error" -> "fail"
    [] OTHER -> IF MayClimb(item, rung) THEN "climb" ELSE "fail"

AlignAudio ==
  /\ pc = "align" /\ ~lost
  /\ rungs' = 0
  /\ pc' = After(corpus[utt], Search(corpus[utt], beam), 0)
  /\ UNCHANGED <<corpus, setting, utt, lost, beam, yield, job, calibration>>

LeaveWide(rung, previous) == rung        \* (Mistaken: the wider beam stays.)
Restored(rung, previous) == previous

(* A rung widens the beam, searches, and restores it.                      *)
ClimbRung ==
  /\ pc = "climb" /\ ~lost
  /\ rungs' = rungs + 1
  /\ beam' = Restored(rungs', beam)
  /\ pc' = After(corpus[utt], Search(corpus[utt], rungs'), rungs')
  /\ UNCHANGED <<corpus, setting, utt, lost, yield, job, calibration>>

(* The yield counts every rung that ran and the one that recovered.        *)
RecordRetry(ran, recovered) ==
  /\ attempts' = [r \in Rungs |-> IF r <= ran THEN attempts[r] + 1 ELSE attempts[r]]
  /\ recoveries' = [r \in Rungs |-> IF recovered /\ r = ran THEN recoveries[r] + 1
                                    ELSE recoveries[r]]

Passes(score, threshold) ==
  score # NoScore /\ threshold # NoThreshold /\ 4 * score >= threshold

Alignment(u, b) ==
  [rung |-> rungs, beam |-> b, score |-> SpeechScore(corpus[u], b)]

(* The caller counts, then judges, then files what came back.              *)
Answer ==
  /\ pc = "answer"
  /\ pc' = "next"
  /\ RecordRetry(rungs, TRUE)
  /\ LET found == Alignment(utt, IF rungs = 0 THEN beam ELSE rungs)
         refused == /\ rungs > 0 /\ setting.check = "supplied"
                    /\ ~Passes(found.score, setting.thresholds[rungs])
         deferred == rungs > 0 /\ setting.check = "deferred"
     IN  /\ rejections' = IF refused THEN [rejections EXCEPT ![rungs] = @ + 1] ELSE rejections
         /\ rejected' = IF refused THEN Told(rejected, utt, rungs) ELSE rejected
         /\ IF refused THEN Fail(utt, "rejected") ELSE UNCHANGED <<errors, nFailed>>
         /\ pending' = IF deferred THEN Told(pending, utt, found) ELSE pending
         /\ firstPass' = IF rungs = 0 THEN Append(firstPass, utt) ELSE firstPass
         /\ IF refused \/ deferred THEN UNCHANGED <<results, nAligned>>
            ELSE results' = Told(results, utt, found) /\ nAligned' = nAligned + 1
  /\ UNCHANGED <<corpus, setting, utt, lost, aligner, calibration>>

(* After a failure the helper is asked how far the climb came; a helper    *)
(* that was lost cannot say.                                               *)
CountFailure ==
  /\ pc = "fail" \/ (pc \in {"align", "climb"} /\ lost)
  /\ pc' = "next"
  /\ IF lost THEN UNCHANGED <<attempts, recoveries>> ELSE RecordRetry(rungs, FALSE)
  /\ Fail(utt, IF pc = "fail" THEN "failed" ELSE "lost")
  /\ UNCHANGED <<corpus, setting, utt, lost, aligner, rejections, results, rejected,
                 pending, firstPass, nAligned, calibration>>

-----------------------------------------------------------------------------
(* After the pass: thresholds for the rungs that recovered something, from *)
(* the run's own first-pass alignments, and the judgement of those that    *)
(* waited.                                                                 *)

EvenlySpaced(items) ==
  IF Len(items) <= MaxSamples THEN items
  ELSE [i \in 1 .. MaxSamples |-> items[1 + (((i - 1) * Len(items)) \div MaxSamples)]]

(* The lower quartile, interpolated, in quarters.                          *)
Quantile(found) ==
  LET s == SortSeq(found, LAMBDA x, y : x < y)
      k == 1 + ((Len(s) - 1) \div 4)
      part == (Len(s) - 1) % 4
  IN  IF part = 0 THEN 4 * s[k] ELSE 4 * s[k] + part * (s[k + 1] - s[k])

ThresholdOf(found) ==
  LET scored == SelectSeq(found, LAMBDA x : x # NoScore)
  IN  IF Len(scored) >= MinSamples THEN Quantile(scored) ELSE NoThreshold

Waiting == {pending[u].rung : u \in DOMAIN pending} \ DOMAIN calibration
Sample == EvenlySpaced(firstPass)

EndPass ==
  /\ pc = "next" /\ utt = N
  /\ pc' = IF pending = <<>> THEN "close" ELSE "calibrate"
  /\ UNCHANGED <<corpus, setting, utt, lost, aligner, yield, job, calibration>>

(* The lowest rung without a threshold: at its beam each sampled utterance *)
(* is searched again, without a ladder, and the beam is restored.          *)
CalibrateRung ==
  /\ pc = "calibrate" /\ Waiting # {} /\ ~lost
  /\ LET rung == Min(Waiting)
         Realigned(u) == IF Search(corpus[u], rung) = "aligned"
                         THEN SpeechScore(corpus[u], rung) ELSE NoScore
         scores == [k \in DOMAIN Sample |-> Realigned(Sample[k])]
     IN  /\ calibration' = Told(calibration, rung, ThresholdOf(scores))
         /\ beam' = Restored(rung, beam)
  /\ UNCHANGED <<corpus, setting, pc, utt, lost, rungs, yield, job>>

(* With the helper lost there is no threshold.                             *)
LoseThreshold ==
  /\ pc = "calibrate" /\ Waiting # {} /\ lost
  /\ calibration' = Told(calibration, Min(Waiting), NoThreshold)
  /\ UNCHANGED <<corpus, setting, pc, utt, lost, aligner, yield, job>>

Accepted ==
  {u \in DOMAIN pending : Passes(pending[u].score, calibration[pending[u].rung])}

(* (Mistaken: rejections decided after the pass are not in the yield.)     *)
RejectedSoFar(refused) == rejections
RejectedNow(refused) ==
  [r \in Rungs |-> rejections[r] + Cardinality({u \in refused : pending[u].rung = r})]

Judge ==
  /\ pc = "calibrate" /\ Waiting = {}
  /\ pc' = "close"
  /\ LET refused == DOMAIN pending \ Accepted
     IN  /\ results' = [u \in DOMAIN results \cup Accepted |->
                          IF u \in Accepted THEN pending[u] ELSE results[u]]
         /\ nAligned' = nAligned + Cardinality(Accepted)
         /\ rejected' = [u \in DOMAIN rejected \cup refused |->
                           IF u \in refused THEN pending[u].rung ELSE rejected[u]]
         /\ errors' = [u \in DOMAIN errors \cup refused |->
                         IF u \in refused THEN "rejected" ELSE errors[u]]
         /\ rejections' = RejectedNow(refused)
         /\ nFailed' = nFailed + Cardinality(refused)
         /\ pending' = <<>>
  /\ UNCHANGED <<corpus, setting, utt, lost, aligner, attempts, recoveries, firstPass,
                 calibration>>

(* The aligner is closed whatever happened; when that raises, the job is   *)
(* not returned.                                                           *)
Close ==
  /\ pc = "close"
  /\ pc' \in {"done", "raised"}
  /\ UNCHANGED <<corpus, setting, utt, lost, aligner, yield, job, calibration>>

Next ==
  \/ Open \/ LoseHelper \/ NextUtterance \/ AlignAudio \/ ClimbRung \/ Answer
  \/ CountFailure \/ EndPass \/ CalibrateRung \/ LoseThreshold
  \/ Judge \/ Close

Spec == Init /\ [][Next]_vars

-----------------------------------------------------------------------------
(* Properties.                                                             *)

(* Types of the state: what is filed is filed under utterances seen, with  *)
(* the rung that recovered it.                                             *)
TypeOK ==
  /\ pc \in {"open", "next", "align", "climb", "answer", "fail", "calibrate", "close",
             "done", "raised"}
  /\ utt \in 0 .. N /\ lost \in BOOLEAN /\ beam \in 0 .. R /\ rungs \in 0 .. R
  /\ attempts \in [Rungs -> Nat] /\ recoveries \in [Rungs -> Nat]
  /\ rejections \in [Rungs -> Nat]
  /\ nAligned \in Nat /\ nFailed \in Nat

Opened == \A u \in DOMAIN errors : errors[u] # "unopened"
With(f, r) == {u \in DOMAIN f : f[u].rung = r}
RejectedAt(r) == {u \in DOMAIN rejected : rejected[u] = r}

(* When a job is returned, every utterance is in its results or in its     *)
(* errors and not in both, both are counted right, what was rejected is an *)
(* error, and the yield of the ladder agrees: what a rung recovered was    *)
(* accepted or rejected, and only what it left unaligned went on to the    *)
(* next (align_corpus, retry_yield).                                       *)
JobIsAccounted ==
  pc = "done" =>
    /\ DOMAIN results \cup DOMAIN errors = 1 .. N
    /\ DOMAIN results \cap DOMAIN errors = {}
    /\ nAligned = Cardinality(DOMAIN results)
    /\ nFailed = Cardinality(DOMAIN errors)
    /\ DOMAIN rejected \subseteq DOMAIN errors
    /\ \A r \in Rungs :
         /\ rejections[r] = Cardinality(RejectedAt(r))
         /\ recoveries[r] = Cardinality(With(results, r)) + rejections[r]
         /\ attempts[r] >= recoveries[r] + (IF r < R THEN attempts[r + 1] ELSE 0)

(* Why that holds: at every step the utterances seen are filed once each,  *)
(* a recovery that waits is neither accepted nor rejected yet, and the     *)
(* caller counts a climb before it judges what came of it.                 *)
Working == pc \in {"align", "climb", "answer", "fail"}
Seen == IF pc = "done" THEN 1 .. N ELSE IF Working THEN 1 .. utt - 1 ELSE 1 .. utt
Filed ==
  /\ DOMAIN results \cup DOMAIN errors \cup DOMAIN pending = Seen
  /\ DOMAIN results \cap DOMAIN errors = {}
  /\ DOMAIN results \cap DOMAIN pending = {}
  /\ DOMAIN errors \cap DOMAIN pending = {}
  /\ DOMAIN rejected \subseteq DOMAIN errors
Counted ==
  /\ nAligned = Cardinality(DOMAIN results)
  /\ nFailed = Cardinality(DOMAIN errors)
YieldAdds ==
  \A r \in Rungs :
    /\ rejections[r] = Cardinality(RejectedAt(r))
    /\ recoveries[r] = Cardinality(With(results, r)) + Cardinality(With(pending, r)) + rejections[r]
    /\ attempts[r] >= recoveries[r] + (IF r < R THEN attempts[r + 1] ELSE 0)
Progress ==
  /\ corpus \in Corpora
  /\ Working => utt \in 1 .. N
  /\ pc = "open" => utt = 0
  /\ pc = "climb" => rungs < R
  /\ pc \in {"calibrate", "close", "raised"} => utt = N
  /\ pc \in {"open", "close", "done", "raised"} => pending = <<>>
BatchInv == TypeOK /\ Progress /\ Filed /\ Counted /\ YieldAdds

(* The reference: an utterance alone, at the beams of the ladder, and the  *)
(* thresholds taken from those that align at the nominal beam, in order.   *)
AlignsAt(item) == IF item.kind = "speech" THEN item.needs ELSE R + 1
Reach(u) == AlignsAt(corpus[u])
Aligns(u) == Reach(u) = 0 \/ (setting.policy = "recover" /\ Reach(u) <= R)
FirstPassIsOwn ==
  /\ {firstPass[i] : i \in DOMAIN firstPass} = With(results, 0)
  /\ \A i, j \in DOMAIN firstPass : i < j => firstPass[i] < firstPass[j]
Sampled(r) == ThresholdOf([k \in DOMAIN Sample |-> SpeechScore(corpus[Sample[k]], r)])
Threshold(r) == IF setting.check = "supplied" THEN setting.thresholds[r] ELSE Sampled(r)
Calibrated(r) == setting.check = "supplied" \/ calibration[r] # NoThreshold \/ ~lost
IsAccepted(u) ==
  \/ Reach(u) = 0 \/ setting.check = "off"
  \/ Calibrated(Reach(u)) /\ Passes(SpeechScore(corpus[u], Reach(u)), Threshold(Reach(u)))
Found(u) == [rung |-> Reach(u), beam |-> Reach(u), score |-> SpeechScore(corpus[u], Reach(u))]

ResultIsOwn(u) == Aligns(u) /\ IsAccepted(u) /\ results[u] = Found(u)
ErrorIsOwn(u) ==
  \/ errors[u] = "missing" /\ corpus[u].kind = "missing"
  \/ errors[u] = "failed" /\ corpus[u].kind # "missing" /\ ~Aligns(u)
  \/ /\ errors[u] = "rejected" /\ Aligns(u) /\ ~IsAccepted(u)
     /\ u \in DOMAIN rejected /\ rejected[u] = Reach(u)
  \/ /\ errors[u] = "lost" /\ lost /\ corpus[u].kind # "missing"
     /\ \A v \in u .. N \cap Seen : v \in DOMAIN errors /\ errors[v] \in {"missing", "lost"}

(* Each utterance ends as it would alone: aligned at the nominal beam, or  *)
(* recovered by the first rung that can, or failed, whatever was searched  *)
(* before it at which beam; and what a rung recovered is accepted exactly  *)
(* when its score passes the threshold of that rung, taken from the first- *)
(* pass alignments of the whole corpus at that rung's beam.  Only the loss *)
(* of the helper changes that: it fails every later utterance, and rejects *)
(* what waits for a rung that is not calibrated yet (align_corpus,         *)
(* _climb_retry_ladder, _scores_at_rung).                                  *)
OutcomesAreOwn ==
  pc = "done" /\ Opened =>
    /\ FirstPassIsOwn
    /\ \A u \in 1 .. N : IF u \in DOMAIN errors THEN ErrorIsOwn(u)
                         ELSE u \in DOMAIN results /\ ResultIsOwn(u)

(* Why that holds: the beam is nominal between searches, a climb goes on   *)
(* only past rungs that cannot help, the thresholds are those of the       *)
(* sample unless the helper was lost before them, and nothing recovered is *)
(* accepted or rejected before there is a threshold for it.                *)
SearchIsOwn ==
  /\ beam = 0
  /\ Working => corpus[utt].kind # "missing"
  /\ pc = "climb" => setting.policy = "recover" /\ rungs < Reach(utt)
  /\ pc = "answer" => Reach(utt) = rungs /\ Aligns(utt)
  /\ pc = "fail" => ~Aligns(utt)
  /\ pc \in {"climb", "answer", "fail"} => \A u \in DOMAIN errors : errors[u] # "lost"
SampleIsOwn == firstPass \in Seq(1 .. N) /\ FirstPassIsOwn
Waits(u) == pending[u] = Found(u) /\ Reach(u) \in Rungs /\ Aligns(u)
Calibrating ==
  /\ setting.check # "deferred" => pending = <<>>
  /\ pc = "calibrate" => setting.check = "deferred"
  /\ \A r \in DOMAIN calibration :
       /\ pc \in {"calibrate", "close", "done", "raised"}
       /\ calibration[r] = Sampled(r) \/ (calibration[r] = NoThreshold /\ lost)
Deferring ==
  setting.check = "deferred" =>
    /\ \A u \in DOMAIN results : Reach(u) # 0 =>
         pc \in {"close", "done", "raised"} /\ calibration[Reach(u)] # NoThreshold
    /\ \A u \in DOMAIN errors : errors[u] = "rejected" => pc \in {"close", "done", "raised"}
OwnInv ==
  /\ setting \in Settings
  /\ SearchIsOwn /\ SampleIsOwn /\ Calibrating /\ Deferring
  /\ \A u \in DOMAIN results : ResultIsOwn(u)
  /\ \A u \in DOMAIN errors : errors[u] = "unopened" \/ ErrorIsOwn(u)
  /\ \A u \in DOMAIN pending : Waits(u)
=============================================================================
