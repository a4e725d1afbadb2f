------------------------- MODULE AlignmentBatchProofs -------------------------
(***************************************************************************)
(* JobIsAccounted and OutcomesAreOwn, for every corpus, ladder and         *)
(* setting.  BatchInv is inductive; its parts are taken one at a time:     *)
(* Counted and YieldAdds speak of the sizes of the sets that Filed keeps   *)
(* apart.  OwnInv is inductive beside it: it compares what is filed with   *)
(* what the corpus and the setting say of each utterance.                  *)
(***************************************************************************)
EXTENDS AlignmentBatch, FiniteSetTheorems, WellFoundedInduction, TLAPS

(* A corpus is a sequence.                                                 *)
LEMMA CorpusLength ==
  ASSUME corpus \in Corpora PROVE N \in Nat /\ (corpus = <<>> => N = 0)
<1>1. PICK Item : corpus \in Seq(Item)
  BY BatchAssumption
<1> QED
  BY <1>1 DEF N

(* What an entry added to a table changes.                                 *)
LEMMA ToldTable ==
  ASSUME NEW f, NEW u, NEW v
  PROVE  /\ DOMAIN Told(f, u, v) = DOMAIN f \cup {u}
         /\ Told(f, u, v)[u] = v
         /\ \A x \in DOMAIN f \ {u} : Told(f, u, v)[x] = f[x]
  BY DEF Told

(* One more element.                                                       *)
LEMMA OneMore ==
  ASSUME NEW S, IsFiniteSet(S), NEW x, x \notin S
  PROVE  Cardinality(S \cup {x}) = Cardinality(S) + 1 /\ Cardinality(S) \in Nat
  BY FS_AddElement, FS_CardinalityType

(* One more entry in a table: its size, and the recoveries filed at a rung.*)
LEMMA ToldSize ==
  ASSUME NEW f, NEW u, NEW v, u \notin DOMAIN f, IsFiniteSet(DOMAIN f)
  PROVE  Cardinality(DOMAIN Told(f, u, v)) = Cardinality(DOMAIN f) + 1
<1>1. DOMAIN Told(f, u, v) = DOMAIN f \cup {u}
  BY ToldTable
<1>2. Cardinality(DOMAIN f \cup {u}) = Cardinality(DOMAIN f) + 1
  BY OneMore
<1> QED
  BY <1>1, <1>2

LEMMA ToldWith ==
  ASSUME NEW f, NEW u, NEW v, u \notin DOMAIN f, NEW r, IsFiniteSet(With(f, r))
  PROVE  /\ Cardinality(With(f, r)) \in Nat
         /\ Cardinality(With(Told(f, u, v), r))
              = Cardinality(With(f, r)) + (IF v.rung = r THEN 1 ELSE 0)
<1> DEFINE g == Told(f, u, v)
<1>0. DOMAIN g = DOMAIN f \cup {u} /\ g[u] = v /\ \A x \in DOMAIN f \ {u} : g[x] = f[x]
  BY DEF Told, g
<1> HIDE DEF g
<1>1. u \notin With(f, r)
  BY DEF With
<1>2. CASE v.rung = r
  <2>1. With(g, r) = With(f, r) \cup {u}
    BY <1>2, <1>0 DEF With
  <2>2. Cardinality(With(f, r) \cup {u}) = Cardinality(With(f, r)) + 1
          /\ Cardinality(With(f, r)) \in Nat
    BY <1>1, OneMore
  <2> QED
    BY <1>2, <2>1, <2>2 DEF g
<1>3. CASE v.rung # r
  <2>1. With(g, r) = With(f, r)
    BY <1>3, <1>0 DEF With
  <2>2. Cardinality(With(f, r)) \in Nat
    BY FS_CardinalityType
  <2> QED
    BY <1>3, <2>1, <2>2 DEF g
<1> QED
  BY <1>2, <1>3

(* Two sets apart.                                                         *)
LEMMA Apart ==
  ASSUME NEW S, NEW T, IsFiniteSet(S), IsFiniteSet(T), S \cap T = {}
  PROVE  /\ Cardinality(S \cup T) = Cardinality(S) + Cardinality(T)
         /\ Cardinality(S) \in Nat /\ Cardinality(T) \in Nat
<1>1. Cardinality(S \cup T) = Cardinality(S) + Cardinality(T) - Cardinality(S \cap T)
  BY FS_Union
<1>2. Cardinality(S \cap T) = 0
  BY FS_EmptySet
<1> QED
  BY <1>1, <1>2, FS_CardinalityType

(* Everything filed is finite.                                             *)
LEMMA FiledFinite ==
  ASSUME TypeOK, Progress, Filed
  PROVE  /\ \A S : S \subseteq DOMAIN results \cup DOMAIN errors \cup DOMAIN pending
                => IsFiniteSet(S)
         /\ \A r : IsFiniteSet(With(results, r)) /\ IsFiniteSet(With(pending, r))
         /\ \A r : IsFiniteSet(RejectedAt(r))
<1>1. N \in Nat /\ utt \in Nat
  BY CorpusLength DEF TypeOK, Progress
<1>2. Seen \subseteq 1 .. N
  BY <1>1 DEF Seen, Working, TypeOK
<1>3. ASSUME NEW S, S \subseteq 1 .. N PROVE IsFiniteSet(S)
  <2>1. IsFiniteSet(1 .. N)
    BY <1>1, FS_Interval
  <2> QED
    BY <1>3, <2>1, FS_Subset
<1>4. \A S : S \subseteq DOMAIN results \cup DOMAIN errors \cup DOMAIN pending => IsFiniteSet(S)
  BY <1>2, <1>3 DEF Filed
<1> QED
  BY <1>4 DEF With, RejectedAt, Filed

-----------------------------------------------------------------------------
LEMMA InitInv == Init => BatchInv
<1> SUFFICES ASSUME Init PROVE BatchInv
  OBVIOUS
<1>0. N \in Nat /\ (corpus = <<>> => N = 0) /\ R \in Nat
  BY CorpusLength, BatchAssumption DEF Init
<1>1. TypeOK
  <2>1. /\ attempts \in [Rungs -> Nat] /\ recoveries \in [Rungs -> Nat]
        /\ rejections \in [Rungs -> Nat]
    BY DEF Init
  <2>2. pc \in {"open", "done"} /\ lost \in BOOLEAN
    BY DEF Init
  <2>4. utt \in 0 .. N /\ nAligned \in Nat /\ nFailed \in Nat
    BY <1>0 DEF Init
  <2>3. beam \in 0 .. R /\ rungs \in 0 .. R
    BY <1>0 DEF Init
  <2> QED
    BY <2>1, <2>2, <2>3, <2>4 DEF TypeOK
<1>2. Progress
  BY DEF Init, Progress, Working
<1>3. DOMAIN results = {} /\ DOMAIN errors = {} /\ DOMAIN pending = {} /\ DOMAIN rejected = {}
  BY DEF Init
<1>4. Filed
  BY <1>0, <1>3 DEF Init, Filed, Seen, Working
<1>5. Counted
  BY <1>3, FS_EmptySet DEF Init, Counted
<1>6. YieldAdds
  <2>1. ASSUME NEW r \in Rungs
        PROVE  With(results, r) = {} /\ With(pending, r) = {} /\ RejectedAt(r) = {}
    BY <1>3 DEF With, RejectedAt
  <2>2. ASSUME NEW r \in Rungs
        PROVE  attempts[r] = 0 /\ recoveries[r] = 0 /\ rejections[r] = 0
    BY DEF Init
  <2>3. ASSUME NEW r \in Rungs, r < R PROVE r + 1 \in Rungs
    BY <1>0, <2>3 DEF Rungs
  <2> QED
    BY <2>1, <2>2, <2>3, FS_EmptySet DEF YieldAdds
<1> QED
  BY <1>1, <1>2, <1>4, <1>5, <1>6 DEF BatchInv

(* Steps that file nothing.                                                *)
LEMMA QuietStep ==
  ASSUME BatchInv, UNCHANGED <<job, yield, corpus>>, Progress', TypeOK', Seen' = Seen
  PROVE  BatchInv'
<1>1. Filed' /\ Counted'
  BY DEF BatchInv, Filed, Counted, job
<1>2. YieldAdds'
  BY DEF BatchInv, YieldAdds, With, RejectedAt, job, yield
<1> QED
  BY <1>1, <1>2 DEF BatchInv

LEMMA Quiet ==
  ASSUME BatchInv,
         \/ LoseHelper \/ AlignAudio \/ ClimbRung \/ EndPass \/ CalibrateRung
         \/ LoseThreshold \/ Close \/ UNCHANGED vars
  PROVE  BatchInv'
<1>0. TypeOK /\ Progress /\ N \in Nat /\ R \in Nat
  BY CorpusLength, BatchAssumption DEF BatchInv, Progress
<1>1. UNCHANGED <<job, yield, corpus, utt>> /\ N' = N
  BY DEF LoseHelper, AlignAudio, ClimbRung, EndPass, CalibrateRung, LoseThreshold, Close,
         vars, N
<1>2. /\ \/ pc' = pc /\ rungs' = rungs
         \/ /\ pc \in {"align", "climb"} /\ pc' \in {"answer", "fail", "climb"}
            /\ rungs' \in 0 .. R /\ (pc' = "climb" => rungs' < R)
         \/ pc = "next" /\ utt = N /\ rungs' = rungs
              /\ (pc' = "calibrate" \/ (pc' = "close" /\ pending = <<>>))
         \/ pc = "close" /\ pc' \in {"done", "raised"} /\ rungs' = rungs
      /\ beam' = beam /\ lost' \in BOOLEAN
  <2>1. CASE LoseHelper \/ CalibrateRung \/ LoseThreshold \/ UNCHANGED vars
    BY <1>0, <2>1 DEF LoseHelper, CalibrateRung, LoseThreshold, Restored, aligner, vars, TypeOK
  <2>2. CASE AlignAudio
    BY <1>0, <2>2 DEF AlignAudio, After, MayClimb, TypeOK
  <2>3. CASE ClimbRung
    BY <1>0, <2>3 DEF ClimbRung, After, MayClimb, Restored, TypeOK, Progress
  <2>4. CASE EndPass
    BY <1>0, <2>4 DEF EndPass, aligner, TypeOK
  <2>5. CASE Close
    BY <1>0, <2>5 DEF Close, aligner, TypeOK
  <2> QED
    BY <2>1, <2>2, <2>3, <2>4, <2>5
<1>3. TypeOK'
  BY <1>0, <1>1, <1>2 DEF TypeOK, yield, job
<1>4. Progress'
  BY <1>0, <1>1, <1>2 DEF Progress, Working, TypeOK, job
<1>5. Seen' = Seen
  BY <1>0, <1>1, <1>2 DEF Seen, Working, Progress, TypeOK
<1> QED
  BY <1>1, <1>3, <1>4, <1>5, QuietStep

-----------------------------------------------------------------------------
(* Steps that file an utterance.                                           *)

(* What a climb adds to the yield.                                         *)
LEMMA Climbed ==
  ASSUME TypeOK, YieldAdds, NEW recovered \in BOOLEAN, RecordRetry(rungs, recovered)
  PROVE  /\ attempts' \in [Rungs -> Nat] /\ recoveries' \in [Rungs -> Nat]
         /\ \A r \in Rungs :
              /\ recoveries'[r] = recoveries[r] + (IF recovered /\ r = rungs THEN 1 ELSE 0)
              /\ attempts'[r] >= recoveries'[r] + (IF r < R THEN attempts'[r + 1] ELSE 0)
<1>0. R \in Nat /\ rungs \in 0 .. R
  BY BatchAssumption DEF TypeOK
<1>1. ASSUME NEW r \in Rungs
      PROVE  /\ attempts[r] \in Nat /\ recoveries[r] \in Nat
             /\ attempts'[r] = IF r <= rungs THEN attempts[r] + 1 ELSE attempts[r]
             /\ recoveries'[r] = recoveries[r] + (IF recovered /\ r = rungs THEN 1 ELSE 0)
  BY DEF TypeOK, RecordRetry
<1>2. attempts' \in [Rungs -> Nat] /\ recoveries' \in [Rungs -> Nat]
  BY DEF TypeOK, RecordRetry
<1>3. ASSUME NEW r \in Rungs
      PROVE  attempts'[r] >= recoveries'[r] + (IF r < R THEN attempts'[r + 1] ELSE 0)
  <2>1. r \in 1 .. R
    BY DEF Rungs
  <2>2. attempts[r] >= recoveries[r] + (IF r < R THEN attempts[r + 1] ELSE 0)
    BY DEF YieldAdds
  <2>3. CASE r < R
    <3>1. r + 1 \in Rungs
      BY <1>0, <2>1, <2>3 DEF Rungs
    <3> QED
      BY <1>0, <1>1, <2>1, <2>2, <2>3, <3>1
  <2>4. CASE ~(r < R)
    BY <1>0, <1>1, <2>1, <2>2, <2>4
  <2> QED
    BY <2>3, <2>4
<1> QED
  BY <1>1, <1>2, <1>3

(* One more utterance fails.                                               *)
LEMMA FailStep ==
  ASSUME BatchInv, NEW u, NEW reason, u \notin Seen, Fail(u, reason), Seen' = Seen \cup {u},
         UNCHANGED <<results, rejected, pending, nAligned, rejections>>,
         Progress', TypeOK',
         \A r \in Rungs :
           /\ recoveries'[r] = recoveries[r]
           /\ attempts'[r] >= recoveries'[r] + (IF r < R THEN attempts'[r + 1] ELSE 0)
  PROVE  BatchInv'
<1>0. TypeOK /\ Progress /\ Filed /\ Counted /\ YieldAdds
  BY DEF BatchInv
<1>1. u \notin DOMAIN results \cup DOMAIN errors \cup DOMAIN pending /\ IsFiniteSet(DOMAIN errors)
  BY <1>0, FiledFinite DEF Filed
<1>2. DOMAIN errors' = DOMAIN errors \cup {u} /\ nFailed' = nFailed + 1
  BY ToldTable DEF Fail
<1>3. Filed'
  BY <1>0, <1>1, <1>2 DEF Filed
<1>4. Cardinality(DOMAIN errors') = Cardinality(DOMAIN errors) + 1
  BY <1>1, <1>2, OneMore
<1>5. Counted'
  BY <1>0, <1>2, <1>4 DEF Counted
<1>6. YieldAdds'
  BY <1>0 DEF YieldAdds, With, RejectedAt
<1> QED
  BY <1>3, <1>5, <1>6 DEF BatchInv

LEMMA NextUtteranceStep == BatchInv /\ NextUtterance => BatchInv'
<1> SUFFICES ASSUME BatchInv, NextUtterance PROVE BatchInv'
  OBVIOUS
<1>0. TypeOK /\ Progress /\ YieldAdds /\ N \in Nat /\ N' = N /\ utt \in Nat /\ utt < N
  BY CorpusLength DEF BatchInv, Progress, NextUtterance, N, TypeOK
<1>1. utt' = utt + 1 /\ pc = "next" /\ pc' \in {"next", "align"} /\ Seen = 1 .. utt
  BY DEF NextUtterance, Seen, Working
<1>2. Progress'
  BY <1>0, <1>1 DEF NextUtterance, Progress, Working
<1>3. CASE corpus[utt'].kind = "missing"
  <2>1. Fail(utt', "missing") /\ pc' = "next"
    BY <1>3 DEF NextUtterance
  <2>2. TypeOK'
    BY <1>0, <1>1, <2>1 DEF NextUtterance, TypeOK, aligner, yield, Fail
  <2>3. Seen' = Seen \cup {utt'} /\ utt' \notin Seen
    BY <1>0, <1>1, <2>1 DEF Seen, Working
  <2>4. \A r \in Rungs : /\ recoveries'[r] = recoveries[r]
                         /\ attempts'[r] >= recoveries'[r] + (IF r < R THEN attempts'[r + 1] ELSE 0)
    BY <1>0 DEF NextUtterance, yield, YieldAdds
  <2> QED
    BY <1>2, <2>1, <2>2, <2>3, <2>4, FailStep DEF NextUtterance, yield
<1>4. CASE corpus[utt'].kind # "missing"
  <2>1. pc' = "align" /\ UNCHANGED <<job, yield, corpus>>
    BY <1>4 DEF NextUtterance, job
  <2>2. TypeOK'
    BY <1>0, <1>1, <2>1 DEF NextUtterance, TypeOK, aligner, yield, job
  <2>3. Seen' = Seen
    BY <1>0, <1>1, <2>1 DEF Seen, Working
  <2> QED
    BY <1>2, <2>1, <2>2, <2>3, QuietStep
<1> QED
  BY <1>3, <1>4

LEMMA CountFailureStep == BatchInv /\ CountFailure => BatchInv'
<1> SUFFICES ASSUME BatchInv, CountFailure PROVE BatchInv'
  OBVIOUS
<1>0. TypeOK /\ Progress /\ YieldAdds /\ N \in Nat /\ N' = N
  BY CorpusLength DEF BatchInv, Progress, CountFailure, N
<1>1. utt \in 1 .. N /\ utt' = utt /\ pc' = "next" /\ Seen = 1 .. utt - 1
  BY <1>0 DEF CountFailure, Progress, Working, Seen
<1>2. Seen' = Seen \cup {utt} /\ utt \notin Seen
  BY <1>0, <1>1 DEF Seen, Working
<1>3. Progress'
  BY <1>0, <1>1 DEF CountFailure, Progress, Working
<1>4. /\ attempts' \in [Rungs -> Nat] /\ recoveries' \in [Rungs -> Nat]
      /\ \A r \in Rungs : /\ recoveries'[r] = recoveries[r]
                         /\ attempts'[r] >= recoveries'[r] + (IF r < R THEN attempts'[r + 1] ELSE 0)
  <2>1. CASE lost
    <3>1. attempts' = attempts /\ recoveries' = recoveries
      BY <2>1 DEF CountFailure
    <3> QED
      BY <1>0, <3>1 DEF YieldAdds, TypeOK
  <2>2. CASE ~lost
    <3>1. RecordRetry(rungs, FALSE)
      BY <2>2 DEF CountFailure
    <3>2. /\ attempts' \in [Rungs -> Nat] /\ recoveries' \in [Rungs -> Nat]
          /\ \A r \in Rungs :
               /\ recoveries'[r] = recoveries[r] + (IF FALSE /\ r = rungs THEN 1 ELSE 0)
               /\ attempts'[r] >= recoveries'[r] + (IF r < R THEN attempts'[r + 1] ELSE 0)
      BY <1>0, <3>1, Climbed
    <3> QED
      BY <1>0, <3>2 DEF TypeOK
  <2> QED
    BY <2>1, <2>2
<1>5. TypeOK'
  BY <1>0, <1>1, <1>4 DEF CountFailure, TypeOK, aligner, Fail
<1>6. PICK reason : Fail(utt, reason)
  BY DEF CountFailure
<1> QED
  BY <1>2, <1>3, <1>4, <1>5, <1>6, FailStep DEF CountFailure

LEMMA OpenStep == BatchInv /\ Open => BatchInv'
<1> SUFFICES ASSUME BatchInv, Open PROVE BatchInv'
  OBVIOUS
<1>0. /\ TypeOK /\ Progress /\ Filed /\ Counted /\ YieldAdds /\ N \in Nat /\ N' = N
      /\ utt = 0 /\ utt' = 0 /\ pc = "open"
  BY CorpusLength DEF BatchInv, Progress, Open, N
<1>1. CASE pc' = "next" /\ UNCHANGED <<errors, nFailed>>
  <2>1. UNCHANGED <<job, yield, corpus>>
    BY <1>1 DEF Open, job
  <2>2. TypeOK' /\ Progress'
    BY <1>0, <1>1 DEF Open, TypeOK, Progress, Working, aligner, yield
  <2>3. Seen' = Seen
    BY <1>0, <1>1 DEF Seen, Working
  <2> QED
    BY <2>1, <2>2, <2>3, QuietStep
<1>2. CASE pc' = "done" /\ errors' = [u \in 1 .. N |-> "unopened"] /\ nFailed' = N
  <2>1. TypeOK' /\ Progress'
    BY <1>0, <1>2 DEF Open, TypeOK, Progress, Working, aligner, yield
  <2>2. Seen = {} /\ Seen' = 1 .. N
    BY <1>0, <1>2 DEF Seen, Working
  <2>3. Filed'
    BY <1>0, <1>2, <2>2 DEF Open, Filed
  <2>4. Cardinality(1 .. N) = N
    BY <1>0, FS_Interval
  <2>5. Counted'
    BY <1>0, <1>2, <2>4 DEF Open, Counted
  <2>6. YieldAdds'
    BY <1>0 DEF Open, yield, YieldAdds, With, RejectedAt
  <2> QED
    BY <2>1, <2>3, <2>5, <2>6 DEF BatchInv
<1> QED
  BY <1>1, <1>2 DEF Open

(* What was found is refused, waits, or is accepted.                       *)
LEMMA AnswerStep == BatchInv /\ Answer => BatchInv'
<1> SUFFICES ASSUME BatchInv, Answer PROVE BatchInv'
  OBVIOUS
<1>0. TypeOK /\ Progress /\ Filed /\ Counted /\ YieldAdds /\ N \in Nat /\ N' = N /\ R \in Nat
  BY CorpusLength, BatchAssumption DEF BatchInv, Progress, Answer, N
<1>1. utt \in 1 .. N /\ utt' = utt /\ pc = "answer" /\ pc' = "next" /\ Seen = 1 .. utt - 1
  BY <1>0 DEF Answer, Progress, Working, Seen
<1>2. Seen' = Seen \cup {utt} /\ utt \notin Seen
  BY <1>0, <1>1 DEF Seen, Working
<1>3. Progress'
  BY <1>0, <1>1 DEF Answer, Progress, Working
<1>4. utt \notin DOMAIN results /\ utt \notin DOMAIN errors /\ utt \notin DOMAIN pending
      /\ utt \notin DOMAIN rejected
  BY <1>0, <1>2 DEF Filed
<1>5. /\ IsFiniteSet(DOMAIN results) /\ IsFiniteSet(DOMAIN errors)
      /\ \A r : IsFiniteSet(With(results, r)) /\ IsFiniteSet(With(pending, r))
      /\ \A r : IsFiniteSet(RejectedAt(r))
  BY <1>0, FiledFinite
<1>6. /\ attempts' \in [Rungs -> Nat] /\ recoveries' \in [Rungs -> Nat]
      /\ \A r \in Rungs :
           /\ recoveries'[r] = recoveries[r] + (IF TRUE /\ r = rungs THEN 1 ELSE 0)
           /\ attempts'[r] >= recoveries'[r] + (IF r < R THEN attempts'[r + 1] ELSE 0)
  <2>1. RecordRetry(rungs, TRUE)
    BY DEF Answer
  <2> QED
    BY <1>0, <2>1, Climbed
<1>7. ASSUME NEW r \in Rungs
      PROVE  /\ rejections[r] = Cardinality(RejectedAt(r)) /\ recoveries[r] \in Nat
             /\ recoveries[r] = Cardinality(With(results, r)) + Cardinality(With(pending, r))
                    + rejections[r]
             /\ Cardinality(With(results, r)) \in Nat /\ Cardinality(With(pending, r)) \in Nat
             /\ rejections[r] \in Nat
  BY <1>0, <1>5, FS_CardinalityType DEF YieldAdds, TypeOK
<1> DEFINE found == Alignment(utt, IF rungs = 0 THEN beam ELSE rungs)
           refused == /\ rungs > 0 /\ setting.check = "supplied"
                      /\ ~Passes(found.score, setting.thresholds[rungs])
           deferred == rungs > 0 /\ setting.check = "deferred"
<1>8. found.rung = rungs
  BY DEF Alignment
<1>9. ~(refused /\ deferred)
  OBVIOUS
<1>10. /\ rejections' = IF refused THEN [rejections EXCEPT ![rungs] = @ + 1] ELSE rejections
       /\ rejected' = IF refused THEN Told(rejected, utt, rungs) ELSE rejected
       /\ IF refused THEN Fail(utt, "rejected") ELSE UNCHANGED <<errors, nFailed>>
       /\ pending' = IF deferred THEN Told(pending, utt, found) ELSE pending
       /\ IF refused \/ deferred THEN UNCHANGED <<results, nAligned>>
          ELSE results' = Told(results, utt, found) /\ nAligned' = nAligned + 1
  BY DEF Answer
<1>11. refused => rungs \in Rungs
  BY <1>0 DEF TypeOK, Rungs
<1> HIDE DEF found, refused, deferred
<1>12. rejections' \in [Rungs -> Nat] /\ nAligned' \in Nat /\ nFailed' \in Nat
  BY <1>0, <1>10, <1>11 DEF TypeOK, Fail
<1>13. TypeOK'
  BY <1>0, <1>1, <1>6, <1>12 DEF Answer, TypeOK, aligner
<1>14. CASE refused
  <2>1. UNCHANGED <<results, nAligned, pending>> /\ ~deferred
    BY <1>9, <1>10, <1>14
  <2>2. DOMAIN errors' = DOMAIN errors \cup {utt} /\ nFailed' = nFailed + 1
    BY <1>10, <1>14, ToldTable DEF Fail
  <2>3. rejected' = Told(rejected, utt, rungs) /\ DOMAIN rejected' = DOMAIN rejected \cup {utt}
    BY <1>10, <1>14, ToldTable
  <2>4. Filed'
    BY <1>0, <1>2, <1>4, <2>1, <2>2, <2>3 DEF Filed
  <2>5. Cardinality(DOMAIN errors') = Cardinality(DOMAIN errors) + 1
    BY <1>4, <1>5, <2>2, OneMore
  <2>6. Counted'
    BY <1>0, <2>1, <2>2, <2>5 DEF Counted
  <2>7. ASSUME NEW r \in Rungs
        PROVE  /\ Cardinality(RejectedAt(r)')
                    = Cardinality(RejectedAt(r)) + (IF r = rungs THEN 1 ELSE 0)
               /\ rejections'[r] = rejections[r] + (IF r = rungs THEN 1 ELSE 0)
    <3>1. CASE r = rungs
      <4>1. RejectedAt(r)' = RejectedAt(r) \cup {utt} /\ utt \notin RejectedAt(r)
        BY <1>4, <2>3, <3>1 DEF RejectedAt, Told
      <4>2. Cardinality(RejectedAt(r) \cup {utt}) = Cardinality(RejectedAt(r)) + 1
        BY <1>5, <4>1, OneMore
      <4>3. rejections'[r] = rejections[r] + 1
        BY <1>0, <1>10, <1>14, <3>1 DEF TypeOK
      <4> QED
        BY <3>1, <4>1, <4>2, <4>3
    <3>2. CASE r # rungs
      <4>1. RejectedAt(r)' = RejectedAt(r)
        BY <1>4, <2>3, <3>2 DEF RejectedAt, Told
      <4>2. rejections'[r] = rejections[r] /\ Cardinality(RejectedAt(r)) \in Nat
              /\ rejections[r] \in Nat
        BY <1>0, <1>7, <1>10, <1>14, <3>2 DEF TypeOK
      <4> QED
        BY <3>2, <4>1, <4>2
    <3> QED
      BY <3>1, <3>2
  <2>8. \A r : With(results, r)' = With(results, r) /\ With(pending, r)' = With(pending, r)
    BY <2>1 DEF With
  <2>9. YieldAdds'
    BY <1>6, <1>7, <2>7, <2>8 DEF YieldAdds
  <2> QED
    BY <1>3, <1>13, <2>4, <2>6, <2>9 DEF BatchInv
<1>15. CASE ~refused
  <2>1. UNCHANGED <<errors, nFailed, rejected, rejections>>
    BY <1>10, <1>15
  <2>2. \A r : RejectedAt(r)' = RejectedAt(r)
    BY <2>1 DEF RejectedAt
  <2>3. CASE deferred
    <3>1. pending' = Told(pending, utt, found) /\ UNCHANGED <<results, nAligned>>
      BY <1>10, <2>3
    <3>2. DOMAIN pending' = DOMAIN pending \cup {utt}
      BY <3>1, ToldTable
    <3>3. Filed'
      BY <1>0, <1>2, <1>4, <2>1, <3>1, <3>2 DEF Filed
    <3>4. Counted'
      BY <1>0, <2>1, <3>1 DEF Counted
    <3>5. ASSUME NEW r \in Rungs
          PROVE  /\ Cardinality(With(pending, r)')
                    = Cardinality(With(pending, r)) + (IF r = rungs THEN 1 ELSE 0)
                 /\ With(results, r)' = With(results, r)
      <4>1. Cardinality(With(Told(pending, utt, found), r))
              = Cardinality(With(pending, r)) + (IF found.rung = r THEN 1 ELSE 0)
        BY <1>4, <1>5, ToldWith
      <4>2. With(pending, r)' = With(Told(pending, utt, found), r)
        BY <3>1 DEF With
      <4>3. With(results, r)' = With(results, r)
        BY <3>1 DEF With
      <4> QED
        BY <1>8, <4>1, <4>2, <4>3
    <3>6. YieldAdds'
      BY <1>6, <1>7, <2>1, <2>2, <3>5 DEF YieldAdds
    <3> QED
      BY <1>3, <1>13, <3>3, <3>4, <3>6 DEF BatchInv
  <2>4. CASE ~deferred
    <3>1. results' = Told(results, utt, found) /\ nAligned' = nAligned + 1 /\ pending' = pending
      BY <1>10, <1>15, <2>4
    <3>2. DOMAIN results' = DOMAIN results \cup {utt}
      BY <3>1, ToldTable
    <3>3. Filed'
      BY <1>0, <1>2, <1>4, <2>1, <3>1, <3>2 DEF Filed
    <3>4. Cardinality(DOMAIN results') = Cardinality(DOMAIN results) + 1
      BY <1>4, <1>5, <3>2, OneMore
    <3>5. Counted'
      BY <1>0, <2>1, <3>1, <3>4 DEF Counted
    <3>6. ASSUME NEW r \in Rungs
          PROVE  /\ Cardinality(With(results, r)')
                    = Cardinality(With(results, r)) + (IF r = rungs THEN 1 ELSE 0)
                 /\ With(pending, r)' = With(pending, r)
      <4>1. Cardinality(With(Told(results, utt, found), r))
              = Cardinality(With(results, r)) + (IF found.rung = r THEN 1 ELSE 0)
        BY <1>4, <1>5, ToldWith
      <4>2. With(results, r)' = With(Told(results, utt, found), r)
        BY <3>1 DEF With
      <4>3. With(pending, r)' = With(pending, r)
        BY <3>1 DEF With
      <4> QED
        BY <1>8, <4>1, <4>2, <4>3
    <3>7. YieldAdds'
      BY <1>6, <1>7, <2>1, <2>2, <3>6 DEF YieldAdds
    <3> QED
      BY <1>3, <1>13, <3>3, <3>5, <3>7 DEF BatchInv
  <2> QED
    BY <2>3, <2>4
<1> QED
  BY <1>14, <1>15

(* What waited is accepted or refused, whole.                              *)
LEMMA JudgeStep == BatchInv /\ Judge => BatchInv'
<1> SUFFICES ASSUME BatchInv, Judge PROVE BatchInv'
  OBVIOUS
<1>0. TypeOK /\ Progress /\ Filed /\ Counted /\ YieldAdds /\ N \in Nat /\ N' = N /\ R \in Nat
  BY CorpusLength, BatchAssumption DEF BatchInv, Progress, Judge, N
<1>1. utt' = utt /\ utt = N /\ pc = "calibrate" /\ pc' = "close" /\ Seen = 1 .. utt
  BY <1>0 DEF Judge, Progress, Working, Seen
<1>2. Seen' = Seen
  BY <1>0, <1>1 DEF Seen, Working
<1> DEFINE refused == DOMAIN pending \ Accepted
<1>3. /\ DOMAIN results' = DOMAIN results \cup Accepted
      /\ \A u \in DOMAIN results' : results'[u] = IF u \in Accepted THEN pending[u] ELSE results[u]
      /\ nAligned' = nAligned + Cardinality(Accepted)
      /\ DOMAIN rejected' = DOMAIN rejected \cup refused
      /\ \A u \in DOMAIN rejected' : rejected'[u] = IF u \in refused THEN pending[u].rung
             ELSE rejected[u]
      /\ DOMAIN errors' = DOMAIN errors \cup refused
      /\ nFailed' = nFailed + Cardinality(refused)
      /\ pending' = <<>> /\ DOMAIN pending' = {}
      /\ UNCHANGED <<attempts, recoveries, aligner, lost, corpus>>
  BY DEF Judge
<1>4. rejections' = [r \in Rungs |-> rejections[r] + Cardinality({u \in refused :
          pending[u].rung = r})]
  BY DEF Judge, RejectedNow
<1>5. Accepted \subseteq DOMAIN pending
  BY DEF Accepted
<1>6. /\ Accepted \cup refused = DOMAIN pending /\ Accepted \cap refused = {}
      /\ DOMAIN results \cap Accepted = {} /\ DOMAIN errors \cap refused = {}
      /\ DOMAIN rejected \cap refused = {}
  BY <1>0, <1>5 DEF Filed
<1>7. \A S : S \subseteq DOMAIN results \cup DOMAIN errors \cup DOMAIN pending => IsFiniteSet(S)
  BY <1>0, FiledFinite
<1> HIDE DEF refused
<1>8. Filed'
  BY <1>0, <1>2, <1>3, <1>6 DEF Filed
<1>9. /\ Cardinality(DOMAIN results \cup Accepted) = Cardinality(DOMAIN results)
             + Cardinality(Accepted)
      /\ Cardinality(DOMAIN errors \cup refused) = Cardinality(DOMAIN errors) + Cardinality(refused)
      /\ Cardinality(Accepted) \in Nat /\ Cardinality(refused) \in Nat
  <2>1. /\ IsFiniteSet(DOMAIN results) /\ IsFiniteSet(DOMAIN errors)
        /\ IsFiniteSet(Accepted) /\ IsFiniteSet(refused)
    BY <1>6, <1>7
  <2> QED
    BY <1>6, <2>1, Apart
<1>10. Counted'
  BY <1>0, <1>3, <1>9 DEF Counted
<1>11. ASSUME NEW r \in Rungs
       PROVE  /\ rejections'[r] = Cardinality(RejectedAt(r)') /\ rejections'[r] \in Nat
              /\ recoveries[r] = Cardinality(With(results, r)') + rejections'[r]
  <2> DEFINE A == {u \in Accepted : pending[u].rung = r}
             B == {u \in refused : pending[u].rung = r}
  <2>1. With(results, r)' = With(results, r) \cup A /\ With(results, r) \cap A = {}
    <3>1. With(results, r)' = {u \in DOMAIN results' : results'[u].rung = r}
      BY DEF With
    <3> QED
      BY <1>3, <1>6, <3>1 DEF With
  <2>2. RejectedAt(r)' = RejectedAt(r) \cup B /\ RejectedAt(r) \cap B = {}
    <3>1. RejectedAt(r)' = {u \in DOMAIN rejected' : rejected'[u] = r}
      BY DEF RejectedAt
    <3> QED
      BY <1>3, <1>6, <3>1 DEF RejectedAt
  <2>3. With(pending, r) = A \cup B /\ A \cap B = {}
    BY <1>6 DEF With
  <2>4. /\ A \subseteq DOMAIN pending /\ B \subseteq DOMAIN pending
        /\ With(results, r) \subseteq DOMAIN results /\ RejectedAt(r) \subseteq DOMAIN errors
    BY <1>0, <1>6 DEF With, RejectedAt, Filed
  <2> HIDE DEF A, B
  <2>5. IsFiniteSet(A) /\ IsFiniteSet(B) /\ IsFiniteSet(With(results, r))
          /\ IsFiniteSet(RejectedAt(r))
    BY <1>7, <2>4
  <2>6. /\ Cardinality(With(results, r) \cup A) = Cardinality(With(results, r)) + Cardinality(A)
        /\ Cardinality(RejectedAt(r) \cup B) = Cardinality(RejectedAt(r)) + Cardinality(B)
        /\ Cardinality(A \cup B) = Cardinality(A) + Cardinality(B)
        /\ Cardinality(A) \in Nat /\ Cardinality(B) \in Nat /\ Cardinality(With(results, r)) \in Nat
        /\ Cardinality(RejectedAt(r)) \in Nat
    BY <2>1, <2>2, <2>3, <2>5, Apart
  <2>7. rejections'[r] = rejections[r] + Cardinality(B)
    BY <1>4 DEF B
  <2>8. /\ rejections[r] = Cardinality(RejectedAt(r))
        /\ recoveries[r] = Cardinality(With(results, r)) + Cardinality(With(pending, r))
               + rejections[r]
    BY <1>0 DEF YieldAdds
  <2> QED
    BY <2>1, <2>2, <2>3, <2>6, <2>7, <2>8
<1>12. ASSUME NEW r \in Rungs PROVE Cardinality(With(pending, r)') = 0
  <2>1. With(pending, r)' = {}
    BY <1>3 DEF With
  <2> QED
    BY <2>1, FS_EmptySet
<1>13. YieldAdds'
  <2>1. ASSUME NEW r \in Rungs
        PROVE  recoveries[r] = Cardinality(With(results, r)') + Cardinality(With(pending, r)')
                   + rejections'[r]
    <3>1. Cardinality(With(results, r)') \in Nat
      <4>1. With(results, r)' \subseteq DOMAIN results \cup DOMAIN errors \cup DOMAIN pending
        BY <1>3, <1>6 DEF With
      <4> QED
        BY <1>7, <4>1, FS_CardinalityType
    <3> QED
      BY <1>11, <1>12, <3>1
  <2> QED
    BY <1>0, <1>3, <1>11, <2>1 DEF YieldAdds
<1>14. TypeOK'
  <2>1. rejections' \in [Rungs -> Nat]
    BY <1>4, <1>11
  <2> QED
    BY <1>0, <1>1, <1>3, <1>9, <2>1 DEF TypeOK, aligner
<1>15. Progress'
  BY <1>0, <1>1, <1>3 DEF Progress, Working
<1> QED
  BY <1>8, <1>10, <1>13, <1>14, <1>15 DEF BatchInv

-----------------------------------------------------------------------------
(* BatchInv holds throughout.                                              *)
LEMMA BatchInvariant == Spec => []BatchInv
<1>1. BatchInv /\ [Next]_vars => BatchInv'
  BY Quiet, OpenStep, NextUtteranceStep, AnswerStep, CountFailureStep, JudgeStep DEF Next
<1> QED
  BY <1>1, InitInv, PTL DEF Spec

(* The state of a corpus alignment keeps its types: the yield counts       *)
(* naturals, and a climb never leaves the ladder (align_corpus,            *)
(* _climb_retry_ladder).                                                   *)
THEOREM TypeCorrect == Spec => []TypeOK
<1>1. BatchInv => TypeOK
  BY DEF BatchInv
<1> QED
  BY <1>1, BatchInvariant, PTL

(* A job that is returned files every utterance once, counts what it       *)
(* filed, and its yield of the ladder adds up, however the helper is lost  *)
(* and whatever is rejected (align_corpus, retry_yield).                   *)
THEOREM JobAccounted == Spec => []JobIsAccounted
<1>1. BatchInv => JobIsAccounted
  <2> SUFFICES ASSUME BatchInv, pc = "done" PROVE JobIsAccounted
    BY DEF JobIsAccounted
  <2>0. TypeOK /\ Progress /\ Filed /\ Counted /\ YieldAdds
    BY DEF BatchInv
  <2>1. DOMAIN pending = {} /\ Seen = 1 .. N
    BY <2>0 DEF Progress, Seen
  <2>2. ASSUME NEW r \in Rungs PROVE Cardinality(With(pending, r)) = 0
    <3>1. With(pending, r) = {}
      BY <2>1 DEF With
    <3> QED
      BY <3>1, FS_EmptySet
  <2>3. ASSUME NEW r \in Rungs
        PROVE  recoveries[r] = Cardinality(With(results, r)) + rejections[r]
    <3>1. IsFiniteSet(With(results, r))
      BY <2>0, FiledFinite
    <3>2. Cardinality(With(results, r)) \in Nat
      BY <3>1, FS_CardinalityType
    <3> QED
      BY <2>0, <2>2, <3>2 DEF YieldAdds
  <2> QED
    BY <2>0, <2>1, <2>3 DEF JobIsAccounted, Filed, Counted, YieldAdds
<1> QED
  BY <1>1, BatchInvariant, PTL

-----------------------------------------------------------------------------
(* OutcomesAreOwn: what an utterance comes to is its own.                  *)

LEMMA ItemShape ==
  ASSUME corpus \in Corpora, NEW u \in 1 .. N
  PROVE  /\ corpus[u].kind \in {"missing", "bad", "short", "speech"}
         /\ corpus[u].needs \in 0 .. R + 1 /\ R \in Nat
         /\ Reach(u) \in 0 .. R + 1
<1> DEFINE Item == [kind : {"missing", "bad", "short", "speech"}, needs : 0 .. R + 1,
                    score : Int \cup {NoScore}]
<1>1. corpus \in Seq(Item) /\ R \in Nat
  BY BatchAssumption
<1>2. corpus[u] \in Item
  <2> HIDE DEF Item
  <2> QED
    BY <1>1 DEF N
<1> QED
  BY <1>1, <1>2 DEF Reach, AlignsAt

(* A search aligns exactly from the first beam on that lets it.            *)
LEMMA SearchShape ==
  ASSUME corpus \in Corpora, NEW u \in 1 .. N, NEW b \in 0 .. R
  PROVE  /\ Search(corpus[u], b) \in {"error", "aligned", "pruned"}
         /\ Search(corpus[u], b) = "aligned" <=> Reach(u) <= b
         /\ corpus[u].kind \in {"bad", "short"} => Reach(u) = R + 1
         /\ Search(corpus[u], b) = "error" => Reach(u) = R + 1
  BY ItemShape DEF Search, Reach, AlignsAt

(* Where a search leads that is made at rung r, those before it in vain.   *)
LEMMA AfterSearch ==
  ASSUME corpus \in Corpora, NEW u \in 1 .. N, NEW r \in 0 .. R, r <= Reach(u),
         r = 0 \/ setting.policy = "recover",
         NEW next, next = After(corpus[u], Search(corpus[u], r), r)
  PROVE  /\ next \in {"answer", "climb", "fail"}
         /\ next = "answer" => Reach(u) = r /\ Aligns(u)
         /\ next = "climb" => setting.policy = "recover" /\ r < Reach(u) /\ r < R
         /\ next = "fail" => ~Aligns(u)
<1>1. /\ Reach(u) \in 0 .. R + 1 /\ R \in Nat
      /\ Search(corpus[u], r) \in {"error", "aligned", "pruned"}
      /\ Search(corpus[u], r) = "aligned" <=> Reach(u) <= r
      /\ corpus[u].kind \in {"bad", "short"} => Reach(u) = R + 1
      /\ Search(corpus[u], r) = "error" => Reach(u) = R + 1
  BY ItemShape, SearchShape
<1>2. CASE Search(corpus[u], r) = "aligned"
  BY <1>1, <1>2 DEF After, Aligns
<1>3. CASE Search(corpus[u], r) = "error"
  BY <1>1, <1>3 DEF After, Aligns
<1>4. CASE Search(corpus[u], r) = "pruned"
  BY <1>1, <1>4 DEF After, MayClimb, Aligns
<1> QED
  BY <1>1, <1>2, <1>3, <1>4

(* What depends on the corpus and the setting alone, and on the sample.    *)
LEMMA OwnFrame ==
  ASSUME UNCHANGED <<corpus, setting>>
  PROVE  /\ N' = N
         /\ \A u : /\ Reach(u)' = Reach(u) /\ (Aligns(u)' <=> Aligns(u))
                   /\ Found(u)' = Found(u)
         /\ firstPass' = firstPass => \A r : Sampled(r)' = Sampled(r)
  BY DEF N, Reach, Aligns, Found, Sampled, Sample

(* Is what a rung recovered still accepted.                                *)
LEMMA AcceptedFrame ==
  ASSUME UNCHANGED <<corpus, setting>>, lost => lost', NEW u, NEW r, r = Reach(u)
  PROVE  /\ r = 0 \/ setting.check \in {"off", "supplied"}
              => (IsAccepted(u)' <=> IsAccepted(u))
         /\ UNCHANGED <<firstPass, calibration>> => (IsAccepted(u)' => IsAccepted(u))
         /\ UNCHANGED <<firstPass, calibration>> /\ calibration[r] # NoThreshold
              => (IsAccepted(u)' <=> IsAccepted(u))
<1>1. r = Reach(u)'
  BY OwnFrame
<1>2. setting.check = "supplied" => Threshold(r)' = Threshold(r)
  BY DEF Threshold
<1>3. firstPass' = firstPass => Threshold(r)' = Threshold(r)
  BY OwnFrame DEF Threshold
<1>4. \A s, t : (Passes(s, t)' <=> Passes(s, t))
  BY DEF Passes
<1>5. \A item, b : SpeechScore(item, b)' = SpeechScore(item, b)
  BY DEF SpeechScore
<1>6. r = 0 \/ setting.check \in {"off", "supplied"} => (IsAccepted(u)' <=> IsAccepted(u))
  BY <1>1, <1>2, <1>4, <1>5 DEF IsAccepted, Calibrated
<1>7. ASSUME UNCHANGED <<firstPass, calibration>>
      PROVE  /\ IsAccepted(u)' => IsAccepted(u)
             /\ calibration[r] # NoThreshold => (IsAccepted(u)' <=> IsAccepted(u))
  BY <1>1, <1>3, <1>4, <1>5, <1>7 DEF IsAccepted, Calibrated
<1> QED
  BY <1>6, <1>7

(* What was accepted stays accepted, what failed has failed.               *)
LEMMA ResultKept ==
  ASSUME OwnInv, UNCHANGED <<corpus, setting>>, lost => lost',
         \/ pc \notin {"close", "done", "raised"}
         \/ UNCHANGED <<firstPass, calibration>>,
         NEW u \in DOMAIN results, results'[u] = results[u]
  PROVE  ResultIsOwn(u)'
<1>1. PICK r : r = Reach(u)
  OBVIOUS
<1>2. ResultIsOwn(u) /\ setting.check \in {"off", "supplied", "deferred"}
  BY BatchAssumption DEF OwnInv
<1>3. r = 0 \/ setting.check \in {"off", "supplied"} => (IsAccepted(u)' <=> IsAccepted(u))
  BY <1>1, AcceptedFrame
<1>4. UNCHANGED <<firstPass, calibration>> /\ calibration[r] # NoThreshold
        => (IsAccepted(u)' <=> IsAccepted(u))
  BY <1>1, AcceptedFrame
<1>5. setting.check = "deferred" /\ r # 0
        => pc \in {"close", "done", "raised"} /\ calibration[r] # NoThreshold
  BY <1>1 DEF OwnInv, Deferring
<1>6. IsAccepted(u)'
  BY <1>2, <1>3, <1>4, <1>5 DEF ResultIsOwn
<1> QED
  BY <1>2, <1>6, OwnFrame DEF ResultIsOwn

LEMMA ErrorKept ==
  ASSUME OwnInv, UNCHANGED <<corpus, setting>>, lost => lost',
         \/ pc \notin {"close", "done", "raised"}
         \/ UNCHANGED <<firstPass, calibration>>,
         NEW u \in DOMAIN errors, errors'[u] = errors[u],
         u \in DOMAIN rejected => u \in DOMAIN rejected' /\ rejected'[u] = rejected[u],
         errors[u] = "lost" =>
           \A v \in u .. N : v \in Seen' =>
             v \in DOMAIN errors' /\ errors'[v] \in {"missing", "lost"}
  PROVE  errors'[u] = "unopened" \/ ErrorIsOwn(u)'
<1>1. PICK r : r = Reach(u)
  OBVIOUS
<1>2. setting.check \in {"off", "supplied", "deferred"}
  BY BatchAssumption DEF OwnInv
<1>3. errors[u] = "unopened" \/ ErrorIsOwn(u)
  BY DEF OwnInv
<1>4. CASE errors[u] = "rejected"
  <2>1. Aligns(u) /\ ~IsAccepted(u) /\ u \in DOMAIN rejected /\ rejected[u] = Reach(u)
    BY <1>3, <1>4 DEF ErrorIsOwn
  <2>2. r = 0 \/ setting.check \in {"off", "supplied"} => (IsAccepted(u)' <=> IsAccepted(u))
    BY <1>1, AcceptedFrame
  <2>3. UNCHANGED <<firstPass, calibration>> => (IsAccepted(u)' => IsAccepted(u))
    BY <1>1, AcceptedFrame
  <2>4. setting.check = "deferred" => pc \in {"close", "done", "raised"}
    BY <1>4 DEF OwnInv, Deferring
  <2>5. ~IsAccepted(u)'
    BY <1>2, <2>1, <2>2, <2>3, <2>4
  <2> QED
    BY <1>4, <2>1, <2>5, OwnFrame DEF ErrorIsOwn
<1>5. CASE errors[u] = "lost"
  <2>1. lost /\ corpus[u].kind # "missing"
    BY <1>3, <1>5 DEF ErrorIsOwn
  <2>2. \A v \in u .. N' \cap Seen' : v \in DOMAIN errors' /\ errors'[v] \in {"missing", "lost"}
    BY <1>5, OwnFrame
  <2> QED
    BY <1>5, <2>1, <2>2 DEF ErrorIsOwn
<1> QED
  BY <1>3, <1>4, <1>5, OwnFrame DEF ErrorIsOwn

(* Those that came after an utterance lost are lost or missing too.        *)
LEMMA LostBefore ==
  ASSUME OwnInv, NEW u \in DOMAIN errors, errors[u] = "lost"
  PROVE  /\ lost /\ pc \notin {"climb", "answer", "fail"}
         /\ \A v \in u .. N : v \in Seen => v \in DOMAIN errors /\ errors[v] \in {"missing", "lost"}
  BY DEF OwnInv, ErrorIsOwn, SearchIsOwn

(* A step that files nothing and samples nothing.                          *)
LEMMA OwnQuiet ==
  ASSUME OwnInv, UNCHANGED <<corpus, setting, job>>, lost => lost',
         Seen' = Seen, SearchIsOwn', Calibrating',
         \/ pc \notin {"close", "done", "raised"}
         \/ calibration' = calibration /\ pc' \in {"close", "done", "raised"}
  PROVE  OwnInv'
<1>0. UNCHANGED <<results, errors, rejected, pending, firstPass>>
  BY DEF job
<1>1. SampleIsOwn'
  BY <1>0, OwnFrame DEF OwnInv, SampleIsOwn, FirstPassIsOwn, With
<1>2. \A u \in DOMAIN results' : ResultIsOwn(u)'
  BY <1>0, ResultKept
<1>3. \A u \in DOMAIN errors' : errors'[u] = "unopened" \/ ErrorIsOwn(u)'
  BY <1>0, ErrorKept, LostBefore
<1>4. \A u \in DOMAIN pending' : Waits(u)'
  BY <1>0, OwnFrame DEF OwnInv, Waits
<1>5. Deferring'
  BY <1>0, OwnFrame DEF OwnInv, Deferring
<1> QED
  BY <1>1, <1>2, <1>3, <1>4, <1>5 DEF OwnInv

-----------------------------------------------------------------------------
(* The sample.                                                             *)

LEMMA SpacedIndex ==
  ASSUME NEW most \in Nat \ {0}, NEW n \in Nat, n > most, NEW i \in 1 .. most
  PROVE  1 + (((i - 1) * n) \div most) \in 1 .. n
<1> DEFINE a == (i - 1) * n
           q == a \div most
<1>1. a \in Nat /\ q \in Nat
  OBVIOUS
<1>2. most * q <= a
  OBVIOUS
<1>3. a < most * n
  OBVIOUS
<1>4. q < n
  <2> SUFFICES ASSUME q >= n PROVE FALSE
    BY <1>1
  <2>1. most * q >= most * n
    BY <1>1
  <2> QED
    BY <1>1, <1>2, <1>3, <2>1
<1> QED
  BY <1>1, <1>4

LEMMA Member ==
  ASSUME NEW S, NEW s \in Seq(S), NEW j \in DOMAIN s
  PROVE  s[j] \in S
  OBVIOUS

(* Only utterances aligned at the nominal beam are sampled.                *)
LEMMA SampleShape ==
  ASSUME BatchInv, OwnInv, NEW k \in DOMAIN Sample
  PROVE  Sample[k] \in 1 .. N /\ Reach(Sample[k]) = 0
<1>1. firstPass \in Seq(1 .. N) /\ MaxSamples \in Nat \ {0}
  BY BatchAssumption DEF OwnInv, SampleIsOwn
<1>2. PICK j \in DOMAIN firstPass : Sample[k] = firstPass[j]
  <2>1. CASE Len(firstPass) <= MaxSamples
    BY <2>1 DEF Sample, EvenlySpaced
  <2>2. CASE ~(Len(firstPass) <= MaxSamples)
    <3>1. Sample = [i \in 1 .. MaxSamples |->
                      firstPass[1 + (((i - 1) * Len(firstPass)) \div MaxSamples)]]
      BY <2>2 DEF Sample, EvenlySpaced
    <3>2. k \in 1 .. MaxSamples
      BY <3>1
    <3>3. PICK j : j = 1 + (((k - 1) * Len(firstPass)) \div MaxSamples)
      OBVIOUS
    <3>4. Len(firstPass) \in Nat /\ Len(firstPass) > MaxSamples
            /\ DOMAIN firstPass = 1 .. Len(firstPass)
      BY <1>1, <2>2
    <3>5. j \in DOMAIN firstPass
      BY <1>1, <3>2, <3>3, <3>4, SpacedIndex
    <3> QED
      BY <3>1, <3>2, <3>3, <3>5
  <2> QED
    BY <2>1, <2>2
<1>3. firstPass[j] \in 1 .. N /\ firstPass[j] \in With(results, 0)
  <2>1. {firstPass[i] : i \in DOMAIN firstPass} = With(results, 0)
    BY DEF OwnInv, SampleIsOwn, FirstPassIsOwn
  <2>2. firstPass[j] \in 1 .. N
    BY <1>1, Member
  <2> QED
    BY <2>1, <2>2
<1>4. results[firstPass[j]] = Found(firstPass[j]) /\ results[firstPass[j]].rung = 0
  BY <1>3 DEF OwnInv, ResultIsOwn, With
<1> QED
  BY <1>2, <1>3, <1>4 DEF Found

LEMMA LeastOne ==
  ASSUME NEW ns \in SUBSET Nat, ns # {}
  PROVE  Min(ns) \in ns
<1>1. PICK n \in ns : \A m \in ns : ~(<<m, n>> \in OpToRel(<, Nat))
  BY NatLessThanWellFounded, WFMin
<1>2. \A m \in ns : ~(m < n)
  BY <1>1 DEF OpToRel
<1>3. \A m \in ns : n <= m
  BY <1>2
<1> QED
  BY <1>3 DEF Min

(* A threshold calibrated is the one the reference takes.                  *)
LEMMA SampledRight ==
  ASSUME BatchInv, OwnInv, NEW r \in Rungs
  PROVE  ThresholdOf([k \in DOMAIN Sample |->
           IF Search(corpus[Sample[k]], r) = "aligned" THEN SpeechScore(corpus[Sample[k]], r)
                                                       ELSE NoScore]) = Sampled(r)
<1>1. ASSUME NEW k \in DOMAIN Sample PROVE Search(corpus[Sample[k]], r) = "aligned"
  <2>1. Sample[k] \in 1 .. N /\ Reach(Sample[k]) = 0
    BY <1>1, SampleShape
  <2>2. corpus \in Corpora /\ r \in 0 .. R /\ 0 <= r
    BY BatchAssumption DEF BatchInv, Progress, Rungs
  <2> QED
    BY <2>1, <2>2, SearchShape
<1> QED
  BY <1>1 DEF Sampled

LEMMA WaitingShape ==
  ASSUME OwnInv, Waiting # {}
  PROVE  Min(Waiting) \in Rungs
<1>1. Waiting \subseteq Rungs
  BY DEF OwnInv, Waits, Waiting, Found
<1>2. Waiting \in SUBSET Nat
  BY <1>1 DEF Rungs
<1> QED
  BY <1>1, <1>2, LeastOne

-----------------------------------------------------------------------------
(* Steps that file nothing.                                                *)

LEMMA CalibratingKept ==
  ASSUME OwnInv, UNCHANGED <<corpus, setting, firstPass, calibration>>, lost => lost',
         setting.check # "deferred" => pending' = <<>>,
         pc' = "calibrate" => setting.check = "deferred",
         pc \in {"calibrate", "close", "done", "raised"}
           => pc' \in {"calibrate", "close", "done", "raised"}
  PROVE  Calibrating'
<1>1. \A r : Sampled(r)' = Sampled(r)
  BY OwnFrame
<1>2. ASSUME NEW r \in DOMAIN calibration
      PROVE  /\ pc' \in {"calibrate", "close", "done", "raised"}
             /\ calibration'[r] = Sampled(r)' \/ (calibration'[r] = NoThreshold /\ lost')
  BY <1>1, <1>2 DEF OwnInv, Calibrating
<1> QED
  BY <1>2 DEF Calibrating

(* The search of an utterance at hand goes on.                             *)
LEMMA SearchStep ==
  ASSUME BatchInv, OwnInv, ~lost, pc \in {"align", "climb"},
         UNCHANGED <<corpus, setting, utt, lost, errors>>, beam' = 0, NEW r \in 0 .. R, rungs' = r,
         r <= Reach(utt), r = 0 \/ setting.policy = "recover",
         pc' = After(corpus[utt], Search(corpus[utt], r), r)
  PROVE  SearchIsOwn' /\ pc' \in {"answer", "climb", "fail"}
<1>1. corpus \in Corpora /\ utt \in 1 .. N
  BY DEF BatchInv, Progress, Working
<1>2. /\ pc' \in {"answer", "climb", "fail"}
      /\ pc' = "answer" => Reach(utt) = r /\ Aligns(utt)
      /\ pc' = "climb" => setting.policy = "recover" /\ r < Reach(utt) /\ r < R
      /\ pc' = "fail" => ~Aligns(utt)
  BY <1>1, AfterSearch
<1>3. corpus[utt].kind # "missing" /\ \A u \in DOMAIN errors : errors[u] # "lost"
  BY LostBefore DEF OwnInv, SearchIsOwn, Working
<1>4. Reach(utt)' = Reach(utt) /\ (Aligns(utt)' <=> Aligns(utt))
  BY DEF Reach, Aligns
<1> QED
  BY <1>2, <1>3, <1>4 DEF SearchIsOwn, Working

LEMMA OwnSearch == BatchInv /\ OwnInv /\ (AlignAudio \/ ClimbRung) => OwnInv'
<1> SUFFICES ASSUME BatchInv, OwnInv, AlignAudio \/ ClimbRung PROVE OwnInv'
  OBVIOUS
<1>1. /\ UNCHANGED <<corpus, setting, utt, lost, job, calibration>> /\ ~lost
      /\ pc \in {"align", "climb"} /\ beam = 0 /\ utt \in 1 .. N /\ R \in Nat
      /\ corpus \in Corpora
  BY BatchAssumption DEF AlignAudio, ClimbRung, OwnInv, SearchIsOwn, BatchInv, Progress, Working
<1>2. SearchIsOwn' /\ pc' \in {"answer", "climb", "fail"}
  <2>1. CASE AlignAudio
    <3>1. rungs' = 0 /\ beam' = 0 /\ pc' = After(corpus[utt], Search(corpus[utt], 0), 0)
      BY <1>1, <2>1 DEF AlignAudio
    <3>2. 0 \in 0 .. R /\ 0 <= Reach(utt)
      BY <1>1, ItemShape
    <3> QED
      BY <1>1, <3>1, <3>2, SearchStep DEF job
  <2>2. CASE ClimbRung
    <3>1. PICK r : r = rungs + 1
      OBVIOUS
    <3>2. rungs' = r /\ beam' = 0 /\ pc' = After(corpus[utt], Search(corpus[utt], r), r)
      BY <1>1, <2>2, <3>1 DEF ClimbRung, Restored
    <3>3. setting.policy = "recover" /\ rungs < Reach(utt) /\ rungs < R /\ rungs \in 0 .. R
      BY <2>2 DEF ClimbRung, OwnInv, SearchIsOwn, BatchInv, Progress, TypeOK
    <3>4. r \in 0 .. R /\ r <= Reach(utt)
      BY <1>1, <3>1, <3>3, ItemShape
    <3> QED
      BY <1>1, <3>2, <3>3, <3>4, SearchStep DEF job
  <2> QED
    BY <2>1, <2>2
<1>3. Calibrating'
  BY <1>1, <1>2, CalibratingKept DEF job, OwnInv, Calibrating
<1>4. Seen' = Seen
  BY <1>1, <1>2 DEF Seen, Working, N
<1> QED
  BY <1>1, <1>2, <1>3, <1>4, OwnQuiet

LEMMA OwnTurn ==
  BatchInv /\ OwnInv /\ (LoseHelper \/ EndPass \/ Close \/ UNCHANGED vars) => OwnInv'
<1> SUFFICES ASSUME BatchInv, OwnInv, LoseHelper \/ EndPass \/ Close \/ UNCHANGED vars
             PROVE  OwnInv'
  OBVIOUS
<1>1. /\ UNCHANGED <<corpus, setting, utt, beam, rungs, job, calibration>> /\ (lost => lost')
      /\ N' = N
  BY DEF LoseHelper, EndPass, Close, vars, aligner, N
<1>2. \/ pc' = pc
      \/ pc = "next" /\ pc' = "close"
      \/ pc = "next" /\ pc' = "calibrate" /\ pending # <<>>
      \/ pc = "close" /\ pc' \in {"done", "raised"} /\ utt = N
  BY DEF LoseHelper, EndPass, Close, vars, BatchInv, Progress
<1>3. Seen' = Seen
  BY <1>1, <1>2 DEF Seen, Working
<1>4. SearchIsOwn'
  <2>1. UNCHANGED <<errors>>
    BY <1>1 DEF job
  <2>2. Reach(utt)' = Reach(utt) /\ (Aligns(utt)' <=> Aligns(utt))
    BY <1>1 DEF Reach, Aligns
  <2> QED
    BY <1>1, <1>2, <2>1, <2>2 DEF OwnInv, SearchIsOwn, Working
<1>5. Calibrating'
  BY <1>1, <1>2, CalibratingKept DEF job, OwnInv, Calibrating
<1> QED
  BY <1>1, <1>2, <1>3, <1>4, <1>5, OwnQuiet

(* A threshold is that of the sample, or the helper was lost before it.    *)
LEMMA OwnCalibration == BatchInv /\ OwnInv /\ (CalibrateRung \/ LoseThreshold) => OwnInv'
<1> SUFFICES ASSUME BatchInv, OwnInv, CalibrateRung \/ LoseThreshold PROVE OwnInv'
  OBVIOUS
<1>1. /\ UNCHANGED <<corpus, setting, utt, lost, rungs, job, pc>> /\ beam' = beam
      /\ pc = "calibrate" /\ Waiting # {} /\ beam = 0 /\ N' = N
  BY DEF CalibrateRung, LoseThreshold, OwnInv, SearchIsOwn, Restored, aligner, N
<1>2. PICK rung \in Rungs : rung = Min(Waiting)
  BY <1>1, WaitingShape
<1>3. PICK t : /\ calibration' = Told(calibration, rung, t)
               /\ t = Sampled(rung) \/ (t = NoThreshold /\ lost)
  <2>1. CASE CalibrateRung
    <3>1. calibration' = Told(calibration, rung, ThresholdOf([k \in DOMAIN Sample |->
            IF Search(corpus[Sample[k]], rung) = "aligned"
            THEN SpeechScore(corpus[Sample[k]], rung) ELSE NoScore]))
      BY <1>2, <2>1 DEF CalibrateRung
    <3> QED
      BY <3>1, SampledRight
  <2>2. CASE LoseThreshold
    BY <1>2, <2>2 DEF LoseThreshold
  <2> QED
    BY <2>1, <2>2
<1>4. Calibrating'
  <2>1. \A r : Sampled(r)' = Sampled(r)
    BY <1>1, OwnFrame DEF job
  <2>2. /\ DOMAIN calibration' = DOMAIN calibration \cup {rung} /\ calibration'[rung] = t
        /\ \A x \in DOMAIN calibration \ {rung} : calibration'[x] = calibration[x]
    <3>1. calibration' = Told(calibration, rung, t)
      BY <1>3
    <3> QED
      BY <3>1 DEF Told
  <2>3. ASSUME NEW r \in DOMAIN calibration'
        PROVE  calibration'[r] = Sampled(r)' \/ (calibration'[r] = NoThreshold /\ lost')
    BY <1>1, <1>3, <2>1, <2>2, <2>3 DEF OwnInv, Calibrating
  <2> QED
    BY <1>1, <2>3 DEF Calibrating, OwnInv, job
<1>5. SearchIsOwn'
  BY <1>1 DEF OwnInv, SearchIsOwn, Working
<1>6. Seen' = Seen
  BY <1>1 DEF Seen, Working
<1> QED
  BY <1>1, <1>4, <1>5, <1>6, OwnQuiet

-----------------------------------------------------------------------------
(* Steps that file an utterance.                                           *)

(* One that fails, and the reason is its own.                              *)
LEMMA OwnFail ==
  ASSUME BatchInv, OwnInv, pc \notin {"calibrate", "close", "done", "raised"},
         pc' \in {"next", "align"},
         UNCHANGED <<corpus, setting, lost, results, pending, firstPass, calibration>>,
         NEW u \in 1 .. N, Seen = 1 .. u - 1, Seen' = 1 .. u,
         NEW reason \in {"missing", "failed", "rejected", "lost"}, Fail(u, reason),
         \A v \in DOMAIN rejected : v \in DOMAIN rejected' /\ rejected'[v] = rejected[v],
         \A v \in DOMAIN errors : errors[v] = "lost" => reason \in {"missing", "lost"},
         reason = "missing" => corpus[u].kind = "missing",
         reason = "failed" => corpus[u].kind # "missing" /\ ~Aligns(u),
         reason = "rejected" => /\ Aligns(u) /\ ~IsAccepted(u) /\ setting.check = "supplied"
                                /\ u \in DOMAIN rejected' /\ rejected'[u] = Reach(u),
         reason = "lost" => lost /\ corpus[u].kind # "missing",
         SearchIsOwn'
  PROVE  OwnInv'
<1>0. N \in Nat /\ N' = N
  BY CorpusLength, OwnFrame DEF BatchInv, Progress
<1>1. u \notin DOMAIN errors
  BY <1>0 DEF BatchInv, Filed
<1>2. /\ DOMAIN errors' = DOMAIN errors \cup {u} /\ errors'[u] = reason
      /\ \A x \in DOMAIN errors : errors'[x] = errors[x]
  <2>1. errors' = Told(errors, u, reason)
    BY DEF Fail
  <2> QED
    BY <1>1, <2>1 DEF Told
<1>3. ErrorIsOwn(u)'
  <2>1. CASE reason = "missing"
    BY <1>2, <2>1 DEF ErrorIsOwn
  <2>2. CASE reason = "failed"
    BY <1>2, <2>2, OwnFrame DEF ErrorIsOwn
  <2>3. CASE reason = "rejected"
    <3>1. PICK r : r = Reach(u)
      OBVIOUS
    <3>2. IsAccepted(u)' <=> IsAccepted(u)
      BY <2>3, <3>1, AcceptedFrame
    <3> QED
      BY <1>2, <2>3, <3>2, OwnFrame DEF ErrorIsOwn
  <2>4. CASE reason = "lost"
    <3>1. \A v \in u .. N' \cap Seen' : v = u
      BY <1>0
    <3> QED
      BY <1>2, <2>4, <3>1 DEF ErrorIsOwn
  <2> QED
    BY <2>1, <2>2, <2>3, <2>4
<1>4. ASSUME NEW v \in DOMAIN errors
      PROVE  errors'[v] = "unopened" \/ ErrorIsOwn(v)'
  <2>1. ASSUME errors[v] = "lost", NEW w \in v .. N, w \in Seen'
        PROVE  w \in DOMAIN errors' /\ errors'[w] \in {"missing", "lost"}
    <3>1. w = u \/ w \in Seen
      BY <1>0, <2>1
    <3>2. CASE w = u
      BY <1>2, <2>1, <3>2
    <3>3. CASE w \in Seen
      BY <1>2, <2>1, <3>3, LostBefore
    <3> QED
      BY <3>1, <3>2, <3>3
  <2>2. /\ errors'[v] = errors[v]
        /\ v \in DOMAIN rejected => v \in DOMAIN rejected' /\ rejected'[v] = rejected[v]
    BY <1>2
  <2> QED
    BY <2>1, <2>2, ErrorKept
<1>5. \A v \in DOMAIN errors' : errors'[v] = "unopened" \/ ErrorIsOwn(v)'
  BY <1>2, <1>3, <1>4
<1>6. \A v \in DOMAIN results' : ResultIsOwn(v)'
  BY ResultKept
<1>7. SampleIsOwn'
  BY <1>0 DEF OwnInv, SampleIsOwn, FirstPassIsOwn, With
<1>8. Calibrating'
  BY CalibratingKept DEF OwnInv, Calibrating
<1>9. Deferring'
  <2>1. \A v \in DOMAIN results' : Reach(v)' = Reach(v)
    BY OwnFrame
  <2> QED
    BY <1>2, <2>1 DEF OwnInv, Deferring
<1>10. \A v \in DOMAIN pending' : Waits(v)'
  BY OwnFrame DEF OwnInv, Waits
<1> QED
  BY <1>5, <1>6, <1>7, <1>8, <1>9, <1>10 DEF OwnInv

LEMMA OwnNext == BatchInv /\ OwnInv /\ NextUtterance => OwnInv'
<1> SUFFICES ASSUME BatchInv, OwnInv, NextUtterance PROVE OwnInv'
  OBVIOUS
<1>0. N \in Nat /\ N' = N /\ utt \in Nat /\ utt < N
  BY CorpusLength DEF BatchInv, Progress, NextUtterance, N, TypeOK
<1>1. /\ utt' = utt + 1 /\ pc = "next" /\ Seen = 1 .. utt /\ beam' = beam
      /\ UNCHANGED <<corpus, setting, lost, results, rejected, pending, firstPass, calibration>>
  BY DEF NextUtterance, Seen, Working, aligner
<1>2. PICK u \in 1 .. N : u = utt + 1
  BY <1>0
<1>3. Seen = 1 .. u - 1
  BY <1>0, <1>1, <1>2
<1>4. CASE corpus[u].kind = "missing"
  <2>1. Fail(u, "missing") /\ pc' = "next"
    BY <1>1, <1>2, <1>4 DEF NextUtterance
  <2>2. Seen' = 1 .. u
    BY <1>1, <1>2, <2>1 DEF Seen, Working
  <2>3. SearchIsOwn'
    BY <1>1, <2>1 DEF OwnInv, SearchIsOwn, Working
  <2> QED
    BY <1>1, <1>3, <1>4, <2>1, <2>2, <2>3, OwnFail
<1>5. CASE corpus[u].kind # "missing"
  <2>1. pc' = "align" /\ UNCHANGED job
    BY <1>1, <1>2, <1>5 DEF NextUtterance, job
  <2>2. Seen' = Seen
    BY <1>0, <1>1, <1>2, <2>1 DEF Seen, Working
  <2>3. SearchIsOwn'
    BY <1>1, <1>2, <1>5, <2>1 DEF OwnInv, SearchIsOwn, Working
  <2>4. Calibrating'
    BY <1>1, <2>1, CalibratingKept DEF OwnInv, Calibrating
  <2> QED
    BY <1>1, <2>1, <2>2, <2>3, <2>4, OwnQuiet
<1> QED
  BY <1>4, <1>5

LEMMA OwnCountFailure == BatchInv /\ OwnInv /\ CountFailure => OwnInv'
<1> SUFFICES ASSUME BatchInv, OwnInv, CountFailure PROVE OwnInv'
  OBVIOUS
<1>0. N \in Nat /\ N' = N /\ Working
  BY CorpusLength DEF BatchInv, Progress, CountFailure, N, Working
<1>1. /\ utt' = utt /\ pc' = "next" /\ Seen = 1 .. utt - 1 /\ beam' = beam
      /\ UNCHANGED <<corpus, setting, lost, results, rejected, pending, firstPass, calibration>>
  BY <1>0 DEF CountFailure, Seen, Working, aligner
<1>2. PICK u \in 1 .. N : u = utt
  BY <1>0 DEF BatchInv, Progress
<1>3. Seen = 1 .. u - 1 /\ Seen' = 1 .. u
  BY <1>1, <1>2 DEF Seen, Working
<1>4. SearchIsOwn'
  BY <1>1 DEF OwnInv, SearchIsOwn, Working
<1>5. corpus[u].kind # "missing"
  BY <1>0, <1>2 DEF OwnInv, SearchIsOwn
<1>6. CASE pc = "fail"
  <2>1. Fail(u, "failed")
    BY <1>2, <1>6 DEF CountFailure
  <2>2. ~Aligns(u) /\ \A v \in DOMAIN errors : errors[v] # "lost"
    BY <1>2, <1>6 DEF OwnInv, SearchIsOwn
  <2> QED
    BY <1>1, <1>3, <1>4, <1>5, <1>6, <2>1, <2>2, OwnFail
<1>7. CASE pc # "fail"
  <2>1. Fail(u, "lost") /\ lost /\ pc \in {"align", "climb"}
    BY <1>2, <1>7 DEF CountFailure
  <2> QED
    BY <1>1, <1>3, <1>4, <1>5, <2>1, OwnFail
<1> QED
  BY <1>6, <1>7

LEMMA OwnOpen == BatchInv /\ OwnInv /\ Open => OwnInv'
<1> SUFFICES ASSUME BatchInv, OwnInv, Open PROVE OwnInv'
  OBVIOUS
<1>1. /\ UNCHANGED <<corpus, setting, utt, lost, beam, results, rejected, pending, firstPass,
                     calibration>>
      /\ pc = "open" /\ utt = 0 /\ N' = N /\ pc' \in {"next", "done"}
  BY DEF Open, BatchInv, Progress, aligner, N
<1>2. Seen = {} /\ DOMAIN results = {} /\ DOMAIN pending = {}
  <2>1. Seen = {}
    BY <1>1 DEF Seen, Working
  <2>2. DOMAIN results \cup DOMAIN errors \cup DOMAIN pending = {}
    BY <2>1 DEF BatchInv, Filed
  <2> QED
    BY <2>1, <2>2
<1>3. SearchIsOwn'
  BY <1>1 DEF OwnInv, SearchIsOwn, Working
<1>4. Calibrating'
  BY <1>1, CalibratingKept DEF OwnInv, Calibrating
<1>5. CASE pc' = "next" /\ UNCHANGED <<errors, nFailed>>
  <2>1. UNCHANGED job /\ Seen' = Seen
    BY <1>1, <1>5 DEF Open, job, Seen, Working
  <2> QED
    BY <1>1, <1>3, <1>4, <2>1, OwnQuiet
<1>6. CASE pc' = "done" /\ errors' = [u \in 1 .. N |-> "unopened"]
  <2>1. SampleIsOwn'
    BY <1>1 DEF OwnInv, SampleIsOwn, FirstPassIsOwn, With
  <2>2. Deferring'
    BY <1>1, <1>2, <1>6 DEF Deferring
  <2> QED
    BY <1>1, <1>2, <1>3, <1>4, <1>6, <2>1, <2>2 DEF OwnInv
<1> QED
  BY <1>5, <1>6 DEF Open

LEMMA Appended ==
  ASSUME NEW S, NEW s \in Seq(S), NEW x \in S
  PROVE  /\ Append(s, x) \in Seq(S) /\ Len(s) \in Nat
         /\ DOMAIN s = 1 .. Len(s) /\ DOMAIN Append(s, x) = 1 .. Len(s) + 1
         /\ \A i \in 1 .. Len(s) : Append(s, x)[i] = s[i]
         /\ Append(s, x)[Len(s) + 1] = x
  OBVIOUS

(* An utterance aligned at the nominal beam comes after those before it.   *)
LEMMA SampleGrows ==
  ASSUME OwnInv, N' = N, NEW u \in 1 .. N, N \in Nat, \A v \in DOMAIN results : v \in 1 .. u - 1,
         firstPass' = Append(firstPass, u), With(results, 0)' = With(results, 0) \cup {u}
  PROVE  SampleIsOwn'
<1>1. firstPass \in Seq(1 .. N) /\ {firstPass[i] : i \in DOMAIN firstPass} = With(results, 0)
  BY DEF OwnInv, SampleIsOwn, FirstPassIsOwn
<1>2. \A i, j \in DOMAIN firstPass : i < j => firstPass[i] < firstPass[j]
  BY DEF OwnInv, SampleIsOwn, FirstPassIsOwn
<1> DEFINE n == Len(firstPass)
<1>3. /\ firstPass' \in Seq(1 .. N) /\ n \in Nat
      /\ DOMAIN firstPass = 1 .. n /\ DOMAIN firstPass' = 1 .. n + 1
      /\ \A i \in 1 .. n : firstPass'[i] = firstPass[i]
      /\ firstPass'[n + 1] = u
  BY <1>1, Appended
<1> HIDE DEF n
<1>4. \A i \in 1 .. n : firstPass[i] \in With(results, 0)
  BY <1>1, <1>3
<1>5. \A i \in 1 .. n : firstPass[i] \in 1 .. u - 1
  BY <1>4 DEF With
<1>6. {firstPass'[i] : i \in DOMAIN firstPass'} = With(results, 0)'
  <2>1. DOMAIN firstPass' = (1 .. n) \cup {n + 1}
    BY <1>3
  <2>2. {firstPass'[i] : i \in DOMAIN firstPass'} = {firstPass[i] : i \in 1 .. n} \cup {u}
    BY <1>3, <2>1
  <2> QED
    BY <1>1, <1>3, <2>2
<1>7. ASSUME NEW i \in 1 .. n + 1, NEW j \in 1 .. n + 1, i < j
      PROVE  firstPass'[i] < firstPass'[j]
  <2>1. i \in 1 .. n
    BY <1>3, <1>7
  <2>2. CASE j \in 1 .. n
    BY <1>2, <1>3, <1>7, <2>1, <2>2
  <2>3. CASE j = n + 1
    <3>1. PICK x \in 1 .. u - 1 : firstPass'[i] = x
      BY <1>3, <1>5, <2>1
    <3>2. x < u
      OBVIOUS
    <3> QED
      BY <1>3, <2>3, <3>1, <3>2
  <2>4. j \in 1 .. n \/ j = n + 1
    BY <1>3
  <2> QED
    BY <2>2, <2>3, <2>4
<1>8. FirstPassIsOwn'
  BY <1>3, <1>6, <1>7 DEF FirstPassIsOwn
<1> QED
  BY <1>3, <1>8 DEF SampleIsOwn

(* What was found is refused, waits, or is accepted, by the check alone.   *)
LEMMA OwnAnswer == BatchInv /\ OwnInv /\ Answer => OwnInv'
<1> SUFFICES ASSUME BatchInv, OwnInv, Answer PROVE OwnInv'
  OBVIOUS
<1>0. /\ N \in Nat /\ N' = N /\ R \in Nat /\ rungs \in 0 .. R /\ Filed /\ pc = "answer"
      /\ setting.check \in {"off", "supplied", "deferred"}
  BY CorpusLength, BatchAssumption DEF BatchInv, Progress, Answer, N, TypeOK, OwnInv
<1>1. PICK u \in 1 .. N : u = utt
  BY <1>0 DEF BatchInv, Progress, Working
<1>2. /\ utt' = utt /\ pc' = "next" /\ beam' = beam /\ beam = 0 /\ rungs = Reach(u) /\ Aligns(u)
      /\ UNCHANGED <<corpus, setting, lost, calibration>>
      /\ \A v \in DOMAIN errors : errors[v] # "lost"
  BY <1>0, <1>1 DEF Answer, aligner, OwnInv, SearchIsOwn
<1>3. Seen = 1 .. u - 1 /\ Seen' = 1 .. u
  BY <1>0, <1>1, <1>2 DEF Seen, Working
<1>4. /\ \A v \in DOMAIN results : v \in 1 .. u - 1
      /\ \A v \in DOMAIN errors : v # u /\ v \notin DOMAIN results /\ v \in 1 .. N
      /\ u \notin DOMAIN results /\ u \notin DOMAIN errors /\ u \notin DOMAIN pending
  BY <1>0, <1>3 DEF Filed
<1>5. SearchIsOwn'
  BY <1>2 DEF OwnInv, SearchIsOwn, Working
<1>6. Alignment(utt, IF rungs = 0 THEN beam ELSE rungs) = Found(u)
  BY <1>1, <1>2 DEF Alignment, Found
<1> DEFINE refused == /\ rungs > 0 /\ setting.check = "supplied"
                      /\ ~Passes(Found(u).score, setting.thresholds[rungs])
           deferred == rungs > 0 /\ setting.check = "deferred"
<1>7. /\ rejected' = IF refused THEN Told(rejected, u, rungs) ELSE rejected
      /\ IF refused THEN Fail(u, "rejected") ELSE UNCHANGED <<errors, nFailed>>
      /\ pending' = IF deferred THEN Told(pending, u, Found(u)) ELSE pending
      /\ firstPass' = IF rungs = 0 THEN Append(firstPass, u) ELSE firstPass
      /\ IF refused \/ deferred THEN UNCHANGED results
         ELSE results' = Told(results, u, Found(u))
  BY <1>1, <1>6 DEF Answer
<1>8. \A r \in DOMAIN calibration : FALSE
  BY <1>0 DEF OwnInv, Calibrating
<1>9. setting.check # "deferred" => pending' = <<>>
  BY <1>7 DEF OwnInv, Calibrating
<1>10. Calibrating'
  BY <1>2, <1>8, <1>9 DEF Calibrating
<1>11. refused <=> /\ rungs # 0 /\ setting.check = "supplied" /\ ~IsAccepted(u)
  BY <1>0, <1>2 DEF IsAccepted, Calibrated, Threshold, Found
<1>12. deferred <=> rungs # 0 /\ setting.check = "deferred"
  BY <1>0
<1> HIDE DEF refused, deferred
<1>13. CASE refused
  <2>1. UNCHANGED <<results, pending, firstPass>> /\ Fail(u, "rejected")
          /\ rejected' = Told(rejected, u, rungs)
    BY <1>7, <1>11, <1>12, <1>13
  <2>2. /\ DOMAIN rejected' = DOMAIN rejected \cup {u} /\ rejected'[u] = rungs
        /\ \A v \in DOMAIN rejected : rejected'[v] = rejected[v]
    <3>1. u \notin DOMAIN rejected
      BY <1>0, <1>4 DEF Filed
    <3> QED
      BY <2>1, <3>1 DEF Told
  <2> QED
    BY <1>0, <1>2, <1>3, <1>5, <1>11, <1>13, <2>1, <2>2, OwnFail
<1>14. CASE ~refused
  <2>1. UNCHANGED <<errors, rejected>>
    BY <1>7, <1>14
  <2>2. \A v \in DOMAIN errors' : errors'[v] = "unopened" \/ ErrorIsOwn(v)'
    BY <1>0, <1>2, <2>1, ErrorKept
  <2>3. ASSUME NEW v \in DOMAIN results, results'[v] = results[v] PROVE ResultIsOwn(v)'
    BY <1>0, <1>2, <2>3, ResultKept
  <2>4. CASE deferred
    <3>1. UNCHANGED <<results, firstPass>> /\ pending' = Told(pending, u, Found(u))
      BY <1>7, <1>12, <2>4
    <3>2. /\ DOMAIN pending' = DOMAIN pending \cup {u} /\ pending'[u] = Found(u)
          /\ \A v \in DOMAIN pending : pending'[v] = pending[v]
      BY <1>4, <3>1 DEF Told
    <3>3. Reach(u) \in Rungs
      BY <1>0, <1>2, <1>12, <2>4 DEF Rungs
    <3>4. \A v \in DOMAIN pending' : Waits(v)'
      BY <1>2, <3>2, <3>3, OwnFrame DEF OwnInv, Waits
    <3>5. SampleIsOwn'
      BY <1>0, <3>1 DEF OwnInv, SampleIsOwn, FirstPassIsOwn, With
    <3>6. Deferring'
      <4>1. \A v \in DOMAIN results' : Reach(v)' = Reach(v)
        BY <1>2, OwnFrame
      <4> QED
        BY <1>0, <1>2, <2>1, <3>1, <4>1 DEF OwnInv, Deferring
    <3> QED
      BY <1>2, <1>5, <1>10, <2>2, <2>3, <3>1, <3>4, <3>5, <3>6 DEF OwnInv
  <2>5. CASE ~deferred
    <3>1. results' = Told(results, u, Found(u)) /\ pending' = pending
      BY <1>7, <1>14, <2>5
    <3>2. /\ DOMAIN results' = DOMAIN results \cup {u} /\ results'[u] = Found(u)
          /\ \A v \in DOMAIN results : results'[v] = results[v]
      BY <1>4, <3>1 DEF Told
    <3>3. rungs = 0 \/ (setting.check \in {"off", "supplied"} /\ IsAccepted(u))
      BY <1>0, <1>2, <1>11, <1>12, <1>14, <2>5 DEF IsAccepted
    <3>4. ResultIsOwn(u)'
      <4>1. PICK r : r = Reach(u)
        OBVIOUS
      <4>2. IsAccepted(u)
        BY <1>2, <3>3 DEF IsAccepted
      <4>3. IsAccepted(u)'
        BY <1>2, <3>3, <4>1, <4>2, AcceptedFrame
      <4> QED
        BY <1>2, <3>2, <4>3, OwnFrame DEF ResultIsOwn
    <3>5. Found(u).rung = rungs
      BY <1>2 DEF Found
    <3>6. SampleIsOwn'
      <4>1. CASE rungs = 0
        <5>1. firstPass' = Append(firstPass, u)
          BY <1>7, <4>1
        <5>2. With(results, 0)' = With(results, 0) \cup {u}
          <6>1. With(results, 0)' = {v \in DOMAIN results' : results'[v].rung = 0}
            BY DEF With
          <6> QED
            BY <1>4, <3>2, <3>5, <4>1, <6>1 DEF With
        <5> QED
          BY <1>0, <1>4, <5>1, <5>2, SampleGrows
      <4>2. CASE rungs # 0
        <5>1. firstPass' = firstPass
          BY <1>7, <4>2
        <5>2. With(results, 0)' = With(results, 0)
          <6>1. With(results, 0)' = {v \in DOMAIN results' : results'[v].rung = 0}
            BY DEF With
          <6> QED
            BY <1>4, <3>2, <3>5, <4>2, <6>1 DEF With
        <5> QED
          BY <1>0, <5>1, <5>2 DEF OwnInv, SampleIsOwn, FirstPassIsOwn
      <4> QED
        BY <4>1, <4>2
    <3>7. Deferring'
      <4>1. \A v \in DOMAIN results' : Reach(v)' = Reach(v)
        BY <1>2, OwnFrame
      <4>2. setting.check = "deferred" => Reach(u) = 0
        BY <1>2, <1>12, <2>5
      <4> QED
        BY <1>0, <1>2, <2>1, <3>2, <4>1, <4>2 DEF OwnInv, Deferring
    <3>8. \A v \in DOMAIN pending' : Waits(v)'
      BY <1>2, <3>1, OwnFrame DEF OwnInv, Waits
    <3>9. \A v \in DOMAIN results' : ResultIsOwn(v)'
      BY <2>3, <3>2, <3>4
    <3> QED
      BY <1>2, <1>5, <1>10, <2>2, <3>6, <3>7, <3>8, <3>9 DEF OwnInv
  <2> QED
    BY <2>4, <2>5
<1> QED
  BY <1>13, <1>14

(* What waited is accepted by the threshold of its rung, or refused by it. *)
LEMMA JudgedRight ==
  ASSUME BatchInv, OwnInv, pc = "calibrate", Waiting = {}, NEW u \in DOMAIN pending
  PROVE  /\ u \in Accepted <=> IsAccepted(u)
         /\ u \in Accepted => calibration[Reach(u)] # NoThreshold
         /\ Aligns(u) /\ pending[u] = Found(u) /\ Reach(u) \in Rungs /\ Reach(u) # 0
<1>1. PICK r : r = Reach(u)
  OBVIOUS
<1>2. pending[u] = Found(u) /\ r \in Rungs /\ Aligns(u)
  BY <1>1 DEF OwnInv, Waits
<1>3. r # 0
  BY <1>2, BatchAssumption DEF Rungs
<1>4. pending[u].rung = r /\ pending[u].score = SpeechScore(corpus[u], r)
  BY <1>1, <1>2 DEF Found
<1>5. r \in DOMAIN calibration
  BY <1>4 DEF Waiting
<1>6. calibration[r] = Sampled(r) \/ (calibration[r] = NoThreshold /\ lost)
  BY <1>5 DEF OwnInv, Calibrating
<1>7. setting.check = "deferred"
  BY DEF OwnInv, Calibrating
<1>8. u \in Accepted <=> Passes(SpeechScore(corpus[u], r), calibration[r])
  BY <1>4 DEF Accepted
<1>9. u \in Accepted => calibration[r] # NoThreshold
  BY <1>8 DEF Passes
<1>10. IsAccepted(u) <=>
         /\ calibration[r] # NoThreshold \/ ~lost
         /\ Passes(SpeechScore(corpus[u], r), Sampled(r))
  BY <1>1, <1>3, <1>7 DEF IsAccepted, Calibrated, Threshold
<1>11. u \in Accepted <=> IsAccepted(u)
  BY <1>6, <1>8, <1>9, <1>10
<1> QED
  BY <1>1, <1>2, <1>3, <1>9, <1>11

LEMMA OwnJudge == BatchInv /\ OwnInv /\ Judge => OwnInv'
<1> SUFFICES ASSUME BatchInv, OwnInv, Judge PROVE OwnInv'
  OBVIOUS
<1>1. /\ pc = "calibrate" /\ pc' = "close" /\ Waiting = {} /\ beam' = beam /\ N' = N /\ Filed
      /\ UNCHANGED <<corpus, setting, utt, lost, firstPass, calibration>>
  BY DEF Judge, aligner, N, BatchInv
<1>2. Seen' = Seen
  BY <1>1 DEF Seen, Working
<1> DEFINE refused == DOMAIN pending \ Accepted
<1>3. /\ DOMAIN results' = DOMAIN results \cup Accepted
      /\ \A u \in DOMAIN results' : results'[u] = IF u \in Accepted THEN pending[u] ELSE results[u]
      /\ DOMAIN rejected' = DOMAIN rejected \cup refused
      /\ \A u \in DOMAIN rejected' : rejected'[u] = IF u \in refused THEN pending[u].rung
             ELSE rejected[u]
      /\ DOMAIN errors' = DOMAIN errors \cup refused
      /\ \A u \in DOMAIN errors' : errors'[u] = IF u \in refused THEN "rejected" ELSE errors[u]
      /\ pending' = <<>> /\ DOMAIN pending' = {}
  BY DEF Judge
<1>4. Accepted \subseteq DOMAIN pending
  BY DEF Accepted
<1> HIDE DEF refused
<1>5. /\ \A u \in DOMAIN results : u \notin Accepted
      /\ \A u \in DOMAIN errors : u \notin refused
      /\ \A u \in DOMAIN rejected : u \notin refused
      /\ \A u \in refused : u \in DOMAIN pending /\ u \notin Accepted
  BY <1>1, <1>4 DEF Filed, refused
<1>6. ASSUME NEW u \in DOMAIN pending
      PROVE  /\ u \in Accepted <=> IsAccepted(u)'
             /\ Aligns(u)' /\ pending[u] = Found(u)' /\ pending[u].rung = Reach(u)'
             /\ Reach(u)' \in Rungs /\ Reach(u)' # 0 /\ pending[u].rung # 0
             /\ u \in Accepted => calibration'[Reach(u)'] # NoThreshold
  <2>1. IsAccepted(u)' <=> IsAccepted(u)
    BY <1>1 DEF IsAccepted, Calibrated, Threshold, Sampled, Sample, Reach
  <2>2. /\ u \in Accepted <=> IsAccepted(u)
        /\ u \in Accepted => calibration[Reach(u)] # NoThreshold
        /\ Aligns(u) /\ pending[u] = Found(u) /\ Reach(u) \in Rungs /\ Reach(u) # 0
    BY <1>1, JudgedRight
  <2>3. pending[u].rung = Reach(u)
    BY <2>2 DEF Found
  <2> QED
    BY <1>1, <2>1, <2>2, <2>3, OwnFrame
<1>7. \A u \in DOMAIN results' : ResultIsOwn(u)'
  <2>1. ASSUME NEW u \in Accepted PROVE ResultIsOwn(u)'
    <3>1. u \in DOMAIN pending /\ results'[u] = pending[u]
      BY <1>3, <1>4
    <3> QED
      BY <1>6, <3>1 DEF ResultIsOwn
  <2>2. ASSUME NEW u \in DOMAIN results PROVE ResultIsOwn(u)'
    <3>1. results'[u] = results[u]
      BY <1>3, <1>5
    <3> QED
      BY <1>1, <3>1, ResultKept
  <2> QED
    BY <1>3, <2>1, <2>2
<1>8. \A u \in DOMAIN errors' : errors'[u] = "unopened" \/ ErrorIsOwn(u)'
  <2>1. ASSUME NEW u \in refused PROVE ErrorIsOwn(u)'
    <3>1. /\ errors'[u] = "rejected" /\ u \in DOMAIN rejected' /\ rejected'[u] = pending[u].rung
          /\ u \in DOMAIN pending /\ u \notin Accepted
      BY <1>3, <1>5
    <3> QED
      BY <1>6, <3>1 DEF ErrorIsOwn
  <2>2. ASSUME NEW u \in DOMAIN errors PROVE errors'[u] = "unopened" \/ ErrorIsOwn(u)'
    <3>1. /\ errors'[u] = errors[u]
          /\ u \in DOMAIN rejected => u \in DOMAIN rejected' /\ rejected'[u] = rejected[u]
      BY <1>3, <1>5
    <3>2. ASSUME errors[u] = "lost", NEW v \in u .. N, v \in Seen'
          PROVE  v \in DOMAIN errors' /\ errors'[v] \in {"missing", "lost"}
      <4>1. v \in DOMAIN errors /\ errors[v] \in {"missing", "lost"}
        BY <1>2, <3>2, LostBefore
      <4> QED
        BY <1>3, <1>5, <4>1
    <3> QED
      BY <1>1, <3>1, <3>2, ErrorKept
  <2> QED
    BY <1>3, <2>1, <2>2
<1>9. SearchIsOwn'
  <2>1. ~Working' /\ pc' = "close" /\ beam' = 0
    BY <1>1 DEF Working, OwnInv, SearchIsOwn
  <2> QED
    BY <2>1 DEF SearchIsOwn
<1>10. SampleIsOwn'
  <2>1. With(results, 0)' = {v \in DOMAIN results' : results'[v].rung = 0}
    BY DEF With
  <2>2. With(results, 0)' = With(results, 0)
    BY <1>3, <1>4, <1>5, <1>6, <2>1 DEF With
  <2> QED
    BY <1>1, <2>2 DEF OwnInv, SampleIsOwn, FirstPassIsOwn
<1>11. Calibrating'
  BY <1>1, <1>3, CalibratingKept DEF OwnInv, Calibrating
<1>12. Deferring'
  <2>1. ASSUME NEW u \in DOMAIN results', Reach(u)' # 0
        PROVE  calibration'[Reach(u)'] # NoThreshold
    <3>1. Reach(u)' = Reach(u) /\ setting.check = "deferred"
      BY <1>1, OwnFrame DEF OwnInv, Calibrating
    <3>2. u \notin DOMAIN results
      BY <1>1, <2>1, <3>1 DEF OwnInv, Deferring
    <3> QED
      BY <1>3, <1>4, <1>6, <3>2
  <2> QED
    BY <1>1, <2>1 DEF Deferring
<1> QED
  BY <1>1, <1>3, <1>7, <1>8, <1>9, <1>10, <1>11, <1>12 DEF OwnInv

-----------------------------------------------------------------------------
LEMMA InitOwn == Init => OwnInv
<1> SUFFICES ASSUME Init PROVE OwnInv
  OBVIOUS
<1>1. /\ pc \in {"open", "done"} /\ beam = 0 /\ setting \in Settings
      /\ pending = <<>> /\ firstPass = <<>>
      /\ DOMAIN results = {} /\ DOMAIN errors = {} /\ DOMAIN pending = {}
      /\ DOMAIN calibration = {}
  BY DEF Init
<1>2. SearchIsOwn
  BY <1>1 DEF SearchIsOwn, Working
<1>3. SampleIsOwn
  <2>1. firstPass \in Seq(1 .. N) /\ DOMAIN firstPass = {}
    BY <1>1
  <2> QED
    BY <1>1, <2>1 DEF SampleIsOwn, FirstPassIsOwn, With
<1>4. Calibrating /\ Deferring
  BY <1>1 DEF Calibrating, Deferring
<1> QED
  BY <1>1, <1>2, <1>3, <1>4 DEF OwnInv

LEMMA OwnInvariant == Spec => [](BatchInv /\ OwnInv)
<1>1. BatchInv /\ OwnInv /\ [Next]_vars => OwnInv'
  BY OwnOpen, OwnTurn, OwnNext, OwnSearch, OwnAnswer, OwnCountFailure, OwnCalibration, OwnJudge
  DEF Next
<1> QED
  BY <1>1, InitOwn, BatchInvariant, PTL DEF Spec

(* Each utterance of a job comes to what it would alone, whatever was      *)
(* searched before it at which beam: a recovery is accepted exactly when   *)
(* it passes the threshold taken from the first pass, and only the loss of *)
(* the helper changes what follows it (align_corpus, _climb_retry_ladder,  *)
(* _scores_at_rung).                                                       *)
THEOREM OutcomesOwn == Spec => []OutcomesAreOwn
<1>1. BatchInv /\ OwnInv => OutcomesAreOwn
  <2> SUFFICES ASSUME BatchInv, OwnInv, pc = "done", Opened PROVE OutcomesAreOwn
    BY DEF OutcomesAreOwn
  <2>1. DOMAIN pending = {} /\ Seen = 1 .. N
    BY DEF BatchInv, Progress, Seen
  <2>2. DOMAIN results \cup DOMAIN errors = 1 .. N
    BY <2>1 DEF BatchInv, Filed
  <2>3. \A u \in DOMAIN errors : ErrorIsOwn(u)
    BY DEF OwnInv, Opened
  <2>4. \A u \in DOMAIN results : ResultIsOwn(u)
    BY DEF OwnInv
  <2>5. FirstPassIsOwn
    BY DEF OwnInv, SampleIsOwn
  <2> QED
    BY <2>2, <2>3, <2>4, <2>5 DEF OutcomesAreOwn
<1> QED
  BY <1>1, OwnInvariant, PTL

=============================================================================
