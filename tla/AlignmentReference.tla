-------------------------- MODULE AlignmentReference ---------------------------
(***************************************************************************)
(* What the two passes over an utterance come to, stated without them: its *)
(* alignments one by one.                                                  *)
(***************************************************************************)
EXTENDS UtteranceTraining

(* The reference for the two passes: every alignment, one by one.  An      *)
(* alignment is a way from the first state in the first frame to the final *)
(* state in the last, one emitting state per frame; the exits are not      *)
(* entered in the first frame.                                             *)
Weighed(path, weight) == [path |-> path, weight |-> weight]

RECURSIVE AlignmentsFrom(_, _, _, _)
AlignmentsFrom(path, t, weight, score) ==
  LET s == path[Len(path)]
      Onward(j) ==
        LET u == IF Emitting(hmm, j) THEN t + 1 ELSE t
            w == IF u > Frames \/ (u = 1 /\ ~Emitting(hmm, j)) THEN 0
                 ELSE ((weight * hmm.next[s][j]) \div One)
                      * (IF Emitting(hmm, j) THEN score[u][j] ELSE 1)
        IN  IF w = 0 THEN {} ELSE AlignmentsFrom(Append(path, j), u, w, score)
  IN  IF s = FinalState THEN IF t = Frames THEN {Weighed(path, weight)} ELSE {}
      ELSE UNION {Onward(j) : j \in DOMAIN hmm.next[s]}

AlignmentsOf(score) ==
  IF score[1][1] = 0 THEN {} ELSE AlignmentsFrom(<<1>>, 1, Unit * score[1][1], score)
Alignments == AlignmentsOf([t \in 1 .. Frames |-> [s \in States(hmm) |-> Scored(t, s)]])
PossibleAlignments == AlignmentsOf([t \in 1 .. Frames |-> [s \in States(hmm) |-> 1]])

Settled == phase = "settled" /\ Built /\ Frames > 0
Outcome == outcomes[Len(outcomes)]
Unpruned == ForwardBeam = 0 /\ setup.backBeam = 0

(* How often an alignment takes an arc inside a model, and how often it    *)
(* visits a senone.                                                        *)
Taken(path, c) ==
  Cardinality({k \in 1 .. Len(path) - 1 :
    /\ Slot(hmm, path[k]) = Slot(hmm, path[k + 1])
    /\ c = <<Base(hmm, path[k]), MState(hmm, path[k]), MState(hmm, path[k + 1])>>})
Visits(path, q) ==
  Cardinality({k \in DOMAIN path : Emitting(hmm, path[k]) /\ q \in Senones(path[k])})

(* What an accepted utterance adds to the session is the expectation over  *)
(* its alignments: the final alpha is their total weight, each transition  *)
(* count the weight of the alignments that take it, and each senone count  *)
(* that of the frames spent there, for its own senone and its phone's.     *)
(* Beams only leave weight out.  A rejected utterance, and the first try   *)
(* of one that is accepted later, leave nothing behind (forward.c,         *)
(* backward.c, accum.c).                                                   *)
CountsAreExpectations ==
  /\ AcceptedAreCounted
  /\ Settled /\ Outcome = "accepted" =>
       LET added == totals[Len(totals)]
           all == Alignments
           Agrees(x, y) == IF Unpruned THEN x = y ELSE x <= y
           Expected(Of(_)) == SumFunction([a \in all |-> a.weight * Of(a.path)])
       IN  /\ Agrees(added.final, Expected(LAMBDA p : 1))
           /\ \A c \in DOMAIN added.tmat :
                Agrees(added.tmat[c], Expected(LAMBDA p : Taken(p, c)))
           /\ \A q \in UNION {Senones(s) : s \in {x \in States(hmm) : Emitting(hmm, x)}} :
                Agrees(IF q \in DOMAIN added.senones THEN added.senones[q] ELSE 0,
                       Expected(LAMBDA p : Visits(p, q)))

(* What becomes of an utterance: without pruning it is accepted exactly    *)
(* when it has an alignment, so the two passes never contradict each       *)
(* other; it is called infeasible only when no observations of its length  *)
(* could be aligned, and a retry without a beam gives up only when the     *)
(* observations rule every alignment out (steps/train.py).  A first phone  *)
(* that can be left after one frame is excepted from the last part: the    *)
(* forward pass enters no exit in the first frame.                         *)
OutcomeIsJustified ==
  Settled =>
    /\ Outcome = "accepted" => Alignments # {}
    /\ Unpruned /\ Alignments # {} => Outcome = "accepted"
    /\ Outcome = "infeasible" => PossibleAlignments = {}
    /\ Outcome = "unreached" => wide
    /\ (Outcome = "unreached" /\ ForwardBeam = 0 /\ Exit(hmm.K, 1) \notin DOMAIN hmm.next[1]) =>
         PossibleAlignments # {} /\ Alignments = {}
=============================================================================
