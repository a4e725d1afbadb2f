----------------------------- MODULE Reestimation -----------------------------
(***************************************************************************)
(* What a Baum-Welch training stage promises: a sequence of models, each   *)
(* built from one pass over the manifest in which every utterance counts   *)
(* once or not at all, at least one counts, and the ones left out stay     *)
(* within the skip budget; then one end, which the passes justify.         *)
(* How the work is divided does not appear.                                *)
(***************************************************************************)
EXTENDS Naturals, Sequences, FiniteSets

CONSTANTS
    NUtts,      \* utterances in the manifest
    NIter       \* the iteration cap

VARIABLES
    budget,     \* how many utterances a pass may leave out
    published,  \* per pass, how often each utterance counts in its model
    ending      \* "running", or how the stage ended

Utts == 1..NUtts

Init ==
    /\ budget \in Nat
    /\ published = <<>>
    /\ ending = "running"

Publish ==
    /\ ending = "running"
    /\ Len(published) < NIter
    /\ \E counted \in SUBSET Utts :
         /\ counted # {}
         /\ Cardinality(Utts \ counted) <= budget
         /\ published' = Append(published,
                            [u \in Utts |-> IF u \in counted THEN 1 ELSE 0])
    /\ UNCHANGED <<budget, ending>>

End ==
    /\ ending = "running"
    /\ \/ ending' = "failed"
       \/ Len(published) >= 2 /\ ending' = "converged"
       \/ Len(published) = NIter /\ ending' = "cap"
    /\ UNCHANGED <<budget, published>>

Next == Publish \/ End

Spec == Init /\ [][Next]_<<budget, published, ending>>
===============================================================================
