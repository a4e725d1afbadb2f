-------------------------- MODULE MCAlignmentBatch --------------------------
(***************************************************************************)
(* Corpora of up to four utterances of every kind, under every policy.     *)
(***************************************************************************)
EXTENDS AlignmentBatch

Item(kind, needs, score) == [kind |-> kind, needs |-> needs, score |-> score]
Items ==
  {Item("missing", 0, 0), Item("bad", 0, 0), Item("short", 0, 0), Item("speech", 3, 0)}
    \cup {Item("speech", 0, score) : score \in {4, 7, NoScore}}
    \cup {Item("speech", 1, score) : score \in {4, 5}}
    \cup {Item("speech", 2, score) : score \in {6, NoScore}}
SmallCorpora == UNION {[1 .. n -> Items] : n \in 0 .. 4}

Policies ==
  {[policy |-> "recover", check |-> "deferred", thresholds |-> <<>>],
   [policy |-> "recover", check |-> "off", thresholds |-> <<>>],
   [policy |-> "recover", check |-> "supplied", thresholds |-> <<16, 20>>],
   [policy |-> "abort", check |-> "deferred", thresholds |-> <<>>]}
=============================================================================
