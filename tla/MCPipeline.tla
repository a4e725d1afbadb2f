----------------------------- MODULE MCPipeline -----------------------------
(* A small task graph for TLC.  Two members of one group have no producer,   *)
(* and a third depends on them through a task outside the group; one task   *)
(* has two outputs, and both an edited file and an output are optional      *)
(* inputs of a task.                                                        *)
EXTENDS Pipeline, TLC

MCTask == {"featA", "featB", "train", "align"}
MCFile == {"wav", "mfcA", "mfcB", "mdef", "means", "words"}
MCInputs ==
  [featA |-> {"wav"}, featB |-> {}, train |-> {"mfcA", "mfcB"},
   align |-> {"mdef", "means"}]
MCOptInputs ==
  [featA |-> {}, featB |-> {"wav"}, train |-> {}, align |-> {"mfcA"}]
MCOutputs ==
  [featA |-> {"mfcA"}, featB |-> {"mfcB"}, train |-> {"mdef", "means"},
   align |-> {"words"}]
MCGroup ==
  [featA |-> "perutt", featB |-> "perutt", train |-> NoGroup, align |-> "perutt"]
MCRank ==
  [wav |-> 0, mfcA |-> 1, mfcB |-> 1, mdef |-> 2, means |-> 2, words |-> 3]

=============================================================================
