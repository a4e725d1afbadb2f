-------------------------- MODULE MCUtteranceTraining --------------------------
(***************************************************************************)
(* Sessions for TLC.  Graph sessions inspect the state sequences of short  *)
(* transcripts over every small dictionary; scoring sessions train on a    *)
(* few, over all observation sequences.                                    *)
(***************************************************************************)
EXTENDS AlignmentReference

Listed(w, n, p) == [word |-> w, alt |-> n, phones |-> p]
Edges == <<Listed("<s>", 1, <<"SIL">>), Listed("</s>", 1, <<"SIL">>),
           Listed("<sil>", 1, <<"SIL">>), Listed("+n+", 1, <<"+N">>)>>
Word(w) == <<w, 1>>
Said(words) == <<Word("<s>")>> \o words \o <<Word("</s>")>>
U == Said(<<Word("u")>>)
Uv == Said(<<Word("u"), Word("v")>>)
UPauseV == Said(<<Word("u"), Word("<sil>"), Word("v")>>)
U2Noise == Said(<<<<"u", 2>>, Word("+n+"), Word("u")>>)
Stray == Said(<<Word("u"), Word("stranger")>>)

(* Transition matrices: loop or go on, with one or two emitting states,    *)
(* and two states of which the first may be the only one.                  *)
Half == One \div 2
Quarter == One \div 4
Loop1 == [m \in {0} |-> [t \in 0 .. 1 |-> Half]]
Loop2 == [m \in 0 .. 1 |-> [t \in 0 .. 2 |-> IF t < m \/ t > m + 1 THEN 0 ELSE Half]]
Skip2 == [m \in 0 .. 1 |->
            [t \in 0 .. 2 |-> IF t < m THEN 0 ELSE IF t = m \/ m = 1 THEN Half ELSE Quarter]]
All(matrix) == [b \in Phones |-> matrix]

Session(dict, texts, multipron, bypass, policy) ==
  [dict |-> dict, texts |-> texts, multipron |-> multipron, policy |-> policy,
   bypass |-> bypass, K |-> 1, tmat |-> All(Loop1), frames |-> [i \in DOMAIN texts |-> 0],
   hears |-> {}, beam |-> 0, retryBeam |-> 0, backBeam |-> 0]

-----------------------------------------------------------------------------
(* Graph sessions.  Two words with one or two pronunciations each.         *)
Dict(p, q, r, s) ==
  Edges \o <<Listed("u", 1, p)>> \o (IF q = p THEN <<>> ELSE <<Listed("u", 2, q)>>)
        \o <<Listed("v", 1, r)>> \o (IF s = r THEN <<>> ELSE <<Listed("v", 2, s)>>)
Prons == {<<"A">>, <<"B">>, <<"A", "B">>, <<"B", "A">>, <<"A", "C", "B">>, <<"+N">>}
Pairs == {<<"A">>, <<"A", "B">>, <<"B", "C", "A">>}
Mixed == {<<"A">>, <<"A", "+N">>, <<"+N", "B">>, <<"B", "SIL", "A">>}

ReachableSessions ==
  {Session(Dict(p, q, r, s), <<Uv>>, TRUE, FALSE, "reachable") :
     p \in Prons, q \in Prons, r \in Prons, s \in Prons}
BoundarySessions ==
  {Session(Dict(p, q, r, r), <<text>>, multipron, TRUE, policy) :
     p \in Pairs, q \in Prons, r \in Pairs, text \in {U, UPauseV},
     multipron \in BOOLEAN, policy \in {"all", "occurrence", "reachable"}}
LinearSessions ==
  {[Session(Dict(p, q, r, s), <<text>>, FALSE, FALSE, policy)
      EXCEPT !.K = 2, !.tmat = All(Skip2)] :
     p \in Pairs, q \in Pairs, r \in Prons, s \in {<<"A">>, <<"B">>},
     text \in {U, UPauseV, U2Noise},
     policy \in {"none", "all", "occurrence", "reachable"}}
MixedSessions ==
  {Session(Dict(p, q, p, q), <<Uv>>, TRUE, FALSE, policy) :
     p \in Mixed, q \in Mixed, policy \in {"all", "reachable"}}
RefusedSessions ==
  {Session(dict, <<text, U>>, multipron, FALSE, policy) :
     text \in {Stray, <<>>},
     dict \in {Dict(<<"A">>, <<"B">>, <<>>, <<"A">>), Dict(<<"A">>, <<"A">>, <<"B">>, <<"B">>),
               Dict(<<"A">>, <<"B">>, <<"A">>, <<"A">>) \o <<Listed("v", 1, <<"B">>)>>},
     multipron \in BOOLEAN, policy \in {"none", "all", "occurrence", "reachable"}}
  \cup {Session(Dict(<<"A">>, q, <<>>, r), <<Uv, UPauseV>>, TRUE, FALSE, "none") :
          q \in Pairs, r \in Pairs}

-----------------------------------------------------------------------------
(* Scoring sessions.                                                       *)
Sound(p, d) == [phone |-> p, density |-> d]
Scoring(texts, multipron, bypass, policy, frames, hears) ==
  [Session(Dict(<<"A">>, <<"A", "B">>, <<"B">>, <<"B">>), texts, multipron, bypass, policy)
     EXCEPT !.frames = frames, !.hears = hears]
Sharp == {Sound("SIL", 2), Sound("A", 2), Sound("A", 0)}
Hush == {Sound("SIL", 0), Sound("SIL", 2), Sound("A", 0)}
Two(sess, matrix) == [sess EXCEPT !.K = 2, !.tmat = All(matrix)]
Beams(sess, forward, retry, backward) ==
  [sess EXCEPT !.beam = forward, !.retryBeam = retry, !.backBeam = backward]

ScoringSessions ==
  {Scoring(<<U>>, TRUE, FALSE, "reachable", <<T>>, Sharp) : T \in 2 .. 5}
  \cup {Scoring(<<Uv>>, TRUE, TRUE, "all", <<5>>, Sharp),
        Scoring(<<U, Uv>>, FALSE, FALSE, "none", <<4, 5>>, {Sound("A", 2), Sound("A", 0)}),
        Two(Scoring(<<U>>, FALSE, FALSE, "occurrence", <<6>>, Sharp), Loop2),
        Scoring(<<U, U>>, TRUE, FALSE, "reachable", <<4, 3>>, Hush)}
  \cup {Two(Scoring(<<U>>, FALSE, TRUE, "occurrence", <<T>>, Sharp), Skip2) : T \in 3 .. 5}
  \cup {Beams(Scoring(<<U>>, TRUE, FALSE, "none", <<5>>, Sharp), f, r, b) :
          f \in {0, 2, 4}, r \in {0, 8}, b \in {2, 8}}
  \cup {Beams(Scoring(<<U, U>>, TRUE, FALSE, "none", <<4, 5>>, {Sound("A", 2), Sound("A", 0)}),
               4, 0, b) :
          b \in {2, 4}}
  \cup {Beams(Scoring(<<U>>, TRUE, bypass, "reachable", <<5>>, Sharp), 2, 4, 0) :
          bypass \in BOOLEAN}

Sessions ==
  ReachableSessions \cup BoundarySessions \cup LinearSessions \cup MixedSessions
    \cup RefusedSessions \cup ScoringSessions

-----------------------------------------------------------------------------
(* A pause before the final silence that may be left out.                  *)
PauseBypassed ==
  {Scoring(<<Said(<<Word("u"), Word("<sil>")>>)>>, FALSE, TRUE, "none", <<5>>, {Sound("A", 2)})}
=============================================================================
