------------------------------ MODULE SentenceHMM ------------------------------
(***************************************************************************)
(* The sentence HMM of an utterance: state_seq_graph.c over a graph of     *)
(* resolved slots, state_seq.c over a linear list, and the optional final  *)
(* silence of next_utt_states.c.                                           *)
(*                                                                         *)
(* Every phone has K emitting states, numbered 0 .. K-1, and a non-        *)
(* emitting exit, numbered K; states are numbered from 1 along the slots.  *)
(* An HMM is [K, id, next, prior]: id gives the model of each slot, next   *)
(* and prior give each state the weights of its arcs.  A weight is an      *)
(* integer, in units of which One make the probability one.  A transition  *)
(* matrix belongs to the base phone, whatever the triphone.                *)
(***************************************************************************)
EXTENDS TriphoneInventory

CONSTANT One   \* divisible by every fan-out, and that by two

ASSUME OneAssumption == One \in Nat \ {0}

Width(h) == h.K + 1
States(h) == 1 .. Len(h.id) * Width(h)
Slot(h, s) == 1 + ((s - 1) \div Width(h))
MState(h, s) == (s - 1) % Width(h)
Base(h, s) == h.id[Slot(h, s)].base
Emitting(h, s) == MState(h, s) < h.K
Entry(K, k) == (k - 1) * (K + 1) + 1
Exit(K, k) == k * (K + 1)

(* The arcs of two lists, and the one arc to a state.                      *)
Both(arcs, others) ==
  [t \in DOMAIN arcs \cup DOMAIN others |-> IF t \in DOMAIN arcs THEN arcs[t] ELSE others[t]]
Arc(t, weight) == [x \in {t} |-> weight]

(* The arcs inside a phone.                                                *)
Within(tmat, K, k, m) ==
  [t \in {Entry(K, k) + j : j \in {i \in 0 .. K : tmat[m][i] > 0}} |-> tmat[m][t - Entry(K, k)]]
WithinPrior(tmat, K, k, m) ==
  [s \in {Entry(K, k) + j : j \in {i \in 0 .. K - 1 : tmat[i][m] > 0}} |-> tmat[s - Entry(K, k)][m]]

(* An exit shares its mass evenly between the successors of its slot; the  *)
(* prior arcs are written on their own, with the weight of the             *)
(* predecessor.                                                            *)
StateSeqMakeGraph(g, id, K, tmat) ==
  LET shape == [K |-> K, id |-> id, next |-> <<>>, prior |-> <<>>]
      Share(k) == One \div Cardinality(g.next[k])
      Next(s) ==
        LET k == Slot(shape, s) IN
        IF MState(shape, s) < K THEN Within(tmat[id[k].base], K, k, MState(shape, s))
        ELSE [t \in {Entry(K, j) : j \in g.next[k]} |-> Share(k)]
      Prior(s) ==
        LET k == Slot(shape, s)
            cross == IF MState(shape, s) > 0 THEN {} ELSE g.prior[k] IN
        Both([x \in {Exit(K, j) : j \in cross} |-> Share(Slot(shape, x))],
             WithinPrior(tmat[id[k].base], K, k, MState(shape, s)))
  IN  [shape EXCEPT !.next = [s \in States(shape) |-> Next(s)],
                    !.prior = [s \in States(shape) |-> Prior(s)]]

(* The linear builder: each exit leads to the next phone with weight one.  *)
StateSeqMake(id, K, tmat) ==
  LET shape == [K |-> K, id |-> id, next |-> <<>>, prior |-> <<>>]
      Next(s) ==
        LET k == Slot(shape, s) IN
        IF MState(shape, s) < K THEN Within(tmat[id[k].base], K, k, MState(shape, s))
        ELSE IF k = Len(id) THEN <<>> ELSE Arc(s + 1, One)
      Prior(s) ==
        LET k == Slot(shape, s) IN
        Both(IF MState(shape, s) = 0 /\ k > 1 THEN Arc(s - 1, One) ELSE <<>>,
             WithinPrior(tmat[id[k].base], K, k, MState(shape, s)))
  IN  [shape EXCEPT !.next = [s \in States(shape) |-> Next(s)],
                    !.prior = [s \in States(shape) |-> Prior(s)]]

(* Arcs with half of their weight for some of their ends.                  *)
WholeStill(arcs, ends) == arcs   \* (Mistaken: the weight is not shared.)
Halved(arcs, ends) == [t \in DOMAIN arcs |-> IF t \in ends THEN arcs[t] \div 2 ELSE arcs[t]]

(* Optional final silence: the exits before the last slot keep half of     *)
(* their mass and give the other half to the exit of the sentence.  A      *)
(* graph of fewer than three slots is left as it is.                       *)
AddBoundaryBypass(h, g) ==
  LET n == Len(h.id)
      finalExit == Exit(h.K, n)
      before == {Exit(h.K, k) : k \in g.prior[n]}
      Next(s) ==
        IF s \notin before THEN h.next[s]
        ELSE Both(Halved(h.next[s], DOMAIN h.next[s]), Arc(finalExit, One \div 2))
      Prior(s) ==
        Both(Halved(h.prior[s], before),
             IF s = finalExit THEN [x \in before |-> One \div 2] ELSE <<>>)
  IN  IF n < 3 THEN h
      ELSE [h EXCEPT !.next = [s \in States(h) |-> Next(s)],
                     !.prior = [s \in States(h) |-> Prior(s)]]
=============================================================================
