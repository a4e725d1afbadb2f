---------------------------- MODULE SentenceProofs ----------------------------
(***************************************************************************)
(* Proofs about the graph and the HMM of a sentence, for every dictionary  *)
(* and every transcript: splitting a graph by context keeps its paths,     *)
(* every state but the last gives away its whole mass, the two builders    *)
(* agree, and every context is modelled.                                   *)
(*                                                                         *)
(* Paths: what Chosen and FlattenSeq return; the graph of a transcript is  *)
(* layered, its arcs go on from each slot to later ones and both neighbour *)
(* lists agree; the paths of a layered graph are its Ways; ClassifySlots   *)
(* lists one copy for every slot and pair of contexts, and only those;     *)
(* replacing the copies of a way by their slots is a bijection between the *)
(* ways of the split graph and those of the whole one.                     *)
(*                                                                         *)
(* Mass: sums over finite sets; a state is a slot and a model state, so    *)
(* that the arcs of a built HMM are known one by one (Wired); an exit's    *)
(* shares add up to one, also when the final silence takes half of them;   *)
(* the linear builder is the graph builder on a chain; a transcript has    *)
(* one last slot, before and after the split.                              *)
(*                                                                         *)
(* Builders: a lexicon has one entry per spelling; the slots of words with *)
(* one pronunciation are a chain, of which the split makes no copies, and  *)
(* position by position the linear list; so each phone gets the same model *)
(* from both.                                                              *)
(*                                                                         *)
(* Contexts: a copy of a slot keeps the phones beside it and its position  *)
(* in its word; what stands beside a slot is a phone of the same word or   *)
(* of the word before or after, or a silence; so its triphone is one that  *)
(* the counting of a transcript, or the one over the dictionary, lists.    *)
(***************************************************************************)
EXTENDS UtteranceTraining, WellFoundedInduction, FiniteSetTheorems, SequenceTheorems, TLAPS

-----------------------------------------------------------------------------
(* Induction, and what Chosen returns.                                     *)

\* Natural numbers are well founded: a nonempty set of them has a least one.
LEMMA LeastOne ==
    ASSUME NEW ns \in SUBSET Nat, ns # {}
    PROVE  \E n \in ns : \A m \in ns : n <= m
  <1>1. PICK n \in ns : \A m \in ns : ~(<<m, n>> \in OpToRel(<, Nat))
    BY NatLessThanWellFounded, WFMin
  <1>2. \A m \in ns : ~(m < n)
    BY <1>1 DEF OpToRel
  <1> QED
    BY <1>2

\* Induction from a to n for a set of numbers, by a least counterexample.
LEMMA Upwards ==
    ASSUME NEW a \in Nat, NEW n \in Nat, NEW P, a \in P,
           \A m \in a + 1 .. n : m - 1 \in P => m \in P
    PROVE  \A m \in a .. n : m \in P
  <1> DEFINE out == {m \in a .. n : m \notin P}
  <1>1. SUFFICES ASSUME out # {} PROVE FALSE
    OBVIOUS
  <1>2. out \in SUBSET Nat
    OBVIOUS
  <1>3. PICK m \in out : \A k \in out : m <= k
    <2> HIDE DEF out
    <2> QED
      BY <1>1, <1>2, LeastOne
  <1>4. m \in a + 1 .. n /\ m - 1 \in a .. n /\ m - 1 \notin out
    <2>1. m # a /\ m \in a .. n
      OBVIOUS
    <2>2. m - 1 \in a .. n /\ m - 1 < m
      BY <2>1
    <2> HIDE DEF out
    <2> QED
      BY <1>3, <2>1, <2>2
  <1> QED
    BY <1>4

LEMMA UpFromZero ==
    ASSUME NEW n \in Nat, NEW P, 0 \in P, \A m \in 1 .. n : m - 1 \in P => m \in P
    PROVE  n \in P
  <1>1. 0 \in Nat /\ 0 + 1 = 1
    OBVIOUS
  <1>2. \A m \in 0 + 1 .. n : m - 1 \in P => m \in P
    BY <1>1
  <1>3. \A m \in 0 .. n : m \in P
    BY <1>1, <1>2, Upwards
  <1> QED
    BY <1>3

LEMMA UpFromOne ==
    ASSUME NEW n \in Nat, NEW P, 1 \in P, \A m \in 2 .. n : m - 1 \in P => m \in P
    PROVE  \A m \in 1 .. n : m \in P
  <1>1. 1 \in Nat /\ 1 + 1 = 2
    OBVIOUS
  <1>2. \A m \in 1 + 1 .. n : m - 1 \in P => m \in P
    BY <1>1
  <1> QED
    BY <1>1, <1>2, Upwards

\* What a recursion over 0 .. n goes through.
Iterates(f, n, S, base, step) ==
  /\ f \in [0 .. n -> S] /\ f[0] = base
  /\ \A i \in 1 .. n : f[i] = step[i][f[i - 1]]

LEMMA Iteration ==
    ASSUME NEW n \in Nat, NEW S, NEW base \in S, NEW step \in [1 .. n -> [S -> S]]
    PROVE  \E f : Iterates(f, n, S, base, step)
  <1> DEFINE P == {m \in 0 .. n : \E f : Iterates(f, m, S, base, step)}
  <1>1. 0 \in P
    <2>1. Iterates([i \in 0 .. 0 |-> base], 0, S, base, step)
      BY DEF Iterates
    <2> QED
      BY <2>1
  <1>2. ASSUME NEW m \in 1 .. n, m - 1 \in P PROVE m \in P
    <2>1. PICK f : Iterates(f, m - 1, S, base, step)
      BY <1>2
    <2>2. /\ f \in [0 .. m - 1 -> S] /\ f[0] = base /\ f[m - 1] \in S
          /\ \A i \in 1 .. m - 1 : f[i] = step[i][f[i - 1]]
      BY <2>1 DEF Iterates
    <2>3. step[m][f[m - 1]] \in S
      BY <2>2
    <2> DEFINE g == [i \in 0 .. m |-> IF i = m THEN step[m][f[m - 1]] ELSE f[i]]
    <2>4. g \in [0 .. m -> S] /\ g[0] = base
      BY <2>2, <2>3
    <2>5. \A i \in 0 .. m - 1 : g[i] = f[i]
      OBVIOUS
    <2>6. g[m] = step[m][f[m - 1]]
      OBVIOUS
    <2> HIDE DEF g
    <2>7. ASSUME NEW i \in 1 .. m PROVE g[i] = step[i][g[i - 1]]
      <3>1. i - 1 \in 0 .. m - 1
        OBVIOUS
      <3>2. CASE i = m
        BY <3>1, <3>2, <2>5, <2>6
      <3>3. CASE i # m
        <4>1. i \in 1 .. m - 1 /\ i \in 0 .. m - 1
          BY <3>3
        <4> QED
          BY <3>1, <4>1, <2>2, <2>5
      <3> QED
        BY <3>2, <3>3
    <2>8. Iterates(g, m, S, base, step)
      BY <2>4, <2>7 DEF Iterates
    <2> QED
      BY <2>8
  <1> HIDE DEF P
  <1>3. n \in P
    BY <1>1, <1>2, UpFromZero
  <1> QED
    BY <1>3 DEF P

-------------------------------------------------------------------------------
\* The recursion of Chosen.
Choosing(up, s, at, S) ==
  /\ up \in [0 .. Len(s) -> Seq(S)] /\ up[0] = <<>> /\ Chosen(s, at) = up[Len(s)]
  /\ \A n \in 1 .. Len(s) :
       up[n] = IF n \in at THEN Append(up[n - 1], s[n]) ELSE up[n - 1]

LEMMA ChosenRuns ==
    ASSUME NEW S, NEW s \in Seq(S), NEW at
    PROVE  \E up : Choosing(up, s, at, S)
  <1> DEFINE upTo[n \in 0 .. Len(s)] ==
               IF n = 0 THEN <<>>
               ELSE IF n \in at THEN Append(upTo[n - 1], s[n]) ELSE upTo[n - 1]
             step == [n \in 1 .. Len(s) |-> [t \in Seq(S) |->
                        IF n \in at THEN Append(t, s[n]) ELSE t]]
  <1>1. Chosen(s, at) = upTo[Len(s)]
    BY DEF Chosen
  <1>2. Len(s) \in Nat /\ <<>> \in Seq(S) /\ \A i \in 1 .. Len(s) : s[i] \in S
    OBVIOUS
  <1>3. step \in [1 .. Len(s) -> [Seq(S) -> Seq(S)]]
    BY <1>2
  <1>s. \A i \in 1 .. Len(s), t \in Seq(S) :
          step[i][t] = IF i \in at THEN Append(t, s[i]) ELSE t
    OBVIOUS
  <1> HIDE DEF step
  <1>4. PICK f : Iterates(f, Len(s), Seq(S), <<>>, step)
    BY <1>2, <1>3, Iteration
  <1>f. f \in [0 .. Len(s) -> Seq(S)] /\ f[0] = <<>>
    BY <1>4 DEF Iterates
  <1>5. ASSUME NEW i \in 1 .. Len(s)
        PROVE  f[i] = IF i \in at THEN Append(f[i - 1], s[i]) ELSE f[i - 1]
    <2>1. f[i - 1] \in Seq(S) /\ f[i] = step[i][f[i - 1]]
      BY <1>2, <1>4 DEF Iterates
    <2> QED
      BY <1>s, <2>1
  <1>6. f = [n \in 0 .. Len(s) |->
               IF n = 0 THEN <<>>
               ELSE IF n \in at THEN Append(f[n - 1], s[n]) ELSE f[n - 1]]
    <2> DEFINE g == [n \in 0 .. Len(s) |->
               IF n = 0 THEN <<>>
               ELSE IF n \in at THEN Append(f[n - 1], s[n]) ELSE f[n - 1]]
    <2> SUFFICES f = g
      OBVIOUS
    <2>1. ASSUME NEW n \in 0 .. Len(s) PROVE f[n] = g[n]
      <3>1. CASE n = 0
        BY <1>f, <3>1
      <3>2. CASE n # 0
        <4>1. n \in 1 .. Len(s)
          BY <1>2, <3>2
        <4> QED
          BY <1>5, <3>2, <4>1
      <3> QED
        BY <3>1, <3>2
    <2> QED
      BY <1>f, <2>1
  <1>7. upTo = [n \in 0 .. Len(s) |->
               IF n = 0 THEN <<>>
               ELSE IF n \in at THEN Append(upTo[n - 1], s[n]) ELSE upTo[n - 1]]
    BY <1>6
  <1> HIDE DEF upTo
  <1> DEFINE P == {n \in 0 .. Len(s) : upTo[n] = f[n]}
  <1>8. 0 \in P
    BY <1>2, <1>f, <1>7
  <1>9. ASSUME NEW n \in 1 .. Len(s), n - 1 \in P PROVE n \in P
    <2>1. n \in 0 .. Len(s) /\ n # 0 /\ upTo[n - 1] = f[n - 1]
      BY <1>2, <1>9
    <2>2. upTo[n] = IF n \in at THEN Append(upTo[n - 1], s[n]) ELSE upTo[n - 1]
      BY <1>7, <2>1
    <2> QED
      BY <1>5, <2>1, <2>2
  <1> HIDE DEF P
  <1>10. Len(s) \in P
    BY <1>2, <1>8, <1>9, UpFromZero
  <1>11. upTo[Len(s)] = f[Len(s)]
    BY <1>10 DEF P
  <1>12. Choosing(f, s, at, S)
    BY <1>1, <1>f, <1>5, <1>11 DEF Choosing
  <1> QED
    BY <1>12

\* pos gives the positions in s, up to n, of the elements of c.
Locates(pos, c, s, at, n) ==
  /\ pos \in [1 .. Len(c) -> at \cap (1 .. n)]
  /\ \A i, j \in 1 .. Len(c) : i < j => pos[i] < pos[j]
  /\ \A k \in at \cap (1 .. n) : \E i \in 1 .. Len(c) : pos[i] = k
  /\ \A i \in 1 .. Len(c) : c[i] = s[pos[i]]

LEMMA LocatesOneMore ==
    ASSUME NEW S, NEW s \in Seq(S), NEW at, NEW m \in 1 .. Len(s), m \in at,
           NEW c \in Seq(S), NEW pos, Locates(pos, c, s, at, m - 1)
    PROVE  \E q : Locates(q, Append(c, s[m]), s, at, m)
  <1> DEFINE d == Append(c, s[m])
             l == Len(c) + 1
             q == [i \in 1 .. l |-> IF i = l THEN m ELSE pos[i]]
  <1>1. s[m] \in S /\ Len(c) \in Nat /\ m \in Nat
    OBVIOUS
  <1>2. Len(d) = l /\ d[l] = s[m] /\ \A i \in 1 .. Len(c) : d[i] = c[i]
    BY <1>1, AppendProperties
  <1>3. /\ pos \in [1 .. Len(c) -> at \cap (1 .. m - 1)]
        /\ \A i, j \in 1 .. Len(c) : i < j => pos[i] < pos[j]
        /\ \A k \in at \cap (1 .. m - 1) : \E i \in 1 .. Len(c) : pos[i] = k
        /\ \A i \in 1 .. Len(c) : c[i] = s[pos[i]]
    BY DEF Locates
  <1>4. q[l] = m /\ \A i \in 1 .. Len(c) : q[i] = pos[i]
    BY <1>1
  <1>5. l \in Nat /\ 1 .. l = 1 .. Len(c) \cup {l} /\ l \notin 1 .. Len(c)
    BY <1>1
  <1>6. q \in [1 .. l -> at \cap (1 .. m)]
    BY <1>1, <1>3, <1>4, <1>5
  <1> HIDE DEF d, q, l
  <1>7. ASSUME NEW i \in 1 .. l, NEW j \in 1 .. l, i < j PROVE q[i] < q[j]
    <2>1. i \in 1 .. Len(c) /\ pos[i] \in 1 .. m - 1 /\ q[i] = pos[i]
      BY <1>1, <1>3, <1>4, <1>5, <1>7 DEF l
    <2>2. CASE j = l
      BY <1>1, <1>4, <2>1, <2>2
    <2>3. CASE j # l
      BY <1>3, <1>4, <1>5, <1>7, <2>1, <2>3
    <2> QED
      BY <2>2, <2>3
  <1>8. ASSUME NEW k \in at \cap (1 .. m) PROVE \E i \in 1 .. l : q[i] = k
    <2>1. CASE k = m
      BY <1>4, <1>5, <2>1
    <2>2. CASE k # m
      <3>1. k \in at \cap (1 .. m - 1)
        BY <2>2
      <3>2. PICK i \in 1 .. Len(c) : pos[i] = k
        BY <1>3, <3>1
      <3> QED
        BY <1>4, <1>5, <3>2
    <2> QED
      BY <2>1, <2>2
  <1>9. ASSUME NEW i \in 1 .. l PROVE d[i] = s[q[i]]
    BY <1>2, <1>3, <1>4, <1>5
  <1>10. Locates(q, d, s, at, m)
    BY <1>2, <1>6, <1>7, <1>8, <1>9 DEF Locates
  <1> QED
    BY <1>10 DEF d

\* Choosing keeps the order, and keeps exactly what is at the positions.
LEMMA ChosenPositions ==
    ASSUME NEW S, NEW s \in Seq(S), NEW at
    PROVE  /\ Chosen(s, at) \in Seq(S)
           /\ \E pos : Locates(pos, Chosen(s, at), s, at, Len(s))
  <1>1. PICK up : Choosing(up, s, at, S)
    BY ChosenRuns
  <1>2. /\ up \in [0 .. Len(s) -> Seq(S)] /\ up[0] = <<>> /\ Chosen(s, at) = up[Len(s)]
        /\ \A n \in 1 .. Len(s) :
             up[n] = IF n \in at THEN Append(up[n - 1], s[n]) ELSE up[n - 1]
        /\ Len(s) \in Nat
    BY <1>1 DEF Choosing
  <1> DEFINE P == {n \in 0 .. Len(s) : \E pos : Locates(pos, up[n], s, at, n)}
  <1>3. 0 \in P
    <2>1. Locates(<<>>, <<>>, s, at, 0)
      BY DEF Locates
    <2> QED
      BY <1>2, <2>1
  <1>4. ASSUME NEW m \in 1 .. Len(s), m - 1 \in P PROVE m \in P
    <2>1. PICK pos : Locates(pos, up[m - 1], s, at, m - 1)
      BY <1>4
    <2>2. m - 1 \in 0 .. Len(s) /\ m \in 0 .. Len(s) /\ up[m - 1] \in Seq(S) /\ m \in Nat
      <3>1. m - 1 \in 0 .. Len(s) /\ m \in 0 .. Len(s) /\ m \in Nat
        OBVIOUS
      <3> QED
        BY <1>2, <3>1
    <2>3. CASE m \in at
      <3>1. up[m] = Append(up[m - 1], s[m])
        BY <1>2, <2>3
      <3>2. \E q : Locates(q, Append(up[m - 1], s[m]), s, at, m)
        BY <2>1, <2>2, <2>3, LocatesOneMore
      <3> QED
        BY <2>2, <3>1, <3>2
    <2>4. CASE m \notin at
      <3>1. up[m] = up[m - 1]
        BY <1>2, <2>4
      <3>2. at \cap (1 .. m) = at \cap (1 .. m - 1)
        BY <2>2, <2>4
      <3>3. Locates(pos, up[m], s, at, m)
        BY <2>1, <3>1, <3>2 DEF Locates
      <3> QED
        BY <2>2, <3>3
    <2> QED
      BY <2>3, <2>4
  <1> HIDE DEF P
  <1>5. Len(s) \in P
    BY <1>2, <1>3, <1>4, UpFromZero
  <1>6. \E pos : Locates(pos, up[Len(s)], s, at, Len(s))
    BY <1>5 DEF P
  <1> QED
    BY <1>2, <1>6

-----------------------------------------------------------------------------
(* What FlattenSeq returns.                                                *)

LEMMA Predecessor ==
    ASSUME NEW n \in Nat, NEW i \in 1 .. n
    PROVE  i - 1 \in 0 .. n /\ i \in 0 .. n /\ i \in Nat
  OBVIOUS

LEMMA PredecessorOfLater ==
    ASSUME NEW n \in Nat, NEW i \in 1 .. n, i # 1
    PROVE  i - 1 \in 1 .. n /\ i \in 2 .. n
  OBVIOUS

\* The recursion of FlattenSeq.
Flattening(f, ss, S) ==
  /\ f \in [0 .. Len(ss) -> Seq(S)] /\ f[0] = <<>> /\ FlattenSeq(ss) = f[Len(ss)]
  /\ \A i \in 1 .. Len(ss) : f[i] = f[i - 1] \o ss[i]

LEMMA FlattenRuns ==
    ASSUME NEW S, NEW ss \in Seq(Seq(S))
    PROVE  \E f : Flattening(f, ss, S)
  <1> DEFINE flatten[i \in 1 .. Len(ss)] == IF i = 1 THEN ss[i] ELSE flatten[i - 1] \o ss[i]
             step == [i \in 1 .. Len(ss) |-> [t \in Seq(S) |-> t \o ss[i]]]
  <1>1. /\ Len(ss) \in Nat /\ <<>> \in Seq(S)
        /\ \A i \in 1 .. Len(ss) : ss[i] \in Seq(S)
    OBVIOUS
  <1>2. \A i \in 1 .. Len(ss), t \in Seq(S) : t \o ss[i] \in Seq(S)
    BY <1>1, ConcatProperties
  <1>3. step \in [1 .. Len(ss) -> [Seq(S) -> Seq(S)]]
    BY <1>2
  <1>s. \A i \in 1 .. Len(ss), t \in Seq(S) : step[i][t] = t \o ss[i]
    OBVIOUS
  <1>c. Len(ss) # 0 => FlattenSeq(ss) = flatten[Len(ss)]
    BY DEF FlattenSeq
  <1> HIDE DEF step
  <1>4. PICK f : Iterates(f, Len(ss), Seq(S), <<>>, step)
    BY <1>1, <1>3, Iteration
  <1>5. f \in [0 .. Len(ss) -> Seq(S)] /\ f[0] = <<>>
    BY <1>4 DEF Iterates
  <1>6. ASSUME NEW i \in 1 .. Len(ss) PROVE f[i] = f[i - 1] \o ss[i]
    <2>0. i - 1 \in 0 .. Len(ss)
      BY <1>1, Predecessor
    <2>1. f[i - 1] \in Seq(S) /\ f[i] = step[i][f[i - 1]]
      BY <1>4, <2>0 DEF Iterates
    <2> QED
      BY <1>s, <2>1
  <1>7. CASE Len(ss) = 0
    <2>1. FlattenSeq(ss) = <<>>
      <3>1. FlattenSeq(ss) = ss
        BY <1>7 DEF FlattenSeq
      <3>2. ss = <<>>
        BY <1>7, EmptySeq
      <3> QED
        BY <3>1, <3>2
    <2>2. Flattening(f, ss, S)
      BY <1>5, <1>6, <1>7, <2>1 DEF Flattening
    <2> QED
      BY <2>2
  <1>8. CASE Len(ss) # 0
    <2>1. 1 \in 1 .. Len(ss) /\ ss[1] \in Seq(S)
      BY <1>1, <1>8
    <2>2. f[1] = ss[1]
      <3>0. 1 - 1 = 0
        OBVIOUS
      <3>1. f[1] = f[0] \o ss[1]
        BY <1>6, <2>1, <3>0, Zenon
      <3> QED
        BY <1>5, <2>1, <3>1, ConcatEmptySeq
    <2> DEFINE h == [i \in 1 .. Len(ss) |-> f[i]]
    <2>3. h = [i \in 1 .. Len(ss) |-> IF i = 1 THEN ss[i] ELSE h[i - 1] \o ss[i]]
      <3> DEFINE k == [i \in 1 .. Len(ss) |-> IF i = 1 THEN ss[i] ELSE h[i - 1] \o ss[i]]
      <3>1. ASSUME NEW i \in 1 .. Len(ss) PROVE h[i] = k[i]
        <4>1. CASE i = 1
          BY <2>2, <4>1
        <4>2. CASE i # 1
          <5>1. i - 1 \in 1 .. Len(ss)
            BY <1>1, <4>2, PredecessorOfLater
          <5>2. h[i] = f[i] /\ h[i - 1] = f[i - 1]
            BY <5>1
          <5>3. k[i] = h[i - 1] \o ss[i]
            BY <4>2
          <5> HIDE DEF h, k
          <5> QED
            BY <1>6, <5>2, <5>3
        <4> QED
          BY <4>1, <4>2
      <3>2. h = k
        <4>1. DOMAIN h = 1 .. Len(ss) /\ DOMAIN k = 1 .. Len(ss)
          OBVIOUS
        <4>2. h = [i \in 1 .. Len(ss) |-> h[i]] /\ k = [i \in 1 .. Len(ss) |-> k[i]]
          OBVIOUS
        <4> HIDE DEF h, k
        <4> QED
          BY <3>1, <4>1, <4>2
      <3> QED
        BY <3>2
    <2>4. flatten = [i \in 1 .. Len(ss) |-> IF i = 1 THEN ss[i] ELSE flatten[i - 1] \o ss[i]]
      <3> HIDE DEF h
      <3> QED
        BY <2>3
    <2> HIDE DEF flatten
    <2> DEFINE P == {n \in 1 .. Len(ss) : flatten[n] = f[n]}
    <2>5. 1 \in P
      BY <2>1, <2>2, <2>4
    <2>6. ASSUME NEW n \in 2 .. Len(ss), n - 1 \in P PROVE n \in P
      <3>1. n \in 1 .. Len(ss) /\ n # 1 /\ flatten[n - 1] = f[n - 1]
        BY <1>1, <2>6
      <3>2. flatten[n] = flatten[n - 1] \o ss[n]
        BY <2>4, <3>1
      <3> QED
        BY <1>6, <3>1, <3>2
    <2> HIDE DEF P
    <2>7. \A n \in 1 .. Len(ss) : n \in P
      BY <1>1, <2>5, <2>6, UpFromOne
    <2>8. flatten[Len(ss)] = f[Len(ss)]
      <3>1. Len(ss) \in 1 .. Len(ss)
        BY <1>1, <1>8
      <3> QED
        BY <2>7, <3>1 DEF P
    <2>9. Flattening(f, ss, S)
      BY <1>5, <1>6, <1>8, <1>c, <2>8 DEF Flattening
    <2> QED
      BY <2>9
  <1> QED
    BY <1>7, <1>8

\* off[i - 1] elements of a row of n parts come before the i-th part.
Ranks(off, len, n) ==
  /\ off \in [0 .. n -> Nat] /\ off[0] = 0
  /\ \A i \in 1 .. n : off[i] = off[i - 1] + len[i]

LEMMA RanksExist ==
    ASSUME NEW n \in Nat, NEW len \in [1 .. n -> Nat]
    PROVE  \E off : Ranks(off, len, n)
  <1> DEFINE step == [i \in 1 .. n |-> [t \in Nat |-> t + len[i]]]
  <1>1. step \in [1 .. n -> [Nat -> Nat]]
    OBVIOUS
  <1>2. \A i \in 1 .. n, t \in Nat : step[i][t] = t + len[i]
    OBVIOUS
  <1> HIDE DEF step
  <1>3. PICK off : Iterates(off, n, Nat, 0, step)
    <2>1. 0 \in Nat
      OBVIOUS
    <2> QED
      BY <1>1, <2>1, Iteration
  <1>4. off \in [0 .. n -> Nat] /\ off[0] = 0
    BY <1>3 DEF Iterates
  <1>5. ASSUME NEW i \in 1 .. n PROVE off[i] = off[i - 1] + len[i]
    <2>1. off[i - 1] \in Nat
      BY <1>4, Predecessor
    <2>2. off[i] = step[i][off[i - 1]]
      BY <1>3 DEF Iterates
    <2> QED
      BY <1>2, <2>1, <2>2
  <1>6. Ranks(off, len, n)
    BY <1>4, <1>5 DEF Ranks
  <1> QED
    BY <1>6

\* Parts are laid out one after the other.
LEMMA RanksAscend ==
    ASSUME NEW n \in Nat, NEW len \in [1 .. n -> Nat], NEW off, Ranks(off, len, n),
           NEW i \in 0 .. n, NEW j \in i .. n
    PROVE  off[i] \in Nat /\ off[j] \in Nat /\ off[i] <= off[j]
  <1>1. /\ off \in [0 .. n -> Nat] /\ i \in Nat /\ j \in 0 .. n
        /\ \A k \in 1 .. n : off[k] = off[k - 1] + len[k]
    BY DEF Ranks
  <1> DEFINE P == {k \in 0 .. n : off[i] <= off[k]}
  <1>2. i \in P
    BY <1>1
  <1>3. ASSUME NEW m \in i + 1 .. n, m - 1 \in P PROVE m \in P
    <2>1. m \in 1 .. n /\ m - 1 \in 0 .. n /\ m \in 0 .. n
      BY <1>1
    <2>2. off[m] = off[m - 1] + len[m] /\ len[m] \in Nat /\ off[m - 1] \in Nat
      BY <1>1, <2>1
    <2>3. off[i] <= off[m - 1] /\ off[i] \in Nat
      BY <1>1, <1>3
    <2> QED
      BY <2>1, <2>2, <2>3
  <1> HIDE DEF P
  <1>4. \A m \in i .. n : m \in P
    BY <1>1, <1>2, <1>3, Upwards
  <1>5. j \in P
    BY <1>4
  <1> QED
    BY <1>1, <1>5 DEF P

\* Every place of the row is a place of one part.
LEMMA PlaceOf ==
    ASSUME NEW n \in Nat, NEW len \in [1 .. n -> Nat], NEW off, Ranks(off, len, n),
           NEW k \in 1 .. off[n]
    PROVE  \E i \in 1 .. n : \E p \in 1 .. len[i] : k = off[i - 1] + p
  <1>1. /\ off \in [0 .. n -> Nat] /\ off[0] = 0 /\ off[n] \in Nat /\ k \in Nat \ {0}
        /\ \A i \in 1 .. n : off[i] = off[i - 1] + len[i]
    BY DEF Ranks
  <1> DEFINE ns == {i \in 0 .. n : k <= off[i]}
  <1>2. n \in ns /\ ns \in SUBSET Nat
    BY <1>1
  <1>3. PICK i \in ns : \A m \in ns : i <= m
    <2> HIDE DEF ns
    <2> QED
      BY <1>2, LeastOne
  <1>4. i \in 1 .. n
    <2>1. i # 0
      BY <1>1
    <2> QED
      BY <2>1
  <1>5. i - 1 \in 0 .. n /\ i - 1 \notin ns
    <2>1. i - 1 \in 0 .. n /\ ~(i <= i - 1)
      BY <1>4
    <2> HIDE DEF ns
    <2> QED
      BY <1>3, <2>1
  <1>6. off[i - 1] \in Nat /\ ~(k <= off[i - 1]) /\ k <= off[i]
    BY <1>1, <1>5
  <1>7. off[i] = off[i - 1] + len[i] /\ len[i] \in Nat
    BY <1>1, <1>4
  <1> DEFINE p == k - off[i - 1]
  <1>8. p \in 1 .. len[i] /\ k = off[i - 1] + p
    BY <1>1, <1>6, <1>7
  <1> QED
    BY <1>4, <1>8

Tiled(off, len, n) ==
  \A k \in 1 .. off[n] : \E i \in 1 .. n : \E p \in 1 .. len[i] : k = off[i - 1] + p

LEMMA Places ==
    ASSUME NEW n \in Nat, NEW len \in [1 .. n -> Nat], NEW off, Ranks(off, len, n)
    PROVE  Tiled(off, len, n)
  BY PlaceOf DEF Tiled

LEMMA SumsApart ==
    ASSUME NEW a \in Nat, NEW b \in Nat, NEW c \in Nat, NEW l \in Nat, NEW p \in Nat,
           NEW q \in Nat, b = a + l, p <= l, q >= 1, b <= c
    PROVE  a + p < c + q
  OBVIOUS

LEMMA EarlierPart ==
    ASSUME NEW n \in Nat, NEW len \in [1 .. n -> Nat], NEW off, Ranks(off, len, n),
           NEW i \in 1 .. n, NEW p \in 1 .. len[i],
           NEW j \in 1 .. n, NEW q \in 1 .. len[j], i < j
    PROVE  off[i - 1] + p < off[j - 1] + q
  <1>1. i \in 0 .. n /\ j - 1 \in i .. n /\ i - 1 \in 0 .. n /\ i \in i - 1 .. n
    OBVIOUS
  <1>2. off[i] \in Nat /\ off[j - 1] \in Nat /\ off[i] <= off[j - 1] /\ off[i - 1] \in Nat
    BY <1>1, RanksAscend
  <1>3. off[i] = off[i - 1] + len[i]
    BY DEF Ranks
  <1>4. len[i] \in Nat /\ p \in Nat /\ p <= len[i] /\ q \in Nat /\ q >= 1
    OBVIOUS
  <1> QED
    BY <1>2, <1>3, <1>4, SumsApart

LEMMA StillWithin ==
    ASSUME NEW a \in Nat, NEW b \in Nat, NEW c, c = a + b, NEW x \in 1 .. a
    PROVE  x \in 1 .. c
  OBVIOUS

LEMMA SumWithin ==
    ASSUME NEW a \in Nat, NEW b \in Nat, NEW c \in Nat, NEW l \in Nat, NEW p \in Nat,
           b = a + l, 1 <= p, p <= l, b <= c
    PROVE  a + p \in 1 .. c
  OBVIOUS

LEMMA PlaceIsOwn ==
    ASSUME NEW n \in Nat, NEW len \in [1 .. n -> Nat], NEW off, Ranks(off, len, n),
           NEW i \in 1 .. n, NEW p \in 1 .. len[i],
           NEW j \in 1 .. n, NEW q \in 1 .. len[j]
    PROVE  /\ off[i - 1] + p \in 1 .. off[n]
           /\ i < j => off[i - 1] + p < off[j - 1] + q
           /\ off[i - 1] + p = off[j - 1] + q => i = j /\ p = q
  <1>1. i \in 0 .. n /\ n \in i .. n /\ i - 1 \in 0 .. n /\ i \in i - 1 .. n
        /\ i \in Nat /\ j \in Nat
    OBVIOUS
  <1>2. off[i] \in Nat /\ off[n] \in Nat /\ off[i] <= off[n] /\ off[i - 1] \in Nat
    BY <1>1, RanksAscend
  <1>3. off[i] = off[i - 1] + len[i] /\ len[i] \in Nat
    BY DEF Ranks
  <1>4. off[i - 1] + p \in 1 .. off[n]
    <2>1. p \in Nat /\ 1 <= p /\ p <= len[i]
      BY <1>3
    <2> QED
      BY <1>2, <1>3, <2>1, SumWithin
  <1>j. off[j - 1] \in Nat
    <2>1. j - 1 \in 0 .. n /\ j \in j - 1 .. n
      OBVIOUS
    <2> QED
      BY <2>1, RanksAscend
  <1>5. i < j => off[i - 1] + p < off[j - 1] + q
    BY EarlierPart
  <1>6. j < i => off[j - 1] + q < off[i - 1] + p
    BY EarlierPart
  <1>7. p \in Nat /\ q \in Nat
    OBVIOUS
  <1>8. i = j => (off[i - 1] + p = off[j - 1] + q => p = q)
    BY <1>2, <1>7
  <1> QED
    BY <1>1, <1>2, <1>j, <1>4, <1>5, <1>6, <1>7, <1>8

\* Where the parts of a flattened sequence are in it.
Offsets(off, ss, flat) ==
  /\ Ranks(off, [i \in 1 .. Len(ss) |-> Len(ss[i])], Len(ss))
  /\ Len(flat) = off[Len(ss)]
  /\ \A i \in 1 .. Len(ss) : \A p \in 1 .. Len(ss[i]) : flat[off[i - 1] + p] = ss[i][p]

LEMMA Lengths ==
    ASSUME NEW S, NEW ss \in Seq(Seq(S))
    PROVE  /\ Len(ss) \in Nat /\ \A i \in 1 .. Len(ss) : ss[i] \in Seq(S) /\ Len(ss[i]) \in Nat
           /\ [i \in 1 .. Len(ss) |-> Len(ss[i])] \in [1 .. Len(ss) -> Nat]
  OBVIOUS

Joins(c, s, t, a, S) ==
  /\ c \in Seq(S) /\ Len(c) = a + Len(t)
  /\ \A k \in 1 .. a : c[k] = s[k]
  /\ \A p \in 1 .. Len(t) : c[a + p] = t[p]

LEMMA PlacedInConcat ==
    ASSUME NEW S, NEW s \in Seq(S), NEW t \in Seq(S), NEW a \in Nat, Len(s) = a
    PROVE  Joins(s \o t, s, t, a, S)
  <1>1. Len(t) \in Nat
    OBVIOUS
  <1>2. /\ s \o t \in Seq(S) /\ Len(s \o t) = a + Len(t)
        /\ \A i \in 1 .. a + Len(t) : (s \o t)[i] = IF i <= a THEN s[i] ELSE t[i - a]
    BY ConcatProperties
  <1>3. \A k \in 1 .. a : k \in 1 .. a + Len(t) /\ k <= a
    BY <1>1
  <1>4. ASSUME NEW p \in 1 .. Len(t)
        PROVE  a + p \in 1 .. a + Len(t) /\ ~(a + p <= a) /\ (a + p) - a = p
    BY <1>1
  <1> QED
    BY <1>2, <1>3, <1>4 DEF Joins

LEMMA FlattenOffsets ==
    ASSUME NEW S, NEW ss \in Seq(Seq(S))
    PROVE  /\ FlattenSeq(ss) \in Seq(S)
           /\ \E off : Offsets(off, ss, FlattenSeq(ss))
  <1> DEFINE n == Len(ss)
             len == [i \in 1 .. n |-> Len(ss[i])]
  <1>1. /\ n \in Nat /\ len \in [1 .. n -> Nat]
        /\ \A i \in 1 .. n : ss[i] \in Seq(S) /\ len[i] = Len(ss[i])
    BY Lengths
  <1>2. PICK f : Flattening(f, ss, S)
    BY FlattenRuns
  <1>3. /\ f \in [0 .. n -> Seq(S)] /\ f[0] = <<>> /\ FlattenSeq(ss) = f[n]
        /\ \A i \in 1 .. n : f[i] = f[i - 1] \o ss[i]
    BY <1>2 DEF Flattening
  <1>l. \A i \in 1 .. n : len[i] = Len(ss[i])
    BY <1>1
  <1>e. \A off : Offsets(off, ss, FlattenSeq(ss)) <=>
                   /\ Ranks(off, len, n) /\ Len(FlattenSeq(ss)) = off[n]
                   /\ \A i \in 1 .. n : \A p \in 1 .. len[i] :
                        FlattenSeq(ss)[off[i - 1] + p] = ss[i][p]
    BY <1>l DEF Offsets
  <1> HIDE DEF n, len
  <1>4. PICK off : Ranks(off, len, n)
    BY <1>1, RanksExist
  <1>5. /\ off \in [0 .. n -> Nat] /\ off[0] = 0
        /\ \A i \in 1 .. n : off[i] = off[i - 1] + len[i]
    BY <1>4 DEF Ranks
  <1> DEFINE Placed(m) == /\ Len(f[m]) = off[m]
                          /\ \A i \in 1 .. m : \A p \in 1 .. len[i] :
                               /\ off[i - 1] + p \in 1 .. off[m]
                               /\ f[m][off[i - 1] + p] = ss[i][p]
             P == {m \in 0 .. n : Placed(m)}
  <1>9. 0 \in P
    <2>1. 0 \in 0 .. n /\ 1 .. 0 = {} /\ Len(<<>>) = 0
      BY <1>1
    <2> QED
      BY <1>3, <1>5, <2>1
  <1>10. ASSUME NEW m \in 1 .. n, m - 1 \in P PROVE m \in P
    <2>0. m - 1 \in 0 .. n /\ m \in 0 .. n /\ m \in Nat
      BY <1>1, Predecessor
    <2>1. Len(f[m - 1]) = off[m - 1]
          /\ \A i \in 1 .. m - 1 : \A p \in 1 .. len[i] :
                               /\ off[i - 1] + p \in 1 .. off[m - 1]
                               /\ f[m - 1][off[i - 1] + p] = ss[i][p]
      BY <1>10
    <2>2. /\ f[m] = f[m - 1] \o ss[m] /\ f[m - 1] \in Seq(S) /\ ss[m] \in Seq(S)
          /\ off[m] = off[m - 1] + len[m] /\ off[m - 1] \in Nat /\ len[m] = Len(ss[m])
          /\ len[m] \in Nat
      BY <1>1, <1>3, <1>5, <2>0
    <2>3. /\ Len(f[m]) = off[m]
          /\ \A k \in 1 .. off[m - 1] : f[m][k] = f[m - 1][k]
          /\ \A p \in 1 .. len[m] : f[m][off[m - 1] + p] = ss[m][p]
      <3> DEFINE s == f[m - 1]
                 t == ss[m]
                 a == off[m - 1]
      <3>1. s \in Seq(S) /\ t \in Seq(S) /\ a \in Nat /\ Len(s) = a
        BY <2>1, <2>2
      <3>2. f[m] = s \o t /\ off[m] = a + len[m] /\ len[m] = Len(t)
        BY <2>2
      <3> HIDE DEF s, t, a
      <3>3. /\ Len(s \o t) = a + Len(t)
            /\ \A k \in 1 .. a : (s \o t)[k] = s[k]
            /\ \A p \in 1 .. Len(t) : (s \o t)[a + p] = t[p]
        BY <3>1, PlacedInConcat DEF Joins
      <3>4. /\ Len(f[m]) = off[m]
            /\ \A k \in 1 .. a : f[m][k] = s[k]
            /\ \A p \in 1 .. len[m] : f[m][a + p] = t[p]
        BY <3>2, <3>3
      <3> QED
        BY <3>4 DEF s, t, a
    <2>4. ASSUME NEW i \in 1 .. m, NEW p \in 1 .. len[i]
          PROVE  off[i - 1] + p \in 1 .. off[m] /\ f[m][off[i - 1] + p] = ss[i][p]
      <3>0. i \in 1 .. n /\ p \in Nat /\ p >= 1
        <4>1. i \in 1 .. n
          BY <1>1
        <4>2. len[i] \in Nat
          BY <1>1, <4>1
        <4> QED
          BY <4>1, <4>2
      <3>1. CASE i = m
        <4>1. off[m - 1] + p \in 1 .. off[m]
          BY <2>2, <3>0, <3>1
        <4> QED
          BY <2>3, <3>1, <4>1
      <3>2. CASE i # m
        <4>1. i \in 1 .. m - 1
          BY <2>0, <3>2
        <4>2. off[i - 1] + p \in 1 .. off[m - 1] /\ f[m - 1][off[i - 1] + p] = ss[i][p]
          BY <2>1, <4>1
        <4>3. off[i - 1] + p \in 1 .. off[m]
          <5>1. off[m - 1] \in Nat /\ len[m] \in Nat /\ off[m] = off[m - 1] + len[m]
            BY <2>2
          <5>2. off[i - 1] + p \in 1 .. off[m - 1]
            BY <4>2
          <5> QED
            BY <5>1, <5>2, StillWithin
        <4> QED
          BY <2>3, <4>2, <4>3
      <3> QED
        BY <3>1, <3>2
    <2>5. Placed(m)
      BY <2>3, <2>4
    <2> HIDE DEF Placed
    <2> QED
      BY <2>0, <2>5
  <1> HIDE DEF P
  <1>11. n \in P
    BY <1>1, <1>9, <1>10, UpFromZero
  <1>12. Placed(n)
    BY <1>11 DEF P
  <1>13. FlattenSeq(ss) \in Seq(S)
    <2>1. n \in 0 .. n
      BY <1>1
    <2> QED
      BY <1>3, <2>1
  <1>14. Offsets(off, ss, FlattenSeq(ss))
    BY <1>3, <1>4, <1>12, <1>e
  <1> QED
    BY <1>13, <1>14

-----------------------------------------------------------------------------
(* The graph of a transcript is layered.                                   *)

LEMMA AsSeq ==
    ASSUME NEW S, NEW n \in Nat, NEW f \in [1 .. n -> S]
    PROVE  f \in Seq(S) /\ Len(f) = n /\ DOMAIN f = 1 .. n
  OBVIOUS

\* The slots of a stretch follow on from one another within a variant of a word.
SlotType == [word : Nat \ {0}, variant : Nat \ {0}, phone : Phones,
             first : BOOLEAN, last : BOOLEAN]
FollowsOn(b, k) ==
  /\ ~b[k].last => /\ k + 1 \in 1 .. Len(b) /\ ~b[k + 1].first
                   /\ b[k + 1].word = b[k].word
  /\ ~b[k].first => /\ k - 1 \in 1 .. Len(b) /\ ~b[k - 1].last
                    /\ b[k - 1].word = b[k].word
Connected(b) == b \in Seq(SlotType) /\ \A k \in 1 .. Len(b) : FollowsOn(b, k)

Rows(ss, S) == ss \in Seq(Seq(S))

LEMMA FlattenConnected ==
    ASSUME NEW ss, Rows(ss, SlotType), \A i \in 1 .. Len(ss) : Connected(ss[i])
    PROVE  Connected(FlattenSeq(ss))
  <1> DEFINE n == Len(ss)
             len == [i \in 1 .. n |-> Len(ss[i])]
             flat == FlattenSeq(ss)
  <1>1. /\ n \in Nat /\ len \in [1 .. n -> Nat]
        /\ \A i \in 1 .. n : ss[i] \in Seq(SlotType) /\ len[i] = Len(ss[i])
    BY Lengths DEF Rows
  <1>2. flat \in Seq(SlotType) /\ \E off : Offsets(off, ss, flat)
    BY FlattenOffsets DEF Rows
  <1>3. PICK off : Offsets(off, ss, flat)
    BY <1>2
  <1>4. /\ Ranks(off, len, n) /\ Len(flat) = off[n]
        /\ \A i \in 1 .. n : \A p \in 1 .. len[i] : flat[off[i - 1] + p] = ss[i][p]
    BY <1>3 DEF Offsets
  <1>5. \A i \in 1 .. n : \A p \in 1 .. len[i] : FollowsOn(ss[i], p) /\ len[i] = Len(ss[i])
    BY <1>1 DEF Connected
  <1> HIDE DEF n, len, flat
  <1>6. ASSUME NEW k \in 1 .. Len(flat) PROVE FollowsOn(flat, k)
    <2>0. k \in 1 .. off[n] /\ Ranks(off, len, n) /\ n \in Nat /\ len \in [1 .. n -> Nat]
      BY <1>1, <1>4
    <2>p. Tiled(off, len, n)
      BY <2>0, Places
    <2>1. PICK i \in 1 .. n : \E p \in 1 .. len[i] : k = off[i - 1] + p
      BY <2>0, <2>p DEF Tiled
    <2>2. PICK p \in 1 .. len[i] : k = off[i - 1] + p
      BY <2>1
    <2>3. FollowsOn(ss[i], p) /\ len[i] = Len(ss[i])
      BY <1>5
    <2>4. off[i - 1] \in Nat /\ p \in Nat
      <3>1. i - 1 \in 0 .. n /\ len[i] \in Nat
        BY <1>1
      <3> QED
        BY <1>4, <3>1 DEF Ranks
    <2>5. \A r \in 1 .. len[i] : off[i - 1] + r \in 1 .. Len(flat) /\ flat[off[i - 1] + r] = ss[i][r]
      BY <1>1, <1>4, PlaceIsOwn
    <2>6. ASSUME ~flat[k].last
          PROVE  /\ k + 1 \in 1 .. Len(flat) /\ ~flat[k + 1].first
                 /\ flat[k + 1].word = flat[k].word
      <3>1. /\ p + 1 \in 1 .. len[i] /\ ~ss[i][p + 1].first
            /\ ss[i][p + 1].word = ss[i][p].word
        BY <2>2, <2>3, <2>5, <2>6 DEF FollowsOn
      <3>2. k + 1 = off[i - 1] + (p + 1)
        BY <2>2, <2>4
      <3> QED
        BY <2>2, <2>5, <3>1, <3>2
    <2>7. ASSUME ~flat[k].first
          PROVE  /\ k - 1 \in 1 .. Len(flat) /\ ~flat[k - 1].last
                 /\ flat[k - 1].word = flat[k].word
      <3>1. /\ p - 1 \in 1 .. len[i] /\ ~ss[i][p - 1].last
            /\ ss[i][p - 1].word = ss[i][p].word
        BY <2>2, <2>3, <2>5, <2>7 DEF FollowsOn
      <3>2. k - 1 = off[i - 1] + (p - 1)
        BY <2>2, <2>4
      <3> QED
        BY <2>2, <2>5, <3>1, <3>2
    <2> QED
      BY <2>6, <2>7 DEF FollowsOn
  <1> QED
    BY <1>2, <1>6 DEF Connected, flat

\* The transcript of a session, as words with variants with phones.
Spelled(words, E) == words \in Seq(Seq(E)) /\ \A e \in E : e.phones \in Seq(Phones)

Run(words, i, v) ==
  [p \in DOMAIN words[i][v].phones |->
     [word |-> i, variant |-> v, phone |-> words[i][v].phones[p],
      first |-> p = 1, last |-> p = Len(words[i][v].phones)]]
Block(words, i) == FlattenSeq([v \in DOMAIN words[i] |-> Run(words, i, v)])

LEMMA RunConnected ==
    ASSUME NEW E, NEW words, Spelled(words, E), NEW i \in 1 .. Len(words),
           NEW v \in 1 .. Len(words[i])
    PROVE  /\ Connected(Run(words, i, v))
           /\ \A p \in 1 .. Len(Run(words, i, v)) : Run(words, i, v)[p].word = i
  <1> DEFINE phones == words[i][v].phones
             n == Len(phones)
             r == Run(words, i, v)
  <1>1. phones \in Seq(Phones) /\ i \in Nat \ {0} /\ v \in Nat \ {0}
    <2>1. words[i] \in Seq(E) /\ Len(words) \in Nat
      BY DEF Spelled
    <2>2. words[i][v] \in E /\ Len(words[i]) \in Nat
      BY <2>1
    <2> QED
      BY <2>1, <2>2 DEF Spelled
  <1>2. n \in Nat /\ DOMAIN phones = 1 .. n /\ \A p \in 1 .. n : phones[p] \in Phones
    BY <1>1
  <1>3. r = [p \in 1 .. n |-> [word |-> i, variant |-> v, phone |-> phones[p],
                               first |-> p = 1, last |-> p = n]]
    BY <1>2 DEF Run
  <1> HIDE DEF phones, n, r
  <1>4. r \in [1 .. n -> SlotType]
    BY <1>1, <1>2, <1>3 DEF SlotType
  <1>5. r \in Seq(SlotType) /\ Len(r) = n
    BY <1>2, <1>4, AsSeq
  <1>6. \A p \in 1 .. n : r[p].word = i /\ (r[p].first <=> p = 1) /\ (r[p].last <=> p = n)
    BY <1>3
  <1>7. ASSUME NEW p \in 1 .. n PROVE FollowsOn(r, p)
    <2>1. p # n => p + 1 \in 1 .. n /\ p + 1 # 1
      BY <1>2
    <2>2. p # 1 => p - 1 \in 1 .. n /\ p - 1 # n
      BY <1>2
    <2> QED
      BY <1>5, <1>6, <2>1, <2>2 DEF FollowsOn
  <1> QED
    BY <1>5, <1>6, <1>7 DEF Connected, r

LEMMA BlockConnected ==
    ASSUME NEW E, NEW words, Spelled(words, E), NEW i \in 1 .. Len(words)
    PROVE  /\ Connected(Block(words, i))
           /\ \A p \in 1 .. Len(Block(words, i)) : Block(words, i)[p].word = i
  <1> DEFINE n == Len(words[i])
             ss == [v \in 1 .. n |-> Run(words, i, v)]
  <1>1. n \in Nat /\ DOMAIN words[i] = 1 .. n
    BY DEF Spelled
  <1>2. \A v \in 1 .. n : Connected(Run(words, i, v))
    BY RunConnected
  <1>3. ss \in [1 .. n -> Seq(SlotType)]
    BY <1>2 DEF Connected
  <1>4. ss \in Seq(Seq(SlotType)) /\ Len(ss) = n /\ \A v \in 1 .. n : ss[v] = Run(words, i, v)
    BY <1>1, <1>3, AsSeq
  <1>5. Block(words, i) = FlattenSeq(ss)
    BY <1>1 DEF Block
  <1>6. Connected(FlattenSeq(ss))
    BY <1>2, <1>4, FlattenConnected DEF Rows
  <1>7. PICK off : Offsets(off, ss, FlattenSeq(ss))
    BY <1>4, FlattenOffsets
  <1>8. ASSUME NEW k \in 1 .. Len(FlattenSeq(ss)) PROVE FlattenSeq(ss)[k].word = i
    <2> DEFINE len == [v \in 1 .. n |-> Len(ss[v])]
    <2>1. /\ Ranks(off, len, n) /\ Len(FlattenSeq(ss)) = off[n]
          /\ \A v \in 1 .. n : \A p \in 1 .. len[v] : FlattenSeq(ss)[off[v - 1] + p] = ss[v][p]
      BY <1>4, <1>7 DEF Offsets
    <2>2. len \in [1 .. n -> Nat]
      BY <1>4, Lengths
    <2>3. \A v \in 1 .. n : len[v] = Len(Run(words, i, v)) /\ ss[v] = Run(words, i, v)
      BY <1>4
    <2> HIDE DEF len, ss, n
    <2>t. Tiled(off, len, n)
      BY <1>1, <2>1, <2>2, Places
    <2>4. PICK v \in 1 .. n : \E p \in 1 .. len[v] : k = off[v - 1] + p
      BY <2>1, <2>t DEF Tiled
    <2>5. PICK p \in 1 .. len[v] : k = off[v - 1] + p
      BY <2>4
    <2>6. FlattenSeq(ss)[k] = Run(words, i, v)[p] /\ p \in 1 .. Len(Run(words, i, v))
      BY <2>1, <2>3, <2>5
    <2>7. v \in 1 .. Len(words[i])
      BY DEF n
    <2> QED
      BY <2>6, <2>7, RunConnected
  <1> QED
    BY <1>5, <1>6, <1>8

\* Slots follow one another word by word, and within a word variant by variant.
LEMMA SlotsConnected ==
    ASSUME NEW E, NEW words, Spelled(words, E)
    PROVE  /\ Connected(Slots(words))
           /\ \A j, k \in 1 .. Len(Slots(words)) :
                j < k => Slots(words)[j].word <= Slots(words)[k].word
  <1> DEFINE n == Len(words)
             ss == [i \in 1 .. n |-> Block(words, i)]
             len == [i \in 1 .. n |-> Len(ss[i])]
             flat == FlattenSeq(ss)
  <1>1. n \in Nat /\ DOMAIN words = 1 .. n
    BY DEF Spelled
  <1>2. \A i \in 1 .. n : Connected(Block(words, i))
    BY BlockConnected
  <1>3. ss \in [1 .. n -> Seq(SlotType)]
    BY <1>2 DEF Connected
  <1>4. Rows(ss, SlotType) /\ Len(ss) = n /\ \A i \in 1 .. n : ss[i] = Block(words, i)
    BY <1>1, <1>3, AsSeq DEF Rows
  <1>5. Slots(words) = flat
    BY <1>1 DEF Slots, Block, Run
  <1>6. Connected(flat)
    BY <1>2, <1>4, FlattenConnected
  <1>7. PICK off : Offsets(off, ss, flat)
    BY <1>4, FlattenOffsets DEF Rows
  <1>8. /\ Ranks(off, len, n) /\ Len(flat) = off[n]
        /\ \A i \in 1 .. n : \A p \in 1 .. len[i] : flat[off[i - 1] + p] = ss[i][p]
    BY <1>4, <1>7 DEF Offsets
  <1>9. len \in [1 .. n -> Nat] /\ \A i \in 1 .. n : len[i] = Len(Block(words, i))
    BY <1>4, Lengths DEF Rows
  <1> HIDE DEF n, ss, len, flat
  <1>10. ASSUME NEW k \in 1 .. Len(flat)
         PROVE  \E i \in 1 .. n : \E p \in 1 .. len[i] : k = off[i - 1] + p /\ flat[k].word = i
    <2>0. k \in 1 .. off[n] /\ Ranks(off, len, n) /\ n \in Nat /\ len \in [1 .. n -> Nat]
      BY <1>1, <1>8, <1>9
    <2>p. Tiled(off, len, n)
      BY <2>0, Places
    <2>1. PICK i \in 1 .. n : \E p \in 1 .. len[i] : k = off[i - 1] + p
      BY <2>0, <2>p DEF Tiled
    <2>2. PICK p \in 1 .. len[i] : k = off[i - 1] + p
      BY <2>1
    <2>3. flat[k] = Block(words, i)[p] /\ p \in 1 .. Len(Block(words, i)) /\ i \in 1 .. Len(words)
      BY <1>4, <1>8, <1>9, <2>2 DEF n
    <2>4. flat[k].word = i
      BY <2>3, BlockConnected
    <2> QED
      BY <2>2, <2>4
  <1>11. ASSUME NEW j \in 1 .. Len(flat), NEW k \in 1 .. Len(flat), j < k
         PROVE  flat[j].word <= flat[k].word
    <2>1. PICK i \in 1 .. n : \E p \in 1 .. len[i] : k = off[i - 1] + p /\ flat[k].word = i
      BY <1>10
    <2>2. PICK p \in 1 .. len[i] : k = off[i - 1] + p /\ flat[k].word = i
      BY <2>1
    <2>3. PICK h \in 1 .. n : \E q \in 1 .. len[h] : j = off[h - 1] + q /\ flat[j].word = h
      BY <1>10
    <2>4. PICK q \in 1 .. len[h] : j = off[h - 1] + q /\ flat[j].word = h
      BY <2>3
    <2>5. i < h => k < j
      BY <1>1, <1>8, <1>9, <2>2, <2>4, EarlierPart
    <2>6. i \in Nat /\ h \in Nat /\ j \in Nat /\ k \in Nat
      OBVIOUS
    <2> QED
      BY <1>11, <2>2, <2>4, <2>5, <2>6
  <1> QED
    BY <1>5, <1>6, <1>11

\* What the graph builders and the split keep of a graph of n slots.
Layered(g, n) ==
  /\ n \in Nat
  /\ g.phone \in [1 .. n -> Phones]
  /\ g.next \in [1 .. n -> SUBSET (1 .. n)] /\ g.prior \in [1 .. n -> SUBSET (1 .. n)]
  /\ \A k, j \in 1 .. n : j \in g.next[k] <=> k \in g.prior[j]
  /\ \A k \in 1 .. n : \A j \in g.next[k] : k < j

LEMMA PhoneGraphLayered ==
    ASSUME NEW E, NEW words, Spelled(words, E)
    PROVE  Layered(MkPhoneGraph(words), Len(Slots(words)))
  <1> DEFINE slots == Slots(words)
             n == Len(slots)
             g == MkPhoneGraph(words)
             Heads(i) == {k \in 1 .. n : slots[k].word = i /\ slots[k].first}
             Tails(i) == {k \in 1 .. n : slots[k].word = i /\ slots[k].last}
  <1>1. /\ slots \in Seq(SlotType) /\ \A k \in 1 .. n : FollowsOn(slots, k)
        /\ \A j, k \in 1 .. n : j < k => slots[j].word <= slots[k].word
    BY SlotsConnected DEF Connected
  <1>2. n \in Nat /\ DOMAIN slots = 1 .. n
        /\ \A k \in 1 .. n : slots[k].word \in Nat /\ slots[k].phone \in Phones
                             /\ slots[k].first \in BOOLEAN /\ slots[k].last \in BOOLEAN
    <2> HIDE DEF slots
    <2>1. n \in Nat /\ DOMAIN slots = 1 .. n
      BY <1>1, LenProperties
    <2>2. \A k \in 1 .. n : slots[k] \in SlotType
      BY <1>1, ElementOfSeq
    <2> QED
      BY <2>1, <2>2 DEF SlotType
  <1>3. /\ g.phone = [k \in 1 .. n |-> slots[k].phone]
        /\ g.next  = [k \in 1 .. n |-> IF slots[k].last THEN Heads(slots[k].word + 1) ELSE {k + 1}]
        /\ g.prior = [k \in 1 .. n |-> IF slots[k].first THEN Tails(slots[k].word - 1) ELSE {k - 1}]
    BY <1>2 DEF MkPhoneGraph
  <1> HIDE DEF g
  <1>4. \A k \in 1 .. n : /\ ~slots[k].last => /\ k + 1 \in 1 .. n /\ ~slots[k + 1].first
                                               /\ slots[k + 1].word = slots[k].word
                          /\ ~slots[k].first => /\ k - 1 \in 1 .. n /\ ~slots[k - 1].last
                                                /\ slots[k - 1].word = slots[k].word
    BY <1>1 DEF FollowsOn
  <1> HIDE DEF slots, n
  <1>5. ASSUME NEW k \in 1 .. n
        PROVE  g.next[k] \in SUBSET (1 .. n) /\ g.prior[k] \in SUBSET (1 .. n)
    BY <1>3, <1>4
  <1>6. ASSUME NEW k \in 1 .. n, NEW j \in 1 .. n
        PROVE  j \in g.next[k] <=> k \in g.prior[j]
    <2>1. g.next[k]  = IF slots[k].last THEN Heads(slots[k].word + 1) ELSE {k + 1}
      BY <1>3
    <2>2. g.prior[j] = IF slots[j].first THEN Tails(slots[j].word - 1) ELSE {j - 1}
      BY <1>3
    <2>3. j \in Heads(slots[k].word + 1) <=> slots[j].word = slots[k].word + 1 /\ slots[j].first
      OBVIOUS
    <2>4. k \in Tails(slots[j].word - 1) <=> slots[k].word = slots[j].word - 1 /\ slots[k].last
      OBVIOUS
    <2>5. slots[k].word \in Nat /\ slots[j].word \in Nat /\ k \in Nat /\ j \in Nat
      BY <1>2
    <2>6. slots[j].word = slots[k].word + 1 <=> slots[k].word = slots[j].word - 1
      BY <2>5
    <2>7. j = k + 1 <=> k = j - 1
      BY <2>5
    <2>8. ~slots[k].last /\ j = k + 1 => ~slots[j].first
      BY <1>4
    <2>9. ~slots[j].first /\ k = j - 1 => ~slots[k].last
      BY <1>4
    <2> HIDE DEF Heads, Tails
    <2> QED
      BY <2>1, <2>2, <2>3, <2>4, <2>6, <2>7, <2>8, <2>9
  <1>7. ASSUME NEW k \in 1 .. n, NEW j \in g.next[k] PROVE k < j
    <2>1. j \in 1 .. n /\ k \in Nat /\ j \in Nat
      BY <1>5
    <2>2. CASE ~slots[k].last
      BY <1>3, <2>1, <2>2
    <2>3. CASE slots[k].last
      <3>1. slots[j].word = slots[k].word + 1
        BY <1>3, <2>3
      <3>2. slots[j].word \in Nat /\ slots[k].word \in Nat /\ ~(slots[j].word <= slots[k].word)
            /\ slots[j].word # slots[k].word
        BY <1>2, <2>1, <3>1
      <3>3. ~(j < k) /\ j # k
        BY <1>1, <2>1, <3>2 DEF n, slots
      <3> QED
        BY <2>1, <3>3
    <2> QED
      BY <2>2, <2>3
  <1>8. /\ g.phone \in [1 .. n -> Phones]
        /\ g.next \in [1 .. n -> SUBSET (1 .. n)] /\ g.prior \in [1 .. n -> SUBSET (1 .. n)]
    <2> DEFINE nx == [k \in 1 .. n |-> IF slots[k].last THEN Heads(slots[k].word + 1) ELSE {k + 1}]
               pr == [k \in 1 .. n |-> IF slots[k].first THEN Tails(slots[k].word - 1) ELSE {k - 1}]
    <2>1. g.phone \in [1 .. n -> Phones]
      BY <1>2, <1>3
    <2>2. \A k \in 1 .. n : nx[k] \in SUBSET (1 .. n) /\ pr[k] \in SUBSET (1 .. n)
      BY <1>3, <1>5
    <2>3. nx \in [1 .. n -> SUBSET (1 .. n)] /\ pr \in [1 .. n -> SUBSET (1 .. n)]
      BY <2>2
    <2> QED
      BY <1>3, <2>1, <2>3
  <1>9. Layered(g, n)
    BY <1>2, <1>6, <1>7, <1>8 DEF Layered
  <1> QED
    BY <1>9 DEF g, n, slots

-----------------------------------------------------------------------------
(* The paths of a layered graph.                                           *)

\* Induction from n down to 1.
LEMMA Downwards ==
    ASSUME NEW n \in Nat, NEW P,
           \A k \in 1 .. n : (\A j \in k + 1 .. n : j \in P) => k \in P
    PROVE  \A k \in 1 .. n : k \in P
  <1> DEFINE out == {d \in 0 .. n : n - d \in 1 .. n /\ n - d \notin P}
  <1>1. SUFFICES ASSUME NEW k \in 1 .. n, k \notin P PROVE FALSE
    OBVIOUS
  <1>2. n - k \in out /\ out \in SUBSET Nat
    <2>1. k \in Nat /\ n - k \in 0 .. n /\ n - (n - k) = k
      OBVIOUS
    <2> QED
      BY <1>1, <2>1
  <1>3. PICK d \in out : \A m \in out : d <= m
    <2> HIDE DEF out
    <2> QED
      BY <1>2, LeastOne
  <1>4. n - d \in 1 .. n /\ n - d \notin P /\ d \in 0 .. n
    OBVIOUS
  <1>5. PICK j \in (n - d) + 1 .. n : j \notin P
    BY <1>4
  <1>6. n - j \in out /\ ~(d <= n - j)
    BY <1>4, <1>5
  <1> HIDE DEF out
  <1> QED
    BY <1>3, <1>6

LEMMA Prepended ==
    ASSUME NEW S, NEW k \in S, NEW q \in Seq(S)
    PROVE  /\ <<k>> \o q \in Seq(S) /\ Len(<<k>> \o q) = Len(q) + 1 /\ (<<k>> \o q)[1] = k
           /\ \A i \in 1 .. Len(q) : (<<k>> \o q)[i + 1] = q[i]
  <1>1. <<k>> \in Seq(S) /\ Len(<<k>>) = 1 /\ 1 \in Nat /\ <<k>>[1] = k
    OBVIOUS
  <1>2. Joins(<<k>> \o q, <<k>>, q, 1, S)
    <2> DEFINE s == <<k>>
    <2>1. s \in Seq(S) /\ Len(s) = 1
      BY <1>1
    <2> HIDE DEF s
    <2>2. Joins(s \o q, s, q, 1, S)
      BY <1>1, <2>1, PlacedInConcat
    <2> QED
      BY <2>2 DEF s
  <1>3. Len(q) \in Nat /\ 1 \in 1 .. 1
    OBVIOUS
  <1>4. 1 + Len(q) = Len(q) + 1 /\ \A i \in 1 .. Len(q) : 1 + i = i + 1
    BY <1>3
  <1> DEFINE c == <<k>> \o q
  <1>5. /\ c \in Seq(S) /\ Len(c) = 1 + Len(q) /\ c[1] = <<k>>[1]
        /\ \A p \in 1 .. Len(q) : c[1 + p] = q[p]
    BY <1>2, <1>3 DEF Joins
  <1> HIDE DEF c
  <1>6. /\ c \in Seq(S) /\ Len(c) = Len(q) + 1 /\ c[1] = k
        /\ \A i \in 1 .. Len(q) : c[i + 1] = q[i]
    BY <1>1, <1>4, <1>5
  <1> QED
    BY <1>6 DEF c

LEMMA Split1 ==
    ASSUME NEW S, NEW p \in Seq(S), Len(p) # 0
    PROVE  /\ Tail(p) \in Seq(S) /\ Len(p) = Len(Tail(p)) + 1 /\ p[1] \in S
           /\ \A i \in 1 .. Len(Tail(p)) : Tail(p)[i] = p[i + 1]
           /\ p = <<p[1]>> \o Tail(p)
  <1>1. p # <<>> /\ Len(p) \in Nat
    BY EmptySeq
  <1>2. /\ Tail(p) \in Seq(S) /\ Len(Tail(p)) = Len(p) - 1
        /\ \A i \in 1 .. Len(Tail(p)) : Tail(p)[i] = p[i + 1]
    BY <1>1, HeadTailProperties
  <1>3. p[1] \in S
    <2>1. 1 \in 1 .. Len(p)
      BY <1>1
    <2> QED
      BY <2>1, ElementOfSeq
  <1> DEFINE k == p[1]
             q == Tail(p)
             r == <<k>> \o q
  <1>4. /\ r \in Seq(S) /\ Len(r) = Len(q) + 1 /\ r[1] = k
        /\ \A i \in 1 .. Len(q) : r[i + 1] = q[i]
    <2>1. k \in S /\ q \in Seq(S)
      BY <1>2, <1>3
    <2> HIDE DEF k, q
    <2> QED
      BY <2>1, Prepended
  <1>5. Len(r) = Len(p)
    BY <1>1, <1>2, <1>4
  <1>6. ASSUME NEW i \in 1 .. Len(r) PROVE r[i] = p[i]
    <2>1. CASE i = 1
      BY <1>4, <2>1
    <2>2. CASE i # 1
      <3>1. i - 1 \in 1 .. Len(q) /\ (i - 1) + 1 = i
        BY <1>1, <1>2, <1>5, <2>2
      <3>2. r[i] = q[i - 1] /\ q[i - 1] = p[i]
        <4> HIDE DEF r
        <4>1. r[(i - 1) + 1] = q[i - 1]
          BY <1>4, <3>1
        <4>2. q[i - 1] = p[(i - 1) + 1]
          BY <1>2, <3>1
        <4> QED
          BY <3>1, <4>1, <4>2
      <3> QED
        BY <3>2
    <2> QED
      BY <2>1, <2>2
  <1>7. r = p
    <2> HIDE DEF r
    <2> QED
      BY <1>4, <1>5, <1>6, SeqEqual
  <1> QED
    BY <1>1, <1>2, <1>3, <1>7

\* A way onward from slot k, to a slot without successor.
Onward(next, n, k, p) ==
  /\ p \in Seq(1 .. n) /\ Len(p) # 0 /\ p[1] = k
  /\ \A i \in 1 .. Len(p) - 1 : p[i + 1] \in next[p[i]]
  /\ next[p[Len(p)]] = {}
WaysOn(next, n, k) == {p \in Seq(1 .. n) : Onward(next, n, k, p)}

LEMMA TwoOrMore ==
    ASSUME NEW l \in Nat, l # 0, l # 1
    PROVE  1 \in 1 .. l - 1
  OBVIOUS

LEMMA WaysEnd ==
    ASSUME NEW n \in Nat, NEW next \in [1 .. n -> SUBSET (1 .. n)], NEW k \in 1 .. n,
           next[k] = {}
    PROVE  WaysOn(next, n, k) = {<<k>>}
  <1>1. Onward(next, n, k, <<k>>)
    BY DEF Onward
  <1>2. ASSUME NEW p, Onward(next, n, k, p) PROVE p = <<k>>
    <2>1. /\ p \in Seq(1 .. n) /\ Len(p) # 0 /\ p[1] = k /\ Len(p) \in Nat
          /\ \A i \in 1 .. Len(p) - 1 : p[i + 1] \in next[p[i]]
      BY <1>2 DEF Onward
    <2>2. Len(p) = 1
      <3>1. SUFFICES ASSUME Len(p) # 1 PROVE FALSE
        OBVIOUS
      <3>2. 1 \in 1 .. Len(p) - 1
        BY <2>1, <3>1, TwoOrMore
      <3>3. p[1 + 1] \in next[p[1]]
        BY <2>1, <3>2
      <3> QED
        BY <2>1, <3>3
    <2> QED
      <3>1. <<k>> \in Seq(1 .. n) /\ Len(<<k>>) = 1 /\ <<k>>[1] = k
        OBVIOUS
      <3>2. \A i \in 1 .. 1 : i = 1
        OBVIOUS
      <3>3. \A i \in 1 .. Len(p) : p[i] = <<k>>[i]
        BY <2>1, <2>2, <3>1, <3>2
      <3> DEFINE s == <<k>>
      <3>4. s \in Seq(1 .. n) /\ Len(s) = Len(p) /\ \A i \in 1 .. Len(p) : p[i] = s[i]
        BY <2>2, <3>1, <3>3
      <3> HIDE DEF s
      <3>5. p = s
        BY <2>1, <3>4, SeqEqual
      <3> QED
        BY <3>5 DEF s
  <1> QED
    BY <1>1, <1>2 DEF WaysOn, Onward

LEMMA WaysGoOn ==
    ASSUME NEW n \in Nat, NEW next \in [1 .. n -> SUBSET (1 .. n)], NEW k \in 1 .. n,
           next[k] # {}
    PROVE  WaysOn(next, n, k) = UNION {{<<k>> \o q : q \in WaysOn(next, n, j)} : j \in next[k]}
  <1>1. ASSUME NEW j \in next[k], NEW q \in WaysOn(next, n, j)
        PROVE  Onward(next, n, k, <<k>> \o q)
    <2>1. /\ q \in Seq(1 .. n) /\ Len(q) # 0 /\ q[1] = j /\ Len(q) \in Nat
          /\ \A i \in 1 .. Len(q) - 1 : q[i + 1] \in next[q[i]]
          /\ next[q[Len(q)]] = {}
      BY DEF WaysOn, Onward
    <2> DEFINE p == <<k>> \o q
    <2>2. /\ p \in Seq(1 .. n) /\ Len(p) = Len(q) + 1 /\ p[1] = k
          /\ \A i \in 1 .. Len(q) : p[i + 1] = q[i]
      BY <2>1, Prepended
    <2> HIDE DEF p
    <2>3. p[Len(p)] = q[Len(q)]
      BY <2>1, <2>2
    <2>4. ASSUME NEW i \in 1 .. Len(p) - 1 PROVE p[i + 1] \in next[p[i]]
      <3>1. i \in 1 .. Len(q) /\ p[i + 1] = q[i]
        BY <2>1, <2>2
      <3>2. CASE i = 1
        BY <2>1, <2>2, <3>1, <3>2
      <3>3. CASE i # 1
        <4>1. i - 1 \in 1 .. Len(q) - 1 /\ i - 1 \in 1 .. Len(q) /\ (i - 1) + 1 = i
          BY <2>1, <3>1, <3>3
        <4>2. q[(i - 1) + 1] \in next[q[i - 1]] /\ p[(i - 1) + 1] = q[i - 1]
          BY <2>1, <2>2, <4>1
        <4> QED
          BY <3>1, <4>1, <4>2
      <3> QED
        BY <3>2, <3>3
    <2> QED
      BY <2>1, <2>2, <2>3, <2>4 DEF Onward, p
  <1>2. ASSUME NEW p, Onward(next, n, k, p)
        PROVE  \E j \in next[k] : \E q \in WaysOn(next, n, j) : p = <<k>> \o q
    <2>1. /\ p \in Seq(1 .. n) /\ Len(p) # 0 /\ p[1] = k /\ Len(p) \in Nat
          /\ \A i \in 1 .. Len(p) - 1 : p[i + 1] \in next[p[i]]
          /\ next[p[Len(p)]] = {}
      BY <1>2 DEF Onward
    <2> DEFINE q == Tail(p)
    <2>2. /\ q \in Seq(1 .. n) /\ Len(p) = Len(q) + 1
          /\ \A i \in 1 .. Len(q) : q[i] = p[i + 1]
          /\ p = <<k>> \o q
      BY <2>1, Split1
    <2> HIDE DEF q
    <2>3. Len(p) # 1 /\ Len(q) \in Nat
      BY <2>1, <2>2
    <2>4. Len(q) # 0 /\ q[1] \in next[k] /\ q[Len(q)] = p[Len(p)]
      <3>1. 1 \in 1 .. Len(p) - 1 /\ 1 \in 1 .. Len(q) /\ Len(q) \in 1 .. Len(q)
        BY <2>1, <2>2, <2>3
      <3>2. p[1 + 1] \in next[p[1]] /\ q[1] = p[1 + 1] /\ q[Len(q)] = p[Len(q) + 1]
        BY <2>1, <2>2, <3>1
      <3> QED
        BY <2>1, <2>2, <3>1, <3>2
    <2>5. ASSUME NEW i \in 1 .. Len(q) - 1 PROVE q[i + 1] \in next[q[i]]
      <3>1. i \in 1 .. Len(q) /\ i + 1 \in 1 .. Len(q) /\ i + 1 \in 1 .. Len(p) - 1
        BY <2>1, <2>2, <2>3
      <3>2. q[i] = p[i + 1] /\ q[i + 1] = p[(i + 1) + 1] /\ p[(i + 1) + 1] \in next[p[i + 1]]
        BY <2>1, <2>2, <3>1
      <3> QED
        BY <3>2
    <2>6. q \in WaysOn(next, n, q[1])
      BY <2>1, <2>2, <2>4, <2>5 DEF WaysOn, Onward
    <2> QED
      BY <2>2, <2>4, <2>6
  <1>3. \A p : p \in WaysOn(next, n, k) <=> Onward(next, n, k, p)
    BY DEF WaysOn, Onward
  <1>4. ASSUME NEW p PROVE p \in WaysOn(next, n, k)
                           <=> \E j \in next[k] : \E q \in WaysOn(next, n, j) : p = <<k>> \o q
    BY <1>1, <1>2, <1>3
  <1> DEFINE W(j) == WaysOn(next, n, j)
  <1> HIDE DEF W
  <1>5. \A p : p \in W(k) <=> \E j \in next[k] : \E q \in W(j) : p = <<k>> \o q
    BY <1>4 DEF W
  <1>6. W(k) = UNION {{<<k>> \o q : q \in W(j)} : j \in next[k]}
    BY <1>5
  <1> QED
    BY <1>6 DEF W

\* The ways through a graph of n slots.
Ways(g, n) == {p \in Seq(1 .. n) : /\ Len(p) # 0 /\ g.prior[p[1]] = {}
                                   /\ Onward(g.next, n, p[1], p)}

LEMMA PathsAreWays ==
    ASSUME NEW g, NEW n, Layered(g, n)
    PROVE  PathsOf(g) = Ways(g, n)
  <1> DEFINE from[k \in DOMAIN g.phone] ==
               IF g.next[k] = {} THEN {<<k>>}
               ELSE UNION {{<<k>> \o p : p \in from[j]} : j \in g.next[k]}
             F == [k \in 1 .. n |-> WaysOn(g.next, n, k)]
  <1>1. /\ n \in Nat /\ DOMAIN g.phone = 1 .. n
        /\ g.next \in [1 .. n -> SUBSET (1 .. n)]
        /\ \A k \in 1 .. n : \A j \in g.next[k] : j \in 1 .. n /\ k < j
    BY DEF Layered
  <1>2. PathsOf(g) = UNION {from[k] : k \in {j \in DOMAIN g.phone : g.prior[j] = {}}}
    BY DEF PathsOf
  <1>3. F = [k \in DOMAIN g.phone |->
               IF g.next[k] = {} THEN {<<k>>}
               ELSE UNION {{<<k>> \o p : p \in F[j]} : j \in g.next[k]}]
    <2> DEFINE G(k) == IF g.next[k] = {} THEN {<<k>>}
                       ELSE UNION {{<<k>> \o p : p \in F[j]} : j \in g.next[k]}
    <2>1. ASSUME NEW k \in 1 .. n PROVE F[k] = G(k)
      <3>1. CASE g.next[k] = {}
        BY <1>1, <3>1, WaysEnd
      <3>2. CASE g.next[k] # {}
        <4>1. F[k] = UNION {{<<k>> \o q : q \in WaysOn(g.next, n, j)} : j \in g.next[k]}
          BY <1>1, <3>2, WaysGoOn
        <4>2. \A j \in g.next[k] : F[j] = WaysOn(g.next, n, j)
          BY <1>1
        <4>3. G(k) = UNION {{<<k>> \o p : p \in F[j]} : j \in g.next[k]}
          BY <3>2
        <4> HIDE DEF F, G
        <4> QED
          BY <4>1, <4>2, <4>3
      <3> QED
        BY <3>1, <3>2
    <2>2. F = [k \in 1 .. n |-> F[k]]
      OBVIOUS
    <2> HIDE DEF F
    <2>3. [k \in 1 .. n |-> F[k]] = [k \in 1 .. n |-> G(k)]
      BY <2>1
    <2> QED
      BY <1>1, <2>2, <2>3
  <1>4. from = [k \in DOMAIN g.phone |->
               IF g.next[k] = {} THEN {<<k>>}
               ELSE UNION {{<<k>> \o p : p \in from[j]} : j \in g.next[k]}]
    <2> HIDE DEF F
    <2> QED
      BY <1>3
  <1>f. \A k \in 1 .. n : F[k] = WaysOn(g.next, n, k)
    OBVIOUS
  <1> HIDE DEF from, F
  <1> DEFINE P == {k \in 1 .. n : from[k] = F[k]}
  <1>5. ASSUME NEW k \in 1 .. n, \A j \in k + 1 .. n : j \in P PROVE k \in P
    <2>1. from[k] = IF g.next[k] = {} THEN {<<k>>}
                    ELSE UNION {{<<k>> \o p : p \in from[j]} : j \in g.next[k]}
      BY <1>1, <1>4
    <2>2. F[k] = IF g.next[k] = {} THEN {<<k>>}
                 ELSE UNION {{<<k>> \o p : p \in F[j]} : j \in g.next[k]}
      BY <1>1, <1>3
    <2>3. \A j \in g.next[k] : j \in k + 1 .. n
      BY <1>1
    <2>4. \A j \in g.next[k] : from[j] = F[j]
      BY <1>5, <2>3
    <2> QED
      BY <2>1, <2>2, <2>4
  <1> HIDE DEF P
  <1>6. \A k \in 1 .. n : k \in P
    BY <1>1, <1>5, Downwards
  <1>7. \A k \in 1 .. n : from[k] = WaysOn(g.next, n, k)
    BY <1>6, <1>f DEF P
  <1>8. ASSUME NEW p PROVE p \in PathsOf(g) <=> p \in Ways(g, n)
    <2>1. p \in PathsOf(g) <=> \E k \in 1 .. n : g.prior[k] = {} /\ p \in WaysOn(g.next, n, k)
      BY <1>1, <1>2, <1>7
    <2>2. \A k : p \in WaysOn(g.next, n, k) =>
            p \in Seq(1 .. n) /\ Len(p) # 0 /\ p[1] = k /\ Onward(g.next, n, k, p)
      BY DEF WaysOn, Onward
    <2>3. p \in Ways(g, n) => p[1] \in 1 .. n /\ g.prior[p[1]] = {} /\ p \in WaysOn(g.next, n, p[1])
      <3>1. ASSUME p \in Ways(g, n) PROVE p[1] \in 1 .. n
        <4>1. p \in Seq(1 .. n) /\ Len(p) # 0
          BY <3>1 DEF Ways
        <4> QED
          BY <4>1, Split1
      <3> QED
        BY <3>1 DEF Ways, WaysOn
    <2>4. ASSUME NEW k \in 1 .. n, g.prior[k] = {}, p \in WaysOn(g.next, n, k)
          PROVE  p \in Ways(g, n)
      BY <2>2, <2>4 DEF Ways
    <2> QED
      BY <2>1, <2>3, <2>4
  <1> QED
    BY <1>8 DEF Ways

-----------------------------------------------------------------------------
(* Rows and columns of a grid.                                             *)

LEMMA DivisionLaw ==
    ASSUME NEW n \in Nat, NEW s \in Nat \ {0}
    PROVE  /\ n \div s \in Nat /\ n % s \in Nat
           /\ s * (n \div s) + (n % s) = n /\ n % s < s
  BY SMTT(60)

LEMMA Multiples ==
    ASSUME NEW s \in Nat, NEW a \in Nat, NEW b \in Nat, a <= b
    PROVE  s * a \in Nat /\ s * b \in Nat /\ s * a <= s * b
  BY SMTT(60)

LEMMA NextMultiple ==
    ASSUME NEW s \in Nat, NEW a \in Nat
    PROVE  s * (a + 1) = s * a + s
  BY SMTT(60)

\* Quotient and remainder are determined by their law.
LEMMA DivisionUnique ==
    ASSUME NEW s \in Nat \ {0}, NEW q \in Nat, NEW r \in Nat, r < s,
           NEW p \in Nat, NEW t \in Nat, t < s, s * q + r = s * p + t
    PROVE  q = p /\ r = t
  <1>1. s * q \in Nat /\ s * p \in Nat
    BY Multiples
  <1>2. ~(q + 1 <= p)
    <2>1. SUFFICES ASSUME q + 1 <= p PROVE FALSE
      OBVIOUS
    <2>2. s * (q + 1) <= s * p /\ s * (q + 1) = s * q + s
      BY <2>1, Multiples, NextMultiple
    <2> QED
      BY <1>1, <2>2
  <1>3. ~(p + 1 <= q)
    <2>1. SUFFICES ASSUME p + 1 <= q PROVE FALSE
      OBVIOUS
    <2>2. s * (p + 1) <= s * q /\ s * (p + 1) = s * p + s
      BY <2>1, Multiples, NextMultiple
    <2> QED
      BY <1>1, <2>2
  <1>4. q = p
    BY <1>2, <1>3
  <1> QED
    BY <1>1, <1>4

\* The cells of a grid of l rows and r columns, numbered along the rows.
Row(c, r) == 1 + ((c - 1) \div r)
Column(c, r) == 1 + ((c - 1) % r)

LEMMA CellOfGrid ==
    ASSUME NEW l \in Nat, NEW r \in Nat \ {0}, NEW c \in 1 .. l * r
    PROVE  Row(c, r) \in 1 .. l /\ Column(c, r) \in 1 .. r
           /\ c = r * (Row(c, r) - 1) + Column(c, r)
  <1> DEFINE q == (c - 1) \div r
             m == (c - 1) % r
  <1>1. c - 1 \in Nat /\ l * r \in Nat /\ l * r = r * l /\ c <= r * l /\ c \in Nat
    <2>1. r * l \in Nat /\ l * r = r * l
      BY Multiples
    <2> QED
      BY <2>1
  <1>2. q \in Nat /\ m \in Nat /\ r * q + m = c - 1 /\ m < r
    BY <1>1, DivisionLaw
  <1> HIDE DEF q, m
  <1>3. ~(l <= q)
    <2>1. SUFFICES ASSUME l <= q PROVE FALSE
      OBVIOUS
    <2>2. r * l <= r * q /\ r * l \in Nat /\ r * q \in Nat
      BY <1>2, <2>1, Multiples
    <2> QED
      BY <1>1, <1>2, <2>2
  <1>4. q + 1 \in 1 .. l /\ m + 1 \in 1 .. r /\ (1 + q) - 1 = q
    BY <1>2, <1>3
  <1>5. c = r * q + (1 + m)
    <2>1. r * q \in Nat
      BY <1>2, Multiples
    <2> QED
      BY <1>1, <1>2, <2>1
  <1>6. Row(c, r) = 1 + q /\ Column(c, r) = 1 + m
    BY DEF Row, Column, q, m
  <1>7. 1 + q = q + 1 /\ 1 + m = m + 1
    BY <1>2
  <1> QED
    BY <1>4, <1>5, <1>6, <1>7

HasCell(l, r, a, b) == \E c \in 1 .. l * r : Row(c, r) = a /\ Column(c, r) = b

LEMMA GridHasCell ==
    ASSUME NEW l \in Nat, NEW r \in Nat \ {0}, NEW a \in 1 .. l, NEW b \in 1 .. r
    PROVE  HasCell(l, r, a, b)
  <1> DEFINE q == a - 1
             m == b - 1
             p == r * q
  <1>1. q \in Nat /\ m \in Nat /\ m < r /\ q + 1 <= l /\ a = 1 + q /\ b = 1 + m
    OBVIOUS
  <1>2. p \in Nat /\ r * (q + 1) = p + r /\ r * (q + 1) <= r * l /\ r * l \in Nat /\ l * r = r * l
    <2> HIDE DEF q
    <2> QED
      BY <1>1, Multiples, NextMultiple
  <1> DEFINE c == p + m + 1
  <1>3. c \in 1 .. l * r /\ c - 1 = p + m /\ c - 1 \in Nat
    <2> HIDE DEF p, m, q
    <2> QED
      BY <1>1, <1>2
  <1>4. (c - 1) \div r = q /\ (c - 1) % r = m
    <2> DEFINE d == (c - 1) \div r
               e == (c - 1) % r
    <2>1. d \in Nat /\ e \in Nat /\ r * d + e = c - 1 /\ e < r
      BY <1>3, DivisionLaw
    <2>2. r * d + e = r * q + m
      BY <1>3, <2>1
    <2> HIDE DEF d, e, q, m, c, p
    <2>3. d = q /\ e = m
      BY <1>1, <2>1, <2>2, DivisionUnique
    <2> QED
      BY <2>3 DEF d, e
  <1>5. Row(c, r) = a /\ Column(c, r) = b
    BY <1>1, <1>4 DEF Row, Column
  <1> HIDE DEF c
  <1> QED
    BY <1>3, <1>5 DEF HasCell

LEMMA CellIsOwn ==
    ASSUME NEW l \in Nat, NEW r \in Nat \ {0}, NEW c \in 1 .. l * r, NEW d \in 1 .. l * r,
           Row(c, r) = Row(d, r), Column(c, r) = Column(d, r)
    PROVE  c = d
  <1>1. c = r * (Row(c, r) - 1) + Column(c, r) /\ d = r * (Row(d, r) - 1) + Column(d, r)
    BY CellOfGrid
  <1> QED
    BY <1>1

-----------------------------------------------------------------------------
(* The copies of each slot.                                                *)

LEMMA SeqWithin ==
    ASSUME NEW S, NEW T, NEW s \in Seq(S), \A i \in 1 .. Len(s) : s[i] \in T
    PROVE  s \in Seq(T)
  <1>1. Len(s) \in Nat /\ s \in [1 .. Len(s) -> S]
    BY LenProperties
  <1>2. s \in [1 .. Len(s) -> T]
    BY <1>1
  <1> QED
    BY <1>1, <1>2, AsSeq

\* The contexts that a slot has for its neighbours.
Contexts(g, neighbours) ==
  IF neighbours = {} THEN {SIL} ELSE {ContextPhone(g.phone[k]) : k \in neighbours}

\* A list of the elements of a set, each once.
Lists(s, S) ==
  /\ s \in Seq(S) /\ Len(s) \in Nat \ {0}
  /\ \A x \in S : \E i \in 1 .. Len(s) : s[i] = x
  /\ \A i, j \in 1 .. Len(s) : s[i] = s[j] => i = j

LEMMA ContextsListed ==
    ASSUME NEW g, NEW n, Layered(g, n), NEW neighbours \in SUBSET (1 .. n)
    PROVE  Lists(DistinctContexts(g, neighbours), Contexts(g, neighbours))
  <1> DEFINE contexts == [k \in 1 .. n |-> ContextPhone(g.phone[k])]
             at == {k \in neighbours : \A j \in neighbours : j < k => contexts[j] # contexts[k]}
             found == Chosen(contexts, at)
  <1>1. n \in Nat /\ DOMAIN g.phone = 1 .. n /\ g.phone \in [1 .. n -> Phones]
    BY DEF Layered
  <1>2. DistinctContexts(g, neighbours) = IF found = <<>> THEN <<SIL>> ELSE found
    BY <1>1 DEF DistinctContexts
  <1>3. contexts \in [1 .. n -> Phones]
    BY <1>1, PhonesAssumption DEF ContextPhone
  <1>4. contexts \in Seq(Phones) /\ Len(contexts) = n
    BY <1>1, <1>3, AsSeq
  <1>c. \A k \in 1 .. n : contexts[k] = ContextPhone(g.phone[k])
    OBVIOUS
  <1>a. at \subseteq neighbours /\ \A k \in at : \A j \in neighbours : j < k => contexts[j] # contexts[k]
    OBVIOUS
  <1>b. \A k \in neighbours : (\A j \in neighbours : j < k => contexts[j] # contexts[k]) => k \in at
    OBVIOUS
  <1> HIDE DEF contexts, at
  <1>5. found \in Seq(Phones) /\ \E pos : Locates(pos, found, contexts, at, Len(contexts))
    BY <1>4, ChosenPositions
  <1>6. PICK pos : Locates(pos, found, contexts, at, Len(contexts))
    BY <1>5
  <1>7. /\ pos \in [1 .. Len(found) -> at \cap (1 .. n)]
        /\ \A i, j \in 1 .. Len(found) : i < j => pos[i] < pos[j]
        /\ \A k \in at \cap (1 .. n) : \E i \in 1 .. Len(found) : pos[i] = k
        /\ \A i \in 1 .. Len(found) : found[i] = contexts[pos[i]]
    BY <1>4, <1>6 DEF Locates
  <1> HIDE DEF found
  <1>8. \A i \in 1 .. Len(found) : pos[i] \in at /\ pos[i] \in neighbours /\ pos[i] \in 1 .. n
    BY <1>7, <1>a
  <1>9. ASSUME NEW k \in neighbours
        PROVE  \E i \in 1 .. Len(found) : found[i] = contexts[k]
    <2> DEFINE same == {j \in neighbours : contexts[j] = contexts[k]}
    <2>1. k \in same /\ same \in SUBSET Nat
      <3>1. neighbours \subseteq Nat
        BY <1>1
      <3> QED
        BY <3>1
    <2>2. PICK j \in same : \A m \in same : j <= m
      <3> HIDE DEF same
      <3> QED
        BY <2>1, LeastOne
    <2>3. j \in neighbours /\ contexts[j] = contexts[k] /\ j \in 1 .. n
      OBVIOUS
    <2>4. \A m \in neighbours : m < j => contexts[m] # contexts[j]
      BY <2>2, <2>3
    <2>5. j \in at \cap (1 .. n)
      BY <1>b, <2>3, <2>4
    <2>6. PICK i \in 1 .. Len(found) : pos[i] = j
      BY <1>7, <2>5
    <2> QED
      BY <1>7, <2>3, <2>6
  <1>10. ASSUME NEW i \in 1 .. Len(found), NEW j \in 1 .. Len(found), found[i] = found[j]
         PROVE  i = j
    <2>1. \A a, b \in 1 .. Len(found) : a < b => found[a] # found[b]
      <3>1. SUFFICES ASSUME NEW a \in 1 .. Len(found), NEW b \in 1 .. Len(found), a < b
                     PROVE  found[a] # found[b]
        OBVIOUS
      <3>2. pos[a] < pos[b] /\ pos[a] \in neighbours /\ pos[b] \in at
        BY <1>7, <1>8, <3>1
      <3>3. contexts[pos[a]] # contexts[pos[b]]
        BY <1>a, <3>2
      <3> QED
        BY <1>7, <3>3
    <2>2. ~(i < j) /\ ~(j < i) /\ i \in Nat /\ j \in Nat
      BY <1>10, <2>1
    <2> QED
      BY <2>2
  <1>11. Len(found) \in Nat /\ (found = <<>> <=> Len(found) = 0)
    BY <1>5, EmptySeq
  <1>12. CASE neighbours = {}
    <2>1. Len(found) = 0
      <3>1. \A i \in 1 .. Len(found) : FALSE
        BY <1>8, <1>12
      <3> QED
        BY <1>11, <3>1
    <2>2. DistinctContexts(g, neighbours) = <<SIL>> /\ Contexts(g, neighbours) = {SIL}
      BY <1>2, <1>11, <1>12, <2>1 DEF Contexts
    <2>3. Lists(<<SIL>>, {SIL})
      BY DEF Lists
    <2> QED
      BY <2>2, <2>3
  <1>13. CASE neighbours # {}
    <2>1. Len(found) # 0
      <3>1. PICK k \in neighbours : TRUE
        BY <1>13
      <3>2. PICK i \in 1 .. Len(found) : found[i] = contexts[k]
        BY <1>9
      <3> QED
        BY <1>11, <3>2
    <2>2. /\ DistinctContexts(g, neighbours) = found
          /\ Contexts(g, neighbours) = {ContextPhone(g.phone[k]) : k \in neighbours}
      BY <1>2, <1>11, <1>13, <2>1 DEF Contexts
    <2>3. \A i \in 1 .. Len(found) : found[i] \in Contexts(g, neighbours)
      <3>1. SUFFICES ASSUME NEW i \in 1 .. Len(found)
                     PROVE  found[i] \in Contexts(g, neighbours)
        OBVIOUS
      <3>2. found[i] = ContextPhone(g.phone[pos[i]]) /\ pos[i] \in neighbours
        BY <1>7, <1>8, <1>c
      <3> QED
        BY <2>2, <3>2
    <2>4. found \in Seq(Contexts(g, neighbours))
      BY <1>5, <2>3, SeqWithin
    <2>5. \A x \in Contexts(g, neighbours) : \E i \in 1 .. Len(found) : found[i] = x
      <3>1. SUFFICES ASSUME NEW x \in Contexts(g, neighbours)
                     PROVE  \E i \in 1 .. Len(found) : found[i] = x
        OBVIOUS
      <3>2. PICK k \in neighbours : x = ContextPhone(g.phone[k])
        BY <2>2
      <3>3. x = contexts[k]
        BY <1>c, <3>2
      <3> QED
        BY <1>9, <3>3
    <2> QED
      BY <1>10, <1>11, <2>1, <2>2, <2>4, <2>5 DEF Lists
  <1> QED
    BY <1>12, <1>13

Lefts(g, k)  == IF g.phone[k] \in Fillers THEN {SIL} ELSE Contexts(g, g.prior[k])
Rights(g, k) == IF g.phone[k] \in Fillers THEN {SIL} ELSE Contexts(g, g.next[k])
Copy(k, l, r) == [slot |-> k, left |-> l, right |-> r]
CopiesOf(g, k) == {Copy(k, a[1], a[2]) : a \in Lefts(g, k) \X Rights(g, k)}

\* The copies of one slot, each once.
CopyRow(g, k) ==
  IF g.phone[k] \in Fillers
  THEN <<[slot |-> k, left |-> SIL, right |-> SIL]>>
  ELSE LET lefts  == DistinctContexts(g, g.prior[k])
           rights == DistinctContexts(g, g.next[k])
       IN  [c \in 1 .. Len(lefts) * Len(rights) |->
              [slot  |-> k,
               left  |-> lefts[1 + ((c - 1) \div Len(rights))],
               right |-> rights[1 + ((c - 1) % Len(rights))]]]

LEMMA CopyRowLists ==
    ASSUME NEW g, NEW n, Layered(g, n), NEW k \in 1 .. n
    PROVE  Lists(CopyRow(g, k), CopiesOf(g, k))
  <1>1. CASE g.phone[k] \in Fillers
    <2>1. Lefts(g, k) = {SIL} /\ Rights(g, k) = {SIL}
      BY <1>1 DEF Lefts, Rights
    <2>2. CopiesOf(g, k) = {Copy(k, SIL, SIL)} /\ CopyRow(g, k) = <<Copy(k, SIL, SIL)>>
      <3>1. CopyRow(g, k) = <<Copy(k, SIL, SIL)>>
        BY <1>1 DEF CopyRow, Copy
      <3>2. \A y : y \in CopiesOf(g, k) <=> y = Copy(k, SIL, SIL)
        <4> DEFINE b == <<SIL, SIL>>
        <4>1. Lefts(g, k) \X Rights(g, k) = {b} /\ b[1] = SIL /\ b[2] = SIL
          BY <2>1
        <4>2. CopiesOf(g, k) = {Copy(k, a[1], a[2]) : a \in {b}}
          BY <4>1 DEF CopiesOf
        <4> HIDE DEF b
        <4> QED
          BY <4>1, <4>2
      <3> QED
        BY <3>1, <3>2
    <2> DEFINE x == Copy(k, SIL, SIL)
    <2>3. Lists(<<x>>, {x})
      <3> HIDE DEF x
      <3> QED
        BY DEF Lists
    <2> QED
      BY <2>2, <2>3
  <1>2. CASE g.phone[k] \notin Fillers
    <2> DEFINE lefts  == DistinctContexts(g, g.prior[k])
               rights == DistinctContexts(g, g.next[k])
               l == Len(lefts)
               r == Len(rights)
               row == CopyRow(g, k)
    <2>1. g.prior[k] \in SUBSET (1 .. n) /\ g.next[k] \in SUBSET (1 .. n)
      BY DEF Layered
    <2>2. Lists(lefts, Lefts(g, k)) /\ Lists(rights, Rights(g, k))
      BY <1>2, <2>1, ContextsListed DEF Lefts, Rights
    <2>3. row = [c \in 1 .. l * r |-> Copy(k, lefts[Row(c, r)], rights[Column(c, r)])]
      BY <1>2 DEF CopyRow, Copy, Row, Column
    <2> HIDE DEF lefts, rights, row
    <2>4. /\ l \in Nat \ {0} /\ r \in Nat \ {0}
          /\ \A i \in 1 .. l : lefts[i] \in Lefts(g, k)
          /\ \A i \in 1 .. r : rights[i] \in Rights(g, k)
          /\ \A x \in Lefts(g, k) : \E i \in 1 .. l : lefts[i] = x
          /\ \A x \in Rights(g, k) : \E i \in 1 .. r : rights[i] = x
          /\ \A i, j \in 1 .. l : lefts[i] = lefts[j] => i = j
          /\ \A i, j \in 1 .. r : rights[i] = rights[j] => i = j
      BY <2>2, ElementOfSeq DEF Lists
    <2>5. l * r \in Nat \ {0}
      BY <2>4
    <2> HIDE DEF l, r
    <2>6. \A c \in 1 .. l * r : Row(c, r) \in 1 .. l /\ Column(c, r) \in 1 .. r
      BY <2>4, CellOfGrid
    <2>7. \A c \in 1 .. l * r : row[c] \in CopiesOf(g, k)
      <3>1. SUFFICES ASSUME NEW c \in 1 .. l * r PROVE row[c] \in CopiesOf(g, k)
        OBVIOUS
      <3>2. /\ row[c] = Copy(k, lefts[Row(c, r)], rights[Column(c, r)])
            /\ lefts[Row(c, r)] \in Lefts(g, k) /\ rights[Column(c, r)] \in Rights(g, k)
        BY <2>3, <2>4, <2>6
      <3> DEFINE a == <<lefts[Row(c, r)], rights[Column(c, r)]>>
      <3>3. a \in Lefts(g, k) \X Rights(g, k) /\ row[c] = Copy(k, a[1], a[2])
        BY <3>2
      <3> QED
        BY <3>3 DEF CopiesOf
    <2>8. row \in [1 .. l * r -> CopiesOf(g, k)]
      BY <2>3, <2>7
    <2>9. row \in Seq(CopiesOf(g, k)) /\ Len(row) = l * r
      BY <2>5, <2>8, AsSeq
    <2>10. ASSUME NEW x \in CopiesOf(g, k) PROVE \E c \in 1 .. l * r : row[c] = x
      <3>1. PICK a \in Lefts(g, k) \X Rights(g, k) : x = Copy(k, a[1], a[2])
        BY DEF CopiesOf
      <3>2. PICK i \in 1 .. l : lefts[i] = a[1]
        BY <2>4
      <3>3. PICK j \in 1 .. r : rights[j] = a[2]
        BY <2>4
      <3>4. PICK c \in 1 .. l * r : Row(c, r) = i /\ Column(c, r) = j
        <4>1. HasCell(l, r, i, j)
          BY <2>4, GridHasCell
        <4> QED
          BY <4>1 DEF HasCell
      <3> QED
        BY <2>3, <3>1, <3>2, <3>3, <3>4
    <2>11. ASSUME NEW c \in 1 .. l * r, NEW d \in 1 .. l * r, row[c] = row[d] PROVE c = d
      <3>1. /\ row[c] = Copy(k, lefts[Row(c, r)], rights[Column(c, r)])
            /\ row[d] = Copy(k, lefts[Row(d, r)], rights[Column(d, r)])
        BY <2>3
      <3>2. /\ lefts[Row(c, r)] = lefts[Row(d, r)]
            /\ rights[Column(c, r)] = rights[Column(d, r)]
        <4>1. row[c].left = lefts[Row(c, r)] /\ row[c].right = rights[Column(c, r)]
          BY <3>1 DEF Copy
        <4>2. row[d].left = lefts[Row(d, r)] /\ row[d].right = rights[Column(d, r)]
          BY <3>1 DEF Copy
        <4> QED
          BY <2>11, <4>1, <4>2
      <3>3. Row(c, r) = Row(d, r) /\ Column(c, r) = Column(d, r)
        BY <2>4, <2>6, <3>2
      <3> QED
        BY <2>4, <3>3, CellIsOwn
    <2>12. Lists(row, CopiesOf(g, k))
      BY <2>5, <2>9, <2>10, <2>11 DEF Lists
    <2> QED
      BY <2>12 DEF row
  <1> QED
    BY <1>1, <1>2

\* What the copies of a graph's slots are, in the order of the slots.
Classified(g, n, copies) ==
  /\ Len(copies) \in Nat /\ copies \in Seq([slot : 1 .. n, left : Phones, right : Phones])
  /\ \A c \in 1 .. Len(copies) : copies[c] \in CopiesOf(g, copies[c].slot)
  /\ \A k \in 1 .. n : \A x \in CopiesOf(g, k) : \E c \in 1 .. Len(copies) : copies[c] = x
  /\ \A c, d \in 1 .. Len(copies) : copies[c] = copies[d] => c = d
  /\ \A c, d \in 1 .. Len(copies) : c < d => copies[c].slot <= copies[d].slot

LEMMA CopyTypes ==
    ASSUME NEW g, NEW n, Layered(g, n), NEW k \in 1 .. n, NEW x \in CopiesOf(g, k)
    PROVE  /\ x = [slot |-> x.slot, left |-> x.left, right |-> x.right]
           /\ x.slot = k /\ x.left \in Lefts(g, k) /\ x.right \in Rights(g, k)
           /\ x.left \in Phones /\ x.right \in Phones
  <1>1. PICK a \in Lefts(g, k) \X Rights(g, k) : x = Copy(k, a[1], a[2])
    BY DEF CopiesOf
  <1>2. /\ x.slot = k /\ x.left \in Lefts(g, k) /\ x.right \in Rights(g, k)
        /\ x = [slot |-> x.slot, left |-> x.left, right |-> x.right]
    BY <1>1 DEF Copy
  <1>3. \A N \in SUBSET (1 .. n) : Contexts(g, N) \subseteq Phones
    <2>1. SIL \in Phones /\ \A j \in 1 .. n : ContextPhone(g.phone[j]) \in Phones
      BY PhonesAssumption DEF Layered, ContextPhone
    <2> QED
      BY <2>1 DEF Contexts
  <1>4. g.prior[k] \in SUBSET (1 .. n) /\ g.next[k] \in SUBSET (1 .. n) /\ SIL \in Phones
    BY PhonesAssumption DEF Layered
  <1>5. Lefts(g, k) \subseteq Phones /\ Rights(g, k) \subseteq Phones
    BY <1>3, <1>4 DEF Lefts, Rights
  <1> QED
    BY <1>2, <1>5

LEMMA SlotsClassified ==
    ASSUME NEW g, NEW n, Layered(g, n)
    PROVE  Classified(g, n, ClassifySlots(g))
  <1> DEFINE T == [slot : 1 .. n, left : Phones, right : Phones]
             ss == [k \in 1 .. n |-> CopyRow(g, k)]
             len == [k \in 1 .. n |-> Len(ss[k])]
             flat == FlattenSeq(ss)
  <1>1. n \in Nat /\ DOMAIN g.phone = 1 .. n
    BY DEF Layered
  <1>2. \A k \in 1 .. n : Lists(CopyRow(g, k), CopiesOf(g, k))
    BY CopyRowLists
  <1>3. \A k \in 1 .. n : CopiesOf(g, k) \subseteq T
    <2>1. SUFFICES ASSUME NEW k \in 1 .. n, NEW x \in CopiesOf(g, k) PROVE x \in T
      OBVIOUS
    <2> QED
      BY CopyTypes
  <1>4. \A k \in 1 .. n : CopyRow(g, k) \in Seq(T)
    <2>1. SUFFICES ASSUME NEW k \in 1 .. n PROVE CopyRow(g, k) \in Seq(T)
      OBVIOUS
    <2>2. CopyRow(g, k) \in Seq(CopiesOf(g, k)) /\ CopiesOf(g, k) \subseteq T
      BY <1>2, <1>3 DEF Lists
    <2> HIDE DEF T
    <2> QED
      BY <2>2, SeqMonotonic
  <1> HIDE DEF T
  <1>5. ss \in [1 .. n -> Seq(T)]
    BY <1>4
  <1>6. Rows(ss, T) /\ Len(ss) = n /\ \A k \in 1 .. n : ss[k] = CopyRow(g, k)
    BY <1>1, <1>5, AsSeq DEF Rows
  <1>7. ClassifySlots(g) = flat
    BY <1>1 DEF ClassifySlots, CopyRow
  <1> HIDE DEF ss
  <1>8. flat \in Seq(T) /\ \E off : Offsets(off, ss, flat)
    BY <1>6, FlattenOffsets DEF Rows
  <1>9. PICK off : Offsets(off, ss, flat)
    BY <1>8
  <1>10. /\ Ranks(off, len, n) /\ Len(flat) = off[n]
         /\ \A k \in 1 .. n : \A p \in 1 .. len[k] : flat[off[k - 1] + p] = ss[k][p]
    BY <1>6, <1>9 DEF Offsets
  <1>11. len \in [1 .. n -> Nat] /\ \A k \in 1 .. n : len[k] = Len(CopyRow(g, k))
    BY <1>6, Lengths DEF Rows
  <1> HIDE DEF len, flat
  <1>12. Tiled(off, len, n)
    BY <1>1, <1>10, <1>11, Places
  <1> DEFINE At(c, k, p) == /\ k \in 1 .. n /\ p \in 1 .. len[k] /\ c = off[k - 1] + p
                            /\ flat[c] = CopyRow(g, k)[p] /\ flat[c] \in CopiesOf(g, k)
                            /\ flat[c].slot = k
  <1>13. ASSUME NEW k \in 1 .. n, NEW p \in 1 .. len[k]
         PROVE  off[k - 1] + p \in 1 .. Len(flat) /\ At(off[k - 1] + p, k, p)
    <2>1. off[k - 1] + p \in 1 .. Len(flat)
      BY <1>1, <1>10, <1>11, PlaceIsOwn
    <2>2. flat[off[k - 1] + p] = CopyRow(g, k)[p]
      BY <1>6, <1>10
    <2>3. CopyRow(g, k)[p] \in CopiesOf(g, k)
      <3>1. p \in 1 .. Len(CopyRow(g, k)) /\ CopyRow(g, k) \in Seq(CopiesOf(g, k))
        BY <1>2, <1>11 DEF Lists
      <3> QED
        BY <3>1, ElementOfSeq
    <2>4. CopyRow(g, k)[p].slot = k
      BY <2>3, CopyTypes
    <2> QED
      BY <2>1, <2>2, <2>3, <2>4
  <1>14. ASSUME NEW c \in 1 .. Len(flat)
         PROVE  \E k \in 1 .. n : \E p \in 1 .. len[k] : At(c, k, p)
    <2>1. PICK k \in 1 .. n : \E p \in 1 .. len[k] : c = off[k - 1] + p
      BY <1>10, <1>12 DEF Tiled
    <2>2. PICK p \in 1 .. len[k] : c = off[k - 1] + p
      BY <2>1
    <2>3. At(off[k - 1] + p, k, p)
      BY <1>13
    <2> HIDE DEF At
    <2> QED
      BY <2>2, <2>3
  <1>15. ASSUME NEW c \in 1 .. Len(flat), NEW d \in 1 .. Len(flat), flat[c] = flat[d]
         PROVE  c = d
    <2>1. PICK k \in 1 .. n : \E p \in 1 .. len[k] : At(c, k, p)
      BY <1>14
    <2>2. PICK p \in 1 .. len[k] : At(c, k, p)
      BY <2>1
    <2>3. PICK j \in 1 .. n : \E q \in 1 .. len[j] : At(d, j, q)
      BY <1>14
    <2>4. PICK q \in 1 .. len[j] : At(d, j, q)
      BY <2>3
    <2>5. k = j /\ CopyRow(g, k)[p] = CopyRow(g, k)[q]
      BY <1>15, <2>2, <2>4
    <2>6. p \in 1 .. Len(CopyRow(g, k)) /\ q \in 1 .. Len(CopyRow(g, k))
      BY <1>11, <2>5
    <2>7. p = q
      BY <1>2, <2>5, <2>6 DEF Lists
    <2> QED
      BY <2>2, <2>4, <2>5, <2>7
  <1>16. ASSUME NEW c \in 1 .. Len(flat), NEW d \in 1 .. Len(flat), c < d
         PROVE  flat[c].slot <= flat[d].slot
    <2>1. PICK k \in 1 .. n : \E p \in 1 .. len[k] : At(c, k, p)
      BY <1>14
    <2>2. PICK p \in 1 .. len[k] : At(c, k, p)
      BY <2>1
    <2>3. PICK j \in 1 .. n : \E q \in 1 .. len[j] : At(d, j, q)
      BY <1>14
    <2>4. PICK q \in 1 .. len[j] : At(d, j, q)
      BY <2>3
    <2>5. j < k => d < c
      BY <1>1, <1>10, <1>11, <2>2, <2>4, EarlierPart
    <2>6. j \in Nat /\ k \in Nat /\ c \in Nat /\ d \in Nat
      BY <1>1
    <2> QED
      BY <1>16, <2>2, <2>4, <2>5, <2>6
  <1>17. ASSUME NEW k \in 1 .. n, NEW x \in CopiesOf(g, k)
         PROVE  \E c \in 1 .. Len(flat) : flat[c] = x
    <2>1. PICK p \in 1 .. Len(CopyRow(g, k)) : CopyRow(g, k)[p] = x
      BY <1>2 DEF Lists
    <2>2. p \in 1 .. len[k]
      BY <1>11
    <2>3. off[k - 1] + p \in 1 .. Len(flat) /\ flat[off[k - 1] + p] = CopyRow(g, k)[p]
      BY <1>13, <2>2
    <2> QED
      BY <2>1, <2>3
  <1>18. \A c \in 1 .. Len(flat) : flat[c] \in CopiesOf(g, flat[c].slot)
    <2>1. SUFFICES ASSUME NEW c \in 1 .. Len(flat) PROVE flat[c] \in CopiesOf(g, flat[c].slot)
      OBVIOUS
    <2>2. PICK k \in 1 .. n : \E p \in 1 .. len[k] : At(c, k, p)
      BY <1>14
    <2> QED
      BY <2>2
  <1>19. Len(flat) \in Nat
    BY <1>8
  <1> HIDE DEF At
  <1>20. Classified(g, n, flat)
    BY <1>8, <1>15, <1>16, <1>17, <1>18, <1>19 DEF Classified, T
  <1> QED
    BY <1>7, <1>20

-----------------------------------------------------------------------------
(* The split graph is layered.                                             *)

LEMMA ClassifiedTypes ==
    ASSUME NEW g, NEW n, NEW copies, Classified(g, n, copies)
    PROVE  /\ Len(copies) \in Nat
           /\ \A c \in 1 .. Len(copies) : copies[c].slot \in 1 .. n
  <1> DEFINE T == [slot : 1 .. n, left : Phones, right : Phones]
  <1>1. Len(copies) \in Nat /\ copies \in Seq(T)
    BY DEF Classified
  <1>2. \A x \in T : x.slot \in 1 .. n
    OBVIOUS
  <1> HIDE DEF T
  <1> QED
    BY <1>1, <1>2, ElementOfSeq

LEMMA RoomForOneMore ==
    ASSUME NEW n \in Nat, NEW a \in 1 .. n, NEW b \in 1 .. n, ~(a <= b + 1)
    PROVE  b + 1 \in 1 .. n
  OBVIOUS

\* A graph in which no slot was split keeps its slots' numbers.
LEMMA UnsplitSlots ==
    ASSUME NEW g, NEW n, Layered(g, n), NEW copies, Classified(g, n, copies),
           Len(copies) = n, NEW k \in 1 .. n
    PROVE  copies[k].slot = k
  <1> DEFINE slot(c) == copies[c].slot
  <1>1. n \in Nat /\ \A c \in 1 .. n : slot(c) \in 1 .. n
    BY ClassifiedTypes DEF Layered
  <1>2. \A c, d \in 1 .. n : c <= d => slot(c) <= slot(d)
    <2>1. SUFFICES ASSUME NEW c \in 1 .. n, NEW d \in 1 .. n, c <= d PROVE slot(c) <= slot(d)
      OBVIOUS
    <2>2. CASE c = d
      BY <1>1, <2>2
    <2>3. CASE c # d
      <3>1. c < d
        BY <1>1, <2>1, <2>3
      <3> QED
        BY <3>1 DEF Classified
    <2> QED
      BY <2>2, <2>3
  <1>3. ASSUME NEW j \in 1 .. n PROVE \E c \in 1 .. n : slot(c) = j
    <2>1. CopiesOf(g, j) # {}
      <3>1. Lefts(g, j) # {} /\ Rights(g, j) # {}
        BY DEF Lefts, Rights, Contexts
      <3>2. PICK l \in Lefts(g, j), r \in Rights(g, j) : TRUE
        BY <3>1
      <3> DEFINE a == <<l, r>>
      <3>3. a \in Lefts(g, j) \X Rights(g, j)
        OBVIOUS
      <3> QED
        BY <3>3 DEF CopiesOf
    <2>2. PICK x \in CopiesOf(g, j) : TRUE
      BY <2>1
    <2>3. PICK c \in 1 .. n : copies[c] = x
      BY DEF Classified
    <2>4. x.slot = j
      BY CopyTypes
    <2> QED
      BY <2>3, <2>4
  <1> HIDE DEF slot
  <1> DEFINE P == {c \in 1 .. n : slot(c) <= c}
             Q == {c \in 1 .. n : c <= slot(c)}
  <1>4. ASSUME NEW c \in 1 .. n, c # 1 PROVE slot(c) <= slot(c - 1) + 1 /\ c - 1 \in 1 .. n
    <2>0. c - 1 \in 1 .. n /\ c \in Nat
      BY <1>1, <1>4
    <2>1. slot(c) \in 1 .. n /\ slot(c - 1) \in 1 .. n
      BY <1>1, <2>0
    <2>2. SUFFICES ASSUME ~(slot(c) <= slot(c - 1) + 1) PROVE FALSE
      BY <2>0
    <2>3. slot(c - 1) + 1 \in 1 .. n
      BY <1>1, <2>1, <2>2, RoomForOneMore
    <2>4. PICK e \in 1 .. n : slot(e) = slot(c - 1) + 1
      BY <1>3, <2>3
    <2>5. ~(e <= c - 1)
      <3>1. e <= c - 1 => slot(e) <= slot(c - 1)
        BY <1>2, <2>0
      <3> QED
        BY <2>1, <2>4, <3>1
    <2>6. ~(c <= e)
      <3>1. c <= e => slot(c) <= slot(e)
        BY <1>2
      <3> QED
        BY <2>1, <2>2, <2>4, <3>1
    <2> QED
      BY <2>0, <2>5, <2>6
  <1>5. 1 \in P /\ 1 \in 1 .. n
    <2>1. 1 \in 1 .. n
      BY <1>1
    <2>2. PICK c \in 1 .. n : slot(c) = 1
      BY <1>3, <2>1
    <2>3. slot(1) <= slot(c) /\ slot(1) \in 1 .. n
      BY <1>1, <1>2, <2>1
    <2> QED
      BY <2>1, <2>2, <2>3
  <1>6. ASSUME NEW c \in 2 .. n, c - 1 \in P PROVE c \in P
    <2>1. c \in 1 .. n /\ c # 1 /\ c - 1 \in 1 .. n /\ c \in Nat
      BY <1>1
    <2>2. slot(c) <= slot(c - 1) + 1 /\ slot(c - 1) <= c - 1
      BY <1>4, <1>6, <2>1
    <2>3. slot(c) \in Nat /\ slot(c - 1) \in Nat
      BY <1>1, <2>1
    <2> QED
      BY <2>1, <2>2, <2>3
  <1>7. n \in Q
    <2>1. n \in 1 .. n
      BY <1>1
    <2>2. PICK c \in 1 .. n : slot(c) = n
      BY <1>3, <2>1
    <2>3. slot(c) <= slot(n) /\ slot(n) \in 1 .. n
      BY <1>1, <1>2, <2>1
    <2> QED
      BY <2>1, <2>2, <2>3
  <1>8. ASSUME NEW c \in 1 .. n, \A d \in c + 1 .. n : d \in Q PROVE c \in Q
    <2>1. CASE c = n
      BY <1>7, <2>1
    <2>2. CASE c # n
      <3>1. c + 1 \in c + 1 .. n /\ c + 1 \in 1 .. n /\ c + 1 # 1 /\ (c + 1) - 1 = c /\ c \in Nat
        BY <1>1, <2>2
      <3>2. c + 1 <= slot(c + 1)
        BY <1>8, <3>1
      <3>3. slot(c + 1) <= slot(c) + 1
        <4> DEFINE e == c + 1
        <4>1. e \in 1 .. n /\ e # 1 /\ e - 1 = c
          BY <3>1
        <4> HIDE DEF e
        <4>2. slot(e) <= slot(e - 1) + 1
          BY <1>4, <4>1
        <4> QED
          BY <4>1, <4>2 DEF e
      <3>4. slot(c) \in Nat /\ slot(c + 1) \in Nat
        BY <1>1, <3>1
      <3> QED
        BY <3>1, <3>2, <3>3, <3>4
    <2> QED
      BY <2>1, <2>2
  <1> HIDE DEF P, Q
  <1>9. k \in P
    BY <1>1, <1>5, <1>6, UpFromOne
  <1>10. k \in Q
    BY <1>1, <1>8, Downwards
  <1>11. slot(k) <= k /\ k <= slot(k) /\ slot(k) \in Nat /\ k \in Nat
    BY <1>1, <1>9, <1>10 DEF P, Q
  <1>12. slot(k) = k
    BY <1>11
  <1> QED
    BY <1>12 DEF slot

\* What the split makes of a graph.
Split(h, g, copies) ==
  /\ h.phone = [c \in 1 .. Len(copies) |-> g.phone[copies[c].slot]]
  /\ h.next  = [c \in 1 .. Len(copies) |->
                  {d \in 1 .. Len(copies) : Joined(g, copies[c], copies[d])}]
  /\ h.prior = [c \in 1 .. Len(copies) |->
                  {d \in 1 .. Len(copies) : Joined(g, copies[d], copies[c])}]

LEMMA ContextsAreSplit ==
    ASSUME NEW g, NEW n, Layered(g, n)
    PROVE  LET copies == ClassifySlots(g) IN
           IF Len(copies) = n THEN SplitContexts(g) = g
           ELSE Split(SplitContexts(g), g, copies)
  <1> DEFINE copies == ClassifySlots(g)
  <1>1. Classified(g, n, copies)
    BY SlotsClassified
  <1>2. DOMAIN copies = 1 .. Len(copies)
    <2> HIDE DEF copies
    <2> QED
      BY <1>1, LenProperties DEF Classified
  <1>3. Len(g.phone) = n
    <2>1. g.phone \in [1 .. n -> Phones] /\ n \in Nat
      BY DEF Layered
    <2> QED
      BY <2>1, AsSeq
  <1>4. SplitContexts(g) =
          IF Len(copies) = n THEN g
          ELSE [phone |-> [c \in 1 .. Len(copies) |-> g.phone[copies[c].slot]],
                btw   |-> [c \in 1 .. Len(copies) |-> g.btw[copies[c].slot]],
                next  |-> [c \in 1 .. Len(copies) |->
                             {d \in 1 .. Len(copies) : Joined(g, copies[c], copies[d])}],
                prior |-> [c \in 1 .. Len(copies) |->
                             {d \in 1 .. Len(copies) : Joined(g, copies[d], copies[c])}]]
    BY <1>2, <1>3 DEF SplitContexts
  <1> HIDE DEF copies
  <1>5. IF Len(copies) = n THEN SplitContexts(g) = g ELSE Split(SplitContexts(g), g, copies)
    BY <1>4 DEF Split
  <1> QED
    BY <1>5 DEF copies

LEMMA SplitIsLayered ==
    ASSUME NEW g, NEW n, Layered(g, n), NEW copies, Classified(g, n, copies),
           NEW h, Split(h, g, copies)
    PROVE  /\ Layered(h, Len(copies))
           /\ \A c, d \in 1 .. Len(copies) :
                d \in h.next[c] <=> Joined(g, copies[c], copies[d])
  <1> DEFINE m == Len(copies)
  <1>1. /\ m \in Nat /\ \A c \in 1 .. m : copies[c].slot \in 1 .. n
        /\ \A c, d \in 1 .. m : c < d => copies[c].slot <= copies[d].slot
    BY ClassifiedTypes DEF Classified
  <1>2. /\ h.phone = [c \in 1 .. m |-> g.phone[copies[c].slot]]
        /\ h.next  = [c \in 1 .. m |-> {d \in 1 .. m : Joined(g, copies[c], copies[d])}]
        /\ h.prior = [c \in 1 .. m |-> {d \in 1 .. m : Joined(g, copies[d], copies[c])}]
    BY DEF Split
  <1>3. /\ n \in Nat /\ g.phone \in [1 .. n -> Phones]
        /\ g.next \in [1 .. n -> SUBSET (1 .. n)] /\ g.prior \in [1 .. n -> SUBSET (1 .. n)]
        /\ \A k, j \in 1 .. n : j \in g.next[k] <=> k \in g.prior[j]
        /\ \A k \in 1 .. n : \A j \in g.next[k] : k < j
    BY DEF Layered
  <1> HIDE DEF m
  <1>4. h.phone \in [1 .. m -> Phones]
    BY <1>1, <1>2, <1>3
  <1>5. \A c, d \in 1 .. m : /\ d \in h.next[c] <=> Joined(g, copies[c], copies[d])
                             /\ c \in h.prior[d] <=> Joined(g, copies[c], copies[d])
    BY <1>2
  <1>6. h.next \in [1 .. m -> SUBSET (1 .. m)] /\ h.prior \in [1 .. m -> SUBSET (1 .. m)]
    BY <1>2
  <1>7. ASSUME NEW c \in 1 .. m, NEW d \in h.next[c] PROVE c < d
    <2>1. d \in 1 .. m
      BY <1>6
    <2>2. copies[c].slot \in g.prior[copies[d].slot]
      BY <1>5, <2>1 DEF Joined
    <2>3. copies[c].slot < copies[d].slot
      BY <1>1, <1>3, <2>1, <2>2
    <2>4. copies[c].slot \in Nat /\ copies[d].slot \in Nat /\ c \in Nat /\ d \in Nat
      BY <1>1, <1>3, <2>1
    <2>5. ~(d < c) /\ d # c
      BY <1>1, <2>1, <2>3, <2>4
    <2> QED
      BY <2>4, <2>5
  <1>8. Layered(h, m)
    BY <1>1, <1>4, <1>5, <1>6, <1>7 DEF Layered
  <1> QED
    BY <1>5, <1>8 DEF m

-----------------------------------------------------------------------------
(* The ways of both graphs match.                                          *)

\* The copies of a slot that can stand before or after a given copy.
LEMMA JoinedAfter ==
    ASSUME NEW g, NEW n, Layered(g, n), NEW copies, Classified(g, n, copies),
           NEW c \in 1 .. Len(copies), g.next[copies[c].slot] # {}
    PROVE  \E d \in 1 .. Len(copies) : Joined(g, copies[c], copies[d])
  <1> DEFINE a == copies[c]
             k == a.slot
  <1>1. /\ k \in 1 .. n /\ a \in CopiesOf(g, k)
        /\ g.next \in [1 .. n -> SUBSET (1 .. n)]
        /\ \A i, j \in 1 .. n : j \in g.next[i] <=> i \in g.prior[j]
    BY ClassifiedTypes DEF Classified, Layered
  <1>2. PICK j \in g.next[k] : g.phone[k] \notin Fillers => a.right = ContextPhone(g.phone[j])
    <2>1. CASE g.phone[k] \in Fillers
      BY <2>1
    <2>2. CASE g.phone[k] \notin Fillers
      <3>1. a.right \in Rights(g, k)
        BY <1>1, CopyTypes
      <3>2. a.right \in {ContextPhone(g.phone[j]) : j \in g.next[k]}
        BY <2>2, <3>1 DEF Rights, Contexts
      <3> QED
        BY <3>2
    <2> QED
      BY <2>1, <2>2
  <1>3. j \in 1 .. n /\ k \in g.prior[j]
    BY <1>1
  <1> DEFINE l == IF g.phone[j] \in Fillers THEN SIL ELSE ContextPhone(g.phone[k])
  <1>4. l \in Lefts(g, j)
    BY <1>3 DEF Lefts, Contexts
  <1>5. PICK r \in Rights(g, j) : TRUE
    BY DEF Rights, Contexts
  <1>6. Copy(j, l, r) \in CopiesOf(g, j)
    <2> DEFINE e == <<l, r>>
    <2>1. e \in Lefts(g, j) \X Rights(g, j) /\ e[1] = l /\ e[2] = r
      BY <1>4, <1>5
    <2> HIDE DEF l, e
    <2> QED
      BY <2>1 DEF CopiesOf
  <1>7. PICK d \in 1 .. Len(copies) : copies[d] = Copy(j, l, r)
    BY <1>3, <1>6 DEF Classified
  <1>8. copies[d].slot = j /\ copies[d].left = l
    BY <1>7 DEF Copy
  <1>9. Joined(g, a, copies[d])
    BY <1>2, <1>3, <1>8 DEF Joined
  <1> QED
    BY <1>9

LEMMA JoinedBefore ==
    ASSUME NEW g, NEW n, Layered(g, n), NEW copies, Classified(g, n, copies),
           NEW d \in 1 .. Len(copies), g.prior[copies[d].slot] # {}
    PROVE  \E c \in 1 .. Len(copies) : Joined(g, copies[c], copies[d])
  <1> DEFINE b == copies[d]
             k == b.slot
  <1>1. /\ k \in 1 .. n /\ b \in CopiesOf(g, k)
        /\ g.prior \in [1 .. n -> SUBSET (1 .. n)]
        /\ \A i, j \in 1 .. n : j \in g.next[i] <=> i \in g.prior[j]
    BY ClassifiedTypes DEF Classified, Layered
  <1>2. PICK j \in g.prior[k] : g.phone[k] \notin Fillers => b.left = ContextPhone(g.phone[j])
    <2>1. CASE g.phone[k] \in Fillers
      BY <2>1
    <2>2. CASE g.phone[k] \notin Fillers
      <3>1. b.left \in Lefts(g, k)
        BY <1>1, CopyTypes
      <3>2. b.left \in {ContextPhone(g.phone[j]) : j \in g.prior[k]}
        BY <2>2, <3>1 DEF Lefts, Contexts
      <3> QED
        BY <3>2
    <2> QED
      BY <2>1, <2>2
  <1>3. j \in 1 .. n /\ k \in g.next[j]
    BY <1>1
  <1> DEFINE r == IF g.phone[j] \in Fillers THEN SIL ELSE ContextPhone(g.phone[k])
  <1>4. r \in Rights(g, j)
    BY <1>3 DEF Rights, Contexts
  <1>5. PICK l \in Lefts(g, j) : TRUE
    BY DEF Lefts, Contexts
  <1>6. Copy(j, l, r) \in CopiesOf(g, j)
    <2> DEFINE e == <<l, r>>
    <2>1. e \in Lefts(g, j) \X Rights(g, j) /\ e[1] = l /\ e[2] = r
      BY <1>4, <1>5
    <2> HIDE DEF r, e
    <2> QED
      BY <2>1 DEF CopiesOf
  <1>7. PICK c \in 1 .. Len(copies) : copies[c] = Copy(j, l, r)
    BY <1>3, <1>6 DEF Classified
  <1>8. copies[c].slot = j /\ copies[c].right = r
    BY <1>7 DEF Copy
  <1>9. Joined(g, copies[c], b)
    BY <1>2, <1>3, <1>8 DEF Joined
  <1> QED
    BY <1>9

\* What a way is, in elements.
LEMMA WayParts ==
    ASSUME NEW g, NEW n, NEW p
    PROVE  p \in Ways(g, n) <=>
             /\ p \in Seq(1 .. n) /\ Len(p) # 0 /\ g.prior[p[1]] = {}
             /\ \A i \in 1 .. Len(p) - 1 : p[i + 1] \in g.next[p[i]]
             /\ g.next[p[Len(p)]] = {}
  BY DEF Ways, Onward

\* The copy of the slot at place i of a way that fits its neighbours on it.
Wanted(g, p, i) ==
  Copy(p[i],
       IF g.phone[p[i]] \in Fillers \/ i = 1 THEN SIL ELSE ContextPhone(g.phone[p[i - 1]]),
       IF g.phone[p[i]] \in Fillers \/ i = Len(p) THEN SIL ELSE ContextPhone(g.phone[p[i + 1]]))

LEMMA WantedIsCopy ==
    ASSUME NEW g, NEW n, Layered(g, n), NEW p \in Ways(g, n), NEW i \in 1 .. Len(p)
    PROVE  p[i] \in 1 .. n /\ Wanted(g, p, i) \in CopiesOf(g, p[i])
  <1>1. /\ p \in Seq(1 .. n) /\ Len(p) # 0 /\ g.prior[p[1]] = {}
        /\ \A j \in 1 .. Len(p) - 1 : p[j + 1] \in g.next[p[j]]
        /\ g.next[p[Len(p)]] = {}
    BY WayParts
  <1>2. Len(p) \in Nat /\ p[i] \in 1 .. n
    BY <1>1, ElementOfSeq, LenProperties
  <1> DEFINE l == IF g.phone[p[i]] \in Fillers \/ i = 1 THEN SIL ELSE ContextPhone(g.phone[p[i - 1]])
             r == IF g.phone[p[i]] \in Fillers \/ i = Len(p) THEN SIL ELSE ContextPhone(g.phone[p[i + 1]])
  <1>3. l \in Lefts(g, p[i])
    <2>1. CASE g.phone[p[i]] \in Fillers \/ i = 1
      BY <1>1, <2>1 DEF Lefts, Contexts
    <2>2. CASE ~(g.phone[p[i]] \in Fillers \/ i = 1)
      <3>1. i - 1 \in 1 .. Len(p) - 1 /\ i - 1 \in 1 .. Len(p) /\ (i - 1) + 1 = i
        BY <1>2, <2>2
      <3>2. p[i - 1] \in 1 .. n /\ p[(i - 1) + 1] \in g.next[p[i - 1]]
        BY <1>1, <3>1, ElementOfSeq
      <3>3. p[i - 1] \in g.prior[p[i]]
        BY <1>2, <3>1, <3>2 DEF Layered
      <3> QED
        BY <2>2, <3>3 DEF Lefts, Contexts
    <2> QED
      BY <2>1, <2>2
  <1>4. r \in Rights(g, p[i])
    <2>1. CASE g.phone[p[i]] \in Fillers \/ i = Len(p)
      BY <1>1, <2>1 DEF Rights, Contexts
    <2>2. CASE ~(g.phone[p[i]] \in Fillers \/ i = Len(p))
      <3>1. i \in 1 .. Len(p) - 1
        BY <1>2, <2>2
      <3>2. p[i + 1] \in g.next[p[i]]
        BY <1>1, <3>1
      <3> QED
        BY <2>2, <3>2 DEF Rights, Contexts
    <2> QED
      BY <2>1, <2>2
  <1> DEFINE e == <<l, r>>
  <1>5. e \in Lefts(g, p[i]) \X Rights(g, p[i]) /\ e[1] = l /\ e[2] = r
    BY <1>3, <1>4
  <1>6. Wanted(g, p, i) = Copy(p[i], l, r)
    BY DEF Wanted
  <1> HIDE DEF l, r, e
  <1> QED
    BY <1>2, <1>5, <1>6 DEF CopiesOf

LEMMA WantedJoin ==
    ASSUME NEW g, NEW n, Layered(g, n), NEW p \in Ways(g, n), NEW i \in 1 .. Len(p) - 1
    PROVE  Joined(g, Wanted(g, p, i), Wanted(g, p, i + 1))
  <1>1. /\ p \in Seq(1 .. n)
        /\ \A j \in 1 .. Len(p) - 1 : p[j + 1] \in g.next[p[j]]
    BY WayParts
  <1>2. Len(p) \in Nat
    BY <1>1, LenProperties
  <1>3. i \in 1 .. Len(p) /\ i + 1 \in 1 .. Len(p) /\ i # Len(p) /\ i + 1 # 1 /\ (i + 1) - 1 = i
    BY <1>2
  <1>4. p[i] \in 1 .. n /\ p[i + 1] \in 1 .. n
    BY <1>1, <1>3, ElementOfSeq
  <1>5. p[i] \in g.prior[p[i + 1]]
    BY <1>1, <1>4 DEF Layered
  <1>6. /\ Wanted(g, p, i).slot = p[i] /\ Wanted(g, p, i + 1).slot = p[i + 1]
        /\ g.phone[p[i]] \notin Fillers =>
             Wanted(g, p, i).right = ContextPhone(g.phone[p[i + 1]])
        /\ g.phone[p[i + 1]] \notin Fillers =>
             Wanted(g, p, i + 1).left = ContextPhone(g.phone[p[i]])
    BY <1>3 DEF Wanted, Copy
  <1> QED
    BY <1>5, <1>6 DEF Joined

\* A way through the copies, with every copy replaced by its slot.
Lowered(q, copies) == [i \in DOMAIN q |-> copies[q[i]].slot]

\* It is a way through the slots, and there is only one for each of those.
LEMMA LoweredIsWay ==
    ASSUME NEW g, NEW n, Layered(g, n), NEW copies, Classified(g, n, copies),
           NEW h, Split(h, g, copies), NEW q \in Ways(h, Len(copies))
    PROVE  /\ Lowered(q, copies) \in Ways(g, n) /\ Len(Lowered(q, copies)) = Len(q)
           /\ \A i \in 1 .. Len(q) : copies[q[i]] = Wanted(g, Lowered(q, copies), i)
  <1> DEFINE m == Len(copies)
             p == Lowered(q, copies)
             L == Len(q)
  <1>1. /\ q \in Seq(1 .. m) /\ L # 0 /\ h.prior[q[1]] = {}
        /\ \A i \in 1 .. L - 1 : q[i + 1] \in h.next[q[i]]
        /\ h.next[q[L]] = {}
    BY WayParts
  <1>2. /\ L \in Nat /\ DOMAIN q = 1 .. L /\ \A i \in 1 .. L : q[i] \in 1 .. m
        /\ 1 \in 1 .. L /\ L \in 1 .. L
    <2>1. L \in Nat /\ DOMAIN q = 1 .. L /\ \A i \in 1 .. L : q[i] \in 1 .. m
      BY <1>1, LenProperties, ElementOfSeq
    <2> QED
      BY <1>1, <2>1
  <1>3. p = [i \in 1 .. L |-> copies[q[i]].slot]
    BY <1>2 DEF Lowered
  <1> HIDE DEF p, L
  <1>4. /\ \A c \in 1 .. m : copies[c].slot \in 1 .. n
        /\ \A c, d \in 1 .. m : d \in h.next[c] <=> Joined(g, copies[c], copies[d])
        /\ \A c, d \in 1 .. m : d \in h.next[c] <=> c \in h.prior[d]
    BY ClassifiedTypes, SplitIsLayered DEF Layered
  <1> HIDE DEF m
  <1>5. p \in [1 .. L -> 1 .. n]
    BY <1>2, <1>3, <1>4
  <1>6. p \in Seq(1 .. n) /\ Len(p) = L
    BY <1>2, <1>5, AsSeq
  <1>7. \A i \in 1 .. L : p[i] = copies[q[i]].slot
    BY <1>3
  <1>8. ASSUME NEW i \in 1 .. L - 1
        PROVE  i \in 1 .. L /\ i + 1 \in 1 .. L /\ Joined(g, copies[q[i]], copies[q[i + 1]])
    <2>1. i \in 1 .. L /\ i + 1 \in 1 .. L
      BY <1>2
    <2> QED
      BY <1>1, <1>2, <1>4, <2>1
  <1>9. ASSUME NEW i \in 1 .. L - 1 PROVE p[i + 1] \in g.next[p[i]]
    <2>1. p[i] \in g.prior[p[i + 1]] /\ p[i] \in 1 .. n /\ p[i + 1] \in 1 .. n
      BY <1>5, <1>7, <1>8 DEF Joined
    <2> QED
      BY <2>1 DEF Layered
  <1>10. g.prior[p[1]] = {}
    <2>1. SUFFICES ASSUME g.prior[copies[q[1]].slot] # {} PROVE FALSE
      BY <1>2, <1>7
    <2>2. PICK c \in 1 .. m : Joined(g, copies[c], copies[q[1]])
      BY <1>2, <2>1, JoinedBefore DEF m
    <2>3. c \in h.prior[q[1]]
      BY <1>2, <1>4, <2>2
    <2> QED
      BY <1>1, <2>3
  <1>11. g.next[p[L]] = {}
    <2>1. SUFFICES ASSUME g.next[copies[q[L]].slot] # {} PROVE FALSE
      BY <1>2, <1>7
    <2>2. PICK d \in 1 .. m : Joined(g, copies[q[L]], copies[d])
      BY <1>2, <2>1, JoinedAfter DEF m
    <2>3. d \in h.next[q[L]]
      BY <1>2, <1>4, <2>2
    <2> QED
      BY <1>1, <2>3
  <1>12. p \in Ways(g, n)
    BY <1>1, <1>6, <1>9, <1>10, <1>11, WayParts
  <1>13. ASSUME NEW i \in 1 .. L PROVE copies[q[i]] = Wanted(g, p, i)
    <2> DEFINE a == copies[q[i]]
               k == p[i]
    <2>1. k \in 1 .. n /\ a \in CopiesOf(g, k) /\ a.slot = k
      <3>1. q[i] \in 1 .. Len(copies)
        BY <1>2 DEF m
      <3> QED
        BY <1>5, <1>7, <3>1 DEF Classified
    <2>2. /\ a = Copy(k, a.left, a.right) /\ a.left \in Lefts(g, k) /\ a.right \in Rights(g, k)
      BY <2>1, CopyTypes DEF Copy
    <2>3. a.left = IF g.phone[k] \in Fillers \/ i = 1 THEN SIL ELSE ContextPhone(g.phone[p[i - 1]])
      <3>1. CASE g.phone[k] \in Fillers
        BY <2>2, <3>1 DEF Lefts
      <3>2. CASE g.phone[k] \notin Fillers /\ i = 1
        BY <1>10, <2>2, <3>2 DEF Lefts, Contexts
      <3>3. CASE g.phone[k] \notin Fillers /\ i # 1
        <4>1. i - 1 \in 1 .. L - 1 /\ i - 1 \in 1 .. L /\ (i - 1) + 1 = i
          BY <1>2, <3>3
        <4>2. Joined(g, copies[q[i - 1]], copies[q[(i - 1) + 1]])
          BY <1>8, <4>1
        <4>3. p[i - 1] = copies[q[i - 1]].slot
          BY <1>7, <4>1
        <4> QED
          BY <2>1, <3>3, <4>1, <4>2, <4>3 DEF Joined
      <3> QED
        BY <3>1, <3>2, <3>3
    <2>4. a.right = IF g.phone[k] \in Fillers \/ i = L THEN SIL ELSE ContextPhone(g.phone[p[i + 1]])
      <3>1. CASE g.phone[k] \in Fillers
        BY <2>2, <3>1 DEF Rights
      <3>2. CASE g.phone[k] \notin Fillers /\ i = L
        BY <1>11, <2>2, <3>2 DEF Rights, Contexts
      <3>3. CASE g.phone[k] \notin Fillers /\ i # L
        <4>1. i \in 1 .. L - 1 /\ i + 1 \in 1 .. L
          BY <1>2, <3>3
        <4>2. Joined(g, copies[q[i]], copies[q[i + 1]])
          BY <1>8, <4>1
        <4>3. p[i + 1] = copies[q[i + 1]].slot
          BY <1>7, <4>1
        <4> QED
          BY <2>1, <3>3, <4>1, <4>2, <4>3 DEF Joined
      <3> QED
        BY <3>1, <3>2, <3>3
    <2> HIDE DEF a
    <2> QED
      BY <1>6, <2>2, <2>3, <2>4 DEF Wanted, a
  <1> QED
    BY <1>6, <1>12, <1>13 DEF p, L

LEMMA WayIsLowered ==
    ASSUME NEW g, NEW n, Layered(g, n), NEW copies, Classified(g, n, copies),
           NEW h, Split(h, g, copies), NEW p \in Ways(g, n)
    PROVE  \E q \in Ways(h, Len(copies)) : Lowered(q, copies) = p
  <1> DEFINE m == Len(copies)
             L == Len(p)
             q == [i \in 1 .. L |-> CHOOSE c \in 1 .. m : copies[c] = Wanted(g, p, i)]
  <1>1. /\ p \in Seq(1 .. n) /\ L # 0 /\ g.prior[p[1]] = {}
        /\ \A i \in 1 .. L - 1 : p[i + 1] \in g.next[p[i]]
        /\ g.next[p[L]] = {}
    BY WayParts
  <1>2. L \in Nat /\ DOMAIN p = 1 .. L /\ 1 \in 1 .. L /\ L \in 1 .. L
    <2>1. L \in Nat /\ DOMAIN p = 1 .. L
      BY <1>1, LenProperties
    <2> QED
      BY <1>1, <2>1
  <1>3. ASSUME NEW i \in 1 .. L PROVE q[i] \in 1 .. m /\ copies[q[i]] = Wanted(g, p, i)
    <2>1. p[i] \in 1 .. n /\ Wanted(g, p, i) \in CopiesOf(g, p[i])
      BY WantedIsCopy
    <2>2. \E c \in 1 .. m : copies[c] = Wanted(g, p, i)
      BY <2>1 DEF Classified
    <2> QED
      BY <2>2
  <1>d. q = [i \in 1 .. L |-> q[i]]
    OBVIOUS
  <1>s. /\ \A c \in 1 .. m : copies[c].slot \in 1 .. n
        /\ \A c, d \in 1 .. m : d \in h.next[c] <=> Joined(g, copies[c], copies[d])
        /\ h.next \in [1 .. m -> SUBSET (1 .. m)] /\ h.prior \in [1 .. m -> SUBSET (1 .. m)]
        /\ \A c, d \in 1 .. m : d \in h.next[c] <=> c \in h.prior[d]
        /\ m \in Nat
    BY ClassifiedTypes, SplitIsLayered DEF Layered
  <1> HIDE DEF q, m, L
  <1>4. q \in [1 .. L -> 1 .. m]
    BY <1>3, <1>d
  <1>5. q \in Seq(1 .. m) /\ Len(q) = L /\ DOMAIN q = 1 .. L
    BY <1>2, <1>4, AsSeq
  <1>6. \A i \in 1 .. L : copies[q[i]].slot = p[i]
    <2>1. \A i \in 1 .. L : Wanted(g, p, i).slot = p[i]
      BY DEF Wanted, Copy
    <2> QED
      BY <1>3, <2>1
  <1>7. ASSUME NEW i \in 1 .. L - 1 PROVE q[i + 1] \in h.next[q[i]]
    <2>1. i \in 1 .. L /\ i + 1 \in 1 .. L /\ i \in 1 .. Len(p) - 1
      BY <1>2 DEF L
    <2>2. Joined(g, Wanted(g, p, i), Wanted(g, p, i + 1))
      BY <2>1, WantedJoin
    <2> QED
      BY <1>3, <1>s, <2>1, <2>2
  <1>8. h.prior[q[1]] = {}
    <2>1. SUFFICES ASSUME NEW c \in h.prior[q[1]] PROVE FALSE
      OBVIOUS
    <2>2. c \in 1 .. m /\ q[1] \in 1 .. m
      BY <1>2, <1>3, <1>s
    <2>3. Joined(g, copies[c], copies[q[1]])
      BY <1>s, <2>1, <2>2
    <2> QED
      BY <1>1, <1>2, <1>6, <2>3 DEF Joined
  <1>9. h.next[q[L]] = {}
    <2>1. SUFFICES ASSUME NEW d \in h.next[q[L]] PROVE FALSE
      OBVIOUS
    <2>2. d \in 1 .. m /\ q[L] \in 1 .. m
      BY <1>2, <1>3, <1>s
    <2>3. Joined(g, copies[q[L]], copies[d])
      BY <1>s, <2>1, <2>2
    <2>4. p[L] \in g.prior[copies[d].slot] /\ copies[d].slot \in 1 .. n /\ p[L] \in 1 .. n
      BY <1>1, <1>2, <1>6, <1>s, <2>2, <2>3, ElementOfSeq DEF Joined, L
    <2> QED
      BY <1>1, <2>4 DEF Layered
  <1>10. q \in Ways(h, m)
    BY <1>1, <1>5, <1>7, <1>8, <1>9, WayParts
  <1>11. Lowered(q, copies) = p
    <2>1. Lowered(q, copies) = [i \in 1 .. L |-> copies[q[i]].slot]
      BY <1>5 DEF Lowered
    <2>2. p = [i \in 1 .. L |-> p[i]]
      BY <1>1, <1>2, LenProperties DEF L
    <2> QED
      BY <1>6, <2>1, <2>2
  <1> QED
    BY <1>10, <1>11 DEF m

\* A graph has finitely many ways.
LEMMA WayAscends ==
    ASSUME NEW g, NEW n, Layered(g, n), NEW p \in Ways(g, n)
    PROVE  Len(p) \in 1 .. n /\ \A i \in 1 .. Len(p) : p[i] \in 1 .. n /\ i <= p[i]
  <1>1. /\ p \in Seq(1 .. n) /\ Len(p) # 0
        /\ \A i \in 1 .. Len(p) - 1 : p[i + 1] \in g.next[p[i]]
    BY WayParts
  <1>2. Len(p) \in Nat /\ n \in Nat /\ \A i \in 1 .. Len(p) : p[i] \in 1 .. n
    BY <1>1, LenProperties, ElementOfSeq DEF Layered
  <1> DEFINE P == {i \in 1 .. Len(p) : i <= p[i]}
  <1>3. 1 \in P
    <2>1. 1 \in 1 .. Len(p)
      BY <1>1, <1>2
    <2> QED
      BY <1>2, <2>1
  <1>4. ASSUME NEW i \in 2 .. Len(p), i - 1 \in P PROVE i \in P
    <2>1. i \in 1 .. Len(p) /\ i - 1 \in 1 .. Len(p) /\ i - 1 \in 1 .. Len(p) - 1 /\ (i - 1) + 1 = i
      BY <1>2
    <2>2. p[(i - 1) + 1] \in g.next[p[i - 1]] /\ p[i - 1] \in 1 .. n /\ p[i] \in 1 .. n
      BY <1>1, <1>2, <2>1
    <2>3. p[i - 1] < p[i]
      BY <2>1, <2>2 DEF Layered
    <2>4. i - 1 <= p[i - 1]
      BY <1>4
    <2>5. p[i - 1] \in Nat /\ p[i] \in Nat /\ i \in Nat
      BY <1>2, <2>1, <2>2
    <2> QED
      BY <2>1, <2>3, <2>4, <2>5
  <1> HIDE DEF P
  <1>5. \A i \in 1 .. Len(p) : i \in P
    BY <1>2, <1>3, <1>4, UpFromOne
  <1>6. \A i \in 1 .. Len(p) : i <= p[i]
    BY <1>5 DEF P
  <1>7. Len(p) \in 1 .. n
    <2>1. Len(p) \in 1 .. Len(p)
      BY <1>1, <1>2
    <2>2. Len(p) <= p[Len(p)] /\ p[Len(p)] \in 1 .. n
      BY <1>2, <1>6, <2>1
    <2> QED
      BY <1>2, <2>1, <2>2
  <1> QED
    BY <1>2, <1>6, <1>7

LEMMA WaysFinite ==
    ASSUME NEW g, NEW n, Layered(g, n)
    PROVE  IsFiniteSet(Ways(g, n))
  <1> DEFINE T == (1 .. n) \X (1 .. n)
             Marks(p) == {<<i, p[i]>> : i \in 1 .. Len(p)}
             f == [p \in Ways(g, n) |-> Marks(p)]
  <1>1. n \in Nat
    BY DEF Layered
  <1>2. IsFiniteSet(SUBSET T)
    <2>1. IsFiniteSet(1 .. n)
      BY <1>1, FS_Interval
    <2>2. IsFiniteSet(T)
      BY <2>1, FS_Product
    <2> HIDE DEF T
    <2> QED
      BY <2>2, FS_SUBSET
  <1>3. \A p \in Ways(g, n) : Marks(p) \in SUBSET T
    <2>1. SUFFICES ASSUME NEW p \in Ways(g, n), NEW i \in 1 .. Len(p) PROVE <<i, p[i]>> \in T
      OBVIOUS
    <2>2. Len(p) \in 1 .. n /\ p[i] \in 1 .. n
      BY WayAscends
    <2> QED
      BY <1>1, <2>2
  <1>4. ASSUME NEW p \in Ways(g, n), NEW q \in Ways(g, n), Marks(p) = Marks(q) PROVE p = q
    <2>1. p \in Seq(1 .. n) /\ q \in Seq(1 .. n) /\ Len(p) \in Nat /\ Len(q) \in Nat
          /\ Len(p) # 0 /\ Len(q) # 0
      BY WayParts, LenProperties
    <2>2. ASSUME NEW a, NEW b, Marks(a) \subseteq Marks(b), NEW i \in 1 .. Len(a)
          PROVE  i \in 1 .. Len(b) /\ a[i] = b[i]
      <3>1. <<i, a[i]>> \in Marks(b)
        BY <2>2
      <3>2. PICK j \in 1 .. Len(b) : <<i, a[i]>> = <<j, b[j]>>
        BY <3>1
      <3> QED
        BY <3>2
    <2>3. /\ \A i \in 1 .. Len(p) : i \in 1 .. Len(q) /\ p[i] = q[i]
          /\ \A i \in 1 .. Len(q) : i \in 1 .. Len(p)
      <3> HIDE DEF Marks
      <3> QED
        BY <1>4, <2>2
    <2>4. Len(p) = Len(q)
      <3>1. Len(p) \in 1 .. Len(p) /\ Len(q) \in 1 .. Len(q)
        BY <2>1
      <3>2. Len(p) \in 1 .. Len(q) /\ Len(q) \in 1 .. Len(p)
        BY <2>3, <3>1
      <3> QED
        BY <2>1, <3>2
    <2> QED
      BY <2>1, <2>3, <2>4, SeqEqual
  <1>5. f \in Injection(Ways(g, n), SUBSET T)
    <2>1. f \in [Ways(g, n) -> SUBSET T]
      BY <1>3
    <2>2. \A p, q \in Ways(g, n) : f[p] = f[q] => p = q
      BY <1>4
    <2> HIDE DEF f, T
    <2> QED
      BY <2>1, <2>2 DEF Injection, IsInjective
  <1> HIDE DEF f, T
  <1> QED
    BY <1>2, <1>5, FS_Injection

\* Replacing copies by their slots matches the ways of the two graphs.
LEMMA WaysMatch ==
    ASSUME NEW g, NEW n, Layered(g, n), NEW copies, Classified(g, n, copies),
           NEW h, Split(h, g, copies)
    PROVE  /\ {Lowered(q, copies) : q \in Ways(h, Len(copies))} = Ways(g, n)
           /\ Cardinality(Ways(h, Len(copies))) = Cardinality(Ways(g, n))
  <1> DEFINE m == Len(copies)
             low == [q \in Ways(h, m) |-> Lowered(q, copies)]
  <1>1. /\ \A q \in Ways(h, m) : Lowered(q, copies) \in Ways(g, n)
        /\ \A p \in Ways(g, n) : \E q \in Ways(h, m) : Lowered(q, copies) = p
    BY LoweredIsWay, WayIsLowered
  <1>2. ASSUME NEW q \in Ways(h, m), NEW r \in Ways(h, m),
               Lowered(q, copies) = Lowered(r, copies)
        PROVE  q = r
    <2>1. Len(q) = Len(r)
          /\ \A i \in 1 .. Len(q) : copies[q[i]] = copies[r[i]]
      BY <1>2, LoweredIsWay
    <2>2. q \in Seq(1 .. m) /\ r \in Seq(1 .. m)
      BY WayParts
    <2>3. \A i \in 1 .. Len(q) : q[i] \in 1 .. m /\ r[i] \in 1 .. m
      BY <2>1, <2>2, ElementOfSeq
    <2>4. \A i \in 1 .. Len(q) : q[i] = r[i]
      BY <2>1, <2>3 DEF Classified
    <2> HIDE DEF m
    <2> QED
      BY <2>1, <2>2, <2>4, SeqEqual
  <1>3. low \in Injection(Ways(h, m), Ways(g, n)) /\ low \in Surjection(Ways(h, m), Ways(g, n))
    <2>1. low \in [Ways(h, m) -> Ways(g, n)]
      BY <1>1
    <2>2. \A q, r \in Ways(h, m) : low[q] = low[r] => q = r
      BY <1>2
    <2>3. \A p \in Ways(g, n) : \E q \in Ways(h, m) : low[q] = p
      BY <1>1
    <2> HIDE DEF low, m
    <2> QED
      BY <2>1, <2>2, <2>3 DEF Injection, Surjection, IsInjective
  <1>4. Cardinality(Ways(h, m)) = Cardinality(Ways(g, n))
    <2> HIDE DEF low, m
    <2> QED
      BY <1>3, WaysFinite, FS_Injection
  <1> QED
    BY <1>1, <1>4

\* So a split keeps the ways of a graph, whether or not it adds copies.
LEMMA SplitKeepsWays ==
    ASSUME NEW g, NEW n, Layered(g, n)
    PROVE  LET copies == ClassifySlots(g)
               h == SplitContexts(g)
               split == PathsOf(h)
               Slotted(p) == [i \in DOMAIN p |-> copies[p[i]].slot]
           IN  /\ {Slotted(p) : p \in split} = PathsOf(g)
               /\ Cardinality(split) = Cardinality(PathsOf(g))
               /\ \A k, j \in DOMAIN h.phone : j \in h.next[k] <=> k \in h.prior[j]
  <1> DEFINE copies == ClassifySlots(g)
             h == SplitContexts(g)
  <1>1. Classified(g, n, copies)
    BY SlotsClassified
  <1>2. PathsOf(g) = Ways(g, n)
    BY PathsAreWays
  <1>3. IF Len(copies) = n THEN h = g ELSE Split(h, g, copies)
    BY ContextsAreSplit
  <1> HIDE DEF copies, h
  <1>4. \A m : Layered(h, m) => \A k, j \in DOMAIN h.phone : j \in h.next[k] <=> k \in h.prior[j]
    BY DEF Layered
  <1>5. CASE Len(copies) = n
    <2>1. h = g /\ Layered(h, n)
      BY <1>3, <1>5
    <2>2. \A p \in Ways(g, n) : Lowered(p, copies) = p
      <3>1. SUFFICES ASSUME NEW p \in Ways(g, n) PROVE Lowered(p, copies) = p
        OBVIOUS
      <3>2. p \in Seq(1 .. n)
        BY WayParts
      <3>3. p = [i \in DOMAIN p |-> p[i]] /\ \A i \in DOMAIN p : p[i] \in 1 .. n
        BY <3>2, LenProperties, ElementOfSeq
      <3>4. \A i \in DOMAIN p : copies[p[i]].slot = p[i]
        BY <1>1, <1>5, <3>3, UnsplitSlots
      <3> QED
        BY <3>3, <3>4 DEF Lowered
    <2>3. {Lowered(p, copies) : p \in Ways(g, n)} = Ways(g, n)
      BY <2>2
    <2> QED
      BY <1>2, <1>4, <2>1, <2>3 DEF copies, h, Lowered
  <1>6. CASE Len(copies) # n
    <2>1. Split(h, g, copies)
      BY <1>3, <1>6
    <2>2. Layered(h, Len(copies))
      BY <1>1, <2>1, SplitIsLayered
    <2>3. PathsOf(h) = Ways(h, Len(copies))
      BY <2>2, PathsAreWays
    <2>4. /\ {Lowered(q, copies) : q \in Ways(h, Len(copies))} = Ways(g, n)
          /\ Cardinality(Ways(h, Len(copies))) = Cardinality(Ways(g, n))
      BY <1>1, <2>1, WaysMatch
    <2>5. /\ {Lowered(q, copies) : q \in PathsOf(h)} = PathsOf(g)
          /\ Cardinality(PathsOf(h)) = Cardinality(PathsOf(g))
          /\ \A k, j \in DOMAIN h.phone : j \in h.next[k] <=> k \in h.prior[j]
      BY <1>2, <1>4, <2>2, <2>3, <2>4
    <2> QED
      BY <2>5 DEF copies, h, Lowered
  <1> QED
    BY <1>5, <1>6

-----------------------------------------------------------------------------
(* The sessions.                                                           *)

\* What is chosen from a sequence comes from its chosen positions.
LEMMA ChosenWithin ==
    ASSUME NEW S, NEW T, NEW s \in Seq(S), NEW at, \A k \in at \cap (1 .. Len(s)) : s[k] \in T
    PROVE  Chosen(s, at) \in Seq(T)
  <1>1. Chosen(s, at) \in Seq(S)
    BY ChosenPositions
  <1>2. PICK pos : Locates(pos, Chosen(s, at), s, at, Len(s))
    BY ChosenPositions
  <1>3. \A i \in 1 .. Len(Chosen(s, at)) : Chosen(s, at)[i] \in T
    BY <1>2 DEF Locates
  <1> QED
    BY <1>1, <1>3, SeqWithin

\* The entries that the lexicon keeps have pronunciations in the phone list.
LEMMA LexiconEntries ==
    ASSUME NEW file, IsSeq(file), \A k \in DOMAIN file : IsSeq(file[k].phones)
    PROVE  LexiconRead(file) \in Seq({e \in Range(file) : e.phones \in Seq(Phones)})
  <1> DEFINE Defined(k) == Range(file[k].phones) \subseteq Phones
             Same(j, k) == file[j].word = file[k].word /\ file[j].alt = file[k].alt
             at == {k \in DOMAIN file :
                      Defined(k) /\ \A j \in 1 .. k - 1 : ~(Defined(j) /\ Same(j, k))}
  <1>1. file \in Seq(Range(file)) /\ DOMAIN file = 1 .. Len(file)
    BY DEF IsSeq
  <1>2. \A k \in at : Range(file[k].phones) \subseteq Phones /\ k \in DOMAIN file
    OBVIOUS
  <1>3. LexiconRead(file) = Chosen(file, at)
    BY DEF LexiconRead
  <1> HIDE DEF at
  <1>4. ASSUME NEW k \in at PROVE file[k] \in {e \in Range(file) : e.phones \in Seq(Phones)}
    <2> DEFINE s == file[k].phones
    <2>1. s \in Seq(Range(s)) /\ Range(s) \subseteq Phones
      BY <1>2 DEF IsSeq
    <2>2. \A i \in 1 .. Len(s) : s[i] \in Phones
      BY <2>1
    <2>3. s \in Seq(Phones)
      <3> HIDE DEF s
      <3> QED
        BY <2>1, <2>2, SeqWithin
    <2>4. file[k] \in Range(file)
      BY <1>2 DEF Range
    <2> QED
      BY <2>3, <2>4
  <1> QED
    BY <1>1, <1>3, <1>4, ChosenWithin

\* A plan made from a lexicon is a sequence of sequences of its entries, and
\* remains one when silent variants and words are dropped.
LEMMA PlanFromLexicon ==
    ASSUME NEW E, NEW lex \in Seq(E), NEW words, IsSeq(words), NEW multipron
    PROVE  Rows(WordPlan(lex, words, multipron), E)
  <1> DEFINE Chain(i) == IF multipron THEN LexiconLookupVariants(lex, words[i]) ELSE <<>>
             Offered(i) == IF Chain(i) # <<>> THEN Chain(i) ELSE LexiconLookup(lex, words[i])
  <1>1. Len(words) \in Nat /\ DOMAIN words = 1 .. Len(words)
    BY DEF IsSeq
  <1>2. \A token : LexiconLookup(lex, token) \in Seq(E) /\ LexiconLookupVariants(lex, token) \in Seq(E)
    BY ChosenPositions DEF LexiconLookup, LexiconLookupVariants
  <1>3. <<>> \in Seq(E)
    OBVIOUS
  <1>4. \A i : Offered(i) \in Seq(E)
    BY <1>2, <1>3
  <1>5. WordPlan(lex, words, multipron) = [i \in 1 .. Len(words) |-> Offered(i)]
    BY <1>1 DEF WordPlan
  <1> HIDE DEF Offered
  <1>6. WordPlan(lex, words, multipron) \in [1 .. Len(words) -> Seq(E)]
    BY <1>4, <1>5
  <1> QED
    BY <1>1, <1>6, AsSeq DEF Rows

LEMMA SoundedRows ==
    ASSUME NEW E, NEW plan, Rows(plan, E)
    PROVE  Rows(Sounded(plan), E)
  <1> DEFINE at(i) == {v \in DOMAIN plan[i] : plan[i][v].phones # <<>>}
             spoken == [i \in DOMAIN plan |-> Chosen(plan[i], at(i))]
             heardAt == {i \in DOMAIN spoken : spoken[i] # <<>>}
  <1>1. /\ Len(plan) \in Nat /\ DOMAIN plan = 1 .. Len(plan)
        /\ \A i \in 1 .. Len(plan) : plan[i] \in Seq(E)
    BY DEF Rows
  <1>2. Sounded(plan) = Chosen(spoken, heardAt)
    BY DEF Sounded
  <1> HIDE DEF at
  <1>3. \A i \in 1 .. Len(plan) : Chosen(plan[i], at(i)) \in Seq(E)
    BY <1>1, ChosenPositions
  <1>4. spoken \in [1 .. Len(plan) -> Seq(E)]
    BY <1>1, <1>3
  <1> HIDE DEF spoken, heardAt
  <1>5. spoken \in Seq(Seq(E))
    BY <1>1, <1>4, AsSeq
  <1>6. Chosen(spoken, heardAt) \in Seq(Seq(E))
    BY <1>5, ChosenPositions
  <1> QED
    BY <1>2, <1>6 DEF Rows

\* So the graph of every transcript of a session is layered.
LEMMA SessionGraphLayered ==
    ASSUME NEW s \in Setups, NEW i \in DOMAIN s.texts
    PROVE  \E n : Layered(MkPhoneGraph(Pronounced(s, i)), n)
  <1> DEFINE E == {e \in Range(s.dict) : e.phones \in Seq(Phones)}
             lex == LexiconRead(s.dict)
             words == Sounded(WordPlan(lex, s.texts[i], s.multipron))
  <1>1. IsSeq(s.dict) /\ (\A k \in DOMAIN s.dict : IsSeq(s.dict[k].phones)) /\ IsSeq(s.texts[i])
    BY SetupsAssumption
  <1>2. lex \in Seq(E)
    BY <1>1, LexiconEntries
  <1>3. \A e \in E : e.phones \in Seq(Phones)
    OBVIOUS
  <1> HIDE DEF E, lex
  <1>4. Rows(WordPlan(lex, s.texts[i], s.multipron), E)
    BY <1>1, <1>2, PlanFromLexicon
  <1>5. Rows(words, E)
    BY <1>4, SoundedRows
  <1> HIDE DEF words
  <1>6. Spelled(words, E)
    BY <1>3, <1>5 DEF Rows, Spelled
  <1>7. Layered(MkPhoneGraph(words), Len(Slots(words)))
    BY <1>6, PhoneGraphLayered
  <1> QED
    BY <1>7 DEF words, lex, Pronounced

\* What every state has: a session of Setups, at one of its transcripts, and
\* no graph or the split one of that transcript.
GraphInv ==
  /\ setup \in Setups
  /\ utt \in DOMAIN setup.texts
  /\ graph = NoGraph \/ graph = SplitGraph

LEMMA GraphInvInit == Init => GraphInv
  <1> SUFFICES ASSUME Init PROVE GraphInv
    OBVIOUS
  <1>1. setup \in Setups /\ utt = 1 /\ graph = NoGraph
    BY DEF Init
  <1>2. IsSeq(setup.texts) /\ setup.texts # <<>>
    BY <1>1, SetupsAssumption
  <1>3. 1 \in DOMAIN setup.texts
    BY <1>2 DEF IsSeq
  <1> QED
    BY <1>1, <1>3 DEF GraphInv

LEMMA GraphInvStep == GraphInv /\ [Next]_vars => GraphInv'
  <1> SUFFICES ASSUME GraphInv, [Next]_vars PROVE GraphInv'
    OBVIOUS
  <1>1. ASSUME UNCHANGED <<setup, utt, graph>> PROVE GraphInv'
    BY <1>1 DEF GraphInv, SplitGraph
  <1>2. CASE Generate
    BY <1>1, <1>2 DEF Generate, sentence
  <1>3. CASE BuildUttStateSeq
    <2>1. setup' = setup /\ utt' = utt /\ (graph' = graph \/ graph' = SplitGraph \/ graph' = NoGraph)
      BY <1>3 DEF BuildUttStateSeq, building
    <2> QED
      BY <2>1 DEF GraphInv, SplitGraph
  <1>4. CASE ForwardFirst
    BY <1>1, <1>4 DEF ForwardFirst, building, sentence
  <1>5. CASE ForwardFrame
    BY <1>1, <1>5 DEF ForwardFrame, building, sentence
  <1>6. CASE FinalStateNotReached
    BY <1>1, <1>6 DEF FinalStateNotReached, building, sentence
  <1>7. CASE BackwardStart
    BY <1>1, <1>7 DEF BackwardStart, building, sentence
  <1>8. CASE BackwardFrame
    BY <1>1, <1>8 DEF BackwardFrame, building, sentence
  <1>9. CASE BackwardEnd
    BY <1>1, <1>9 DEF BackwardEnd, building, sentence
  <1>10. CASE NextUtterance
    <2>1. setup' = setup /\ graph' = NoGraph
          /\ utt' = (IF utt < Len(setup.texts) THEN utt + 1 ELSE utt)
      BY <1>10 DEF NextUtterance, building
    <2>2. setup.texts \in Seq(Range(setup.texts)) /\ utt \in DOMAIN setup.texts
      BY SetupsAssumption DEF GraphInv, IsSeq
    <2>3. utt' \in DOMAIN setup.texts
      BY <2>1, <2>2
    <2> QED
      BY <2>1, <2>3 DEF GraphInv
  <1>11. CASE UNCHANGED vars
    BY <1>1, <1>11 DEF vars
  <1> QED
    BY <1>2, <1>3, <1>4, <1>5, <1>6, <1>7, <1>8, <1>9, <1>10, <1>11 DEF Next

LEMMA GraphInvKeepsPaths == GraphInv => PathsKept
  <1> SUFFICES ASSUME GraphInv, graph # NoGraph PROVE PathsKept
    BY DEF PathsKept
  <1>1. PICK n : Layered(WholeGraph, n)
    BY SessionGraphLayered DEF GraphInv, WholeGraph
  <1>2. graph = SplitContexts(WholeGraph)
    BY DEF GraphInv, SplitGraph, WholeGraph
  <1> DEFINE g == WholeGraph
             copies == ClassifySlots(g)
             split == PathsOf(graph)
             Slotted(p) == [i \in DOMAIN p |-> copies[p[i]].slot]
  <1>3. /\ {Slotted(p) : p \in split} = PathsOf(g)
        /\ Cardinality(split) = Cardinality(PathsOf(g))
        /\ \A k, j \in DOMAIN graph.phone : j \in graph.next[k] <=> k \in graph.prior[j]
    BY <1>1, <1>2, SplitKeepsWays
  <1> QED
    BY <1>3 DEF PathsKept

\* Splitting the graph of any transcript of any session by context keeps its
\* paths, each once, and both neighbour lists agree (phone_graph_triphone.c,
\* phone_graph_split_contexts).
THEOREM KeepsPaths == Spec => []PathsKept
  <1>1. Init => GraphInv
    BY GraphInvInit
  <1>2. GraphInv /\ [Next]_vars => GraphInv'
    BY GraphInvStep
  <1>3. GraphInv => PathsKept
    BY GraphInvKeepsPaths
  <1> QED
    BY <1>1, <1>2, <1>3, PTL DEF Spec

-----------------------------------------------------------------------------
(* Sums over finite sets.                                                  *)

\* The recursion of SumFunction, over the subsets of its domain.
Picked(s) == CHOOSE x \in s : TRUE

Summing(sum, f, D) ==
  /\ sum \in [SUBSET D -> Nat] /\ sum[{}] = 0
  /\ \A s \in SUBSET D : s # {} => sum[s] = f[Picked(s)] + sum[s \ {Picked(s)}]

LEMMA PickedIn ==
    ASSUME NEW s, s # {}
    PROVE  Picked(s) \in s
  BY DEF Picked

LEMMA Smaller ==
    ASSUME NEW s, IsFiniteSet(s), NEW x \in s
    PROVE  /\ IsFiniteSet(s \ {x}) /\ Cardinality(s) \in Nat \ {0}
           /\ Cardinality(s \ {x}) \in Nat /\ Cardinality(s \ {x}) = Cardinality(s) - 1
  <1>1. IsFiniteSet(s \ {x}) /\ Cardinality(s \ {x}) = Cardinality(s) - 1
    BY FS_RemoveElement
  <1>2. Cardinality(s) \in Nat /\ Cardinality(s \ {x}) \in Nat
    BY <1>1, FS_CardinalityType
  <1>3. Cardinality(s) # 0
    BY FS_EmptySet
  <1> QED
    BY <1>1, <1>2, <1>3

\* Induction over the subsets of a finite set, for a set of them.
LEMMA SubsetInduction ==
    ASSUME NEW D, IsFiniteSet(D), NEW P, {} \in P,
           \A s \in SUBSET D : s # {} /\ (\A x \in s : s \ {x} \in P) => s \in P
    PROVE  \A s \in SUBSET D : s \in P
  <1> DEFINE sized == {m \in 0 .. Cardinality(D) : \A s \in SUBSET D : Cardinality(s) = m => s \in P}
             n == Cardinality(D)
  <1>1. n \in Nat
    BY FS_CardinalityType
  <1>2. \A s \in SUBSET D : IsFiniteSet(s) /\ Cardinality(s) \in 0 .. n
    <2>1. SUFFICES ASSUME NEW s \in SUBSET D PROVE IsFiniteSet(s) /\ Cardinality(s) \in 0 .. n
      OBVIOUS
    <2>2. IsFiniteSet(s) /\ Cardinality(s) <= n
      BY FS_Subset
    <2>3. Cardinality(s) \in Nat
      BY <2>2, FS_CardinalityType
    <2> QED
      BY <1>1, <2>2, <2>3
  <1> HIDE DEF n
  <1>3. 0 \in sized
    <2>1. ASSUME NEW s \in SUBSET D, Cardinality(s) = 0 PROVE s \in P
      BY <1>2, <2>1, FS_EmptySet
    <2> QED
      BY <1>1, <2>1 DEF n
  <1>4. ASSUME NEW m \in 1 .. n, m - 1 \in sized PROVE m \in sized
    <2>1. ASSUME NEW s \in SUBSET D, Cardinality(s) = m PROVE s \in P
      <3>1. s # {}
        <4>1. m # 0
          BY <1>1
        <4> QED
          BY <2>1, <4>1, FS_EmptySet
      <3>2. ASSUME NEW x \in s PROVE s \ {x} \in P
        <4>1. Cardinality(s \ {x}) = m - 1
          BY <1>2, <2>1, Smaller
        <4>2. s \ {x} \in SUBSET D
          OBVIOUS
        <4> QED
          BY <1>4, <4>1, <4>2
      <3> QED
        BY <3>1, <3>2
    <2> QED
      BY <2>1 DEF n
  <1> HIDE DEF sized
  <1>5. \A m \in 0 .. n : m \in sized
    <2>1. 0 \in Nat /\ 0 + 1 = 1
      OBVIOUS
    <2>2. \A m \in 0 + 1 .. n : m - 1 \in sized => m \in sized
      BY <1>4, <2>1
    <2> QED
      BY <1>1, <1>3, <2>1, <2>2, Upwards
  <1> QED
    <2>1. SUFFICES ASSUME NEW s \in SUBSET D PROVE s \in P
      OBVIOUS
    <2>2. Cardinality(s) \in sized
      BY <1>2, <1>5
    <2> QED
      BY <2>2 DEF sized

LEMMA SummingExists ==
    ASSUME NEW D, IsFiniteSet(D), NEW f \in [D -> Nat]
    PROVE  \E sum : Summing(sum, f, D)
  <1> DEFINE n == Cardinality(D)
             S == [SUBSET D -> Nat]
             more(g) == [s \in SUBSET D |->
                           IF s = {} THEN 0 ELSE f[Picked(s)] + g[s \ {Picked(s)}]]
             step == [i \in 1 .. n |-> [g \in S |-> more(g)]]
             base == [s \in SUBSET D |-> 0]
  <1>1. n \in Nat
    BY FS_CardinalityType
  <1>2. \A s \in SUBSET D : s # {} => Picked(s) \in s /\ Picked(s) \in D /\ s \ {Picked(s)} \in SUBSET D
    BY PickedIn
  <1>3. \A g \in S : more(g) \in S
    <2>1. SUFFICES ASSUME NEW g \in S PROVE more(g) \in S
      OBVIOUS
    <2>2. \A s \in SUBSET D : s # {} => f[Picked(s)] \in Nat /\ g[s \ {Picked(s)}] \in Nat
      BY <1>2
    <2>3. \A s \in SUBSET D : (IF s = {} THEN 0 ELSE f[Picked(s)] + g[s \ {Picked(s)}]) \in Nat
      BY <2>2
    <2> QED
      BY <2>3
  <1>4. \A g \in S : \A s \in SUBSET D :
          more(g)[s] = IF s = {} THEN 0 ELSE f[Picked(s)] + g[s \ {Picked(s)}]
    OBVIOUS
  <1>5. base \in S
    OBVIOUS
  <1> HIDE DEF more, S, base, n
  <1>6. step \in [1 .. n -> [S -> S]] /\ \A i \in 1 .. n : \A g \in S : step[i][g] = more(g)
    BY <1>3
  <1> HIDE DEF step
  <1>7. PICK up : Iterates(up, n, S, base, step)
    BY <1>1, <1>5, <1>6, Iteration
  <1>8. /\ up \in [0 .. n -> S]
        /\ \A i \in 1 .. n : up[i] = more(up[i - 1])
    <2>1. up \in [0 .. n -> S] /\ \A i \in 1 .. n : up[i] = step[i][up[i - 1]]
      BY <1>7 DEF Iterates
    <2>2. \A i \in 1 .. n : i - 1 \in 0 .. n
      BY <1>1
    <2> QED
      BY <1>6, <2>1, <2>2
  \* Once a number of rounds covers a subset, one more changes nothing for it.
  <1> DEFINE Same(s) == \A i \in 1 .. n : Cardinality(s) <= i - 1 => up[i][s] = up[i - 1][s]
             P == {s \in SUBSET D : Same(s)}
  <1>9. \A i \in 0 .. n : up[i] \in S /\ up[i][{}] = 0
    <2>1. base[{}] = 0
      BY DEF base
    <2>2. up[0] = base
      BY <1>7 DEF Iterates
    <2>3. ASSUME NEW i \in 0 .. n PROVE up[i][{}] = 0
      <3>1. CASE i = 0
        BY <2>1, <2>2, <3>1
      <3>2. CASE i # 0
        <4>1. i \in 1 .. n /\ i - 1 \in 0 .. n
          BY <1>1, <3>2
        <4>2. up[i] = more(up[i - 1]) /\ up[i - 1] \in S
          BY <1>8, <4>1
        <4> QED
          BY <1>4, <4>2
      <3> QED
        BY <3>1, <3>2
    <2> QED
      BY <1>8, <2>3
  <1>10. {} \in P
    <2>1. \A i \in 1 .. n : i \in 0 .. n /\ i - 1 \in 0 .. n
      BY <1>1
    <2> QED
      BY <1>9, <2>1
  <1>11. ASSUME NEW s \in SUBSET D, s # {}, \A x \in s : s \ {x} \in P PROVE s \in P
    <2>1. ASSUME NEW i \in 1 .. n, Cardinality(s) <= i - 1 PROVE up[i][s] = up[i - 1][s]
      <3> DEFINE x == Picked(s)
                 t == s \ {x}
      <3>1. x \in s /\ t \in P /\ t \in SUBSET D
        BY <1>2, <1>11
      <3>2. IsFiniteSet(s)
        BY FS_Subset
      <3>3. Cardinality(s) \in Nat \ {0} /\ Cardinality(t) \in Nat /\ Cardinality(t) = Cardinality(s) - 1
        BY <3>1, <3>2, Smaller
      <3>4. i - 1 \in 1 .. n /\ i - 1 \in 0 .. n /\ i - 2 \in 0 .. n /\ Cardinality(t) <= (i - 1) - 1
            /\ i - 2 = (i - 1) - 1
        <4> HIDE DEF t
        <4>1. i \in Nat /\ i <= n
          BY <1>1
        <4> QED
          BY <1>1, <2>1, <3>3, <4>1
      <3> HIDE DEF t
      <3>5. up[i - 1][t] = up[i - 2][t]
        BY <3>1, <3>4
      <3> HIDE DEF P, Same
      <3>6. up[i] = more(up[i - 1]) /\ up[i - 1] = more(up[i - 2]) /\ up[i - 1] \in S /\ up[i - 2] \in S
        BY <1>8, <3>4
      <3>7. up[i][s] = f[x] + up[i - 1][t] /\ up[i - 1][s] = f[x] + up[i - 2][t]
        BY <1>4, <1>11, <3>6 DEF t
      <3> QED
        BY <3>5, <3>7
    <2> QED
      BY <2>1
  <1>12. \A s \in SUBSET D : s \in P
    <2> HIDE DEF P
    <2> QED
      BY <1>10, <1>11, SubsetInduction
  <1>13. ASSUME NEW s \in SUBSET D, s # {} PROVE up[n][s] = f[Picked(s)] + up[n][s \ {Picked(s)}]
    <2> DEFINE x == Picked(s)
               t == s \ {x}
    <2>1. x \in s /\ t \in SUBSET D /\ IsFiniteSet(s) /\ Cardinality(s) <= n
      BY <1>2, <1>13, FS_Subset DEF n
    <2>2. Cardinality(s) \in Nat \ {0} /\ Cardinality(t) \in Nat /\ Cardinality(t) = Cardinality(s) - 1
      BY <2>1, Smaller
    <2> HIDE DEF t
    <2>3. n \in 1 .. n /\ n - 1 \in 0 .. n /\ Cardinality(t) <= n - 1
      BY <1>1, <2>1, <2>2
    <2>4. t \in P
      BY <1>12, <2>1
    <2>5. up[n][t] = up[n - 1][t]
      BY <2>3, <2>4
    <2>6. up[n] = more(up[n - 1]) /\ up[n - 1] \in S
      BY <1>8, <2>3
    <2>7. up[n][s] = f[x] + up[n - 1][t]
      BY <1>4, <1>13, <2>6 DEF t
    <2> QED
      BY <2>5, <2>7 DEF t
  <1>14. Summing(up[n], f, D)
    <2>1. n \in 0 .. n
      BY <1>1
    <2>2. up[n] \in S /\ up[n][{}] = 0
      BY <1>9, <2>1
    <2> QED
      BY <1>13, <2>2 DEF Summing, S
  <1> QED
    BY <1>14

LEMMA SumRuns ==
    ASSUME NEW D, IsFiniteSet(D), NEW f \in [D -> Nat]
    PROVE  \E sum : Summing(sum, f, D) /\ SumFunction(f) = sum[D]
  <1> DEFINE Recursive(g) == g = [s \in SUBSET D |->
                               IF s = {} THEN 0 ELSE f[Picked(s)] + g[s \ {Picked(s)}]]
             iter == CHOOSE g : Recursive(g)
  <1>1. PICK sum : Summing(sum, f, D)
    BY SummingExists
  <1>2. Recursive(sum)
    <2>1. sum \in [SUBSET D -> Nat]
          /\ \A s \in SUBSET D :
               sum[s] = IF s = {} THEN 0 ELSE f[Picked(s)] + sum[s \ {Picked(s)}]
      BY <1>1 DEF Summing
    <2> QED
      BY <2>1
  <1>3. Recursive(iter)
    <2> HIDE DEF Recursive
    <2> QED
      BY <1>2
  <1>4. DOMAIN f = D
    OBVIOUS
  <1>5. SumFunction(f) = iter[D]
    BY <1>4 DEF SumFunction, SumFunctionOnSet, FoldFunctionOnSet, MapThenFoldSet, Picked
  <1> HIDE DEF iter
  <1>6. \A s \in SUBSET D : iter[s] = IF s = {} THEN 0 ELSE f[Picked(s)] + iter[s \ {Picked(s)}]
    BY <1>3
  <1> DEFINE P == {s \in SUBSET D : iter[s] \in Nat}
  <1>7. {} \in P
    BY <1>6
  <1>8. ASSUME NEW s \in SUBSET D, s # {}, \A x \in s : s \ {x} \in P PROVE s \in P
    <2>1. Picked(s) \in s /\ Picked(s) \in D
      BY <1>8, PickedIn
    <2>2. f[Picked(s)] \in Nat /\ iter[s \ {Picked(s)}] \in Nat
      BY <1>8, <2>1
    <2>3. iter[s] = f[Picked(s)] + iter[s \ {Picked(s)}]
      BY <1>6, <1>8
    <2> QED
      BY <2>2, <2>3
  <1>9. \A s \in SUBSET D : iter[s] \in Nat
    <2> HIDE DEF P
    <2>1. \A s \in SUBSET D : s \in P
      BY <1>7, <1>8, SubsetInduction
    <2> QED
      BY <2>1 DEF P
  <1>10. iter = [s \in SUBSET D |-> iter[s]]
    BY <1>3
  <1>11. Summing(iter, f, D)
    BY <1>6, <1>9, <1>10 DEF Summing
  <1> QED
    BY <1>5, <1>11

\* Any element can be taken out first.
LEMMA TakeOut ==
    ASSUME NEW D, IsFiniteSet(D), NEW f \in [D -> Nat], NEW sum, Summing(sum, f, D),
           NEW s \in SUBSET D, NEW x \in s
    PROVE  sum[s] = f[x] + sum[s \ {x}] /\ sum[s \ {x}] \in Nat /\ f[x] \in Nat
  <1> DEFINE P == {t \in SUBSET D : \A y \in t : sum[t] = f[y] + sum[t \ {y}]}
  <1>1. sum \in [SUBSET D -> Nat]
        /\ \A t \in SUBSET D : t # {} => sum[t] = f[Picked(t)] + sum[t \ {Picked(t)}]
    BY DEF Summing
  <1>2. {} \in P
    OBVIOUS
  <1>3. ASSUME NEW t \in SUBSET D, t # {}, \A y \in t : t \ {y} \in P PROVE t \in P
    <2>1. ASSUME NEW y \in t PROVE sum[t] = f[y] + sum[t \ {y}]
      <3> DEFINE z == Picked(t)
      <3>1. z \in t /\ z \in D /\ y \in D
        BY <1>3, PickedIn
      <3>2. sum[t] = f[z] + sum[t \ {z}]
        BY <1>1, <1>3
      <3> HIDE DEF z
      <3>3. CASE y = z
        BY <3>2, <3>3
      <3>4. CASE y # z
        <4> DEFINE u == t \ {y, z}
        <4>1. y \in t \ {z} /\ z \in t \ {y} /\ u = (t \ {z}) \ {y} /\ u = (t \ {y}) \ {z}
          BY <3>1, <3>4
        <4>2. sum[t \ {z}] = f[y] + sum[u]
          BY <1>3, <3>1, <4>1
        <4>3. sum[t \ {y}] = f[z] + sum[u]
          BY <1>3, <3>1, <4>1
        <4>4. sum[u] \in Nat /\ f[y] \in Nat /\ f[z] \in Nat
          BY <1>1, <3>1
        <4> HIDE DEF u
        <4> QED
          BY <3>2, <4>2, <4>3, <4>4
      <3> QED
        BY <3>3, <3>4
    <2> QED
      BY <2>1
  <1>4. \A t \in SUBSET D : t \in P
    <2> HIDE DEF P
    <2> QED
      BY <1>2, <1>3, SubsetInduction
  <1>5. s \in P /\ s \ {x} \in SUBSET D /\ x \in D
    BY <1>4
  <1> QED
    BY <1>1, <1>5

Removable(sum, f, D) ==
  \A s \in SUBSET D : \A x \in s :
    sum[s] = f[x] + sum[s \ {x}] /\ sum[s \ {x}] \in Nat /\ f[x] \in Nat

LEMMA AllRemovable ==
    ASSUME NEW D, IsFiniteSet(D), NEW f \in [D -> Nat], NEW sum, Summing(sum, f, D)
    PROVE  Removable(sum, f, D)
  BY TakeOut DEF Removable

LEMMA SumIsNat ==
    ASSUME NEW D, IsFiniteSet(D), NEW f \in [D -> Nat]
    PROVE  SumFunction(f) \in Nat /\ (D = {} => SumFunction(f) = 0)
  <1>1. PICK sum : Summing(sum, f, D) /\ SumFunction(f) = sum[D]
    BY SumRuns
  <1> QED
    BY <1>1 DEF Summing

\* Part of a sum is the sum of the part.
LEMMA SumPart ==
    ASSUME NEW D, IsFiniteSet(D), NEW f \in [D -> Nat], NEW sum, Summing(sum, f, D),
           NEW s \in SUBSET D
    PROVE  sum[s] = SumFunction([x \in s |-> f[x]])
  <1> DEFINE g == [x \in s |-> f[x]]
  <1>1. IsFiniteSet(s)
    BY FS_Subset
  <1>2. g \in [s -> Nat]
    OBVIOUS
  <1>3. PICK own : Summing(own, g, s) /\ SumFunction(g) = own[s]
    BY <1>1, <1>2, SumRuns
  <1> DEFINE P == {t \in SUBSET s : own[t] = sum[t]}
  <1>4. {} \in P
    BY <1>3 DEF Summing
  <1>5. ASSUME NEW t \in SUBSET s, t # {}, \A x \in t : t \ {x} \in P PROVE t \in P
    <2>1. Picked(t) \in t
      BY <1>5, PickedIn
    <2>2. own[t] = g[Picked(t)] + own[t \ {Picked(t)}]
      BY <1>3, <1>5 DEF Summing
    <2>3. sum[t] = f[Picked(t)] + sum[t \ {Picked(t)}]
      <3>1. t \in SUBSET D
        OBVIOUS
      <3> QED
        BY <1>5, <3>1 DEF Summing
    <2>4. g[Picked(t)] = f[Picked(t)] /\ own[t \ {Picked(t)}] = sum[t \ {Picked(t)}]
      BY <1>5, <2>1
    <2> QED
      BY <2>2, <2>3, <2>4
  <1>6. s \in P
    <2> HIDE DEF P
    <2>1. \A t \in SUBSET s : t \in P
      BY <1>1, <1>4, <1>5, SubsetInduction
    <2> QED
      BY <2>1
  <1> QED
    BY <1>3, <1>6

LEMMA SumOneMore ==
    ASSUME NEW E, IsFiniteSet(E), NEW f \in [E -> Nat], NEW x \in E,
           NEW g, g = [d \in E \ {x} |-> f[d]]
    PROVE  SumFunction(f) = f[x] + SumFunction(g)
  <1>1. PICK sum : Summing(sum, f, E) /\ SumFunction(f) = sum[E]
    BY SumRuns
  <1>2. sum[E] = f[x] + sum[E \ {x}]
    BY <1>1, AllRemovable DEF Removable
  <1>3. sum[E \ {x}] = SumFunction(g)
    BY <1>1, SumPart
  <1> QED
    BY <1>1, <1>2, <1>3

LEMMA SumOfEqual ==
    ASSUME NEW D, IsFiniteSet(D), NEW c \in Nat, NEW f \in [D -> {c}]
    PROVE  SumFunction(f) = c * Cardinality(D)
  <1>0. f \in [D -> Nat]
    OBVIOUS
  <1>1. PICK sum : Summing(sum, f, D) /\ SumFunction(f) = sum[D]
    BY <1>0, SumRuns
  <1> DEFINE P == {s \in SUBSET D : sum[s] = c * Cardinality(s)}
  <1>2. {} \in P
    <2>1. sum[{}] = 0 /\ Cardinality({}) = 0
      BY <1>1, FS_EmptySet DEF Summing
    <2>2. c * 0 = 0
      OBVIOUS
    <2> QED
      BY <2>1, <2>2
  <1>3. ASSUME NEW s \in SUBSET D, s # {}, \A x \in s : s \ {x} \in P PROVE s \in P
    <2>1. PICK x \in s : TRUE
      BY <1>3
    <2>2. sum[s] = f[x] + sum[s \ {x}] /\ f[x] = c
      <3>1. Removable(sum, f, D)
        BY <1>0, <1>1, AllRemovable
      <3> QED
        BY <3>1 DEF Removable
    <2>3. IsFiniteSet(s)
      BY FS_Subset
    <2>4. /\ Cardinality(s) \in Nat \ {0}
          /\ Cardinality(s \ {x}) \in Nat /\ Cardinality(s \ {x}) = Cardinality(s) - 1
      BY <2>1, <2>3, Smaller
    <2>5. sum[s \ {x}] = c * Cardinality(s \ {x})
      BY <1>3
    <2>6. c * (Cardinality(s \ {x}) + 1) = c * Cardinality(s \ {x}) + c
      BY <2>4, NextMultiple
    <2>7. Cardinality(s \ {x}) + 1 = Cardinality(s)
      BY <2>4
    <2>8. c * Cardinality(s \ {x}) \in Nat
      BY <2>4, Multiples
    <2> QED
      BY <2>2, <2>5, <2>6, <2>7, <2>8
  <1>4. D \in P
    <2> HIDE DEF P
    <2>1. \A s \in SUBSET D : s \in P
      BY <1>2, <1>3, SubsetInduction
    <2> QED
      BY <2>1
  <1> QED
    BY <1>1, <1>4

\* Renaming the indices, and leaving out some where the value is zero.
Renames(h, f, g, D, E) ==
  /\ IsFiniteSet(D) /\ f \in [D -> Nat] /\ IsFiniteSet(E) /\ g \in [E -> Nat]
  /\ h \in [E -> D] /\ \A a, b \in E : h[a] = h[b] => a = b
  /\ \A e \in E : g[e] = f[h[e]]
  /\ \A d \in D : f[d] # 0 => \E e \in E : h[e] = d

LEMMA SumRenamed ==
    ASSUME NEW h, NEW f, NEW g, NEW D, NEW E, Renames(h, f, g, D, E)
    PROVE  SumFunction(f) = SumFunction(g)
  <1>0. IsFiniteSet(D) /\ f \in [D -> Nat] /\ IsFiniteSet(E) /\ g \in [E -> Nat]
    BY DEF Renames
  <1>1. PICK sum : Summing(sum, f, D) /\ SumFunction(f) = sum[D]
    BY <1>0, SumRuns
  <1>2. PICK own : Summing(own, g, E) /\ SumFunction(g) = own[E]
    BY <1>0, SumRuns
  <1>r. Removable(sum, f, D) /\ Removable(own, g, E)
    BY <1>0, <1>1, <1>2, AllRemovable
  <1> DEFINE Back(s) == {e \in E : h[e] \in s}
             P == {s \in SUBSET D : sum[s] = own[Back(s)]}
  <1>3. {} \in P
    <2>1. Back({}) = {}
      OBVIOUS
    <2> HIDE DEF Back
    <2> QED
      BY <1>1, <1>2, <2>1 DEF Summing
  <1>4. ASSUME NEW s \in SUBSET D, s # {}, \A x \in s : s \ {x} \in P PROVE s \in P
    <2>1. PICK x \in s : TRUE
      BY <1>4
    <2>2. sum[s] = f[x] + sum[s \ {x}] /\ f[x] \in Nat /\ sum[s \ {x}] \in Nat
      BY <1>r DEF Removable
    <2>3. sum[s \ {x}] = own[Back(s \ {x})]
      BY <1>4
    <2>4. CASE \E e \in E : h[e] = x
      <3>1. PICK e \in E : h[e] = x
        BY <2>4
      <3>2. Back(s \ {x}) = Back(s) \ {e} /\ e \in Back(s) /\ Back(s) \in SUBSET E
        BY <3>1 DEF Renames
      <3>3. g[e] = f[x]
        BY <3>1 DEF Renames
      <3> HIDE DEF Back
      <3>4. own[Back(s)] = g[e] + own[Back(s) \ {e}]
        BY <1>r, <3>2 DEF Removable
      <3> QED
        BY <2>2, <2>3, <3>2, <3>3, <3>4
    <2>5. CASE ~ \E e \in E : h[e] = x
      <3>1. f[x] = 0
        BY <2>5 DEF Renames
      <3>2. Back(s \ {x}) = Back(s)
        BY <2>5
      <3> HIDE DEF Back
      <3> QED
        BY <2>2, <2>3, <3>1, <3>2
    <2> QED
      BY <2>4, <2>5
  <1>5. D \in P
    <2> HIDE DEF P
    <2>1. \A s \in SUBSET D : s \in P
      BY <1>0, <1>3, <1>4, SubsetInduction
    <2> QED
      BY <2>1
  <1>6. Back(D) = E
    BY DEF Renames
  <1> QED
    BY <1>1, <1>2, <1>5, <1>6

-----------------------------------------------------------------------------
(* The states of a sentence HMM and the mass of its arcs.                  *)

\* States are numbered along the slots, K + 1 to a slot.
Numbered(h, K, n) ==
  /\ \A s \in States(h) : /\ Slot(h, s) \in 1 .. n /\ MState(h, s) \in 0 .. K
                          /\ s = Entry(K, Slot(h, s)) + MState(h, s)
  /\ \A k \in 1 .. n : /\ Entry(K, k) \in Nat /\ Exit(K, k) = Entry(K, k) + K
                       /\ \A m \in 0 .. K : /\ Entry(K, k) + m \in States(h)
                                            /\ Slot(h, Entry(K, k) + m) = k
                                            /\ MState(h, Entry(K, k) + m) = m
  /\ States(h) \in SUBSET Nat /\ IsFiniteSet(States(h))

LEMMA StatesNumbered ==
    ASSUME NEW K \in Nat \ {0}, NEW h, h.K = K, NEW n \in Nat, Len(h.id) = n
    PROVE  Numbered(h, K, n)
  <1> DEFINE w == K + 1
  <1>1. w \in Nat \ {0} /\ Width(h) = w /\ n * w \in Nat /\ States(h) = 1 .. n * w
    <2>1. w * n \in Nat /\ n * w = w * n
      BY Multiples
    <2> QED
      BY <2>1 DEF Width, States
  <1> HIDE DEF w
  <1>2. \A s : Slot(h, s) = Row(s, w) /\ MState(h, s) = (s - 1) % w
    BY <1>1 DEF Slot, MState, Row
  <1>3. \A k \in 1 .. n : Entry(K, k) = w * (k - 1) + 1 /\ w * (k - 1) \in Nat
    <2>1. SUFFICES ASSUME NEW k \in 1 .. n
                   PROVE  Entry(K, k) = w * (k - 1) + 1 /\ w * (k - 1) \in Nat
      OBVIOUS
    <2>2. k - 1 \in Nat
      OBVIOUS
    <2>3. w * (k - 1) \in Nat /\ w * (k - 1) = (k - 1) * w
      BY <1>1, <2>2, Multiples
    <2> QED
      BY <2>3 DEF Entry, w
  <1>4. ASSUME NEW s \in States(h)
        PROVE  /\ Slot(h, s) \in 1 .. n /\ MState(h, s) \in 0 .. K
               /\ s = Entry(K, Slot(h, s)) + MState(h, s)
    <2> DEFINE r == Row(s, w)
               m == (s - 1) % w
    <2>1. s \in 1 .. n * w
      BY <1>1
    <2>2. r \in 1 .. n /\ Column(s, w) \in 1 .. w /\ s = w * (r - 1) + Column(s, w)
      BY <1>1, <2>1, CellOfGrid
    <2>3. Column(s, w) = 1 + m
      BY DEF Column
    <2>4. m \in Nat
      <3>1. s - 1 \in Nat
        BY <1>1, <2>1
      <3> QED
        BY <1>1, <3>1, DivisionLaw
    <2>5. Entry(K, r) = w * (r - 1) + 1 /\ w * (r - 1) \in Nat
      BY <1>3, <2>2
    <2> HIDE DEF r, m
    <2>6. m \in 0 .. K
      BY <1>1, <2>2, <2>3, <2>4 DEF w
    <2>7. s = Entry(K, r) + m
      BY <2>2, <2>3, <2>4, <2>5
    <2> QED
      BY <1>2, <2>2, <2>6, <2>7 DEF r, m
  <1>5. ASSUME NEW k \in 1 .. n, NEW m \in 0 .. K
        PROVE  /\ Entry(K, k) + m \in States(h)
               /\ Slot(h, Entry(K, k) + m) = k
               /\ MState(h, Entry(K, k) + m) = m
    <2>1. m + 1 \in 1 .. w /\ m \in Nat
      BY DEF w
    <2>c. HasCell(n, w, k, m + 1)
      BY <1>1, <2>1, GridHasCell
    <2>2. PICK s \in 1 .. n * w : Row(s, w) = k /\ Column(s, w) = m + 1
      BY <2>c DEF HasCell
    <2>3. s \in States(h) /\ Slot(h, s) = k
      BY <1>1, <1>2, <2>2
    <2>4. MState(h, s) = m
      <3>1. MState(h, s) \in Nat /\ Column(s, w) = 1 + MState(h, s)
        BY <1>2, <1>4, <2>3 DEF Column
      <3> QED
        BY <2>1, <2>2, <3>1
    <2>5. s = Entry(K, k) + m
      BY <1>4, <2>3, <2>4
    <2> QED
      BY <2>3, <2>4, <2>5
  <1>6. ASSUME NEW k \in 1 .. n PROVE Entry(K, k) \in Nat /\ Exit(K, k) = Entry(K, k) + K
    <2>1. k - 1 \in Nat /\ k = (k - 1) + 1 /\ k \in Nat
      OBVIOUS
    <2>2. w * ((k - 1) + 1) = w * (k - 1) + w
      BY <1>1, <2>1, NextMultiple
    <2>3. k * w = w * k
      BY <1>1, <2>1, Multiples
    <2>4. Entry(K, k) = w * (k - 1) + 1 /\ w * (k - 1) \in Nat
      BY <1>3
    <2>5. Exit(K, k) = w * (k - 1) + w
      BY <2>1, <2>2, <2>3 DEF Exit, w
    <2>6. w = K + 1
      BY DEF w
    <2> QED
      BY <2>4, <2>5, <2>6
  <1>7. States(h) \in SUBSET Nat /\ IsFiniteSet(States(h))
    BY <1>1, FS_Interval
  <1> QED
    BY <1>4, <1>5, <1>6, <1>7 DEF Numbered

\* The arcs of a sentence HMM: what a state has for its successors and for its
\* predecessors, told by slots and numbers within them.
Stepping(g, id, K, tmat, k, m, j, i) ==
  IF m < K THEN j = k /\ tmat[id[k].base][m][i] > 0 ELSE i = 0 /\ j \in g.next[k]
Weight(g, id, K, tmat, k, m, i) ==
  IF m < K THEN tmat[id[k].base][m][i] ELSE One \div Cardinality(g.next[k])

\* What the builder is given.
Buildings(g, n, id, K, tmat) ==
  /\ n \in Nat /\ K \in Nat \ {0}
  /\ g.next \in [1 .. n -> SUBSET (1 .. n)] /\ g.prior \in [1 .. n -> SUBSET (1 .. n)]
  /\ \A k, j \in 1 .. n : j \in g.next[k] <=> k \in g.prior[j]
  /\ Len(id) = n
  /\ \A k \in 1 .. n : tmat[id[k].base] \in [0 .. K - 1 -> [0 .. K -> Nat]]

\* What it builds.
Wired(h, g, n, id, K, tmat) ==
  /\ h.K = K /\ h.id = id
  /\ \A s \in States(h) :
       /\ DOMAIN h.next[s] = {t \in States(h) : Stepping(g, id, K, tmat, Slot(h, s), MState(h, s),
                                                         Slot(h, t), MState(h, t))}
       /\ \A t \in DOMAIN h.next[s] :
            h.next[s][t] = Weight(g, id, K, tmat, Slot(h, s), MState(h, s), MState(h, t))
       /\ DOMAIN h.prior[s] = {t \in States(h) : Stepping(g, id, K, tmat, Slot(h, t), MState(h, t),
                                                          Slot(h, s), MState(h, s))}
       /\ \A t \in DOMAIN h.prior[s] :
            h.prior[s][t] = Weight(g, id, K, tmat, Slot(h, t), MState(h, t), MState(h, s))
  /\ \A s \in States(h) : h.next[s] = [t \in DOMAIN h.next[s] |-> h.next[s][t]]
  /\ \A s \in States(h) : h.prior[s] = [t \in DOMAIN h.prior[s] |-> h.prior[s][t]]

LEMMA GraphWired ==
    ASSUME NEW g, NEW n, NEW id, NEW K, NEW tmat, Buildings(g, n, id, K, tmat)
    PROVE  Wired(StateSeqMakeGraph(g, id, K, tmat), g, n, id, K, tmat)
  <1> DEFINE h == StateSeqMakeGraph(g, id, K, tmat)
             shape == [K |-> K, id |-> id, next |-> <<>>, prior |-> <<>>]
             Share(k) == One \div Cardinality(g.next[k])
             Next0(s) ==
               IF MState(shape, s) < K
               THEN Within(tmat[id[Slot(shape, s)].base], K, Slot(shape, s), MState(shape, s))
               ELSE [t \in {Entry(K, j) : j \in g.next[Slot(shape, s)]} |-> Share(Slot(shape, s))]
             Cross(s) == IF MState(shape, s) > 0 THEN {} ELSE g.prior[Slot(shape, s)]
             CrossArcs(s) == [x \in {Exit(K, j) : j \in Cross(s)} |-> Share(Slot(shape, x))]
             OwnArcs(s) == WithinPrior(tmat[id[Slot(shape, s)].base], K, Slot(shape, s), MState(shape, s))
             Prior0(s) == Both(CrossArcs(s), OwnArcs(s))
  <1>1. /\ n \in Nat /\ K \in Nat \ {0} /\ Len(id) = n
        /\ g.next \in [1 .. n -> SUBSET (1 .. n)] /\ g.prior \in [1 .. n -> SUBSET (1 .. n)]
        /\ \A k, j \in 1 .. n : j \in g.next[k] <=> k \in g.prior[j]
        /\ \A k \in 1 .. n : tmat[id[k].base] \in [0 .. K - 1 -> [0 .. K -> Nat]]
    BY DEF Buildings
  <1>2. h = [shape EXCEPT !.next = [s \in States(shape) |-> Next0(s)],
                          !.prior = [s \in States(shape) |-> Prior0(s)]]
    BY DEF StateSeqMakeGraph
  <1>3. shape.K = K /\ shape.id = id
    OBVIOUS
  <1>4. /\ h.K = K /\ h.id = id
        /\ h.next = [s \in States(shape) |-> Next0(s)]
        /\ h.prior = [s \in States(shape) |-> Prior0(s)]
    BY <1>2
  <1> HIDE DEF h, shape, Next0, Prior0
  <1>5. Numbered(shape, K, n) /\ Numbered(h, K, n)
    BY <1>1, <1>3, <1>4, StatesNumbered
  <1>6. States(h) = States(shape) /\ \A s : Slot(h, s) = Slot(shape, s) /\ MState(h, s) = MState(shape, s)
    BY <1>3, <1>4 DEF States, Slot, MState, Width
  <1>7. /\ \A s \in States(h) : /\ Slot(h, s) \in 1 .. n /\ MState(h, s) \in 0 .. K
                                /\ s = Entry(K, Slot(h, s)) + MState(h, s)
        /\ \A k \in 1 .. n : /\ Entry(K, k) \in Nat /\ Exit(K, k) = Entry(K, k) + K
                             /\ \A m \in 0 .. K : /\ Entry(K, k) + m \in States(h)
                                                  /\ Slot(h, Entry(K, k) + m) = k
                                                  /\ MState(h, Entry(K, k) + m) = m
    BY <1>5 DEF Numbered
  <1>8. \A k \in 1 .. n : Entry(K, k) = Entry(K, k) + 0 /\ 0 \in 0 .. K /\ K \in 0 .. K
    BY <1>1, <1>7
  <1>9. \A k \in 1 .. n : /\ Entry(K, k) \in States(h) /\ Slot(h, Entry(K, k)) = k /\ MState(h, Entry(K, k)) = 0
                          /\ Exit(K, k) \in States(h) /\ Slot(h, Exit(K, k)) = k /\ MState(h, Exit(K, k)) = K
    <2>1. SUFFICES ASSUME NEW k \in 1 .. n
          PROVE /\ Entry(K, k) \in States(h) /\ Slot(h, Entry(K, k)) = k /\ MState(h, Entry(K, k)) = 0
                /\ Exit(K, k) \in States(h) /\ Slot(h, Exit(K, k)) = k /\ MState(h, Exit(K, k)) = K
      OBVIOUS
    <2>2. Entry(K, k) = Entry(K, k) + 0 /\ 0 \in 0 .. K /\ K \in 0 .. K /\ Exit(K, k) = Entry(K, k) + K
      BY <1>7, <1>8
    <2> QED
      BY <1>7, <2>2
  <1>10. ASSUME NEW s \in States(h)
         PROVE  /\ DOMAIN h.next[s] = {t \in States(h) : Stepping(g, id, K, tmat, Slot(h, s), MState(h, s),
                                                         Slot(h, t), MState(h, t))}
                /\ \A t \in DOMAIN h.next[s] :
                     h.next[s][t] = Weight(g, id, K, tmat, Slot(h, s), MState(h, s), MState(h, t))
                /\ h.next[s] = [t \in DOMAIN h.next[s] |-> h.next[s][t]]
    <2> DEFINE k == Slot(h, s)
               m == MState(h, s)
               a == tmat[id[k].base]
    <2>0. k \in 1 .. n /\ m \in 0 .. K
      BY <1>7
    <2>1. h.next[s] = Next0(s)
      BY <1>4, <1>6
    <2>2. CASE m < K
      <3>1. h.next[s] = Within(a, K, k, m)
        BY <1>6, <2>1, <2>2 DEF Next0
      <3>2. /\ DOMAIN h.next[s] = {Entry(K, k) + j : j \in {i \in 0 .. K : a[m][i] > 0}}
            /\ \A t \in DOMAIN h.next[s] : h.next[s][t] = a[m][t - Entry(K, k)]
            /\ h.next[s] = [t \in DOMAIN h.next[s] |-> h.next[s][t]]
        BY <3>1 DEF Within
      <3> HIDE DEF a
      <3>3. \A t \in States(h) : Slot(h, t) = k => t = Entry(K, k) + MState(h, t) /\ MState(h, t) \in 0 .. K
        BY <1>7
      <3>4. \A j \in 0 .. K : Entry(K, k) + j \in States(h) /\ Slot(h, Entry(K, k) + j) = k
                              /\ MState(h, Entry(K, k) + j) = j /\ (Entry(K, k) + j) - Entry(K, k) = j
        <4>1. Entry(K, k) \in Nat
          BY <1>7, <2>0
        <4>2. \A j \in 0 .. K : (Entry(K, k) + j) - Entry(K, k) = j
          BY <1>1, <4>1
        <4> QED
          BY <1>7, <2>0, <4>2
      <3> HIDE DEF k, m
      <3>5. DOMAIN h.next[s] = {t \in States(h) : Slot(h, t) = k /\ a[m][MState(h, t)] > 0}
        BY <3>2, <3>3, <3>4
      <3>6. \A t \in DOMAIN h.next[s] : h.next[s][t] = a[m][MState(h, t)]
        BY <3>2, <3>4
      <3>7. \A t : Stepping(g, id, K, tmat, k, m, Slot(h, t), MState(h, t))
                     <=> Slot(h, t) = k /\ a[m][MState(h, t)] > 0
        BY <2>2 DEF Stepping, a
      <3>8. \A t : Weight(g, id, K, tmat, k, m, MState(h, t)) = a[m][MState(h, t)]
        BY <2>2 DEF Weight, a
      <3> QED
        BY <3>2, <3>5, <3>6, <3>7, <3>8 DEF k, m
    <2>3. CASE ~(m < K)
      <3>1. h.next[s] = [t \in {Entry(K, j) : j \in g.next[k]} |-> Share(k)]
        BY <1>6, <2>1, <2>3 DEF Next0
      <3>2. g.next[k] \in SUBSET (1 .. n)
        BY <1>1, <2>0
      <3>3. \A t \in States(h) : MState(h, t) = 0 => t = Entry(K, Slot(h, t))
        BY <1>7, <1>8
      <3> HIDE DEF k, m
      <3>4. {Entry(K, j) : j \in g.next[k]} = {t \in States(h) : MState(h, t) = 0 /\ Slot(h, t) \in g.next[k]}
        BY <1>9, <3>2, <3>3
      <3>5. \A t : Stepping(g, id, K, tmat, k, m, Slot(h, t), MState(h, t))
                     <=> MState(h, t) = 0 /\ Slot(h, t) \in g.next[k]
        BY <2>3 DEF Stepping
      <3>6. \A t : Weight(g, id, K, tmat, k, m, MState(h, t)) = Share(k)
        BY <2>3 DEF Weight
      <3> HIDE DEF Share
      <3> QED
        BY <3>1, <3>4, <3>5, <3>6 DEF k, m
    <2> QED
      BY <2>2, <2>3
  <1>11. ASSUME NEW s \in States(h)
         PROVE  /\ DOMAIN h.prior[s] = {t \in States(h) : Stepping(g, id, K, tmat, Slot(h, t), MState(h, t),
                                                          Slot(h, s), MState(h, s))}
                /\ \A t \in DOMAIN h.prior[s] :
                     h.prior[s][t] = Weight(g, id, K, tmat, Slot(h, t), MState(h, t), MState(h, s))
                /\ h.prior[s] = [t \in DOMAIN h.prior[s] |-> h.prior[s][t]]
    <2> DEFINE k == Slot(h, s)
               m == MState(h, s)
               a == tmat[id[k].base]
               cross == IF m > 0 THEN {} ELSE g.prior[k]
               exits == {Exit(K, j) : j \in cross}
               own == {Entry(K, k) + j : j \in {i \in 0 .. K - 1 : a[i][m] > 0}}
    <2>0. k \in 1 .. n /\ m \in 0 .. K /\ Entry(K, k) \in Nat
      BY <1>7
    <2>1. h.prior[s] = Both(CrossArcs(s), OwnArcs(s))
      BY <1>4, <1>6 DEF Prior0
    <2>2. CrossArcs(s) = [x \in exits |-> Share(Slot(h, x))]
      BY <1>6
    <2>3. OwnArcs(s) = [x \in own |-> a[x - Entry(K, k)][m]]
      BY <1>6 DEF WithinPrior
    <2> HIDE DEF CrossArcs, OwnArcs, own, exits, a, k, m, Share, cross
    <2>4. h.prior[s] = [x \in exits \cup own |->
                          IF x \in exits THEN Share(Slot(h, x)) ELSE a[x - Entry(K, k)][m]]
      <3> DEFINE c == CrossArcs(s)
                 o == OwnArcs(s)
      <3>1. Both(c, o) = [x \in DOMAIN c \cup DOMAIN o |-> IF x \in DOMAIN c THEN c[x] ELSE o[x]]
        BY DEF Both
      <3>2. DOMAIN c = exits /\ \A x \in exits : c[x] = Share(Slot(h, x))
        BY <2>2
      <3>3. DOMAIN o = own /\ \A x \in own : o[x] = a[x - Entry(K, k)][m]
        BY <2>3
      <3> HIDE DEF c, o
      <3>4. h.prior[s] = Both(c, o)
        BY <2>1 DEF c, o
      <3> QED
        BY <3>1, <3>2, <3>3, <3>4
    <2>5. cross \in SUBSET (1 .. n)
      BY <1>1, <2>0 DEF cross
    <2>6. \A x \in exits : x \in States(h) /\ MState(h, x) = K /\ Slot(h, x) \in cross
      BY <1>9, <2>5 DEF exits
    <2>7. \A x \in States(h) : MState(h, x) = K => x = Exit(K, Slot(h, x))
      BY <1>7
    <2>8. exits = {x \in States(h) : MState(h, x) = K /\ Slot(h, x) \in cross}
      BY <2>6, <2>7 DEF exits
    <2>9. \A j \in 0 .. K - 1 : /\ Entry(K, k) + j \in States(h) /\ Slot(h, Entry(K, k) + j) = k
                                /\ MState(h, Entry(K, k) + j) = j /\ (Entry(K, k) + j) - Entry(K, k) = j
                                /\ j < K
      <3>1. \A j \in 0 .. K - 1 : j \in 0 .. K /\ (Entry(K, k) + j) - Entry(K, k) = j /\ j < K
        BY <1>1, <2>0
      <3> QED
        BY <1>7, <2>0, <3>1
    <2>10. \A x \in States(h) : Slot(h, x) = k /\ MState(h, x) < K =>
                x = Entry(K, k) + MState(h, x) /\ MState(h, x) \in 0 .. K - 1
      <3>1. \A x \in States(h) : MState(h, x) < K => MState(h, x) \in 0 .. K - 1
        BY <1>1, <1>7
      <3> QED
        BY <1>7, <3>1
    <2>11. own = {x \in States(h) : Slot(h, x) = k /\ MState(h, x) < K /\ a[MState(h, x)][m] > 0}
      BY <2>9, <2>10 DEF own
    <2>12. \A x \in own : a[x - Entry(K, k)][m] = a[MState(h, x)][m]
      BY <2>9 DEF own
    <2>13. \A x \in States(h) : Slot(h, x) \in 1 .. n /\ MState(h, x) \in 0 .. K
                                /\ (~(MState(h, x) < K) <=> MState(h, x) = K)
      <3>1. \A i \in 0 .. K : ~(i < K) <=> i = K
        BY <1>1
      <3> QED
        BY <1>7, <3>1
    <2>14. \A j : j \in cross <=> m = 0 /\ j \in g.prior[k]
      BY <1>1, <2>0 DEF cross
    <2>15. \A x \in States(h) : Stepping(g, id, K, tmat, Slot(h, x), MState(h, x), k, m)
                                  <=> x \in exits \cup own
      <3>1. SUFFICES ASSUME NEW x \in States(h)
            PROVE Stepping(g, id, K, tmat, Slot(h, x), MState(h, x), k, m) <=> x \in exits \cup own
        OBVIOUS
      <3>2. CASE MState(h, x) < K
        <4>1. x \notin exits
          BY <1>1, <2>8, <2>13, <3>2
        <4> QED
          BY <2>11, <3>2, <4>1 DEF Stepping, a
      <3>3. CASE ~(MState(h, x) < K)
        <4>1. x \notin own /\ MState(h, x) = K
          BY <2>11, <2>13, <3>3
        <4>2. k \in g.next[Slot(h, x)] <=> Slot(h, x) \in g.prior[k]
          BY <1>1, <2>0, <2>13
        <4>3. Stepping(g, id, K, tmat, Slot(h, x), MState(h, x), k, m) <=> m = 0 /\ k \in g.next[Slot(h, x)]
          BY <3>3 DEF Stepping
        <4> QED
          BY <2>8, <2>14, <4>1, <4>2, <4>3
      <3> QED
        BY <3>2, <3>3
    <2>16. exits \cup own \subseteq States(h)
      BY <2>8, <2>11
    <2>17. \A x \in exits \cup own : h.prior[s][x] = Weight(g, id, K, tmat, Slot(h, x), MState(h, x), m)
      <3>1. SUFFICES ASSUME NEW x \in exits \cup own
            PROVE h.prior[s][x] = Weight(g, id, K, tmat, Slot(h, x), MState(h, x), m)
        OBVIOUS
      <3>2. CASE x \in exits
        <4>1. ~(MState(h, x) < K)
          BY <2>8, <2>13, <3>2
        <4>2. h.prior[s][x] = Share(Slot(h, x))
          BY <2>4, <3>2
        <4> QED
          BY <4>1, <4>2 DEF Weight, Share
      <3>3. CASE x \notin exits
        <4>1. x \in own
          BY <3>3
        <4>2. Slot(h, x) = k /\ MState(h, x) < K
          BY <2>11, <4>1
        <4>3. h.prior[s][x] = a[MState(h, x)][m]
          BY <2>4, <2>12, <3>3, <4>1
        <4> QED
          BY <4>2, <4>3 DEF Weight, a
      <3> QED
        BY <3>2, <3>3
    <2>18. DOMAIN h.prior[s] = exits \cup own /\ h.prior[s] = [x \in DOMAIN h.prior[s] |-> h.prior[s][x]]
      BY <2>4
    <2> QED
      BY <2>15, <2>16, <2>17, <2>18 DEF k, m
  <1> QED
    BY <1>4, <1>10, <1>11 DEF Wired, h

\* The arcs of both lists say the same.
Mirrored(h) ==
  \A s \in States(h) :
    /\ \A t \in DOMAIN h.next[s] :
         t \in States(h) /\ s \in DOMAIN h.prior[t] /\ h.prior[t][s] = h.next[s][t]
    /\ \A t \in DOMAIN h.prior[s] : t \in States(h) /\ s \in DOMAIN h.next[t]

\* All mass goes on, but from the last state.
Massive(h) ==
  \A s \in States(h) : SumFunction(h.next[s]) = IF s = Len(h.id) * Width(h) THEN 0 ELSE One

LEMMA ShareLaw ==
    ASSUME NEW c \in Nat \ {0}, One % c = 0
    PROVE  One \div c \in Nat /\ (One \div c) * c = One
  <1>1. One \in Nat
    BY OneAssumption
  <1>2. One \div c \in Nat /\ c * (One \div c) + (One % c) = One
    BY <1>1, DivisionLaw
  <1> DEFINE q == One \div c
  <1>3. q \in Nat /\ c * q + 0 = One
    BY <1>2
  <1> HIDE DEF q
  <1>4. c * q \in Nat /\ c * q = q * c
    BY <1>3, Multiples
  <1>5. q * c = One
    BY <1>3, <1>4
  <1> QED
    BY <1>3, <1>5 DEF q

\* A graph in which only the last slot has no successor, and in which every
\* fan-out divides the unit, over matrices whose rows sum to the unit.
Sharing(g, n, id, K, tmat) ==
  /\ \A k \in 1 .. n : g.next[k] = {} <=> k = n
  /\ \A k \in 1 .. n : g.next[k] # {} => One % Cardinality(g.next[k]) = 0
  /\ \A k \in 1 .. n : \A m \in 0 .. K - 1 : SumFunction(tmat[id[k].base][m]) = One

LEMMA WiredMirrored ==
    ASSUME NEW h, NEW g, NEW n, NEW id, NEW K, NEW tmat, Wired(h, g, n, id, K, tmat)
    PROVE  Mirrored(h)
  BY DEF Wired, Mirrored

LEMMA WiredMassive ==
    ASSUME NEW h, NEW g, NEW n, NEW id, NEW K, NEW tmat,
           Buildings(g, n, id, K, tmat), Wired(h, g, n, id, K, tmat), Sharing(g, n, id, K, tmat)
    PROVE  Massive(h)
  <1>1. /\ n \in Nat /\ K \in Nat \ {0} /\ Len(h.id) = n /\ h.K = K
        /\ g.next \in [1 .. n -> SUBSET (1 .. n)]
        /\ \A k \in 1 .. n : tmat[id[k].base] \in [0 .. K - 1 -> [0 .. K -> Nat]]
    BY DEF Buildings, Wired
  <1>2. Numbered(h, K, n)
    BY <1>1, StatesNumbered
  <1>3. /\ \A s \in States(h) : /\ Slot(h, s) \in 1 .. n /\ MState(h, s) \in 0 .. K
                                /\ s = Entry(K, Slot(h, s)) + MState(h, s)
        /\ \A k \in 1 .. n : /\ Entry(K, k) \in Nat /\ Exit(K, k) = Entry(K, k) + K
                             /\ \A m \in 0 .. K : /\ Entry(K, k) + m \in States(h)
                                                  /\ Slot(h, Entry(K, k) + m) = k
                                                  /\ MState(h, Entry(K, k) + m) = m
        /\ IsFiniteSet(States(h))
    BY <1>2 DEF Numbered
  <1>4. Len(h.id) * Width(h) = Exit(K, n)
    BY <1>1 DEF Width, Exit
  <1>5. \A s \in States(h) : s = Exit(K, n) <=> Slot(h, s) = n /\ MState(h, s) = K
    <2>1. K \in 0 .. K
      BY <1>1
    <2>2. ASSUME NEW s \in States(h) PROVE s = Exit(K, n) <=> Slot(h, s) = n /\ MState(h, s) = K
      <3>1. Slot(h, s) \in 1 .. n /\ MState(h, s) \in 0 .. K /\ s = Entry(K, Slot(h, s)) + MState(h, s)
        BY <1>3
      <3>2. n \in 1 .. n
        BY <1>1, <3>1
      <3>3. Exit(K, n) = Entry(K, n) + K /\ Slot(h, Entry(K, n) + K) = n /\ MState(h, Entry(K, n) + K) = K
        BY <1>3, <2>1, <3>2
      <3> QED
        BY <3>1, <3>3
    <2> QED
      BY <2>2
  <1>6. ASSUME NEW s \in States(h)
        PROVE  SumFunction(h.next[s]) = IF s = Exit(K, n) THEN 0 ELSE One
    <2> DEFINE k == Slot(h, s)
               m == MState(h, s)
               D == DOMAIN h.next[s]
               f == h.next[s]
    <2>1. /\ D = {t \in States(h) : Stepping(g, id, K, tmat, k, m, Slot(h, t), MState(h, t))}
          /\ \A t \in D : f[t] = Weight(g, id, K, tmat, k, m, MState(h, t))
          /\ f = [t \in D |-> f[t]]
      BY DEF Wired
    <2>2. k \in 1 .. n /\ m \in 0 .. K
      BY <1>3
    <2>3. D \in SUBSET States(h) /\ IsFiniteSet(D)
      BY <1>3, <2>1, FS_Subset
    <2>4. s = Exit(K, n) <=> k = n /\ m = K
      BY <1>5
    <2> HIDE DEF k, m, D, f
    <2>5. CASE m < K
      <3> DEFINE row == tmat[id[k].base][m]
                 ren == [t \in D |-> MState(h, t)]
      <3>1. m \in 0 .. K - 1
        BY <1>1, <2>2, <2>5
      <3>2. row \in [0 .. K -> Nat] /\ SumFunction(row) = One
        BY <1>1, <2>2, <3>1 DEF Sharing
      <3> HIDE DEF row
      <3>3. \A t \in States(h) : t \in D <=> Slot(h, t) = k /\ row[MState(h, t)] > 0
        BY <2>1, <2>5 DEF Stepping, row
      <3>4. \A t \in D : f[t] = row[MState(h, t)]
        BY <2>1, <2>5 DEF Weight, row
      <3>5. \A t \in D : MState(h, t) \in 0 .. K /\ Slot(h, t) = k /\ t = Entry(K, k) + MState(h, t)
        BY <1>3, <2>3, <3>3
      <3>6. f \in [D -> Nat]
        <4>1. \A t \in D : f[t] \in Nat
          BY <3>2, <3>4, <3>5
        <4> QED
          BY <2>1, <4>1
      <3>7. ren \in [D -> 0 .. K] /\ \A t \in D : ren[t] = MState(h, t)
        BY <3>5
      <3> HIDE DEF ren
      <3>8. ASSUME NEW i \in 0 .. K, row[i] # 0 PROVE \E t \in D : ren[t] = i
        <4>1. row[i] > 0
          BY <3>2, <3>8
        <4>2. /\ Entry(K, k) + i \in States(h)
              /\ Slot(h, Entry(K, k) + i) = k /\ MState(h, Entry(K, k) + i) = i
          BY <1>3, <2>2
        <4>3. Entry(K, k) + i \in D
          BY <3>3, <4>1, <4>2
        <4> QED
          BY <3>7, <4>2, <4>3
      <3>10. IsFiniteSet(0 .. K)
        BY <1>1, FS_Interval
      <3>9. Renames(ren, row, f, 0 .. K, D)
        <4>1. \A a, b \in D : ren[a] = ren[b] => a = b
          BY <3>5, <3>7
        <4>2. \A t \in D : f[t] = row[ren[t]]
          BY <3>4, <3>7
        <4> QED
          BY <2>3, <3>2, <3>6, <3>7, <3>8, <3>10, <4>1, <4>2 DEF Renames
      <3>11. SumFunction(row) = SumFunction(f)
        BY <3>9, SumRenamed
      <3>12. s # Exit(K, n)
        BY <1>1, <2>2, <2>4, <2>5
      <3> QED
        BY <3>2, <3>11, <3>12 DEF f
    <2>6. CASE ~(m < K)
      <3>1. m = K
        BY <1>1, <2>2, <2>6
      <3> DEFINE ends == g.next[k]
                 c == One \div Cardinality(ends)
                 ren == [t \in D |-> Slot(h, t)]
                 even == [j \in ends |-> c]
      <3>2. ends \in SUBSET (1 .. n) /\ IsFiniteSet(ends)
        <4>1. IsFiniteSet(1 .. n)
          BY <1>1, FS_Interval
        <4>2. ends \in SUBSET (1 .. n)
          BY <1>1, <2>2
        <4> QED
          BY <4>1, <4>2, FS_Subset
      <3>3. \A t \in States(h) : t \in D <=> MState(h, t) = 0 /\ Slot(h, t) \in ends
        BY <2>1, <2>6 DEF Stepping
      <3>4. \A t \in D : f[t] = c
        BY <2>1, <2>6 DEF Weight
      <3>5. CASE ends = {}
        <4>1. D = {}
          BY <2>3, <3>3, <3>5
        <4>2. k = n
          BY <2>2, <3>5 DEF Sharing
        <4>3. f \in [D -> Nat]
          BY <2>1, <4>1
        <4>4. SumFunction(f) = 0
          BY <2>3, <4>1, <4>3, SumIsNat
        <4> QED
          BY <2>4, <3>1, <4>2, <4>4 DEF f
      <3>6. CASE ends # {}
        <4>1. k # n /\ One % Cardinality(ends) = 0
          BY <2>2, <3>6 DEF Sharing
        <4>2. Cardinality(ends) \in Nat \ {0}
          BY <3>2, <3>6, FS_CardinalityType, FS_EmptySet
        <4>3. c \in Nat /\ c * Cardinality(ends) = One
          BY <4>1, <4>2, ShareLaw
        <4> HIDE DEF ends, c
        <4>4. even \in [ends -> {c}] /\ even \in [ends -> Nat] /\ \A j \in ends : even[j] = c
          BY <4>3
        <4>5. ren \in [D -> ends] /\ \A t \in D : ren[t] = Slot(h, t)
          BY <2>3, <3>3
        <4>6. f \in [D -> Nat]
          <5>1. \A t \in D : f[t] \in Nat
            BY <3>4, <4>3
          <5> QED
            BY <2>1, <5>1
        <4> HIDE DEF even, ren
        <4>7. SumFunction(even) = One
          BY <3>2, <4>3, <4>4, SumOfEqual
        <4>8. \A t \in D : t = Entry(K, Slot(h, t)) + 0
          BY <1>3, <2>3, <3>3
        <4>9. ASSUME NEW j \in ends PROVE \E t \in D : ren[t] = j
          <5>1. j \in 1 .. n /\ 0 \in 0 .. K
            BY <1>1, <3>2
          <5>2. /\ Entry(K, j) + 0 \in States(h)
                /\ Slot(h, Entry(K, j) + 0) = j /\ MState(h, Entry(K, j) + 0) = 0
            BY <1>3, <5>1
          <5>3. Entry(K, j) + 0 \in D
            BY <3>3, <5>2
          <5> QED
            BY <4>5, <5>2, <5>3
        <4>10. Renames(ren, even, f, ends, D)
          <5>1. \A a, b \in D : ren[a] = ren[b] => a = b
            BY <4>5, <4>8
          <5>2. \A t \in D : f[t] = even[ren[t]]
            BY <3>4, <4>4, <4>5
          <5> QED
            BY <2>3, <3>2, <4>4, <4>5, <4>6, <4>9, <5>1, <5>2 DEF Renames
        <4>11. SumFunction(even) = SumFunction(f)
          BY <4>10, SumRenamed
        <4> QED
          BY <2>4, <4>1, <4>7, <4>11 DEF f
      <3> QED
        BY <3>5, <3>6
    <2> QED
      BY <2>5, <2>6
  <1> QED
    BY <1>4, <1>6 DEF Massive

-----------------------------------------------------------------------------
(* The optional final silence keeps the mass.                              *)

LEMMA SumOfDoubles ==
    ASSUME NEW D, IsFiniteSet(D), NEW f \in [D -> Nat], NEW g \in [D -> Nat],
           \A d \in D : g[d] = f[d] + f[d]
    PROVE  SumFunction(g) = SumFunction(f) + SumFunction(f) /\ SumFunction(f) \in Nat
  <1>1. PICK sum : Summing(sum, f, D) /\ SumFunction(f) = sum[D]
    BY SumRuns
  <1>2. PICK own : Summing(own, g, D) /\ SumFunction(g) = own[D]
    BY SumRuns
  <1>3. Removable(sum, f, D) /\ Removable(own, g, D)
    BY <1>1, <1>2, AllRemovable
  <1> DEFINE P == {s \in SUBSET D : own[s] = sum[s] + sum[s]}
  <1>4. {} \in P
    BY <1>1, <1>2 DEF Summing
  <1>5. ASSUME NEW s \in SUBSET D, s # {}, \A x \in s : s \ {x} \in P PROVE s \in P
    <2>1. PICK x \in s : TRUE
      BY <1>5
    <2>2. sum[s] = f[x] + sum[s \ {x}] /\ f[x] \in Nat /\ sum[s \ {x}] \in Nat
      BY <1>3 DEF Removable
    <2>3. own[s] = g[x] + own[s \ {x}]
      BY <1>3 DEF Removable
    <2>4. own[s \ {x}] = sum[s \ {x}] + sum[s \ {x}] /\ g[x] = f[x] + f[x]
      BY <1>5
    <2> QED
      BY <2>2, <2>3, <2>4
  <1>6. D \in P
    <2> HIDE DEF P
    <2>1. \A s \in SUBSET D : s \in P
      BY <1>4, <1>5, SubsetInduction
    <2> QED
      BY <2>1
  <1>7. sum[D] \in Nat
    BY <1>1 DEF Summing
  <1> QED
    BY <1>1, <1>2, <1>6, <1>7

\* A share of a unit that twice the number of shares divides is even.
LEMMA ShareIsEven ==
    ASSUME NEW c \in Nat \ {0}, One % (2 * c) = 0
    PROVE  /\ One % c = 0
           /\ One \div c = One \div (2 * c) + One \div (2 * c)
           /\ One \div (2 * c) \in Nat
           /\ (One \div c) \div 2 = One \div (2 * c)
  <1> DEFINE q == One \div (2 * c)
             d == One \div c
             r == One % c
  <1>1. One \in Nat /\ 2 * c \in Nat \ {0} /\ 2 * c = c + c
    BY OneAssumption
  <1>2. q \in Nat /\ (2 * c) * q + (One % (2 * c)) = One
    BY <1>1, DivisionLaw
  <1>3. d \in Nat /\ r \in Nat /\ c * d + r = One /\ r < c
    BY <1>1, DivisionLaw
  <1> HIDE DEF q, d, r
  <1>4. (2 * c) * q = c * (q + q) /\ (2 * c) * q \in Nat /\ q + q \in Nat
    <2>1. (2 * c) * q = 2 * (c * q)
      BY <1>2, SMTT(60)
    <2>2. c * (q + q) = c * q + c * q
      BY <1>2, SMTT(60)
    <2>3. c * q \in Nat
      BY <1>2, Multiples
    <2>4. 2 * (c * q) = c * q + c * q
      BY <2>3
    <2> QED
      BY <1>2, <2>1, <2>2, <2>3, <2>4
  <1>5. c * d + r = c * (q + q) + 0
    BY <1>2, <1>3, <1>4
  <1>6. 0 \in Nat /\ 0 < c
    OBVIOUS
  <1>7. d = q + q /\ r = 0
    BY <1>3, <1>4, <1>5, <1>6, DivisionUnique
  <1>8. (q + q) \div 2 = q
    BY <1>2
  <1> QED
    BY <1>2, <1>7, <1>8 DEF q, d, r

LEMMA BypassStochastic ==
    ASSUME NEW h, NEW g, NEW n, NEW id, NEW K, NEW tmat,
           Buildings(g, n, id, K, tmat), Wired(h, g, n, id, K, tmat), Sharing(g, n, id, K, tmat),
           \A k \in 1 .. n : g.next[k] # {} => One % (2 * Cardinality(g.next[k])) = 0,
           Mirrored(h), Massive(h), h = [K |-> K, id |-> id, next |-> h.next, prior |-> h.prior]
    PROVE  Mirrored(AddBoundaryBypass(h, g)) /\ Massive(AddBoundaryBypass(h, g))
  <1> DEFINE b == AddBoundaryBypass(h, g)
             end == Exit(K, n)
             before == {Exit(K, k) : k \in g.prior[n]}
             Next0(s) ==
               IF s \notin before THEN h.next[s]
               ELSE Both(Halved(h.next[s], DOMAIN h.next[s]), Arc(end, One \div 2))
             Prior0(s) ==
               Both(Halved(h.prior[s], before),
                    IF s = end THEN [x \in before |-> One \div 2] ELSE <<>>)
  <1>1. CASE n < 3
    BY <1>1 DEF AddBoundaryBypass, Buildings
  <1>2. CASE ~(n < 3)
    <2>1. /\ n \in Nat /\ K \in Nat \ {0} /\ Len(h.id) = n /\ h.K = K /\ n \in 1 .. n
          /\ g.next \in [1 .. n -> SUBSET (1 .. n)] /\ g.prior \in [1 .. n -> SUBSET (1 .. n)]
          /\ \A k, j \in 1 .. n : j \in g.next[k] <=> k \in g.prior[j]
      BY <1>2 DEF Buildings
    <2>2. Len(h.id) = n /\ ~(Len(h.id) < 3) /\ Exit(h.K, n) = end
      BY <1>2, <2>1
    <2>3. b = [h EXCEPT !.next = [s \in States(h) |-> Next0(s)],
                        !.prior = [s \in States(h) |-> Prior0(s)]]
      BY <2>1, <2>2 DEF AddBoundaryBypass
    <2>4. /\ b.K = K /\ b.id = h.id
          /\ b.next = [s \in States(h) |-> Next0(s)]
          /\ b.prior = [s \in States(h) |-> Prior0(s)]
      BY <2>1, <2>3
    <2> HIDE DEF b
    <2>5. States(b) = States(h) /\ Len(b.id) * Width(b) = Len(h.id) * Width(h)
      BY <2>1, <2>4 DEF States, Width
    <2>6. Numbered(h, K, n)
      BY <2>1, StatesNumbered
    <2>7. K \in 0 .. K
      BY <2>1
    <2>8. \A k \in 1 .. n : Exit(K, k) \in States(h) /\ Slot(h, Exit(K, k)) = k /\ MState(h, Exit(K, k)) = K
      BY <2>6, <2>7 DEF Numbered
    <2>9. Len(h.id) * Width(h) = end
      BY <2>1 DEF Width, Exit
    <2> HIDE DEF end
    <2>10. end \in States(h) /\ Slot(h, end) = n /\ MState(h, end) = K
      BY <2>1, <2>8 DEF end
    <2>11. \A s \in before : /\ s \in States(h) /\ MState(h, s) = K
                             /\ g.next[Slot(h, s)] # {} /\ s # end
      <3>1. SUFFICES ASSUME NEW k \in g.prior[n]
                     PROVE  /\ Exit(K, k) \in States(h) /\ MState(h, Exit(K, k)) = K
                            /\ g.next[Slot(h, Exit(K, k))] # {} /\ Exit(K, k) # end
        OBVIOUS
      <3>2. k \in 1 .. n
        BY <2>1
      <3>3. n \in g.next[k]
        BY <2>1, <3>2
      <3>4. k # n
        BY <3>2, <3>3 DEF Sharing
      <3> QED
        BY <2>8, <2>10, <3>2, <3>3, <3>4
    <2> HIDE DEF before
    \* Out of an exit, the weights are even and the ends are entries.
    <2>12. ASSUME NEW s \in before
           PROVE  /\ end \notin DOMAIN h.next[s]
                  /\ IsFiniteSet(DOMAIN h.next[s])
                  /\ \A t \in DOMAIN h.next[s] :
                       /\ h.next[s][t] \in Nat /\ h.next[s][t] \div 2 \in Nat
                       /\ h.next[s][t] = h.next[s][t] \div 2 + h.next[s][t] \div 2
      <3> DEFINE k == Slot(h, s)
                 c == Cardinality(g.next[k])
      <3>1. s \in States(h) /\ MState(h, s) = K /\ g.next[k] # {} /\ k \in 1 .. n
        BY <2>6, <2>11 DEF Numbered
      <3>2. ~(K < K)
        BY <2>1
      <3>3. \A t \in DOMAIN h.next[s] : /\ t \in States(h) /\ MState(h, t) = 0
                                        /\ h.next[s][t] = One \div c
        BY <3>1, <3>2 DEF Wired, Stepping, Weight
      <3>4. end \notin DOMAIN h.next[s]
        BY <2>1, <2>10, <3>3
      <3>5. IsFiniteSet(DOMAIN h.next[s])
        <4>1. DOMAIN h.next[s] \in SUBSET States(h) /\ IsFiniteSet(States(h))
          BY <2>6, <3>3 DEF Numbered
        <4> QED
          BY <4>1, FS_Subset
      <3>6. c \in Nat \ {0} /\ One % (2 * c) = 0
        <4>1. IsFiniteSet(1 .. n)
          <5>1. 1 \in Int /\ n \in Int
            BY <2>1
          <5> QED
            BY <5>1, FS_Interval
        <4>2. g.next[k] \in SUBSET (1 .. n)
          BY <2>1, <3>1
        <4>3. IsFiniteSet(g.next[k])
          BY <4>1, <4>2, FS_Subset
        <4> QED
          BY <3>1, <4>3, FS_CardinalityType, FS_EmptySet
      <3> HIDE DEF k, c
      <3>7. /\ One \div c = One \div (2 * c) + One \div (2 * c)
            /\ One \div (2 * c) \in Nat
            /\ (One \div c) \div 2 = One \div (2 * c)
        BY <3>6, ShareIsEven
      <3>8. One \div c \in Nat
        BY <3>7
      <3> QED
        BY <3>3, <3>4, <3>5, <3>7, <3>8
    <2>13. \A s \in States(h) : s \notin before => b.next[s] = h.next[s]
      BY <2>4
    <2>14. ASSUME NEW s \in before
           PROVE  /\ DOMAIN b.next[s] = DOMAIN h.next[s] \cup {end}
                  /\ \A t \in DOMAIN h.next[s] : b.next[s][t] = h.next[s][t] \div 2
                  /\ b.next[s][end] = One \div 2
                  /\ b.next[s] = [t \in DOMAIN b.next[s] |-> b.next[s][t]]
      <3> DEFINE a == Halved(h.next[s], DOMAIN h.next[s])
                 o == Arc(end, One \div 2)
      <3>1. b.next[s] = Both(a, o)
        BY <2>4, <2>11
      <3>2. DOMAIN a = DOMAIN h.next[s] /\ \A t \in DOMAIN h.next[s] : a[t] = h.next[s][t] \div 2
        BY DEF Halved
      <3>3. DOMAIN o = {end} /\ o[end] = One \div 2
        BY DEF Arc
      <3>4. Both(a, o) = [t \in DOMAIN a \cup DOMAIN o |-> IF t \in DOMAIN a THEN a[t] ELSE o[t]]
        BY DEF Both
      <3> HIDE DEF a, o
      <3> QED
        BY <2>12, <3>1, <3>2, <3>3, <3>4
    <2>15. ASSUME NEW s \in States(h)
           PROVE  /\ DOMAIN b.prior[s] = DOMAIN h.prior[s] \cup (IF s = end THEN before ELSE {})
                  /\ \A t \in DOMAIN h.prior[s] :
                       b.prior[s][t] = IF t \in before THEN h.prior[s][t] \div 2 ELSE h.prior[s][t]
                  /\ s = end => \A t \in before \ DOMAIN h.prior[s] : b.prior[s][t] = One \div 2
      <3> DEFINE a == Halved(h.prior[s], before)
                 o == IF s = end THEN [x \in before |-> One \div 2] ELSE <<>>
      <3>1. b.prior[s] = Both(a, o)
        BY <2>4
      <3>2. /\ DOMAIN a = DOMAIN h.prior[s]
            /\ \A t \in DOMAIN h.prior[s] :
                 a[t] = IF t \in before THEN h.prior[s][t] \div 2 ELSE h.prior[s][t]
        BY DEF Halved
      <3>3. DOMAIN o = IF s = end THEN before ELSE {}
        OBVIOUS
      <3>4. s = end => \A t \in before : o[t] = One \div 2
        OBVIOUS
      <3>5. Both(a, o) = [t \in DOMAIN a \cup DOMAIN o |-> IF t \in DOMAIN a THEN a[t] ELSE o[t]]
        BY DEF Both
      <3> HIDE DEF a, o
      <3> QED
        BY <3>1, <3>2, <3>3, <3>4, <3>5
    <2>16. Mirrored(b)
      <3>1. ASSUME NEW s \in States(h), NEW t \in DOMAIN b.next[s]
            PROVE  t \in States(h) /\ s \in DOMAIN b.prior[t] /\ b.prior[t][s] = b.next[s][t]
        <4>1. CASE s \notin before
          <5>1. t \in DOMAIN h.next[s] /\ b.next[s][t] = h.next[s][t]
            BY <2>13, <4>1
          <5>2. t \in States(h) /\ s \in DOMAIN h.prior[t] /\ h.prior[t][s] = h.next[s][t]
            BY <5>1 DEF Mirrored
          <5> QED
            BY <2>15, <4>1, <5>1, <5>2
        <4>2. CASE s \in before /\ t \in DOMAIN h.next[s]
          <5>1. t \in States(h) /\ s \in DOMAIN h.prior[t] /\ h.prior[t][s] = h.next[s][t]
            BY <4>2 DEF Mirrored
          <5>2. b.next[s][t] = h.next[s][t] \div 2
            BY <2>14, <4>2
          <5>3. s \in DOMAIN b.prior[t] /\ b.prior[t][s] = h.prior[t][s] \div 2
            BY <2>15, <4>2, <5>1
          <5> QED
            BY <5>1, <5>2, <5>3
        <4>3. CASE s \in before /\ t \notin DOMAIN h.next[s]
          <5>1. t = end /\ b.next[s][t] = One \div 2
            BY <2>14, <4>3
          <5>2. s \notin DOMAIN h.prior[end]
            BY <2>10, <4>3, <5>1 DEF Mirrored
          <5> QED
            BY <2>10, <2>15, <4>3, <5>1, <5>2
        <4> QED
          BY <4>1, <4>2, <4>3
      <3>2. ASSUME NEW s \in States(h), NEW t \in DOMAIN b.prior[s]
            PROVE  t \in States(h) /\ s \in DOMAIN b.next[t]
        <4>1. CASE t \in DOMAIN h.prior[s]
          <5>1. t \in States(h) /\ s \in DOMAIN h.next[t]
            BY <4>1 DEF Mirrored
          <5> QED
            BY <2>13, <2>14, <5>1
        <4>2. CASE t \notin DOMAIN h.prior[s]
          <5>1. s = end /\ t \in before
            BY <2>15, <4>2
          <5> QED
            BY <2>11, <2>14, <5>1
        <4> QED
          BY <4>1, <4>2
      <3> QED
        BY <2>5, <3>1, <3>2 DEF Mirrored
    <2>17. Massive(b)
      <3>1. ASSUME NEW s \in States(h), s \notin before
            PROVE  SumFunction(b.next[s]) = IF s = end THEN 0 ELSE One
        BY <2>9, <2>13, <3>1 DEF Massive
      <3>2. ASSUME NEW s \in before PROVE SumFunction(b.next[s]) = One /\ s # end
        <4> DEFINE D == DOMAIN h.next[s]
                   f == b.next[s]
                   half == [d \in D |-> f[d]]
                   whole == h.next[s]
        <4>1. s \in States(h) /\ s # end
          BY <2>11
        <4>2. SumFunction(whole) = One
          BY <2>9, <4>1 DEF Massive
        <4>3. /\ IsFiniteSet(D) /\ end \notin D
              /\ \A d \in D : /\ whole[d] \in Nat /\ whole[d] \div 2 \in Nat
                              /\ whole[d] = whole[d] \div 2 + whole[d] \div 2
          BY <2>12
        <4>4. /\ DOMAIN f = D \cup {end} /\ f[end] = One \div 2
              /\ \A d \in D : f[d] = whole[d] \div 2
              /\ f = [t \in DOMAIN f |-> f[t]]
          BY <2>14
        <4>5. whole = [t \in D |-> whole[t]]
          BY <4>1 DEF Wired
        <4> HIDE DEF D, f, whole
        <4>6. whole \in [D -> Nat] /\ half \in [D -> Nat] /\ \A d \in D : whole[d] = half[d] + half[d]
          BY <4>3, <4>4, <4>5
        <4>7. One \in Nat /\ One \div 2 \in Nat
          BY OneAssumption
        <4>8. f \in [D \cup {end} -> Nat]
          <5>1. \A t \in D \cup {end} : f[t] \in Nat
            BY <4>3, <4>4, <4>7
          <5> QED
            BY <4>4, <5>1
        <4>9. SumFunction(f) = f[end] + SumFunction(half)
          <5> DEFINE E == D \cup {end}
          <5>1. IsFiniteSet(E)
            BY <4>3, FS_AddElement
          <5>2. E \ {end} = D /\ end \in E
            BY <4>3
          <5>3. half = [d \in E \ {end} |-> f[d]]
            BY <5>2
          <5> HIDE DEF E, half
          <5>4. f \in [E -> Nat]
            BY <4>8 DEF E
          <5> QED
            BY <5>1, <5>2, <5>3, <5>4, SumOneMore
        <4> HIDE DEF half
        <4>10. One = SumFunction(half) + SumFunction(half) /\ SumFunction(half) \in Nat
          BY <4>2, <4>3, <4>6, SumOfDoubles
        <4>11. \A i \in Nat : One = i + i => One \div 2 + i = One
          BY <4>7
        <4> QED
          BY <4>1, <4>4, <4>9, <4>10, <4>11 DEF f
      <3> QED
        BY <2>5, <2>9, <3>1, <3>2 DEF Massive
    <2> QED
      BY <2>16, <2>17 DEF b
  <1> QED
    BY <1>1, <1>2 DEF Buildings

-----------------------------------------------------------------------------
(* The linear builder is the graph builder on a chain.                     *)

\* The graph of a linear list.
Chain(n) == [next  |-> [k \in 1 .. n |-> IF k = n THEN {} ELSE {k + 1}],
             prior |-> [k \in 1 .. n |-> IF k = 1 THEN {} ELSE {k - 1}]]

LEMMA ChainEnds ==
    ASSUME NEW n \in Nat
    PROVE  /\ Chain(n).next \in [1 .. n -> SUBSET (1 .. n)]
           /\ Chain(n).prior \in [1 .. n -> SUBSET (1 .. n)]
           /\ \A k \in 1 .. n : /\ k = n => Chain(n).next[k] = {}
                                /\ k # n => Chain(n).next[k] = {k + 1}
                                /\ k = 1 => Chain(n).prior[k] = {}
                                /\ k # 1 => Chain(n).prior[k] = {k - 1}
  <1>1. \A k \in 1 .. n : /\ k # n => k + 1 \in 1 .. n
                          /\ k # 1 => k - 1 \in 1 .. n
    OBVIOUS
  <1>2. \A k \in 1 .. n : /\ (IF k = n THEN {} ELSE {k + 1}) \in SUBSET (1 .. n)
                          /\ (IF k = 1 THEN {} ELSE {k - 1}) \in SUBSET (1 .. n)
    BY <1>1
  <1>3. /\ Chain(n).next = [k \in 1 .. n |-> IF k = n THEN {} ELSE {k + 1}]
        /\ Chain(n).prior = [k \in 1 .. n |-> IF k = 1 THEN {} ELSE {k - 1}]
    BY DEF Chain
  <1> QED
    BY <1>2, <1>3

LEMMA NoArcs ==
    ASSUME NEW f, DOMAIN f = {}, f = [x \in DOMAIN f |-> f[x]]
    PROVE  f = <<>>
  <1>1. <<>> \in Seq({}) /\ Len(<<>>) = 0
    OBVIOUS
  <1>2. <<>> \in [1 .. 0 -> {}]
    BY <1>1, LenProperties
  <1>3. DOMAIN <<>> = {} /\ <<>> = [x \in DOMAIN <<>> |-> <<>>[x]]
    BY <1>2
  <1> QED
    BY <1>3

\* With one successor, an exit's share is the whole unit.
LEMMA ListIsChain ==
    ASSUME NEW K \in Nat \ {0}, NEW id, NEW n \in Nat, Len(id) = n, NEW tmat
    PROVE  StateSeqMake(id, K, tmat) = StateSeqMakeGraph(Chain(n), id, K, tmat)
  <1> DEFINE g == Chain(n)
             shape == [K |-> K, id |-> id, next |-> <<>>, prior |-> <<>>]
             Share(k) == One \div Cardinality(g.next[k])
             Next0(s) ==
               LET k == Slot(shape, s) IN
               IF MState(shape, s) < K THEN Within(tmat[id[k].base], K, k, MState(shape, s))
               ELSE [t \in {Entry(K, j) : j \in g.next[k]} |-> Share(k)]
             Prior0(s) ==
               LET k == Slot(shape, s)
                   cross == IF MState(shape, s) > 0 THEN {} ELSE g.prior[k] IN
               Both([x \in {Exit(K, j) : j \in cross} |-> Share(Slot(shape, x))],
                    WithinPrior(tmat[id[k].base], K, k, MState(shape, s)))
             Next1(s) ==
               LET k == Slot(shape, s) IN
               IF MState(shape, s) < K THEN Within(tmat[id[k].base], K, k, MState(shape, s))
               ELSE IF k = Len(id) THEN <<>> ELSE Arc(s + 1, One)
             Prior1(s) ==
               LET k == Slot(shape, s) IN
               Both(IF MState(shape, s) = 0 /\ k > 1 THEN Arc(s - 1, One) ELSE <<>>,
                    WithinPrior(tmat[id[k].base], K, k, MState(shape, s)))
  <1>1. StateSeqMakeGraph(g, id, K, tmat)
          = [shape EXCEPT !.next = [s \in States(shape) |-> Next0(s)],
                          !.prior = [s \in States(shape) |-> Prior0(s)]]
    BY DEF StateSeqMakeGraph
  <1>2. StateSeqMake(id, K, tmat)
          = [shape EXCEPT !.next = [s \in States(shape) |-> Next1(s)],
                          !.prior = [s \in States(shape) |-> Prior1(s)]]
    BY DEF StateSeqMake
  <1>3. Numbered(shape, K, n)
    BY StatesNumbered
  <1>4. /\ \A s \in States(shape) : /\ Slot(shape, s) \in 1 .. n /\ MState(shape, s) \in 0 .. K
                                    /\ s = Entry(K, Slot(shape, s)) + MState(shape, s)
        /\ \A k \in 1 .. n : /\ Entry(K, k) \in Nat /\ Exit(K, k) = Entry(K, k) + K
                             /\ \A m \in 0 .. K : /\ Entry(K, k) + m \in States(shape)
                                                  /\ Slot(shape, Entry(K, k) + m) = k
                                                  /\ MState(shape, Entry(K, k) + m) = m
    BY <1>3 DEF Numbered
  <1>5. \A k \in 1 .. n : /\ k = n => g.next[k] = {}
                          /\ k # n => g.next[k] = {k + 1}
                          /\ k = 1 => g.prior[k] = {}
                          /\ k # 1 => g.prior[k] = {k - 1}
    BY ChainEnds
  <1>6. \A k \in 1 .. n : k # n => Share(k) = One
    <2>1. \A k \in 1 .. n : k # n => Cardinality(g.next[k]) = 1
      BY <1>5, FS_Singleton
    <2>2. One \div 1 = One
      BY OneAssumption
    <2> QED
      BY <2>1, <2>2
  <1> HIDE DEF shape, g, Share
  <1>7. \A k \in 1 .. n : k # n => Entry(K, k + 1) = Exit(K, k) + 1
    <2>1. ASSUME NEW k \in 1 .. n PROVE Entry(K, k + 1) = Exit(K, k) + 1
      <3>1. (k + 1) - 1 = k
        OBVIOUS
      <3> QED
        BY <3>1 DEF Entry, Exit
    <2> QED
      BY <2>1
  <1>8. ASSUME NEW s \in States(shape) PROVE Next0(s) = Next1(s)
    <2> DEFINE k == Slot(shape, s)
               m == MState(shape, s)
    <2>1. k \in 1 .. n /\ m \in 0 .. K /\ s = Entry(K, k) + m
      BY <1>4
    <2> HIDE DEF k, m
    <2>2. CASE m < K
      BY <2>2 DEF k, m
    <2>3. CASE ~(m < K)
      <3>1. s = Exit(K, k)
        <4>1. m = K
          BY <2>1, <2>3
        <4> QED
          BY <1>4, <2>1, <4>1
      <3> DEFINE f == [t \in {Entry(K, j) : j \in g.next[k]} |-> Share(k)]
      <3>2. Next0(s) = f
        BY <2>3 DEF k, m
      <3>3. Next1(s) = IF k = n THEN <<>> ELSE Arc(s + 1, One)
        BY <2>3 DEF k, m
      <3> HIDE DEF Next0, Next1
      <3>4. CASE k = n
        <4>1. g.next[k] = {}
          BY <1>5, <2>1, <3>4
        <4>2. DOMAIN f = {}
          BY <4>1
        <4>3. f = [x \in DOMAIN f |-> f[x]]
          OBVIOUS
        <4> HIDE DEF f
        <4>4. f = <<>>
          BY <4>2, <4>3, NoArcs
        <4> QED
          BY <3>2, <3>3, <3>4, <4>4
      <3>5. CASE k # n
        <4>1. g.next[k] = {k + 1} /\ Share(k) = One
          BY <1>5, <1>6, <2>1, <3>5
        <4>2. {Entry(K, j) : j \in g.next[k]} = {s + 1}
          BY <1>7, <2>1, <3>1, <3>5, <4>1
        <4>3. f = Arc(s + 1, One)
          BY <4>1, <4>2 DEF Arc
        <4> QED
          BY <3>2, <3>3, <3>5, <4>3
      <3> QED
        BY <3>4, <3>5
    <2> QED
      BY <2>2, <2>3
  <1>9. ASSUME NEW s \in States(shape) PROVE Prior0(s) = Prior1(s)
    <2> DEFINE k == Slot(shape, s)
               m == MState(shape, s)
               cross == IF m > 0 THEN {} ELSE g.prior[k]
               f == [x \in {Exit(K, j) : j \in cross} |-> Share(Slot(shape, x))]
               o == WithinPrior(tmat[id[k].base], K, k, m)
               a == IF m = 0 /\ k > 1 THEN Arc(s - 1, One) ELSE <<>>
    <2>1. k \in 1 .. n /\ m \in 0 .. K /\ s = Entry(K, k) + m
      BY <1>4
    <2>2. Prior0(s) = Both(f, o) /\ Prior1(s) = Both(a, o)
      OBVIOUS
    <2> HIDE DEF k, m, o, Prior0, Prior1
    <2>3. CASE m = 0 /\ k > 1
      <3>1. cross = {k - 1} /\ k - 1 \in 1 .. n /\ k - 1 # n
        <4>1. cross = g.prior[k]
          BY <2>3
        <4>2. k # 1 /\ k - 1 \in 1 .. n /\ k - 1 # n
          BY <2>1, <2>3
        <4> HIDE DEF cross
        <4> QED
          BY <1>5, <2>1, <4>1, <4>2
      <3>2. (k - 1) + 1 = k
        BY <2>1
      <3>3. Entry(K, k) = Exit(K, k - 1) + 1
        BY <1>7, <3>1, <3>2
      <3>4. K \in 0 .. K /\ K \in Nat
        OBVIOUS
      <3>5. Exit(K, k - 1) = Entry(K, k - 1) + K /\ Entry(K, k - 1) \in Nat
            /\ Slot(shape, Exit(K, k - 1)) = k - 1
        BY <1>4, <3>1, <3>4
      <3>6. s - 1 = Exit(K, k - 1)
        BY <2>1, <2>3, <3>3, <3>4, <3>5
      <3>7. Share(Slot(shape, s - 1)) = One
        BY <1>6, <3>1, <3>5, <3>6
      <3>8. {Exit(K, j) : j \in cross} = {s - 1}
        BY <3>1, <3>6
      <3>9. f = [x \in {s - 1} |-> Share(Slot(shape, x))]
        BY <3>8
      <3>10. f = Arc(s - 1, One)
        BY <3>7, <3>9 DEF Arc
      <3> QED
        BY <2>2, <2>3, <3>10
    <2>4. CASE ~(m = 0 /\ k > 1)
      <3>1. cross = {}
        <4>1. CASE m > 0
          BY <4>1
        <4>2. CASE ~(m > 0)
          <5>1. cross = g.prior[k] /\ k = 1
            BY <2>1, <2>4, <4>2
          <5> HIDE DEF cross
          <5> QED
            BY <1>5, <2>1, <5>1
        <4> QED
          BY <4>1, <4>2
      <3>2. DOMAIN f = {}
        BY <3>1
      <3>3. f = [x \in DOMAIN f |-> f[x]]
        OBVIOUS
      <3> HIDE DEF f
      <3>4. f = <<>>
        BY <3>2, <3>3, NoArcs
      <3> QED
        BY <2>2, <2>4, <3>4
    <2> QED
      BY <2>3, <2>4
  <1>10. [s \in States(shape) |-> Next0(s)] = [s \in States(shape) |-> Next1(s)]
    <2> HIDE DEF Next0, Next1
    <2> QED
      BY <1>8
  <1>11. [s \in States(shape) |-> Prior0(s)] = [s \in States(shape) |-> Prior1(s)]
    <2> HIDE DEF Prior0, Prior1
    <2> QED
      BY <1>9
  <1> QED
    BY <1>1, <1>2, <1>10, <1>11 DEF g

LEMMA ChainBuildings ==
    ASSUME NEW n \in Nat, NEW id, Len(id) = n, NEW K \in Nat \ {0}, NEW tmat,
           \A k \in 1 .. n : tmat[id[k].base] \in [0 .. K - 1 -> [0 .. K -> Nat]],
           \A k \in 1 .. n : \A m \in 0 .. K - 1 : SumFunction(tmat[id[k].base][m]) = One
    PROVE  Buildings(Chain(n), n, id, K, tmat) /\ Sharing(Chain(n), n, id, K, tmat)
  <1> DEFINE g == Chain(n)
  <1>1. /\ g.next \in [1 .. n -> SUBSET (1 .. n)] /\ g.prior \in [1 .. n -> SUBSET (1 .. n)]
        /\ \A k \in 1 .. n : /\ k = n => g.next[k] = {}
                             /\ k # n => g.next[k] = {k + 1}
                             /\ k = 1 => g.prior[k] = {}
                             /\ k # 1 => g.prior[k] = {k - 1}
    BY ChainEnds
  <1> HIDE DEF g
  <1>2. \A k, j \in 1 .. n : j \in g.next[k] <=> k \in g.prior[j]
    <2>1. \A k, j \in 1 .. n : (k # n /\ j = k + 1) <=> (j # 1 /\ k = j - 1)
      OBVIOUS
    <2>2. \A k, j \in 1 .. n : j \in g.next[k] <=> (k # n /\ j = k + 1)
      BY <1>1
    <2>3. \A k, j \in 1 .. n : k \in g.prior[j] <=> (j # 1 /\ k = j - 1)
      BY <1>1
    <2>4. ASSUME NEW k \in 1 .. n, NEW j \in 1 .. n PROVE j \in g.next[k] <=> k \in g.prior[j]
      <3>1. j \in g.next[k] <=> (k # n /\ j = k + 1)
        BY <2>2
      <3>2. k \in g.prior[j] <=> (j # 1 /\ k = j - 1)
        BY <2>3
      <3> QED
        BY <2>1, <3>1, <3>2
    <2> QED
      BY <2>4
  <1>3. \A k \in 1 .. n : g.next[k] = {} <=> k = n
    BY <1>1
  <1>4. \A k \in 1 .. n : g.next[k] # {} => One % Cardinality(g.next[k]) = 0
    <2>1. One % 1 = 0
      BY OneAssumption
    <2>2. \A k \in 1 .. n : g.next[k] # {} => Cardinality(g.next[k]) = 1
      BY <1>1, FS_Singleton
    <2> QED
      BY <2>1, <2>2
  <1> QED
    BY <1>1, <1>2, <1>3, <1>4 DEF Buildings, Sharing, g

-----------------------------------------------------------------------------
(* The words of a transcript end in its one last slot.                     *)

\* Words that are left by Sounded: each has a pronunciation, and each of those a phone.
Voiced(words) ==
  \A i \in 1 .. Len(words) :
    Len(words[i]) # 0 /\ \A v \in 1 .. Len(words[i]) : Len(words[i][v].phones) # 0

\* The run of one pronunciation starts with its first phone and ends with its last.
LEMMA RunEnds ==
    ASSUME NEW E, NEW words, Spelled(words, E), NEW i \in 1 .. Len(words),
           NEW v \in 1 .. Len(words[i])
    PROVE  LET phones == words[i][v].phones
               r == Run(words, i, v)
           IN  /\ phones \in Seq(Phones) /\ Len(r) = Len(phones) /\ Len(r) \in Nat
               /\ \A p \in 1 .. Len(r) : /\ r[p].phone = phones[p]
                                         /\ r[p].first <=> p = 1
                                         /\ r[p].last <=> p = Len(r)
  <1> DEFINE phones == words[i][v].phones
             n == Len(phones)
             r == Run(words, i, v)
  <1>1. phones \in Seq(Phones)
    <2>1. words[i] \in Seq(E)
      BY DEF Spelled
    <2>2. words[i][v] \in E
      BY <2>1
    <2> QED
      BY <2>2 DEF Spelled
  <1>2. n \in Nat /\ DOMAIN phones = 1 .. n
    BY <1>1
  <1>3. r = [p \in 1 .. n |-> [word |-> i, variant |-> v, phone |-> phones[p],
                               first |-> p = 1, last |-> p = n]]
    BY <1>2 DEF Run
  <1>4. Connected(r)
    BY RunConnected
  <1> HIDE DEF phones, n, r
  <1>5. r \in Seq(SlotType) /\ DOMAIN r = 1 .. n
    BY <1>3, <1>4 DEF Connected
  <1>6. Len(r) = n
    BY <1>2, <1>5, LenProperties
  <1>7. \A p \in 1 .. n : r[p].phone = phones[p] /\ (r[p].first <=> p = 1) /\ (r[p].last <=> p = n)
    BY <1>3
  <1> QED
    BY <1>1, <1>2, <1>6, <1>7 DEF phones, n, r

\* What is known of the slots of one word.
Framed(b, phones, single) ==
  /\ b \in Seq(SlotType) /\ Len(b) \in Nat \ {0} /\ b[1].first /\ b[Len(b)].last
  /\ single => /\ b[Len(b)].phone = Last(phones)
               /\ \A p \in 1 .. Len(b) : b[p].last => p = Len(b)

\* The last element of a concatenation is that of its last part.
LEMMA LastPart ==
    ASSUME NEW n \in Nat \ {0}, NEW len \in [1 .. n -> Nat], NEW off, Ranks(off, len, n),
           len[n] # 0
    PROVE  /\ n \in 1 .. n /\ len[n] \in 1 .. len[n] /\ off[n] = off[n - 1] + len[n]
           /\ off[n] \in Nat \ {0} /\ off[n - 1] \in Nat
  <1>1. n \in 1 .. n /\ n - 1 \in 0 .. n /\ len[n] \in Nat
    OBVIOUS
  <1>2. off[n] = off[n - 1] + len[n] /\ off[n - 1] \in Nat
    BY <1>1 DEF Ranks
  <1> QED
    BY <1>1, <1>2

LEMMA FirstPart ==
    ASSUME NEW n \in Nat \ {0}, NEW len \in [1 .. n -> Nat], NEW off, Ranks(off, len, n),
           len[1] # 0
    PROVE  1 \in 1 .. n /\ 1 \in 1 .. len[1] /\ off[1 - 1] + 1 = 1
  <1>1. 1 \in 1 .. n /\ len[1] \in Nat
    OBVIOUS
  <1>2. 1 - 1 = 0 /\ off[0] = 0
    BY DEF Ranks
  <1> QED
    BY <1>1, <1>2

LEMMA BlockFramed ==
    ASSUME NEW E, NEW words, Spelled(words, E), Voiced(words), NEW i \in 1 .. Len(words)
    PROVE  Framed(Block(words, i), words[i][1].phones, Len(words[i]) = 1)
  <1> DEFINE n == Len(words[i])
             ss == [v \in 1 .. n |-> Run(words, i, v)]
             len == [v \in 1 .. n |-> Len(ss[v])]
             flat == FlattenSeq(ss)
  <1>1. n \in Nat \ {0} /\ DOMAIN words[i] = 1 .. n
    BY DEF Spelled, Voiced
  <1>2. \A v \in 1 .. n : Run(words, i, v) \in Seq(SlotType)
    BY RunConnected DEF Connected
  <1>3. ss \in [1 .. n -> Seq(SlotType)]
    BY <1>2
  <1>4. ss \in Seq(Seq(SlotType)) /\ Len(ss) = n /\ \A v \in 1 .. n : ss[v] = Run(words, i, v)
    BY <1>1, <1>3, AsSeq
  <1>5. Block(words, i) = flat
    BY <1>1 DEF Block
  <1>6. PICK off : Offsets(off, ss, flat)
    BY <1>4, FlattenOffsets
  <1>7. /\ Ranks(off, len, n) /\ Len(flat) = off[n]
        /\ \A v \in 1 .. n : \A p \in 1 .. len[v] : flat[off[v - 1] + p] = ss[v][p]
    BY <1>4, <1>6 DEF Offsets
  <1>8. len \in [1 .. n -> Nat]
    BY <1>4, Lengths
  <1>9. \A v \in 1 .. n : len[v] = Len(Run(words, i, v)) /\ ss[v] = Run(words, i, v)
    BY <1>4
  <1>10. ASSUME NEW v \in 1 .. n
         PROVE  /\ len[v] \in Nat \ {0} /\ len[v] = Len(words[i][v].phones)
                /\ \A p \in 1 .. len[v] : /\ ss[v][p].phone = words[i][v].phones[p]
                                          /\ ss[v][p].first <=> p = 1
                                          /\ ss[v][p].last <=> p = len[v]
    <2>1. Len(words[i][v].phones) # 0
      BY DEF Voiced
    <2> HIDE DEF len, ss
    <2> QED
      BY <1>9, <2>1, RunEnds
  <1>11. flat \in Seq(SlotType)
    BY <1>4, FlattenOffsets
  <1> HIDE DEF ss, len, flat
  <1>12. flat[1].first
    <2>1. 1 \in 1 .. n /\ len[1] # 0
      BY <1>1, <1>10
    <2>2. 1 \in 1 .. len[1] /\ off[1 - 1] + 1 = 1
      BY <1>1, <1>7, <1>8, <2>1, FirstPart
    <2>3. flat[off[1 - 1] + 1] = ss[1][1]
      BY <1>7, <2>1, <2>2
    <2> QED
      BY <1>10, <2>1, <2>2, <2>3
  <1>13. Len(flat) \in Nat \ {0} /\ flat[Len(flat)] = ss[n][len[n]] /\ flat[Len(flat)].last
    <2>1. n \in 1 .. n /\ len[n] # 0
      BY <1>1, <1>10
    <2>2. len[n] \in 1 .. len[n] /\ off[n] = off[n - 1] + len[n] /\ off[n] \in Nat \ {0}
      BY <1>1, <1>7, <1>8, <2>1, LastPart
    <2>3. flat[off[n - 1] + len[n]] = ss[n][len[n]]
      BY <1>7, <2>1, <2>2
    <2>4. ss[n][len[n]].last <=> len[n] = len[n]
      BY <1>10, <2>1, <2>2
    <2> HIDE DEF n
    <2> QED
      BY <1>7, <2>2, <2>3, <2>4
  <1>14. ASSUME n = 1
         PROVE  /\ flat[Len(flat)].phone = Last(words[i][1].phones)
                /\ \A p \in 1 .. Len(flat) : flat[p].last => p = Len(flat)
    <2>1. 1 \in 1 .. n /\ 1 - 1 = 0 /\ off[0] = 0 /\ off[1] = off[1 - 1] + len[1]
      BY <1>7, <1>14 DEF Ranks
    <2>2. len[1] \in Nat \ {0} /\ len[1] = Len(words[i][1].phones)
      BY <1>10, <2>1
    <2>3. Len(flat) = len[1]
      BY <1>7, <1>14, <2>1, <2>2
    <2>4. \A p \in 1 .. len[1] : flat[p] = ss[1][p]
      <3>1. \A p \in 1 .. len[1] : off[1 - 1] + p = p
        BY <2>1, <2>2
      <3> QED
        BY <1>7, <2>1, <3>1
    <2>5. len[1] \in 1 .. len[1]
      BY <2>2
    <2> QED
      BY <1>10, <2>1, <2>2, <2>3, <2>4, <2>5 DEF Last
  <1> HIDE DEF n
  <1>15. Len(words[i]) = 1 => n = 1
    BY DEF n
  <1> QED
    BY <1>5, <1>11, <1>12, <1>13, <1>14, <1>15 DEF Framed

\* The slots of a transcript that ends in a word of one pronunciation.
Ended(slots, w, phones) ==
  /\ \A k \in 1 .. Len(slots) : slots[k].word \in 1 .. w
  /\ \A i \in 1 .. w : \E k \in 1 .. Len(slots) : slots[k].word = i /\ slots[k].first
  /\ Len(slots) \in Nat \ {0}
  /\ slots[Len(slots)].word = w /\ slots[Len(slots)].last
  /\ slots[Len(slots)].phone = Last(phones)
  /\ \A k \in 1 .. Len(slots) : slots[k].word = w /\ slots[k].last => k = Len(slots)

LEMMA SlotsEnded ==
    ASSUME NEW E, NEW words, Spelled(words, E), Voiced(words), words # <<>>,
           Len(words[Len(words)]) = 1
    PROVE  Ended(Slots(words), Len(words), words[Len(words)][1].phones)
  <1> DEFINE n == Len(words)
             ss == [i \in 1 .. n |-> Block(words, i)]
             len == [i \in 1 .. n |-> Len(ss[i])]
             flat == FlattenSeq(ss)
             phones == words[n][1].phones
  <1>1. n \in Nat \ {0} /\ DOMAIN words = 1 .. n
    <2>1. words \in Seq(Seq(E))
      BY DEF Spelled
    <2> QED
      BY <2>1, LenProperties, EmptySeq
  <1>2. \A i \in 1 .. n : Framed(Block(words, i), words[i][1].phones, Len(words[i]) = 1)
    BY BlockFramed
  <1>3. ss \in [1 .. n -> Seq(SlotType)]
    BY <1>2 DEF Framed
  <1>4. ss \in Seq(Seq(SlotType)) /\ Len(ss) = n /\ \A i \in 1 .. n : ss[i] = Block(words, i)
    BY <1>1, <1>3, AsSeq
  <1>5. Slots(words) = flat
    BY <1>1 DEF Slots, Block, Run
  <1>6. PICK off : Offsets(off, ss, flat)
    BY <1>4, FlattenOffsets
  <1>7. /\ Ranks(off, len, n) /\ Len(flat) = off[n]
        /\ \A i \in 1 .. n : \A p \in 1 .. len[i] : flat[off[i - 1] + p] = ss[i][p]
    BY <1>4, <1>6 DEF Offsets
  <1>8. len \in [1 .. n -> Nat]
    BY <1>4, Lengths
  <1>9. \A i \in 1 .. n : len[i] = Len(ss[i])
    OBVIOUS
  <1>10. ASSUME NEW i \in 1 .. n
         PROVE  /\ Framed(ss[i], words[i][1].phones, Len(words[i]) = 1)
                /\ \A p \in 1 .. len[i] : ss[i][p].word = i
    BY <1>2, <1>4, <1>9, BlockConnected
  <1>n. n \in 1 .. n
    BY <1>1
  <1>e. Framed(ss[n], phones, TRUE)
    BY <1>10, <1>n
  <1> HIDE DEF n, ss, len, flat, phones
  <1>11. \A i \in 1 .. n : /\ len[i] \in Nat \ {0} /\ 1 \in 1 .. len[i] /\ len[i] \in 1 .. len[i]
                           /\ ss[i][1].first /\ ss[i][len[i]].last
    <2>1. \A i \in 1 .. n : len[i] \in Nat \ {0} /\ ss[i][1].first /\ ss[i][len[i]].last
      BY <1>9, <1>10 DEF Framed
    <2> QED
      BY <2>1
  <1>12. Len(flat) \in Nat \ {0} /\ flat[Len(flat)] = ss[n][len[n]] /\ Len(flat) = off[n - 1] + len[n]
    <2>1. n \in 1 .. n /\ len[n] # 0 /\ len[n] \in 1 .. len[n]
      BY <1>n, <1>11
    <2>2. off[n] = off[n - 1] + len[n] /\ off[n] \in Nat \ {0}
      BY <1>1, <1>7, <1>8, <2>1, LastPart
    <2> QED
      BY <1>7, <2>1, <2>2
  <1>13. ASSUME NEW k \in 1 .. Len(flat)
         PROVE  \E i \in 1 .. n : \E p \in 1 .. len[i] :
                  k = off[i - 1] + p /\ flat[k] = ss[i][p] /\ flat[k].word = i
    <2>0. k \in 1 .. off[n] /\ Ranks(off, len, n) /\ n \in Nat /\ len \in [1 .. n -> Nat]
      BY <1>1, <1>7, <1>8
    <2>p. Tiled(off, len, n)
      BY <2>0, Places
    <2>1. PICK i \in 1 .. n : \E p \in 1 .. len[i] : k = off[i - 1] + p
      BY <2>0, <2>p DEF Tiled
    <2>2. PICK p \in 1 .. len[i] : k = off[i - 1] + p
      BY <2>1
    <2>3. flat[k] = ss[i][p] /\ ss[i][p].word = i
      BY <1>7, <1>10, <2>2
    <2> QED
      BY <2>2, <2>3
  <1>14. \A k \in 1 .. Len(flat) : flat[k].word \in 1 .. n
    BY <1>13
  <1>15. ASSUME NEW i \in 1 .. n
         PROVE  \E k \in 1 .. Len(flat) : flat[k].word = i /\ flat[k].first
    <2>1. off[i - 1] + 1 \in 1 .. off[n]
      <3>1. n \in Nat /\ 1 \in 1 .. len[i]
        BY <1>1, <1>11
      <3> QED
        BY <1>7, <1>8, <3>1, PlaceIsOwn
    <2>2. flat[off[i - 1] + 1] = ss[i][1] /\ ss[i][1].word = i /\ ss[i][1].first
      BY <1>7, <1>10, <1>11
    <2> QED
      BY <1>7, <2>1, <2>2
  <1>16. /\ flat[Len(flat)].word = n /\ flat[Len(flat)].last
         /\ flat[Len(flat)].phone = Last(phones)
    BY <1>n, <1>9, <1>10, <1>11, <1>12, <1>e DEF Framed
  <1>17. ASSUME NEW k \in 1 .. Len(flat), flat[k].word = n, flat[k].last
         PROVE  k = Len(flat)
    <2>1. PICK i \in 1 .. n : \E p \in 1 .. len[i] :
                  k = off[i - 1] + p /\ flat[k] = ss[i][p] /\ flat[k].word = i
      BY <1>13
    <2>2. PICK p \in 1 .. len[i] : k = off[i - 1] + p /\ flat[k] = ss[i][p] /\ flat[k].word = i
      BY <2>1
    <2>3. i = n /\ p \in 1 .. Len(ss[n]) /\ ss[n][p].last
      BY <1>9, <1>17, <2>2
    <2>4. p = len[n]
      BY <1>e, <1>n, <1>9, <2>3 DEF Framed
    <2> QED
      BY <1>12, <2>2, <2>3, <2>4
  <1> QED
    BY <1>5, <1>12, <1>14, <1>15, <1>16, <1>17 DEF Ended, n, phones

\* A graph whose only slot without successor is the last one, a filler.
EndsAt(g, n) ==
  /\ n # 0 /\ g.phone[n] \in Fillers
  /\ \A k \in 1 .. n : g.next[k] = {} <=> k = n

LEMMA PhoneGraphEnds ==
    ASSUME NEW E, NEW words, Spelled(words, E), Voiced(words), words # <<>>,
           Len(words[Len(words)]) = 1, Last(words[Len(words)][1].phones) \in Fillers
    PROVE  EndsAt(MkPhoneGraph(words), Len(Slots(words)))
  <1> DEFINE slots == Slots(words)
             n == Len(slots)
             w == Len(words)
             g == MkPhoneGraph(words)
             Heads(i) == {k \in 1 .. n : slots[k].word = i /\ slots[k].first}
  <1>1. Ended(slots, w, words[w][1].phones)
    BY SlotsEnded
  <1>2. slots \in Seq(SlotType) /\ \A k \in 1 .. n : FollowsOn(slots, k)
    BY SlotsConnected DEF Connected
  <1>3. n \in Nat \ {0} /\ DOMAIN slots = 1 .. n /\ n \in 1 .. n
    <2>1. n \in Nat \ {0}
      BY <1>1 DEF Ended
    <2> HIDE DEF slots
    <2> QED
      BY <1>2, <2>1, LenProperties
  <1>4. /\ g.phone = [k \in 1 .. n |-> slots[k].phone]
        /\ g.next  = [k \in 1 .. n |-> IF slots[k].last THEN Heads(slots[k].word + 1) ELSE {k + 1}]
    BY <1>3 DEF MkPhoneGraph
  <1>5. w \in Nat
    BY DEF Spelled
  <1> HIDE DEF g, slots, w, n
  <1>6. /\ \A k \in 1 .. n : slots[k].word \in 1 .. w
        /\ \A i \in 1 .. w : \E k \in 1 .. n : slots[k].word = i /\ slots[k].first
        /\ slots[n].word = w /\ slots[n].last
        /\ slots[n].phone \in Fillers
        /\ \A k \in 1 .. n : slots[k].word = w /\ slots[k].last => k = n
    BY <1>1 DEF Ended, n, w
  <1>7. g.next[n] = {}
    <2>1. g.next[n] = Heads(w + 1)
      BY <1>3, <1>4, <1>6
    <2>2. w + 1 \notin 1 .. w
      BY <1>5
    <2> QED
      BY <1>6, <2>1, <2>2
  <1>8. ASSUME NEW k \in 1 .. n, k # n PROVE g.next[k] # {}
    <2>1. CASE ~slots[k].last
      BY <1>4, <2>1
    <2>2. CASE slots[k].last
      <3>1. slots[k].word \in 1 .. w /\ slots[k].word # w
        BY <1>6, <1>8, <2>2
      <3>2. slots[k].word + 1 \in 1 .. w
        BY <1>5, <3>1
      <3>3. \E j \in 1 .. n : slots[j].word = slots[k].word + 1 /\ slots[j].first
        BY <1>6, <3>2
      <3>4. g.next[k] = Heads(slots[k].word + 1)
        BY <1>4, <2>2
      <3> QED
        BY <3>3, <3>4
    <2> QED
      BY <2>1, <2>2
  <1>9. g.phone[n] \in Fillers
    BY <1>3, <1>4, <1>6
  <1> QED
    BY <1>3, <1>7, <1>8, <1>9 DEF EndsAt, g, n, slots

\* A filler has one copy, and the last slot's copies come last.
LEMMA SplitEnds ==
    ASSUME NEW g, NEW n, Layered(g, n), EndsAt(g, n)
    PROVE  \E m : Layered(SplitContexts(g), m) /\ EndsAt(SplitContexts(g), m)
  <1> DEFINE copies == ClassifySlots(g)
             h == SplitContexts(g)
             m == Len(copies)
  <1>1. Classified(g, n, copies)
    BY SlotsClassified
  <1>2. IF m = n THEN h = g ELSE Split(h, g, copies)
    BY ContextsAreSplit
  <1> HIDE DEF copies, h
  <1>3. CASE m = n
    BY <1>2, <1>3 DEF h
  <1>4. CASE m # n
    <2>1. Split(h, g, copies)
      BY <1>2, <1>4
    <2>2. /\ Layered(h, m)
          /\ \A c, d \in 1 .. m : d \in h.next[c] <=> Joined(g, copies[c], copies[d])
      BY <1>1, <2>1, SplitIsLayered
    <2>3. /\ m \in Nat /\ \A c \in 1 .. m : copies[c].slot \in 1 .. n
      BY <1>1, ClassifiedTypes
    <2>4. /\ \A c \in 1 .. m : copies[c] \in CopiesOf(g, copies[c].slot)
          /\ \A k \in 1 .. n : \A x \in CopiesOf(g, k) : \E c \in 1 .. m : copies[c] = x
          /\ \A c, d \in 1 .. m : copies[c] = copies[d] => c = d
          /\ \A c, d \in 1 .. m : c < d => copies[c].slot <= copies[d].slot
      BY <1>1 DEF Classified
    <2> HIDE DEF m
    <2>5. n \in 1 .. n /\ n \in Nat
      BY DEF Layered, EndsAt
    <2>6. CopiesOf(g, n) = {Copy(n, SIL, SIL)}
      <3>1. Lefts(g, n) = {SIL} /\ Rights(g, n) = {SIL}
        BY DEF EndsAt, Lefts, Rights
      <3>2. CopiesOf(g, n) = {Copy(n, a[1], a[2]) : a \in {SIL} \X {SIL}}
        BY <3>1 DEF CopiesOf
      <3>3. {SIL} \X {SIL} = {<<SIL, SIL>>} /\ <<SIL, SIL>>[1] = SIL /\ <<SIL, SIL>>[2] = SIL
        OBVIOUS
      <3>4. {Copy(n, a[1], a[2]) : a \in {<<SIL, SIL>>}} = {Copy(n, SIL, SIL)}
        BY <3>3
      <3> QED
        BY <3>2, <3>3, <3>4
    <2>7. PICK c0 \in 1 .. m : copies[c0] = Copy(n, SIL, SIL)
      BY <2>4, <2>5, <2>6
    <2>8. copies[c0].slot = n
      BY <2>7 DEF Copy
    <2>9. ASSUME NEW c \in 1 .. m, copies[c].slot = n PROVE c = c0
      <3>1. copies[c] = Copy(n, SIL, SIL)
        BY <2>4, <2>6, <2>9
      <3> QED
        BY <2>4, <2>7, <3>1
    <2>10. m \in 1 .. m /\ m # 0
      BY <2>3
    <2>11. m = c0
      <3>1. CASE c0 < m
        <4>1. n <= copies[m].slot /\ copies[m].slot \in 1 .. n
          BY <2>3, <2>4, <2>8, <2>10, <3>1
        <4>2. copies[m].slot = n
          BY <2>5, <4>1
        <4> QED
          BY <2>9, <2>10, <4>2
      <3> QED
        BY <2>3, <3>1
    <2>12. h.next[m] = {}
      <3>1. SUFFICES ASSUME NEW d \in h.next[m] PROVE FALSE
        OBVIOUS
      <3>2. d \in 1 .. m
        BY <2>2, <2>10 DEF Layered
      <3>3. n \in g.prior[copies[d].slot] /\ copies[d].slot \in 1 .. n
        BY <2>2, <2>3, <2>8, <2>10, <2>11, <3>2 DEF Joined
      <3>4. copies[d].slot \in g.next[n]
        BY <2>5, <3>3 DEF Layered
      <3> QED
        BY <2>5, <3>4 DEF EndsAt
    <2>13. ASSUME NEW c \in 1 .. m, c # m PROVE h.next[c] # {}
      <3>1. copies[c].slot \in 1 .. n /\ copies[c].slot # n
        BY <2>3, <2>9, <2>11, <2>13
      <3>2. g.next[copies[c].slot] # {}
        BY <3>1 DEF EndsAt
      <3>3. \E d \in 1 .. m : Joined(g, copies[c], copies[d])
        BY <1>1, <3>2, JoinedAfter DEF m
      <3> QED
        BY <2>2, <3>3
    <2>14. h.phone[m] \in Fillers
      <3>1. h.phone[m] = g.phone[n]
        BY <2>1, <2>8, <2>10, <2>11 DEF Split, m
      <3> QED
        BY <3>1 DEF EndsAt
    <2>15. EndsAt(h, m)
      BY <2>10, <2>12, <2>13, <2>14 DEF EndsAt
    <2> QED
      BY <2>2, <2>15 DEF h
  <1> QED
    BY <1>3, <1>4

-----------------------------------------------------------------------------
(* The models of the slots.                                                *)

\* Whatever triphone a slot is given, its base is the phone of the slot.
LEMMA ResolveKeepsBase ==
    ASSUME NEW b, NEW l, NEW r, NEW w, NEW tris
    PROVE  Resolve(b, l, r, w, tris).base = b /\ CI(b).base = b
  <1>1. \A x, y, z : Triphone(b, x, y, z).base = b
    BY DEF Triphone
  <1>2. CI(b).base = b
    BY <1>1 DEF CI
  <1>3. BackOff(b, l, r, tris).base = b
    <2> DEFINE known == Chosen(PosnOrder, {n \in DOMAIN PosnOrder : Triphone(b, l, r, PosnOrder[n]) \in tris})
    <2>1. BackOff(b, l, r, tris) = IF known = <<>> THEN CI(b) ELSE Triphone(b, l, r, known[1])
      BY DEF BackOff
    <2> HIDE DEF known
    <2> QED
      BY <1>1, <1>2, <2>1
  <1> QED
    BY <1>1, <1>2, <1>3 DEF Resolve

\* The models of n phones.
Models(id, n, phone) == Len(id) = n /\ \A k \in 1 .. n : id[k].base = phone[k]

LEMMA ModelsFrom ==
    ASSUME NEW n \in Nat, NEW id, id = [k \in 1 .. n |-> id[k]], NEW phone,
           \A k \in 1 .. n : id[k].base = phone[k]
    PROVE  Models(id, n, phone)
  <1>1. id \in [1 .. n -> {id[k] : k \in 1 .. n}]
    OBVIOUS
  <1>2. Len(id) = n
    BY <1>1, AsSeq
  <1> QED
    BY <1>2 DEF Models

LEMMA GraphModels ==
    ASSUME NEW g, NEW n, Layered(g, n), NEW tris
    PROVE  Models(Cvt2TriphoneGraph(g, tris), n, g.phone)
  <1> DEFINE own == VisitTriphones(g)
             id == Cvt2TriphoneGraph(g, tris)
  <1>1. n \in Nat /\ DOMAIN g.phone = 1 .. n
    BY DEF Layered
  <1>2. \A k \in 1 .. n : own[k].base = g.phone[k]
    BY <1>1 DEF VisitTriphones, Triphone
  <1>3. id = [k \in 1 .. n |->
                IF tris = {} \/ g.phone[k] \in Fillers THEN CI(g.phone[k])
                ELSE Resolve(own[k].base, own[k].left, own[k].right, own[k].posn, tris)]
    BY <1>1 DEF Cvt2TriphoneGraph
  <1> HIDE DEF own, id
  <1>4. ASSUME NEW k \in 1 .. n PROVE id[k].base = g.phone[k]
    <2>1. CI(g.phone[k]).base = g.phone[k]
      BY ResolveKeepsBase
    <2>2. Resolve(own[k].base, own[k].left, own[k].right, own[k].posn, tris).base = own[k].base
      BY ResolveKeepsBase
    <2>3. CASE tris = {} \/ g.phone[k] \in Fillers
      BY <1>3, <2>1, <2>3
    <2>4. CASE ~(tris = {} \/ g.phone[k] \in Fillers)
      BY <1>2, <1>3, <2>2, <2>4
    <2> QED
      BY <2>3, <2>4
  <1>5. id = [k \in 1 .. n |-> id[k]]
    BY <1>3
  <1> QED
    BY <1>1, <1>4, <1>5, ModelsFrom DEF id

LEMMA ListModels ==
    ASSUME NEW S, NEW list \in Seq(S), NEW tris
    PROVE  Models(Cvt2Triphone(list, tris), Len(list), [k \in 1 .. Len(list) |-> list[k].phone])
  <1> DEFINE n == Len(list)
             posn == ListPosns(list)
             Left(k)  == IF k = 1 THEN SIL ELSE ContextPhone(list[k - 1].phone)
             Right(k) == IF k = n THEN SIL ELSE ContextPhone(list[k + 1].phone)
             Own(k)   == Triphone(list[k].phone, Left(k), Right(k), posn[k])
             id == Cvt2Triphone(list, tris)
  <1>1. n \in Nat
    OBVIOUS
  <1>2. id = [k \in 1 .. n |->
                IF tris = {} \/ list[k].phone \in Fillers THEN CI(list[k].phone)
                ELSE IF k = n THEN IF Own(k) \in tris THEN Own(k) ELSE CI(list[k].phone)
                ELSE Resolve(list[k].phone, Left(k), Right(k), posn[k], tris)]
    BY DEF Cvt2Triphone
  <1> HIDE DEF posn, Left, Right, id, n
  <1>3. \A k \in 1 .. n : /\ CI(list[k].phone).base = list[k].phone
                          /\ Own(k).base = list[k].phone
                          /\ Resolve(list[k].phone, Left(k), Right(k), posn[k], tris).base = list[k].phone
    BY ResolveKeepsBase DEF Triphone
  <1> HIDE DEF Own
  <1>4. \A k \in 1 .. n : id[k] \in {CI(list[k].phone), Own(k),
                                     Resolve(list[k].phone, Left(k), Right(k), posn[k], tris)}
    BY <1>2
  <1>5. \A k \in 1 .. n : id[k].base = list[k].phone
    BY <1>3, <1>4
  <1> DEFINE phone == [k \in 1 .. n |-> list[k].phone]
  <1>6. \A k \in 1 .. n : id[k].base = phone[k]
    BY <1>5
  <1>7. id = [k \in 1 .. n |-> id[k]]
    BY <1>2
  <1> HIDE DEF phone
  <1>8. Models(id, n, phone)
    BY <1>1, <1>6, <1>7, ModelsFrom
  <1> QED
    BY <1>8 DEF id, n, phone

\* The linear list of known words is one of phones.
LEMMA PhoneListTyped ==
    ASSUME NEW E, \A e \in E : e.phones \in Seq(Phones), NEW lex \in Seq(E), NEW words,
           IsSeq(words), \A i \in DOMAIN words : LexiconLookup(lex, words[i]) # <<>>
    PROVE  MkPhoneList(lex, words) \in Seq([phone : Phones, btw : BOOLEAN])
  <1> DEFINE n == Len(words)
             S == [phone : Phones, btw : BOOLEAN]
             Phoned(i) == LexiconLookup(lex, words[i])[1].phones
             Listing(i) == [p \in DOMAIN Phoned(i) |->
                              [phone |-> Phoned(i)[p], btw |-> p = Len(Phoned(i))]]
             rows == [i \in 1 .. n |-> Listing(i)]
  <1>1. n \in Nat /\ DOMAIN words = 1 .. n
    BY DEF IsSeq
  <1>2. ASSUME NEW i \in 1 .. n PROVE Phoned(i) \in Seq(Phones)
    <2>1. LexiconLookup(lex, words[i]) \in Seq(E) /\ LexiconLookup(lex, words[i]) # <<>>
      BY <1>1, ChosenPositions DEF LexiconLookup
    <2>2. LexiconLookup(lex, words[i])[1] \in E
      <3> DEFINE s == LexiconLookup(lex, words[i])
      <3> HIDE DEF s
      <3>1. s \in Seq(E) /\ s # <<>>
        BY <2>1 DEF s
      <3>2. Len(s) \in Nat /\ Len(s) # 0
        BY <3>1, LenProperties, EmptySeq
      <3>3. 1 \in 1 .. Len(s)
        BY <3>2
      <3> QED
        BY <3>1, <3>3, ElementOfSeq DEF s
    <2> QED
      BY <2>2
  <1> HIDE DEF Phoned
  <1>3. ASSUME NEW i \in 1 .. n PROVE Listing(i) \in Seq(S)
    <2>1. Len(Phoned(i)) \in Nat /\ DOMAIN Phoned(i) = 1 .. Len(Phoned(i))
          /\ \A p \in 1 .. Len(Phoned(i)) : Phoned(i)[p] \in Phones
      BY <1>2
    <2>2. Listing(i) \in [1 .. Len(Phoned(i)) -> S]
      BY <2>1
    <2> HIDE DEF S, Listing
    <2> QED
      BY <2>1, <2>2, AsSeq
  <1>4. MkPhoneList(lex, words) = FlattenSeq(rows)
    BY <1>1 DEF MkPhoneList, Phoned
  <1> HIDE DEF Listing, n, S
  <1>5. rows \in [1 .. n -> Seq(S)]
    BY <1>3
  <1> HIDE DEF rows
  <1>6. rows \in Seq(Seq(S))
    BY <1>1, <1>5, AsSeq
  <1>7. FlattenSeq(rows) \in Seq(S)
    BY <1>6, FlattenOffsets
  <1> QED
    BY <1>4, <1>7 DEF S

\* What Sounded leaves is spoken.
LEMMA SoundedVoiced ==
    ASSUME NEW E, NEW plan, Rows(plan, E), \A e \in E : e.phones \in Seq(Phones)
    PROVE  Spelled(Sounded(plan), E) /\ Voiced(Sounded(plan))
  <1> DEFINE T == {e \in E : e.phones # <<>>}
             U == {row \in Seq(T) : row # <<>>}
             at(i) == {v \in DOMAIN plan[i] : plan[i][v].phones # <<>>}
             spoken == [i \in DOMAIN plan |-> Chosen(plan[i], at(i))]
             heardAt == {i \in DOMAIN spoken : spoken[i] # <<>>}
             words == Sounded(plan)
  <1>1. /\ Len(plan) \in Nat /\ DOMAIN plan = 1 .. Len(plan)
        /\ \A i \in 1 .. Len(plan) : plan[i] \in Seq(E)
    BY DEF Rows
  <1>2. words = Chosen(spoken, heardAt)
    BY DEF Sounded
  <1>3. ASSUME NEW i \in 1 .. Len(plan) PROVE Chosen(plan[i], at(i)) \in Seq(T)
    <2>1. plan[i] \in Seq(E)
      BY <1>1
    <2>2. \A v \in at(i) \cap (1 .. Len(plan[i])) : plan[i][v] \in T
      BY <2>1
    <2> HIDE DEF at, T
    <2> QED
      BY <2>1, <2>2, ChosenWithin
  <1> HIDE DEF at, T
  <1>4. spoken \in [1 .. Len(plan) -> Seq(T)]
    BY <1>1, <1>3
  <1> HIDE DEF spoken
  <1>5. spoken \in Seq(Seq(T)) /\ DOMAIN spoken = 1 .. Len(plan)
    BY <1>1, <1>4, AsSeq
  <1>6. \A i \in heardAt \cap (1 .. Len(spoken)) : spoken[i] \in U
    BY <1>4
  <1> HIDE DEF heardAt, U
  <1>7. words \in Seq(U)
    BY <1>2, <1>5, <1>6, ChosenWithin
  <1> HIDE DEF words
  <1>8. ASSUME NEW i \in 1 .. Len(words)
        PROVE  words[i] \in Seq(T) /\ words[i] \in Seq(E) /\ Len(words[i]) # 0
    <2>1. words[i] \in Seq(T) /\ words[i] # <<>>
      BY <1>7, ElementOfSeq DEF U
    <2>2. Len(words[i]) # 0
      BY <2>1, LenProperties, EmptySeq
    <2>3. \A v \in 1 .. Len(words[i]) : words[i][v] \in E
      BY <2>1, ElementOfSeq DEF T
    <2> QED
      BY <2>1, <2>2, <2>3, SeqWithin
  <1>9. ASSUME NEW i \in 1 .. Len(words), NEW v \in 1 .. Len(words[i])
        PROVE  Len(words[i][v].phones) # 0
    <2>1. words[i][v] \in T
      BY <1>8, ElementOfSeq
    <2>2. words[i][v].phones \in Seq(Phones) /\ words[i][v].phones # <<>>
      BY <2>1 DEF T
    <2> QED
      BY <2>2, LenProperties, EmptySeq
  <1>10. words \in Seq(Seq(E))
    BY <1>7, <1>8, SeqWithin
  <1> QED
    BY <1>8, <1>9, <1>10 DEF Spelled, Voiced, words

-----------------------------------------------------------------------------
(* The sentence HMMs of the sessions.                                      *)

\* What the theorem says of a sentence HMM.
Weighted(h) == Mirrored(h) /\ Massive(h)

\* The pronunciations of the entries of a session's lexicon.
LEMMA SessionLexicon ==
    ASSUME NEW s \in Setups
    PROVE  \E E : LexiconRead(s.dict) \in Seq(E) /\ \A e \in E : e.phones \in Seq(Phones)
  <1> DEFINE E == {e \in Range(s.dict) : e.phones \in Seq(Phones)}
  <1>1. IsSeq(s.dict) /\ \A k \in DOMAIN s.dict : IsSeq(s.dict[k].phones)
    BY SetupsAssumption
  <1>2. LexiconRead(s.dict) \in Seq(E)
    BY <1>1, LexiconEntries
  <1>3. \A e \in E : e.phones \in Seq(Phones)
    OBVIOUS
  <1> QED
    BY <1>2, <1>3

\* The split graph of a transcript ends in its one slot without successor.
LEMMA SessionGraphEnds ==
    ASSUME NEW s \in Setups, NEW i \in DOMAIN s.texts, Pronounced(s, i) # <<>>
    PROVE  LET g == SplitContexts(MkPhoneGraph(Pronounced(s, i)))
           IN  \E n : Layered(g, n) /\ EndsAt(g, n)
  <1> DEFINE words == Pronounced(s, i)
             plan == WordPlan(LexiconRead(s.dict), s.texts[i], s.multipron)
  <1>1. PICK E : LexiconRead(s.dict) \in Seq(E) /\ \A e \in E : e.phones \in Seq(Phones)
    BY SessionLexicon
  <1>2. Rows(plan, E)
    BY <1>1, PlanFromLexicon, SetupsAssumption
  <1>3. words = Sounded(plan)
    BY DEF Pronounced
  <1>4. Spelled(words, E) /\ Voiced(words)
    <2> HIDE DEF plan, words
    <2> QED
      BY <1>1, <1>2, <1>3, SoundedVoiced
  <1>5. Len(words[Len(words)]) = 1 /\ Last(words[Len(words)][1].phones) \in Fillers
    BY EndsAssumption
  <1> HIDE DEF words
  <1>6. Layered(MkPhoneGraph(words), Len(Slots(words)))
    BY <1>4, PhoneGraphLayered
  <1>7. EndsAt(MkPhoneGraph(words), Len(Slots(words)))
    BY <1>4, <1>5, PhoneGraphEnds DEF words
  <1>8. \E n : Layered(SplitContexts(MkPhoneGraph(words)), n) /\ EndsAt(SplitContexts(MkPhoneGraph(words)), n)
    BY <1>6, <1>7, SplitEnds
  <1> QED
    BY <1>8 DEF words

\* The matrices of the models of n phones.
Matrices(s, id, n) ==
  /\ s.K \in Nat \ {0} /\ Len(id) = n
  /\ \A k \in 1 .. n : s.tmat[id[k].base] \in [0 .. s.K - 1 -> [0 .. s.K -> Nat]]
  /\ \A k \in 1 .. n : \A m \in 0 .. s.K - 1 : SumFunction(s.tmat[id[k].base][m]) = One

LEMMA SessionMatrices ==
    ASSUME NEW s \in Setups, NEW n \in Nat, NEW id, NEW phone \in [1 .. n -> Phones],
           Models(id, n, phone)
    PROVE  Matrices(s, id, n)
  <1>1. \A k \in 1 .. n : id[k].base \in Phones
    BY DEF Models
  <1> QED
    BY <1>1, MatricesAssumption DEF Models, Matrices

\* What the graph builder's sentence HMM is made of.
Assembled(g, n, h, id, K, tmat) ==
  /\ Layered(g, n) /\ EndsAt(g, n) /\ Buildings(g, n, id, K, tmat)
  /\ Wired(h, g, n, id, K, tmat) /\ Sharing(g, n, id, K, tmat)
  /\ \A k \in 1 .. n : g.next[k] # {} => One % (2 * Cardinality(g.next[k])) = 0
  /\ h = [K |-> K, id |-> id, next |-> h.next, prior |-> h.prior]

LEMMA GraphAssembled ==
    ASSUME NEW s \in Setups, NEW i \in DOMAIN s.texts, Pronounced(s, i) # <<>>, NEW tris,
           NEW g, g = SplitContexts(MkPhoneGraph(Pronounced(s, i))),
           NEW h, h = StateSeqMakeGraph(g, Cvt2TriphoneGraph(g, tris), s.K, s.tmat)
    PROVE  \E n : Assembled(g, n, h, Cvt2TriphoneGraph(g, tris), s.K, s.tmat)
  <1> DEFINE id == Cvt2TriphoneGraph(g, tris)
             K == s.K
             tmat == s.tmat
  <1>1. PICK n : Layered(g, n) /\ EndsAt(g, n)
    BY SessionGraphEnds
  <1>2. /\ n \in Nat /\ g.phone \in [1 .. n -> Phones]
        /\ g.next \in [1 .. n -> SUBSET (1 .. n)] /\ g.prior \in [1 .. n -> SUBSET (1 .. n)]
        /\ \A k, j \in 1 .. n : j \in g.next[k] <=> k \in g.prior[j]
        /\ \A k \in 1 .. n : g.next[k] = {} <=> k = n
    BY <1>1 DEF Layered, EndsAt
  <1>3. Models(id, n, g.phone)
    BY <1>1, GraphModels
  <1>4. \A k \in 1 .. n : g.next[k] # {} => One % (2 * Cardinality(g.next[k])) = 0
    <2>1. DOMAIN g.phone = 1 .. n
      BY <1>2
    <2> QED
      BY <2>1, SharesAssumption
  <1> HIDE DEF id
  <1>5. /\ K \in Nat \ {0} /\ Len(id) = n
        /\ \A k \in 1 .. n : tmat[id[k].base] \in [0 .. K - 1 -> [0 .. K -> Nat]]
        /\ \A k \in 1 .. n : \A m \in 0 .. K - 1 : SumFunction(tmat[id[k].base][m]) = One
    BY <1>2, <1>3, SessionMatrices DEF Matrices
  <1>6. h = StateSeqMakeGraph(g, id, K, tmat)
    BY DEF id
  <1> HIDE DEF K, tmat
  <1>7. Buildings(g, n, id, K, tmat)
    BY <1>2, <1>5 DEF Buildings
  <1>8. Wired(h, g, n, id, K, tmat)
    BY <1>6, <1>7, GraphWired
  <1>9. Sharing(g, n, id, K, tmat)
    <2>1. ASSUME NEW k \in 1 .. n, g.next[k] # {} PROVE One % Cardinality(g.next[k]) = 0
      <3>1. IsFiniteSet(g.next[k])
        <4>1. IsFiniteSet(1 .. n)
          <5>1. 1 \in Int /\ n \in Int
            BY <1>2
          <5> QED
            BY <5>1, FS_Interval
        <4>2. g.next[k] \subseteq 1 .. n
          BY <1>2
        <4> QED
          BY <4>1, <4>2, FS_Subset
      <3>2. Cardinality(g.next[k]) \in Nat \ {0}
        BY <2>1, <3>1, FS_CardinalityType, FS_EmptySet
      <3>3. One % (2 * Cardinality(g.next[k])) = 0
        BY <1>4, <2>1
      <3> QED
        BY <3>2, <3>3, ShareIsEven
    <2> QED
      BY <1>2, <1>5, <2>1 DEF Sharing
  <1>10. h = [K |-> K, id |-> id, next |-> h.next, prior |-> h.prior]
    BY <1>6 DEF StateSeqMakeGraph
  <1>11. Assembled(g, n, h, id, K, tmat)
    BY <1>1, <1>4, <1>7, <1>8, <1>9, <1>10 DEF Assembled
  <1> QED
    BY <1>11 DEF id, K, tmat

\* The graph builder's sentence HMM, with or without its final silence.
LEMMA GraphWeighted ==
    ASSUME NEW s \in Setups, NEW i \in DOMAIN s.texts, Pronounced(s, i) # <<>>, NEW tris,
           NEW g, g = SplitContexts(MkPhoneGraph(Pronounced(s, i))),
           NEW h, h = StateSeqMakeGraph(g, Cvt2TriphoneGraph(g, tris), s.K, s.tmat)
    PROVE  Weighted(h) /\ Weighted(AddBoundaryBypass(h, g))
  <1> DEFINE id == Cvt2TriphoneGraph(g, tris)
             K == s.K
             tmat == s.tmat
  <1>1. PICK n : Assembled(g, n, h, id, K, tmat)
    BY GraphAssembled
  <1> HIDE DEF id, K, tmat
  <1>2. /\ Buildings(g, n, id, K, tmat) /\ Wired(h, g, n, id, K, tmat)
        /\ Sharing(g, n, id, K, tmat)
        /\ \A k \in 1 .. n : g.next[k] # {} => One % (2 * Cardinality(g.next[k])) = 0
        /\ h = [K |-> K, id |-> id, next |-> h.next, prior |-> h.prior]
    BY <1>1 DEF Assembled
  <1>3. Mirrored(h) /\ Massive(h)
    BY <1>2, WiredMirrored, WiredMassive
  <1>4. Mirrored(AddBoundaryBypass(h, g)) /\ Massive(AddBoundaryBypass(h, g))
    BY <1>2, <1>3, BypassStochastic
  <1> QED
    BY <1>3, <1>4 DEF Weighted

\* The linear builder's.
LEMMA ListWeighted ==
    ASSUME NEW s \in Setups, NEW i \in DOMAIN s.texts, NEW lex, lex = LexiconRead(s.dict),
           \A k \in DOMAIN s.texts[i] : LexiconLookup(lex, s.texts[i][k]) # <<>>, NEW tris
    PROVE  Weighted(StateSeqMake(Cvt2Triphone(MkPhoneList(lex, s.texts[i]), tris), s.K, s.tmat))
  <1> DEFINE list == MkPhoneList(lex, s.texts[i])
             n == Len(list)
             id == Cvt2Triphone(list, tris)
             K == s.K
             tmat == s.tmat
             phone == [k \in 1 .. n |-> list[k].phone]
             g == Chain(n)
             h == StateSeqMake(id, K, tmat)
  <1>1. PICK E : lex \in Seq(E) /\ \A e \in E : e.phones \in Seq(Phones)
    BY SessionLexicon
  <1>2. list \in Seq([phone : Phones, btw : BOOLEAN])
    BY <1>1, PhoneListTyped, SetupsAssumption
  <1> HIDE DEF list
  <1>3. n \in Nat /\ phone \in [1 .. n -> Phones]
    <2>1. n \in Nat
      BY <1>2, LenProperties
    <2>2. ASSUME NEW k \in 1 .. n PROVE list[k].phone \in Phones
      <3>1. list[k] \in [phone : Phones, btw : BOOLEAN]
        BY <1>2, ElementOfSeq
      <3> QED
        BY <3>1
    <2> QED
      BY <2>1, <2>2
  <1>4. Models(id, n, phone)
    BY <1>2, ListModels
  <1> HIDE DEF n, id, phone
  <1>5. /\ K \in Nat \ {0} /\ Len(id) = n
        /\ \A k \in 1 .. n : tmat[id[k].base] \in [0 .. K - 1 -> [0 .. K -> Nat]]
        /\ \A k \in 1 .. n : \A m \in 0 .. K - 1 : SumFunction(tmat[id[k].base][m]) = One
    BY <1>3, <1>4, SessionMatrices DEF Matrices
  <1> HIDE DEF K, tmat
  <1>6. Buildings(g, n, id, K, tmat) /\ Sharing(g, n, id, K, tmat)
    BY <1>3, <1>5, ChainBuildings
  <1>7. h = StateSeqMakeGraph(g, id, K, tmat)
    BY <1>3, <1>5, ListIsChain
  <1> HIDE DEF g, h
  <1>8. Wired(h, g, n, id, K, tmat)
    BY <1>6, <1>7, GraphWired
  <1>9. Weighted(h)
    BY <1>6, <1>8, WiredMirrored, WiredMassive DEF Weighted
  <1> QED
    BY <1>9 DEF h, id, list, K, tmat

\* The inductive invariant.
MassInv ==
  /\ setup \in Setups
  /\ utt \in DOMAIN setup.texts
  /\ Weighted(hmm)

\* No HMM has no states.
LEMMA NoStates == Weighted(NoHMM)
  <1>1. Len(NoHMM.id) * Width(NoHMM) = 0
    <2>1. NoHMM.id = <<>> /\ NoHMM.K = 0
      BY DEF NoHMM
    <2>2. Len(NoHMM.id) = 0 /\ Width(NoHMM) = 1
      BY <2>1 DEF Width
    <2> QED
      BY <2>2
  <1>2. States(NoHMM) = {}
    BY <1>1 DEF States
  <1> QED
    BY <1>2 DEF Weighted, Mirrored, Massive

LEMMA MassInvInit == Init => MassInv
  <1> SUFFICES ASSUME Init PROVE MassInv
    OBVIOUS
  <1>1. GraphInv
    BY GraphInvInit
  <1> QED
    BY <1>1, NoStates DEF Init, MassInv, GraphInv

LEMMA BuiltWeighted == MassInv /\ GraphInv /\ BuildUttStateSeq => Weighted(hmm')
  <1> SUFFICES ASSUME MassInv, GraphInv, BuildUttStateSeq PROVE Weighted(hmm')
    OBVIOUS
  <1>1. CASE ~Buildable
    BY <1>1 DEF BuildUttStateSeq, MassInv
  <1>2. CASE Buildable /\ GraphBuilt
    <2>1. graph' = SplitGraph /\ hmm' = NextUttStatesGraph(SplitGraph)
      BY <1>2 DEF BuildUttStateSeq, NextUttStatesGraph
    <2>2. Pronounced(setup, utt) # <<>>
      <3>1. setup.multipron \in BOOLEAN
        BY SetupsAssumption DEF MassInv
      <3>2. (GraphBuilt /\ setup.multipron) = setup.multipron
        BY <1>2, <3>1
      <3> QED
        BY <1>2, <3>2 DEF Buildable, Pronounced, Lexicon, Text
    <2> DEFINE g == SplitGraph
               h == StateSeqMakeGraph(g, Cvt2TriphoneGraph(g, inventory.tris), setup.K, setup.tmat)
    <2>3. Weighted(h) /\ Weighted(AddBoundaryBypass(h, g))
      <3>1. setup \in Setups /\ utt \in DOMAIN setup.texts
        BY DEF MassInv
      <3>2. g = SplitContexts(MkPhoneGraph(Pronounced(setup, utt)))
        BY DEF SplitGraph
      <3> HIDE DEF g
      <3> QED
        BY <2>2, <3>1, <3>2, GraphWeighted
    <2> QED
      BY <2>1, <2>3 DEF NextUttStatesGraph
  <1>3. CASE Buildable /\ ~GraphBuilt
    <2>1. hmm' = NextUttStates
      BY <1>3 DEF BuildUttStateSeq
    <2>2. setup \in Setups /\ utt \in DOMAIN setup.texts
      BY DEF MassInv
    <2>3. IsSeq(Text)
      BY <2>2, SetupsAssumption DEF Text
    <2>4. \A k \in DOMAIN Text : LexiconLookup(Lexicon, Text[k]) # <<>>
      <3> DEFINE plan == WordPlan(Lexicon, Text, FALSE)
      <3>1. plan = [k \in DOMAIN Text |-> LexiconLookup(Lexicon, Text[k])]
        BY DEF WordPlan
      <3>2. Expandable(plan)
        BY <1>3 DEF Buildable
      <3> QED
        BY <3>1, <3>2 DEF Expandable
    <2>5. Weighted(NextUttStates)
      BY <2>2, <2>4, ListWeighted DEF NextUttStates, Lexicon, Text
    <2> QED
      BY <2>1, <2>5
  <1> QED
    BY <1>1, <1>2, <1>3

LEMMA MassInvStep == MassInv /\ GraphInv /\ [Next]_vars => MassInv'
  <1> SUFFICES ASSUME MassInv, GraphInv, [Next]_vars PROVE MassInv'
    OBVIOUS
  <1>g. GraphInv'
    BY GraphInvStep
  <1>0. SUFFICES Weighted(hmm')
    BY <1>g DEF MassInv, GraphInv
  <1>1. ASSUME hmm' = hmm PROVE Weighted(hmm')
    BY <1>1 DEF MassInv
  <1>2. CASE Generate
    BY <1>1, <1>2 DEF Generate, sentence
  <1>3. CASE BuildUttStateSeq
    BY <1>3, BuiltWeighted
  <1>4. CASE ForwardFirst
    BY <1>1, <1>4 DEF ForwardFirst, sentence
  <1>5. CASE ForwardFrame
    BY <1>1, <1>5 DEF ForwardFrame, sentence
  <1>6. CASE FinalStateNotReached
    BY <1>1, <1>6 DEF FinalStateNotReached, sentence
  <1>7. CASE BackwardStart
    BY <1>1, <1>7 DEF BackwardStart, sentence
  <1>8. CASE BackwardFrame
    BY <1>1, <1>8 DEF BackwardFrame, sentence
  <1>9. CASE BackwardEnd
    BY <1>1, <1>9 DEF BackwardEnd, sentence
  <1>10. CASE NextUtterance
    BY <1>10, NoStates DEF NextUtterance
  <1>11. CASE UNCHANGED vars
    BY <1>1, <1>11 DEF vars
  <1> QED
    BY <1>2, <1>3, <1>4, <1>5, <1>6, <1>7, <1>8, <1>9, <1>10, <1>11 DEF Next

LEMMA WeightedMass == MassInv => MassIsOne
  <1> SUFFICES ASSUME MassInv PROVE MassIsOne
    OBVIOUS
  <1>1. Mirrored(hmm) /\ Massive(hmm)
    BY DEF MassInv, Weighted
  <1> QED
    BY <1>1 DEF MassIsOne, Mirrored, Massive, FinalState

\* In the sentence HMM of every utterance of every session, whichever builder
\* made it and with or without its optional final silence, the whole mass of
\* each state but the last goes out of it, and each arc has the same weight from
\* both ends (state_seq.c, state_seq_graph.c, add_boundary_bypass).
THEOREM KeepsMass == Spec => []MassIsOne
  <1>1. Init => GraphInv /\ MassInv
    BY GraphInvInit, MassInvInit
  <1>2. GraphInv /\ MassInv /\ [Next]_vars => GraphInv' /\ MassInv'
    BY GraphInvStep, MassInvStep
  <1>3. MassInv => MassIsOne
    BY WeightedMass
  <1> QED
    BY <1>1, <1>2, <1>3, PTL DEF Spec

-----------------------------------------------------------------------------
(* Sequences that correspond, and rows without elements.                   *)

LEMMA RunningIndex ==
    ASSUME NEW n \in Nat, NEW i \in 1 .. n
    PROVE  i \in 1 .. n + 1 /\ i - 1 \in 0 .. n + 1 /\ i \in 0 .. n /\ i \in 0 .. n + 1
  OBVIOUS

\* FlattenSeq of a longer sequence.
LEMMA FlattenAppend ==
    ASSUME NEW S, NEW ss \in Seq(Seq(S)), NEW r \in Seq(S)
    PROVE  FlattenSeq(Append(ss, r)) = FlattenSeq(ss) \o r
  <1> DEFINE tt == Append(ss, r)
             n == Len(ss)
  <1>1. n \in Nat /\ tt \in Seq(Seq(S)) /\ Len(tt) = n + 1 /\ tt[n + 1] = r
        /\ \A i \in 1 .. n : tt[i] = ss[i]
    BY AppendProperties, LenProperties
  <1> HIDE DEF tt
  <1>2. PICK f : Flattening(f, ss, S)
    BY FlattenRuns
  <1>3. PICK h : Flattening(h, tt, S)
    BY <1>1, FlattenRuns
  <1>4. /\ f[0] = <<>> /\ FlattenSeq(ss) = f[n] /\ \A i \in 1 .. n : f[i] = f[i - 1] \o ss[i]
    BY <1>2 DEF Flattening
  <1>5. /\ h[0] = <<>> /\ FlattenSeq(tt) = h[n + 1]
        /\ \A i \in 1 .. n + 1 : h[i] = h[i - 1] \o tt[i]
    BY <1>1, <1>3 DEF Flattening
  <1> DEFINE P == {i \in 0 .. n : h[i] = f[i]}
  <1> HIDE DEF n
  <1>6. 0 \in P
    BY <1>1, <1>4, <1>5
  <1>7. ASSUME NEW i \in 1 .. n, i - 1 \in P PROVE i \in P
    <2>1. i \in 1 .. n + 1 /\ i \in 0 .. n
      BY <1>1, RunningIndex
    <2>2. h[i - 1] = f[i - 1] /\ tt[i] = ss[i]
      BY <1>1, <1>7
    <2> QED
      BY <1>4, <1>5, <2>1, <2>2
  <1> HIDE DEF P
  <1>8. n \in P
    BY <1>1, <1>6, <1>7, UpFromZero
  <1>9. h[n] = f[n]
    BY <1>8 DEF P
  <1>10. h[n + 1] = h[n] \o r
    <2>1. n + 1 \in 1 .. n + 1 /\ (n + 1) - 1 = n
      BY <1>1
    <2>2. h[n + 1] = h[(n + 1) - 1] \o tt[n + 1]
      BY <1>5, <2>1
    <2> QED
      BY <1>1, <2>1, <2>2
  <1> QED
    BY <1>4, <1>5, <1>9, <1>10 DEF tt

LEMMA FlattenNone == FlattenSeq(<<>>) = <<>>
  BY DEF FlattenSeq

LEMMA FlattenOne ==
    ASSUME NEW S, NEW r \in Seq(S), NEW ss \in Seq(Seq(S)), Len(ss) = 1, ss[1] = r
    PROVE  FlattenSeq(ss) = r
  <1>1. <<>> \in Seq(Seq(S))
    OBVIOUS
  <1>2. ss = Append(<<>>, r)
    <2>1. Append(<<>>, r) \in Seq(Seq(S)) /\ Len(Append(<<>>, r)) = 1 /\ Append(<<>>, r)[1] = r
      OBVIOUS
    <2>2. \A i \in 1 .. 1 : i = 1
      OBVIOUS
    <2>3. \A i \in 1 .. Len(ss) : ss[i] = Append(<<>>, r)[i]
      BY <2>1, <2>2
    <2> QED
      BY <2>1, <2>3, SeqEqual
  <1>3. FlattenSeq(Append(<<>>, r)) = FlattenSeq(<<>>) \o r
    BY <1>1, FlattenAppend
  <1> QED
    BY <1>2, <1>3, FlattenNone, ConcatEmptySeq

\* Empty rows add nothing.
LEMMA FlattenChosen ==
    ASSUME NEW S, NEW ss \in Seq(Seq(S)), NEW at,
           \A i \in 1 .. Len(ss) : i \notin at => ss[i] = <<>>
    PROVE  FlattenSeq(Chosen(ss, at)) = FlattenSeq(ss)
  <1> DEFINE n == Len(ss)
  <1>1. PICK up : Choosing(up, ss, at, Seq(S))
    BY ChosenRuns
  <1>2. PICK f : Flattening(f, ss, S)
    BY FlattenRuns
  <1>3. /\ up \in [0 .. n -> Seq(Seq(S))] /\ up[0] = <<>> /\ Chosen(ss, at) = up[n]
        /\ \A i \in 1 .. n : up[i] = IF i \in at THEN Append(up[i - 1], ss[i]) ELSE up[i - 1]
    BY <1>1 DEF Choosing
  <1>4. /\ f \in [0 .. n -> Seq(S)] /\ f[0] = <<>> /\ FlattenSeq(ss) = f[n]
        /\ \A i \in 1 .. n : f[i] = f[i - 1] \o ss[i]
    BY <1>2 DEF Flattening
  <1>5. n \in Nat /\ \A i \in 1 .. n : ss[i] \in Seq(S)
    BY LenProperties, ElementOfSeq
  <1> DEFINE P == {i \in 0 .. n : FlattenSeq(up[i]) = f[i]}
  <1> HIDE DEF n
  <1>6. 0 \in P
    BY <1>3, <1>4, <1>5, FlattenNone
  <1>7. ASSUME NEW i \in 1 .. n, i - 1 \in P PROVE i \in P
    <2>1. i - 1 \in 0 .. n /\ i \in 0 .. n
      BY <1>5, Predecessor
    <2>2. up[i - 1] \in Seq(Seq(S)) /\ f[i - 1] \in Seq(S) /\ FlattenSeq(up[i - 1]) = f[i - 1]
          /\ f[i] = f[i - 1] \o ss[i] /\ ss[i] \in Seq(S)
      BY <1>3, <1>4, <1>5, <1>7, <2>1
    <2>3. CASE i \in at
      <3>1. up[i] = Append(up[i - 1], ss[i])
        BY <1>3, <2>3
      <3>2. FlattenSeq(up[i]) = FlattenSeq(up[i - 1]) \o ss[i]
        BY <2>2, <3>1, FlattenAppend
      <3> QED
        BY <2>1, <2>2, <3>2
    <2>4. CASE i \notin at
      <3>1. up[i] = up[i - 1] /\ ss[i] = <<>>
        BY <1>3, <2>4 DEF n
      <3>2. f[i] = f[i - 1]
        BY <2>2, <3>1, ConcatEmptySeq
      <3> QED
        BY <2>1, <2>2, <3>1, <3>2
    <2> QED
      BY <2>3, <2>4
  <1> HIDE DEF P
  <1>8. n \in P
    BY <1>5, <1>6, <1>7, UpFromZero
  <1> QED
    BY <1>3, <1>4, <1>8 DEF P

\* Chosen goes with a map of the elements.
Mapped(t, s, F) == Len(t) = Len(s) /\ \A k \in 1 .. Len(s) : t[k] = F[s[k]]

LEMMA AppendMapped ==
    ASSUME NEW S, NEW T, NEW F, NEW s \in Seq(S), NEW t \in Seq(T), Mapped(t, s, F),
           NEW x \in S, NEW y \in T, y = F[x]
    PROVE  Mapped(Append(t, y), Append(s, x), F)
  <1>1. /\ Len(Append(s, x)) = Len(s) + 1 /\ Append(s, x)[Len(s) + 1] = x
        /\ \A i \in 1 .. Len(s) : Append(s, x)[i] = s[i]
    BY AppendProperties
  <1>2. /\ Len(Append(t, y)) = Len(t) + 1 /\ Append(t, y)[Len(t) + 1] = y
        /\ \A i \in 1 .. Len(t) : Append(t, y)[i] = t[i]
    BY AppendProperties
  <1>3. Len(s) \in Nat /\ Len(t) = Len(s) /\ \A k \in 1 .. Len(s) : t[k] = F[s[k]]
    BY LenProperties DEF Mapped
  <1>4. \A k \in 1 .. Len(s) + 1 : k \in 1 .. Len(s) \/ k = Len(s) + 1
    BY <1>3
  <1> QED
    BY <1>1, <1>2, <1>3, <1>4 DEF Mapped

LEMMA ChosenMapped ==
    ASSUME NEW S, NEW T, NEW F, NEW s \in Seq(S), NEW t \in Seq(T), Len(t) = Len(s), NEW at,
           \A k \in 1 .. Len(s) : k \in at => t[k] = F[s[k]]
    PROVE  Mapped(Chosen(t, at), Chosen(s, at), F)
  <1> DEFINE n == Len(s)
  <1>1. PICK up : Choosing(up, s, at, S)
    BY ChosenRuns
  <1>2. PICK vp : Choosing(vp, t, at, T)
    BY ChosenRuns
  <1>3. /\ up \in [0 .. n -> Seq(S)] /\ up[0] = <<>> /\ Chosen(s, at) = up[n]
        /\ \A i \in 1 .. n : up[i] = IF i \in at THEN Append(up[i - 1], s[i]) ELSE up[i - 1]
    BY <1>1 DEF Choosing
  <1>4. /\ vp \in [0 .. n -> Seq(T)] /\ vp[0] = <<>> /\ Chosen(t, at) = vp[n]
        /\ \A i \in 1 .. n : vp[i] = IF i \in at THEN Append(vp[i - 1], t[i]) ELSE vp[i - 1]
    BY <1>2 DEF Choosing
  <1>5. n \in Nat /\ \A i \in 1 .. n : s[i] \in S /\ t[i] \in T
    BY LenProperties, ElementOfSeq
  <1>m. \A k \in 1 .. n : k \in at => t[k] = F[s[k]]
    OBVIOUS
  <1> DEFINE P == {i \in 0 .. n : Mapped(vp[i], up[i], F)}
  <1> HIDE DEF n
  <1>6. 0 \in P
    <2>1. Mapped(<<>>, <<>>, F)
      BY DEF Mapped
    <2> QED
      BY <1>3, <1>4, <1>5, <2>1
  <1>7. ASSUME NEW i \in 1 .. n, i - 1 \in P PROVE i \in P
    <2>1. i - 1 \in 0 .. n /\ i \in 0 .. n
      BY <1>5, Predecessor
    <2>2. up[i - 1] \in Seq(S) /\ vp[i - 1] \in Seq(T) /\ Mapped(vp[i - 1], up[i - 1], F)
          /\ s[i] \in S /\ t[i] \in T
      BY <1>3, <1>4, <1>5, <1>7, <2>1
    <2>3. CASE i \in at
      <3>1. up[i] = Append(up[i - 1], s[i]) /\ vp[i] = Append(vp[i - 1], t[i]) /\ t[i] = F[s[i]]
        BY <1>3, <1>4, <1>m, <2>3
      <3>2. Mapped(Append(vp[i - 1], t[i]), Append(up[i - 1], s[i]), F)
        BY <2>2, <3>1, AppendMapped
      <3> QED
        BY <2>1, <3>1, <3>2
    <2>4. CASE i \notin at
      <3>1. up[i] = up[i - 1] /\ vp[i] = vp[i - 1]
        BY <1>3, <1>4, <2>4
      <3> QED
        BY <2>1, <2>2, <3>1
    <2> QED
      BY <2>3, <2>4
  <1> HIDE DEF P
  <1>8. n \in P
    BY <1>5, <1>6, <1>7, UpFromZero
  <1> QED
    BY <1>3, <1>4, <1>8 DEF P

\* A sequence of one element is kept or left out.
LEMMA ChosenOfOne ==
    ASSUME NEW S, NEW s \in Seq(S), Len(s) = 1, NEW at
    PROVE  Chosen(s, at) = IF 1 \in at THEN <<s[1]>> ELSE <<>>
  <1>1. PICK up : Choosing(up, s, at, S)
    BY ChosenRuns
  <1>2. /\ up[0] = <<>> /\ Chosen(s, at) = up[1]
        /\ up[1] = IF 1 \in at THEN Append(up[1 - 1], s[1]) ELSE up[1 - 1]
    BY <1>1 DEF Choosing
  <1>3. 1 - 1 = 0 /\ Append(<<>>, s[1]) = <<s[1]>>
    OBVIOUS
  <1> QED
    BY <1>2, <1>3

\* The offsets of the parts are determined by their lengths.
LEMMA RanksUnique ==
    ASSUME NEW n \in Nat, NEW len, NEW off, Ranks(off, len, n), NEW o, Ranks(o, len, n)
    PROVE  off = o
  <1> DEFINE P == {i \in 0 .. n : off[i] = o[i]}
  <1>1. off \in [0 .. n -> Nat] /\ off[0] = 0 /\ \A i \in 1 .. n : off[i] = off[i - 1] + len[i]
    BY DEF Ranks
  <1>2. o \in [0 .. n -> Nat] /\ o[0] = 0 /\ \A i \in 1 .. n : o[i] = o[i - 1] + len[i]
    BY DEF Ranks
  <1>3. 0 \in P
    BY <1>1, <1>2
  <1>4. ASSUME NEW i \in 1 .. n, i - 1 \in P PROVE i \in P
    <2>1. i \in 0 .. n /\ off[i - 1] = o[i - 1]
      BY <1>4, Predecessor
    <2> QED
      BY <1>1, <1>2, <2>1
  <1>5. \A i \in 0 .. n : off[i] = o[i]
    <2> HIDE DEF P
    <2>1. 0 \in Nat /\ 0 + 1 = 1
      OBVIOUS
    <2>2. \A i \in 0 + 1 .. n : i - 1 \in P => i \in P
      BY <1>4, <2>1
    <2>3. \A i \in 0 .. n : i \in P
      BY <1>3, <2>1, <2>2, Upwards
    <2> QED
      BY <2>3 DEF P
  <1> QED
    BY <1>1, <1>2, <1>5

-----------------------------------------------------------------------------
(* A lexicon has one entry per spelling; one pronunciation per word.       *)

\* No two entries of a lexicon have the same spelling.
OneEach(lex) ==
  \A i, j \in 1 .. Len(lex) :
    lex[i].word = lex[j].word /\ lex[i].alt = lex[j].alt => i = j

LEMMA LexiconOneEach ==
    ASSUME NEW file, IsSeq(file)
    PROVE  OneEach(LexiconRead(file))
  <1> DEFINE Defined(k) == Range(file[k].phones) \subseteq Phones
             Same(j, k) == file[j].word = file[k].word /\ file[j].alt = file[k].alt
             at == {k \in DOMAIN file :
                      Defined(k) /\ \A j \in 1 .. k - 1 : ~(Defined(j) /\ Same(j, k))}
             lex == Chosen(file, at)
             n == Len(file)
             S == Range(file)
  <1>1. LexiconRead(file) = lex
    BY DEF LexiconRead
  <1>2. file \in Seq(S) /\ n \in Nat
    BY LenProperties DEF IsSeq
  <1> HIDE DEF S
  <1>3. PICK pos : Locates(pos, lex, file, at, n)
    BY <1>2, ChosenPositions
  <1>4. Len(lex) \in Nat
    BY <1>2, ChosenPositions, LenProperties
  <1>5. ASSUME NEW i \in 1 .. Len(lex)
        PROVE  pos[i] \in 1 .. n /\ lex[i] = file[pos[i]] /\ Defined(pos[i])
               /\ \A j \in 1 .. pos[i] - 1 : ~(Defined(j) /\ Same(j, pos[i]))
    <2>1. pos[i] \in at /\ pos[i] \in 1 .. n /\ lex[i] = file[pos[i]]
      <3> HIDE DEF at, lex, n
      <3> QED
        BY <1>3 DEF Locates
    <2> QED
      BY <2>1
  <1>6. \A i, j \in 1 .. Len(lex) : i < j => pos[i] < pos[j]
    BY <1>3 DEF Locates
  <1> HIDE DEF at, lex, n
  <1>7. ASSUME NEW i \in 1 .. Len(lex), NEW j \in 1 .. Len(lex), i < j
        PROVE  ~(lex[i].word = lex[j].word /\ lex[i].alt = lex[j].alt)
    <2>1. pos[i] \in 1 .. pos[j] - 1
      BY <1>2, <1>5, <1>6, <1>7
    <2>2. ~Same(pos[i], pos[j])
      BY <1>5, <2>1
    <2> QED
      BY <1>5, <2>2
  <1>8. OneEach(lex)
    <2>1. \A i, j \in 1 .. Len(lex) : i < j \/ j < i \/ i = j
      BY <1>4
    <2> QED
      BY <1>7, <2>1 DEF OneEach
  <1> QED
    BY <1>1, <1>8

\* So at most one is looked up.
LEMMA LookupIsOne ==
    ASSUME NEW E, NEW lex \in Seq(E), OneEach(lex), NEW token,
           LexiconLookup(lex, token) # <<>>
    PROVE  /\ LexiconLookup(lex, token) \in Seq(E) /\ Len(LexiconLookup(lex, token)) = 1
           /\ LexiconLookup(lex, token)[1] \in E
  <1> DEFINE at == {k \in DOMAIN lex : <<lex[k].word, lex[k].alt>> = token}
             c == Chosen(lex, at)
             n == Len(lex)
  <1>1. LexiconLookup(lex, token) = c
    BY DEF LexiconLookup
  <1>2. PICK pos : Locates(pos, c, lex, at, n)
    BY ChosenPositions
  <1>3. c \in Seq(E) /\ Len(c) \in Nat /\ Len(c) # 0
    BY <1>1, ChosenPositions, LenProperties, EmptySeq
  <1>4. ASSUME NEW i \in 1 .. Len(c)
        PROVE  pos[i] \in 1 .. n /\ <<lex[pos[i]].word, lex[pos[i]].alt>> = token
    <2>1. pos[i] \in at /\ pos[i] \in 1 .. n
      <3> HIDE DEF at, c, n
      <3> QED
        BY <1>2 DEF Locates
    <2> QED
      BY <2>1
  <1>5. \A i, j \in 1 .. Len(c) : i < j => pos[i] < pos[j]
    BY <1>2 DEF Locates
  <1> HIDE DEF c, at, n
  <1>6. Len(c) = 1
    <2> SUFFICES ASSUME Len(c) # 1 PROVE FALSE
      OBVIOUS
    <2>1. 1 \in 1 .. Len(c) /\ 2 \in 1 .. Len(c)
      <3> DEFINE l == Len(c)
      <3>1. l \in Nat /\ l # 0 /\ l # 1
        BY <1>3
      <3> HIDE DEF l
      <3>2. 1 \in 1 .. l /\ 2 \in 1 .. l
        BY <3>1
      <3> QED
        BY <3>2 DEF l
    <2>2. pos[1] < pos[2] /\ pos[1] \in 1 .. n /\ pos[2] \in 1 .. n
      BY <1>4, <1>5, <2>1
    <2>3. <<lex[pos[1]].word, lex[pos[1]].alt>> = <<lex[pos[2]].word, lex[pos[2]].alt>>
      BY <1>4, <2>1
    <2>4. lex[pos[1]].word = lex[pos[2]].word /\ lex[pos[1]].alt = lex[pos[2]].alt
      BY <2>3
    <2>5. pos[1] = pos[2]
      BY <2>2, <2>4 DEF OneEach, n
    <2>6. n \in Nat
      BY LenProperties DEF n
    <2> QED
      BY <2>2, <2>5, <2>6
  <1>7. c[1] \in E
    <2>1. 1 \in 1 .. Len(c)
      BY <1>6
    <2> QED
      BY <1>3, <2>1, ElementOfSeq
  <1> QED
    BY <1>1, <1>3, <1>6, <1>7

\* Rows that correspond make flat sequences that correspond.
LEMMA FlattenMapped ==
    ASSUME NEW S, NEW T, NEW F, NEW ss \in Seq(Seq(S)), NEW tt \in Seq(Seq(T)),
           Len(tt) = Len(ss), \A i \in 1 .. Len(ss) : Mapped(tt[i], ss[i], F)
    PROVE  Mapped(FlattenSeq(tt), FlattenSeq(ss), F)
  <1> DEFINE n == Len(ss)
             len == [i \in 1 .. n |-> Len(ss[i])]
             s == FlattenSeq(ss)
             t == FlattenSeq(tt)
  <1>1. PICK off : Offsets(off, ss, s)
    BY FlattenOffsets
  <1>2. PICK o : Offsets(o, tt, t)
    BY FlattenOffsets
  <1>3. len = [i \in 1 .. Len(tt) |-> Len(tt[i])] /\ len \in [1 .. n -> Nat] /\ n \in Nat
        /\ \A i \in 1 .. n : Len(tt[i]) = Len(ss[i])
    BY Lengths DEF Mapped
  <1>4. /\ Ranks(off, len, n) /\ Len(s) = off[n]
        /\ \A i \in 1 .. n : \A p \in 1 .. Len(ss[i]) : s[off[i - 1] + p] = ss[i][p]
    BY <1>1 DEF Offsets
  <1>5. /\ Ranks(o, len, n) /\ Len(t) = o[n]
        /\ \A i \in 1 .. n : \A p \in 1 .. Len(tt[i]) : t[o[i - 1] + p] = tt[i][p]
    BY <1>2, <1>3 DEF Offsets
  <1>6. \A i \in 1 .. n : len[i] = Len(ss[i])
    OBVIOUS
  <1> HIDE DEF len, s, t, n
  <1>7. o = off
    BY <1>3, <1>4, <1>5, RanksUnique
  <1>8. ASSUME NEW k \in 1 .. Len(s) PROVE t[k] = F[s[k]]
    <2>1. Tiled(off, len, n)
      BY <1>3, <1>4, Places
    <2>2. PICK i \in 1 .. n : \E p \in 1 .. len[i] : k = off[i - 1] + p
      BY <1>4, <2>1 DEF Tiled
    <2>3. PICK p \in 1 .. len[i] : k = off[i - 1] + p
      BY <2>2
    <2>4. s[k] = ss[i][p] /\ t[k] = tt[i][p]
      BY <1>3, <1>4, <1>5, <1>6, <1>7, <2>3
    <2>5. tt[i][p] = F[ss[i][p]]
      BY <1>6 DEF Mapped, n
    <2> QED
      BY <2>4, <2>5
  <1> QED
    BY <1>4, <1>5, <1>7, <1>8 DEF Mapped, s, t

\* The slots of a list, and what the list says of a slot.
ListRow(e) ==
  [p \in DOMAIN e.phones |-> [phone |-> e.phones[p], btw |-> p = Len(e.phones)]]
ListType == [phone : Phones, btw : BOOLEAN]
AsListed == [s \in SlotType |-> [phone |-> s.phone, btw |-> s.last]]

LEMMA ListRowTyped ==
    ASSUME NEW e, e.phones \in Seq(Phones)
    PROVE  ListRow(e) \in Seq(ListType) /\ Len(ListRow(e)) = Len(e.phones)
           /\ (e.phones = <<>> => ListRow(e) = <<>>)
  <1> DEFINE n == Len(e.phones)
             r == ListRow(e)
  <1>1. n \in Nat /\ DOMAIN e.phones = 1 .. n /\ \A p \in 1 .. n : e.phones[p] \in Phones
    OBVIOUS
  <1>2. r = [p \in 1 .. n |-> [phone |-> e.phones[p], btw |-> p = n]]
    BY <1>1 DEF ListRow
  <1>3. r \in [1 .. n -> ListType]
    BY <1>1, <1>2 DEF ListType
  <1> HIDE DEF r
  <1>4. r \in Seq(ListType) /\ Len(r) = n
    BY <1>1, <1>3, AsSeq
  <1>5. e.phones = <<>> => r = <<>>
    <2>1. e.phones = <<>> => Len(e.phones) = 0
      OBVIOUS
    <2>2. e.phones = <<>> => Len(r) = 0
      BY <1>4, <2>1
    <2> QED
      BY <1>4, <2>2, EmptySeq
  <1> QED
    BY <1>4, <1>5 DEF r

\* A plan with one pronunciation per word.
OneSaid(plan, E) ==
  /\ Rows(plan, E) /\ \A i \in 1 .. Len(plan) : Len(plan[i]) = 1
  /\ \A e \in E : e.phones \in Seq(Phones)

Respelled(rs, plan, words) ==
  /\ rs \in Seq(Seq(ListType)) /\ Len(rs) = Len(words)
  /\ FlattenSeq(rs) = FlattenSeq([i \in 1 .. Len(plan) |-> ListRow(plan[i][1])])
  /\ \A j \in 1 .. Len(words) : Len(words[j]) = 1 /\ rs[j] = ListRow(words[j][1])

\* Words without phones add nothing to the list.
LEMMA SilentWordsDropped ==
    ASSUME NEW E, NEW plan, OneSaid(plan, E)
    PROVE  \E rs : Respelled(rs, plan, Sounded(plan))
  <1> DEFINE n == Len(plan)
             spoken == [i \in DOMAIN plan |->
                          Chosen(plan[i], {v \in DOMAIN plan[i] : plan[i][v].phones # <<>>})]
             at == {i \in DOMAIN spoken : spoken[i] # <<>>}
             rows == [i \in 1 .. n |-> ListRow(plan[i][1])]
             rs == Chosen(rows, at)
             words == Chosen(spoken, at)
             U == {row \in Seq(E) : Len(row) = 1}
             F == [row \in Seq(E) |-> ListRow(row[1])]
  <1>1. /\ n \in Nat /\ DOMAIN plan = 1 .. n
        /\ \A i \in 1 .. n : plan[i] \in Seq(E) /\ Len(plan[i]) = 1
        /\ \A e \in E : e.phones \in Seq(Phones)
    BY DEF OneSaid, Rows
  <1>2. Sounded(plan) = words
    BY DEF Sounded
  <1>3. ASSUME NEW i \in 1 .. n
        PROVE  /\ plan[i][1] \in E /\ ListRow(plan[i][1]) \in Seq(ListType)
               /\ spoken[i] \in Seq(E)
               /\ i \in at => Len(spoken[i]) = 1 /\ spoken[i][1] = plan[i][1]
               /\ i \notin at => ListRow(plan[i][1]) = <<>>
    <2> DEFINE e == plan[i][1]
               spots == {v \in DOMAIN plan[i] : plan[i][v].phones # <<>>}
    <2>1. plan[i] \in Seq(E) /\ Len(plan[i]) = 1
      BY <1>1
    <2>2. 1 \in 1 .. Len(plan[i]) /\ DOMAIN plan[i] = 1 .. Len(plan[i])
      BY <2>1
    <2>3. e \in E
      BY <2>1, <2>2, ElementOfSeq
    <2>4. 1 \in spots <=> e.phones # <<>>
      BY <2>2
    <2>5. spoken[i] = Chosen(plan[i], spots)
      BY <1>1
    <2> HIDE DEF spots, spoken
    <2>6. spoken[i] = IF 1 \in spots THEN <<e>> ELSE <<>>
      BY <2>1, <2>5, ChosenOfOne
    <2>7. i \in at <=> spoken[i] # <<>>
      BY <1>1 DEF spoken
    <2> HIDE DEF at
    <2>8. <<e>> # <<>> /\ <<e>> \in Seq(E) /\ <<>> \in Seq(E) /\ Len(<<e>>) = 1 /\ <<e>>[1] = e
      BY <2>3
    <2>9. ListRow(e) \in Seq(ListType) /\ (e.phones = <<>> => ListRow(e) = <<>>)
      BY <1>1, <2>3, ListRowTyped
    <2> HIDE DEF e
    <2>10. i \in at <=> 1 \in spots
      BY <2>6, <2>7, <2>8
    <2>11. i \in at => spoken[i] = <<e>>
      BY <2>6, <2>10
    <2>12. spoken[i] \in Seq(E)
      BY <2>6, <2>8
    <2>13. i \in at => Len(spoken[i]) = 1 /\ spoken[i][1] = e
      BY <2>8, <2>11
    <2>14. i \notin at => ListRow(e) = <<>>
      BY <2>4, <2>9, <2>10
    <2> QED
      BY <2>3, <2>9, <2>12, <2>13, <2>14 DEF e
  <1>4. DOMAIN spoken = 1 .. n
    BY <1>1
  <1> HIDE DEF at
  <1>5. spoken \in [1 .. n -> Seq(E)] /\ rows \in [1 .. n -> Seq(ListType)]
    BY <1>3, <1>4
  <1>6. \A i \in 1 .. n : rows[i] = ListRow(plan[i][1])
    OBVIOUS
  <1> HIDE DEF spoken, rows
  <1>7. /\ spoken \in Seq(Seq(E)) /\ Len(spoken) = n
        /\ rows \in Seq(Seq(ListType)) /\ Len(rows) = n
    BY <1>1, <1>5, AsSeq
  <1>8. words \in Seq(U)
    <2>1. \A i \in at \cap (1 .. Len(spoken)) : spoken[i] \in U
      BY <1>3, <1>7
    <2> HIDE DEF U
    <2> QED
      BY <1>7, <2>1, ChosenWithin
  <1>9. FlattenSeq(rs) = FlattenSeq(rows)
    <2>1. \A i \in 1 .. Len(rows) : i \notin at => rows[i] = <<>>
      BY <1>3, <1>6, <1>7
    <2> QED
      BY <1>7, <2>1, FlattenChosen
  <1>10. Mapped(rs, words, F)
    <2>1. \A i \in 1 .. Len(spoken) : i \in at => rows[i] = F[spoken[i]]
      <3>1. ASSUME NEW i \in 1 .. n, i \in at PROVE rows[i] = F[spoken[i]]
        <4>1. F[spoken[i]] = ListRow(spoken[i][1])
          BY <1>3
        <4> HIDE DEF F
        <4> QED
          BY <1>3, <1>6, <3>1, <4>1
      <3> QED
        BY <1>7, <3>1
    <2> HIDE DEF F
    <2> QED
      BY <1>7, <2>1, ChosenMapped
  <1>11. rs \in Seq(Seq(ListType))
    BY <1>7, ChosenPositions
  <1> HIDE DEF words, rs
  <1>12. ASSUME NEW j \in 1 .. Len(words)
         PROVE  Len(words[j]) = 1 /\ rs[j] = ListRow(words[j][1])
    <2>1. words[j] \in Seq(E) /\ Len(words[j]) = 1
      <3> HIDE DEF U
      <3>1. words[j] \in U
        BY <1>8, ElementOfSeq
      <3> QED
        BY <3>1 DEF U
    <2>2. F[words[j]] = ListRow(words[j][1])
      BY <2>1
    <2> HIDE DEF F
    <2> QED
      BY <1>10, <2>1, <2>2 DEF Mapped
  <1>13. Len(rs) = Len(words)
    BY <1>10 DEF Mapped
  <1> QED
    BY <1>2, <1>9, <1>11, <1>12, <1>13 DEF Respelled, rows

\* The words of a graph, one pronunciation each.
OneRun(words, E) ==
  /\ Spelled(words, E) /\ Voiced(words)
  /\ \A i \in 1 .. Len(words) : Len(words[i]) = 1

Blocks(words) == [i \in 1 .. Len(words) |-> Block(words, i)]

LEMMA BlockOfOne ==
    ASSUME NEW E, NEW words, OneRun(words, E)
    PROVE  /\ Slots(words) = FlattenSeq(Blocks(words))
           /\ Blocks(words) \in Seq(Seq(SlotType)) /\ Len(Blocks(words)) = Len(words)
           /\ \A i \in 1 .. Len(words) :
                /\ Blocks(words)[i] = Run(words, i, 1)
                /\ Run(words, i, 1) \in Seq(SlotType)
                /\ words[i][1].phones \in Seq(Phones)
                /\ Len(Run(words, i, 1)) = Len(words[i][1].phones)
                /\ Len(words[i][1].phones) \in Nat \ {0}
  <1> DEFINE n == Len(words)
             blocks == Blocks(words)
  <1>1. /\ n \in Nat /\ DOMAIN words = 1 .. n
        /\ \A i \in 1 .. n : Len(words[i]) = 1 /\ words[i] \in Seq(Seq(E)) \cup Seq(E)
    <2>1. words \in Seq(Seq(E))
      BY DEF OneRun, Spelled
    <2> QED
      BY <2>1, LenProperties, ElementOfSeq DEF OneRun
  <1>2. Slots(words) = FlattenSeq(blocks)
    BY <1>1 DEF Slots, Blocks, Block, Run
  <1>3. ASSUME NEW i \in 1 .. n
        PROVE  /\ Block(words, i) = Run(words, i, 1)
               /\ Run(words, i, 1) \in Seq(SlotType)
               /\ words[i][1].phones \in Seq(Phones)
               /\ Len(Run(words, i, 1)) = Len(words[i][1].phones)
               /\ Len(words[i][1].phones) \in Nat \ {0}
    <2> DEFINE ss == [v \in DOMAIN words[i] |-> Run(words, i, v)]
               r == Run(words, i, 1)
    <2>1. 1 \in 1 .. Len(words[i]) /\ DOMAIN words[i] = 1 .. 1
      <3>1. words[i] \in Seq(E) /\ Len(words[i]) = 1
        <4>1. words \in Seq(Seq(E))
          BY DEF OneRun, Spelled
        <4> QED
          BY <1>1, <4>1, ElementOfSeq
      <3> QED
        BY <3>1
    <2>2. r \in Seq(SlotType)
      <3>1. Connected(Run(words, i, 1))
        BY <2>1, RunConnected DEF OneRun
      <3> QED
        BY <3>1 DEF Connected
    <2>3. words[i][1].phones \in Seq(Phones) /\ Len(r) = Len(words[i][1].phones)
      BY <2>1, RunEnds DEF OneRun
    <2>4. Len(words[i][1].phones) # 0
      BY <2>1 DEF OneRun, Voiced
    <2>5. Block(words, i) = FlattenSeq(ss)
      BY DEF Block
    <2>6. ss = [v \in 1 .. 1 |-> Run(words, i, v)]
      BY <2>1
    <2> HIDE DEF ss
    <2>7. ss \in [1 .. 1 -> Seq(SlotType)] /\ ss[1] = r
      <3>1. \A v \in 1 .. 1 : v = 1
        OBVIOUS
      <3> QED
        BY <2>2, <2>6, <3>1
    <2> HIDE DEF r
    <2>8. ss \in Seq(Seq(SlotType)) /\ Len(ss) = 1
      BY <2>7, AsSeq
    <2>9. FlattenSeq(ss) = r
      BY <2>2, <2>7, <2>8, FlattenOne
    <2> QED
      BY <2>2, <2>3, <2>4, <2>5, <2>9, LenProperties DEF r
  <1>4. blocks \in [1 .. n -> Seq(SlotType)]
    <2>1. \A i \in 1 .. n : Block(words, i) \in Seq(SlotType)
      BY <1>3
    <2> QED
      BY <2>1 DEF Blocks
  <1>5. \A i \in 1 .. n : blocks[i] = Block(words, i)
    BY DEF Blocks
  <1> HIDE DEF blocks
  <1>6. blocks \in Seq(Seq(SlotType)) /\ Len(blocks) = n
    BY <1>1, <1>4, AsSeq
  <1> QED
    BY <1>2, <1>3, <1>5, <1>6 DEF blocks

\* The list has a phone for each slot.
LEMMA ListOfSlots ==
    ASSUME NEW E, NEW plan, OneSaid(plan, E)
    PROVE  /\ OneRun(Sounded(plan), E)
           /\ Mapped(FlattenSeq([i \in 1 .. Len(plan) |-> ListRow(plan[i][1])]),
                     Slots(Sounded(plan)), AsListed)
  <1> DEFINE words == Sounded(plan)
  <1>1. PICK rs : Respelled(rs, plan, words)
    BY SilentWordsDropped
  <1>2. OneRun(words, E)
    BY <1>1, SoundedVoiced DEF OneSaid, OneRun, Respelled
  <1> HIDE DEF words
  <1>3. /\ Slots(words) = FlattenSeq(Blocks(words))
        /\ Blocks(words) \in Seq(Seq(SlotType)) /\ Len(Blocks(words)) = Len(words)
    BY <1>2, BlockOfOne
  <1>4. ASSUME NEW i \in 1 .. Len(words) PROVE Mapped(rs[i], Blocks(words)[i], AsListed)
    <2> DEFINE e == words[i][1]
               r == Run(words, i, 1)
    <2>1. /\ Blocks(words)[i] = r /\ r \in Seq(SlotType) /\ e.phones \in Seq(Phones)
          /\ Len(r) = Len(e.phones)
      BY <1>2, BlockOfOne
    <2>2. rs[i] = ListRow(e)
      BY <1>1 DEF Respelled
    <2>3. Len(ListRow(e)) = Len(e.phones)
      BY <2>1, ListRowTyped
    <2>4. ASSUME NEW p \in 1 .. Len(r) PROVE ListRow(e)[p] = AsListed[r[p]]
      <3>1. p \in DOMAIN e.phones
        BY <2>1
      <3>2. r[p].phone = e.phones[p] /\ r[p].last = (p = Len(e.phones))
        BY <3>1 DEF Run
      <3>3. ListRow(e)[p] = [phone |-> e.phones[p], btw |-> p = Len(e.phones)]
        BY <3>1 DEF ListRow
      <3>4. r[p] \in SlotType
        BY <2>1, ElementOfSeq
      <3>5. AsListed[r[p]] = [phone |-> r[p].phone, btw |-> r[p].last]
        BY <3>4 DEF AsListed
      <3> QED
        BY <3>2, <3>3, <3>5
    <2> QED
      BY <2>1, <2>2, <2>3, <2>4 DEF Mapped
  <1>5. Mapped(FlattenSeq(rs), FlattenSeq(Blocks(words)), AsListed)
    <2>1. rs \in Seq(Seq(ListType)) /\ Len(rs) = Len(Blocks(words))
      BY <1>1, <1>3 DEF Respelled
    <2> QED
      BY <1>3, <1>4, <2>1, FlattenMapped
  <1> QED
    BY <1>1, <1>2, <1>3, <1>5 DEF Respelled, words

\* Where the slots of each word are.
Aligned(off, words) ==
  LET n == Len(words)
      len == [i \in 1 .. n |-> Len(words[i][1].phones)]
  IN  /\ len \in [1 .. n -> Nat \ {0}] /\ Ranks(off, len, n) /\ Len(Slots(words)) = off[n]
      /\ \A i \in 1 .. n : \A p \in 1 .. len[i] :
           /\ Slots(words)[off[i - 1] + p].word = i
           /\ Slots(words)[off[i - 1] + p].first <=> p = 1
           /\ Slots(words)[off[i - 1] + p].last <=> p = len[i]

LEMMA SlotsAligned ==
    ASSUME NEW E, NEW words, OneRun(words, E)
    PROVE  \E off : Aligned(off, words)
  <1> DEFINE n == Len(words)
             len == [i \in 1 .. n |-> Len(words[i][1].phones)]
             b == Blocks(words)
  <1>1. /\ Slots(words) = FlattenSeq(b) /\ b \in Seq(Seq(SlotType)) /\ Len(b) = n
        /\ \A i \in 1 .. n : /\ b[i] = Run(words, i, 1) /\ words[i][1].phones \in Seq(Phones)
                             /\ Len(b[i]) = Len(words[i][1].phones)
                             /\ Len(words[i][1].phones) \in Nat \ {0}
    BY BlockOfOne
  <1> HIDE DEF b
  <1>2. PICK off : Offsets(off, b, Slots(words))
    BY <1>1, FlattenOffsets
  <1>3. len = [i \in 1 .. Len(b) |-> Len(b[i])] /\ len \in [1 .. n -> Nat \ {0}]
    BY <1>1
  <1>4. /\ Ranks(off, len, n) /\ Len(Slots(words)) = off[n]
        /\ \A i \in 1 .. n : \A p \in 1 .. Len(b[i]) : Slots(words)[off[i - 1] + p] = b[i][p]
    BY <1>1, <1>2, <1>3 DEF Offsets
  <1>5. ASSUME NEW i \in 1 .. n, NEW p \in 1 .. len[i]
        PROVE  /\ Slots(words)[off[i - 1] + p].word = i
               /\ Slots(words)[off[i - 1] + p].first <=> p = 1
               /\ Slots(words)[off[i - 1] + p].last <=> p = len[i]
    <2>1. len[i] = Len(b[i]) /\ len[i] = Len(words[i][1].phones)
      BY <1>1
    <2>2. Slots(words)[off[i - 1] + p] = Run(words, i, 1)[p]
      BY <1>1, <1>4, <2>1
    <2>3. p \in DOMAIN words[i][1].phones
      BY <1>1, <2>1
    <2>4. /\ Run(words, i, 1)[p].word = i
          /\ Run(words, i, 1)[p].first = (p = 1)
          /\ Run(words, i, 1)[p].last = (p = Len(words[i][1].phones))
      BY <2>3 DEF Run
    <2> QED
      BY <2>1, <2>2, <2>4
  <1>6. Aligned(off, words)
    BY <1>3, <1>4, <1>5 DEF Aligned
  <1> QED
    BY <1>6

-----------------------------------------------------------------------------
(* The graph of such words is a chain, which is not split.                 *)

LEMMA LaterPart ==
    ASSUME NEW n \in Nat, NEW i \in 1 .. n, i # n
    PROVE  i + 1 \in 1 .. n /\ (i + 1) - 1 = i
  OBVIOUS

LEMMA PlaceInFlat ==
    ASSUME NEW n \in Nat, NEW len \in [1 .. n -> Nat], NEW off, Ranks(off, len, n),
           NEW i \in 1 .. n, NEW p \in 1 .. len[i]
    PROVE  off[i - 1] + p \in 1 .. off[n]
  BY PlaceIsOwn

LEMMA LastOfRun ==
    ASSUME NEW l \in Nat \ {0}
    PROVE  1 \in 1 .. l /\ l \in 1 .. l
  OBVIOUS

\* With one pronunciation per word the graph is a chain.
LEMMA OneRunFollows ==
    ASSUME NEW E, NEW words, OneRun(words, E), NEW k \in 1 .. Len(Slots(words))
    PROVE  LET n == Len(Slots(words))
               next == MkPhoneGraph(words).next[k]
           IN  /\ k = n => next = {}
               /\ k # n => next = {k + 1}
  <1> DEFINE w == Len(words)
             len == [i \in 1 .. w |-> Len(words[i][1].phones)]
             slots == Slots(words)
             n == Len(slots)
             g == MkPhoneGraph(words)
             Heads(i) == {j \in DOMAIN slots : slots[j].word = i /\ slots[j].first}
  <1>1. PICK off : Aligned(off, words)
    BY SlotsAligned
  <1>2. /\ len \in [1 .. w -> Nat \ {0}] /\ Ranks(off, len, w) /\ n = off[w]
        /\ \A i \in 1 .. w : \A p \in 1 .. len[i] :
             /\ slots[off[i - 1] + p].word = i
             /\ slots[off[i - 1] + p].first <=> p = 1
             /\ slots[off[i - 1] + p].last <=> p = len[i]
    BY <1>1 DEF Aligned
  <1>3. w \in Nat /\ n \in Nat /\ DOMAIN slots = 1 .. n
    <2>1. words \in Seq(Seq(E)) /\ Connected(slots)
      BY SlotsConnected DEF OneRun, Spelled
    <2> QED
      BY <2>1, LenProperties DEF Connected
  <1>4. g.next[k] = IF slots[k].last THEN Heads(slots[k].word + 1) ELSE {k + 1}
    BY <1>3 DEF MkPhoneGraph
  <1> HIDE DEF len, slots, n, g, w
  <1>5. len \in [1 .. w -> Nat] /\ off \in [0 .. w -> Nat]
        /\ \A i \in 1 .. w : off[i] = off[i - 1] + len[i]
    BY <1>2 DEF Ranks
  <1>6. Tiled(off, len, w)
    BY <1>2, <1>3, <1>5, Places
  <1>7. ASSUME NEW j \in 1 .. n
        PROVE  \E i \in 1 .. w : \E p \in 1 .. len[i] : j = off[i - 1] + p
    BY <1>2, <1>6 DEF Tiled
  <1>8. k \in 1 .. n
    BY DEF n, slots
  <1>9. PICK i \in 1 .. w : \E p \in 1 .. len[i] : k = off[i - 1] + p
    BY <1>7, <1>8
  <1>10. PICK p \in 1 .. len[i] : k = off[i - 1] + p
    BY <1>9
  <1>11. /\ i \in 0 .. w /\ i - 1 \in 0 .. w /\ off[i - 1] \in Nat /\ off[i] \in Nat
         /\ len[i] \in Nat \ {0} /\ off[i] = off[i - 1] + len[i]
    <2>1. i \in 0 .. w /\ i - 1 \in 0 .. w
      BY <1>3, Predecessor
    <2> QED
      BY <1>2, <1>5, <2>1
  <1>12. CASE p # len[i]
    <2>1. ~slots[k].last
      BY <1>2, <1>10, <1>12
    <2>2. p + 1 \in 1 .. len[i] /\ off[i - 1] + (p + 1) = k + 1
      BY <1>10, <1>11, <1>12
    <2>3. k + 1 \in 1 .. n
      <3>1. off[i - 1] + (p + 1) \in 1 .. off[w]
        BY <1>2, <1>3, <1>5, <2>2, PlaceInFlat
      <3> QED
        BY <1>2, <2>2, <3>1
    <2>4. k # n
      BY <1>3, <1>8, <2>3
    <2> QED
      BY <1>4, <2>1, <2>4 DEF n, slots, g
  <1>13. CASE p = len[i]
    <2>1. slots[k].last /\ slots[k].word = i /\ k = off[i]
      BY <1>2, <1>10, <1>11, <1>13
    <2>2. g.next[k] = Heads(i + 1)
      BY <1>4, <2>1
    <2>3. ASSUME NEW j \in Heads(i + 1)
          PROVE  i # w /\ j = off[i] + 1
      <3>1. j \in 1 .. n /\ slots[j].word = i + 1 /\ slots[j].first
        BY <1>3, <2>3
      <3>2. PICK h \in 1 .. w : \E q \in 1 .. len[h] : j = off[h - 1] + q
        BY <1>7, <3>1
      <3>3. PICK q \in 1 .. len[h] : j = off[h - 1] + q
        BY <3>2
      <3>4. h = i + 1 /\ q = 1
        BY <1>2, <3>1, <3>3
      <3>5. h - 1 = i /\ i # w
        BY <1>3, <3>4
      <3> QED
        BY <3>3, <3>4, <3>5
    <2>4. CASE i = w
      <3>1. k = n
        BY <1>2, <2>1, <2>4
      <3>2. Heads(i + 1) = {}
        BY <2>3, <2>4
      <3> QED
        BY <2>2, <3>1, <3>2 DEF n, slots, g
    <2>5. CASE i # w
      <3>1. i + 1 \in 1 .. w /\ (i + 1) - 1 = i
        BY <1>3, <2>5, LaterPart
      <3>2. 1 \in 1 .. len[i + 1]
        <4>1. len[i + 1] \in Nat \ {0}
          BY <1>2, <3>1
        <4> QED
          BY <4>1, LastOfRun
      <3>3. off[i] + 1 \in 1 .. n
        <4> DEFINE h == i + 1
        <4>1. h \in 1 .. w /\ h - 1 = i /\ 1 \in 1 .. len[h]
          BY <3>1, <3>2
        <4> HIDE DEF h
        <4>2. off[h - 1] + 1 \in 1 .. off[w]
          BY <1>2, <1>3, <1>5, <4>1, PlaceInFlat
        <4> QED
          BY <1>2, <4>1, <4>2
      <3>4. slots[off[i] + 1].word = i + 1 /\ slots[off[i] + 1].first
        <4> DEFINE h == i + 1
        <4>1. h \in 1 .. w /\ h - 1 = i /\ 1 \in 1 .. len[h]
          BY <3>1, <3>2
        <4> HIDE DEF h
        <4>2. slots[off[h - 1] + 1].word = h /\ slots[off[h - 1] + 1].first
          BY <1>2, <4>1
        <4>3. slots[off[i] + 1].word = h /\ slots[off[i] + 1].first
          BY <4>1, <4>2
        <4> QED
          BY <4>3 DEF h
      <3>5. Heads(i + 1) = {off[i] + 1}
        BY <1>3, <2>3, <3>3, <3>4
      <3>6. g.next[k] = {k + 1}
        BY <2>1, <2>2, <3>5
      <3>7. k # n
        BY <1>3, <1>8, <2>1, <3>3
      <3> QED
        BY <3>6, <3>7 DEF n, slots, g
    <2> QED
      BY <2>4, <2>5
  <1> QED
    BY <1>12, <1>13

LEMMA ChainMirror ==
    ASSUME NEW g, NEW n, Layered(g, n),
           \A k \in 1 .. n : /\ k = n => g.next[k] = {}
                             /\ k # n => g.next[k] = {k + 1}
    PROVE  g.next = Chain(n).next /\ g.prior = Chain(n).prior
  <1> DEFINE c == Chain(n)
  <1>1. /\ n \in Nat /\ g.next \in [1 .. n -> SUBSET (1 .. n)]
        /\ g.prior \in [1 .. n -> SUBSET (1 .. n)]
        /\ \A k, j \in 1 .. n : j \in g.next[k] <=> k \in g.prior[j]
    BY DEF Layered
  <1>2. /\ c.next \in [1 .. n -> SUBSET (1 .. n)] /\ c.prior \in [1 .. n -> SUBSET (1 .. n)]
        /\ \A k \in 1 .. n : /\ k = n => c.next[k] = {}
                             /\ k # n => c.next[k] = {k + 1}
                             /\ k = 1 => c.prior[k] = {}
                             /\ k # 1 => c.prior[k] = {k - 1}
    BY <1>1, ChainEnds
  <1> HIDE DEF c
  <1>3. \A k \in 1 .. n : g.next[k] = c.next[k]
    BY <1>2
  <1>4. ASSUME NEW k \in 1 .. n PROVE g.prior[k] = c.prior[k]
    <2>1. ASSUME NEW j \in 1 .. n PROVE j \in g.prior[k] <=> j = k - 1
      <3>1. j \in g.prior[k] <=> k \in g.next[j]
        BY <1>1
      <3>2. k \in g.next[j] <=> j # n /\ k = j + 1
        <4>1. CASE j = n
          BY <4>1
        <4>2. CASE j # n
          BY <4>2
        <4> QED
          BY <4>1, <4>2
      <3>3. j # n /\ k = j + 1 <=> j = k - 1
        BY <1>1
      <3> QED
        BY <3>1, <3>2, <3>3
    <2>2. g.prior[k] \subseteq 1 .. n
      BY <1>1
    <2>3. CASE k = 1
      <3>1. \A j \in 1 .. n : j # k - 1
        BY <2>3
      <3>2. g.prior[k] = {}
        BY <2>1, <2>2, <3>1
      <3> QED
        BY <1>2, <2>3, <3>2
    <2>4. CASE k # 1
      <3>1. k - 1 \in 1 .. n
        BY <1>1, <2>4
      <3>2. g.prior[k] = {k - 1}
        BY <2>1, <2>2, <3>1
      <3> QED
        BY <1>2, <2>4, <3>2
    <2> QED
      BY <2>3, <2>4
  <1> QED
    BY <1>1, <1>2, <1>3, <1>4 DEF c

\* A chain has one copy of each slot, so the split leaves it as it is.
LEMMA ChainIsUnsplit ==
    ASSUME NEW g, NEW n, Layered(g, n), g.next = Chain(n).next, g.prior = Chain(n).prior
    PROVE  SplitContexts(g) = g
  <1> DEFINE copies == ClassifySlots(g)
             m == Len(copies)
             slot == [c \in 1 .. m |-> copies[c].slot]
  <1>1. n \in Nat /\ \A k \in 1 .. n : /\ k = n => g.next[k] = {}
                                       /\ k # n => g.next[k] = {k + 1}
                                       /\ k = 1 => g.prior[k] = {}
                                       /\ k # 1 => g.prior[k] = {k - 1}
    BY ChainEnds DEF Layered
  <1>2. Classified(g, n, copies)
    BY SlotsClassified
  <1> HIDE DEF copies
  <1>3. /\ m \in Nat
        /\ \A c \in 1 .. m : copies[c].slot \in 1 .. n /\ copies[c] \in CopiesOf(g, copies[c].slot)
        /\ \A k \in 1 .. n : \A x \in CopiesOf(g, k) : \E c \in 1 .. m : copies[c] = x
        /\ \A c, d \in 1 .. m : copies[c] = copies[d] => c = d
    BY <1>2, ClassifiedTypes DEF Classified
  <1>4. ASSUME NEW k \in 1 .. n
        PROVE  \E l, r : Lefts(g, k) = {l} /\ Rights(g, k) = {r}
    <2>1. \E l : Lefts(g, k) = {l}
      <3>1. CASE g.phone[k] \in Fillers \/ k = 1
        <4>1. Lefts(g, k) = {SIL}
          BY <1>1, <3>1 DEF Lefts, Contexts
        <4> QED
          BY <4>1
      <3>2. CASE g.phone[k] \notin Fillers /\ k # 1
        <4>1. g.prior[k] = {k - 1}
          BY <1>1, <3>2
        <4>2. Lefts(g, k) = {ContextPhone(g.phone[k - 1])}
          BY <3>2, <4>1 DEF Lefts, Contexts
        <4> QED
          BY <4>2
      <3> QED
        BY <3>1, <3>2
    <2>2. \E r : Rights(g, k) = {r}
      <3>1. CASE g.phone[k] \in Fillers \/ k = n
        <4>1. Rights(g, k) = {SIL}
          BY <1>1, <3>1 DEF Rights, Contexts
        <4> QED
          BY <4>1
      <3>2. CASE g.phone[k] \notin Fillers /\ k # n
        <4>1. g.next[k] = {k + 1}
          BY <1>1, <3>2
        <4>2. Rights(g, k) = {ContextPhone(g.phone[k + 1])}
          BY <3>2, <4>1 DEF Rights, Contexts
        <4> QED
          BY <4>2
      <3> QED
        BY <3>1, <3>2
    <2> QED
      BY <2>1, <2>2
  <1>5. ASSUME NEW k \in 1 .. n PROVE \E x : CopiesOf(g, k) = {x}
    <2>1. PICK l, r : Lefts(g, k) = {l} /\ Rights(g, k) = {r}
      BY <1>4
    <2>2. \A x \in CopiesOf(g, k) : x = Copy(k, l, r)
      <3>1. ASSUME NEW x \in CopiesOf(g, k) PROVE x = Copy(k, l, r)
        <4>1. x = [slot |-> x.slot, left |-> x.left, right |-> x.right]
              /\ x.slot = k /\ x.left \in Lefts(g, k) /\ x.right \in Rights(g, k)
          BY CopyTypes
        <4> QED
          BY <2>1, <4>1 DEF Copy
      <3> QED
        BY <3>1
    <2>3. Copy(k, l, r) \in CopiesOf(g, k)
      <3> DEFINE a == <<l, r>>
      <3>1. a \in Lefts(g, k) \X Rights(g, k) /\ a[1] = l /\ a[2] = r
        BY <2>1
      <3> HIDE DEF a
      <3> QED
        BY <3>1 DEF CopiesOf
    <2>4. CopiesOf(g, k) = {Copy(k, l, r)}
      BY <2>2, <2>3
    <2> QED
      BY <2>4
  <1>6. slot \in Injection(1 .. m, 1 .. n) /\ slot \in Surjection(1 .. m, 1 .. n)
    <2>1. slot \in [1 .. m -> 1 .. n]
      BY <1>3
    <2>2. \A c \in 1 .. m : slot[c] = copies[c].slot
      OBVIOUS
    <2> HIDE DEF slot, m
    <2>3. ASSUME NEW c \in 1 .. m, NEW d \in 1 .. m, slot[c] = slot[d] PROVE c = d
      <3>1. PICK x : CopiesOf(g, slot[c]) = {x}
        BY <1>5, <2>1
      <3>2. copies[c] = x /\ copies[d] = x
        BY <1>3, <2>2, <2>3, <3>1
      <3> QED
        BY <1>3, <3>2
    <2>4. ASSUME NEW k \in 1 .. n PROVE \E c \in 1 .. m : slot[c] = k
      <3>1. PICK x : CopiesOf(g, k) = {x}
        BY <1>5
      <3>2. PICK c \in 1 .. m : copies[c] = x
        BY <1>3, <3>1
      <3>3. x \in CopiesOf(g, k)
        BY <3>1
      <3>4. x.slot = k
        BY <3>3, CopyTypes
      <3> QED
        BY <2>2, <3>2, <3>4
    <2> QED
      BY <2>1, <2>3, <2>4 DEF Injection, Surjection, IsInjective
  <1>7. m = n
    <2> HIDE DEF slot, m
    <2>1. IsFiniteSet(1 .. n) /\ Cardinality(1 .. n) = n /\ IsFiniteSet(1 .. m) /\ Cardinality(1 .. m) = m
      <3>1. 1 \in Int /\ n \in Int /\ m \in Int
        BY <1>1, <1>3
      <3>2. IsFiniteSet(1 .. n) /\ IsFiniteSet(1 .. m)
        BY <3>1, FS_Interval
      <3>3. Cardinality(1 .. n) = n /\ Cardinality(1 .. m) = m
        BY <1>1, <1>3, <3>1, FS_Interval
      <3> QED
        BY <3>2, <3>3
    <2>2. Cardinality(1 .. m) = Cardinality(1 .. n)
      BY <1>6, <2>1, FS_Injection
    <2> QED
      BY <2>1, <2>2
  <1>8. Len(g.phone) = n
    <2>1. g.phone \in [1 .. n -> Phones]
      BY DEF Layered
    <2> QED
      BY <1>1, <2>1, AsSeq
  <1> QED
    BY <1>7, <1>8 DEF SplitContexts, copies

-----------------------------------------------------------------------------
(* A chain and a list of the same phones have the same models.             *)

LEMMA LeastOfOne ==
    ASSUME NEW x \in Nat
    PROVE  Min({x}) = x
  <1>1. x \in {x} /\ \A y \in {x} : x <= y
    OBVIOUS
  <1>2. \A z \in {x} : z = x
    OBVIOUS
  <1> QED
    BY <1>1, <1>2 DEF Min

\* A chain and a list of the same phones.
Paired(g, list, n) ==
  /\ Layered(g, n) /\ g.next = Chain(n).next /\ g.prior = Chain(n).prior
  /\ Len(list) = n
  /\ \A k \in 1 .. n : list[k].phone = g.phone[k] /\ list[k].btw = g.btw[k]

\* The positions of the phones of a list.
Positions(f, list, n) ==
  /\ f[0] = "e"
  /\ \A k \in 1 .. n : f[k] = BtwPosn(list[k].btw, f[k - 1])

LEMMA ListPositions ==
    ASSUME NEW n \in Nat, NEW list, Len(list) = n
    PROVE  Positions(ListPosns(list), list, n)
  <1> DEFINE W == {"b", "e", "s", "i"}
             step == [k \in 1 .. n |-> [w \in W |-> BtwPosn(list[k].btw, w)]]
             posn[k \in 0 .. n] == IF k = 0 THEN "e" ELSE BtwPosn(list[k].btw, posn[k - 1])
  <1>1. \A btw, w : BtwPosn(btw, w) \in W
    BY DEF BtwPosn
  <1>2. step \in [1 .. n -> [W -> W]] /\ "e" \in W
    BY <1>1
  <1>3. \A k \in 1 .. n : \A w \in W : step[k][w] = BtwPosn(list[k].btw, w)
    OBVIOUS
  <1> HIDE DEF step, W
  <1>4. PICK f : Iterates(f, n, W, "e", step)
    BY <1>2, Iteration
  <1>5. /\ f \in [0 .. n -> W] /\ f[0] = "e"
        /\ \A k \in 1 .. n : f[k] = step[k][f[k - 1]]
    BY <1>4 DEF Iterates
  <1>6. ASSUME NEW k \in 1 .. n PROVE f[k] = BtwPosn(list[k].btw, f[k - 1])
    <2>1. f[k - 1] \in W
      BY <1>5, Predecessor
    <2> QED
      BY <1>3, <1>5, <2>1
  <1>7. f = [k \in 0 .. n |-> IF k = 0 THEN "e" ELSE BtwPosn(list[k].btw, f[k - 1])]
    <2> DEFINE g == [k \in 0 .. n |-> IF k = 0 THEN "e" ELSE BtwPosn(list[k].btw, f[k - 1])]
    <2>1. ASSUME NEW k \in 0 .. n PROVE f[k] = g[k]
      <3>1. CASE k = 0
        BY <1>5, <3>1
      <3>2. CASE k # 0
        <4>1. k \in 1 .. n
          BY <3>2
        <4> QED
          BY <1>6, <3>2, <4>1
      <3> QED
        BY <3>1, <3>2
    <2>2. DOMAIN g = 0 .. n /\ g = [k \in 0 .. n |-> g[k]]
      OBVIOUS
    <2> HIDE DEF g
    <2>3. f = g
      BY <1>5, <2>1, <2>2
    <2> QED
      BY <2>3 DEF g
  <1>8. posn = [k \in 0 .. n |-> IF k = 0 THEN "e" ELSE BtwPosn(list[k].btw, posn[k - 1])]
    BY <1>7
  <1>9. ListPosns(list) = posn
    BY DEF ListPosns
  <1> HIDE DEF posn
  <1>10. posn[0] = "e"
    <2>1. 0 \in 0 .. n
      OBVIOUS
    <2> QED
      BY <1>8, <2>1
  <1>11. ASSUME NEW k \in 1 .. n PROVE posn[k] = BtwPosn(list[k].btw, posn[k - 1])
    <2>1. k \in 0 .. n /\ k # 0
      OBVIOUS
    <2> QED
      BY <1>8, <2>1
  <1> QED
    BY <1>9, <1>10, <1>11 DEF Positions

\* The graph gives each slot the same position.
LEMMA SamePositions ==
    ASSUME NEW g, NEW list, NEW n, Paired(g, list, n), NEW k \in 1 .. n
    PROVE  GraphPosns(g)[k] = ListPosns(list)[k]
  <1> DEFINE f == ListPosns(list)
             posn[j \in DOMAIN g.phone] ==
               BtwPosn(g.btw[j], IF g.prior[j] = {} THEN "e" ELSE posn[Min(g.prior[j])])
             h == [j \in 1 .. n |-> f[j]]
  <1>1. /\ n \in Nat /\ DOMAIN g.phone = 1 .. n /\ Len(list) = n
        /\ \A j \in 1 .. n : list[j].btw = g.btw[j]
    BY DEF Paired, Layered
  <1>2. \A j \in 1 .. n : /\ j = 1 => g.prior[j] = {}
                          /\ j # 1 => g.prior[j] = {j - 1}
    BY <1>1, ChainEnds DEF Paired
  <1>3. f[0] = "e" /\ \A j \in 1 .. n : f[j] = BtwPosn(g.btw[j], f[j - 1])
    BY <1>1, ListPositions DEF Positions
  <1> HIDE DEF f
  <1>4. ASSUME NEW j \in 1 .. n, j # 1
        PROVE  g.prior[j] # {} /\ Min(g.prior[j]) = j - 1 /\ j - 1 \in 1 .. n
    <2>1. j - 1 \in Nat /\ j - 1 \in 1 .. n
      BY <1>1, <1>4
    <2>2. g.prior[j] = {j - 1}
      BY <1>2, <1>4
    <2> QED
      BY <2>1, <2>2, LeastOfOne
  <1>5. h = [j \in DOMAIN g.phone |->
               BtwPosn(g.btw[j], IF g.prior[j] = {} THEN "e" ELSE h[Min(g.prior[j])])]
    <2>1. ASSUME NEW j \in 1 .. n
          PROVE  h[j] = BtwPosn(g.btw[j], IF g.prior[j] = {} THEN "e" ELSE h[Min(g.prior[j])])
      <3>1. h[j] = BtwPosn(g.btw[j], f[j - 1])
        BY <1>3
      <3>2. CASE j = 1
        <4>1. g.prior[j] = {} /\ f[j - 1] = "e"
          BY <1>2, <1>3, <3>2
        <4> QED
          BY <3>1, <4>1
      <3>3. CASE j # 1
        <4>1. g.prior[j] # {} /\ Min(g.prior[j]) = j - 1 /\ h[j - 1] = f[j - 1]
          BY <1>4, <3>3
        <4> HIDE DEF h
        <4> QED
          BY <3>1, <4>1
      <3> QED
        BY <3>2, <3>3
    <2>2. h = [j \in 1 .. n |-> h[j]]
      OBVIOUS
    <2> HIDE DEF h
    <2> QED
      BY <1>1, <2>1, <2>2
  <1>6. posn = [j \in DOMAIN g.phone |->
                  BtwPosn(g.btw[j], IF g.prior[j] = {} THEN "e" ELSE posn[Min(g.prior[j])])]
    <2> HIDE DEF h
    <2> QED
      BY <1>5
  <1>7. GraphPosns(g) = posn
    BY DEF GraphPosns
  <1> HIDE DEF posn, h
  <1> DEFINE P == {j \in 1 .. n : posn[j] = f[j]}
  <1>8. 1 \in P
    <2>1. 1 \in 1 .. n /\ g.prior[1] = {} /\ f[1] = BtwPosn(g.btw[1], "e")
      <3>1. 1 \in 1 .. n
        BY <1>1
      <3>2. f[1] = BtwPosn(g.btw[1], f[1 - 1])
        BY <1>3, <3>1
      <3> QED
        BY <1>2, <1>3, <3>1, <3>2
    <2>2. posn[1] = BtwPosn(g.btw[1], "e")
      BY <1>1, <1>6, <2>1
    <2> QED
      BY <2>1, <2>2
  <1>9. ASSUME NEW j \in 2 .. n, j - 1 \in P PROVE j \in P
    <2>1. j \in 1 .. n /\ j # 1
      BY <1>1
    <2>2. posn[j] = BtwPosn(g.btw[j], posn[j - 1])
      BY <1>1, <1>4, <1>6, <2>1
    <2>3. posn[j - 1] = f[j - 1] /\ f[j] = BtwPosn(g.btw[j], f[j - 1])
      BY <1>3, <1>9, <2>1
    <2> QED
      BY <2>1, <2>2, <2>3
  <1> HIDE DEF P
  <1>10. k \in P
    BY <1>1, <1>8, <1>9, UpFromOne
  <1> QED
    BY <1>7, <1>10 DEF P, f

\* And, when the last is a filler, the same model.
LEMMA SameModels ==
    ASSUME NEW g, NEW list, NEW n, Paired(g, list, n), n # 0, g.phone[n] \in Fillers, NEW tris
    PROVE  Cvt2TriphoneGraph(g, tris) = Cvt2Triphone(list, tris)
  <1> DEFINE posn == ListPosns(list)
             Left(k)  == IF k = 1 THEN SIL ELSE ContextPhone(list[k - 1].phone)
             Right(k) == IF k = n THEN SIL ELSE ContextPhone(list[k + 1].phone)
             Own(k)   == Triphone(list[k].phone, Left(k), Right(k), posn[k])
             ByList(k) ==
               IF tris = {} \/ list[k].phone \in Fillers THEN CI(list[k].phone)
               ELSE IF k = n THEN IF Own(k) \in tris THEN Own(k) ELSE CI(list[k].phone)
               ELSE Resolve(list[k].phone, Left(k), Right(k), posn[k], tris)
             own == VisitTriphones(g)
             ByGraph(k) ==
               IF tris = {} \/ g.phone[k] \in Fillers THEN CI(g.phone[k])
               ELSE Resolve(own[k].base, own[k].left, own[k].right, own[k].posn, tris)
  <1>1. /\ n \in Nat /\ DOMAIN g.phone = 1 .. n /\ Len(list) = n
        /\ \A k \in 1 .. n : list[k].phone = g.phone[k]
    BY DEF Paired, Layered
  <1>2. \A k \in 1 .. n : /\ k = n => g.next[k] = {}
                          /\ k # n => g.next[k] = {k + 1}
                          /\ k = 1 => g.prior[k] = {}
                          /\ k # 1 => g.prior[k] = {k - 1}
    BY <1>1, ChainEnds DEF Paired
  <1>3. Cvt2Triphone(list, tris) = [k \in 1 .. n |-> ByList(k)]
    BY <1>1 DEF Cvt2Triphone
  <1>4. Cvt2TriphoneGraph(g, tris) = [k \in 1 .. n |-> ByGraph(k)]
    BY <1>1 DEF Cvt2TriphoneGraph
  <1>5. ASSUME NEW k \in 1 .. n
        PROVE  own[k] = Triphone(list[k].phone, Left(k), Right(k), posn[k])
    <2>1. own[k] = Triphone(g.phone[k], FirstContext(g, g.prior[k]),
                            FirstContext(g, g.next[k]), GraphPosns(g)[k])
      BY <1>1 DEF VisitTriphones
    <2>2. FirstContext(g, g.prior[k]) = Left(k)
      <3>1. CASE k = 1
        BY <1>2, <3>1 DEF FirstContext
      <3>2. CASE k # 1
        <4>1. k - 1 \in 1 .. n /\ k - 1 \in Nat
          BY <1>1, <3>2
        <4>2. g.prior[k] = {k - 1} /\ Min({k - 1}) = k - 1 /\ g.prior[k] # {}
          BY <1>2, <3>2, <4>1, LeastOfOne
        <4>3. list[k - 1].phone = g.phone[k - 1]
          BY <1>1, <4>1
        <4>4. FirstContext(g, g.prior[k]) = ContextPhone(g.phone[k - 1])
          BY <4>2 DEF FirstContext
        <4> QED
          BY <3>2, <4>3, <4>4
      <3> QED
        BY <3>1, <3>2
    <2>3. FirstContext(g, g.next[k]) = Right(k)
      <3>1. CASE k = n
        BY <1>2, <3>1 DEF FirstContext
      <3>2. CASE k # n
        <4>1. k + 1 \in 1 .. n /\ k + 1 \in Nat
          BY <1>1, <3>2
        <4>2. g.next[k] = {k + 1} /\ Min({k + 1}) = k + 1 /\ g.next[k] # {}
          BY <1>2, <3>2, <4>1, LeastOfOne
        <4>3. list[k + 1].phone = g.phone[k + 1]
          BY <1>1, <4>1
        <4>4. FirstContext(g, g.next[k]) = ContextPhone(g.phone[k + 1])
          BY <4>2 DEF FirstContext
        <4> QED
          BY <3>2, <4>3, <4>4
      <3> QED
        BY <3>1, <3>2
    <2>4. GraphPosns(g)[k] = posn[k] /\ g.phone[k] = list[k].phone
      BY <1>1, SamePositions
    <2> HIDE DEF Left, Right, posn, own
    <2> QED
      BY <2>1, <2>2, <2>3, <2>4
  <1>6. ASSUME NEW k \in 1 .. n PROVE ByGraph(k) = ByList(k)
    <2>1. g.phone[k] = list[k].phone
      BY <1>1
    <2>2. CASE tris = {} \/ g.phone[k] \in Fillers
      BY <2>1, <2>2
    <2>3. CASE ~(tris = {} \/ g.phone[k] \in Fillers)
      <3>1. k # n
        BY <2>3
      <3>2. /\ own[k].base = list[k].phone /\ own[k].left = Left(k)
            /\ own[k].right = Right(k) /\ own[k].posn = posn[k]
        <4> HIDE DEF own, Left, Right, posn
        <4>1. own[k] = Triphone(list[k].phone, Left(k), Right(k), posn[k])
          BY <1>5
        <4>2. own[k] = [base |-> list[k].phone, left |-> Left(k), right |-> Right(k),
                        posn |-> posn[k]]
          BY <4>1 DEF Triphone
        <4> QED
          BY <4>2
      <3> HIDE DEF own, Left, Right, posn, Own
      <3> QED
        BY <2>1, <2>3, <3>1, <3>2
    <2> QED
      BY <2>2, <2>3
  <1> HIDE DEF ByGraph, ByList
  <1> QED
    BY <1>3, <1>4, <1>6

\* Both builders, from there on.
LEMMA SameHMM ==
    ASSUME NEW g, NEW list, NEW n, Paired(g, list, n), n # 0, g.phone[n] \in Fillers, NEW tris,
           NEW K \in Nat \ {0}, NEW tmat
    PROVE  StateSeqMakeGraph(g, Cvt2TriphoneGraph(g, tris), K, tmat)
             = StateSeqMake(Cvt2Triphone(list, tris), K, tmat)
  <1> DEFINE id == Cvt2Triphone(list, tris)
  <1>1. Cvt2TriphoneGraph(g, tris) = id
    BY SameModels
  <1>2. n \in Nat /\ g.next = Chain(n).next /\ g.prior = Chain(n).prior /\ Layered(g, n)
    BY DEF Paired, Layered
  <1>3. Len(id) = n
    BY <1>1, <1>2, GraphModels DEF Models
  <1> HIDE DEF id
  <1>4. StateSeqMakeGraph(g, id, K, tmat) = StateSeqMakeGraph(Chain(n), id, K, tmat)
    BY <1>2 DEF StateSeqMakeGraph
  <1>5. StateSeqMake(id, K, tmat) = StateSeqMakeGraph(Chain(n), id, K, tmat)
    BY <1>2, <1>3, ListIsChain
  <1> QED
    BY <1>1, <1>4, <1>5 DEF id

-----------------------------------------------------------------------------
(* The two builders agree.                                                 *)

\* The words the linear builder spells out.
SpelledOut(plan, lex, words, E) ==
  /\ OneSaid(plan, E)
  /\ MkPhoneList(lex, words) = FlattenSeq([k \in 1 .. Len(plan) |-> ListRow(plan[k][1])])

\* Each known word has one entry, whose phones are those of the linear list.
LEMMA PlainPlan ==
    ASSUME NEW s \in Setups, NEW i \in DOMAIN s.texts, NEW lex, lex = LexiconRead(s.dict),
           NEW words, words = s.texts[i],
           NEW plan, plan = [k \in DOMAIN words |-> LexiconLookup(lex, words[k])],
           Expandable(plan)
    PROVE  \E E : SpelledOut(plan, lex, words, E)
  <1>1. PICK E : lex \in Seq(E) /\ \A e \in E : e.phones \in Seq(Phones)
    BY SessionLexicon
  <1>2. IsSeq(words) /\ IsSeq(s.dict)
    BY SetupsAssumption
  <1>3. OneEach(lex)
    BY <1>2, LexiconOneEach
  <1>4. Len(words) \in Nat /\ DOMAIN words = 1 .. Len(words)
    BY <1>2 DEF IsSeq
  <1>5. ASSUME NEW k \in 1 .. Len(words)
        PROVE  plan[k] = LexiconLookup(lex, words[k]) /\ plan[k] \in Seq(E) /\ Len(plan[k]) = 1
    <2>1. plan[k] = LexiconLookup(lex, words[k]) /\ plan[k] # <<>>
      BY <1>4 DEF Expandable
    <2> QED
      BY <1>1, <1>3, <2>1, LookupIsOne
  <1>6. plan \in [1 .. Len(words) -> Seq(E)]
    BY <1>4, <1>5
  <1>7. plan \in Seq(Seq(E)) /\ Len(plan) = Len(words)
    BY <1>4, <1>6, AsSeq
  <1>8. OneSaid(plan, E)
    BY <1>1, <1>5, <1>7 DEF OneSaid, Rows
  <1>9. MkPhoneList(lex, words) = FlattenSeq([k \in 1 .. Len(plan) |-> ListRow(plan[k][1])])
    <2> DEFINE Listing(k) ==
                 LET e == LexiconLookup(lex, words[k])[1]
                 IN  [p \in DOMAIN e.phones |->
                        [phone |-> e.phones[p], btw |-> p = Len(e.phones)]]
    <2>1. MkPhoneList(lex, words) = FlattenSeq([k \in 1 .. Len(words) |-> Listing(k)])
      BY <1>4 DEF MkPhoneList
    <2>2. \A k \in 1 .. Len(words) : Listing(k) = ListRow(plan[k][1])
      BY <1>5 DEF ListRow
    <2> HIDE DEF Listing
    <2>3. [k \in 1 .. Len(words) |-> Listing(k)] = [k \in 1 .. Len(plan) |-> ListRow(plan[k][1])]
      BY <1>7, <2>2
    <2> QED
      BY <2>1, <2>3
  <1> QED
    BY <1>8, <1>9 DEF SpelledOut

\* So the two builders agree on it.
LEMMA BuildersMatch ==
    ASSUME NEW s \in Setups, NEW i \in DOMAIN s.texts, NEW lex, lex = LexiconRead(s.dict),
           NEW text, text = s.texts[i],
           NEW plan, plan = [k \in DOMAIN text |-> LexiconLookup(lex, text[k])],
           Expandable(plan), Pronounced(s, i) = Sounded(plan), Sounded(plan) # <<>>, NEW tris
    PROVE  LET g == SplitContexts(MkPhoneGraph(Sounded(plan))) IN
           StateSeqMakeGraph(g, Cvt2TriphoneGraph(g, tris), s.K, s.tmat)
             = StateSeqMake(Cvt2Triphone(MkPhoneList(lex, text), tris), s.K, s.tmat)
  <1> DEFINE words == Sounded(plan)
             list == MkPhoneList(lex, text)
             slots == Slots(words)
             n == Len(slots)
             g == MkPhoneGraph(words)
  <1>1. PICK E : SpelledOut(plan, lex, text, E)
    BY PlainPlan
  <1>2. OneRun(words, E) /\ Mapped(list, slots, AsListed)
    <2> DEFINE spelled == FlattenSeq([k \in 1 .. Len(plan) |-> ListRow(plan[k][1])])
    <2>1. OneSaid(plan, E) /\ list = spelled
      BY <1>1 DEF SpelledOut
    <2>2. OneRun(words, E) /\ Mapped(spelled, slots, AsListed)
      BY <2>1, ListOfSlots
    <2> HIDE DEF spelled, list
    <2> QED
      BY <2>1, <2>2
  <1>3. /\ words # <<>>
        /\ Len(words[Len(words)]) = 1 /\ Last(words[Len(words)][1].phones) \in Fillers
    BY EndsAssumption
  <1> HIDE DEF words, list
  <1>4. Spelled(words, E) /\ Voiced(words)
    BY <1>2 DEF OneRun
  <1>5. Layered(g, n) /\ EndsAt(g, n)
    BY <1>3, <1>4, PhoneGraphLayered, PhoneGraphEnds
  <1>6. g.next = Chain(n).next /\ g.prior = Chain(n).prior
    <2>1. \A k \in 1 .. n : /\ k = n => g.next[k] = {}
                            /\ k # n => g.next[k] = {k + 1}
      BY <1>2, OneRunFollows
    <2> HIDE DEF g, n
    <2> QED
      BY <1>5, <2>1, ChainMirror
  <1>7. SplitContexts(g) = g
    <2> HIDE DEF g, n
    <2> QED
      BY <1>5, <1>6, ChainIsUnsplit
  <1>8. slots \in Seq(SlotType) /\ DOMAIN slots = 1 .. n
    BY <1>4, SlotsConnected DEF Connected
  <1>9. ASSUME NEW k \in 1 .. n PROVE list[k].phone = g.phone[k] /\ list[k].btw = g.btw[k]
    <2>1. list[k] = AsListed[slots[k]] /\ slots[k] \in SlotType
      BY <1>2, <1>8, ElementOfSeq DEF Mapped
    <2>2. list[k] = [phone |-> slots[k].phone, btw |-> slots[k].last]
      BY <2>1 DEF AsListed
    <2>3. g.phone[k] = slots[k].phone /\ g.btw[k] = slots[k].last
      BY <1>8 DEF MkPhoneGraph
    <2> QED
      BY <2>2, <2>3
  <1>10. Len(list) = n
    BY <1>2 DEF Mapped
  <1>11. s.K \in Nat \ {0}
    BY MatricesAssumption
  <1>12. n # 0 /\ g.phone[n] \in Fillers
    BY <1>5 DEF EndsAt
  <1> HIDE DEF g, n
  <1>13. Paired(g, list, n)
    BY <1>5, <1>6, <1>9, <1>10 DEF Paired
  <1>14. StateSeqMakeGraph(g, Cvt2TriphoneGraph(g, tris), s.K, s.tmat)
           = StateSeqMake(Cvt2Triphone(list, tris), s.K, s.tmat)
    BY <1>11, <1>12, <1>13, SameHMM
  <1> QED
    BY <1>7, <1>14 DEF g, words, list

\* What is built is of a transcript that can be built.
BuiltInv == hmm # NoHMM => Buildable

LEMMA BuiltInvInit == Init => BuiltInv
  BY DEF Init, BuiltInv

LEMMA BuiltInvStep == BuiltInv /\ [Next]_vars => BuiltInv'
  <1> SUFFICES ASSUME BuiltInv, [Next]_vars PROVE BuiltInv'
    OBVIOUS
  <1>1. ASSUME hmm' = hmm, setup' = setup, utt' = utt PROVE BuiltInv'
    BY <1>1 DEF BuiltInv, Buildable, GraphBuilt, Lexicon, Text
  <1>2. CASE Generate
    BY <1>1, <1>2 DEF Generate, sentence
  <1>3. CASE BuildUttStateSeq
    <2>1. setup' = setup /\ utt' = utt
      BY <1>3 DEF BuildUttStateSeq, building
    <2>2. CASE Buildable
      <3>1. Buildable'
        BY <2>1, <2>2 DEF Buildable, GraphBuilt, Lexicon, Text
      <3> QED
        BY <3>1 DEF BuiltInv
    <2>3. CASE ~Buildable
      BY <1>1, <1>3, <2>1, <2>3 DEF BuildUttStateSeq
    <2> QED
      BY <2>2, <2>3
  <1>4. CASE ForwardFirst
    BY <1>1, <1>4 DEF ForwardFirst, sentence, building
  <1>5. CASE ForwardFrame
    BY <1>1, <1>5 DEF ForwardFrame, sentence, building
  <1>6. CASE FinalStateNotReached
    BY <1>1, <1>6 DEF FinalStateNotReached, sentence, building
  <1>7. CASE BackwardStart
    BY <1>1, <1>7 DEF BackwardStart, sentence, building
  <1>8. CASE BackwardFrame
    BY <1>1, <1>8 DEF BackwardFrame, sentence, building
  <1>9. CASE BackwardEnd
    BY <1>1, <1>9 DEF BackwardEnd, sentence, building
  <1>10. CASE NextUtterance
    BY <1>10 DEF NextUtterance, BuiltInv
  <1>11. CASE UNCHANGED vars
    BY <1>1, <1>11 DEF vars
  <1> QED
    BY <1>2, <1>3, <1>4, <1>5, <1>6, <1>7, <1>8, <1>9, <1>10, <1>11 DEF Next

LEMMA BuiltAgree == GraphInv /\ BuiltInv => BuildersAgree
  <1> DEFINE plan == WordPlan(Lexicon, Text, TRUE)
             plain == [k \in DOMAIN Text |-> LexiconLookup(Lexicon, Text[k])]
             g == SplitContexts(MkPhoneGraph(Sounded(plan)))
             byGraph == StateSeqMakeGraph(g, Cvt2TriphoneGraph(g, inventory.tris),
                                          setup.K, setup.tmat)
  <1> SUFFICES ASSUME GraphInv, BuiltInv, Built,
                      \A k \in DOMAIN plan : plan[k] = LexiconLookup(Lexicon, Text[k])
               PROVE  NextUttStates = byGraph
    BY DEF BuildersAgree
  <1>1. setup \in Setups /\ utt \in DOMAIN setup.texts /\ Buildable
    BY DEF GraphInv, BuiltInv, Built
  <1>2. setup.multipron \in BOOLEAN
    BY <1>1, SetupsAssumption
  <1>3. plan = plain
    <2>1. DOMAIN plan = DOMAIN Text /\ plan = [k \in DOMAIN Text |-> plan[k]]
      BY DEF WordPlan
    <2> HIDE DEF plan
    <2> QED
      BY <2>1
  <1>4. WordPlan(Lexicon, Text, FALSE) = plain
    BY DEF WordPlan
  <1>5. /\ WordPlan(Lexicon, Text, setup.multipron) = plain
        /\ WordPlan(Lexicon, Text, GraphBuilt /\ setup.multipron) = plain
    <2>1. setup.multipron = TRUE \/ setup.multipron = FALSE
      BY <1>2
    <2>2. (GraphBuilt /\ setup.multipron) = setup.multipron
      BY <1>2 DEF GraphBuilt
    <2> HIDE DEF plain
    <2> QED
      BY <1>3, <1>4, <2>1, <2>2
  <1>6. Expandable(plain) /\ Sounded(plain) # <<>>
    BY <1>1, <1>5 DEF Buildable
  <1>7. Pronounced(setup, utt) = Sounded(plain)
    BY <1>5 DEF Pronounced, Lexicon, Text
  <1>8. plain = [k \in DOMAIN Text |-> LexiconLookup(Lexicon, Text[k])]
    OBVIOUS
  <1>9. Lexicon = LexiconRead(setup.dict) /\ Text = setup.texts[utt]
    BY DEF Lexicon, Text
  <1> HIDE DEF plan, plain
  <1>10. LET h == SplitContexts(MkPhoneGraph(Sounded(plain))) IN
         StateSeqMakeGraph(h, Cvt2TriphoneGraph(h, inventory.tris), setup.K, setup.tmat)
           = StateSeqMake(Cvt2Triphone(MkPhoneList(Lexicon, Text), inventory.tris),
                          setup.K, setup.tmat)
    BY <1>1, <1>6, <1>7, <1>8, <1>9, BuildersMatch
  <1> QED
    BY <1>3, <1>10 DEF NextUttStates

\* Of every transcript whose words have one pronunciation each, the linear
\* builder and the graph builder make the same sentence HMM, whatever triphones
\* the model definition lists (mk_phone_list.c, cvt2triphone.c and state_seq.c
\* against phone_graph.c, phone_graph_triphone.c and state_seq_graph.c).
THEOREM BuildersDoAgree == Spec => []BuildersAgree
  <1>1. Init => GraphInv /\ BuiltInv
    BY GraphInvInit, BuiltInvInit
  <1>2. GraphInv /\ BuiltInv /\ [Next]_vars => GraphInv' /\ BuiltInv'
    BY GraphInvStep, BuiltInvStep
  <1>3. GraphInv /\ BuiltInv => BuildersAgree
    BY BuiltAgree
  <1> QED
    BY <1>1, <1>2, <1>3, PTL DEF Spec

-----------------------------------------------------------------------------
(* What copies of slots keep: neighbours, contexts, positions in words.    *)

\* A split graph, copy by copy.
Copied(h, g, n, copies) ==
  /\ Layered(h, Len(copies)) /\ Classified(g, n, copies)
  /\ \A c \in 1 .. Len(copies) : /\ copies[c].slot \in 1 .. n
                                 /\ h.phone[c] = g.phone[copies[c].slot]
                                 /\ h.btw[c] = g.btw[copies[c].slot]
  /\ \A c, d \in 1 .. Len(copies) : d \in h.next[c] <=> Joined(g, copies[c], copies[d])

LEMMA UnsplitJoined ==
    ASSUME NEW g, NEW n, Layered(g, n), NEW copies, Classified(g, n, copies),
           Len(copies) = n, NEW c \in 1 .. n, NEW d \in 1 .. n
    PROVE  d \in g.next[c] <=> Joined(g, copies[c], copies[d])
  <1>1. /\ copies[c].slot = c /\ copies[d].slot = d
        /\ copies[c] \in CopiesOf(g, c) /\ copies[d] \in CopiesOf(g, d)
    BY UnsplitSlots DEF Classified
  <1>2. \A k \in 1 .. n : \A x \in CopiesOf(g, k) : x = copies[k]
    <2>1. ASSUME NEW k \in 1 .. n, NEW x \in CopiesOf(g, k) PROVE x = copies[k]
      <3>1. PICK e \in 1 .. n : copies[e] = x
        BY DEF Classified
      <3>2. copies[e].slot = e /\ x.slot = k
        BY <3>1, UnsplitSlots, CopyTypes
      <3> QED
        BY <3>1, <3>2
    <2> QED
      BY <2>1
  <1>3. /\ d \in g.next[c] <=> c \in g.prior[d]
        /\ g.next[c] \subseteq 1 .. n /\ g.prior[d] \subseteq 1 .. n
    BY DEF Layered
  <1>4. PICK l \in Lefts(g, c) : TRUE
    BY DEF Lefts, Contexts
  <1>5. PICK r \in Rights(g, d) : TRUE
    BY DEF Rights, Contexts
  <1>6. ASSUME c \in g.prior[d], g.phone[c] \notin Fillers
        PROVE  copies[c].right = ContextPhone(g.phone[d])
    <2> DEFINE x == ContextPhone(g.phone[d])
               a == <<l, x>>
    <2>1. x \in Rights(g, c)
      BY <1>3, <1>6 DEF Rights, Contexts
    <2>2. a \in Lefts(g, c) \X Rights(g, c) /\ a[1] = l /\ a[2] = x
      BY <2>1
    <2> HIDE DEF a, x
    <2>3. Copy(c, l, x) \in CopiesOf(g, c)
      BY <2>2 DEF CopiesOf
    <2>4. copies[c] = Copy(c, l, x)
      BY <1>2, <2>3
    <2> QED
      BY <2>4 DEF Copy, x
  <1>7. ASSUME c \in g.prior[d], g.phone[d] \notin Fillers
        PROVE  copies[d].left = ContextPhone(g.phone[c])
    <2> DEFINE x == ContextPhone(g.phone[c])
               a == <<x, r>>
    <2>1. x \in Lefts(g, d)
      BY <1>3, <1>7 DEF Lefts, Contexts
    <2>2. a \in Lefts(g, d) \X Rights(g, d) /\ a[1] = x /\ a[2] = r
      BY <2>1
    <2> HIDE DEF a, x
    <2>3. Copy(d, x, r) \in CopiesOf(g, d)
      BY <2>2 DEF CopiesOf
    <2>4. copies[d] = Copy(d, x, r)
      BY <1>2, <2>3
    <2> QED
      BY <2>4 DEF Copy, x
  <1> QED
    BY <1>1, <1>3, <1>6, <1>7 DEF Joined

LEMMA SplitCopied ==
    ASSUME NEW g, NEW n, Layered(g, n)
    PROVE  Copied(SplitContexts(g), g, n, ClassifySlots(g))
  <1> DEFINE copies == ClassifySlots(g)
             h == SplitContexts(g)
             m == Len(copies)
  <1>1. Classified(g, n, copies)
    BY SlotsClassified
  <1>2. m \in Nat /\ \A c \in 1 .. m : copies[c].slot \in 1 .. n
    BY <1>1, ClassifiedTypes
  <1>3. IF m = n THEN h = g ELSE Split(h, g, copies)
    BY ContextsAreSplit
  <1>4. m # n => \A c \in 1 .. m : h.btw[c] = g.btw[copies[c].slot]
    <2> SUFFICES ASSUME m # n PROVE \A c \in 1 .. m : h.btw[c] = g.btw[copies[c].slot]
      OBVIOUS
    <2>1. Len(g.phone) = n
      <3>1. g.phone \in [1 .. n -> Phones] /\ n \in Nat
        BY DEF Layered
      <3> QED
        BY <3>1, AsSeq
    <2>2. DOMAIN copies = 1 .. m
      <3> HIDE DEF copies
      <3> QED
        BY <1>1, LenProperties DEF Classified
    <2>3. h.btw = [c \in 1 .. m |-> g.btw[copies[c].slot]]
      BY <2>1, <2>2 DEF SplitContexts
    <2> HIDE DEF copies, h
    <2> QED
      BY <2>3
  <1> HIDE DEF copies, h
  <1>5. CASE m = n
    <2>1. h = g
      BY <1>3, <1>5
    <2>2. \A c \in 1 .. m : copies[c].slot = c
      BY <1>1, <1>5, UnsplitSlots
    <2>3. \A c, d \in 1 .. m : d \in g.next[c] <=> Joined(g, copies[c], copies[d])
      BY <1>1, <1>5, UnsplitJoined
    <2> QED
      BY <1>1, <1>2, <1>5, <2>1, <2>2, <2>3 DEF Copied, copies, h
  <1>6. CASE m # n
    <2>1. Split(h, g, copies)
      BY <1>3, <1>6
    <2>2. /\ Layered(h, m)
          /\ \A c, d \in 1 .. m : d \in h.next[c] <=> Joined(g, copies[c], copies[d])
      BY <1>1, <2>1, SplitIsLayered
    <2>3. \A c \in 1 .. m : h.phone[c] = g.phone[copies[c].slot]
      BY <2>1 DEF Split
    <2> QED
      BY <1>1, <1>2, <1>4, <1>6, <2>2, <2>3 DEF Copied, copies, h
  <1> QED
    BY <1>5, <1>6

\* Each neighbour of a copy stands where the copy was made for, and a copy has
\* neighbours where its slot has.
LEMMA CopyNeighbours ==
    ASSUME NEW g, NEW n, Layered(g, n), NEW h, NEW copies, Copied(h, g, n, copies),
           NEW c \in 1 .. Len(copies)
    PROVE  /\ h.prior[c] = {} <=> g.prior[copies[c].slot] = {}
           /\ h.next[c] = {} <=> g.next[copies[c].slot] = {}
           /\ \A b \in h.prior[c] : /\ b \in 1 .. Len(copies) /\ b < c
                                    /\ copies[b].slot \in g.prior[copies[c].slot]
                                    /\ h.phone[c] \notin Fillers =>
                                         copies[c].left = ContextPhone(h.phone[b])
           /\ \A d \in h.next[c] : /\ d \in 1 .. Len(copies)
                                   /\ copies[d].slot \in g.next[copies[c].slot]
                                   /\ h.phone[c] \notin Fillers =>
                                        copies[c].right = ContextPhone(h.phone[d])
  <1> DEFINE m == Len(copies)
  <1>1. /\ Classified(g, n, copies) /\ m \in Nat
        /\ h.next \in [1 .. m -> SUBSET (1 .. m)] /\ h.prior \in [1 .. m -> SUBSET (1 .. m)]
        /\ \A k, j \in 1 .. m : j \in h.next[k] <=> k \in h.prior[j]
        /\ \A k \in 1 .. m : \A j \in h.next[k] : k < j
    BY DEF Copied, Layered
  <1>2. /\ \A k \in 1 .. m : /\ copies[k].slot \in 1 .. n
                             /\ h.phone[k] = g.phone[copies[k].slot]
        /\ \A k, j \in 1 .. m : j \in h.next[k] <=> Joined(g, copies[k], copies[j])
    BY DEF Copied
  <1>3. \A k, j \in 1 .. n : j \in g.next[k] <=> k \in g.prior[j]
    BY DEF Layered
  <1>4. ASSUME NEW b \in h.prior[c]
        PROVE  /\ b \in 1 .. m /\ b < c
               /\ copies[b].slot \in g.prior[copies[c].slot]
               /\ h.phone[c] \notin Fillers => copies[c].left = ContextPhone(h.phone[b])
    <2>1. b \in 1 .. m /\ c \in h.next[b]
      BY <1>1
    <2>2. Joined(g, copies[b], copies[c])
      BY <1>2, <2>1
    <2> QED
      BY <1>1, <1>2, <2>1, <2>2 DEF Joined
  <1>5. ASSUME NEW d \in h.next[c]
        PROVE  /\ d \in 1 .. m
               /\ copies[d].slot \in g.next[copies[c].slot]
               /\ h.phone[c] \notin Fillers => copies[c].right = ContextPhone(h.phone[d])
    <2>1. d \in 1 .. m
      BY <1>1
    <2>2. Joined(g, copies[c], copies[d])
      BY <1>2, <2>1
    <2> QED
      BY <1>2, <1>3, <2>1, <2>2 DEF Joined
  <1>6. g.prior[copies[c].slot] # {} => h.prior[c] # {}
    <2>1. SUFFICES ASSUME g.prior[copies[c].slot] # {} PROVE h.prior[c] # {}
      OBVIOUS
    <2>2. PICK b \in 1 .. m : Joined(g, copies[b], copies[c])
      BY <1>1, <2>1, JoinedBefore
    <2>3. b \in h.prior[c]
      BY <1>1, <1>2, <2>2
    <2> QED
      BY <2>3
  <1>7. g.next[copies[c].slot] # {} => h.next[c] # {}
    <2>1. SUFFICES ASSUME g.next[copies[c].slot] # {} PROVE h.next[c] # {}
      OBVIOUS
    <2>2. PICK d \in 1 .. m : Joined(g, copies[c], copies[d])
      BY <1>1, <2>1, JoinedAfter
    <2>3. d \in h.next[c]
      BY <1>2, <2>2
    <2> QED
      BY <2>3
  <1> QED
    BY <1>4, <1>5, <1>6, <1>7

\* What the neighbours of a slot are, seen from the slots.
Tracked(g, slots, n) ==
  /\ Layered(g, n) /\ \A k \in 1 .. n : g.phone[k] = slots[k].phone /\ g.btw[k] = slots[k].last
  /\ \A k \in 1 .. n :
       /\ slots[k].first => g.prior[k] = {j \in 1 .. n : /\ slots[j].word = slots[k].word - 1
                                                         /\ slots[j].last}
       /\ ~slots[k].first => g.prior[k] = {k - 1}
       /\ slots[k].last => g.next[k] = {j \in 1 .. n : /\ slots[j].word = slots[k].word + 1
                                                       /\ slots[j].first}
       /\ ~slots[k].last => g.next[k] = {k + 1}
  /\ \A k \in 1 .. n : /\ slots[k].first \in BOOLEAN /\ slots[k].last \in BOOLEAN
                       /\ FollowsOn(slots, k)
  /\ Len(slots) = n

LEMMA PhoneGraphTracked ==
    ASSUME NEW E, NEW words, Spelled(words, E)
    PROVE  Tracked(MkPhoneGraph(words), Slots(words), Len(Slots(words)))
  <1> DEFINE slots == Slots(words)
             n == Len(slots)
             g == MkPhoneGraph(words)
             Heads(i) == {k \in 1 .. n : slots[k].word = i /\ slots[k].first}
             Tails(i) == {k \in 1 .. n : slots[k].word = i /\ slots[k].last}
  <1>1. slots \in Seq(SlotType) /\ \A k \in 1 .. n : FollowsOn(slots, k)
    BY SlotsConnected DEF Connected
  <1>2. n \in Nat /\ DOMAIN slots = 1 .. n
        /\ \A k \in 1 .. n : slots[k].first \in BOOLEAN /\ slots[k].last \in BOOLEAN
    <2> HIDE DEF slots
    <2>1. n \in Nat /\ DOMAIN slots = 1 .. n
      BY <1>1, LenProperties
    <2>2. \A k \in 1 .. n : slots[k] \in SlotType
      BY <1>1, ElementOfSeq
    <2> QED
      BY <2>1, <2>2 DEF SlotType
  <1>3. /\ g.phone = [k \in 1 .. n |-> slots[k].phone]
        /\ g.btw = [k \in 1 .. n |-> slots[k].last]
        /\ g.next  = [k \in 1 .. n |-> IF slots[k].last THEN Heads(slots[k].word + 1) ELSE {k + 1}]
        /\ g.prior = [k \in 1 .. n |-> IF slots[k].first THEN Tails(slots[k].word - 1) ELSE {k - 1}]
    BY <1>2 DEF MkPhoneGraph
  <1>4. Layered(g, n)
    BY PhoneGraphLayered
  <1> HIDE DEF g, slots
  <1>5. \A k \in 1 .. n : g.phone[k] = slots[k].phone /\ g.btw[k] = slots[k].last
    BY <1>3
  <1>6. \A k \in 1 .. n : /\ slots[k].first => g.prior[k] = Tails(slots[k].word - 1)
                          /\ ~slots[k].first => g.prior[k] = {k - 1}
                          /\ slots[k].last => g.next[k] = Heads(slots[k].word + 1)
                          /\ ~slots[k].last => g.next[k] = {k + 1}
    <2> HIDE DEF Heads, Tails
    <2> QED
      BY <1>3
  <1> QED
    BY <1>1, <1>2, <1>4, <1>5, <1>6 DEF Tracked, g, slots

LEMMA StrongUp ==
    ASSUME NEW n \in Nat, NEW P,
           \A k \in 1 .. n : (\A j \in 1 .. k - 1 : j \in P) => k \in P
    PROVE  \A k \in 1 .. n : k \in P
  <1> SUFFICES ASSUME NEW a \in 1 .. n, a \notin P PROVE FALSE
    OBVIOUS
  <1> DEFINE ns == {k \in 1 .. n : k \notin P}
  <1>1. ns \in SUBSET Nat /\ ns # {}
    OBVIOUS
  <1>2. PICK k \in ns : \A m \in ns : k <= m
    BY <1>1, LeastOne
  <1>3. \A j \in 1 .. k - 1 : j \in P
    BY <1>2
  <1> QED
    BY <1>2, <1>3

\* The least of some slots is one of them.
LEMMA MinIn ==
    ASSUME NEW ns \in SUBSET Nat, ns # {}
    PROVE  Min(ns) \in ns /\ \A m \in ns : Min(ns) <= m
  <1>1. \E n \in ns : \A m \in ns : n <= m
    BY LeastOne
  <1> QED
    BY <1>1 DEF Min

\* A position that the phone before a slot may have.
MayPrecede(w, s) ==
  /\ s.first \in BOOLEAN /\ s.last \in BOOLEAN
  /\ s.first => w \in {"s", "e"}
  /\ ~s.first => w \in {"b", "i"}

LEMMA PosnAfter ==
    ASSUME NEW s, NEW w, MayPrecede(w, s)
    PROVE  BtwPosn(s.last, w) = TruePosn(s)
  <1> QED
    BY DEF BtwPosn, TruePosn, MayPrecede

LEMMA PosnKinds ==
    ASSUME NEW s, s.first \in BOOLEAN, s.last \in BOOLEAN
    PROVE  /\ s.last => TruePosn(s) \in {"s", "e"}
           /\ ~s.last => TruePosn(s) \in {"b", "i"}
           /\ TruePosn(s) \in {"b", "e", "s", "i"}
  <1> QED
    BY DEF TruePosn

\* A position read off any neighbour is that of the phone in its word.
PriorPosn(w, h, slots, copies, k) ==
  IF h.prior[k] = {} THEN w = "e"
  ELSE \E b \in h.prior[k] : w = TruePosn(slots[copies[b].slot])

LEMMA PosnFromPrior ==
    ASSUME NEW g, NEW slots, NEW n, Tracked(g, slots, n),
           NEW h, NEW copies, Copied(h, g, n, copies),
           NEW k \in 1 .. Len(copies), NEW w, PriorPosn(w, h, slots, copies, k)
    PROVE  BtwPosn(h.btw[k], w) = TruePosn(slots[copies[k].slot])
  <1> DEFINE x == copies[k].slot
  <1>1. /\ x \in 1 .. n /\ h.btw[k] = g.btw[x]
        /\ \A b \in 1 .. Len(copies) : copies[b].slot \in 1 .. n
    BY DEF Copied
  <1>2. /\ h.btw[k] = slots[x].last /\ slots[x].first \in BOOLEAN /\ slots[x].last \in BOOLEAN
        /\ slots[x].first => \A j \in g.prior[x] : j \in 1 .. n /\ slots[j].last
        /\ ~slots[x].first => g.prior[x] = {x - 1} /\ x - 1 \in 1 .. n /\ ~slots[x - 1].last
    BY <1>1 DEF Tracked, FollowsOn
  <1>3. Layered(g, n)
    BY DEF Tracked
  <1>4. /\ h.prior[k] = {} <=> g.prior[x] = {}
        /\ \A b \in h.prior[k] : b \in 1 .. Len(copies) /\ copies[b].slot \in g.prior[x]
    BY <1>3, CopyNeighbours
  <1> HIDE DEF x
  <1>7. ASSUME /\ slots[x].first => w \in {"s", "e"}
               /\ ~slots[x].first => w \in {"b", "i"}
        PROVE  BtwPosn(h.btw[k], w) = TruePosn(slots[x])
    <2> DEFINE s == slots[x]
    <2>1. MayPrecede(w, s) /\ h.btw[k] = s.last
      BY <1>2, <1>7 DEF MayPrecede
    <2> HIDE DEF s
    <2>2. BtwPosn(s.last, w) = TruePosn(s)
      BY <2>1, PosnAfter
    <2> QED
      BY <2>1, <2>2 DEF s
  <1>5. CASE h.prior[k] = {}
    <2>1. slots[x].first /\ w = "e"
      BY <1>2, <1>4, <1>5 DEF PriorPosn
    <2>2. slots[x].first => w \in {"s", "e"}
      BY <2>1
    <2> QED
      BY <1>7, <2>1, <2>2 DEF x
  <1>6. CASE h.prior[k] # {}
    <2>1. PICK b \in h.prior[k] : w = TruePosn(slots[copies[b].slot])
      BY <1>6 DEF PriorPosn
    <2> DEFINE y == copies[b].slot
    <2>2. y \in g.prior[x] /\ y \in 1 .. n
      BY <1>1, <1>4
    <2>3. slots[y].first \in BOOLEAN /\ slots[y].last \in BOOLEAN
      BY <2>2 DEF Tracked
    <2>4. /\ slots[x].first => slots[y].last
          /\ ~slots[x].first => ~slots[y].last
      BY <1>2, <2>2
    <2>5. /\ slots[x].first => w \in {"s", "e"}
          /\ ~slots[x].first => w \in {"b", "i"}
      BY <2>1, <2>3, <2>4, PosnKinds
    <2> QED
      BY <1>7, <2>5 DEF x
  <1> QED
    BY <1>5, <1>6 DEF x

LEMMA GraphPositions ==
    ASSUME NEW g, NEW slots, NEW n, Tracked(g, slots, n),
           NEW h, NEW copies, Copied(h, g, n, copies), NEW k \in 1 .. Len(copies)
    PROVE  GraphPosns(h)[k] = TruePosn(slots[copies[k].slot])
  <1> DEFINE m == Len(copies)
             posn[j \in DOMAIN h.phone] ==
               BtwPosn(h.btw[j], IF h.prior[j] = {} THEN "e" ELSE posn[Min(h.prior[j])])
             f == [j \in 1 .. m |-> TruePosn(slots[copies[j].slot])]
  <1>1. /\ m \in Nat /\ DOMAIN h.phone = 1 .. m
        /\ h.prior \in [1 .. m -> SUBSET (1 .. m)]
    BY DEF Copied, Layered
  <1>2. Layered(g, n)
    BY DEF Tracked
  <1>f. \A j \in 1 .. m : f[j] = TruePosn(slots[copies[j].slot])
    OBVIOUS
  <1> HIDE DEF f
  <1>3. ASSUME NEW j \in 1 .. m, h.prior[j] # {}
        PROVE  /\ Min(h.prior[j]) \in h.prior[j] /\ Min(h.prior[j]) \in 1 .. m
               /\ Min(h.prior[j]) < j
    <2>1. h.prior[j] \in SUBSET Nat
      BY <1>1
    <2>2. Min(h.prior[j]) \in h.prior[j]
      BY <1>3, <2>1, MinIn
    <2>3. \A b \in h.prior[j] : b \in 1 .. m /\ b < j
      BY <1>2, CopyNeighbours
    <2> QED
      BY <2>2, <2>3
  <1>4. ASSUME NEW j \in 1 .. m, NEW w,
               w = IF h.prior[j] = {} THEN "e" ELSE f[Min(h.prior[j])]
        PROVE  BtwPosn(h.btw[j], w) = f[j]
    <2>1. CASE h.prior[j] = {}
      <3>1. PriorPosn(w, h, slots, copies, j)
        BY <1>4, <2>1 DEF PriorPosn
      <3> QED
        BY <1>f, <3>1, PosnFromPrior
    <2>2. CASE h.prior[j] # {}
      <3>1. w = TruePosn(slots[copies[Min(h.prior[j])].slot])
        BY <1>3, <1>4, <1>f, <2>2
      <3>2. \E b \in h.prior[j] : w = TruePosn(slots[copies[b].slot])
        BY <1>3, <2>2, <3>1
      <3>3. PriorPosn(w, h, slots, copies, j)
        BY <2>2, <3>2 DEF PriorPosn
      <3> QED
        BY <1>f, <3>3, PosnFromPrior
    <2> QED
      BY <2>1, <2>2
  <1>5. f = [j \in DOMAIN h.phone |->
               BtwPosn(h.btw[j], IF h.prior[j] = {} THEN "e" ELSE f[Min(h.prior[j])])]
    <2>1. ASSUME NEW j \in 1 .. m
          PROVE  f[j] = BtwPosn(h.btw[j], IF h.prior[j] = {} THEN "e" ELSE f[Min(h.prior[j])])
      BY <1>4
    <2>2. f = [j \in 1 .. m |-> f[j]]
      BY DEF f
    <2> HIDE DEF f
    <2> QED
      BY <1>1, <2>1, <2>2
  <1>6. posn = [j \in DOMAIN h.phone |->
                  BtwPosn(h.btw[j], IF h.prior[j] = {} THEN "e" ELSE posn[Min(h.prior[j])])]
    <2> HIDE DEF f
    <2> QED
      BY <1>5
  <1>7. GraphPosns(h) = posn
    BY DEF GraphPosns
  <1> HIDE DEF posn
  <1> DEFINE P == {j \in 1 .. m : posn[j] = f[j]}
  <1>8. ASSUME NEW j \in 1 .. m, \A i \in 1 .. j - 1 : i \in P PROVE j \in P
    <2>1. posn[j] = BtwPosn(h.btw[j], IF h.prior[j] = {} THEN "e" ELSE posn[Min(h.prior[j])])
      BY <1>1, <1>6
    <2>2. h.prior[j] # {} => posn[Min(h.prior[j])] = f[Min(h.prior[j])]
      <3>1. SUFFICES ASSUME h.prior[j] # {} PROVE Min(h.prior[j]) \in P
        BY DEF P
      <3>2. Min(h.prior[j]) \in 1 .. j - 1
        BY <1>1, <1>3, <3>1
      <3> QED
        BY <1>8, <3>2
    <2> HIDE DEF f
    <2>3. posn[j] = BtwPosn(h.btw[j], IF h.prior[j] = {} THEN "e" ELSE f[Min(h.prior[j])])
      BY <2>1, <2>2
    <2>4. posn[j] = f[j]
      BY <1>4, <2>3
    <2> QED
      BY <2>4
  <1> HIDE DEF P
  <1>9. \A j \in 1 .. m : j \in P
    BY <1>1, <1>8, StrongUp
  <1> QED
    BY <1>7, <1>9, <1>f DEF P

-----------------------------------------------------------------------------
(* Where slots come from, and what stands beside them.                     *)

\* The triphone of a copy: the contexts it was made for, and its position in its word.
OwnTriphone(copies, slots, phone, k) ==
  Triphone(phone, copies[k].left, copies[k].right, TruePosn(slots[copies[k].slot]))

LEMMA CopyContexts ==
    ASSUME NEW g, NEW n, Layered(g, n), NEW h, NEW copies, Copied(h, g, n, copies),
           NEW k \in 1 .. Len(copies), h.phone[k] \notin Fillers
    PROVE  /\ copies[k].left \in Contexts(g, g.prior[copies[k].slot])
           /\ copies[k].right \in Contexts(g, g.next[copies[k].slot])
           /\ h.prior[k] = {} => copies[k].left = SIL
           /\ h.next[k] = {} => copies[k].right = SIL
  <1>1. /\ copies[k].slot \in 1 .. n /\ h.phone[k] = g.phone[copies[k].slot]
        /\ copies[k] \in CopiesOf(g, copies[k].slot)
    BY DEF Copied, Classified
  <1>2. /\ copies[k].left \in Lefts(g, copies[k].slot)
        /\ copies[k].right \in Rights(g, copies[k].slot)
    BY <1>1, CopyTypes
  <1>3. /\ copies[k].left \in Contexts(g, g.prior[copies[k].slot])
        /\ copies[k].right \in Contexts(g, g.next[copies[k].slot])
    BY <1>1, <1>2 DEF Lefts, Rights
  <1>4. /\ h.prior[k] = {} => g.prior[copies[k].slot] = {}
        /\ h.next[k] = {} => g.next[copies[k].slot] = {}
    BY CopyNeighbours
  <1> QED
    BY <1>3, <1>4 DEF Contexts

LEMMA CopyTriphone ==
    ASSUME NEW g, NEW slots, NEW n, Tracked(g, slots, n),
           NEW h, NEW copies, Copied(h, g, n, copies),
           NEW k \in 1 .. Len(copies), h.phone[k] \notin Fillers
    PROVE  VisitTriphones(h)[k] = OwnTriphone(copies, slots, h.phone[k], k)
  <1>1. Layered(g, n)
    BY DEF Tracked
  <1>2. DOMAIN h.phone = 1 .. Len(copies) /\ Len(copies) \in Nat
        /\ h.prior[k] \in SUBSET Nat /\ h.next[k] \in SUBSET Nat
    BY DEF Copied, Layered
  <1>3. /\ h.prior[k] = {} => copies[k].left = SIL
        /\ h.next[k] = {} => copies[k].right = SIL
    BY <1>1, CopyContexts
  <1>4. /\ \A b \in h.prior[k] : copies[k].left = ContextPhone(h.phone[b])
        /\ \A d \in h.next[k] : copies[k].right = ContextPhone(h.phone[d])
    BY <1>1, CopyNeighbours
  <1>5. FirstContext(h, h.prior[k]) = copies[k].left
    BY <1>2, <1>3, <1>4, MinIn DEF FirstContext
  <1>6. FirstContext(h, h.next[k]) = copies[k].right
    BY <1>2, <1>3, <1>4, MinIn DEF FirstContext
  <1>7. GraphPosns(h)[k] = TruePosn(slots[copies[k].slot])
    BY GraphPositions
  <1>8. VisitTriphones(h)[k] = Triphone(h.phone[k], FirstContext(h, h.prior[k]),
                                        FirstContext(h, h.next[k]), GraphPosns(h)[k])
    BY <1>2 DEF VisitTriphones
  <1> QED
    BY <1>5, <1>6, <1>7, <1>8 DEF OwnTriphone


\* Where a slot comes from: a phone of a pronunciation, with its own neighbours beside it.
DrawnFrom(b, words, k, v, p) ==
  LET r == Run(words, b[k].word, v) IN
  /\ b[k].word \in 1 .. Len(words) /\ v \in 1 .. Len(words[b[k].word]) /\ p \in 1 .. Len(r)
  /\ b[k] = r[p]
  /\ p # Len(r) => k + 1 \in 1 .. Len(b) /\ b[k + 1] = r[p + 1]
  /\ p # 1 => k - 1 \in 1 .. Len(b) /\ b[k - 1] = r[p - 1]
Drawn(b, words) ==
  /\ b \in Seq(SlotType)
  /\ \A k \in 1 .. Len(b) : \E v \in Nat : \E p \in Nat : DrawnFrom(b, words, k, v, p)

LEMMA FlattenDrawn ==
    ASSUME NEW words, NEW ss, Rows(ss, SlotType), \A i \in 1 .. Len(ss) : Drawn(ss[i], words)
    PROVE  Drawn(FlattenSeq(ss), words)
  <1> DEFINE n == Len(ss)
             len == [i \in 1 .. n |-> Len(ss[i])]
             flat == FlattenSeq(ss)
  <1>1. /\ n \in Nat /\ len \in [1 .. n -> Nat]
        /\ \A i \in 1 .. n : ss[i] \in Seq(SlotType) /\ len[i] = Len(ss[i])
    BY Lengths DEF Rows
  <1>2. flat \in Seq(SlotType) /\ \E off : Offsets(off, ss, flat)
    BY FlattenOffsets DEF Rows
  <1>3. PICK off : Offsets(off, ss, flat)
    BY <1>2
  <1>4. /\ Ranks(off, len, n) /\ Len(flat) = off[n]
        /\ \A i \in 1 .. n : \A p \in 1 .. len[i] : flat[off[i - 1] + p] = ss[i][p]
    BY <1>3 DEF Offsets
  <1>5. \A i \in 1 .. n : Drawn(ss[i], words)
    OBVIOUS
  <1> HIDE DEF n, len, flat
  <1>6. ASSUME NEW k \in 1 .. Len(flat)
        PROVE  \E v \in Nat : \E p \in Nat : DrawnFrom(flat, words, k, v, p)
    <2>0. k \in 1 .. off[n] /\ Ranks(off, len, n) /\ n \in Nat /\ len \in [1 .. n -> Nat]
      BY <1>1, <1>4
    <2>p. Tiled(off, len, n)
      BY <2>0, Places
    <2>1. PICK i \in 1 .. n : \E q \in 1 .. len[i] : k = off[i - 1] + q
      BY <2>0, <2>p DEF Tiled
    <2>2. PICK q \in 1 .. len[i] : k = off[i - 1] + q
      BY <2>1
    <2>3. PICK v \in Nat : \E p \in Nat : DrawnFrom(ss[i], words, q, v, p)
      BY <1>1, <1>5 DEF Drawn
    <2>4. PICK p \in Nat : DrawnFrom(ss[i], words, q, v, p)
      BY <2>3
    <2>5. off[i - 1] \in Nat /\ q \in Nat /\ len[i] = Len(ss[i])
      <3>1. i - 1 \in 0 .. n /\ len[i] \in Nat
        BY <1>1
      <3> QED
        BY <1>1, <1>4, <3>1 DEF Ranks
    <2>6. \A x \in 1 .. len[i] : off[i - 1] + x \in 1 .. Len(flat) /\ flat[off[i - 1] + x] = ss[i][x]
      BY <1>1, <1>4, PlaceIsOwn
    <2> DEFINE r == Run(words, ss[i][q].word, v)
    <2>7. flat[k] = ss[i][q]
      BY <2>2, <2>6
    <2>8. /\ ss[i][q].word \in 1 .. Len(words) /\ v \in 1 .. Len(words[ss[i][q].word])
          /\ p \in 1 .. Len(r) /\ ss[i][q] = r[p]
          /\ p # Len(r) => q + 1 \in 1 .. len[i] /\ ss[i][q + 1] = r[p + 1]
          /\ p # 1 => q - 1 \in 1 .. len[i] /\ ss[i][q - 1] = r[p - 1]
      BY <2>4, <2>5 DEF DrawnFrom
    <2>9. k + 1 = off[i - 1] + (q + 1) /\ k - 1 = off[i - 1] + (q - 1)
      BY <2>2, <2>5
    <2> HIDE DEF r
    <2>10. p # Len(r) => k + 1 \in 1 .. Len(flat) /\ flat[k + 1] = r[p + 1]
      BY <2>6, <2>8, <2>9
    <2>11. p # 1 => k - 1 \in 1 .. Len(flat) /\ flat[k - 1] = r[p - 1]
      BY <2>6, <2>8, <2>9
    <2>12. DrawnFrom(flat, words, k, v, p)
      BY <2>7, <2>8, <2>10, <2>11 DEF DrawnFrom, r
    <2> QED
      BY <2>12
  <1> QED
    BY <1>2, <1>6 DEF Drawn, flat

LEMMA RunDrawn ==
    ASSUME NEW E, NEW words, Spelled(words, E), NEW i \in 1 .. Len(words),
           NEW v \in 1 .. Len(words[i])
    PROVE  Drawn(Run(words, i, v), words)
  <1> DEFINE r == Run(words, i, v)
  <1>1. r \in Seq(SlotType) /\ Len(words[i]) \in Nat
        /\ \A p \in 1 .. Len(r) : r[p].word = i
    <2>1. r \in Seq(SlotType) /\ \A p \in 1 .. Len(r) : r[p].word = i
      BY RunConnected DEF Connected
    <2>2. Len(words[i]) \in Nat
      BY ElementOfSeq, LenProperties DEF Spelled
    <2> QED
      BY <2>1, <2>2
  <1>2. Len(r) \in Nat /\ v \in Nat
    <2> HIDE DEF r
    <2> QED
      BY <1>1, LenProperties
  <1>3. ASSUME NEW k \in 1 .. Len(r) PROVE DrawnFrom(r, words, k, v, k)
    <2>1. r[k].word = i
      BY <1>1
    <2>2. /\ k # Len(r) => k + 1 \in 1 .. Len(r)
          /\ k # 1 => k - 1 \in 1 .. Len(r)
      <3> HIDE DEF r
      <3> QED
        BY <1>2
    <2>3. Run(words, r[k].word, v) = r
      BY <2>1
    <2> HIDE DEF r
    <2> QED
      BY <2>1, <2>2, <2>3 DEF DrawnFrom
  <1> HIDE DEF r
  <1>4. \A k \in 1 .. Len(r) : k \in Nat /\ DrawnFrom(r, words, k, v, k)
    BY <1>2, <1>3
  <1>5. Drawn(r, words)
    BY <1>1, <1>2, <1>4 DEF Drawn
  <1> QED
    BY <1>5 DEF r

\* Every element of a row has its place in the joined rows.
HasElement(flat, x) == \E k \in 1 .. Len(flat) : flat[k] = x
LEMMA FlattenHas ==
    ASSUME NEW S, NEW ss \in Seq(Seq(S)), NEW i \in 1 .. Len(ss), NEW p \in 1 .. Len(ss[i])
    PROVE  HasElement(FlattenSeq(ss), ss[i][p])
  <1> DEFINE n == Len(ss)
             len == [j \in 1 .. n |-> Len(ss[j])]
             flat == FlattenSeq(ss)
  <1>1. n \in Nat /\ len \in [1 .. n -> Nat]
    BY Lengths
  <1>2. PICK off : Offsets(off, ss, flat)
    BY FlattenOffsets
  <1>3. Ranks(off, len, n) /\ Len(flat) = off[n] /\ flat[off[i - 1] + p] = ss[i][p]
        /\ p \in 1 .. len[i]
    BY <1>2 DEF Offsets
  <1> HIDE DEF n, len, flat
  <1>4. off[i - 1] + p \in 1 .. Len(flat)
    <2>1. i \in 1 .. n
      BY DEF n
    <2> QED
      BY <1>1, <1>3, <2>1, PlaceInFlat
  <1>5. HasElement(flat, ss[i][p])
    BY <1>3, <1>4 DEF HasElement
  <1> QED
    BY <1>5 DEF flat

\* The slots of a transcript: the phones of its pronunciations, all of them.
Complete(slots, words) ==
  \A i \in 1 .. Len(words) : \A v \in 1 .. Len(words[i]) :
    \A p \in 1 .. Len(Run(words, i, v)) : HasElement(slots, Run(words, i, v)[p])

LEMMA SlotsDrawn ==
    ASSUME NEW E, NEW words, Spelled(words, E)
    PROVE  Drawn(Slots(words), words) /\ Complete(Slots(words), words)
  <1> DEFINE n == Len(words)
             ss == [i \in 1 .. n |-> Block(words, i)]
             rs(i) == [v \in 1 .. Len(words[i]) |-> Run(words, i, v)]
  <1>1. /\ n \in Nat /\ DOMAIN words = 1 .. n
        /\ \A i \in 1 .. n : Len(words[i]) \in Nat /\ DOMAIN words[i] = 1 .. Len(words[i])
    <2>1. words \in Seq(Seq(E)) /\ n \in Nat /\ DOMAIN words = 1 .. n
      BY LenProperties DEF Spelled
    <2>2. \A i \in 1 .. n : words[i] \in Seq(E)
      BY <2>1, ElementOfSeq
    <2> QED
      BY <2>1, <2>2, LenProperties
  <1>2. ASSUME NEW i \in 1 .. n
        PROVE  /\ rs(i) \in Seq(Seq(SlotType)) /\ Len(rs(i)) = Len(words[i])
               /\ \A v \in 1 .. Len(words[i]) : rs(i)[v] = Run(words, i, v)
               /\ Block(words, i) = FlattenSeq(rs(i))
    <2>1. \A v \in 1 .. Len(words[i]) : Run(words, i, v) \in Seq(SlotType)
      BY RunConnected DEF Connected
    <2>2. rs(i) \in [1 .. Len(words[i]) -> Seq(SlotType)]
      BY <2>1
    <2>3. Block(words, i) = FlattenSeq(rs(i))
      BY <1>1 DEF Block
    <2>4. \A v \in 1 .. Len(words[i]) : rs(i)[v] = Run(words, i, v)
      OBVIOUS
    <2> HIDE DEF rs
    <2> QED
      BY <1>1, <2>2, <2>3, <2>4, AsSeq
  <1>3. ss \in Seq(Seq(SlotType)) /\ Len(ss) = n
    <2>1. \A i \in 1 .. n : Block(words, i) \in Seq(SlotType)
      BY BlockConnected DEF Connected
    <2>2. ss \in [1 .. n -> Seq(SlotType)]
      BY <2>1
    <2> HIDE DEF ss
    <2> QED
      BY <1>1, <2>2, AsSeq
  <1>4. Slots(words) = FlattenSeq(ss)
    BY <1>1 DEF Slots, Block, Run
  <1>5. ASSUME NEW i \in 1 .. n PROVE ss[i] = Block(words, i) /\ Drawn(ss[i], words)
    <2>1. \A v \in 1 .. Len(rs(i)) : Drawn(rs(i)[v], words)
      BY <1>2, RunDrawn
    <2>2. Rows(rs(i), SlotType)
      BY <1>2 DEF Rows
    <2> HIDE DEF rs
    <2>3. Drawn(Block(words, i), words)
      BY <1>2, <2>1, <2>2, FlattenDrawn
    <2> QED
      BY <2>3
  <1> HIDE DEF ss, rs
  <1>6. Drawn(Slots(words), words)
    <2>1. Rows(ss, SlotType)
      BY <1>3 DEF Rows
    <2> QED
      BY <1>3, <1>4, <1>5, <2>1, FlattenDrawn
  <1>7. ASSUME NEW i \in 1 .. n, NEW v \in 1 .. Len(words[i]),
               NEW p \in 1 .. Len(Run(words, i, v))
        PROVE  HasElement(Slots(words), Run(words, i, v)[p])
    <2>1. HasElement(Block(words, i), Run(words, i, v)[p])
      <3>1. v \in 1 .. Len(rs(i)) /\ rs(i)[v] = Run(words, i, v)
        BY <1>2
      <3> QED
        BY <1>2, <3>1, FlattenHas
    <2>2. PICK q \in 1 .. Len(Block(words, i)) : Block(words, i)[q] = Run(words, i, v)[p]
      BY <2>1 DEF HasElement
    <2>3. i \in 1 .. Len(ss) /\ q \in 1 .. Len(ss[i])
      BY <1>3, <1>5
    <2>4. HasElement(FlattenSeq(ss), ss[i][q])
      BY <1>3, <2>3, FlattenHas
    <2> QED
      BY <1>4, <1>5, <2>2, <2>4
  <1> QED
    BY <1>6, <1>7 DEF Complete

\* What stands before and after a word, silence at either end.
Before(words, i) ==
  IF i = 1 THEN {SIL} ELSE {LastPhone(words[i - 1][v]) : v \in 1 .. Len(words[i - 1])}
After(words, i) ==
  IF i = Len(words) THEN {SIL}
  ELSE {FirstPhone(words[i + 1][v]) : v \in 1 .. Len(words[i + 1])}
LeftOf(words, i, v, p) == IF p = 1 THEN Before(words, i) ELSE {words[i][v].phones[p - 1]}
RightOf(words, i, v, p) ==
  IF p = Len(words[i][v].phones) THEN After(words, i) ELSE {words[i][v].phones[p + 1]}
InContext(contexts, phones) == \A l \in contexts : \E x \in phones : l = ContextPhone(x)

\* What a slot is, from where it comes.
Speaks(words, slots, k, v, p) ==
  LET i == slots[k].word
      phones == words[i][v].phones
  IN  /\ i \in 1 .. Len(words) /\ v \in 1 .. Len(words[i])
      /\ phones \in Seq(Phones) /\ Len(phones) \in Nat /\ p \in 1 .. Len(phones)
      /\ slots[k].phone = phones[p]
      /\ slots[k].first <=> p = 1
      /\ slots[k].last <=> p = Len(phones)
      /\ p # Len(phones) => k + 1 \in 1 .. Len(slots) /\ slots[k + 1].phone = phones[p + 1]
      /\ p # 1 => k - 1 \in 1 .. Len(slots) /\ slots[k - 1].phone = phones[p - 1]

LEMMA DrawnSlot ==
    ASSUME NEW E, NEW words, Spelled(words, E), NEW slots, NEW k, NEW v, NEW p,
           DrawnFrom(slots, words, k, v, p)
    PROVE  Speaks(words, slots, k, v, p)
  <1> DEFINE i == slots[k].word
             s == slots[k]
             phones == words[i][v].phones
             r == Run(words, i, v)
  <1>0. i \in 1 .. Len(words) /\ v \in 1 .. Len(words[i])
    BY DEF DrawnFrom
  <1>1. /\ p \in 1 .. Len(r) /\ s = r[p]
        /\ p # Len(r) => k + 1 \in 1 .. Len(slots) /\ slots[k + 1] = r[p + 1]
        /\ p # 1 => k - 1 \in 1 .. Len(slots) /\ slots[k - 1] = r[p - 1]
    BY DEF DrawnFrom
  <1> HIDE DEF i
  <1>2. /\ phones \in Seq(Phones) /\ Len(r) = Len(phones) /\ Len(r) \in Nat
        /\ \A q \in 1 .. Len(r) : /\ r[q].phone = phones[q]
                                  /\ r[q].first <=> q = 1
                                  /\ r[q].last <=> q = Len(r)
    BY <1>0, RunEnds
  <1> HIDE DEF r, phones, s
  <1>3. /\ p # Len(r) => p + 1 \in 1 .. Len(r)
        /\ p # 1 => p - 1 \in 1 .. Len(r)
    BY <1>1, <1>2
  <1>4. s.phone = phones[p] /\ (s.first <=> p = 1) /\ (s.last <=> p = Len(phones))
    BY <1>1, <1>2
  <1>5. p # Len(phones) => k + 1 \in 1 .. Len(slots) /\ slots[k + 1].phone = phones[p + 1]
    BY <1>1, <1>2, <1>3
  <1>6. p # 1 => k - 1 \in 1 .. Len(slots) /\ slots[k - 1].phone = phones[p - 1]
    BY <1>1, <1>2, <1>3
  <1> QED
    BY <1>0, <1>1, <1>2, <1>4, <1>5, <1>6 DEF Speaks, phones, i, s

\* Each word has slots that begin it and slots that end it.
LEMMA WordsHaveEnds ==
    ASSUME NEW E, NEW words, Spelled(words, E), Voiced(words), NEW i \in 1 .. Len(words)
    PROVE  /\ \E k \in 1 .. Len(Slots(words)) : Slots(words)[k].word = i /\ Slots(words)[k].first
           /\ \E k \in 1 .. Len(Slots(words)) : Slots(words)[k].word = i /\ Slots(words)[k].last
  <1> DEFINE slots == Slots(words)
             r == Run(words, i, 1)
  <1>1. 1 \in 1 .. Len(words[i]) /\ Len(words[i][1].phones) # 0
    <2>1. Len(words[i]) \in Nat
      BY ElementOfSeq, LenProperties DEF Spelled
    <2>2. Len(words[i]) # 0
      BY DEF Voiced
    <2>3. 1 \in 1 .. Len(words[i])
      BY <2>1, <2>2
    <2> QED
      BY <2>3 DEF Voiced
  <1>2. /\ Len(r) # 0 /\ Len(r) \in Nat
        /\ \A p \in 1 .. Len(r) : /\ r[p].word = i
                                  /\ r[p].first <=> p = 1
                                  /\ r[p].last <=> p = Len(r)
    <2>1. \A p \in 1 .. Len(r) : r[p].word = i
      BY <1>1, RunConnected
    <2> QED
      BY <1>1, <2>1, RunEnds
  <1>3. \A p \in 1 .. Len(r) : HasElement(slots, r[p])
    BY <1>1, SlotsDrawn DEF Complete
  <1> HIDE DEF slots, r
  <1>4. 1 \in 1 .. Len(r) /\ Len(r) \in 1 .. Len(r)
    BY <1>2
  <1>5. \E k \in 1 .. Len(slots) : slots[k].word = i /\ slots[k].first
    <2>1. PICK k \in 1 .. Len(slots) : slots[k] = r[1]
      BY <1>3, <1>4 DEF HasElement
    <2> QED
      BY <1>2, <1>4, <2>1
  <1>6. \E k \in 1 .. Len(slots) : slots[k].word = i /\ slots[k].last
    <2>1. PICK k \in 1 .. Len(slots) : slots[k] = r[Len(r)]
      BY <1>3, <1>4 DEF HasElement
    <2> QED
      BY <1>2, <1>4, <2>1
  <1> QED
    BY <1>5, <1>6 DEF slots

LEMMA LeftContexts ==
    ASSUME NEW E, NEW words, Spelled(words, E), Voiced(words),
           NEW k \in 1 .. Len(Slots(words)), NEW v, NEW p,
           DrawnFrom(Slots(words), words, k, v, p)
    PROVE  InContext(Contexts(MkPhoneGraph(words), MkPhoneGraph(words).prior[k]),
                     LeftOf(words, Slots(words)[k].word, v, p))
  <1> DEFINE slots == Slots(words)
             n == Len(slots)
             g == MkPhoneGraph(words)
             i == slots[k].word
  <1>1. Tracked(g, slots, n) /\ Drawn(slots, words)
    BY PhoneGraphTracked, SlotsDrawn
  <1>2. /\ i \in 1 .. Len(words) /\ i \in Nat
        /\ slots[k].first <=> p = 1
        /\ p # 1 => /\ k - 1 \in 1 .. n /\ slots[k - 1].phone = words[i][v].phones[p - 1]
    BY DrawnSlot DEF Speaks
  <1>3. /\ slots[k].first => g.prior[k] = {j \in 1 .. n : slots[j].word = i - 1 /\ slots[j].last}
        /\ ~slots[k].first => g.prior[k] = {k - 1}
        /\ \A j \in 1 .. n : g.phone[j] = slots[j].phone
    BY <1>1 DEF Tracked
  <1>4. ASSUME NEW j \in 1 .. n
        PROVE  /\ slots[j].word \in 1 .. Len(words)
               /\ slots[j].last => \E u \in 1 .. Len(words[slots[j].word]) :
                                     slots[j].phone = LastPhone(words[slots[j].word][u])
    <2>1. PICK u \in Nat : \E q \in Nat : DrawnFrom(slots, words, j, u, q)
      BY <1>1 DEF Drawn
    <2>2. PICK q \in Nat : DrawnFrom(slots, words, j, u, q)
      BY <2>1
    <2> DEFINE phones == words[slots[j].word][u].phones
    <2>3. /\ slots[j].word \in 1 .. Len(words) /\ u \in 1 .. Len(words[slots[j].word])
          /\ slots[j].phone = phones[q] /\ (slots[j].last <=> q = Len(phones))
      BY <2>2, DrawnSlot DEF Speaks
    <2>4. slots[j].last => slots[j].phone = LastPhone(words[slots[j].word][u])
      BY <2>3 DEF LastPhone
    <2> QED
      BY <2>3, <2>4
  <1>5. i # 1 => \E j \in 1 .. n : slots[j].word = i - 1 /\ slots[j].last
    <2>1. SUFFICES ASSUME i # 1 PROVE \E j \in 1 .. n : slots[j].word = i - 1 /\ slots[j].last
      OBVIOUS
    <2>2. i - 1 \in 1 .. Len(words)
      <3>1. Len(words) \in Nat
        BY LenProperties DEF Spelled
      <3> HIDE DEF i
      <3> QED
        BY <1>2, <2>1, <3>1
    <2> DEFINE h == i - 1
    <2> HIDE DEF h
    <2>3. \E j \in 1 .. n : slots[j].word = h /\ slots[j].last
      BY <2>2, WordsHaveEnds DEF h
    <2> QED
      BY <2>3 DEF h
  <1> HIDE DEF slots, g, i
  <1>6. CASE p # 1
    <2>1. /\ g.prior[k] = {k - 1} /\ g.phone[k - 1] = words[i][v].phones[p - 1]
          /\ LeftOf(words, i, v, p) = {words[i][v].phones[p - 1]}
      BY <1>2, <1>3, <1>6 DEF LeftOf
    <2> QED
      BY <2>1 DEF InContext, Contexts, g, i, slots
  <1>7. CASE p = 1 /\ i = 1
    <2>1. g.prior[k] = {} /\ LeftOf(words, i, v, p) = {SIL}
      BY <1>2, <1>3, <1>4, <1>7 DEF LeftOf, Before
    <2>2. ContextPhone(SIL) = SIL
      BY PhonesAssumption DEF ContextPhone
    <2> QED
      BY <2>1, <2>2 DEF InContext, Contexts, g, i, slots
  <1>8. CASE p = 1 /\ i # 1
    <2>1. /\ g.prior[k] # {}
          /\ LeftOf(words, i, v, p) = {LastPhone(words[i - 1][u]) : u \in 1 .. Len(words[i - 1])}
      BY <1>2, <1>3, <1>5, <1>8 DEF LeftOf, Before
    <2>2. ASSUME NEW j \in g.prior[k] PROVE g.phone[j] \in LeftOf(words, i, v, p)
      <3>1. j \in 1 .. n /\ slots[j].word = i - 1 /\ slots[j].last
        BY <1>2, <1>3, <1>8
      <3>2. PICK u \in 1 .. Len(words[slots[j].word]) :
                slots[j].phone = LastPhone(words[slots[j].word][u])
        BY <1>4, <3>1
      <3>3. u \in 1 .. Len(words[i - 1]) /\ g.phone[j] = LastPhone(words[i - 1][u])
        BY <1>3, <3>1, <3>2
      <3> QED
        BY <2>1, <3>3
    <2>3. InContext(Contexts(g, g.prior[k]), LeftOf(words, i, v, p))
      BY <2>1, <2>2 DEF InContext, Contexts
    <2> QED
      BY <2>3 DEF g, i, slots
  <1> QED
    BY <1>6, <1>7, <1>8

LEMMA RightContexts ==
    ASSUME NEW E, NEW words, Spelled(words, E), Voiced(words),
           NEW k \in 1 .. Len(Slots(words)), NEW v, NEW p,
           DrawnFrom(Slots(words), words, k, v, p)
    PROVE  InContext(Contexts(MkPhoneGraph(words), MkPhoneGraph(words).next[k]),
                     RightOf(words, Slots(words)[k].word, v, p))
  <1> DEFINE slots == Slots(words)
             n == Len(slots)
             g == MkPhoneGraph(words)
             i == slots[k].word
             length == Len(words[i][v].phones)
  <1>1. Tracked(g, slots, n) /\ Drawn(slots, words)
    BY PhoneGraphTracked, SlotsDrawn
  <1>2. /\ i \in 1 .. Len(words) /\ i \in Nat
        /\ slots[k].last <=> p = length
        /\ p # length => /\ k + 1 \in 1 .. n /\ slots[k + 1].phone = words[i][v].phones[p + 1]
    BY DrawnSlot DEF Speaks
  <1>3. /\ slots[k].last => g.next[k] = {j \in 1 .. n : slots[j].word = i + 1 /\ slots[j].first}
        /\ ~slots[k].last => g.next[k] = {k + 1}
        /\ \A j \in 1 .. n : g.phone[j] = slots[j].phone
    BY <1>1 DEF Tracked
  <1>4. ASSUME NEW j \in 1 .. n
        PROVE  /\ slots[j].word \in 1 .. Len(words)
               /\ slots[j].first => \E u \in 1 .. Len(words[slots[j].word]) :
                                      slots[j].phone = FirstPhone(words[slots[j].word][u])
    <2>1. PICK u \in Nat : \E q \in Nat : DrawnFrom(slots, words, j, u, q)
      BY <1>1 DEF Drawn
    <2>2. PICK q \in Nat : DrawnFrom(slots, words, j, u, q)
      BY <2>1
    <2> DEFINE phones == words[slots[j].word][u].phones
    <2>3. /\ slots[j].word \in 1 .. Len(words) /\ u \in 1 .. Len(words[slots[j].word])
          /\ slots[j].phone = phones[q] /\ (slots[j].first <=> q = 1)
      BY <2>2, DrawnSlot DEF Speaks
    <2>4. slots[j].first => slots[j].phone = FirstPhone(words[slots[j].word][u])
      BY <2>3 DEF FirstPhone
    <2> QED
      BY <2>3, <2>4
  <1>l. Len(words) \in Nat
    BY LenProperties DEF Spelled
  <1>5. i # Len(words) => \E j \in 1 .. n : slots[j].word = i + 1 /\ slots[j].first
    <2>1. SUFFICES ASSUME i # Len(words)
                   PROVE  \E j \in 1 .. n : slots[j].word = i + 1 /\ slots[j].first
      OBVIOUS
    <2>2. i + 1 \in 1 .. Len(words)
      <3> HIDE DEF i
      <3> QED
        BY <1>2, <1>l, <2>1
    <2> DEFINE h == i + 1
    <2> HIDE DEF h
    <2>3. \E j \in 1 .. n : slots[j].word = h /\ slots[j].first
      BY <2>2, WordsHaveEnds DEF h
    <2> QED
      BY <2>3 DEF h
  <1> HIDE DEF slots, g, i
  <1>6. CASE p # length
    <2>1. /\ g.next[k] = {k + 1} /\ g.phone[k + 1] = words[i][v].phones[p + 1]
          /\ RightOf(words, i, v, p) = {words[i][v].phones[p + 1]}
      BY <1>2, <1>3, <1>6 DEF RightOf
    <2> QED
      BY <2>1 DEF InContext, Contexts, g, i, slots
  <1>7. CASE p = length /\ i = Len(words)
    <2>1. \A j \in 1 .. n : slots[j].word # i + 1
      <3>1. \A j \in 1 .. n : slots[j].word \in 1 .. Len(words)
        BY <1>4
      <3> QED
        BY <1>l, <1>7, <3>1
    <2>2. g.next[k] = {} /\ RightOf(words, i, v, p) = {SIL}
      BY <1>2, <1>3, <1>7, <2>1 DEF RightOf, After
    <2>3. ContextPhone(SIL) = SIL
      BY PhonesAssumption DEF ContextPhone
    <2> QED
      BY <2>2, <2>3 DEF InContext, Contexts, g, i, slots
  <1>8. CASE p = length /\ i # Len(words)
    <2>1. /\ g.next[k] # {}
          /\ RightOf(words, i, v, p) = {FirstPhone(words[i + 1][u]) : u \in 1 .. Len(words[i + 1])}
      BY <1>2, <1>3, <1>5, <1>8 DEF RightOf, After
    <2>2. ASSUME NEW j \in g.next[k] PROVE g.phone[j] \in RightOf(words, i, v, p)
      <3>1. j \in 1 .. n /\ slots[j].word = i + 1 /\ slots[j].first
        BY <1>2, <1>3, <1>8
      <3>2. PICK u \in 1 .. Len(words[slots[j].word]) :
                slots[j].phone = FirstPhone(words[slots[j].word][u])
        BY <1>4, <3>1
      <3>3. u \in 1 .. Len(words[i + 1]) /\ g.phone[j] = FirstPhone(words[i + 1][u])
        BY <1>3, <3>1, <3>2
      <3> QED
        BY <2>1, <3>3
    <2>3. InContext(Contexts(g, g.next[k]), RightOf(words, i, v, p))
      BY <2>1, <2>2 DEF InContext, Contexts
    <2> QED
      BY <2>3 DEF g, i, slots
  <1> QED
    BY <1>6, <1>7, <1>8

-----------------------------------------------------------------------------
(* The triphone of a slot is one its word has between its neighbours.      *)

\* The triphones of a plain word: one for each phone and outer context.
PosnAt(p, n) == IF p = 1 THEN IF p = n THEN "s" ELSE "b" ELSE IF p = n THEN "e" ELSE "i"

LEMMA PhoneTriphone ==
    ASSUME NEW e, e.phones \in Seq(Phones), Plain(e), NEW p, p \in 1 .. Len(e.phones),
           e.phones[p] \notin Fillers, NEW L, NEW R, NEW x, NEW y,
           x \in IF p = 1 THEN L ELSE {e.phones[p - 1]},
           y \in IF p = Len(e.phones) THEN R ELSE {e.phones[p + 1]}
    PROVE  Triphone(e.phones[p], ContextPhone(x), ContextPhone(y), PosnAt(p, Len(e.phones)))
             \in WordTriphones(e, L, R)
  <1> DEFINE ph == e.phones
             n == Len(ph)
             t(w) == Triphone(ph[p], ContextPhone(x), ContextPhone(y), w)
  <1>1. n \in Nat /\ p \in Nat /\ p \in 1 .. n /\ ph[p] \notin Fillers
    <2> HIDE DEF ph
    <2> QED
      BY LenProperties DEF ph
  <1>2. FirstPhone(e) \notin Fillers
    <2>1. CASE n = 1
      BY <1>1, <2>1 DEF FirstPhone
    <2>2. CASE Range(ph) \cap Fillers = {}
      <3>1. 1 \in DOMAIN ph
        BY <1>1, LenProperties
      <3>2. ph[1] \in Range(ph)
        BY <3>1 DEF Range
      <3> QED
        BY <2>2, <3>2 DEF FirstPhone
    <2> QED
      BY <2>1, <2>2 DEF Plain
  <1>3. \A a, b, w : Spoken(ph[p], a, b, w) = {Triphone(ph[p], ContextPhone(a), ContextPhone(b), w)}
    BY <1>1 DEF Spoken
  <1>4. WordTriphones(e, L, R) =
          IF n = 1
          THEN UNION {Spoken(ph[1], l, r, "s") : l \in L, r \in R}
          ELSE UNION (    {Spoken(ph[1], l, ph[2], "b") : l \in L}
                     \cup {Spoken(ph[j], ph[j - 1], ph[j + 1], "i") : j \in 2 .. n - 1}
                     \cup {Spoken(ph[n], ph[n - 1], r, "e") : r \in R})
    BY <1>2 DEF WordTriphones
  <1> HIDE DEF ph
  <1>5. CASE n = 1
    <2>1. p = 1 /\ x \in L /\ y \in R /\ PosnAt(p, n) = "s"
      BY <1>1, <1>5 DEF PosnAt, ph
    <2>2. t("s") \in Spoken(ph[1], x, y, "s")
      BY <1>3, <2>1
    <2>3. Spoken(ph[1], x, y, "s") \in {Spoken(ph[1], l, r, "s") : l \in L, r \in R}
      BY <2>1
    <2> QED
      BY <1>4, <1>5, <2>1, <2>2, <2>3 DEF ph
  <1>6. CASE n # 1 /\ p = 1
    <2>1. x \in L /\ y = ph[2] /\ PosnAt(p, n) = "b"
      BY <1>1, <1>6 DEF PosnAt, ph
    <2>2. t("b") \in Spoken(ph[1], x, ph[2], "b")
      BY <1>3, <1>6, <2>1
    <2>3. Spoken(ph[1], x, ph[2], "b") \in {Spoken(ph[1], l, ph[2], "b") : l \in L}
      BY <2>1
    <2> QED
      BY <1>4, <1>6, <2>1, <2>2, <2>3 DEF ph
  <1>7. CASE n # 1 /\ p # 1 /\ p = n
    <2>1. x = ph[n - 1] /\ y \in R /\ PosnAt(p, n) = "e"
      BY <1>1, <1>7 DEF PosnAt, ph
    <2>2. t("e") \in Spoken(ph[n], ph[n - 1], y, "e")
      BY <1>3, <1>7, <2>1
    <2>3. Spoken(ph[n], ph[n - 1], y, "e") \in {Spoken(ph[n], ph[n - 1], r, "e") : r \in R}
      BY <2>1
    <2> QED
      BY <1>4, <1>7, <2>1, <2>2, <2>3 DEF ph
  <1>8. CASE p # 1 /\ p # n
    <2>1. x = ph[p - 1] /\ y = ph[p + 1] /\ PosnAt(p, n) = "i" /\ p \in 2 .. n - 1 /\ n # 1
      BY <1>1, <1>8 DEF PosnAt, ph
    <2>2. t("i") \in Spoken(ph[p], ph[p - 1], ph[p + 1], "i")
      BY <1>3, <2>1
    <2>3. Spoken(ph[p], ph[p - 1], ph[p + 1], "i")
            \in {Spoken(ph[j], ph[j - 1], ph[j + 1], "i") : j \in 2 .. n - 1}
      BY <2>1
    <2> QED
      BY <1>4, <2>1, <2>2, <2>3 DEF ph
  <1> QED
    BY <1>5, <1>6, <1>7, <1>8

\* Outer contexts that stand for the same give the same triphones.
Stands(L, M) == \A x \in L : \E y \in M : ContextPhone(x) = ContextPhone(y)
LEMMA WordTriphonesGrow ==
    ASSUME NEW e, NEW L, NEW R, NEW M, NEW N, Stands(L, M), Stands(R, N)
    PROVE  WordTriphones(e, L, R) \subseteq WordTriphones(e, M, N)
  <1> DEFINE ph == e.phones
             n == Len(ph)
  <1>1. \A b, l, m, r, s, w : ContextPhone(l) = ContextPhone(m) /\ ContextPhone(r) = ContextPhone(s)
                                => Spoken(b, l, r, w) = Spoken(b, m, s, w)
    BY DEF Spoken
  <1>2. CASE FirstPhone(e) \in Fillers
    BY <1>2 DEF WordTriphones
  <1>3. CASE FirstPhone(e) \notin Fillers /\ n = 1
    <2>1. /\ WordTriphones(e, L, R) = UNION {Spoken(ph[1], l, r, "s") : l \in L, r \in R}
          /\ WordTriphones(e, M, N) = UNION {Spoken(ph[1], l, r, "s") : l \in M, r \in N}
      BY <1>3 DEF WordTriphones
    <2>2. ASSUME NEW l \in L, NEW r \in R
          PROVE  Spoken(ph[1], l, r, "s") \in {Spoken(ph[1], m, s, "s") : m \in M, s \in N}
      <3>1. PICK m \in M : ContextPhone(l) = ContextPhone(m)
        BY DEF Stands
      <3>2. PICK s \in N : ContextPhone(r) = ContextPhone(s)
        BY DEF Stands
      <3> QED
        BY <1>1, <3>1, <3>2
    <2> QED
      BY <2>1, <2>2
  <1>4. CASE FirstPhone(e) \notin Fillers /\ n # 1
    <2> DEFINE begin(S) == {Spoken(ph[1], l, ph[2], "b") : l \in S}
               inner == {Spoken(ph[j], ph[j - 1], ph[j + 1], "i") : j \in 2 .. n - 1}
               end(S) == {Spoken(ph[n], ph[n - 1], r, "e") : r \in S}
    <2>1. /\ WordTriphones(e, L, R) = UNION (begin(L) \cup inner \cup end(R))
          /\ WordTriphones(e, M, N) = UNION (begin(M) \cup inner \cup end(N))
      BY <1>4 DEF WordTriphones
    <2>2. begin(L) \subseteq begin(M)
      <3>1. ASSUME NEW l \in L PROVE Spoken(ph[1], l, ph[2], "b") \in begin(M)
        <4>1. PICK m \in M : ContextPhone(l) = ContextPhone(m)
          BY DEF Stands
        <4> QED
          BY <1>1, <4>1
      <3> QED
        BY <3>1
    <2>3. end(R) \subseteq end(N)
      <3>1. ASSUME NEW r \in R PROVE Spoken(ph[n], ph[n - 1], r, "e") \in end(N)
        <4>1. PICK s \in N : ContextPhone(r) = ContextPhone(s)
          BY DEF Stands
        <4> QED
          BY <1>1, <4>1
      <3> QED
        BY <3>1
    <2> HIDE DEF begin, inner, end
    <2> QED
      BY <2>1, <2>2, <2>3
  <1> QED
    BY <1>2, <1>3, <1>4

\* A triphone of a word of the transcript, between its neighbours.
SpokenIn(t, words) ==
  \E i \in 1 .. Len(words) : \E v \in 1 .. Len(words[i]) :
    t \in WordTriphones(words[i][v], Before(words, i), After(words, i))

LEMMA OwnIsSpoken ==
    ASSUME NEW E, NEW words, Spelled(words, E), Voiced(words), \A e \in E : Plain(e),
           NEW k \in 1 .. Len(ClassifySlots(MkPhoneGraph(words))),
           SplitContexts(MkPhoneGraph(words)).phone[k] \notin Fillers
    PROVE  SpokenIn(VisitTriphones(SplitContexts(MkPhoneGraph(words)))[k], words)
  <1> DEFINE g == MkPhoneGraph(words)
             slots == Slots(words)
             n == Len(slots)
             h == SplitContexts(g)
             copies == ClassifySlots(g)
             x == copies[k].slot
             i == slots[x].word
  <1>1. Tracked(g, slots, n) /\ Drawn(slots, words)
    BY PhoneGraphTracked, SlotsDrawn
  <1>2. Layered(g, n)
    BY <1>1 DEF Tracked
  <1>3. Copied(h, g, n, copies)
    BY <1>2, SplitCopied
  <1>4. x \in 1 .. n /\ h.phone[k] = slots[x].phone /\ slots[x].phone \notin Fillers
    <2>1. x \in 1 .. n /\ h.phone[k] = g.phone[x]
      BY <1>3 DEF Copied
    <2>2. g.phone[x] = slots[x].phone
      BY <1>1, <2>1 DEF Tracked
    <2> QED
      BY <2>1, <2>2
  <1>5. VisitTriphones(h)[k] = OwnTriphone(copies, slots, h.phone[k], k)
    BY <1>1, <1>3, CopyTriphone
  <1>6. /\ copies[k].left \in Contexts(g, g.prior[x])
        /\ copies[k].right \in Contexts(g, g.next[x])
    BY <1>2, <1>3, CopyContexts
  <1>7. PICK v \in Nat : \E p \in Nat : DrawnFrom(slots, words, x, v, p)
    BY <1>1, <1>4 DEF Drawn
  <1>8. PICK p \in Nat : DrawnFrom(slots, words, x, v, p)
    BY <1>7
  <1>9. Speaks(words, slots, x, v, p)
    BY <1>8, DrawnSlot
  <1>10. /\ InContext(Contexts(g, g.prior[x]), LeftOf(words, i, v, p))
         /\ InContext(Contexts(g, g.next[x]), RightOf(words, i, v, p))
    BY <1>4, <1>8, LeftContexts, RightContexts
  <1> DEFINE e == words[i][v]
             w == TruePosn(slots[x])
  <1> HIDE DEF g, slots, h, copies, x
  <1>11. /\ i \in 1 .. Len(words) /\ v \in 1 .. Len(words[i])
         /\ e.phones \in Seq(Phones) /\ p \in 1 .. Len(e.phones)
         /\ slots[x].phone = e.phones[p]
         /\ slots[x].first <=> p = 1
         /\ slots[x].last <=> p = Len(e.phones)
    BY <1>9 DEF Speaks
  <1>12. Plain(e)
    <2>1. words[i] \in Seq(E)
      BY <1>11, ElementOfSeq DEF Spelled
    <2>2. e \in E
      BY <1>11, <2>1, ElementOfSeq
    <2> QED
      BY <2>2
  <1>13. w = PosnAt(p, Len(e.phones))
    BY <1>11 DEF TruePosn, PosnAt
  <1>14. PICK a \in LeftOf(words, i, v, p) : copies[k].left = ContextPhone(a)
    BY <1>6, <1>10 DEF InContext
  <1>15. PICK b \in RightOf(words, i, v, p) : copies[k].right = ContextPhone(b)
    BY <1>6, <1>10 DEF InContext
  <1>16. /\ a \in IF p = 1 THEN Before(words, i) ELSE {e.phones[p - 1]}
         /\ b \in IF p = Len(e.phones) THEN After(words, i) ELSE {e.phones[p + 1]}
    BY <1>14, <1>15 DEF LeftOf, RightOf
  <1>17. VisitTriphones(h)[k]
           = Triphone(e.phones[p], ContextPhone(a), ContextPhone(b), PosnAt(p, Len(e.phones)))
    BY <1>4, <1>5, <1>11, <1>13, <1>14, <1>15 DEF OwnTriphone, x
  <1>18. e.phones[p] \notin Fillers
    BY <1>4, <1>11
  <1> HIDE DEF e, i
  <1>19. VisitTriphones(h)[k] \in WordTriphones(e, Before(words, i), After(words, i))
    BY <1>11, <1>12, <1>16, <1>17, <1>18, PhoneTriphone
  <1> QED
    BY <1>11, <1>19 DEF SpokenIn, e, h, g

-----------------------------------------------------------------------------
(* Every policy lists the triphones that a transcript asks for.            *)

\* The entries of a session's dictionary that its lexicon may have.
Entries(s) == {e \in Range(s.dict) : e.phones \in Seq(Phones)}

LEMMA SessionSpelled ==
    ASSUME NEW s \in Setups, NEW i \in DOMAIN s.texts
    PROVE  /\ LexiconRead(s.dict) \in Seq(Entries(s))
           /\ Rows(WordPlan(LexiconRead(s.dict), s.texts[i], s.multipron), Entries(s))
           /\ Spelled(Pronounced(s, i), Entries(s)) /\ Voiced(Pronounced(s, i))
  <1> DEFINE E == Entries(s)
             lex == LexiconRead(s.dict)
             plan == WordPlan(lex, s.texts[i], s.multipron)
  <1>1. IsSeq(s.dict) /\ (\A k \in DOMAIN s.dict : IsSeq(s.dict[k].phones)) /\ IsSeq(s.texts[i])
    BY SetupsAssumption
  <1>2. lex \in Seq(E)
    BY <1>1, LexiconEntries DEF Entries
  <1>3. \A e \in E : e.phones \in Seq(Phones)
    BY DEF Entries
  <1> HIDE DEF E, lex
  <1>4. Rows(plan, E)
    BY <1>1, <1>2, PlanFromLexicon
  <1> HIDE DEF plan
  <1>5. Spelled(Sounded(plan), E) /\ Voiced(Sounded(plan))
    BY <1>3, <1>4, SoundedVoiced
  <1> QED
    BY <1>2, <1>4, <1>5 DEF plan, lex, Pronounced, E

LEMMA EntryWhere ==
    ASSUME NEW s, NEW words, Spelled(words, Entries(s)), NEW i \in 1 .. Len(words),
           NEW v \in 1 .. Len(words[i])
    PROVE  \E k \in DOMAIN s.dict : words[i][v] = s.dict[k]
  <1>1. words[i] \in Seq(Entries(s))
    BY ElementOfSeq DEF Spelled
  <1>2. words[i][v] \in Entries(s)
    BY <1>1, ElementOfSeq
  <1> QED
    BY <1>2 DEF Entries, Range

\* What stands beside a word begins or ends a word of the dictionary, or is silent.
LEMMA DictBefore ==
    ASSUME NEW s, NEW words, Spelled(words, Entries(s)), NEW i \in 1 .. Len(words)
    PROVE  Stands(Before(words, i),
                  {SIL} \cup ({LastPhone(s.dict[k]) : k \in DOMAIN s.dict} \ Fillers))
  <1> DEFINE ends == {SIL} \cup ({LastPhone(s.dict[k]) : k \in DOMAIN s.dict} \ Fillers)
  <1> SUFFICES ASSUME NEW x \in Before(words, i)
               PROVE  \E y \in ends : ContextPhone(x) = ContextPhone(y)
    BY DEF Stands
  <1>1. ContextPhone(SIL) = SIL /\ SIL \in ends
    BY PhonesAssumption DEF ContextPhone
  <1>2. CASE x \in Fillers
    <2>1. ContextPhone(x) = SIL
      BY <1>2 DEF ContextPhone
    <2> HIDE DEF ends
    <2> QED
      BY <1>1, <2>1
  <1>3. CASE x \notin Fillers
    <2>1. i # 1
      BY <1>3, PhonesAssumption DEF Before
    <2>2. i - 1 \in 1 .. Len(words)
      <3>1. Len(words) \in Nat
        BY LenProperties DEF Spelled
      <3> QED
        BY <2>1, <3>1
    <2>3. PICK v \in 1 .. Len(words[i - 1]) : x = LastPhone(words[i - 1][v])
      BY <2>1 DEF Before
    <2>4. PICK k \in DOMAIN s.dict : words[i - 1][v] = s.dict[k]
      <3> DEFINE h == i - 1
      <3> HIDE DEF h
      <3>1. \E k \in DOMAIN s.dict : words[h][v] = s.dict[k]
        BY <2>2, EntryWhere DEF h
      <3> QED
        BY <3>1 DEF h
    <2>5. x = LastPhone(s.dict[k])
      BY <2>3, <2>4
    <2>6. x \in ends
      BY <1>3, <2>5
    <2> HIDE DEF ends
    <2> QED
      BY <2>6
  <1> QED
    BY <1>2, <1>3

LEMMA DictAfter ==
    ASSUME NEW s, NEW words, Spelled(words, Entries(s)), NEW i \in 1 .. Len(words)
    PROVE  Stands(After(words, i),
                  {SIL} \cup ({FirstPhone(s.dict[k]) : k \in DOMAIN s.dict} \ Fillers))
  <1> DEFINE begins == {SIL} \cup ({FirstPhone(s.dict[k]) : k \in DOMAIN s.dict} \ Fillers)
  <1> SUFFICES ASSUME NEW x \in After(words, i)
               PROVE  \E y \in begins : ContextPhone(x) = ContextPhone(y)
    BY DEF Stands
  <1>1. ContextPhone(SIL) = SIL /\ SIL \in begins
    BY PhonesAssumption DEF ContextPhone
  <1>2. CASE x \in Fillers
    <2>1. ContextPhone(x) = SIL
      BY <1>2 DEF ContextPhone
    <2> HIDE DEF begins
    <2> QED
      BY <1>1, <2>1
  <1>3. CASE x \notin Fillers
    <2>1. i # Len(words)
      BY <1>3, PhonesAssumption DEF After
    <2>2. i + 1 \in 1 .. Len(words)
      <3>1. Len(words) \in Nat
        BY LenProperties DEF Spelled
      <3> QED
        BY <2>1, <3>1
    <2>3. PICK v \in 1 .. Len(words[i + 1]) : x = FirstPhone(words[i + 1][v])
      BY <2>1 DEF After
    <2>4. PICK k \in DOMAIN s.dict : words[i + 1][v] = s.dict[k]
      <3> DEFINE h == i + 1
      <3> HIDE DEF h
      <3>1. \E k \in DOMAIN s.dict : words[h][v] = s.dict[k]
        BY <2>2, EntryWhere DEF h
      <3> QED
        BY <3>1 DEF h
    <2>5. x = FirstPhone(s.dict[k])
      BY <2>3, <2>4
    <2>6. x \in begins
      BY <1>3, <2>5
    <2> HIDE DEF begins
    <2> QED
      BY <2>6
  <1> QED
    BY <1>2, <1>3

LEMMA SpokenInDict ==
    ASSUME NEW s, NEW words, Spelled(words, Entries(s)), NEW t, SpokenIn(t, words)
    PROVE  t \in MakeDictTriphoneList(s.dict)
  <1> DEFINE begins == {SIL} \cup ({FirstPhone(s.dict[k]) : k \in DOMAIN s.dict} \ Fillers)
             ends == {SIL} \cup ({LastPhone(s.dict[k]) : k \in DOMAIN s.dict} \ Fillers)
  <1>1. PICK i \in 1 .. Len(words) : \E v \in 1 .. Len(words[i]) :
                t \in WordTriphones(words[i][v], Before(words, i), After(words, i))
    BY DEF SpokenIn
  <1>2. PICK v \in 1 .. Len(words[i]) :
                t \in WordTriphones(words[i][v], Before(words, i), After(words, i))
    BY <1>1
  <1>3. PICK k \in DOMAIN s.dict : words[i][v] = s.dict[k]
    BY EntryWhere
  <1>4. Stands(Before(words, i), ends) /\ Stands(After(words, i), begins)
    BY DictBefore, DictAfter
  <1>5. MakeDictTriphoneList(s.dict)
          = UNION {WordTriphones(s.dict[j], ends, begins) : j \in DOMAIN s.dict}
    BY DEF MakeDictTriphoneList
  <1> HIDE DEF begins, ends
  <1>6. t \in WordTriphones(s.dict[k], ends, begins)
    BY <1>2, <1>3, <1>4, WordTriphonesGrow
  <1> QED
    BY <1>5, <1>6

\* The triphones of one transcript's own graph, without the fillers'.
PlainDict(s) == \A k \in DOMAIN s.dict : Plain(s.dict[k])
Asked(s, i, t) ==
  LET g == SplitContexts(MkPhoneGraph(Pronounced(s, i)))
  IN  \E k \in DOMAIN g.phone : g.phone[k] \notin Fillers /\ t = VisitTriphones(g)[k]

LEMMA SplitDomain ==
    ASSUME NEW s \in Setups, NEW i \in DOMAIN s.texts
    PROVE  LET g == MkPhoneGraph(Pronounced(s, i)) IN
           /\ DOMAIN SplitContexts(g).phone = 1 .. Len(ClassifySlots(g))
           /\ DOMAIN VisitTriphones(SplitContexts(g)) = DOMAIN SplitContexts(g).phone
           /\ \A k \in DOMAIN SplitContexts(g).phone :
                VisitTriphones(SplitContexts(g))[k].base = SplitContexts(g).phone[k]
  <1> DEFINE g == MkPhoneGraph(Pronounced(s, i))
             h == SplitContexts(g)
  <1>1. PICK n : Layered(g, n)
    BY SessionGraphLayered
  <1>2. Copied(h, g, n, ClassifySlots(g))
    BY <1>1, SplitCopied
  <1>3. DOMAIN h.phone = 1 .. Len(ClassifySlots(g))
    BY <1>2 DEF Copied, Layered
  <1> HIDE DEF h
  <1>4. /\ DOMAIN VisitTriphones(h) = DOMAIN h.phone
        /\ \A k \in DOMAIN h.phone : VisitTriphones(h)[k].base = h.phone[k]
    BY DEF VisitTriphones, Triphone
  <1> QED
    BY <1>3, <1>4 DEF h

LEMMA AskedIsSpoken ==
    ASSUME NEW s \in Setups, PlainDict(s), NEW i \in DOMAIN s.texts, NEW t, Asked(s, i, t)
    PROVE  SpokenIn(t, Pronounced(s, i))
  <1> DEFINE words == Pronounced(s, i)
             g == MkPhoneGraph(words)
             h == SplitContexts(g)
  <1>1. Spelled(words, Entries(s)) /\ Voiced(words)
    BY SessionSpelled
  <1>2. \A e \in Entries(s) : Plain(e)
    BY DEF Entries, Range, PlainDict
  <1>3. DOMAIN h.phone = 1 .. Len(ClassifySlots(g))
    BY SplitDomain
  <1>4. PICK k \in DOMAIN h.phone : h.phone[k] \notin Fillers /\ t = VisitTriphones(h)[k]
    BY DEF Asked
  <1> HIDE DEF words
  <1>5. SpokenIn(VisitTriphones(h)[k], words)
    BY <1>1, <1>2, <1>3, <1>4, OwnIsSpoken
  <1> QED
    BY <1>4, <1>5 DEF words

\* What is reached is what some transcript asks for, and the dictionary produces it.
LEMMA ReachedIsAsked ==
    ASSUME NEW s \in Setups, NEW t
    PROVE  t \in ReachableTriphones(LexiconRead(s.dict), s.texts, s.multipron)
             <=> \E i \in DOMAIN s.texts : Asked(s, i, t)
  <1> DEFINE lex == LexiconRead(s.dict)
             GraphOf(text) == SplitContexts(MkPhoneGraph(Sounded(WordPlan(lex, text, s.multipron))))
             ReachedBy(own) == {own[k] : k \in {j \in DOMAIN own : own[j].base \notin Fillers}}
             reached == ReachableTriphones(lex, s.texts, s.multipron)
  <1>1. t \in reached <=> \E text \in Range(s.texts) : t \in ReachedBy(VisitTriphones(GraphOf(text)))
    BY DEF ReachableTriphones
  <1>2. ASSUME NEW i \in DOMAIN s.texts
        PROVE  t \in ReachedBy(VisitTriphones(GraphOf(s.texts[i]))) <=> Asked(s, i, t)
    <2> DEFINE h == GraphOf(s.texts[i])
               own == VisitTriphones(h)
    <2>1. h = SplitContexts(MkPhoneGraph(Pronounced(s, i)))
      BY DEF Pronounced
    <2>2. /\ DOMAIN own = DOMAIN h.phone
          /\ \A k \in DOMAIN h.phone : own[k].base = h.phone[k]
      BY <2>1, SplitDomain
    <2>3. Asked(s, i, t) <=> \E k \in DOMAIN h.phone : h.phone[k] \notin Fillers /\ t = own[k]
      BY <2>1 DEF Asked
    <2> HIDE DEF h, own
    <2>4. t \in ReachedBy(own) <=> \E k \in DOMAIN own : own[k].base \notin Fillers /\ t = own[k]
      OBVIOUS
    <2>5. t \in ReachedBy(own) <=> Asked(s, i, t)
      BY <2>2, <2>3, <2>4
    <2> QED
      BY <2>5 DEF own, h
  <1> HIDE DEF GraphOf, ReachedBy, reached
  <1>3. \A text : text \in Range(s.texts) <=> \E i \in DOMAIN s.texts : text = s.texts[i]
    BY DEF Range
  <1>4. t \in reached <=> \E i \in DOMAIN s.texts : Asked(s, i, t)
    BY <1>1, <1>2, <1>3
  <1> QED
    BY <1>4 DEF reached, lex

LEMMA ReachedInDomain ==
    ASSUME NEW s \in Setups, PlainDict(s)
    PROVE  ReachableTriphones(LexiconRead(s.dict), s.texts, s.multipron)
             \subseteq MakeDictTriphoneList(s.dict)
  <1> SUFFICES ASSUME NEW t \in ReachableTriphones(LexiconRead(s.dict), s.texts, s.multipron)
               PROVE  t \in MakeDictTriphoneList(s.dict)
    OBVIOUS
  <1>1. PICK i \in DOMAIN s.texts : Asked(s, i, t)
    BY ReachedIsAsked
  <1>2. SpokenIn(t, Pronounced(s, i)) /\ Spelled(Pronounced(s, i), Entries(s))
    BY <1>1, AskedIsSpoken, SessionSpelled
  <1> QED
    BY <1>2, SpokenInDict

\* To choose every element is to choose the sequence.
LEMMA ChosenAll ==
    ASSUME NEW S, NEW s \in Seq(S), NEW at, \A k \in 1 .. Len(s) : k \in at
    PROVE  Chosen(s, at) = s
  <1> DEFINE n == Len(s)
  <1>1. n \in Nat /\ \A k \in 1 .. n : s[k] \in S
    BY LenProperties, ElementOfSeq
  <1>2. PICK up : Choosing(up, s, at, S)
    BY ChosenRuns
  <1>3. /\ up[0] = <<>> /\ Chosen(s, at) = up[n]
        /\ \A m \in 0 .. n : up[m] \in Seq(S)
        /\ \A m \in 1 .. n : up[m] = Append(up[m - 1], s[m])
    BY <1>2 DEF Choosing
  <1> DEFINE P == {m \in 0 .. n : Len(up[m]) = m /\ \A k \in 1 .. m : up[m][k] = s[k]}
  <1>4. 0 \in P
    BY <1>1, <1>3
  <1>5. ASSUME NEW m \in 1 .. n, m - 1 \in P PROVE m \in P
    <2>1. /\ m \in Nat /\ m - 1 \in Nat /\ up[m - 1] \in Seq(S) /\ s[m] \in S
          /\ Len(up[m - 1]) = m - 1 /\ \A k \in 1 .. m - 1 : up[m - 1][k] = s[k]
      BY <1>1, <1>3, <1>5
    <2> DEFINE u == up[m - 1]
    <2> HIDE DEF u
    <2>2. /\ Len(Append(u, s[m])) = Len(u) + 1 /\ Append(u, s[m])[Len(u) + 1] = s[m]
          /\ \A k \in 1 .. Len(u) : Append(u, s[m])[k] = u[k]
      BY <2>1, AppendProperties DEF u
    <2>3. up[m] = Append(u, s[m])
      BY <1>3 DEF u
    <2>4. Len(u) = m - 1 /\ \A k \in 1 .. m - 1 : u[k] = s[k]
      BY <2>1 DEF u
    <2>5. Len(up[m]) = m /\ \A k \in 1 .. m : up[m][k] = s[k]
      BY <2>1, <2>2, <2>3, <2>4
    <2> QED
      BY <1>1, <2>5
  <1> HIDE DEF P
  <1>6. n \in P
    BY <1>1, <1>4, <1>5, UpFromZero
  <1>7. up[n] \in Seq(S) /\ Len(up[n]) = n /\ \A k \in 1 .. n : up[n][k] = s[k]
    BY <1>1, <1>3, <1>6 DEF P
  <1>8. up[n] = s
    BY <1>7, SeqEqual
  <1> QED
    BY <1>3, <1>8

LEMMA SoundedAll ==
    ASSUME NEW E, NEW plan, Rows(plan, E), \A i \in 1 .. Len(plan) : plan[i] # <<>>,
           \A e \in E : e.phones # <<>>
    PROVE  Sounded(plan) = plan
  <1> DEFINE spoken == [i \in DOMAIN plan |->
                          Chosen(plan[i], {v \in DOMAIN plan[i] : plan[i][v].phones # <<>>})]
  <1>1. plan \in Seq(Seq(E)) /\ DOMAIN plan = 1 .. Len(plan)
    BY LenProperties DEF Rows
  <1>2. ASSUME NEW i \in DOMAIN plan
        PROVE  Chosen(plan[i], {v \in DOMAIN plan[i] : plan[i][v].phones # <<>>}) = plan[i]
    <2> DEFINE s == plan[i]
               at == {v \in DOMAIN s : s[v].phones # <<>>}
    <2>1. s \in Seq(E)
      BY <1>1, ElementOfSeq
    <2> HIDE DEF s
    <2>2. \A v \in 1 .. Len(s) : v \in at
      BY <2>1, ElementOfSeq, LenProperties
    <2> HIDE DEF at
    <2>3. Chosen(s, at) = s
      BY <2>1, <2>2, ChosenAll
    <2> QED
      BY <2>3 DEF s, at
  <1>3. spoken = plan
    BY <1>1, <1>2
  <1>4. Sounded(plan) = Chosen(spoken, {i \in DOMAIN spoken : spoken[i] # <<>>})
    BY DEF Sounded
  <1> HIDE DEF spoken
  <1>5. \A i \in 1 .. Len(plan) : i \in {j \in DOMAIN plan : plan[j] # <<>>}
    BY <1>1
  <1> QED
    BY <1>1, <1>3, <1>4, <1>5, ChosenAll

\* A word found in the lexicon is found in a dictionary that can be read, with
\* the same pronunciation.
LEMMA LookupInDict ==
    ASSUME NEW s \in Setups, ReadDict(s.dict), NEW token,
           LexiconLookup(LexiconRead(s.dict), token) # <<>>
    PROVE  LET found == LexiconLookup(s.dict, token) IN
           /\ found # <<>> /\ found[1] \in Range(found)
           /\ found[1] = LexiconLookup(LexiconRead(s.dict), token)[1]
  <1> DEFINE dict == s.dict
             lex == LexiconRead(dict)
             E == Entries(s)
             S == Range(dict)
             atLex == {k \in DOMAIN lex : <<lex[k].word, lex[k].alt>> = token}
             atDict == {k \in DOMAIN dict : <<dict[k].word, dict[k].alt>> = token}
             c == Chosen(lex, atLex)
             d == Chosen(dict, atDict)
  <1>1. /\ lex \in Seq(E) /\ dict \in Seq(S) /\ DOMAIN dict = 1 .. Len(dict)
        /\ E \subseteq S /\ Len(dict) \in Nat
    <2>1. E \subseteq S
      BY DEF Entries
    <2>2. IsSeq(dict)
      BY SetupsAssumption
    <2>3. \E i \in DOMAIN s.texts : TRUE
      BY SetupsAssumption, EmptySeq DEF IsSeq
    <2>4. lex \in Seq(E)
      BY <2>3, SessionSpelled
    <2> QED
      BY <2>1, <2>2, <2>4, LenProperties DEF IsSeq
  <1>2. /\ LexiconLookup(lex, token) = c /\ c # <<>>
        /\ LexiconLookup(dict, token) = d
    BY DEF LexiconLookup
  <1>3. \A j, k \in DOMAIN dict :
          dict[j].word = dict[k].word /\ dict[j].alt = dict[k].alt => j = k
    BY DEF ReadDict
  <1>4. /\ \A k \in atLex : k \in DOMAIN lex /\ <<lex[k].word, lex[k].alt>> = token
        /\ \A k \in atDict : k \in DOMAIN dict /\ <<dict[k].word, dict[k].alt>> = token
        /\ \A k \in DOMAIN dict : <<dict[k].word, dict[k].alt>> = token => k \in atDict
    OBVIOUS
  <1>5. /\ c \in Seq(E) /\ \E pos : Locates(pos, c, lex, atLex, Len(lex))
        /\ d \in Seq(S) /\ \E pos : Locates(pos, d, dict, atDict, Len(dict))
    <2> HIDE DEF atLex, atDict, lex, dict, S, E
    <2> QED
      BY <1>1, ChosenPositions
  <1> HIDE DEF atLex, atDict, lex, dict, c, d, S
  <1>6. Len(c) \in Nat /\ 1 \in 1 .. Len(c) /\ Len(d) \in Nat /\ DOMAIN d = 1 .. Len(d)
    BY <1>2, <1>5, LenProperties, EmptySeq
  <1>7. PICK pc : Locates(pc, c, lex, atLex, Len(lex))
    BY <1>5
  <1>8. pc[1] \in atLex /\ c[1] = lex[pc[1]]
    BY <1>6, <1>7 DEF Locates
  <1>9. pc[1] \in DOMAIN lex /\ <<lex[pc[1]].word, lex[pc[1]].alt>> = token /\ c[1] \in S
    <2>1. c[1] \in E
      BY <1>5, <1>6, ElementOfSeq
    <2> QED
      BY <1>1, <1>4, <1>8, <2>1
  <1>10. PICK k \in DOMAIN dict : c[1] = dict[k]
    BY <1>9 DEF Range, S
  <1>11. k \in atDict
    BY <1>4, <1>8, <1>9, <1>10
  <1>12. PICK pd : Locates(pd, d, dict, atDict, Len(dict))
    BY <1>5
  <1>13. \E i \in 1 .. Len(d) : pd[i] = k
    BY <1>1, <1>11, <1>12 DEF Locates
  <1>14. 1 \in 1 .. Len(d)
    BY <1>6, <1>13
  <1>15. pd[1] \in atDict /\ d[1] = dict[pd[1]]
    BY <1>12, <1>14 DEF Locates
  <1>16. pd[1] = k
    <2>1. pd[1] \in DOMAIN dict /\ <<dict[pd[1]].word, dict[pd[1]].alt>> = token
          /\ <<dict[k].word, dict[k].alt>> = token
      BY <1>4, <1>11, <1>15
    <2> QED
      BY <1>3, <2>1
  <1>17. d[1] = c[1] /\ d # <<>> /\ d[1] \in Range(d)
    BY <1>6, <1>10, <1>14, <1>15, <1>16 DEF Range
  <1> QED
    BY <1>2, <1>17 DEF dict, lex

\* What the transcript says has been counted.
SaidBefore(dict, text, i) ==
  IF i - 1 \notin DOMAIN text \/ LexiconLookup(dict, text[i - 1]) = <<>> THEN SIL
  ELSE LastPhone(LexiconLookup(dict, text[i - 1])[1])
SaidAfter(dict, text, i) ==
  IF i + 1 \notin DOMAIN text \/ LexiconLookup(dict, text[i + 1]) = <<>> THEN SIL
  ELSE FirstPhone(LexiconLookup(dict, text[i + 1])[1])

LEMMA Counted ==
    ASSUME NEW dict, NEW texts, NEW i \in DOMAIN texts, NEW j \in DOMAIN texts[i],
           NEW e \in Range(LexiconLookup(dict, texts[i][j]))
    PROVE  WordTriphones(e, {SaidBefore(dict, texts[i], j)}, {SaidAfter(dict, texts[i], j)})
             \subseteq CountTriphones(dict, texts)
  <1> DEFINE At(text, k) ==
               UNION {WordTriphones(x, {SaidBefore(dict, text, k)}, {SaidAfter(dict, text, k)}) :
                        x \in Range(LexiconLookup(dict, text[k]))}
             In(text) == UNION {At(text, k) : k \in DOMAIN text}
  <1>1. CountTriphones(dict, texts) = UNION {In(text) : text \in Range(texts)}
    BY DEF CountTriphones, SaidBefore, SaidAfter
  <1>2. WordTriphones(e, {SaidBefore(dict, texts[i], j)}, {SaidAfter(dict, texts[i], j)})
          \subseteq At(texts[i], j)
    OBVIOUS
  <1> HIDE DEF At
  <1>3. At(texts[i], j) \subseteq In(texts[i])
    OBVIOUS
  <1>4. texts[i] \in Range(texts)
    BY DEF Range
  <1> HIDE DEF In
  <1> QED
    BY <1>1, <1>2, <1>3, <1>4

LEMMA AskedIsCounted ==
    ASSUME NEW s \in Setups, PlainDict(s), ReadDict(s.dict), ~s.multipron,
           NEW i \in DOMAIN s.texts,
           Expandable(WordPlan(LexiconRead(s.dict), s.texts[i], s.multipron)),
           NEW t, Asked(s, i, t)
    PROVE  t \in CountTriphones(s.dict, s.texts)
  <1> DEFINE dict == s.dict
             lex == LexiconRead(dict)
             text == s.texts[i]
             words == WordPlan(lex, text, s.multipron)
             E == Entries(s)
  <1>1. DOMAIN words = DOMAIN text /\ \A j \in DOMAIN text : words[j] = LexiconLookup(lex, text[j])
    BY DEF WordPlan
  <1>2. Rows(words, E) /\ words \in Seq(Seq(E)) /\ lex \in Seq(E)
    BY SessionSpelled DEF Rows
  <1>3. DOMAIN words = 1 .. Len(words) /\ Len(words) \in Nat
        /\ \A j \in DOMAIN words : words[j] # <<>>
    <2>1. \A j \in DOMAIN words : words[j] # <<>>
      BY DEF Expandable
    <2> HIDE DEF words
    <2> QED
      BY <1>2, <2>1, LenProperties
  <1>4. OneEach(lex)
    BY SetupsAssumption, LexiconOneEach
  <1>5. Pronounced(s, i) = words
    <2>1. \A e \in E : e.phones # <<>>
      BY DEF ReadDict, Entries, Range
    <2> HIDE DEF E, words
    <2>2. Sounded(words) = words
      BY <1>2, <1>3, <2>1, SoundedAll
    <2> QED
      BY <2>2 DEF Pronounced, words
  <1> HIDE DEF E, words, lex, dict
  <1>6. SpokenIn(t, words)
    BY <1>5, AskedIsSpoken
  <1>7. PICK j \in 1 .. Len(words) : \E v \in 1 .. Len(words[j]) :
                t \in WordTriphones(words[j][v], Before(words, j), After(words, j))
    BY <1>6 DEF SpokenIn
  <1>8. PICK v \in 1 .. Len(words[j]) :
                t \in WordTriphones(words[j][v], Before(words, j), After(words, j))
    BY <1>7
  <1>9. ASSUME NEW k \in 1 .. Len(words)
        PROVE  /\ Len(words[k]) = 1 /\ k \in DOMAIN text
               /\ LexiconLookup(dict, text[k]) # <<>>
               /\ LexiconLookup(dict, text[k])[1] = words[k][1]
               /\ words[k][1] \in Range(LexiconLookup(dict, text[k]))
    <2>1. k \in DOMAIN text /\ words[k] = LexiconLookup(lex, text[k]) /\ words[k] # <<>>
      BY <1>1, <1>3
    <2>2. Len(words[k]) = 1
      BY <1>2, <1>4, <2>1, LookupIsOne
    <2> QED
      BY <2>1, <2>2, LookupInDict DEF lex, dict
  <1>10. Before(words, j) = {SaidBefore(dict, text, j)}
    <2>1. CASE j = 1
      <3>1. j - 1 \notin DOMAIN text
        BY <1>1, <1>3, <2>1
      <3> QED
        BY <2>1, <3>1 DEF Before, SaidBefore
    <2>2. CASE j # 1
      <3> DEFINE k == j - 1
      <3>1. k \in 1 .. Len(words)
        BY <1>3, <2>2
      <3> HIDE DEF k
      <3>2. /\ Len(words[k]) = 1 /\ k \in DOMAIN text /\ LexiconLookup(dict, text[k]) # <<>>
            /\ LexiconLookup(dict, text[k])[1] = words[k][1]
        BY <1>9, <3>1
      <3>3. {LastPhone(words[k][u]) : u \in 1 .. Len(words[k])} = {LastPhone(words[k][1])}
        BY <3>2
      <3> QED
        BY <2>2, <3>2, <3>3 DEF Before, SaidBefore, k
    <2> QED
      BY <2>1, <2>2
  <1>11. After(words, j) = {SaidAfter(dict, text, j)}
    <2>1. CASE j = Len(words)
      <3>1. j + 1 \notin DOMAIN text
        BY <1>1, <1>3, <2>1
      <3> QED
        BY <2>1, <3>1 DEF After, SaidAfter
    <2>2. CASE j # Len(words)
      <3> DEFINE k == j + 1
      <3>1. k \in 1 .. Len(words)
        BY <1>3, <2>2
      <3> HIDE DEF k
      <3>2. /\ Len(words[k]) = 1 /\ k \in DOMAIN text /\ LexiconLookup(dict, text[k]) # <<>>
            /\ LexiconLookup(dict, text[k])[1] = words[k][1]
        BY <1>9, <3>1
      <3>3. {FirstPhone(words[k][u]) : u \in 1 .. Len(words[k])} = {FirstPhone(words[k][1])}
        BY <3>2
      <3> QED
        BY <2>2, <3>2, <3>3 DEF After, SaidAfter, k
    <2> QED
      BY <2>1, <2>2
  <1>12. v = 1 /\ words[j][1] \in Range(LexiconLookup(dict, text[j])) /\ j \in DOMAIN text
    <2>1. Len(words[j]) = 1
      BY <1>9
    <2> QED
      BY <1>8, <1>9, <2>1
  <1>13. t \in WordTriphones(words[j][1], {SaidBefore(dict, text, j)}, {SaidAfter(dict, text, j)})
    BY <1>8, <1>10, <1>11, <1>12
  <1>14. WordTriphones(words[j][1], {SaidBefore(dict, text, j)}, {SaidAfter(dict, text, j)})
           \subseteq CountTriphones(dict, s.texts)
    BY <1>12, Counted
  <1> QED
    BY <1>13, <1>14 DEF dict

-----------------------------------------------------------------------------
(* Every context is modelled.                                              *)

\* Whatever the policy, the model definition lists what a transcript asks for.
LEMMA AskedIsListed ==
    ASSUME NEW s \in Setups, s.policy = "reachable" \/ PlainDict(s),
           s.policy = "occurrence" => ~s.multipron,
           NEW inv, inv = GenUntied(s.dict, s.texts, s.policy, s.multipron), inv.ok,
           NEW i \in DOMAIN s.texts,
           Expandable(WordPlan(LexiconRead(s.dict), s.texts[i], s.multipron)),
           NEW t, Asked(s, i, t)
    PROVE  t \in inv.tris
  <1> DEFINE domain == MakeDictTriphoneList(s.dict)
             counted == CountTriphones(s.dict, s.texts)
             reached == ReachableTriphones(LexiconRead(s.dict), s.texts, s.multipron)
             known == \A text \in Range(s.texts) : text # <<>> =>
                        Expandable(WordPlan(LexiconRead(s.dict), text, s.multipron))
  <1>1. GenUntied(s.dict, s.texts, s.policy, s.multipron) =
          IF ~ReadDict(s.dict) THEN [ok |-> FALSE, tris |-> {}]
          ELSE IF s.policy = "all" THEN [ok |-> TRUE, tris |-> domain]
          ELSE IF s.policy = "occurrence" THEN [ok |-> TRUE, tris |-> counted]
          ELSE IF known /\ reached \subseteq domain THEN [ok |-> TRUE, tris |-> reached]
          ELSE [ok |-> FALSE, tris |-> {}]
    BY DEF GenUntied
  <1>2. s.policy = "all" => t \in domain
    <2>1. SUFFICES ASSUME PlainDict(s) PROVE t \in domain
      OBVIOUS
    <2>2. SpokenIn(t, Pronounced(s, i)) /\ Spelled(Pronounced(s, i), Entries(s))
      BY <2>1, AskedIsSpoken, SessionSpelled
    <2> QED
      BY <2>2, SpokenInDict
  <1>3. s.policy = "occurrence" /\ ReadDict(s.dict) => t \in counted
    <2>1. SUFFICES ASSUME PlainDict(s), ReadDict(s.dict), ~s.multipron PROVE t \in counted
      OBVIOUS
    <2> QED
      BY <2>1, AskedIsCounted
  <1>4. t \in reached
    BY ReachedIsAsked
  <1> HIDE DEF domain, counted, reached, known
  <1>5. CASE ~ReadDict(s.dict)
    BY <1>1, <1>5
  <1>6. CASE ReadDict(s.dict) /\ s.policy = "all"
    BY <1>1, <1>2, <1>6
  <1>7. CASE ReadDict(s.dict) /\ s.policy # "all" /\ s.policy = "occurrence"
    BY <1>1, <1>3, <1>7
  <1>8. CASE ReadDict(s.dict) /\ s.policy # "all" /\ s.policy # "occurrence"
    BY <1>1, <1>4, <1>8
  <1> QED
    BY <1>5, <1>6, <1>7, <1>8

\* Generation from a plain dictionary that can be read fails for an unknown word only.
LEMMA NoOtherReason ==
    ASSUME NEW s \in Setups, PlainDict(s), ReadDict(s.dict),
           \A text \in Range(s.texts) : text # <<>> =>
             Expandable(WordPlan(LexiconRead(s.dict), text, s.multipron))
    PROVE  GenUntied(s.dict, s.texts, s.policy, s.multipron).ok
  <1>1. ReachableTriphones(LexiconRead(s.dict), s.texts, s.multipron)
          \subseteq MakeDictTriphoneList(s.dict)
    BY ReachedInDomain
  <1> QED
    BY <1>1 DEF GenUntied

\* A triphone that is listed is found at once.
LEMMA ResolveFinds ==
    ASSUME NEW t, NEW tris, t \in tris, t = Triphone(t.base, t.left, t.right, t.posn)
    PROVE  Resolve(t.base, t.left, t.right, t.posn, tris) = t
  <1> QED
    BY DEF Resolve


\* The model definition is what generation made of the session's data; while an
\* utterance has a graph, its words are known and its HMM is made of that graph
\* with the model definition.
Generated(s) ==
  IF s.policy = "none" THEN [ok |-> TRUE, tris |-> {}]
  ELSE GenUntied(s.dict, s.texts, s.policy, s.multipron)

ModelInv ==
  /\ phase = "generate" => graph = NoGraph
  /\ phase # "generate" => inventory = Generated(setup)
  /\ phase \notin {"generate", "done"} => inventory.ok
  /\ graph # NoGraph =>
       /\ phase # "generate" /\ inventory.ok /\ Buildable
       /\ hmm.id = Cvt2TriphoneGraph(graph, inventory.tris)

LEMMA ModelInvInit == Init => ModelInv
  <1> QED
    BY DEF Init, ModelInv

LEMMA ModelsOfHMM ==
    ASSUME NEW g
    PROVE  NextUttStatesGraph(g).id = Cvt2TriphoneGraph(g, inventory.tris)
  <1> DEFINE id == Cvt2TriphoneGraph(g, inventory.tris)
             h == StateSeqMakeGraph(g, id, setup.K, setup.tmat)
  <1> HIDE DEF id
  <1>1. h.id = id
    BY DEF StateSeqMakeGraph
  <1> HIDE DEF h
  <1>2. AddBoundaryBypass(h, g).id = id
    <2>1. CASE Len(h.id) < 3
      BY <1>1, <2>1 DEF AddBoundaryBypass
    <2>2. CASE ~(Len(h.id) < 3)
      BY <1>1, <2>2 DEF AddBoundaryBypass
    <2> QED
      BY <2>1, <2>2
  <1> QED
    BY <1>1, <1>2 DEF NextUttStatesGraph, id, h

LEMMA ModelInvStep == ModelInv /\ [Next]_vars => ModelInv'
  <1> SUFFICES ASSUME ModelInv, [Next]_vars PROVE ModelInv'
    OBVIOUS
  <1>1. ASSUME hmm' = hmm, graph' = graph, setup' = setup, utt' = utt, inventory' = inventory,
               phase # "generate", phase' # "generate",
               phase' = "done" \/ phase \notin {"generate", "done"}
        PROVE  ModelInv'
    BY <1>1 DEF ModelInv, Buildable, GraphBuilt, Lexicon, Text
  <1>2. CASE Generate
    <2>1. graph' = graph /\ setup' = setup /\ graph = NoGraph
      BY <1>2 DEF Generate, sentence, ModelInv
    <2>2. inventory' = Generated(setup)
      BY <1>2 DEF Generate, Generated
    <2>3. phase' = IF inventory'.ok THEN "expand" ELSE "done"
      BY <1>2 DEF Generate
    <2> QED
      BY <2>1, <2>2, <2>3 DEF ModelInv
  <1>3. CASE BuildUttStateSeq
    <2>1. setup' = setup /\ utt' = utt /\ inventory' = inventory /\ phase = "expand"
          /\ phase' \in {"forward", "settled"}
      BY <1>3 DEF BuildUttStateSeq, building, Settle
    <2>2. CASE Buildable
      <3>1. Buildable'
        BY <2>1, <2>2 DEF Buildable, GraphBuilt, Lexicon, Text
      <3>2. graph' # NoGraph => hmm' = NextUttStatesGraph(graph')
        BY <1>3, <2>2 DEF BuildUttStateSeq
      <3>3. graph' # NoGraph => hmm'.id = Cvt2TriphoneGraph(graph', inventory'.tris)
        BY <2>1, <3>2, ModelsOfHMM
      <3> QED
        BY <2>1, <3>1, <3>3 DEF ModelInv
    <2>3. CASE ~Buildable
      BY <1>1, <1>3, <2>1, <2>3 DEF BuildUttStateSeq
    <2> QED
      BY <2>2, <2>3
  <1>4. CASE ForwardFirst
    BY <1>1, <1>4 DEF ForwardFirst, sentence, building, Settle
  <1>5. CASE ForwardFrame
    <2>1. phase = "forward" /\ phase' \in {"forward", "settled"}
      BY <1>5 DEF ForwardFrame, Settle
    <2>2. UNCHANGED building /\ UNCHANGED sentence
      BY <1>5 DEF ForwardFrame
    <2> QED
      BY <1>1, <2>1, <2>2 DEF sentence, building
  <1>6. CASE FinalStateNotReached
    BY <1>1, <1>6 DEF FinalStateNotReached, sentence, building, Settle
  <1>7. CASE BackwardStart
    BY <1>1, <1>7 DEF BackwardStart, sentence, building
  <1>8. CASE BackwardFrame
    <2>1. phase = "backward" /\ phase' \in {"backward", "settled"}
      BY <1>8 DEF BackwardFrame, Settle
    <2>2. UNCHANGED building /\ UNCHANGED sentence
      BY <1>8 DEF BackwardFrame
    <2> QED
      BY <1>1, <2>1, <2>2 DEF sentence, building
  <1>9. CASE BackwardEnd
    <2>1. phase = "backward" /\ phase' = "settled"
      BY <1>9 DEF BackwardEnd, Settle
    <2>2. UNCHANGED building /\ UNCHANGED sentence
      BY <1>9 DEF BackwardEnd
    <2> QED
      BY <1>1, <2>1, <2>2 DEF sentence, building
  <1>10. CASE NextUtterance
    <2>1. /\ graph' = NoGraph /\ setup' = setup /\ inventory' = inventory
          /\ phase = "settled" /\ phase' \in {"expand", "done"}
      BY <1>10 DEF NextUtterance, building
    <2> QED
      BY <2>1 DEF ModelInv
  <1>11. CASE UNCHANGED vars
    BY <1>11 DEF vars, ModelInv, Buildable, GraphBuilt, Lexicon, Text
  <1> QED
    BY <1>2, <1>3, <1>4, <1>5, <1>6, <1>7, <1>8, <1>9, <1>10, <1>11 DEF Next

\* So each spoken slot has the model of its own triphone.
LEMMA SlotHasItsModel ==
    ASSUME GraphInv, ModelInv, graph # NoGraph, setup.policy # "none",
           setup.policy = "reachable" \/ PlainDict(setup),
           setup.policy = "occurrence" => ~setup.multipron,
           NEW k \in DOMAIN graph.phone, graph.phone[k] \notin Fillers
    PROVE  hmm.id[k] = VisitTriphones(graph)[k]
  <1> DEFINE t == VisitTriphones(graph)[k]
             tris == inventory.tris
  <1>1. /\ setup \in Setups /\ utt \in DOMAIN setup.texts /\ graph = SplitGraph
        /\ inventory = Generated(setup) /\ inventory.ok /\ Buildable
        /\ hmm.id = Cvt2TriphoneGraph(graph, inventory.tris)
    BY DEF GraphInv, ModelInv
  <1>2. Expandable(WordPlan(LexiconRead(setup.dict), setup.texts[utt], setup.multipron))
    <2>1. setup.multipron \in BOOLEAN
      BY <1>1, SetupsAssumption
    <2>2. (GraphBuilt /\ setup.multipron) = setup.multipron
      BY <2>1 DEF GraphBuilt
    <2> QED
      BY <1>1, <2>2 DEF Buildable, Lexicon, Text
  <1>3. Asked(setup, utt, t)
    BY <1>1 DEF Asked, SplitGraph
  <1>4. inventory = GenUntied(setup.dict, setup.texts, setup.policy, setup.multipron)
    BY <1>1 DEF Generated
  <1> HIDE DEF t, tris
  <1>5. t \in tris
    BY <1>1, <1>2, <1>3, <1>4, AskedIsListed DEF tris
  <1>6. t = Triphone(t.base, t.left, t.right, t.posn)
    BY DEF t, VisitTriphones, Triphone
  <1>7. hmm.id[k] = IF tris = {} \/ graph.phone[k] \in Fillers THEN CI(graph.phone[k])
                    ELSE Resolve(t.base, t.left, t.right, t.posn, tris)
    BY <1>1 DEF Cvt2TriphoneGraph, t, tris
  <1>8. hmm.id[k] = Resolve(t.base, t.left, t.right, t.posn, tris)
    BY <1>5, <1>7
  <1> QED
    BY <1>5, <1>6, <1>8, ResolveFinds DEF t

LEMMA ModelledContexts == GraphInv /\ ModelInv => EveryContextIsModelled
  <1> SUFFICES ASSUME GraphInv, ModelInv PROVE EveryContextIsModelled
    OBVIOUS
  <1> DEFINE plain == \A k \in DOMAIN setup.dict : Plain(setup.dict[k])
             known == \A text \in Range(setup.texts) : text # <<>> =>
                        Expandable(WordPlan(Lexicon, text, setup.multipron))
             slots == Slots(Pronounced(setup, utt))
             copies == ClassifySlots(WholeGraph)
  <1>1. setup \in Setups /\ utt \in DOMAIN setup.texts
    BY DEF GraphInv
  <1>2. ASSUME phase = "done", ~inventory.ok, plain, ReadDict(setup.dict) PROVE ~known
    <2>1. inventory = Generated(setup)
      BY <1>2 DEF ModelInv
    <2>2. inventory = GenUntied(setup.dict, setup.texts, setup.policy, setup.multipron)
      BY <1>2, <2>1 DEF Generated
    <2> QED
      BY <1>1, <1>2, <2>2, NoOtherReason DEF PlainDict, Lexicon
  <1>3. ASSUME graph # NoGraph, setup.policy # "none", setup.policy = "reachable" \/ plain,
               setup.policy = "occurrence" => ~setup.multipron,
               NEW k \in DOMAIN graph.phone, graph.phone[k] \notin Fillers
        PROVE  LET id == hmm.id[k] IN
               /\ id.base = graph.phone[k]
               /\ id.posn = TruePosn(slots[copies[k].slot])
               /\ \A j \in graph.prior[k] : id.left = ContextPhone(graph.phone[j])
               /\ \A j \in graph.next[k] : id.right = ContextPhone(graph.phone[j])
               /\ graph.prior[k] = {} => id.left = SIL
               /\ graph.next[k] = {} => id.right = SIL
    <2> DEFINE words == Pronounced(setup, utt)
               g == MkPhoneGraph(words)
               n == Len(slots)
    <2>1. /\ graph = SplitContexts(g) /\ copies = ClassifySlots(g)
          /\ Spelled(words, Entries(setup))
      BY <1>1, <1>3, SessionSpelled DEF GraphInv, SplitGraph, WholeGraph
    <2>2. Tracked(g, slots, n)
      BY <2>1, PhoneGraphTracked
    <2>3. Layered(g, n)
      BY <2>2 DEF Tracked
    <2>4. Copied(graph, g, n, copies)
      BY <2>1, <2>3, SplitCopied
    <2>5. k \in 1 .. Len(copies)
      BY <2>4 DEF Copied, Layered
    <2>6. hmm.id[k] = VisitTriphones(graph)[k]
      BY <1>3, SlotHasItsModel DEF PlainDict
    <2> HIDE DEF g, words, n, slots, copies
    <2>7. hmm.id[k] = OwnTriphone(copies, slots, graph.phone[k], k)
      BY <1>3, <2>2, <2>4, <2>5, <2>6, CopyTriphone
    <2> DEFINE id == hmm.id[k]
    <2>8. /\ id.base = graph.phone[k] /\ id.left = copies[k].left /\ id.right = copies[k].right
          /\ id.posn = TruePosn(slots[copies[k].slot])
      BY <2>7 DEF OwnTriphone, Triphone
    <2>9. /\ graph.prior[k] = {} => copies[k].left = SIL
          /\ graph.next[k] = {} => copies[k].right = SIL
      BY <1>3, <2>3, <2>4, <2>5, CopyContexts
    <2>10. /\ \A j \in graph.prior[k] : copies[k].left = ContextPhone(graph.phone[j])
           /\ \A j \in graph.next[k] : copies[k].right = ContextPhone(graph.phone[j])
      BY <1>3, <2>3, <2>4, <2>5, CopyNeighbours
    <2> HIDE DEF id
    <2>11. /\ id.base = graph.phone[k]
           /\ id.posn = TruePosn(slots[copies[k].slot])
           /\ \A j \in graph.prior[k] : id.left = ContextPhone(graph.phone[j])
           /\ \A j \in graph.next[k] : id.right = ContextPhone(graph.phone[j])
           /\ graph.prior[k] = {} => id.left = SIL
           /\ graph.next[k] = {} => id.right = SIL
      BY <2>8, <2>9, <2>10
    <2> QED
      BY <2>11 DEF id
  <1> HIDE DEF slots, copies
  <1> QED
    BY <1>2, <1>3 DEF EveryContextIsModelled, slots, copies

\* A model definition made for these transcripts has every triphone their graphs use, and
\* each spoken slot of a sentence HMM has the model of its own phone, position and
\* contexts (pstrain_mdef_gen.c, phone_graph_triphone.c).
THEOREM ContextsAreModelled == Spec => []EveryContextIsModelled
  <1>1. Init => GraphInv /\ ModelInv
    BY GraphInvInit, ModelInvInit
  <1>2. GraphInv /\ ModelInv /\ [Next]_vars => (GraphInv /\ ModelInv)'
    BY GraphInvStep, ModelInvStep
  <1>3. GraphInv /\ ModelInv => EveryContextIsModelled
    BY ModelledContexts
  <1> QED
    BY <1>1, <1>2, <1>3, PTL DEF Spec
=============================================================================
