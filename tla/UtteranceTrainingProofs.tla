------------------------ MODULE UtteranceTrainingProofs -----------------------
(***************************************************************************)
(* Proofs about the sessions of UtteranceTraining, for every dictionary    *)
(* and every transcript: every variable keeps its type, only accepted      *)
(* utterances are counted, and the feasibility search finds the least      *)
(* count of frames.                                                        *)
(*                                                                         *)
(* Types: the models of the slots have well-formed names, their arcs have  *)
(* natural weights and lead ahead; the forward pass appends a list of      *)
(* scored states per frame, the backward pass fills tables of natural      *)
(* numbers, and both are recursions along a list that stay in their set.   *)
(*                                                                         *)
(* Counts: only the end of a backward pass adds to the totals, and it adds *)
(* an entry exactly when it accepts.                                       *)
(*                                                                         *)
(* Feasibility: a search over the arcs of a state solves its equations,    *)
(* because each state's predecessors come before it; by induction its      *)
(* value is below the emissions of every way to the state, and is attained *)
(* by one when it is not Unreachable.                                      *)
(***************************************************************************)
EXTENDS SentenceProofs

-----------------------------------------------------------------------------
(* The names of the models that slots are given.                           *)

\* Positions in a word.
Kinds == {"b", "e", "s", "i"}

\* The model of a phone is its context-independent one, or is no such model.
OwnName(id) == id.base \in Phones /\ (IsCI(id) => id = CI(id.base))

LEMMA ResolveNames ==
    ASSUME NEW b \in Phones, NEW l, NEW r, NEW w \in Kinds, NEW tris
    PROVE  OwnName(Resolve(b, l, r, w, tris)) /\ OwnName(CI(b))
  <1> DEFINE at == {n \in DOMAIN PosnOrder : Triphone(b, l, r, PosnOrder[n]) \in tris}
             known == Chosen(PosnOrder, at)
  <1>1. PosnOrder \in Seq(Kinds)
    BY DEF PosnOrder, Kinds
  <1> HIDE DEF at
  <1>2. known \in Seq(Kinds)
    BY <1>1, ChosenPositions
  <1>3. BackOff(b, l, r, tris) = IF known = <<>> THEN CI(b) ELSE Triphone(b, l, r, known[1])
    BY DEF BackOff, at
  <1> HIDE DEF known
  <1>4. OwnName(CI(b))
    BY DEF OwnName, CI, Triphone
  <1>5. ASSUME NEW x \in Kinds PROVE OwnName(Triphone(b, l, r, x))
    BY DEF OwnName, Triphone, IsCI, Kinds
  <1>6. known # <<>> => known[1] \in Kinds
    BY <1>2
  <1>7. OwnName(BackOff(b, l, r, tris))
    BY <1>3, <1>4, <1>5, <1>6
  <1> QED
    BY <1>4, <1>5, <1>7 DEF Resolve

\* The graph of a transcript knows the position of each slot.
LEMMA SessionPositions ==
    ASSUME NEW s \in Setups, NEW i \in DOMAIN s.texts,
           NEW g, g = SplitContexts(MkPhoneGraph(Pronounced(s, i))), NEW k \in DOMAIN g.phone
    PROVE  GraphPosns(g)[k] \in Kinds
  <1> DEFINE words == Pronounced(s, i)
             whole == MkPhoneGraph(words)
             slots == Slots(words)
             n == Len(slots)
             copies == ClassifySlots(whole)
  <1>1. Spelled(words, Entries(s))
    BY SessionSpelled
  <1> HIDE DEF words
  <1>2. Tracked(whole, slots, n)
    BY <1>1, PhoneGraphTracked
  <1>3. g = SplitContexts(whole)
    BY DEF words
  <1> HIDE DEF whole, slots, n
  <1>4. Layered(whole, n)
    BY <1>2 DEF Tracked
  <1>5. Copied(g, whole, n, copies)
    BY <1>3, <1>4, SplitCopied
  <1> HIDE DEF copies
  <1>6. k \in 1 .. Len(copies) /\ copies[k].slot \in 1 .. n
    <2>1. Layered(g, Len(copies))
      BY <1>5 DEF Copied
    <2>2. DOMAIN g.phone = 1 .. Len(copies)
      BY <2>1 DEF Layered
    <2> QED
      BY <1>5, <2>2 DEF Copied
  <1>7. GraphPosns(g)[k] = TruePosn(slots[copies[k].slot])
    BY <1>2, <1>5, <1>6, GraphPositions
  <1>8. slots[copies[k].slot].first \in BOOLEAN /\ slots[copies[k].slot].last \in BOOLEAN
    BY <1>2, <1>6 DEF Tracked
  <1> QED
    BY <1>7, <1>8, PosnKinds DEF Kinds

\* So each slot's model is one of its phone.
LEMMA GraphNames ==
    ASSUME NEW s \in Setups, NEW i \in DOMAIN s.texts, NEW tris,
           NEW g, g = SplitContexts(MkPhoneGraph(Pronounced(s, i))),
           NEW n, Layered(g, n), NEW k \in 1 .. n
    PROVE  OwnName(Cvt2TriphoneGraph(g, tris)[k])
  <1> DEFINE own == VisitTriphones(g)
  <1>1. DOMAIN g.phone = 1 .. n /\ g.phone[k] \in Phones
    BY DEF Layered
  <1>2. GraphPosns(g)[k] \in Kinds
    BY <1>1, SessionPositions
  <1>3. own[k].base = g.phone[k] /\ own[k].posn = GraphPosns(g)[k]
    BY <1>1 DEF VisitTriphones, Triphone
  <1>4. Cvt2TriphoneGraph(g, tris)[k]
          = IF tris = {} \/ g.phone[k] \in Fillers THEN CI(g.phone[k])
            ELSE Resolve(own[k].base, own[k].left, own[k].right, own[k].posn, tris)
    BY <1>1 DEF Cvt2TriphoneGraph
  <1> HIDE DEF own
  <1> DEFINE l == own[k].left
             r == own[k].right
             b == g.phone[k]
             w == GraphPosns(g)[k]
  <1>5. Cvt2TriphoneGraph(g, tris)[k] \in {CI(b), Resolve(b, l, r, w, tris)}
    BY <1>3, <1>4
  <1>6. b \in Phones /\ w \in Kinds
    BY <1>1, <1>2
  <1> HIDE DEF l, r, b, w
  <1>7. OwnName(CI(b)) /\ OwnName(Resolve(b, l, r, w, tris))
    BY <1>6, ResolveNames
  <1> QED
    BY <1>5, <1>7

-----------------------------------------------------------------------------
(* The arcs of a sentence HMM have natural weights.                        *)

\* What the passes read of a sentence HMM.
NatArcs(h) ==
  \A s \in States(h) : \A t \in DOMAIN h.next[s] : h.next[s][t] \in Nat
Ahead(h) ==
  \A s \in States(h) : \A t \in DOMAIN h.next[s] : s <= t
TypedHMM(h, K) ==
  /\ h.K = K /\ K \in Nat \ {0} /\ Len(h.id) \in Nat \ {0}
  /\ NatArcs(h) /\ Ahead(h) /\ \A k \in 1 .. Len(h.id) : OwnName(h.id[k])

LEMMA QuotientIsNat ==
    ASSUME NEW a \in Nat, NEW c \in Nat \ {0}
    PROVE  a \div c \in Nat
  BY DivisionLaw

LEMMA WiredNat ==
    ASSUME NEW h, NEW g, NEW n, NEW id, NEW K, NEW tmat,
           Buildings(g, n, id, K, tmat), Wired(h, g, n, id, K, tmat)
    PROVE  NatArcs(h)
  <1> SUFFICES ASSUME NEW s \in States(h), NEW t \in DOMAIN h.next[s]
               PROVE  h.next[s][t] \in Nat
    BY DEF NatArcs
  <1> DEFINE k == Slot(h, s)
             m == MState(h, s)
             i == MState(h, t)
  <1>1. n \in Nat /\ K \in Nat \ {0} /\ h.K = K /\ Len(h.id) = n
    BY DEF Buildings, Wired
  <1>2. Numbered(h, K, n)
    BY <1>1, StatesNumbered
  <1>3. /\ t \in States(h) /\ Stepping(g, id, K, tmat, k, m, Slot(h, t), i)
        /\ h.next[s][t] = Weight(g, id, K, tmat, k, m, i)
    BY DEF Wired
  <1>4. k \in 1 .. n /\ m \in 0 .. K /\ i \in 0 .. K
    BY <1>2, <1>3 DEF Numbered
  <1> DEFINE j == Slot(h, t)
  <1> HIDE DEF k, m, i, j
  <1>5. CASE m < K
    <2>1. m \in 0 .. K - 1
      BY <1>1, <1>4, <1>5
    <2>2. tmat[id[k].base] \in [0 .. K - 1 -> [0 .. K -> Nat]]
      BY <1>4 DEF Buildings
    <2>3. tmat[id[k].base][m][i] \in Nat
      BY <1>4, <2>1, <2>2
    <2> QED
      BY <1>3, <1>5, <2>3 DEF Weight
  <1>6. CASE ~(m < K)
    <2>1. j \in g.next[k]
      BY <1>3, <1>6 DEF Stepping, j
    <2>2. IsFiniteSet(g.next[k])
      <3>1. g.next[k] \subseteq 1 .. n
        BY <1>4 DEF Buildings
      <3>2. IsFiniteSet(1 .. n)
        <4>1. 1 \in Int /\ n \in Int
          BY <1>1
        <4> QED
          BY <4>1, FS_Interval
      <3> QED
        BY <3>1, <3>2, FS_Subset
    <2>3. Cardinality(g.next[k]) \in Nat \ {0}
      BY <2>1, <2>2, FS_CardinalityType, FS_EmptySet
    <2>4. One \div Cardinality(g.next[k]) \in Nat
      BY <2>3, QuotientIsNat, OneAssumption
    <2> QED
      BY <1>3, <1>6, <2>4 DEF Weight
  <1> QED
    BY <1>5, <1>6

\* No arc leads back, within a phone or to the next.
LeftToRight(id, n, K, tmat) ==
  \A k \in 1 .. n : \A m \in 0 .. K - 1 : \A t \in 0 .. m - 1 : tmat[id[k].base][m][t] = 0

LEMMA WiredAhead ==
    ASSUME NEW h, NEW g, NEW n, NEW id, NEW K, NEW tmat, Layered(g, n),
           Buildings(g, n, id, K, tmat), Wired(h, g, n, id, K, tmat), LeftToRight(id, n, K, tmat)
    PROVE  Ahead(h)
  <1> SUFFICES ASSUME NEW s \in States(h), NEW t \in DOMAIN h.next[s] PROVE s <= t
    BY DEF Ahead
  <1> DEFINE k == Slot(h, s)
             m == MState(h, s)
             j == Slot(h, t)
             i == MState(h, t)
  <1>1. n \in Nat /\ K \in Nat \ {0} /\ h.K = K /\ Len(h.id) = n
    BY DEF Buildings, Wired
  <1>2. Numbered(h, K, n)
    BY <1>1, StatesNumbered
  <1>3. t \in States(h) /\ Stepping(g, id, K, tmat, k, m, j, i)
    BY DEF Wired
  <1>4. /\ k \in 1 .. n /\ m \in 0 .. K /\ j \in 1 .. n /\ i \in 0 .. K
        /\ s = Entry(K, k) + m /\ t = Entry(K, j) + i
        /\ Entry(K, k) \in Nat /\ Entry(K, j) \in Nat
    BY <1>2, <1>3 DEF Numbered
  <1> HIDE DEF k, m, i, j
  <1>5. CASE m < K
    <2>1. j = k /\ tmat[id[k].base][m][i] > 0 /\ m \in 0 .. K - 1
      BY <1>1, <1>3, <1>4, <1>5 DEF Stepping
    <2>2. ~(i < m)
      <3>1. i < m => i \in 0 .. m - 1
        BY <1>4
      <3>2. i < m => tmat[id[k].base][m][i] = 0
        BY <1>4, <2>1, <3>1 DEF LeftToRight
      <3> QED
        BY <2>1, <3>2
    <2> QED
      BY <1>4, <2>1, <2>2
  <1>6. CASE ~(m < K)
    <2>1. j \in g.next[k] /\ m = K
      BY <1>1, <1>3, <1>4, <1>6 DEF Stepping
    <2>2. k < j
      BY <1>4, <2>1 DEF Layered
    <2> DEFINE w == K + 1
    <2>3. Entry(K, k) = (k - 1) * w + 1 /\ Entry(K, j) = (j - 1) * w + 1
      BY DEF Entry
    <2>4. k - 1 \in Nat /\ k \in Nat /\ j - 1 \in Nat /\ k <= j - 1 /\ w \in Nat /\ (k - 1) + 1 = k
      BY <1>1, <1>4, <2>2
    <2> HIDE DEF w
    <2>5. /\ w * k \in Nat /\ w * (k - 1) \in Nat /\ w * (j - 1) \in Nat
          /\ w * k <= w * (j - 1) /\ w * ((k - 1) + 1) = w * (k - 1) + w
      <3>1. w * k \in Nat /\ w * (j - 1) \in Nat /\ w * k <= w * (j - 1)
        BY <2>4, Multiples
      <3>2. w * (k - 1) \in Nat
        BY <2>4, Multiples
      <3>3. w * ((k - 1) + 1) = w * (k - 1) + w
        BY <2>4, NextMultiple
      <3> QED
        BY <3>1, <3>2, <3>3
    <2>6. (k - 1) * w = w * (k - 1) /\ (j - 1) * w = w * (j - 1)
      BY <2>4
    <2>7. s = w * (k - 1) + 1 + K /\ t = w * (j - 1) + 1 + i /\ w * k = w * (k - 1) + w
      BY <1>4, <2>1, <2>3, <2>4, <2>5, <2>6
    <2> DEFINE x == w * (k - 1)
               y == w * (j - 1)
               z == w * k
    <2>8. x \in Nat /\ y \in Nat /\ z \in Nat /\ z <= y /\ s = x + 1 + K /\ t = y + 1 + i /\ z = x + w
      BY <2>5, <2>7
    <2>9. w = K + 1 /\ i \in Nat /\ K \in Nat
      BY <1>1, <1>4 DEF w
    <2> HIDE DEF x, y, z
    <2> QED
      BY <2>8, <2>9
  <1> QED
    BY <1>5, <1>6

LEMMA BypassNat ==
    ASSUME NEW h, NEW g, NatArcs(h), Ahead(h), Len(h.id) * Width(h) \in Nat, NEW next, NEW prior, NEW id, NEW K,
           h = [K |-> K, id |-> id, next |-> next, prior |-> prior]
    PROVE  LET b == AddBoundaryBypass(h, g) IN NatArcs(b) /\ Ahead(b) /\ b.K = K /\ b.id = id
  <1> DEFINE n == Len(h.id)
             b == AddBoundaryBypass(h, g)
             end == Exit(h.K, n)
             before == {Exit(h.K, k) : k \in g.prior[n]}
             Next0(s) ==
               IF s \notin before THEN h.next[s]
               ELSE Both(Halved(h.next[s], DOMAIN h.next[s]), Arc(end, One \div 2))
             Prior0(s) ==
               Both(Halved(h.prior[s], before),
                    IF s = end THEN [x \in before |-> One \div 2] ELSE <<>>)
  <1>1. CASE n < 3
    BY <1>1 DEF AddBoundaryBypass
  <1>2. CASE ~(n < 3)
    <2>1. b = [h EXCEPT !.next = [s \in States(h) |-> Next0(s)],
                        !.prior = [s \in States(h) |-> Prior0(s)]]
      BY <1>2 DEF AddBoundaryBypass
    <2>2. b.K = K /\ b.id = id /\ b.next = [s \in States(h) |-> Next0(s)]
      BY <2>1
    <2> HIDE DEF b
    <2>3. States(b) = States(h)
      BY <2>2 DEF States, Width
    <2>4. ASSUME NEW s \in States(h), NEW t \in DOMAIN b.next[s] PROVE b.next[s][t] \in Nat
      <3> HIDE DEF before, end
      <3>1. b.next[s] = Next0(s)
        BY <2>2
      <3>2. CASE s \notin before
        BY <3>1, <3>2, <2>4 DEF NatArcs
      <3>3. CASE s \in before
        <4> DEFINE halved == Halved(h.next[s], DOMAIN h.next[s])
                   extra == Arc(end, One \div 2)
        <4>1. DOMAIN halved = DOMAIN h.next[s]
              /\ \A x \in DOMAIN halved : halved[x] = h.next[s][x] \div 2
          BY DEF Halved
        <4>2. \A x \in DOMAIN halved : halved[x] \in Nat
          <5>1. \A x \in DOMAIN halved : h.next[s][x] \in Nat
            BY <4>1 DEF NatArcs
          <5> HIDE DEF halved
          <5> QED
            BY <4>1, <5>1, QuotientIsNat
        <4>3. \A x \in DOMAIN extra : extra[x] \in Nat
          <5>1. One \div 2 \in Nat
            BY OneAssumption, QuotientIsNat
          <5> QED
            BY <5>1 DEF Arc
        <4>4. b.next[s] = Both(halved, extra)
          BY <3>1, <3>3
        <4> HIDE DEF halved, extra
        <4> QED
          BY <2>4, <4>2, <4>3, <4>4 DEF Both
      <3> QED
        BY <3>2, <3>3
    <2>5. ASSUME NEW s \in States(h), NEW t \in DOMAIN b.next[s] PROVE s <= t
      <3>1. b.next[s] = Next0(s)
        BY <2>2
      <3>2. CASE t \in DOMAIN h.next[s]
        BY <3>2 DEF Ahead
      <3>3. CASE t \notin DOMAIN h.next[s]
        <4>1. t = end
          BY <2>5, <3>1, <3>3 DEF Both, Halved, Arc
        <4>2. end = Len(h.id) * Width(h) /\ s \in 1 .. Len(h.id) * Width(h)
          BY DEF Exit, Width, States
        <4> QED
          BY <4>1, <4>2
      <3> QED
        BY <3>2, <3>3
    <2>6. NatArcs(b)
      BY <2>3, <2>4 DEF NatArcs
    <2>7. Ahead(b)
      BY <2>3, <2>5 DEF Ahead
    <2> QED
      BY <2>2, <2>6, <2>7 DEF b
  <1> QED
    BY <1>1, <1>2

\* Whichever builder made it.
LEMMA GraphTyped ==
    ASSUME NEW s \in Setups, NEW i \in DOMAIN s.texts, Pronounced(s, i) # <<>>, NEW tris,
           NEW g, g = SplitContexts(MkPhoneGraph(Pronounced(s, i))),
           NEW h, h = StateSeqMakeGraph(g, Cvt2TriphoneGraph(g, tris), s.K, s.tmat)
    PROVE  TypedHMM(h, s.K) /\ TypedHMM(AddBoundaryBypass(h, g), s.K)
  <1> DEFINE id == Cvt2TriphoneGraph(g, tris)
             K == s.K
             tmat == s.tmat
             b == AddBoundaryBypass(h, g)
  <1>1. PICK n : Assembled(g, n, h, id, K, tmat)
    BY GraphAssembled
  <1>2. Layered(g, n)
    BY <1>1 DEF Assembled
  <1>3. \A k \in 1 .. n : OwnName(id[k])
    BY <1>2, GraphNames
  <1>10. LeftToRight(id, n, K, tmat)
    BY <1>3, LeftToRightAssumption DEF LeftToRight, OwnName
  <1> HIDE DEF id, K, tmat
  <1>4. /\ n \in Nat \ {0} /\ K \in Nat \ {0} /\ Len(id) = n
        /\ Buildings(g, n, id, K, tmat) /\ Wired(h, g, n, id, K, tmat)
        /\ h = [K |-> K, id |-> id, next |-> h.next, prior |-> h.prior]
    BY <1>1 DEF Assembled, EndsAt, Buildings
  <1>5. NatArcs(h) /\ Ahead(h)
    BY <1>2, <1>4, <1>10, WiredNat, WiredAhead
  <1>11. Len(h.id) * Width(h) \in Nat
    <2>1. h.K = K /\ Len(h.id) = n
      BY <1>4
    <2> QED
      BY <1>4, <2>1, Multiples DEF Width
  <1>6. NatArcs(b) /\ Ahead(b) /\ b.K = K /\ b.id = id
    <2> DEFINE next == h.next
               prior == h.prior
    <2>1. h = [K |-> K, id |-> id, next |-> next, prior |-> prior]
      BY <1>4
    <2> HIDE DEF next, prior
    <2> QED
      BY <1>5, <1>11, <2>1, BypassNat
  <1>7. h.K = K /\ h.id = id
    BY <1>4
  <1> HIDE DEF b
  <1>8. TypedHMM(h, K)
    BY <1>3, <1>4, <1>5, <1>7 DEF TypedHMM
  <1>9. TypedHMM(b, K)
    BY <1>3, <1>4, <1>6 DEF TypedHMM
  <1> QED
    BY <1>8, <1>9 DEF b, K

LEMMA BuiltTyped == GraphInv /\ BuildUttStateSeq /\ Buildable => TypedHMM(hmm', setup.K)
  <1> SUFFICES ASSUME GraphInv, BuildUttStateSeq, Buildable PROVE TypedHMM(hmm', setup.K)
    OBVIOUS
  <1> DEFINE plan == [k \in DOMAIN Text |-> LexiconLookup(Lexicon, Text[k])]
             g == SplitGraph
             h == StateSeqMakeGraph(g, Cvt2TriphoneGraph(g, inventory.tris), setup.K, setup.tmat)
  <1>1. setup \in Setups /\ utt \in DOMAIN setup.texts
    BY DEF GraphInv
  <1>2. setup.multipron \in BOOLEAN
    BY <1>1, SetupsAssumption
  <1>3. WordPlan(Lexicon, Text, GraphBuilt /\ setup.multipron)
          = WordPlan(Lexicon, Text, setup.multipron)
    <2>1. (GraphBuilt /\ setup.multipron) = setup.multipron
      BY <1>2 DEF GraphBuilt
    <2> QED
      BY <2>1
  <1>4. Pronounced(setup, utt) # <<>>
    BY <1>3 DEF Buildable, Pronounced, Lexicon, Text
  <1>5. g = SplitContexts(MkPhoneGraph(Pronounced(setup, utt)))
    BY DEF SplitGraph
  <1>6. TypedHMM(h, setup.K) /\ TypedHMM(AddBoundaryBypass(h, g), setup.K)
    <2> HIDE DEF g
    <2> QED
      BY <1>1, <1>4, <1>5, GraphTyped
  <1>7. CASE GraphBuilt
    <2>1. hmm' = NextUttStatesGraph(g)
      BY <1>7 DEF BuildUttStateSeq, NextUttStatesGraph
    <2> QED
      BY <1>6, <2>1 DEF NextUttStatesGraph
  <1>8. CASE ~GraphBuilt
    <2>1. hmm' = NextUttStates
      BY <1>8 DEF BuildUttStateSeq
    <2>2. WordPlan(Lexicon, Text, setup.multipron) = plan
      <3>1. setup.multipron = FALSE
        BY <1>2, <1>8 DEF GraphBuilt
      <3>2. WordPlan(Lexicon, Text, FALSE) = plan
        BY DEF WordPlan
      <3> QED
        BY <3>1, <3>2
    <2>3. Expandable(plan) /\ Sounded(plan) # <<>>
      BY <1>3, <2>2 DEF Buildable
    <2>4. Pronounced(setup, utt) = Sounded(plan)
      BY <2>2 DEF Pronounced, Lexicon, Text
    <2>5. plan = [k \in DOMAIN Text |-> LexiconLookup(Lexicon, Text[k])]
      OBVIOUS
    <2>6. Lexicon = LexiconRead(setup.dict) /\ Text = setup.texts[utt]
      BY DEF Lexicon, Text
    <2> HIDE DEF plan
    <2>7. LET f == SplitContexts(MkPhoneGraph(Sounded(plan))) IN
          StateSeqMakeGraph(f, Cvt2TriphoneGraph(f, inventory.tris), setup.K, setup.tmat)
            = StateSeqMake(Cvt2Triphone(MkPhoneList(Lexicon, Text), inventory.tris),
                           setup.K, setup.tmat)
      BY <1>1, <2>3, <2>4, <2>5, <2>6, BuildersMatch
    <2>8. NextUttStates = h
      BY <1>5, <2>4, <2>7 DEF NextUttStates
    <2> QED
      BY <1>6, <2>1, <2>8
  <1> QED
    BY <1>7, <1>8

-----------------------------------------------------------------------------
(* Tables of naturals, and lists without repetition.                       *)

\* Tables of natural numbers over parts of a set, and lists without repetition.
NatTables(S) == UNION {[D -> Nat] : D \in SUBSET S}
Listings(S) == {s \in Seq(S) : IsInjective(s)}

LEMMA TableParts ==
    ASSUME NEW S, NEW f \in NatTables(S)
    PROVE  /\ DOMAIN f \in SUBSET S /\ f \in [DOMAIN f -> Nat]
           /\ \A x \in DOMAIN f : f[x] \in Nat
  BY DEF NatTables

LEMMA TableOf ==
    ASSUME NEW S, NEW D \in SUBSET S, NEW f \in [D -> Nat]
    PROVE  f \in NatTables(S)
  BY DEF NatTables

LEMMA NoTable ==
    ASSUME NEW S
    PROVE  <<>> \in NatTables(S)
  <1>1. <<>> \in [{} -> Nat]
    OBVIOUS
  <1> QED
    BY <1>1, TableOf

LEMMA AddedTables ==
    ASSUME NEW S, NEW f \in NatTables(S), NEW g \in NatTables(S)
    PROVE  /\ AddTo(f, g) \in [DOMAIN f \cup DOMAIN g -> Nat]
           /\ AddTo(f, g) \in NatTables(S)
  <1>1. /\ DOMAIN f \in SUBSET S /\ \A x \in DOMAIN f : f[x] \in Nat
        /\ DOMAIN g \in SUBSET S /\ \A x \in DOMAIN g : g[x] \in Nat
    BY TableParts
  <1>2. AddTo(f, g) \in [DOMAIN f \cup DOMAIN g -> Nat]
    BY <1>1 DEF AddTo
  <1>3. DOMAIN f \cup DOMAIN g \in SUBSET S
    BY <1>1
  <1> QED
    BY <1>2, <1>3, TableOf

\* What a listing of chosen positions has.
LEMMA ChosenListing ==
    ASSUME NEW S, NEW s \in Listings(S), NEW at
    PROVE  /\ Chosen(s, at) \in Listings(S)
           /\ Range(Chosen(s, at)) = {s[k] : k \in at \cap (1 .. Len(s))}
  <1> DEFINE c == Chosen(s, at)
  <1>1. s \in Seq(S) /\ IsInjective(s) /\ DOMAIN s = 1 .. Len(s) /\ Len(s) \in Nat
    BY DEF Listings
  <1>2. c \in Seq(S) /\ \E pos : Locates(pos, c, s, at, Len(s))
    BY <1>1, ChosenPositions
  <1> HIDE DEF c
  <1>3. PICK pos : Locates(pos, c, s, at, Len(s))
    BY <1>2
  <1>4. /\ DOMAIN c = 1 .. Len(c) /\ Len(c) \in Nat
        /\ \A i \in 1 .. Len(c) : pos[i] \in at \cap (1 .. Len(s)) /\ c[i] = s[pos[i]]
        /\ \A i, j \in 1 .. Len(c) : i < j => pos[i] < pos[j]
        /\ \A k \in at \cap (1 .. Len(s)) : \E i \in 1 .. Len(c) : pos[i] = k
    <2>1. c \in Seq(S)
      BY <1>2
    <2>2. DOMAIN c = 1 .. Len(c) /\ Len(c) \in Nat
      BY <2>1
    <2> QED
      BY <1>3, <2>2 DEF Locates
  <1>5. ASSUME NEW i \in 1 .. Len(c), NEW j \in 1 .. Len(c), c[i] = c[j] PROVE i = j
    <2>1. pos[i] = pos[j]
      BY <1>1, <1>4, <1>5 DEF IsInjective
    <2>2. pos[i] \in 1 .. Len(s) /\ pos[j] \in 1 .. Len(s)
      BY <1>4
    <2>3. ~(i < j) /\ ~(j < i)
      BY <1>1, <1>4, <2>1, <2>2
    <2> QED
      BY <1>4, <2>3
  <1>6. IsInjective(c)
    BY <1>4, <1>5 DEF IsInjective
  <1>7. Range(c) = {s[k] : k \in at \cap (1 .. Len(s))}
    <2>1. ASSUME NEW x \in Range(c) PROVE x \in {s[k] : k \in at \cap (1 .. Len(s))}
      <3>1. PICK i \in 1 .. Len(c) : x = c[i]
        BY <1>4 DEF Range
      <3> QED
        BY <1>4, <3>1
    <2>2. ASSUME NEW k \in at \cap (1 .. Len(s)) PROVE s[k] \in Range(c)
      <3>1. PICK i \in 1 .. Len(c) : pos[i] = k
        BY <1>4
      <3> QED
        BY <1>4, <3>1 DEF Range
    <2> QED
      BY <2>1, <2>2
  <1> QED
    BY <1>2, <1>6, <1>7 DEF Listings, c

LEMMA ConcatListing ==
    ASSUME NEW S, NEW s \in Seq(S), NEW t \in Seq(S)
    PROVE  /\ s \o t \in Seq(S) /\ Range(s \o t) = Range(s) \cup Range(t)
           /\ IsInjective(s) /\ IsInjective(t) /\ Range(s) \cap Range(t) = {} => IsInjective(s \o t)
  <1> DEFINE a == Len(s)
             b == Len(t)
             c == s \o t
  <1>1. a \in Nat /\ b \in Nat /\ DOMAIN s = 1 .. a /\ DOMAIN t = 1 .. b
    OBVIOUS
  <1>2. Joins(c, s, t, a, S)
    BY <1>1, PlacedInConcat
  <1> HIDE DEF a, b, c
  <1>3. /\ c \in Seq(S) /\ DOMAIN c = 1 .. a + b
        /\ \A k \in 1 .. a : c[k] = s[k]
        /\ \A p \in 1 .. b : c[a + p] = t[p]
    BY <1>2 DEF Joins, b
  <1>4. \A k \in 1 .. a + b : k \in 1 .. a \/ (k - a \in 1 .. b /\ a + (k - a) = k)
    BY <1>1
  <1>5. \A k \in 1 .. a : k \in 1 .. a + b
    BY <1>1
  <1>6. \A p \in 1 .. b : a + p \in 1 .. a + b
    BY <1>1
  <1>7. Range(c) = Range(s) \cup Range(t)
    <2>1. ASSUME NEW k \in 1 .. a + b PROVE c[k] \in Range(s) \cup Range(t)
      <3>1. CASE k \in 1 .. a
        BY <1>1, <1>3, <3>1 DEF Range
      <3>2. CASE k - a \in 1 .. b /\ a + (k - a) = k
        BY <1>1, <1>3, <3>2 DEF Range
      <3> QED
        BY <1>4, <3>1, <3>2
    <2>2. \A k \in 1 .. a : s[k] \in Range(c)
      BY <1>3, <1>5 DEF Range
    <2>3. \A p \in 1 .. b : t[p] \in Range(c)
      BY <1>3, <1>6 DEF Range
    <2> QED
      BY <1>1, <1>3, <2>1, <2>2, <2>3 DEF Range
  <1>8. ASSUME IsInjective(s), IsInjective(t), Range(s) \cap Range(t) = {} PROVE IsInjective(c)
    <2>1. ASSUME NEW i \in 1 .. a + b, NEW j \in 1 .. a + b, c[i] = c[j] PROVE i = j
      <3>1. CASE i \in 1 .. a /\ j \in 1 .. a
        BY <1>1, <1>3, <1>8, <2>1, <3>1 DEF IsInjective
      <3>2. CASE i \in 1 .. a /\ j \notin 1 .. a
        <4>1. c[i] \in Range(s)
          BY <1>1, <1>3, <3>2 DEF Range
        <4>2. c[j] \in Range(t)
          BY <1>1, <1>3, <1>4, <3>2 DEF Range
        <4> QED
          BY <1>8, <2>1, <4>1, <4>2
      <3>3. CASE i \notin 1 .. a /\ j \in 1 .. a
        <4>1. c[j] \in Range(s)
          BY <1>1, <1>3, <3>3 DEF Range
        <4>2. c[i] \in Range(t)
          BY <1>1, <1>3, <1>4, <3>3 DEF Range
        <4> QED
          BY <1>8, <2>1, <4>1, <4>2
      <3>4. CASE i \notin 1 .. a /\ j \notin 1 .. a
        <4>1. i - a \in 1 .. b /\ j - a \in 1 .. b /\ c[i] = t[i - a] /\ c[j] = t[j - a]
          BY <1>3, <1>4, <3>4
        <4>2. i - a = j - a
          BY <1>1, <1>8, <2>1, <4>1 DEF IsInjective
        <4> QED
          BY <1>1, <4>2
      <3> QED
        BY <3>1, <3>2, <3>3, <3>4
    <2> QED
      BY <1>3, <2>1 DEF IsInjective
  <1> QED
    BY <1>3, <1>7, <1>8 DEF c

\* The states of a set in their order, and a list with those it does not have.
LEMMA AscendingListing ==
    ASSUME FinalState \in Nat, NEW S \in SUBSET States(hmm)
    PROVE  Ascending(S) \in Listings(States(hmm)) /\ Range(Ascending(S)) = S
  <1> DEFINE all == [k \in 1 .. FinalState |-> k]
             T == States(hmm)
  <1>1. T = 1 .. FinalState
    BY DEF States, FinalState
  <1> HIDE DEF T
  <1>2. all \in [1 .. FinalState -> T]
    BY <1>1
  <1>3. all \in Seq(T) /\ Len(all) = FinalState /\ DOMAIN all = 1 .. FinalState
    BY <1>2, AsSeq
  <1>4. all \in Listings(T)
    BY <1>3 DEF Listings, IsInjective
  <1>5. Ascending(S) = Chosen(all, S)
    BY DEF Ascending
  <1>6. \A k \in 1 .. FinalState : all[k] = k
    OBVIOUS
  <1> HIDE DEF all
  <1>7. Ascending(S) \in Listings(T) /\ Range(Ascending(S)) = {all[k] : k \in S \cap (1 .. Len(all))}
    BY <1>4, <1>5, ChosenListing
  <1>8. {all[k] : k \in S \cap (1 .. Len(all))} = S
    BY <1>1, <1>3, <1>6 DEF T
  <1> QED
    BY <1>7, <1>8 DEF T

LEMMA AppendNewListing ==
    ASSUME FinalState \in Nat, NEW list \in Listings(States(hmm)), NEW S \in SUBSET States(hmm)
    PROVE  /\ AppendNew(list, S) \in Listings(States(hmm))
           /\ Range(AppendNew(list, S)) = Range(list) \cup S
  <1> DEFINE T == States(hmm)
             new == S \ Range(list)
             tail == Ascending(new)
  <1>1. new \in SUBSET T
    OBVIOUS
  <1>2. tail \in Listings(T) /\ Range(tail) = new
    <2> HIDE DEF new
    <2> QED
      BY <1>1, AscendingListing
  <1>3. Range(list) \cap Range(tail) = {}
    BY <1>2
  <1>4. AppendNew(list, S) = list \o tail
    BY DEF AppendNew
  <1>5. list \in Seq(T) /\ tail \in Seq(T) /\ IsInjective(list) /\ IsInjective(tail)
    BY <1>2 DEF Listings
  <1>6. Range(list) \cup Range(tail) = Range(list) \cup S
    BY <1>2
  <1> HIDE DEF T, tail
  <1>7. /\ list \o tail \in Seq(T) /\ Range(list \o tail) = Range(list) \cup Range(tail)
        /\ IsInjective(list \o tail)
    BY <1>3, <1>5, ConcatListing
  <1> QED
    BY <1>4, <1>6, <1>7 DEF Listings, T

\* An iteration as the function that a recursive definition asks for.
LEMMA IterationUnfolds ==
    ASSUME NEW n \in Nat, NEW S, NEW base, NEW step, NEW f, Iterates(f, n, S, base, step)
    PROVE  f = [k \in 0 .. n |-> IF k = 0 THEN base ELSE step[k][f[k - 1]]]
  <1> DEFINE g == [k \in 0 .. n |-> IF k = 0 THEN base ELSE step[k][f[k - 1]]]
  <1>1. /\ f \in [0 .. n -> S] /\ f[0] = base
        /\ \A i \in 1 .. n : f[i] = step[i][f[i - 1]]
    BY DEF Iterates
  <1>2. ASSUME NEW k \in 0 .. n PROVE f[k] = g[k]
    <2>1. CASE k = 0
      BY <1>1, <2>1
    <2>2. CASE k # 0
      <3>1. k \in 1 .. n
        BY <2>2
      <3> QED
        BY <1>1, <2>2, <3>1
    <2> QED
      BY <2>1, <2>2
  <1> QED
    BY <1>1, <1>2

-----------------------------------------------------------------------------
(* What the forward pass makes of a frame.                                 *)

\* What the passes find while they score the utterance at hand.
Scorable ==
  /\ setup \in Setups /\ utt \in DOMAIN setup.texts /\ Frames \in Nat \ {0}
  /\ TypedHMM(hmm, setup.K) /\ Weighted(hmm)
  /\ heard \in [1 .. Frames -> setup.hears]

\* The shape of an HMM that can be scored.
Shaped ==
  /\ FinalState \in Nat \ {0} /\ States(hmm) = 1 .. FinalState
  /\ FinalState \in States(hmm) /\ IsFiniteSet(States(hmm)) /\ 1 \in States(hmm)
  /\ Numbered(hmm, setup.K, Len(hmm.id))
  /\ \A s \in States(hmm) : \A t \in DOMAIN hmm.next[s] : t \in States(hmm) /\ hmm.next[s][t] \in Nat
  /\ \A s \in States(hmm) : \A t \in DOMAIN hmm.prior[s] : t \in States(hmm) /\ hmm.prior[s][t] \in Nat

LEMMA ScorableIsShaped == Scorable => Shaped
  <1> SUFFICES ASSUME Scorable PROVE Shaped
    OBVIOUS
  <1> DEFINE n == Len(hmm.id)
             K == setup.K
  <1>1. /\ hmm.K = K /\ K \in Nat \ {0} /\ n \in Nat \ {0}
        /\ NatArcs(hmm) /\ Mirrored(hmm)
    BY DEF Scorable, TypedHMM, Weighted
  <1>2. Numbered(hmm, K, n)
    BY <1>1, StatesNumbered
  <1>3. States(hmm) = 1 .. FinalState /\ FinalState = n * (K + 1)
    BY <1>1 DEF States, FinalState, Width
  <1> HIDE DEF n, K
  <1>4. FinalState \in Nat \ {0}
    <2>1. n * (K + 1) \in Nat /\ (K + 1) * n \in Nat
      BY <1>1
    <2>2. Entry(K, 1) + 0 \in States(hmm)
      <3>1. 1 \in 1 .. n /\ 0 \in 0 .. K
        BY <1>1
      <3> QED
        BY <1>2, <3>1 DEF Numbered
    <2>3. FinalState \in Nat
      BY <1>3, <2>1
    <2> QED
      BY <1>3, <2>2, <2>3
  <1>5. FinalState \in States(hmm) /\ 1 \in States(hmm)
    BY <1>3, <1>4
  <1>6. \A s \in States(hmm) : \A t \in DOMAIN hmm.next[s] : t \in States(hmm) /\ hmm.next[s][t] \in Nat
    BY <1>1 DEF NatArcs, Mirrored
  <1>7. ASSUME NEW s \in States(hmm), NEW t \in DOMAIN hmm.prior[s]
        PROVE  t \in States(hmm) /\ hmm.prior[s][t] \in Nat
    <2>1. t \in States(hmm) /\ s \in DOMAIN hmm.next[t]
      BY <1>1, <1>7 DEF Mirrored
    <2>2. hmm.prior[s][t] = hmm.next[t][s]
      BY <1>1, <2>1 DEF Mirrored
    <2> QED
      BY <1>6, <2>1, <2>2
  <1>8. IsFiniteSet(States(hmm))
    BY <1>2 DEF Numbered
  <1> QED
    BY <1>2, <1>3, <1>4, <1>5, <1>6, <1>7, <1>8 DEF Shaped, n, K

LEMMA ThroughIsNat ==
    ASSUME NEW a \in Nat, NEW w \in Nat
    PROVE  Through(a, w) \in Nat
  <1>1. a * w \in Nat
    OBVIOUS
  <1> DEFINE p == a * w
  <1> HIDE DEF p
  <1>2. p \div One \in Nat
    BY <1>1, QuotientIsNat, OneAssumption DEF p
  <1> QED
    BY <1>2 DEF Through, p

LEMMA CountIsNat ==
    ASSUME NEW a \in Nat, NEW w \in Nat
    PROVE  Count(a, w) \in Nat
  <1>1. a * w \in Nat
    OBVIOUS
  <1> DEFINE p == a * w
  <1> HIDE DEF p
  <1>2. p \div Unit \in Nat
    BY <1>1, QuotientIsNat, ScoresAssumption DEF p
  <1> QED
    BY <1>2 DEF Count, p

LEMMA ScoredIsNat ==
    ASSUME Scorable, NEW t \in 1 .. Frames, NEW s
    PROVE  Scored(t, s) \in Nat
  <1>1. heard[t] \in setup.hears /\ setup \in Setups
    BY DEF Scorable
  <1>2. heard[t].density \in Nat
    BY <1>1, ScoresAssumption
  <1> QED
    BY <1>2 DEF Scored, Density

LEMMA NextOfState ==
    ASSUME Shaped, NEW s \in States(hmm)
    PROVE  DOMAIN hmm.next[s] \in SUBSET States(hmm) /\ EmittingNext(s) \in SUBSET States(hmm)
           /\ DOMAIN hmm.next[s] \ EmittingNext(s) \in SUBSET States(hmm)
  BY DEF Shaped, EmittingNext

\* What the forward pass keeps of a frame.
Scorings ==
  {f \in [active : Listings(States(hmm)), alpha : NatTables(States(hmm))] :
     Range(f.active) = DOMAIN f.alpha}

\* The list of the emitting states that follow is one without repetition.
LEMMA ActivatedListing ==
    ASSUME Shaped, NEW f \in Scorings
    PROVE  Activate(f) \in Listings(States(hmm))
  <1> DEFINE n == Len(f.active)
             S == Listings(States(hmm))
             Body(k, x) == AppendNew(x, EmittingNext(f.active[k]))
             upTo[k \in 0 .. n] == IF k = 0 THEN <<>> ELSE Body(k, upTo[k - 1])
             step == [k \in 1 .. n |-> [x \in S |-> Body(k, x)]]
  <1>1. Activate(f) = upTo[n]
    BY DEF Activate
  <1>2. n \in Nat /\ \A k \in 1 .. n : f.active[k] \in States(hmm)
    <2>1. f.active \in Seq(States(hmm))
      BY DEF Scorings, Listings
    <2> QED
      BY <2>1
  <1>3. <<>> \in S
    <2>1. <<>> \in Seq(States(hmm)) /\ IsInjective(<<>>)
      BY DEF IsInjective
    <2> QED
      BY <2>1 DEF Listings
  <1>4. ASSUME NEW k \in 1 .. n, NEW x \in S PROVE Body(k, x) \in S
    <2> DEFINE E == EmittingNext(f.active[k])
    <2>1. FinalState \in Nat
      BY DEF Shaped
    <2>2. E \in SUBSET States(hmm)
      BY <1>2, NextOfState
    <2> HIDE DEF E
    <2>3. AppendNew(x, E) \in S
      BY <2>1, <2>2, AppendNewListing
    <2> QED
      BY <2>3 DEF E
  <1> HIDE DEF S, n, Body
  <1>5. step \in [1 .. n -> [S -> S]]
    BY <1>4
  <1>6. \A k \in 1 .. n : \A x \in S : step[k][x] = Body(k, x)
    OBVIOUS
  <1> HIDE DEF step
  <1>7. PICK r : Iterates(r, n, S, <<>>, step)
    BY <1>2, <1>3, <1>5, Iteration
  <1>8. r = [k \in 0 .. n |-> IF k = 0 THEN <<>> ELSE Body(k, r[k - 1])]
    <2>1. r = [k \in 0 .. n |-> IF k = 0 THEN <<>> ELSE step[k][r[k - 1]]]
      BY <1>2, <1>7, IterationUnfolds
    <2>2. ASSUME NEW k \in 0 .. n, k # 0 PROVE step[k][r[k - 1]] = Body(k, r[k - 1])
      <3>1. k \in 1 .. n /\ k - 1 \in 0 .. n
        BY <1>2, <2>2
      <3>2. r[k - 1] \in S
        BY <1>7, <3>1 DEF Iterates
      <3> QED
        BY <1>6, <3>1, <3>2
    <2> QED
      BY <2>1, <2>2
  <1>9. upTo = [k \in 0 .. n |-> IF k = 0 THEN <<>> ELSE Body(k, upTo[k - 1])]
    BY <1>8
  <1> HIDE DEF upTo
  <1> DEFINE P == {k \in 0 .. n : upTo[k] \in S}
  <1>10. 0 \in P
    BY <1>2, <1>3, <1>9
  <1>11. ASSUME NEW k \in 1 .. n, k - 1 \in P PROVE k \in P
    <2>1. k \in 0 .. n /\ k # 0 /\ upTo[k - 1] \in S
      BY <1>2, <1>11
    <2>2. upTo[k] = Body(k, upTo[k - 1])
      BY <1>9, <2>1
    <2> QED
      BY <1>4, <2>1, <2>2
  <1> HIDE DEF P
  <1>12. n \in P
    BY <1>2, <1>10, <1>11, UpFromZero
  <1> QED
    BY <1>1, <1>12 DEF P, S

LEMMA ScoringParts ==
    ASSUME NEW f \in Scorings
    PROVE  /\ f.active \in Listings(States(hmm)) /\ f.active \in Seq(States(hmm))
           /\ Len(f.active) \in Nat /\ DOMAIN f.active = 1 .. Len(f.active)
           /\ f.alpha \in NatTables(States(hmm)) /\ DOMAIN f.alpha \in SUBSET States(hmm)
           /\ \A x \in DOMAIN f.alpha : f.alpha[x] \in Nat
           /\ \A k \in 1 .. Len(f.active) : f.active[k] \in DOMAIN f.alpha
           /\ Range(f.active) = DOMAIN f.alpha
  <1>1. /\ f.active \in Listings(States(hmm)) /\ f.alpha \in NatTables(States(hmm))
        /\ Range(f.active) = DOMAIN f.alpha
    BY DEF Scorings
  <1>2. f.active \in Seq(States(hmm))
    BY <1>1 DEF Listings
  <1>3. Len(f.active) \in Nat /\ DOMAIN f.active = 1 .. Len(f.active)
    BY <1>2
  <1>4. DOMAIN f.alpha \in SUBSET States(hmm) /\ \A x \in DOMAIN f.alpha : f.alpha[x] \in Nat
    BY <1>1, TableParts
  <1> QED
    BY <1>1, <1>2, <1>3, <1>4 DEF Range

LEMMA ScoringOf ==
    ASSUME NEW list \in Listings(States(hmm)), NEW alpha \in NatTables(States(hmm)),
           Range(list) = DOMAIN alpha
    PROVE  [active |-> list, alpha |-> alpha] \in Scorings
  BY DEF Scorings

\* The alpha of an emitting state.
LEMMA AlphaIsNat ==
    ASSUME Scorable, Shaped, NEW f \in Scorings, NEW t \in 1 .. Frames, NEW j
    PROVE  Alpha(f, t, j) \in Nat
  <1> DEFINE D == {x \in DOMAIN f.alpha : j \in DOMAIN hmm.next[x]}
             g == [i \in D |-> Through(f.alpha[i], hmm.next[i][j])]
  <1>1. D \in SUBSET States(hmm) /\ \A i \in D : f.alpha[i] \in Nat
    BY ScoringParts
  <1>2. IsFiniteSet(D)
    BY <1>1, FS_Subset DEF Shaped
  <1>3. ASSUME NEW i \in D PROVE Through(f.alpha[i], hmm.next[i][j]) \in Nat
    <2>1. hmm.next[i][j] \in Nat
      BY <1>1, <1>3 DEF Shaped
    <2> QED
      BY <1>1, <2>1, ThroughIsNat
  <1>4. g \in [D -> Nat]
    BY <1>3
  <1>5. Alpha(f, t, j) = Scored(t, j) * SumFunction(g)
    BY DEF Alpha
  <1> HIDE DEF g, D
  <1>6. SumFunction(g) \in Nat
    BY <1>2, <1>4, SumIsNat
  <1>7. Scored(t, j) \in Nat
    BY ScoredIsNat
  <1> QED
    BY <1>5, <1>6, <1>7

\* One step of Consume.
Consumed(k, f) ==
  LET i == f.active[k]
      quiet == DOMAIN hmm.next[i] \ EmittingNext(i)
  IN  IF k > Len(f.active) THEN f
      ELSE [active |-> AppendNew(f.active, quiet),
            alpha  |-> AddTo(f.alpha, [j \in quiet |-> Through(f.alpha[i], hmm.next[i][j])])]

LEMMA ConsumedScoring ==
    ASSUME Shaped, NEW f \in Scorings, NEW k \in Nat \ {0}
    PROVE  Consumed(k, f) \in Scorings
  <1> DEFINE i == f.active[k]
             quiet == DOMAIN hmm.next[i] \ EmittingNext(i)
             more == [j \in quiet |-> Through(f.alpha[i], hmm.next[i][j])]
             T == States(hmm)
  <1>1. CASE k > Len(f.active)
    BY <1>1 DEF Consumed
  <1>2. CASE ~(k > Len(f.active))
    <2>1. /\ f.active \in Listings(T) /\ f.alpha \in NatTables(T)
          /\ Range(f.active) = DOMAIN f.alpha
          /\ k \in 1 .. Len(f.active) /\ i \in DOMAIN f.alpha
          /\ i \in T /\ f.alpha[i] \in Nat
      BY <1>2, ScoringParts
    <2>2. quiet \in SUBSET T
      BY <2>1, NextOfState
    <2>3. ASSUME NEW j \in quiet PROVE Through(f.alpha[i], hmm.next[i][j]) \in Nat
      <3>1. hmm.next[i][j] \in Nat
        BY <2>1, <2>3 DEF Shaped
      <3> QED
        BY <2>1, <3>1, ThroughIsNat
    <2>4. Consumed(k, f) = [active |-> AppendNew(f.active, quiet), alpha |-> AddTo(f.alpha, more)]
      BY <1>2 DEF Consumed
    <2> HIDE DEF i, quiet
    <2>5. more \in [quiet -> Nat] /\ DOMAIN more = quiet
      BY <2>3 DEF i
    <2> HIDE DEF more
    <2>6. more \in NatTables(T)
      BY <2>2, <2>5, TableOf
    <2>7. /\ AddTo(f.alpha, more) \in NatTables(T)
          /\ DOMAIN AddTo(f.alpha, more) = DOMAIN f.alpha \cup quiet
      <3>1. /\ AddTo(f.alpha, more) \in [DOMAIN f.alpha \cup DOMAIN more -> Nat]
            /\ AddTo(f.alpha, more) \in NatTables(T)
        BY <2>1, <2>6, AddedTables
      <3> QED
        BY <2>5, <3>1
    <2>8. /\ AppendNew(f.active, quiet) \in Listings(T)
          /\ Range(AppendNew(f.active, quiet)) = Range(f.active) \cup quiet
      BY <2>1, <2>2, AppendNewListing DEF Shaped
    <2> QED
      BY <2>1, <2>4, <2>7, <2>8, ScoringOf
  <1> QED
    BY <1>1, <1>2

LEMMA ConsumedAll ==
    ASSUME Shaped, NEW list, NEW alpha, [active |-> list, alpha |-> alpha] \in Scorings
    PROVE  Consume(list, alpha) \in Scorings
  <1> DEFINE n == FinalState
             S == Scorings
             base == [active |-> list, alpha |-> alpha]
             run[k \in 0 .. FinalState] ==
               IF k = 0 THEN [active |-> list, alpha |-> alpha]
               ELSE LET f == run[k - 1]
                        i == f.active[k]
                        quiet == DOMAIN hmm.next[i] \ EmittingNext(i)
                    IN  IF k > Len(f.active) THEN f
                        ELSE [active |-> AppendNew(f.active, quiet),
                              alpha  |-> AddTo(f.alpha,
                                           [j \in quiet |-> Through(f.alpha[i], hmm.next[i][j])])]
             step == [k \in 1 .. n |-> [x \in S |-> Consumed(k, x)]]
  <1>1. Consume(list, alpha) = run[n]
    BY DEF Consume
  <1>2. n \in Nat /\ base \in S
    BY DEF Shaped
  <1>3. ASSUME NEW k \in 1 .. n, NEW x \in S PROVE Consumed(k, x) \in S
    <2>1. k \in Nat \ {0}
      BY <1>2
    <2> QED
      BY <2>1, ConsumedScoring
  <1> HIDE DEF S
  <1>5. step \in [1 .. n -> [S -> S]]
    BY <1>3
  <1>6. \A k \in 1 .. n : \A x \in S : step[k][x] = Consumed(k, x)
    OBVIOUS
  <1> HIDE DEF step
  <1>7. PICK r : Iterates(r, n, S, base, step)
    <2> HIDE DEF base, n
    <2> QED
      BY <1>2, <1>5, Iteration
  <1>8. r = [k \in 0 .. n |-> IF k = 0 THEN base ELSE Consumed(k, r[k - 1])]
    <2> HIDE DEF base, n
    <2>1. r = [k \in 0 .. n |-> IF k = 0 THEN base ELSE step[k][r[k - 1]]]
      BY <1>2, <1>7, IterationUnfolds
    <2>2. ASSUME NEW k \in 0 .. n, k # 0 PROVE step[k][r[k - 1]] = Consumed(k, r[k - 1])
      <3>1. k \in 1 .. n /\ k - 1 \in 0 .. n
        BY <1>2, <2>2
      <3>2. r[k - 1] \in S
        BY <1>7, <3>1 DEF Iterates
      <3> QED
        BY <1>6, <3>1, <3>2
    <2> QED
      BY <2>1, <2>2
  <1>9. run = [k \in 0 .. n |-> IF k = 0 THEN base ELSE Consumed(k, run[k - 1])]
    BY <1>8 DEF Consumed
  <1> HIDE DEF run, base, n
  <1> DEFINE P == {k \in 0 .. n : run[k] \in S}
  <1>10. 0 \in P
    BY <1>2, <1>9
  <1>11. ASSUME NEW k \in 1 .. n, k - 1 \in P PROVE k \in P
    <2>1. k \in 0 .. n /\ k # 0 /\ run[k - 1] \in S
      BY <1>2, <1>11
    <2>2. run[k] = Consumed(k, run[k - 1])
      BY <1>9, <2>1
    <2> QED
      BY <1>3, <2>1, <2>2
  <1> HIDE DEF P
  <1>12. n \in P
    BY <1>2, <1>10, <1>11, UpFromZero
  <1> QED
    BY <1>1, <1>12 DEF P, S

\* The largest number of a finite set.
LEMMA MaxIn ==
    ASSUME NEW D \in SUBSET Nat, IsFiniteSet(D), D # {}
    PROVE  Max(D) \in D
  <1> DEFINE P == {s \in SUBSET D : s # {} => \E x \in s : \A y \in s : x >= y}
  <1>1. {} \in P
    OBVIOUS
  <1>2. ASSUME NEW s \in SUBSET D, s # {}, \A x \in s : s \ {x} \in P PROVE s \in P
    <2>1. PICK x \in s : TRUE
      BY <1>2
    <2>2. CASE s \ {x} = {}
      BY <2>1, <2>2
    <2>3. CASE s \ {x} # {}
      <3>1. PICK z \in s \ {x} : \A y \in s \ {x} : z >= y
        BY <1>2, <2>1, <2>3
      <3>2. x \in Nat /\ z \in Nat /\ \A y \in s : y \in Nat
        BY <1>2, <2>1, <3>1
      <3>3. CASE x >= z
        BY <2>1, <3>1, <3>2, <3>3
      <3>4. CASE ~(x >= z)
        BY <2>1, <3>1, <3>2, <3>4
      <3> QED
        BY <3>3, <3>4
    <2> QED
      BY <2>2, <2>3
  <1> HIDE DEF P
  <1>3. D \in P
    BY <1>1, <1>2, SubsetInduction
  <1>4. \E x \in D : \A y \in D : x >= y
    BY <1>3 DEF P
  <1> QED
    BY <1>4 DEF Max

LEMMA BestIsNat ==
    ASSUME Shaped, NEW f \in Scorings
    PROVE  Max({0} \cup Range(f.alpha)) \in Nat
  <1> DEFINE D == DOMAIN f.alpha
             R == {f.alpha[x] : x \in D}
  <1>1. D \in SUBSET States(hmm) /\ \A x \in D : f.alpha[x] \in Nat
    BY ScoringParts
  <1>2. IsFiniteSet(D)
    BY <1>1, FS_Subset DEF Shaped
  <1>3. Range(f.alpha) = R /\ R \in SUBSET Nat
    BY <1>1 DEF Range
  <1> DEFINE g == [x \in D |-> f.alpha[x]]
  <1>g. g \in Surjection(D, R)
    BY DEF Surjection
  <1> HIDE DEF D, g, R
  <1>4. IsFiniteSet(R)
    BY <1>2, <1>g, FS_Surjection
  <1>5. IsFiniteSet({0} \cup R)
    <2>1. IsFiniteSet({0})
      BY FS_Singleton
    <2> QED
      BY <1>4, <2>1, FS_Union
  <1>6. {0} \cup R \in SUBSET Nat /\ {0} \cup R # {}
    BY <1>3
  <1>7. Max({0} \cup R) \in {0} \cup R
    BY <1>5, <1>6, MaxIn
  <1> QED
    BY <1>3, <1>6, <1>7

\* What is kept has an alpha.
Positive(f) == \A x \in DOMAIN f.alpha : f.alpha[x] # 0

LEMMA PrunedScoring ==
    ASSUME Scorable, Shaped, NEW f \in Scorings, NEW best \in Nat
    PROVE  Prune(f, best) \in Scorings /\ Positive(Prune(f, best))
  <1> DEFINE at == {k \in DOMAIN f.active : Kept(f.alpha[f.active[k]], best, ForwardBeam)}
             kept == Chosen(f.active, at)
             alpha == [s \in Range(kept) |-> f.alpha[s]]
             T == States(hmm)
  <1>1. /\ f.active \in Listings(T) /\ DOMAIN f.active = 1 .. Len(f.active)
        /\ DOMAIN f.alpha \in SUBSET T /\ \A x \in DOMAIN f.alpha : f.alpha[x] \in Nat
        /\ \A k \in 1 .. Len(f.active) : f.active[k] \in DOMAIN f.alpha
    BY ScoringParts
  <1>2. \A k \in at : Kept(f.alpha[f.active[k]], best, ForwardBeam)
    OBVIOUS
  <1>3. Prune(f, best) = [active |-> kept, alpha |-> alpha]
    BY DEF Prune
  <1> HIDE DEF at
  <1>4. kept \in Listings(T) /\ Range(kept) = {f.active[k] : k \in at \cap (1 .. Len(f.active))}
    BY <1>1, ChosenListing
  <1> HIDE DEF kept
  <1>5. ForwardBeam \in Nat
    BY ScoresAssumption DEF Scorable, ForwardBeam
  <1>6. ASSUME NEW x \in Range(kept)
        PROVE  x \in T /\ f.alpha[x] \in Nat /\ f.alpha[x] # 0
    <2>1. PICK k \in at \cap (1 .. Len(f.active)) : x = f.active[k]
      BY <1>4
    <2>2. x \in DOMAIN f.alpha /\ f.alpha[x] \in Nat /\ x \in T
      BY <1>1, <2>1
    <2>3. Kept(f.alpha[x], best, ForwardBeam)
      BY <1>2, <2>1
    <2> DEFINE v == f.alpha[x]
               beam == ForwardBeam
    <2> HIDE DEF v, beam
    <2>4. IF beam = 0 THEN v > 0 ELSE v * beam > best
      BY <2>3 DEF Kept, v, beam
    <2>5. v \in Nat /\ beam \in Nat
      BY <1>5, <2>2 DEF v, beam
    <2>6. v # 0
      <3>1. v = 0 => v * beam = 0
        BY <2>5
      <3> QED
        BY <2>4, <2>5, <3>1
    <2> QED
      BY <2>2, <2>6 DEF v
  <1>7. alpha \in [Range(kept) -> Nat] /\ Range(kept) \in SUBSET T
    BY <1>6
  <1>8. DOMAIN alpha = Range(kept) /\ \A x \in DOMAIN alpha : alpha[x] # 0
    BY <1>6
  <1> HIDE DEF alpha
  <1>9. alpha \in NatTables(T)
    BY <1>7, TableOf
  <1> DEFINE p == Prune(f, best)
  <1>10. p \in Scorings
    BY <1>3, <1>4, <1>8, <1>9, ScoringOf
  <1>11. p.alpha = alpha
    BY <1>3
  <1> HIDE DEF p
  <1>12. Positive(p)
    BY <1>8, <1>11 DEF Positive
  <1> QED
    BY <1>10, <1>12 DEF p

-----------------------------------------------------------------------------
(* What the backward pass makes of a frame.                                *)

\* What the backward pass knows of a frame.
Sounding(f) == {i \in DOMAIN f.alpha : Emitting(hmm, i)}
ArcTables == NatTables(States(hmm) \X States(hmm))
Backs(f) ==
  [beta : [States(hmm) -> Nat], arcs : ArcTables, active : SUBSET Sounding(f)]
Retreats(f) == [list : Seq(States(hmm)), at : Backs(f)]

\* One step of Retreat.
Retreated(f, k, r) ==
  LET j == r.list[k]
      from == Reached(f, j)
      waiting == SubSeq(r.list, k + 1, Len(r.list))
      quiet == {i \in from : ~Emitting(hmm, i)} \ Range(waiting)
      beta == [i \in from |-> Through(r.at.beta[j], hmm.prior[j][i])]
  IN  IF k > Len(r.list) THEN r
      ELSE [list |-> r.list \o Ascending(quiet),
            at   |-> [beta   |-> AddTo(r.at.beta, beta),
                      arcs   |-> AddTo(r.at.arcs, [e \in from \X {j} |->
                                   Count(f.alpha[e[1]], beta[e[1]])]),
                      active |-> r.at.active \cup {i \in from : Emitting(hmm, i)}]]

LEMMA RetreatOf ==
    ASSUME NEW f, NEW list \in Seq(States(hmm)), NEW beta \in [States(hmm) -> Nat],
           NEW arcs \in ArcTables, NEW active \in SUBSET Sounding(f)
    PROVE  [list |-> list, at |-> [beta |-> beta, arcs |-> arcs, active |-> active]] \in Retreats(f)
  BY DEF Retreats, Backs

LEMMA RetreatParts ==
    ASSUME NEW f, NEW r \in Retreats(f)
    PROVE  /\ r.list \in Seq(States(hmm)) /\ r.at \in Backs(f)
           /\ r.at.beta \in [States(hmm) -> Nat] /\ r.at.arcs \in ArcTables
           /\ r.at.active \in SUBSET Sounding(f)
  BY DEF Retreats, Backs

LEMMA RetreatedOnce ==
    ASSUME Shaped, NEW f \in Scorings, NEW r \in Retreats(f), NEW k \in Nat \ {0}
    PROVE  Retreated(f, k, r) \in Retreats(f)
  <1> DEFINE T == States(hmm)
             j == r.list[k]
             from == Reached(f, j)
             waiting == SubSeq(r.list, k + 1, Len(r.list))
             quiet == {i \in from : ~Emitting(hmm, i)} \ Range(waiting)
             beta == [i \in from |-> Through(r.at.beta[j], hmm.prior[j][i])]
             arcs == [e \in from \X {j} |-> Count(f.alpha[e[1]], beta[e[1]])]
             more == {i \in from : Emitting(hmm, i)}
  <1>1. CASE k > Len(r.list)
    BY <1>1 DEF Retreated
  <1>2. CASE ~(k > Len(r.list))
    <2>1. /\ r.list \in Seq(T) /\ r.at.beta \in [T -> Nat] /\ r.at.arcs \in ArcTables
          /\ r.at.active \in SUBSET Sounding(f)
      BY RetreatParts
    <2>2. j \in T
      BY <1>2, <2>1
    <2>3. /\ DOMAIN f.alpha \in SUBSET T /\ \A x \in DOMAIN f.alpha : f.alpha[x] \in Nat
      BY ScoringParts
    <2>4. from \in SUBSET T /\ from \in SUBSET DOMAIN f.alpha /\ from \in SUBSET DOMAIN hmm.prior[j]
      BY <2>3 DEF Reached
    <2>5. quiet \in SUBSET T /\ more \in SUBSET Sounding(f)
      BY <2>4 DEF Sounding
    <2>6. Retreated(f, k, r)
            = [list |-> r.list \o Ascending(quiet),
               at   |-> [beta   |-> AddTo(r.at.beta, beta),
                         arcs   |-> AddTo(r.at.arcs, arcs),
                         active |-> r.at.active \cup more]]
      BY <1>2 DEF Retreated
    <2> HIDE DEF quiet, more
    <2>7. ASSUME NEW i \in from PROVE Through(r.at.beta[j], hmm.prior[j][i]) \in Nat
      <3>1. hmm.prior[j][i] \in Nat
        BY <2>2, <2>4, <2>7 DEF Shaped
      <3>2. r.at.beta[j] \in Nat
        BY <2>1, <2>2
      <3> QED
        BY <3>1, <3>2, ThroughIsNat
    <2> HIDE DEF from, j
    <2>8. beta \in [from -> Nat] /\ DOMAIN beta = from
      BY <2>7
    <2> HIDE DEF beta
    <2>9. ASSUME NEW e \in from \X {j} PROVE Count(f.alpha[e[1]], beta[e[1]]) \in Nat
      <3>1. e[1] \in from
        BY <2>9
      <3>2. f.alpha[e[1]] \in Nat /\ beta[e[1]] \in Nat
        BY <2>3, <2>4, <2>8, <3>1
      <3> QED
        BY <3>2, CountIsNat
    <2>10. arcs \in [from \X {j} -> Nat]
      BY <2>9
    <2> HIDE DEF arcs
    <2>11. from \X {j} \in SUBSET (T \X T)
      BY <2>2, <2>4
    <2>12. arcs \in ArcTables
      BY <2>10, <2>11, TableOf DEF ArcTables
    <2>13. AddTo(r.at.arcs, arcs) \in ArcTables
      BY <2>1, <2>12, AddedTables DEF ArcTables
    <2>14. AddTo(r.at.beta, beta) \in [T -> Nat]
      <3>1. r.at.beta \in NatTables(T) /\ beta \in NatTables(T)
        BY <2>1, <2>4, <2>8, TableOf
      <3>2. AddTo(r.at.beta, beta) \in [DOMAIN r.at.beta \cup DOMAIN beta -> Nat]
        BY <3>1, AddedTables
      <3>3. DOMAIN r.at.beta \cup DOMAIN beta = T
        BY <2>1, <2>4, <2>8
      <3> QED
        BY <3>2, <3>3
    <2>15. r.list \o Ascending(quiet) \in Seq(T)
      <3>1. Ascending(quiet) \in Seq(T)
        <4>1. Ascending(quiet) \in Listings(T)
          BY <2>5, AscendingListing DEF Shaped
        <4> QED
          BY <4>1 DEF Listings
      <3> QED
        BY <2>1, <3>1
    <2>16. r.at.active \cup more \in SUBSET Sounding(f)
      BY <2>1, <2>5
    <2> DEFINE list2 == r.list \o Ascending(quiet)
               beta2 == AddTo(r.at.beta, beta)
               arcs2 == AddTo(r.at.arcs, arcs)
               active2 == r.at.active \cup more
    <2>17. Retreated(f, k, r)
             = [list |-> list2, at |-> [beta |-> beta2, arcs |-> arcs2, active |-> active2]]
      BY <2>6
    <2> HIDE DEF list2, beta2, arcs2, active2
    <2>18. /\ list2 \in Seq(T) /\ beta2 \in [T -> Nat] /\ arcs2 \in ArcTables
           /\ active2 \in SUBSET Sounding(f)
      BY <2>13, <2>14, <2>15, <2>16 DEF list2, beta2, arcs2, active2
    <2>19. [list |-> list2, at |-> [beta |-> beta2, arcs |-> arcs2, active |-> active2]]
             \in Retreats(f)
      BY <2>18, RetreatOf
    <2> QED
      BY <2>17, <2>19
  <1> QED
    BY <1>1, <1>2

LEMMA RetreatBacks ==
    ASSUME Shaped, NEW f \in Scorings, NEW list \in Seq(States(hmm)), NEW at \in Backs(f)
    PROVE  Retreat(f, list, at) \in Backs(f)
  <1> DEFINE n == FinalState
             S == Retreats(f)
             base == [list |-> list, at |-> at]
             run[k \in 0 .. FinalState] ==
               IF k = 0 THEN [list |-> list, at |-> at]
               ELSE LET r == run[k - 1]
                        j == r.list[k]
                        from == Reached(f, j)
                        waiting == SubSeq(r.list, k + 1, Len(r.list))
                        quiet == {i \in from : ~Emitting(hmm, i)} \ Range(waiting)
                        beta == [i \in from |-> Through(r.at.beta[j], hmm.prior[j][i])]
                    IN  IF k > Len(r.list) THEN r
                        ELSE [list |-> r.list \o Ascending(quiet),
                              at   |-> [beta   |-> AddTo(r.at.beta, beta),
                                        arcs   |-> AddTo(r.at.arcs, [e \in from \X {j} |->
                                                     Count(f.alpha[e[1]], beta[e[1]])]),
                                        active |-> r.at.active \cup {i \in from : Emitting(hmm, i)}]]
             step == [k \in 1 .. n |-> [x \in S |-> Retreated(f, k, x)]]
  <1>1. Retreat(f, list, at) = run[n].at
    BY DEF Retreat
  <1>2. n \in Nat /\ base \in S
    BY DEF Shaped, Retreats
  <1>3. ASSUME NEW k \in 1 .. n, NEW x \in S PROVE Retreated(f, k, x) \in S
    <2>1. k \in Nat \ {0}
      BY <1>2
    <2> QED
      BY <2>1, RetreatedOnce
  <1> HIDE DEF S
  <1>5. step \in [1 .. n -> [S -> S]]
    BY <1>3
  <1>6. \A k \in 1 .. n : \A x \in S : step[k][x] = Retreated(f, k, x)
    OBVIOUS
  <1> HIDE DEF step
  <1>7. PICK r : Iterates(r, n, S, base, step)
    <2> HIDE DEF base, n
    <2> QED
      BY <1>2, <1>5, Iteration
  <1>8. r = [k \in 0 .. n |-> IF k = 0 THEN base ELSE Retreated(f, k, r[k - 1])]
    <2> HIDE DEF base, n
    <2>1. r = [k \in 0 .. n |-> IF k = 0 THEN base ELSE step[k][r[k - 1]]]
      BY <1>2, <1>7, IterationUnfolds
    <2>2. ASSUME NEW k \in 0 .. n, k # 0 PROVE step[k][r[k - 1]] = Retreated(f, k, r[k - 1])
      <3>1. k \in 1 .. n /\ k - 1 \in 0 .. n
        BY <1>2, <2>2
      <3>2. r[k - 1] \in S
        BY <1>7, <3>1 DEF Iterates
      <3> QED
        BY <1>6, <3>1, <3>2
    <2> QED
      BY <2>1, <2>2
  <1>9. run = [k \in 0 .. n |-> IF k = 0 THEN base ELSE Retreated(f, k, run[k - 1])]
    BY <1>8 DEF Retreated
  <1> HIDE DEF run, base, n
  <1> DEFINE P == {k \in 0 .. n : run[k] \in S}
  <1>10. 0 \in P
    BY <1>2, <1>9
  <1>11. ASSUME NEW k \in 1 .. n, k - 1 \in P PROVE k \in P
    <2>1. k \in 0 .. n /\ k # 0 /\ run[k - 1] \in S
      BY <1>2, <1>11
    <2>2. run[k] = Retreated(f, k, run[k - 1])
      BY <1>9, <2>1
    <2> QED
      BY <1>3, <2>1, <2>2
  <1> HIDE DEF P
  <1>12. n \in P
    BY <1>2, <1>10, <1>11, UpFromZero
  <1>13. run[n] \in Retreats(f)
    BY <1>12 DEF P, S
  <1> QED
    BY <1>1, <1>13, RetreatParts

-----------------------------------------------------------------------------
(* Types.                                                                  *)

\* The inductive invariant, for what the passes have found so far.
FramesKept == forw \in Seq(Scorings) /\ \A t \in 1 .. Len(forw) : Positive(forw[t])
NatValued(f) == \A x \in DOMAIN f : f[x] \in Nat
BackTyped ==
  /\ Len(forw) = Frames /\ FinalReached
  /\ back.frame \in 1 .. Frames /\ back.beta \in [States(hmm) -> Nat]
  /\ back.active \in SUBSET Sounding(forw[back.frame])
  /\ local.arcs \in ArcTables /\ NatValued(local.senones)
Outcomes == {"unbuilt", "inspected", "failed", "infeasible", "unreached", "accepted"}
OutcomesCounted ==
  /\ outcomes \in Seq(Outcomes)
  /\ Len(outcomes) = IF phase \in {"settled", "done"} /\ inventory.ok THEN utt ELSE utt - 1
PhaseTyped ==
  /\ phase \in {"generate", "expand"} => forw = <<>>
  /\ phase \in {"forward", "backward"} => Scorable
  /\ phase = "forward" => Len(forw) <= Frames
  /\ phase = "backward" => BackTyped
CISenones == {Senone(CI(b), m) : b \in Phones \ Fillers, m \in 0 .. setup.K - 1}
TypeInv ==
  /\ phase \in {"generate", "expand", "forward", "backward", "settled", "done"}
  /\ OutcomesCounted /\ FramesKept /\ PhaseTyped /\ fallback \subseteq CISenones

LEMMA TypeInvTypes == GraphInv /\ TypeInv => TypeOK
  <1> SUFFICES ASSUME GraphInv, TypeInv PROVE TypeOK
    OBVIOUS
  <1>1. DOMAIN forw = 1 .. Len(forw) /\ forw \in Seq(Scorings)
    BY DEF TypeInv, FramesKept
  <1>2. ASSUME NEW t \in DOMAIN forw
        PROVE  /\ Range(forw[t].active) = DOMAIN forw[t].alpha
               /\ IsInjective(forw[t].active)
               /\ \A x \in Range(forw[t].alpha) : x \in Nat \ {0}
    <2>1. forw[t] \in Scorings /\ Positive(forw[t])
      BY <1>1 DEF TypeInv, FramesKept
    <2>2. /\ Range(forw[t].active) = DOMAIN forw[t].alpha
          /\ forw[t].active \in Listings(States(hmm))
          /\ \A x \in DOMAIN forw[t].alpha : forw[t].alpha[x] \in Nat
      BY <2>1, ScoringParts
    <2> QED
      BY <2>1, <2>2 DEF Listings, Positive, Range
  <1>3. ASSUME phase = "backward"
        PROVE  /\ back.active \subseteq {i \in DOMAIN forw[back.frame].alpha : Emitting(hmm, i)}
               /\ \A x \in Range(local.arcs) \cup Range(local.senones) : x \in Nat
    <2>1. BackTyped
      BY <1>3 DEF TypeInv, PhaseTyped
    <2>2. \A x \in DOMAIN local.arcs : local.arcs[x] \in Nat
      BY <2>1, TableParts DEF BackTyped, ArcTables
    <2> QED
      BY <2>1, <2>2 DEF BackTyped, Sounding, NatValued, Range
  <1> QED
    BY <1>2, <1>3 DEF GraphInv, TypeInv, OutcomesCounted, CISenones, TypeOK

LEMMA TypeInvInit == Init => TypeInv
  <1> SUFFICES ASSUME Init PROVE TypeInv
    OBVIOUS
  <1>1. forw = <<>> /\ outcomes = <<>> /\ utt = 1 /\ phase = "generate" /\ fallback = {}
        /\ ~inventory.ok
    BY DEF Init
  <1>2. OutcomesCounted
    BY <1>1 DEF OutcomesCounted
  <1>3. FramesKept
    BY <1>1 DEF FramesKept
  <1> QED
    BY <1>1, <1>2, <1>3 DEF TypeInv, PhaseTyped

\* What only the sentence and the session's models determine.
LEMMA SameSentence ==
    ASSUME setup' = setup, hmm' = hmm, heard' = heard, utt' = utt
    PROVE  /\ Scorings' = Scorings /\ CISenones' = CISenones /\ ArcTables' = ArcTables
           /\ Frames' = Frames /\ FinalState' = FinalState
           /\ \A f : Sounding(f)' = Sounding(f)
           /\ Scorable => Scorable'
  <1>1. Frames' = Frames
    BY DEF Frames
  <1>2. Scorings' = Scorings /\ CISenones' = CISenones /\ ArcTables' = ArcTables
    BY DEF Scorings, CISenones, ArcTables
  <1>3. FinalState' = FinalState
    BY DEF FinalState
  <1>4. \A f : Sounding(f)' = Sounding(f)
    BY DEF Sounding
  <1>5. Scorable => Scorable'
    BY <1>1 DEF Scorable
  <1> QED
    BY <1>1, <1>2, <1>3, <1>4, <1>5

LEMMA SettlesTyped ==
    ASSUME TypeInv, phase \in {"expand", "forward", "backward"}, inventory.ok,
           NEW o \in Outcomes, Settle(o), utt \in Nat, utt' = utt, inventory' = inventory,
           FramesKept', fallback' \subseteq CISenones'
    PROVE  TypeInv'
  <1>1. phase' = "settled" /\ outcomes' = Append(outcomes, o)
    BY DEF Settle
  <1>2. outcomes \in Seq(Outcomes) /\ Len(outcomes) = utt - 1
    BY DEF TypeInv, OutcomesCounted
  <1>3. outcomes' \in Seq(Outcomes) /\ Len(outcomes') = Len(outcomes) + 1
    BY <1>1, <1>2
  <1>4. OutcomesCounted'
    BY <1>1, <1>2, <1>3 DEF OutcomesCounted
  <1> QED
    BY <1>1, <1>4 DEF TypeInv, PhaseTyped

\* A step of a pass that goes on.
LEMMA GoesOnTyped ==
    ASSUME TypeInv, phase \in {"expand", "forward", "backward"},
           phase' \in {"forward", "backward"}, outcomes' = outcomes, utt' = utt,
           FramesKept', PhaseTyped', fallback' \subseteq CISenones'
    PROVE  TypeInv'
  <1>1. OutcomesCounted'
    BY DEF TypeInv, OutcomesCounted
  <1> QED
    BY <1>1 DEF TypeInv

LEMMA SameFrames ==
    ASSUME FramesKept, forw' = forw, Scorings' = Scorings
    PROVE  FramesKept'
  BY DEF FramesKept, Positive

LEMMA NoFrames ==
    ASSUME forw' = <<>>
    PROVE  FramesKept'
  <1>1. <<>> \in Seq(Scorings')
    OBVIOUS
  <1> QED
    BY <1>1 DEF FramesKept

LEMMA UttIsNat ==
    ASSUME GraphInv
    PROVE  utt \in Nat /\ Len(setup.texts) \in Nat /\ utt \in 1 .. Len(setup.texts)
  <1>1. setup \in Setups /\ utt \in DOMAIN setup.texts /\ IsSeq(setup.texts)
    BY SetupsAssumption DEF GraphInv
  <1> QED
    BY <1>1 DEF IsSeq

LEMMA GenerateTyped == TypeInv /\ Generate => TypeInv'
  <1> SUFFICES ASSUME TypeInv, Generate PROVE TypeInv'
    OBVIOUS
  <1>1. /\ phase = "generate" /\ forw' = forw /\ outcomes' = outcomes /\ fallback' = fallback
        /\ setup' = setup /\ utt' = utt /\ hmm' = hmm /\ heard' = heard
        /\ phase' = IF inventory'.ok THEN "expand" ELSE "done"
    BY DEF Generate, sentence, session
  <1>2. phase' \in {"expand", "done"} /\ (phase' = "done" => ~inventory'.ok)
    BY <1>1
  <1>3. OutcomesCounted'
    BY <1>1, <1>2 DEF TypeInv, OutcomesCounted
  <1>4. FramesKept' /\ fallback' \subseteq CISenones'
    BY <1>1, SameSentence, SameFrames DEF TypeInv
  <1>5. PhaseTyped'
    BY <1>1, <1>2 DEF TypeInv, PhaseTyped
  <1> QED
    BY <1>2, <1>3, <1>4, <1>5 DEF TypeInv

LEMMA BuildTyped ==
    ASSUME TypeInv, ModelInv, GraphInv, MassInv', BuildUttStateSeq
    PROVE  TypeInv'
  <1>1. /\ phase = "expand" /\ forw' = forw /\ fallback' = fallback
        /\ setup' = setup /\ utt' = utt /\ inventory' = inventory
    BY DEF BuildUttStateSeq, building, session
  <1>2. inventory.ok /\ forw = <<>> /\ utt \in Nat
    BY <1>1, UttIsNat DEF ModelInv, TypeInv, PhaseTyped
  <1>3. FramesKept'
    BY <1>1, <1>2, NoFrames
  <1>4. fallback' \subseteq CISenones'
    BY <1>1 DEF TypeInv, CISenones
  <1>8. phase \in {"expand", "forward", "backward"}
    BY <1>1
  <1>5. CASE ~Buildable
    <2> DEFINE o == "unbuilt"
    <2>1. Settle(o) /\ o \in Outcomes
      BY <1>5 DEF BuildUttStateSeq, Outcomes
    <2> HIDE DEF o
    <2> QED
      BY <1>1, <1>2, <1>3, <1>4, <1>8, <2>1, SettlesTyped
  <1>6. CASE Buildable /\ Frames = 0
    <2> DEFINE o == "inspected"
    <2>1. Settle(o) /\ o \in Outcomes
      BY <1>6 DEF BuildUttStateSeq, Outcomes
    <2> HIDE DEF o
    <2> QED
      BY <1>1, <1>2, <1>3, <1>4, <1>8, <2>1, SettlesTyped
  <1>7. CASE Buildable /\ Frames # 0
    <2>1. phase' = "forward" /\ outcomes' = outcomes /\ heard' \in [1 .. Frames -> setup.hears]
      BY <1>7 DEF BuildUttStateSeq
    <2>2. Frames' = Frames /\ Frames \in Nat \ {0}
      BY <1>1, <1>7, ScoresAssumption DEF Frames, GraphInv
    <2>3. TypedHMM(hmm', setup.K)
      BY <1>7, BuiltTyped
    <2>4. Scorable'
      BY <1>1, <2>1, <2>2, <2>3 DEF Scorable, MassInv
    <2>5. PhaseTyped'
      <3>1. Len(forw') <= Frames'
        BY <1>1, <1>2, <2>2
      <3> QED
        BY <2>1, <2>4, <3>1 DEF PhaseTyped
    <2> QED
      BY <1>1, <1>3, <1>4, <2>1, <2>5, GoesOnTyped
  <1> QED
    BY <1>5, <1>6, <1>7

LEMMA NextTyped == TypeInv /\ GraphInv /\ ModelInv /\ NextUtterance => TypeInv'
  <1> SUFFICES ASSUME TypeInv, GraphInv, ModelInv, NextUtterance PROVE TypeInv'
    OBVIOUS
  <1>1. /\ phase = "settled" /\ forw' = <<>> /\ fallback' = fallback /\ outcomes' = outcomes
        /\ setup' = setup /\ inventory' = inventory
        /\ utt' = (IF utt < Len(setup.texts) THEN utt + 1 ELSE utt)
        /\ phase' = (IF utt < Len(setup.texts) THEN "expand" ELSE "done")
    BY DEF NextUtterance, building, session
  <1>2. utt \in Nat
    BY UttIsNat
  <1>3. FramesKept'
    BY <1>1, NoFrames
  <1>4. fallback' \subseteq CISenones'
    BY <1>1 DEF TypeInv, CISenones
  <1>5. PhaseTyped'
    BY <1>1 DEF PhaseTyped
  <1>7. inventory.ok
    BY <1>1 DEF ModelInv
  <1>6. OutcomesCounted'
    <2>1. outcomes \in Seq(Outcomes) /\ Len(outcomes) = IF inventory.ok THEN utt ELSE utt - 1
      BY <1>1 DEF TypeInv, OutcomesCounted
    <2>2. CASE utt < Len(setup.texts)
      <3>1. utt' = utt + 1 /\ phase' = "expand" /\ inventory'.ok = inventory.ok
        BY <1>1, <2>2
      <3> QED
        BY <1>1, <1>2, <1>7, <2>1, <3>1 DEF OutcomesCounted
    <2>3. CASE ~(utt < Len(setup.texts))
      <3>1. utt' = utt /\ phase' = "done" /\ inventory'.ok = inventory.ok
        BY <1>1, <2>3
      <3> QED
        BY <1>1, <1>2, <2>1, <3>1 DEF OutcomesCounted
    <2> QED
      BY <2>2, <2>3
  <1>8. phase' \in {"expand", "done"}
    BY <1>1
  <1> QED
    BY <1>1, <1>3, <1>4, <1>5, <1>6, <1>8 DEF TypeInv

\* What the steps of the passes start from.
Passing ==
  /\ TypeInv /\ phase \in {"forward", "backward"} /\ inventory.ok /\ utt \in Nat
  /\ Scorable /\ Shaped /\ FramesKept /\ fallback \subseteq CISenones

LEMMA PassesAre ==
    ASSUME TypeInv, GraphInv, ModelInv, phase \in {"forward", "backward"}
    PROVE  Passing
  <1>1. Scorable /\ FramesKept /\ fallback \subseteq CISenones
    BY DEF TypeInv, PhaseTyped
  <1>2. inventory.ok /\ utt \in Nat
    BY UttIsNat DEF ModelInv
  <1> QED
    BY <1>1, <1>2, ScorableIsShaped DEF Passing

LEMMA PassSettles ==
    ASSUME Passing, NEW o \in Outcomes, Settle(o), building' = building, sentence' = sentence,
           FramesKept', fallback' \subseteq CISenones
    PROVE  TypeInv'
  <1>1. setup' = setup /\ inventory' = inventory /\ utt' = utt /\ hmm' = hmm /\ heard' = heard
    BY DEF building, sentence
  <1>2. CISenones' = CISenones
    BY <1>1, SameSentence
  <1>3. TypeInv /\ phase \in {"expand", "forward", "backward"} /\ inventory.ok /\ utt \in Nat
    BY DEF Passing
  <1> QED
    BY <1>1, <1>2, <1>3, SettlesTyped

\* The frames that remain the same, for either way of going on.
LEMMA FramesRemain ==
    ASSUME Passing, building' = building, sentence' = sentence, forw' = forw
    PROVE  FramesKept'
  <1>1. setup' = setup /\ utt' = utt /\ hmm' = hmm /\ heard' = heard
    BY DEF building, sentence
  <1>2. Scorings' = Scorings
    BY <1>1, SameSentence
  <1> QED
    BY <1>2, SameFrames DEF Passing

\* The forward pass goes on with the frames scored so far.
LEMMA ForwardGoesOn ==
    ASSUME Passing, building' = building, sentence' = sentence, session' = session,
           phase = "forward", phase' = phase, outcomes' = outcomes,
           forw' \in Seq(Scorings), Len(forw') <= Frames,
           \A t \in 1 .. Len(forw') : Positive(forw'[t])
    PROVE  TypeInv'
  <1>1. setup' = setup /\ utt' = utt /\ hmm' = hmm /\ heard' = heard /\ fallback' = fallback
    BY DEF building, sentence, session
  <1>2. Scorings' = Scorings /\ CISenones' = CISenones /\ Frames' = Frames /\ Scorable'
    BY <1>1, SameSentence DEF Passing
  <1>3. FramesKept'
    BY <1>2 DEF FramesKept, Positive
  <1>4. PhaseTyped'
    BY <1>2 DEF PhaseTyped
  <1>5. fallback' \subseteq CISenones'
    BY <1>1, <1>2 DEF Passing
  <1>6. TypeInv /\ phase \in {"expand", "forward", "backward"} /\ phase' \in {"forward", "backward"}
    BY DEF Passing
  <1> QED
    BY <1>1, <1>3, <1>4, <1>5, <1>6, GoesOnTyped

LEMMA ForwardFirstTyped == Passing /\ ForwardFirst => TypeInv'
  <1> SUFFICES ASSUME Passing, ForwardFirst PROVE TypeInv'
    OBVIOUS
  <1>1. /\ phase = "forward" /\ forw = <<>> /\ building' = building /\ sentence' = sentence
        /\ session' = session /\ fallback' = fallback
    BY DEF ForwardFirst, building, sentence, session
  <1>2. CASE Scored(1, 1) = 0
    <2> DEFINE o == "failed"
    <2>1. Settle(o) /\ forw' = forw /\ o \in Outcomes
      BY <1>2 DEF ForwardFirst, Outcomes
    <2> HIDE DEF o
    <2>2. FramesKept' /\ fallback' \subseteq CISenones
      BY <1>1, <2>1, FramesRemain DEF Passing
    <2> QED
      BY <1>1, <2>1, <2>2, PassSettles
  <1>3. CASE Scored(1, 1) # 0
    <2> DEFINE list == <<1>>
               alpha == [s \in {1} |-> Unit * Scored(1, 1)]
               f == [active |-> list, alpha |-> alpha]
    <2>1. phase' = phase /\ outcomes' = outcomes /\ forw' = <<f>>
      BY <1>3 DEF ForwardFirst
    <2>2. Frames \in Nat \ {0} /\ Scorable /\ Shaped /\ 1 \in States(hmm)
      BY DEF Passing, Scorable, Shaped
    <2>3. Scored(1, 1) \in Nat \ {0} /\ Unit \in Nat \ {0}
      <3>1. 1 \in 1 .. Frames
        BY <2>2
      <3> QED
        BY <1>3, <2>2, <3>1, ScoredIsNat, ScoresAssumption
    <2>4. Unit * Scored(1, 1) \in Nat \ {0}
      BY <2>3
    <2>5. list \in Listings(States(hmm)) /\ Range(list) = {1}
      BY <2>2 DEF Listings, IsInjective, Range
    <2>6. alpha \in NatTables(States(hmm)) /\ DOMAIN alpha = {1}
      <3>1. {1} \in SUBSET States(hmm) /\ alpha \in [{1} -> Nat]
        BY <2>2, <2>4
      <3> QED
        BY <3>1, TableOf
    <2>7. Positive(f)
      BY <2>4 DEF Positive
    <2> HIDE DEF list, alpha
    <2>8. f \in Scorings
      BY <2>5, <2>6, ScoringOf
    <2> HIDE DEF f
    <2>9. forw' \in Seq(Scorings) /\ Len(forw') = 1 /\ forw'[1] = f
      BY <2>1, <2>8
    <2>10. Len(forw') <= Frames /\ \A t \in 1 .. Len(forw') : Positive(forw'[t])
      BY <2>2, <2>7, <2>9
    <2> QED
      BY <1>1, <2>1, <2>9, <2>10, ForwardGoesOn
  <1> QED
    BY <1>2, <1>3

LEMMA ForwardFrameTyped == Passing /\ ForwardFrame => TypeInv'
  <1> SUFFICES ASSUME Passing, ForwardFrame PROVE TypeInv'
    OBVIOUS
  <1> DEFINE t == Len(forw) + 1
             g == forw[t - 1]
             list == Activate(g)
             alpha == [j \in Range(list) |-> Alpha(g, t, j)]
             full == Consume(list, alpha)
             best == Max({0} \cup Range(full.alpha))
             f == Prune(full, best)
  <1>1. /\ phase = "forward" /\ forw # <<>> /\ Len(forw) < Frames
        /\ building' = building /\ sentence' = sentence
        /\ session' = session /\ fallback' = fallback
    BY DEF ForwardFrame, building, sentence, session
  <1>2. IF best = 0 THEN Settle("failed") /\ forw' = forw
        ELSE forw' = Append(forw, f) /\ phase' = phase /\ outcomes' = outcomes
    BY DEF ForwardFrame
  <1>3. /\ Scorable /\ Shaped /\ Frames \in Nat \ {0} /\ forw \in Seq(Scorings)
        /\ \A k \in 1 .. Len(forw) : Positive(forw[k])
    BY DEF Passing, Scorable, FramesKept
  <1>4. t \in 1 .. Frames /\ Len(forw) \in Nat \ {0} /\ g \in Scorings
    BY <1>1, <1>3
  <1> HIDE DEF t, g
  <1>5. list \in Listings(States(hmm))
    BY <1>3, <1>4, ActivatedListing
  <1> HIDE DEF list
  <1>6. Range(list) \in SUBSET States(hmm)
    BY <1>5 DEF Listings, Range
  <1>7. \A j \in Range(list) : Alpha(g, t, j) \in Nat
    BY <1>3, <1>4, AlphaIsNat
  <1>8. alpha \in [Range(list) -> Nat]
    BY <1>7
  <1> HIDE DEF alpha
  <1>9. alpha \in NatTables(States(hmm)) /\ DOMAIN alpha = Range(list)
    BY <1>6, <1>8, TableOf
  <1>10. [active |-> list, alpha |-> alpha] \in Scorings
    BY <1>5, <1>9, ScoringOf
  <1>11. full \in Scorings
    BY <1>3, <1>10, ConsumedAll
  <1> HIDE DEF full
  <1>12. best \in Nat
    BY <1>3, <1>11, BestIsNat
  <1> HIDE DEF best
  <1>13. f \in Scorings /\ Positive(f)
    BY <1>3, <1>11, <1>12, PrunedScoring
  <1> HIDE DEF f
  <1>14. CASE best = 0
    <2> DEFINE o == "failed"
    <2>1. Settle(o) /\ forw' = forw /\ o \in Outcomes
      BY <1>2, <1>14 DEF Outcomes
    <2> HIDE DEF o
    <2>2. FramesKept' /\ fallback' \subseteq CISenones
      BY <1>1, <2>1, FramesRemain DEF Passing
    <2> QED
      BY <1>1, <2>1, <2>2, PassSettles
  <1>15. CASE best # 0
    <2>1. phase' = phase /\ outcomes' = outcomes /\ forw' = Append(forw, f)
      BY <1>2, <1>15
    <2>2. /\ forw' \in Seq(Scorings) /\ Len(forw') = Len(forw) + 1
          /\ \A k \in 1 .. Len(forw') : forw'[k] = IF k <= Len(forw) THEN forw[k] ELSE f
      BY <1>3, <1>13, <2>1
    <2>3. Len(forw') <= Frames
      BY <1>4, <2>2 DEF t
    <2>4. \A k \in 1 .. Len(forw') : Positive(forw'[k])
      <3> SUFFICES ASSUME NEW k \in 1 .. Len(forw') PROVE Positive(forw'[k])
        OBVIOUS
      <3>1. CASE k <= Len(forw)
        BY <1>3, <2>2, <3>1
      <3>2. CASE ~(k <= Len(forw))
        BY <1>13, <2>2, <3>2
      <3> QED
        BY <3>1, <3>2
    <2> QED
      BY <1>1, <2>1, <2>2, <2>3, <2>4, ForwardGoesOn
  <1> QED
    BY <1>14, <1>15

LEMMA NotReachedTyped == Passing /\ FinalStateNotReached => TypeInv'
  <1> SUFFICES ASSUME Passing, FinalStateNotReached PROVE TypeInv'
    OBVIOUS
  <1>1. /\ phase = "forward" /\ building' = building /\ sentence' = sentence
        /\ session' = session /\ fallback' = fallback
    BY DEF FinalStateNotReached, building, sentence, session
  <1>2. CASE TooShort \/ wide
    <2> DEFINE o == IF TooShort THEN "infeasible" ELSE "unreached"
    <2>1. Settle(o) /\ forw' = forw /\ o \in Outcomes
      <3>1. CASE TooShort
        BY <3>1 DEF FinalStateNotReached, Outcomes
      <3>2. CASE ~TooShort
        BY <1>2, <3>2 DEF FinalStateNotReached, Outcomes
      <3> QED
        BY <3>1, <3>2
    <2> HIDE DEF o
    <2>2. FramesKept' /\ fallback' \subseteq CISenones
      BY <1>1, <2>1, FramesRemain DEF Passing
    <2> QED
      BY <1>1, <2>1, <2>2, PassSettles
  <1>3. CASE ~TooShort /\ ~wide
    <2>1. phase' = phase /\ outcomes' = outcomes /\ forw' = <<>>
      BY <1>3 DEF FinalStateNotReached
    <2>2. Frames \in Nat
      BY DEF Passing, Scorable
    <2>3. forw' \in Seq(Scorings) /\ Len(forw') <= Frames /\ 1 .. Len(forw') = {}
      BY <2>1, <2>2
    <2> QED
      BY <1>1, <2>1, <2>3, ForwardGoesOn
  <1> QED
    BY <1>2, <1>3

\* The backward pass goes on, at a frame that the forward pass has scored.
LEMMA BackwardGoesOn ==
    ASSUME Passing, Len(forw) = Frames, FinalReached,
           building' = building, sentence' = sentence, session' = session,
           forw' = forw, phase' = "backward", outcomes' = outcomes,
           NEW t \in 1 .. Frames, NEW end \in Backs(forw[t]),
           back' = [frame |-> t, beta |-> end.beta, active |-> end.active],
           local'.arcs = end.arcs, NatValued(local'.senones)
    PROVE  TypeInv'
  <1>1. setup' = setup /\ utt' = utt /\ hmm' = hmm /\ heard' = heard /\ fallback' = fallback
    BY DEF building, sentence, session
  <1>2. /\ Scorings' = Scorings /\ CISenones' = CISenones /\ Frames' = Frames
        /\ FinalState' = FinalState /\ ArcTables' = ArcTables /\ Scorable'
        /\ \A f : Sounding(f)' = Sounding(f)
    BY <1>1, SameSentence DEF Passing
  <1>3. FramesKept' /\ fallback' \subseteq CISenones'
    BY <1>1, <1>2, FramesRemain DEF Passing
  <1>4. end.beta \in [States(hmm) -> Nat] /\ end.arcs \in ArcTables /\ end.active \in SUBSET Sounding(forw[t])
    BY DEF Backs
  <1>5. FinalReached'
    BY <1>2 DEF FinalReached
  <1>6. back'.frame = t /\ back'.beta = end.beta /\ back'.active = end.active
    OBVIOUS
  <1>7. /\ back'.frame \in 1 .. Frames' /\ back'.beta \in [States(hmm') -> Nat]
        /\ local'.arcs \in ArcTables'
    BY <1>1, <1>2, <1>4, <1>6
  <1>8. back'.active \in SUBSET (Sounding(forw[back.frame])')
    <2>1. Sounding(forw[back.frame])' = {i \in DOMAIN forw[t].alpha : Emitting(hmm, i)}
      BY <1>1, <1>6 DEF Sounding
    <2> QED
      BY <1>4, <1>6, <2>1 DEF Sounding
  <1>9. BackTyped'
    BY <1>2, <1>5, <1>7, <1>8 DEF BackTyped, NatValued
  <1>10. PhaseTyped'
    BY <1>2, <1>9 DEF PhaseTyped
  <1>11. TypeInv /\ phase \in {"expand", "forward", "backward"} /\ phase' \in {"forward", "backward"}
    BY DEF Passing
  <1> QED
    BY <1>1, <1>3, <1>10, <1>11, GoesOnTyped

LEMMA BackwardStartTyped == Passing /\ BackwardStart => TypeInv'
  <1> SUFFICES ASSUME Passing, BackwardStart PROVE TypeInv'
    OBVIOUS
  <1> DEFINE T == States(hmm)
             beta == [s \in T |-> IF s = FinalState THEN Unit ELSE 0]
             arcs == <<>>
             active == {}
             start == [beta |-> beta, arcs |-> arcs, active |-> active]
             t == Frames
             f == forw[t]
             list == <<FinalState>>
             end == Retreat(f, list, start)
  <1>1. /\ Len(forw) = Frames /\ FinalReached /\ building' = building /\ sentence' = sentence
        /\ session' = session /\ forw' = forw /\ phase' = "backward" /\ outcomes' = outcomes
        /\ back' = [frame |-> t, beta |-> end.beta, active |-> end.active]
        /\ local' = [arcs |-> end.arcs, senones |-> <<>>]
    BY DEF BackwardStart, session
  <1>2. Scorable /\ Shaped /\ Frames \in Nat \ {0} /\ forw \in Seq(Scorings)
    BY DEF Passing, Scorable, FramesKept
  <1>3. t \in 1 .. Frames /\ f \in Scorings
    BY <1>1, <1>2
  <1>4. FinalState \in T
    BY <1>2 DEF Shaped
  <1>5. beta \in [T -> Nat]
    BY ScoresAssumption
  <1>6. arcs \in ArcTables
    BY NoTable DEF ArcTables
  <1>7. list \in Seq(T)
    BY <1>4
  <1>8. active \in SUBSET Sounding(f)
    OBVIOUS
  <1> HIDE DEF beta, arcs, active, list, t, f
  <1>9. start \in Backs(f)
    BY <1>5, <1>6, <1>8 DEF Backs
  <1> HIDE DEF start
  <1>10. end \in Backs(f)
    BY <1>2, <1>3, <1>7, <1>9, RetreatBacks
  <1> HIDE DEF end
  <1>11. end \in Backs(forw[t])
    BY <1>10 DEF f
  <1>12. local'.arcs = end.arcs /\ NatValued(local'.senones)
    BY <1>1 DEF NatValued
  <1> QED
    BY <1>1, <1>3, <1>11, <1>12, BackwardGoesOn

LEMMA NatValuedSums ==
    ASSUME NEW f, NEW g, NatValued(f), NatValued(g)
    PROVE  NatValued(AddTo(f, g))
  <1> SUFFICES ASSUME NEW x \in DOMAIN f \cup DOMAIN g PROVE AddTo(f, g)[x] \in Nat
    BY DEF NatValued, AddTo
  <1> DEFINE a == IF x \in DOMAIN f THEN f[x] ELSE 0
             b == IF x \in DOMAIN g THEN g[x] ELSE 0
  <1>1. AddTo(f, g)[x] = a + b
    BY DEF AddTo
  <1>2. a \in Nat /\ b \in Nat
    BY DEF NatValued
  <1> QED
    BY <1>1, <1>2

\* The arcs into the active states, and what goes through them.
ArcsInto(f) == UNION {{<<i, j>> : i \in Reached(f, j)} : j \in back.active}
TermOf(i, j) == Through(Scored(back.frame, j) * back.beta[j], hmm.prior[j][i])
PostOf(f, e) == Count(f.alpha[e[1]], TermOf(e[1], e[2]))

LEMMA ArcsOfFrame ==
    ASSUME Passing, BackTyped, NEW f \in Scorings
    PROVE  /\ ArcsInto(f) \in SUBSET (States(hmm) \X States(hmm)) /\ IsFiniteSet(ArcsInto(f))
           /\ \A e \in ArcsInto(f) : /\ e[1] \in DOMAIN f.alpha
                                     /\ TermOf(e[1], e[2]) \in Nat /\ PostOf(f, e) \in Nat
  <1> DEFINE T == States(hmm)
             arcs == ArcsInto(f)
             r == back.frame
             g == forw[r]
  <1>1. /\ Scorable /\ Shaped /\ forw \in Seq(Scorings) /\ r \in 1 .. Frames /\ Len(forw) = Frames
        /\ back.beta \in [T -> Nat] /\ back.active \in SUBSET Sounding(g)
    BY DEF Passing, FramesKept, BackTyped
  <1>2. g \in Scorings
    BY <1>1
  <1> HIDE DEF g
  <1>3. back.active \in SUBSET T
    BY <1>1, <1>2, ScoringParts DEF Sounding
  <1> HIDE DEF T, r
  <1>4. ASSUME NEW e \in arcs
        PROVE  /\ e \in T \X T /\ e[1] \in DOMAIN f.alpha
               /\ TermOf(e[1], e[2]) \in Nat /\ PostOf(f, e) \in Nat
    <2>1. PICK j \in back.active : \E i \in Reached(f, j) : e = <<i, j>>
      BY <1>4 DEF ArcsInto
    <2>2. PICK i \in Reached(f, j) : e = <<i, j>>
      BY <2>1
    <2>3. j \in T /\ i \in DOMAIN hmm.prior[j] /\ i \in DOMAIN f.alpha
      BY <1>3, <2>2 DEF Reached
    <2>4. i \in T /\ hmm.prior[j][i] \in Nat
      BY <1>1, <2>3 DEF Shaped, T
    <2>5. f.alpha[i] \in Nat
      BY <2>3, ScoringParts
    <2>6. Scored(r, j) \in Nat /\ back.beta[j] \in Nat
      BY <1>1, <2>3, ScoredIsNat
    <2>7. TermOf(i, j) \in Nat
      <3> DEFINE v == Scored(r, j) * back.beta[j]
                 w == hmm.prior[j][i]
      <3>1. v \in Nat /\ w \in Nat
        BY <2>4, <2>6
      <3>2. TermOf(i, j) = Through(v, w)
        BY DEF TermOf, r
      <3> HIDE DEF v, w
      <3> QED
        BY <3>1, <3>2, ThroughIsNat
    <2>8. e[1] = i /\ e[2] = j
      BY <2>2
    <2>9. PostOf(f, e) \in Nat
      <3> DEFINE v == f.alpha[i]
                 w == TermOf(i, j)
      <3>1. v \in Nat /\ w \in Nat /\ PostOf(f, e) = Count(v, w)
        BY <2>5, <2>7, <2>8 DEF PostOf
      <3> HIDE DEF v, w
      <3> QED
        BY <3>1, CountIsNat
    <2> QED
      BY <2>2, <2>3, <2>4, <2>7, <2>8, <2>9
  <1>5. arcs \in SUBSET (T \X T)
    BY <1>4
  <1>6. IsFiniteSet(T \X T)
    BY <1>1, FS_Product DEF Shaped, T
  <1>7. IsFiniteSet(arcs)
    BY <1>5, <1>6, FS_Subset
  <1> QED
    BY <1>4, <1>5, <1>7 DEF T

LEMMA BackwardFrameTyped == Passing /\ BackwardFrame => TypeInv'
  <1> SUFFICES ASSUME Passing, BackwardFrame PROVE TypeInv'
    OBVIOUS
  <1> DEFINE T == States(hmm)
             t == back.frame - 1
             f == forw[t]
             Term(i, j) == Through(Scored(t + 1, j) * back.beta[j], hmm.prior[j][i])
             arcs == UNION {{<<i, j>> : i \in Reached(f, j)} : j \in back.active}
             Post(e) == Count(f.alpha[e[1]], Term(e[1], e[2]))
             counted == {e \in arcs : Post(e) > 0}
             touched == {e[1] : e \in arcs}
             beta == [i \in States(hmm) |->
                        SumFunction([e \in {a \in arcs : a[1] = i} |-> Term(e[1], e[2])])]
             kept == {i \in touched : BackKept(f.alpha[i] * beta[i])}
             total == SumFunction([i \in kept |-> Count(f.alpha[i], beta[i])])
             apart == IF total > FinalAlpha THEN total - FinalAlpha ELSE FinalAlpha - total
             posts == [e \in counted |-> Post(e)]
             summed == AddTo(local.arcs, posts)
             quiet == {i \in kept : ~Emitting(hmm, i)}
             list == Ascending(quiet)
             active == {i \in kept : Emitting(hmm, i)}
             start == [beta |-> beta, arcs |-> summed, active |-> active]
             end == Retreat(f, list, start)
             occupied == UNION {Senones(e[2]) : e \in counted}
             occupancy == [q \in occupied |->
                             SumFunction([e \in {a \in counted : q \in Senones(a[2])} |-> Post(e)])]
             bad == \/ \E e \in arcs : 100 * Post(e) > 101 * FinalAlpha
                    \/ 100 * apart > FinalAlpha
  <1>1. /\ phase = "backward" /\ back.frame > 1 /\ building' = building /\ sentence' = sentence
        /\ session' = session /\ fallback' = fallback /\ forw' = forw
    BY DEF BackwardFrame, building, sentence, session
  <1>2. IF bad THEN Settle("failed")
        ELSE /\ back' = [frame |-> t, beta |-> end.beta, active |-> end.active]
             /\ local' = [arcs |-> end.arcs, senones |-> AddTo(local.senones, occupancy)]
             /\ phase' = phase /\ outcomes' = outcomes
    BY DEF BackwardFrame
  <1>3. /\ Scorable /\ Shaped /\ BackTyped /\ FramesKept
        /\ Frames \in Nat \ {0} /\ forw \in Seq(Scorings)
    BY <1>1 DEF Passing, Scorable, TypeInv, PhaseTyped, FramesKept
  <1> HIDE DEF bad
  <1>4. CASE bad
    <2> HIDE DEF end, occupancy, list, summed, active
    <2> DEFINE o == "failed"
    <2>1. Settle(o) /\ o \in Outcomes
      BY <1>2, <1>4 DEF Outcomes
    <2> HIDE DEF o
    <2>2. FramesKept' /\ fallback' \subseteq CISenones
      BY <1>1, FramesRemain DEF Passing
    <2> QED
      BY <1>1, <2>1, <2>2, PassSettles
  <1>5. CASE ~bad
    <2>1. /\ back.frame \in 1 .. Frames /\ Len(forw) = Frames /\ FinalReached
          /\ local.arcs \in ArcTables /\ NatValued(local.senones)
      BY <1>3 DEF BackTyped
    <2>2. t \in 1 .. Frames /\ t + 1 = back.frame /\ f \in Scorings
      BY <1>1, <1>3, <2>1
    <2>3. arcs = ArcsInto(f)
      BY DEF ArcsInto
    <2>4. \A i, j : Term(i, j) = TermOf(i, j)
      BY <2>2 DEF TermOf
    <2>5. \A e : Post(e) = PostOf(f, e)
      BY <2>4 DEF PostOf
    <2> HIDE DEF t, f, arcs, Term, Post
    <2>6. /\ arcs \in SUBSET (T \X T) /\ IsFiniteSet(arcs)
          /\ \A e \in arcs : e[1] \in DOMAIN f.alpha /\ Term(e[1], e[2]) \in Nat /\ Post(e) \in Nat
      BY <1>3, <2>2, <2>3, <2>4, <2>5, ArcsOfFrame
    <2>7. counted \in SUBSET arcs /\ touched \in SUBSET DOMAIN f.alpha
      BY <2>6
    <2>8. DOMAIN f.alpha \in SUBSET T
      BY <2>2, ScoringParts
    <2>9. beta \in [T -> Nat]
      <3> SUFFICES ASSUME NEW i \in T
                   PROVE  SumFunction([e \in {a \in arcs : a[1] = i} |-> Term(e[1], e[2])]) \in Nat
        OBVIOUS
      <3> DEFINE some == {a \in arcs : a[1] = i}
                 g == [e \in some |-> Term(e[1], e[2])]
      <3>1. some \in SUBSET arcs
        OBVIOUS
      <3>2. IsFiniteSet(some)
        BY <2>6, <3>1, FS_Subset
      <3>3. g \in [some -> Nat]
        BY <2>6
      <3> HIDE DEF some, g
      <3>4. SumFunction(g) \in Nat
        BY <3>2, <3>3, SumIsNat
      <3> QED
        BY <3>4 DEF g, some
    <2>10. summed \in ArcTables
      <3>1. counted \in SUBSET (T \X T) /\ posts \in [counted -> Nat]
        BY <2>6, <2>7
      <3> HIDE DEF posts, counted
      <3>2. posts \in NatTables(T \X T)
        BY <3>1, TableOf
      <3> QED
        BY <2>1, <3>2, AddedTables DEF ArcTables
    <2> HIDE DEF beta
    <2>11. kept \in SUBSET DOMAIN f.alpha
      BY <2>7
    <2>12. NatValued(AddTo(local.senones, occupancy))
      <3>1. ASSUME NEW q \in occupied PROVE occupancy[q] \in Nat
        <4> DEFINE some == {a \in counted : q \in Senones(a[2])}
                   g == [e \in some |-> Post(e)]
        <4>1. some \in SUBSET arcs
          BY <2>7
        <4>2. IsFiniteSet(some)
          BY <2>6, <4>1, FS_Subset
        <4>3. g \in [some -> Nat]
          BY <2>6, <4>1
        <4> HIDE DEF some, g
        <4>4. SumFunction(g) \in Nat
          BY <4>2, <4>3, SumIsNat
        <4> QED
          BY <4>4 DEF g, some
      <3>2. NatValued(occupancy)
        BY <3>1 DEF NatValued
      <3> HIDE DEF occupancy
      <3> QED
        BY <2>1, <3>2, NatValuedSums
    <2> HIDE DEF touched, counted, summed, occupancy, posts, kept
    <2>13. quiet \in SUBSET States(hmm) /\ active \in SUBSET Sounding(f)
      BY <2>8, <2>11 DEF Sounding
    <2>14. FinalState \in Nat
      BY <1>3 DEF Shaped
    <2> HIDE DEF quiet, active
    <2>15. list \in Seq(T)
      BY <2>13, <2>14, AscendingListing DEF Listings
    <2> HIDE DEF list
    <2>16. start \in Backs(f)
      BY <2>9, <2>10, <2>13 DEF Backs
    <2> HIDE DEF start
    <2>17. end \in Backs(f)
      BY <1>3, <2>2, <2>15, <2>16, RetreatBacks
    <2> HIDE DEF end
    <2>18. end \in Backs(forw[t])
      BY <2>17 DEF f
    <2>19. /\ back' = [frame |-> t, beta |-> end.beta, active |-> end.active]
           /\ local' = [arcs |-> end.arcs, senones |-> AddTo(local.senones, occupancy)]
           /\ phase' = "backward" /\ outcomes' = outcomes
      BY <1>1, <1>2, <1>5
    <2>20. local'.arcs = end.arcs /\ NatValued(local'.senones)
      BY <2>12, <2>19
    <2> QED
      BY <1>1, <2>1, <2>2, <2>18, <2>19, <2>20, BackwardGoesOn
  <1> QED
    BY <1>4, <1>5

\* The models that stand in for a missing triphone are context-independent.
LEMMA FallbackIsCI ==
    ASSUME Scorable, Shaped
    PROVE  FallbackSenones \subseteq CISenones
  <1> SUFFICES ASSUME NEW q \in FallbackSenones PROVE q \in CISenones
    OBVIOUS
  <1> DEFINE n == Len(hmm.id)
             K == setup.K
  <1>1. PICK s \in States(hmm) :
          /\ Emitting(hmm, s) /\ IsCI(hmm.id[Slot(hmm, s)]) /\ Base(hmm, s) \notin Fillers
          /\ q = Senone(hmm.id[Slot(hmm, s)], MState(hmm, s))
    BY DEF FallbackSenones
  <1>2. /\ Numbered(hmm, K, n) /\ hmm.K = K /\ K \in Nat \ {0}
        /\ \A k \in 1 .. n : OwnName(hmm.id[k])
    BY DEF Scorable, Shaped, TypedHMM
  <1>3. Slot(hmm, s) \in 1 .. n /\ MState(hmm, s) \in 0 .. K
    BY <1>2 DEF Numbered
  <1>4. OwnName(hmm.id[Slot(hmm, s)])
    BY <1>2, <1>3
  <1>5. Base(hmm, s) \in Phones \ Fillers /\ hmm.id[Slot(hmm, s)] = CI(Base(hmm, s))
    BY <1>1, <1>4 DEF OwnName, Base
  <1>6. MState(hmm, s) \in 0 .. K - 1
    BY <1>1, <1>2, <1>3 DEF Emitting
  <1> QED
    BY <1>1, <1>5, <1>6 DEF CISenones

LEMMA BackwardEndTyped == Passing /\ BackwardEnd => TypeInv'
  <1> SUFFICES ASSUME Passing, BackwardEnd PROVE TypeInv'
    OBVIOUS
  <1>1. building' = building /\ sentence' = sentence /\ forw' = forw
    BY DEF BackwardEnd, building, sentence
  <1>2. (Settle("failed") /\ fallback' = fallback)
        \/ (Settle("accepted") /\ (fallback' = fallback \/ fallback' = fallback \cup FallbackSenones))
    BY DEF BackwardEnd, session
  <1>3. FramesKept' /\ fallback \subseteq CISenones /\ FallbackSenones \subseteq CISenones
    BY <1>1, FramesRemain, FallbackIsCI DEF Passing
  <1>4. fallback' \subseteq CISenones
    BY <1>2, <1>3
  <1>5. PICK o \in Outcomes : Settle(o)
    BY <1>2 DEF Outcomes
  <1> QED
    BY <1>1, <1>3, <1>4, <1>5, PassSettles

LEMMA TypeInvStutter == TypeInv /\ UNCHANGED vars => TypeInv'
  <1> SUFFICES ASSUME TypeInv, UNCHANGED vars PROVE TypeInv'
    OBVIOUS
  <1>1. /\ setup' = setup /\ utt' = utt /\ hmm' = hmm /\ heard' = heard /\ phase' = phase
        /\ inventory' = inventory /\ forw' = forw /\ back' = back /\ local' = local
        /\ outcomes' = outcomes /\ fallback' = fallback
    BY DEF vars
  <1>2. /\ Scorings' = Scorings /\ CISenones' = CISenones /\ Frames' = Frames
        /\ FinalState' = FinalState /\ ArcTables' = ArcTables /\ (Scorable => Scorable')
        /\ \A f : Sounding(f)' = Sounding(f)
    BY <1>1, SameSentence
  <1>3. FramesKept'
    BY <1>1, <1>2, SameFrames DEF TypeInv
  <1>4. OutcomesCounted'
    BY <1>1 DEF TypeInv, OutcomesCounted
  <1>5. BackTyped => BackTyped'
    <2>1. SUFFICES ASSUME BackTyped PROVE BackTyped'
      OBVIOUS
    <2>2. FinalReached' /\ NatValued(local'.senones)
      BY <1>1, <1>2, <2>1 DEF BackTyped, FinalReached
    <2>3. Sounding(forw[back.frame])' = Sounding(forw[back.frame])
      BY <1>1 DEF Sounding
    <2>4. /\ Len(forw') = Frames' /\ back'.frame \in 1 .. Frames'
          /\ back'.beta \in [States(hmm') -> Nat]
          /\ local'.arcs \in ArcTables'
      BY <1>1, <1>2, <2>1 DEF BackTyped
    <2>5. back'.active \in SUBSET (Sounding(forw[back.frame])')
      BY <1>1, <2>1, <2>3 DEF BackTyped
    <2> QED
      BY <2>2, <2>4, <2>5 DEF BackTyped, NatValued
  <1>6. PhaseTyped'
    BY <1>1, <1>2, <1>5 DEF TypeInv, PhaseTyped
  <1> QED
    BY <1>1, <1>2, <1>3, <1>4, <1>6 DEF TypeInv

LEMMA TypeInvStep ==
    TypeInv /\ GraphInv /\ ModelInv /\ MassInv' /\ [Next]_vars => TypeInv'
  <1> SUFFICES ASSUME TypeInv, GraphInv, ModelInv, MassInv', [Next]_vars PROVE TypeInv'
    OBVIOUS
  <1>1. CASE Generate
    BY <1>1, GenerateTyped
  <1>2. CASE BuildUttStateSeq
    BY <1>2, BuildTyped
  <1>3. CASE phase \in {"forward", "backward"} /\ (ForwardFirst \/ ForwardFrame
             \/ FinalStateNotReached \/ BackwardStart \/ BackwardFrame \/ BackwardEnd)
    <2>1. Passing
      BY <1>3, PassesAre
    <2> QED
      BY <1>3, <2>1, ForwardFirstTyped, ForwardFrameTyped, NotReachedTyped,
         BackwardStartTyped, BackwardFrameTyped, BackwardEndTyped
  <1>4. CASE NextUtterance
    BY <1>4, NextTyped
  <1>5. CASE UNCHANGED vars
    BY <1>5, TypeInvStutter
  <1>6. ForwardFirst \/ ForwardFrame \/ FinalStateNotReached
        \/ BackwardStart \/ BackwardFrame \/ BackwardEnd => phase \in {"forward", "backward"}
    BY DEF ForwardFirst, ForwardFrame, FinalStateNotReached, BackwardStart, BackwardFrame,
           BackwardEnd
  <1> QED
    BY <1>1, <1>2, <1>3, <1>4, <1>5, <1>6 DEF Next

\* What is active in a frame has a positive alpha and is listed once, the backward pass
\* looks only at emitting states that the forward pass kept, counts are never negative,
\* each utterance that is over has one outcome, and only the context-independent models
\* of spoken phones are recorded as fallbacks (forward.c, backward.c, baum_welch.c).
THEOREM TypesHold == Spec => []TypeOK
  <1>1. Init => GraphInv /\ ModelInv /\ MassInv /\ TypeInv
    BY GraphInvInit, ModelInvInit, MassInvInit, TypeInvInit
  <1>2. GraphInv /\ ModelInv /\ MassInv /\ TypeInv /\ [Next]_vars
        => (GraphInv /\ ModelInv /\ MassInv /\ TypeInv)'
    BY GraphInvStep, ModelInvStep, MassInvStep, TypeInvStep
  <1>3. GraphInv /\ TypeInv => TypeOK
    BY TypeInvTypes
  <1> QED
    BY <1>1, <1>2, <1>3, PTL DEF Spec

-----------------------------------------------------------------------------
(* Only accepted utterances are counted.                                   *)

\* The inductive invariant, for the session's totals.
CountInv == IsSeq(totals) /\ AcceptedAreCounted

LEMMA NothingCounted ==
    ASSUME CountInv, totals' = totals, outcomes' = outcomes
    PROVE  CountInv'
  BY DEF CountInv, AcceptedAreCounted

LEMMA Unaccepted ==
    ASSUME CountInv, outcomes \in Seq(Outcomes), NEW o \in Outcomes, o # "accepted",
           outcomes' = Append(outcomes, o), totals' = totals
    PROVE  CountInv'
  <1>1. /\ DOMAIN outcomes = 1 .. Len(outcomes) /\ DOMAIN outcomes' = 1 .. Len(outcomes) + 1
        /\ outcomes'[Len(outcomes) + 1] = o
        /\ \A i \in 1 .. Len(outcomes) : outcomes'[i] = outcomes[i]
        /\ Len(outcomes) \in Nat
    OBVIOUS
  <1>2. ASSUME NEW i
        PROVE  (i \in DOMAIN outcomes' /\ outcomes'[i] = "accepted")
               <=> (i \in DOMAIN outcomes /\ outcomes[i] = "accepted")
    <2>1. CASE i \in 1 .. Len(outcomes)
      BY <1>1, <2>1
    <2>2. CASE i = Len(outcomes) + 1
      BY <1>1, <2>2
    <2>3. CASE i \notin 1 .. Len(outcomes) + 1
      BY <1>1, <2>3
    <2> QED
      BY <1>1, <2>1, <2>2, <2>3
  <1>3. {i \in DOMAIN outcomes' : outcomes'[i] = "accepted"}
        = {i \in DOMAIN outcomes : outcomes[i] = "accepted"}
    BY <1>2
  <1> QED
    BY <1>3 DEF CountInv, AcceptedAreCounted

LEMMA OneCounted ==
    ASSUME CountInv, outcomes \in Seq(Outcomes), Len(outcomes) = utt - 1, utt \in Nat,
           outcomes' = Append(outcomes, "accepted"),
           NEW added, added.utt = utt, added.final # 0, totals' = Append(totals, added)
    PROVE  CountInv'
  <1> DEFINE n == Len(totals)
             S == Range(totals) \cup {added}
  <1>1. totals \in Seq(Range(totals)) /\ n \in Nat /\ DOMAIN totals = 1 .. n
    BY DEF CountInv, IsSeq
  <1>2. totals \in Seq(S) /\ added \in S
    BY <1>1
  <1> HIDE DEF S
  <1>3. /\ totals' \in Seq(S) /\ Len(totals') = n + 1 /\ DOMAIN totals' = 1 .. n + 1
        /\ totals'[n + 1] = added /\ \A k \in 1 .. n : totals'[k] = totals[k]
    BY <1>1, <1>2
  <1>4. IsSeq(totals')
    BY <1>3, SeqOfRange DEF IsSeq
  <1>5. /\ DOMAIN outcomes = 1 .. utt - 1 /\ DOMAIN outcomes' = 1 .. utt
        /\ outcomes'[utt] = "accepted"
        /\ \A i \in 1 .. utt - 1 : outcomes'[i] = outcomes[i]
    <2>1. \A i \in 1 .. Len(outcomes) : outcomes'[i] = outcomes[i]
      OBVIOUS
    <2>2. outcomes'[Len(outcomes) + 1] = "accepted" /\ Len(outcomes') = Len(outcomes) + 1
      OBVIOUS
    <2> QED
      BY <2>1, <2>2
  <1>6. {i \in DOMAIN outcomes' : outcomes'[i] = "accepted"}
        = {i \in DOMAIN outcomes : outcomes[i] = "accepted"} \cup {utt}
    <2>1. ASSUME NEW i
          PROVE  (i \in DOMAIN outcomes' /\ outcomes'[i] = "accepted")
                 <=> (i \in DOMAIN outcomes /\ outcomes[i] = "accepted") \/ i = utt
      <3>1. CASE i = utt
        BY <1>5, <3>1
      <3>2. CASE i # utt
        BY <1>5, <3>2
      <3> QED
        BY <3>1, <3>2
    <2> QED
      BY <2>1
  <1> HIDE DEF n
  <1>7. {totals'[k].utt : k \in DOMAIN totals'} = {totals[k].utt : k \in DOMAIN totals} \cup {utt}
    <2> DEFINE A == {totals'[k].utt : k \in 1 .. n + 1}
               B == {totals[k].utt : k \in 1 .. n}
    <2>1. ASSUME NEW x
          PROVE  (\E k \in 1 .. n + 1 : x = totals'[k].utt)
                 <=> (\E k \in 1 .. n : x = totals[k].utt) \/ x = utt
      <3>1. \A k \in 1 .. n : k \in 1 .. n + 1 /\ totals'[k].utt = totals[k].utt
        BY <1>1, <1>3
      <3>2. n + 1 \in 1 .. n + 1 /\ totals'[n + 1].utt = utt
        BY <1>1, <1>3
      <3>3. \A k \in 1 .. n + 1 : k \in 1 .. n \/ k = n + 1
        BY <1>1
      <3> QED
        BY <3>1, <3>2, <3>3
    <2>2. ASSUME NEW x PROVE x \in A <=> x \in B \cup {utt}
      <3>1. x \in A <=> \E k \in 1 .. n + 1 : x = totals'[k].utt
        OBVIOUS
      <3>2. x \in B <=> \E k \in 1 .. n : x = totals[k].utt
        OBVIOUS
      <3> HIDE DEF A, B
      <3> QED
        BY <2>1, <3>1, <3>2
    <2>3. {totals'[k].utt : k \in DOMAIN totals'} = A /\ {totals[k].utt : k \in DOMAIN totals} = B
      BY <1>1, <1>3
    <2> HIDE DEF A, B
    <2>4. A = B \cup {utt}
      BY <2>2
    <2> QED
      BY <2>3, <2>4
  <1>8. ASSUME NEW k \in 1 .. n PROVE totals[k].utt < utt
    <2>1. totals[k].utt \in DOMAIN outcomes
      BY <1>1, <1>8 DEF CountInv, AcceptedAreCounted
    <2> QED
      BY <1>5, <2>1
  <1>9. ASSUME NEW k \in 1 .. n + 1
        PROVE  totals'[k].final # 0 /\ \A j \in 1 .. k - 1 : totals'[j].utt < totals'[k].utt
    <2>1. CASE k = n + 1
      <3>1. \A j \in 1 .. k - 1 : j \in 1 .. n
        BY <1>1, <2>1
      <3> QED
        BY <1>3, <1>8, <2>1, <3>1
    <2>2. CASE k # n + 1
      <3>1. k \in 1 .. n /\ \A j \in 1 .. k - 1 : j \in 1 .. n
        BY <1>1, <2>2
      <3> QED
        BY <1>1, <1>3, <3>1 DEF CountInv, AcceptedAreCounted
    <2> QED
      BY <2>1, <2>2
  <1> QED
    BY <1>3, <1>4, <1>6, <1>7, <1>9 DEF CountInv, AcceptedAreCounted

\* A final state that was kept has an alpha.
LEMMA FinalAlphaPositive ==
    ASSUME Passing, phase = "backward"
    PROVE  FinalAlpha # 0
  <1>1. Len(forw) = Frames /\ FinalReached /\ FramesKept /\ Frames \in Nat \ {0}
    BY DEF Passing, TypeInv, PhaseTyped, BackTyped, Scorable
  <1>2. Positive(forw[Frames])
    BY <1>1 DEF FramesKept
  <1> QED
    BY <1>1, <1>2 DEF FinalReached, FinalAlpha, Positive

LEMMA CountInvStep ==
    CountInv /\ TypeInv /\ GraphInv /\ ModelInv /\ [Next]_vars => CountInv'
  <1> SUFFICES ASSUME CountInv, TypeInv, GraphInv, ModelInv, [Next]_vars PROVE CountInv'
    OBVIOUS
  <1>1. outcomes \in Seq(Outcomes)
    BY DEF TypeInv, OutcomesCounted
  <1>2. ASSUME NEW o \in Outcomes, o # "accepted", Settle(o), totals' = totals PROVE CountInv'
    BY <1>1, <1>2, Unaccepted DEF Settle
  <1>3. CASE totals' = totals /\ outcomes' = outcomes
    BY <1>3, NothingCounted
  <1>4. CASE totals' = totals /\ \E o \in Outcomes : o # "accepted" /\ Settle(o)
    BY <1>2, <1>4
  <1>5. CASE BackwardEnd
    <2>1. Passing /\ phase = "backward"
      BY <1>5, PassesAre DEF BackwardEnd
    <2>2. CASE Settle("failed") /\ totals' = totals
      BY <1>4, <2>2 DEF Outcomes
    <2>3. CASE Settle("accepted") /\ totals' = Append(totals, AccumGlobal(local'.senones))
      <3> DEFINE added == AccumGlobal(local'.senones)
      <3>1. added.utt = utt /\ added.final = FinalAlpha
        BY DEF AccumGlobal
      <3> HIDE DEF added
      <3>2. Len(outcomes) = utt - 1 /\ utt \in Nat /\ added.final # 0
        BY <2>1, <3>1, FinalAlphaPositive DEF Passing, TypeInv, OutcomesCounted
      <3>3. outcomes' = Append(outcomes, "accepted") /\ totals' = Append(totals, added)
        BY <2>3 DEF Settle, added
      <3> QED
        BY <1>1, <3>1, <3>2, <3>3, OneCounted
    <2> QED
      BY <1>5, <2>2, <2>3 DEF BackwardEnd, session
  <1>6. CASE Generate
    BY <1>3, <1>6 DEF Generate, session
  <1>7. CASE BuildUttStateSeq
    BY <1>3, <1>4, <1>7 DEF BuildUttStateSeq, session, Outcomes
  <1>8. CASE ForwardFirst
    BY <1>3, <1>4, <1>8 DEF ForwardFirst, session, Outcomes
  <1>9. CASE ForwardFrame
    BY <1>3, <1>4, <1>9 DEF ForwardFrame, session, Outcomes
  <1>10. CASE FinalStateNotReached
    BY <1>3, <1>4, <1>10 DEF FinalStateNotReached, session, Outcomes
  <1>11. CASE BackwardStart
    BY <1>3, <1>11 DEF BackwardStart, session
  <1>12. CASE BackwardFrame
    BY <1>3, <1>4, <1>12 DEF BackwardFrame, session, Outcomes
  <1>13. CASE NextUtterance
    BY <1>3, <1>13 DEF NextUtterance, session
  <1>14. CASE UNCHANGED vars
    BY <1>3, <1>14 DEF vars
  <1> QED
    BY <1>5, <1>6, <1>7, <1>8, <1>9, <1>10, <1>11, <1>12, <1>13, <1>14 DEF Next

LEMMA CountInvInit == Init => CountInv
  <1> SUFFICES ASSUME Init PROVE CountInv
    OBVIOUS
  <1>1. totals = <<>> /\ outcomes = <<>>
    BY DEF Init
  <1> QED
    BY <1>1 DEF CountInv, IsSeq, AcceptedAreCounted

\* The session's totals hold one entry for each accepted utterance, in the order of the
\* transcripts and over a final alpha that is not zero, and nothing of any other: not of
\* one that fails in the middle of a pass, nor of a first try that is followed by another
\* (baum_welch.c, accum.c).
THEOREM OnlyAcceptedAreCounted == Spec => []AcceptedAreCounted
  <1>1. Init => GraphInv /\ ModelInv /\ MassInv /\ TypeInv /\ CountInv
    BY GraphInvInit, ModelInvInit, MassInvInit, TypeInvInit, CountInvInit
  <1>2. GraphInv /\ ModelInv /\ MassInv /\ TypeInv /\ CountInv /\ [Next]_vars
        => (GraphInv /\ ModelInv /\ MassInv /\ TypeInv /\ CountInv)'
    BY GraphInvStep, ModelInvStep, MassInvStep, TypeInvStep, CountInvStep
  <1>3. CountInv => AcceptedAreCounted
    BY DEF CountInv
  <1> QED
    BY <1>1, <1>2, <1>3, PTL DEF Spec

-----------------------------------------------------------------------------
(* The feasibility search is exact.                                        *)

\* A function of 1 .. n each of whose values depends on the ones before it.
Solves(f, step, n, V) ==
  f \in [1 .. n -> V] /\ \A s \in 1 .. n : f[s] = step[s][f]
Causal(step, n, V) ==
  /\ step \in [1 .. n -> [[1 .. n -> V] -> V]]
  /\ \A s \in 1 .. n : \A f, g \in [1 .. n -> V] :
       (\A p \in 1 .. s - 1 : f[p] = g[p]) => step[s][f] = step[s][g]

LEMMA CourseOfValues ==
    ASSUME NEW n \in Nat, NEW V, NEW v \in V, NEW step, Causal(step, n, V)
    PROVE  \E f : Solves(f, step, n, V)
  <1> DEFINE F == [1 .. n -> V]
             base == [s \in 1 .. n |-> v]
             put == [k \in 1 .. n |-> [f \in F |-> [f EXCEPT ![k] = step[k][f]]]]
  <1>1. base \in F
    OBVIOUS
  <1>2. ASSUME NEW k \in 1 .. n, NEW f \in F PROVE [f EXCEPT ![k] = step[k][f]] \in F
    <2>1. step[k][f] \in V
      BY DEF Causal
    <2> QED
      BY <2>1
  <1>3. put \in [1 .. n -> [F -> F]]
    BY <1>2
  <1>4. \A k \in 1 .. n : \A f \in F : put[k][f] = [f EXCEPT ![k] = step[k][f]]
    OBVIOUS
  <1> HIDE DEF put, base
  <1>5. PICK it : Iterates(it, n, F, base, put)
    <2> HIDE DEF F
    <2> QED
      BY <1>1, <1>3, Iteration
  <1>6. /\ \A k \in 0 .. n : it[k] \in F
        /\ \A k \in 1 .. n : it[k] = [it[k - 1] EXCEPT ![k] = step[k][it[k - 1]]]
    <2>1. it \in [0 .. n -> F] /\ \A k \in 1 .. n : it[k] = put[k][it[k - 1]]
      BY <1>5 DEF Iterates
    <2> HIDE DEF F
    <2>2. \A k \in 0 .. n : it[k] \in F
      BY <2>1
    <2>3. ASSUME NEW k \in 1 .. n PROVE it[k] = [it[k - 1] EXCEPT ![k] = step[k][it[k - 1]]]
      <3>1. k - 1 \in 0 .. n
        OBVIOUS
      <3> QED
        BY <1>4, <2>1, <2>2, <3>1
    <2> QED
      BY <2>2, <2>3
  <1>7. ASSUME NEW k \in 1 .. n
        PROVE  /\ it[k][k] = step[k][it[k - 1]]
               /\ \A s \in 1 .. n : s # k => it[k][s] = it[k - 1][s]
    <2>1. k - 1 \in 0 .. n /\ it[k - 1] \in F
      BY <1>6
    <2> QED
      BY <1>6, <2>1
  <1> DEFINE P == {k \in 0 .. n : \A s \in 1 .. k : it[k][s] = it[s][s]}
  <1>8. 0 \in P
    OBVIOUS
  <1>9. ASSUME NEW k \in 1 .. n, k - 1 \in P PROVE k \in P
    <2>1. ASSUME NEW s \in 1 .. k PROVE it[k][s] = it[s][s]
      <3>1. CASE s = k
        BY <3>1
      <3>2. CASE s # k
        <4>1. s \in 1 .. n /\ s \in 1 .. k - 1
          BY <3>2
        <4> QED
          BY <1>7, <1>9, <3>2, <4>1
      <3> QED
        BY <3>1, <3>2
    <2> QED
      BY <2>1
  <1> HIDE DEF P
  <1>10. \A k \in 0 .. n : k \in P
    BY <1>8, <1>9, UpFromZero
  <1>11. \A k \in 0 .. n : \A s \in 1 .. k : it[k][s] = it[s][s]
    BY <1>10 DEF P
  <1> DEFINE f == it[n]
  <1>12. f \in F
    BY <1>6
  <1>13. ASSUME NEW s \in 1 .. n PROVE f[s] = step[s][f]
    <2>1. f[s] = step[s][it[s - 1]]
      BY <1>7, <1>11
    <2>2. s - 1 \in 0 .. n /\ it[s - 1] \in F
      BY <1>6
    <2>3. ASSUME NEW p \in 1 .. s - 1 PROVE it[s - 1][p] = f[p]
      <3>1. p \in 1 .. n
        OBVIOUS
      <3> QED
        BY <1>11, <2>2, <3>1
    <2> HIDE DEF f
    <2>4. step[s][it[s - 1]] = step[s][f]
      BY <1>12, <2>2, <2>3 DEF Causal
    <2> QED
      BY <2>1, <2>4
  <1> HIDE DEF f
  <1> QED
    BY <1>12, <1>13 DEF Solves

\* The recursion of MinimumEmittingStates.
Cost(h, s) == IF Emitting(h, s) THEN 1 ELSE 0
Unreachable(h) == Len(h.id) * Width(h) + 1
Earlier(h, f, s) == {p \in 1 .. s - 1 : s \in DOMAIN h.next[p] /\ f[p] < Unreachable(h)}
LeastAt(h, f, s) ==
  IF s = 1 THEN Cost(h, s)
  ELSE IF Earlier(h, f, s) = {} THEN Unreachable(h)
  ELSE Cost(h, s) + Min({f[p] : p \in Earlier(h, f, s)})
LeastOver(h, f) ==
  /\ f \in [States(h) -> Nat]
  /\ \A s \in States(h) : f[s] = LeastAt(h, f, s)

LEMMA LeastIsNat ==
    ASSUME NEW h, NEW n \in Nat, n = Len(h.id) * Width(h), NEW f \in [1 .. n -> Nat],
           NEW s \in 1 .. n
    PROVE  LeastAt(h, f, s) \in Nat
  <1> DEFINE D == {f[p] : p \in Earlier(h, f, s)}
  <1>1. Cost(h, s) \in Nat /\ Unreachable(h) \in Nat
    BY DEF Cost, Unreachable
  <1>2. Earlier(h, f, s) \in SUBSET (1 .. n)
    BY DEF Earlier
  <1>3. D \in SUBSET Nat
    BY <1>2
  <1>4. CASE s # 1 /\ Earlier(h, f, s) # {}
    <2>1. D # {}
      BY <1>4
    <2> HIDE DEF D
    <2>2. Min(D) \in Nat
      BY <1>3, <2>1, MinIn
    <2>3. LeastAt(h, f, s) = Cost(h, s) + Min(D)
      BY <1>4 DEF LeastAt, D
    <2> QED
      BY <1>1, <2>2, <2>3
  <1> QED
    BY <1>1, <1>4 DEF LeastAt

LEMMA LeastIsCausal ==
    ASSUME NEW h, NEW s, NEW f, NEW g, \A p \in 1 .. s - 1 : f[p] = g[p]
    PROVE  LeastAt(h, f, s) = LeastAt(h, g, s)
  <1>1. Earlier(h, f, s) = Earlier(h, g, s)
    BY DEF Earlier
  <1>2. \A p \in Earlier(h, f, s) : f[p] = g[p]
    BY DEF Earlier
  <1>3. {f[p] : p \in Earlier(h, f, s)} = {g[p] : p \in Earlier(h, g, s)}
    BY <1>1, <1>2
  <1> QED
    BY <1>1, <1>3 DEF LeastAt

LEMMA LeastExists ==
    ASSUME NEW h, NEW n \in Nat, n = Len(h.id) * Width(h)
    PROVE  \E f : LeastOver(h, f)
  <1> DEFINE step == [s \in 1 .. n |-> [f \in [1 .. n -> Nat] |-> LeastAt(h, f, s)]]
  <1>1. step \in [1 .. n -> [[1 .. n -> Nat] -> Nat]]
    BY LeastIsNat
  <1>2. \A s \in 1 .. n : \A f \in [1 .. n -> Nat] : step[s][f] = LeastAt(h, f, s)
    OBVIOUS
  <1> HIDE DEF step
  <1>3. Causal(step, n, Nat)
    <2> SUFFICES ASSUME NEW s \in 1 .. n, NEW f \in [1 .. n -> Nat], NEW g \in [1 .. n -> Nat],
                        \A p \in 1 .. s - 1 : f[p] = g[p]
                 PROVE  step[s][f] = step[s][g]
      BY <1>1 DEF Causal
    <2>1. LeastAt(h, f, s) = LeastAt(h, g, s)
      BY LeastIsCausal
    <2> QED
      BY <1>2, <2>1
  <1>4. PICK f : Solves(f, step, n, Nat)
    <2> DEFINE V == Nat
    <2>1. 0 \in V /\ Causal(step, n, V)
      BY <1>3
    <2> HIDE DEF V
    <2>2. \E f : Solves(f, step, n, V)
      BY <2>1, CourseOfValues
    <2> QED
      BY <2>2 DEF V
  <1>5. States(h) = 1 .. n
    BY DEF States
  <1> QED
    BY <1>2, <1>4, <1>5 DEF LeastOver, Solves

LEMMA LeastRuns ==
    ASSUME NEW h, NEW n \in Nat \ {0}, n = Len(h.id) * Width(h)
    PROVE  \E f : LeastOver(h, f) /\ MinimumEmittingStates(h) = f[n]
  <1>1. PICK f : LeastOver(h, f)
    BY LeastExists
  <1> DEFINE none == Len(h.id) * Width(h) + 1
             least[s \in States(h)] ==
               LET cost == IF Emitting(h, s) THEN 1 ELSE 0
                   before == {p \in 1 .. s - 1 : s \in DOMAIN h.next[p] /\ least[p] < none}
               IN  IF s = 1 THEN cost
                   ELSE IF before = {} THEN none
                   ELSE cost + Min({least[p] : p \in before})
  <1>2. MinimumEmittingStates(h) = least[n]
    BY DEF MinimumEmittingStates
  <1>3. f = [s \in States(h) |->
               LET cost == IF Emitting(h, s) THEN 1 ELSE 0
                   before == {p \in 1 .. s - 1 : s \in DOMAIN h.next[p] /\ f[p] < none}
               IN  IF s = 1 THEN cost
                   ELSE IF before = {} THEN none
                   ELSE cost + Min({f[p] : p \in before})]
    <2>1. \A s \in States(h) : f[s] = LeastAt(h, f, s)
      BY <1>1 DEF LeastOver
    <2>2. f = [s \in States(h) |-> LeastAt(h, f, s)]
      BY <1>1, <2>1 DEF LeastOver
    <2> QED
      BY <2>2 DEF LeastAt, Earlier, Cost, Unreachable
  <1>4. least = [s \in States(h) |->
               LET cost == IF Emitting(h, s) THEN 1 ELSE 0
                   before == {p \in 1 .. s - 1 : s \in DOMAIN h.next[p] /\ least[p] < none}
               IN  IF s = 1 THEN cost
                   ELSE IF before = {} THEN none
                   ELSE cost + Min({least[p] : p \in before})]
    BY <1>3, ZenonT(30)
  <1> HIDE DEF least
  <1>5. least = [s \in States(h) |-> LeastAt(h, least, s)]
    <2>1. ASSUME NEW s PROVE {p \in 1 .. s - 1 : s \in DOMAIN h.next[p] /\ least[p] < none} = Earlier(h, least, s)
      BY DEF Earlier, Unreachable
    <2>2. none = Unreachable(h)
      BY DEF Unreachable
    <2>3. ASSUME NEW s \in States(h) PROVE least[s] = LeastAt(h, least, s)
      <3>1. least[s] = LET cost == IF Emitting(h, s) THEN 1 ELSE 0
                           before == {p \in 1 .. s - 1 : s \in DOMAIN h.next[p] /\ least[p] < none}
                       IN  IF s = 1 THEN cost
                           ELSE IF before = {} THEN none
                           ELSE cost + Min({least[p] : p \in before})
        BY <1>4
      <3> QED
        BY <2>1, <2>2, <3>1 DEF LeastAt, Cost
    <2>4. DOMAIN least = States(h) /\ least = [s \in DOMAIN least |-> least[s]]
      BY <1>4
    <2> QED
      BY <2>3, <2>4
  <1>6. States(h) = 1 .. n /\ States(h) \in SUBSET Nat
    BY DEF States
  <1> DEFINE out == {s \in 1 .. n : least[s] # f[s]}
  <1>7. out = {}
    <2> SUFFICES ASSUME out # {} PROVE FALSE
      OBVIOUS
    <2>1. out \in SUBSET Nat
      OBVIOUS
    <2>2. PICK s \in out : \A p \in out : s <= p
      <3> HIDE DEF out
      <3> QED
        BY <2>1, LeastOne
    <2>3. s \in 1 .. n /\ least[s] # f[s]
      OBVIOUS
    <2>4. \A p \in 1 .. s - 1 : p \in 1 .. n /\ p \notin out
      BY <2>2, <2>3
    <2>5. \A p \in 1 .. s - 1 : least[p] = f[p]
      BY <2>4
    <2> HIDE DEF out
    <2>6. LeastAt(h, least, s) = LeastAt(h, f, s)
      BY <2>5, LeastIsCausal
    <2> QED
      BY <1>1, <1>5, <1>6, <2>3, <2>6 DEF LeastOver
  <1>8. least[n] = f[n]
    BY <1>7
  <1> QED
    BY <1>1, <1>2, <1>8

\* The ways of a sentence HMM from its first state, those that end in its last, and the
\* frames that the first k states of a way take at least.
FromFirst(h, p) ==
  /\ p \in Seq(States(h)) /\ Len(p) # 0 /\ p[1] = 1
  /\ \A k \in 1 .. Len(p) - 1 : p[k + 1] \in DOMAIN h.next[p[k]]
ToFinal(h, p) == FromFirst(h, p) /\ p[Len(p)] = Len(h.id) * Width(h)
Spent(h, p, k) == Cardinality({i \in 1 .. k : Emitting(h, p[i])})

LEMMA SpentMore ==
    ASSUME NEW h, NEW p, NEW k \in Nat
    PROVE  /\ Spent(h, p, k) \in Nat /\ Spent(h, p, 0) = 0
           /\ Spent(h, p, k + 1) = Spent(h, p, k) + Cost(h, p[k + 1])
  <1> DEFINE A == {i \in 1 .. k : Emitting(h, p[i])}
             B == {i \in 1 .. k + 1 : Emitting(h, p[i])}
  <1>1. IsFiniteSet(1 .. k)
    <2>1. 1 \in Int /\ k \in Int
      OBVIOUS
    <2> QED
      BY <2>1, FS_Interval
  <1>2. IsFiniteSet(A) /\ Cardinality(A) \in Nat
    <2>1. A \in SUBSET (1 .. k)
      OBVIOUS
    <2> HIDE DEF A
    <2> QED
      BY <1>1, <2>1, FS_Subset, FS_CardinalityType
  <1>3. {i \in 1 .. 0 : Emitting(h, p[i])} = {}
    OBVIOUS
  <1>4. CASE Emitting(h, p[k + 1])
    <2>1. B = A \cup {k + 1} /\ k + 1 \notin A
      BY <1>4
    <2> HIDE DEF A, B
    <2>2. Cardinality(B) = Cardinality(A) + 1
      BY <1>2, <2>1, FS_AddElement
    <2> QED
      BY <1>2, <1>3, <1>4, <2>2, FS_EmptySet DEF Spent, Cost, A, B
  <1>5. CASE ~Emitting(h, p[k + 1])
    <2>1. B = A
      <3>1. \A i \in 1 .. k + 1 : i \in 1 .. k \/ i = k + 1
        OBVIOUS
      <3> QED
        BY <1>5, <3>1
    <2> HIDE DEF A, B
    <2> QED
      BY <1>2, <1>3, <1>5, <2>1, FS_EmptySet DEF Spent, Cost, A, B
  <1> QED
    BY <1>4, <1>5

LEMMA LeastCases ==
    ASSUME NEW h, NEW f, NEW s
    PROVE  /\ s = 1 => LeastAt(h, f, s) = Cost(h, s)
           /\ s # 1 /\ Earlier(h, f, s) = {} => LeastAt(h, f, s) = Unreachable(h)
           /\ s # 1 /\ Earlier(h, f, s) # {} =>
                LeastAt(h, f, s) = Cost(h, s) + Min({f[p] : p \in Earlier(h, f, s)})
  <1>1. ASSUME s = 1 PROVE LeastAt(h, f, s) = Cost(h, s)
    BY <1>1 DEF LeastAt
  <1>2. ASSUME s # 1, Earlier(h, f, s) = {} PROVE LeastAt(h, f, s) = Unreachable(h)
    BY <1>2, Zenon DEF LeastAt
  <1>3. ASSUME s # 1, Earlier(h, f, s) # {}
        PROVE  LeastAt(h, f, s) = Cost(h, s) + Min({f[p] : p \in Earlier(h, f, s)})
    BY <1>3, Zenon DEF LeastAt
  <1> QED
    BY <1>1, <1>2, <1>3

\* One arc ahead costs the state it leads to.
LEMMA LeastGrows ==
    ASSUME NEW h, NEW n \in Nat \ {0}, n = Len(h.id) * Width(h), NEW f, LeastOver(h, f),
           NEW s \in 1 .. n, NEW t \in 1 .. n, s < t, t \in DOMAIN h.next[s], f[s] <= s
    PROVE  f[t] <= f[s] + Cost(h, t)
  <1>1. States(h) = 1 .. n /\ f \in [1 .. n -> Nat] /\ f[t] = LeastAt(h, f, t)
    BY DEF LeastOver, States
  <1>2. s \in Earlier(h, f, t) /\ Earlier(h, f, t) \in SUBSET (1 .. n)
    BY <1>1 DEF Earlier, Unreachable
  <1> DEFINE D == {f[p] : p \in Earlier(h, f, t)}
  <1>3. D \in SUBSET Nat /\ f[s] \in D
    BY <1>1, <1>2
  <1>4. f[t] = Cost(h, t) + Min(D)
    <2>1. t # 1 /\ Earlier(h, f, t) # {}
      BY <1>2
    <2> QED
      BY <1>1, <2>1, LeastCases
  <1> HIDE DEF D
  <1>5. Min(D) \in Nat /\ Min(D) <= f[s]
    BY <1>3, MinIn
  <1>6. Cost(h, t) \in Nat /\ f[s] \in Nat
    BY <1>1 DEF Cost
  <1> QED
    BY <1>4, <1>5, <1>6

\* No way takes fewer frames to a state than the search finds.
LEMMA LeastIsBound ==
    ASSUME NEW h, NEW n \in Nat \ {0}, n = Len(h.id) * Width(h), Ahead(h),
           NEW f, LeastOver(h, f), NEW p, FromFirst(h, p)
    PROVE  \A k \in 1 .. Len(p) : f[p[k]] <= Spent(h, p, k) /\ f[p[k]] <= p[k]
  <1> DEFINE P == {k \in 1 .. Len(p) : f[p[k]] <= Spent(h, p, k) /\ f[p[k]] <= p[k]}
  <1>1. /\ States(h) = 1 .. n /\ f \in [1 .. n -> Nat]
        /\ \A s \in 1 .. n : f[s] = LeastAt(h, f, s)
    BY DEF LeastOver, States
  <1>2. /\ p \in Seq(1 .. n) /\ Len(p) \in Nat \ {0} /\ p[1] = 1
        /\ \A k \in 1 .. Len(p) - 1 : p[k + 1] \in DOMAIN h.next[p[k]]
    BY <1>1 DEF FromFirst
  <1>3. \A s : Cost(h, s) \in Nat /\ Cost(h, s) <= 1
    BY DEF Cost
  <1>4. 1 \in P
    <2>1. f[1] = Cost(h, 1)
      <3>1. 1 \in 1 .. n
        OBVIOUS
      <3>2. LeastAt(h, f, 1) = Cost(h, 1)
        BY DEF LeastAt
      <3> QED
        BY <1>1, <3>1, <3>2
    <2>2. 0 \in Nat /\ 0 + 1 = 1
      OBVIOUS
    <2>3. Spent(h, p, 0) = 0 /\ Spent(h, p, 0 + 1) = Spent(h, p, 0) + Cost(h, p[0 + 1])
      BY <2>2, SpentMore
    <2>4. Spent(h, p, 1) = Cost(h, 1)
      BY <1>2, <1>3, <2>2, <2>3
    <2> QED
      BY <1>2, <1>3, <2>1, <2>4
  <1>5. ASSUME NEW m \in 1 + 1 .. Len(p), m - 1 \in P PROVE m \in P
    <2> DEFINE k == m - 1
               s == p[k]
               t == p[m]
    <2>1. k \in 1 .. Len(p) - 1 /\ k \in Nat /\ m = k + 1 /\ k \in 1 .. Len(p) /\ m \in 1 .. Len(p)
      <3> DEFINE l == Len(p)
      <3>1. l \in Nat /\ m \in 1 + 1 .. l
        BY <1>2
      <3> HIDE DEF l
      <3>2. k \in 1 .. l - 1 /\ k \in Nat /\ m = k + 1 /\ k \in 1 .. l /\ m \in 1 .. l
        BY <3>1
      <3> QED
        BY <3>2 DEF l
    <2>2. s \in 1 .. n /\ t \in 1 .. n /\ t \in DOMAIN h.next[s]
      <3>1. p \in Seq(1 .. n)
        BY <1>2
      <3>2. \A i \in 1 .. Len(p) : p[i] \in 1 .. n
        BY <3>1
      <3>3. p[k] \in 1 .. n /\ p[m] \in 1 .. n
        BY <2>1, <3>2
      <3>4. p[k + 1] \in DOMAIN h.next[p[k]]
        BY <1>2, <2>1
      <3>5. k + 1 = m
        BY <2>1
      <3> QED
        BY <3>3, <3>4, <3>5
    <2>3. s <= t
      BY <1>1, <2>2 DEF Ahead
    <2>4. f[s] <= Spent(h, p, k) /\ f[s] <= s /\ f[s] \in Nat
      BY <1>1, <1>5, <2>2
    <2>5. Spent(h, p, k) \in Nat /\ Spent(h, p, m) = Spent(h, p, k) + Cost(h, t)
      BY <2>1, SpentMore
    <2> HIDE DEF k, s, t
    <2>6. f[t] <= f[s] + Cost(h, t) /\ f[t] <= t
      <3>1. CASE s = t
        BY <1>3, <2>4, <3>1
      <3>2. CASE s # t
        <4>1. s < t
          BY <2>2, <2>3, <3>2
        <4>2. f[t] <= f[s] + Cost(h, t)
          BY <2>2, <2>4, <4>1, LeastGrows
        <4>3. f[t] \in Nat /\ Cost(h, t) \in Nat /\ Cost(h, t) <= 1
          BY <1>1, <1>3, <2>2
        <4> QED
          BY <2>2, <2>4, <4>1, <4>2, <4>3
      <3> QED
        BY <3>1, <3>2
    <2>7. f[t] \in Nat /\ Cost(h, t) \in Nat
      BY <1>1, <1>3, <2>2
    <2>8. f[t] <= Spent(h, p, m)
      BY <2>4, <2>5, <2>6, <2>7
    <2> QED
      BY <2>1, <2>6, <2>8 DEF t
  <1> HIDE DEF P
  <1>6. 1 \in Nat /\ Len(p) \in Nat
    BY <1>2
  <1>7. \A k \in 1 .. Len(p) : k \in P
    BY <1>4, <1>5, <1>6, Upwards
  <1> QED
    BY <1>7 DEF P

\* One state more.
LEMMA WayGrows ==
    ASSUME NEW h, NEW p, FromFirst(h, p), NEW t \in States(h), t \in DOMAIN h.next[p[Len(p)]]
    PROVE  \E q : /\ FromFirst(h, q) /\ q[Len(q)] = t
                  /\ Spent(h, q, Len(q)) = Spent(h, p, Len(p)) + Cost(h, t)
  <1> DEFINE q == Append(p, t)
             m == Len(p)
  <1>1. /\ p \in Seq(States(h)) /\ m \in Nat \ {0} /\ p[1] = 1
        /\ \A k \in 1 .. m - 1 : p[k + 1] \in DOMAIN h.next[p[k]]
    BY DEF FromFirst
  <1>2. /\ q \in Seq(States(h)) /\ Len(q) = m + 1 /\ q[m + 1] = t
        /\ \A k \in 1 .. m : q[k] = p[k]
    BY <1>1
  <1>3. t \in DOMAIN h.next[p[m]]
    OBVIOUS
  <1> HIDE DEF q, m
  <1>4. ASSUME NEW k \in 1 .. Len(q) - 1 PROVE q[k + 1] \in DOMAIN h.next[q[k]]
    <2>1. CASE k = m
      <3>1. q[k + 1] = t /\ q[k] = p[m]
        BY <1>1, <1>2, <2>1
      <3> QED
        BY <1>3, <3>1
    <2>2. CASE k # m
      <3>1. k \in 1 .. m - 1 /\ k \in 1 .. m /\ k + 1 \in 1 .. m
        BY <1>1, <1>2, <2>2
      <3> QED
        BY <1>1, <1>2, <3>1
    <2> QED
      BY <2>1, <2>2
  <1>5. FromFirst(h, q)
    BY <1>1, <1>2, <1>4 DEF FromFirst
  <1>6. Spent(h, q, m + 1) = Spent(h, q, m) + Cost(h, q[m + 1])
    BY <1>1, SpentMore
  <1>7. Spent(h, q, m) = Spent(h, p, m)
    <2>1. {i \in 1 .. m : Emitting(h, q[i])} = {i \in 1 .. m : Emitting(h, p[i])}
      BY <1>2
    <2> QED
      BY <2>1 DEF Spent
  <1> QED
    BY <1>2, <1>5, <1>6, <1>7 DEF m

\* Some way takes as few, to each state that the search reaches.
LEMMA LeastIsAttained ==
    ASSUME NEW h, NEW n \in Nat \ {0}, n = Len(h.id) * Width(h), NEW f, LeastOver(h, f),
           NEW s \in 1 .. n, f[s] <= n
    PROVE  \E p : FromFirst(h, p) /\ p[Len(p)] = s /\ Spent(h, p, Len(p)) = f[s]
  <1> DEFINE Had(x) == \E p : FromFirst(h, p) /\ p[Len(p)] = x /\ Spent(h, p, Len(p)) = f[x]
             out == {x \in 1 .. n : f[x] <= n /\ ~Had(x)}
  <1>1. /\ States(h) = 1 .. n /\ f \in [1 .. n -> Nat]
        /\ \A x \in 1 .. n : f[x] = LeastAt(h, f, x)
    BY DEF LeastOver, States
  <1>2. SUFFICES ASSUME out # {} PROVE FALSE
    OBVIOUS
  <1>3. out \in SUBSET Nat
    OBVIOUS
  <1>4. PICK t \in out : \A x \in out : t <= x
    <2> HIDE DEF out
    <2> QED
      BY <1>2, <1>3, LeastOne
  <1>5. t \in 1 .. n /\ f[t] <= n /\ ~Had(t)
    OBVIOUS
  <1>6. \A x \in 1 .. t - 1 : f[x] <= n => Had(x)
    BY <1>4, <1>5
  <1> HIDE DEF out
  <1>7. CASE t = 1
    <2> DEFINE p == <<1>>
    <2>1. p \in Seq(States(h)) /\ Len(p) = 1 /\ p[1] = 1
      BY <1>1, <1>5, <1>7
    <2> HIDE DEF p
    <2>2. FromFirst(h, p)
      BY <2>1 DEF FromFirst
    <2>3. 0 \in Nat /\ 0 + 1 = 1
      OBVIOUS
    <2>4. Spent(h, p, 0) = 0 /\ Spent(h, p, 0 + 1) = Spent(h, p, 0) + Cost(h, p[0 + 1])
      BY <2>3, SpentMore
    <2>5. Cost(h, 1) \in Nat /\ f[1] = Cost(h, 1)
      BY <1>1, <1>5, <1>7, LeastCases DEF Cost
    <2>6. Spent(h, p, Len(p)) = f[1]
      BY <2>1, <2>3, <2>4, <2>5
    <2> QED
      BY <1>5, <1>7, <2>1, <2>2, <2>6
  <1>8. CASE t # 1
    <2> DEFINE before == Earlier(h, f, t)
               D == {f[x] : x \in before}
    <2>1. before # {}
      <3>1. before = {} => f[t] = Unreachable(h)
        BY <1>1, <1>5, <1>8, LeastCases
      <3>2. Unreachable(h) = n + 1 /\ f[t] \in Nat
        BY <1>1, <1>5 DEF Unreachable
      <3> HIDE DEF before
      <3> QED
        BY <1>5, <3>1, <3>2
    <2>2. before \in SUBSET (1 .. n) /\ before \in SUBSET (1 .. t - 1)
      BY <1>5 DEF Earlier
    <2>3. D \in SUBSET Nat /\ D # {}
      BY <1>1, <2>1, <2>2
    <2>4. f[t] = Cost(h, t) + Min(D)
      BY <1>1, <1>5, <1>8, <2>1, LeastCases
    <2>5. Min(D) \in D
      <3> HIDE DEF D
      <3> QED
        BY <2>3, MinIn
    <2>6. PICK x \in before : f[x] = Min(D)
      BY <2>5
    <2> HIDE DEF D
    <2>7. x \in 1 .. t - 1 /\ t \in DOMAIN h.next[x] /\ f[x] \in Nat /\ f[x] <= n
      BY <1>1, <2>2, <2>6 DEF Earlier, Unreachable
    <2>8. PICK p : FromFirst(h, p) /\ p[Len(p)] = x /\ Spent(h, p, Len(p)) = f[x]
      BY <1>6, <2>7
    <2>9. PICK q : /\ FromFirst(h, q) /\ q[Len(q)] = t
                   /\ Spent(h, q, Len(q)) = Spent(h, p, Len(p)) + Cost(h, t)
      <3>1. t \in States(h) /\ t \in DOMAIN h.next[p[Len(p)]]
        BY <1>1, <1>5, <2>7, <2>8
      <3> QED
        BY <2>8, <3>1, WayGrows
    <2>10. Cost(h, t) \in Nat
      BY DEF Cost
    <2>11. Spent(h, q, Len(q)) = f[t]
      BY <2>4, <2>6, <2>7, <2>8, <2>9, <2>10
    <2> QED
      BY <1>5, <2>9, <2>11
  <1> QED
    BY <1>7, <1>8

\* The ways through the sentence HMM at hand, and the emitting states of each.
WaysThrough == {p \in Seq(States(hmm)) : ToFinal(hmm, p)}
Emissions(p) == Spent(hmm, p, Len(p))

\* The fewest emitting states on a path, as the search finds them, are a bound on every
\* way through the HMM, and one that some way meets unless the final state is out of reach
\* (feasibility.py, minimum_emitting_states).
FeasibilityIsExact ==
  Built =>
    /\ \A p \in WaysThrough : MinimumEmittingStates(hmm) <= Emissions(p)
    /\ MinimumEmittingStates(hmm) <= FinalState =>
         \E p \in WaysThrough : Emissions(p) = MinimumEmittingStates(hmm)

\* An utterance that is set aside without a retry has no way through its HMM that its
\* frames suffice for, at any beam (steps/train.py, feasibility.py).
InfeasibleIsHopeless ==
  phase = "settled" /\ outcomes # <<>> /\ outcomes[Len(outcomes)] = "infeasible" =>
    \A p \in WaysThrough : Frames < Emissions(p)

\* The inductive invariant.
FeasInv ==
  /\ Built => TypedHMM(hmm, setup.K)
  /\ phase = "settled" /\ outcomes # <<>> /\ outcomes[Len(outcomes)] = "infeasible" =>
       Built /\ TooShort

LEMMA TypedIsExact ==
    ASSUME TypedHMM(hmm, setup.K)
    PROVE  /\ MinimumEmittingStates(hmm) \in Nat
           /\ \A p \in WaysThrough : MinimumEmittingStates(hmm) <= Emissions(p)
           /\ MinimumEmittingStates(hmm) <= FinalState =>
                \E p \in WaysThrough : Emissions(p) = MinimumEmittingStates(hmm)
  <1> DEFINE n == FinalState
  <1>1. n \in Nat \ {0} /\ n = Len(hmm.id) * Width(hmm) /\ Ahead(hmm)
    <2>1. hmm.K = setup.K /\ setup.K \in Nat \ {0} /\ Len(hmm.id) \in Nat \ {0} /\ Ahead(hmm)
      BY DEF TypedHMM
    <2> DEFINE w == setup.K + 1
               l == Len(hmm.id)
    <2>2. FinalState = l * w /\ FinalState = l * Width(hmm) /\ w \in Nat \ {0} /\ l \in Nat \ {0}
      BY <2>1 DEF FinalState, Width
    <2> HIDE DEF w, l
    <2>3. 1 <= w /\ l * 1 <= l * w /\ l * 1 = l /\ l * w \in Nat
      <3>1. 1 \in Nat /\ w \in Nat /\ l \in Nat /\ 1 <= w /\ l * 1 = l
        BY <2>2
      <3> QED
        BY <3>1, Multiples
    <2> QED
      BY <2>1, <2>2, <2>3 DEF l
  <1> HIDE DEF n
  <1>2. PICK f : LeastOver(hmm, f) /\ MinimumEmittingStates(hmm) = f[n]
    BY <1>1, LeastRuns
  <1>3. n \in 1 .. n /\ f[n] \in Nat
    BY <1>1, <1>2 DEF LeastOver, States
  <1>4. ASSUME NEW p \in WaysThrough PROVE f[n] <= Emissions(p)
    <2>1. FromFirst(hmm, p) /\ p[Len(p)] = n /\ Len(p) \in 1 .. Len(p)
      <3>1. p \in Seq(States(hmm)) /\ ToFinal(hmm, p)
        BY DEF WaysThrough
      <3>2. FromFirst(hmm, p) /\ p[Len(p)] = n /\ Len(p) # 0 /\ Len(p) \in Nat
        BY <1>1, <3>1 DEF ToFinal, FromFirst
      <3> QED
        BY <3>2
    <2> QED
      BY <1>1, <1>2, <2>1, LeastIsBound DEF Emissions
  <1>5. ASSUME f[n] <= n PROVE \E p \in WaysThrough : Emissions(p) = f[n]
    <2>1. PICK p : FromFirst(hmm, p) /\ p[Len(p)] = n /\ Spent(hmm, p, Len(p)) = f[n]
      BY <1>1, <1>2, <1>3, <1>5, LeastIsAttained
    <2>2. p \in WaysThrough
      BY <1>1, <2>1 DEF WaysThrough, ToFinal, FromFirst
    <2> QED
      BY <2>1, <2>2 DEF Emissions
  <1> QED
    BY <1>2, <1>3, <1>4, <1>5 DEF n

LEMMA FeasInvShows == FeasInv /\ GraphInv => FeasibilityIsExact /\ InfeasibleIsHopeless
  <1> SUFFICES ASSUME FeasInv, GraphInv PROVE FeasibilityIsExact /\ InfeasibleIsHopeless
    OBVIOUS
  <1>1. FeasibilityIsExact
    BY TypedIsExact DEF FeasInv, FeasibilityIsExact
  <1>2. ASSUME phase = "settled", outcomes # <<>>, outcomes[Len(outcomes)] = "infeasible",
               NEW p \in WaysThrough
        PROVE  Frames < Emissions(p)
    <2>1. TypedHMM(hmm, setup.K) /\ TooShort
      BY <1>2 DEF FeasInv
    <2>2. MinimumEmittingStates(hmm) \in Nat /\ MinimumEmittingStates(hmm) <= Emissions(p)
      BY <2>1, TypedIsExact
    <2>3. Frames \in Nat
      BY ScoresAssumption DEF GraphInv, Frames
    <2>4. Emissions(p) \in Nat
      <3>1. Len(p) \in Nat
        BY DEF WaysThrough
      <3> QED
        BY <3>1, SpentMore DEF Emissions
    <2> QED
      BY <2>1, <2>2, <2>3, <2>4 DEF TooShort
  <1> QED
    BY <1>1, <1>2 DEF InfeasibleIsHopeless

LEMMA FeasInvInit == Init => FeasInv
  BY DEF Init, FeasInv, Built

\* What most steps do.
LEMMA StaysFeasible ==
    ASSUME FeasInv, hmm' = hmm, setup' = setup, phase' # "settled"
    PROVE  FeasInv'
  BY DEF FeasInv, Built

LEMMA SettlesFeasible ==
    ASSUME FeasInv, hmm' = hmm, setup' = setup, outcomes \in Seq(Outcomes),
           NEW o \in Outcomes, o # "infeasible", Settle(o)
    PROVE  FeasInv'
  <1>1. outcomes' = Append(outcomes, o)
    BY DEF Settle
  <1>2. outcomes'[Len(outcomes')] = o
    BY <1>1
  <1> QED
    BY <1>2 DEF FeasInv, Built

LEMMA FeasInvStep ==
    FeasInv /\ TypeInv /\ GraphInv /\ ModelInv /\ [Next]_vars => FeasInv'
  <1> SUFFICES ASSUME FeasInv, TypeInv, GraphInv, ModelInv, [Next]_vars PROVE FeasInv'
    OBVIOUS
  <1>1. outcomes \in Seq(Outcomes)
    BY DEF TypeInv, OutcomesCounted
  <1>2. CASE hmm' = hmm /\ setup' = setup /\ phase' # "settled"
    BY <1>2, StaysFeasible
  <1>3. CASE hmm' = hmm /\ setup' = setup /\ \E o \in Outcomes : o # "infeasible" /\ Settle(o)
    BY <1>1, <1>3, SettlesFeasible
  <1>4. CASE Generate
    BY <1>2, <1>4 DEF Generate, sentence
  <1>5. CASE BuildUttStateSeq
    <2>1. setup' = setup
      BY <1>5 DEF BuildUttStateSeq, building
    <2>2. CASE ~Buildable
      BY <1>3, <1>5, <2>1, <2>2 DEF BuildUttStateSeq, Outcomes
    <2>3. CASE Buildable
      <3>1. TypedHMM(hmm', setup'.K)
        BY <1>5, <2>1, <2>3, BuiltTyped
      <3>2. phase' # "settled" \/ Settle("inspected")
        BY <1>5, <2>3 DEF BuildUttStateSeq
      <3>3. Settle("inspected") => outcomes'[Len(outcomes')] = "inspected"
        BY <1>1 DEF Settle
      <3> QED
        BY <3>1, <3>2, <3>3 DEF FeasInv
    <2> QED
      BY <2>2, <2>3
  <1>6. CASE ForwardFirst
    BY <1>2, <1>3, <1>6 DEF ForwardFirst, building, sentence, Outcomes
  <1>7. CASE ForwardFrame
    BY <1>2, <1>3, <1>7 DEF ForwardFrame, building, sentence, Outcomes
  <1>8. CASE FinalStateNotReached
    <2>1. setup' = setup /\ hmm' = hmm /\ utt' = utt /\ phase = "forward"
      BY <1>8 DEF FinalStateNotReached, building, sentence
    <2>2. CASE TooShort
      <3>1. TypedHMM(hmm, setup.K)
        BY <2>1, PassesAre DEF Passing, Scorable
      <3>2. Built
        <4>1. Len(NoHMM.id) = 0
          BY DEF NoHMM
        <4> QED
          BY <3>1, <4>1 DEF TypedHMM, Built
      <3>3. TooShort' /\ Built'
        BY <2>1, <2>2, <3>2 DEF TooShort, Built, Frames
      <3> QED
        BY <2>1, <3>1, <3>3 DEF FeasInv
    <2>3. CASE ~TooShort
      BY <1>2, <1>3, <1>8, <2>1, <2>3 DEF FinalStateNotReached, Outcomes
    <2> QED
      BY <2>2, <2>3
  <1>9. CASE BackwardStart
    BY <1>2, <1>9 DEF BackwardStart, building, sentence
  <1>10. CASE BackwardFrame
    BY <1>2, <1>3, <1>10 DEF BackwardFrame, building, sentence, Outcomes
  <1>11. CASE BackwardEnd
    BY <1>3, <1>11 DEF BackwardEnd, building, sentence, Outcomes
  <1>12. CASE NextUtterance
    BY <1>12 DEF NextUtterance, FeasInv, Built
  <1>13. CASE UNCHANGED vars
    <2>1. hmm' = hmm /\ setup' = setup /\ phase' = phase /\ outcomes' = outcomes /\ utt' = utt
      BY <1>13 DEF vars
    <2> QED
      BY <2>1 DEF FeasInv, Built, TooShort, Frames
  <1> QED
    BY <1>4, <1>5, <1>6, <1>7, <1>8, <1>9, <1>10, <1>11, <1>12, <1>13 DEF Next

\* In every session the feasibility search is exact, and an utterance it sets aside could
\* not have been aligned at any beam (feasibility.py, steps/train.py).
THEOREM SearchIsExact == Spec => [](FeasibilityIsExact /\ InfeasibleIsHopeless)
  <1>1. Init => GraphInv /\ ModelInv /\ MassInv /\ TypeInv /\ FeasInv
    BY GraphInvInit, ModelInvInit, MassInvInit, TypeInvInit, FeasInvInit
  <1>2. GraphInv /\ ModelInv /\ MassInv /\ TypeInv /\ FeasInv /\ [Next]_vars
        => (GraphInv /\ ModelInv /\ MassInv /\ TypeInv /\ FeasInv)'
    BY GraphInvStep, ModelInvStep, MassInvStep, TypeInvStep, FeasInvStep
  <1>3. GraphInv /\ FeasInv => FeasibilityIsExact /\ InfeasibleIsHopeless
    BY FeasInvShows
  <1> QED
    BY <1>1, <1>2, <1>3, PTL DEF Spec
=============================================================================
