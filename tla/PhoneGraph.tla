------------------------------ MODULE PhoneGraph ------------------------------
(***************************************************************************)
(* The phones of one transcript, as the trainer's C library lays them out  *)
(* before it attaches states: the lexicon (lexicon.c), the linear phone    *)
(* list (mk_phone_list.c), the pronunciation graph (phone_graph.c), the    *)
(* copies that give every slot one left and one right context              *)
(* (phone_graph_triphone.c), and the triphone each slot resolves to        *)
(* (cvt2triphone.c and phone_graph_triphone.c).                            *)
(*                                                                         *)
(* A lexicon entry is [word, alt, phones]; alt is the number of its "(N)"  *)
(* suffix and 1 stands for the bare spelling.  A transcript token is a     *)
(* pair <<word, alt>>.  A graph is [phone, btw, next, prior]: the last two *)
(* give each slot the set of its neighbours, which the code keeps in       *)
(* ascending order, so that "the first neighbour" is the least one.        *)
(***************************************************************************)
EXTENDS Naturals, Sequences, FiniteSets, SequencesExt

CONSTANTS Phones,   \* the context-independent phones of the phone list
          Fillers,  \* those with the attribute "filler"
          SIL       \* the silence phone, the context at the end of an utterance

ASSUME PhonesAssumption == Fillers \subseteq Phones /\ SIL \in Fillers

(* The elements of a sequence at the given positions, in its order.        *)
Chosen(s, at) ==
  LET upTo[n \in 0 .. Len(s)] ==
        IF n = 0 THEN <<>>
        ELSE IF n \in at THEN Append(upTo[n - 1], s[n]) ELSE upTo[n - 1]
  IN  upTo[Len(s)]

-----------------------------------------------------------------------------
(* The lexicon.                                                            *)

(* Entries that repeat an orthography or use an undefined phone are left   *)
(* out; the rest keep the order of the file.                               *)
LexiconRead(file) ==
  LET Defined(k) == Range(file[k].phones) \subseteq Phones
      Same(j, k) == file[j].word = file[k].word /\ file[j].alt = file[k].alt
  IN  Chosen(file, {k \in DOMAIN file :
                      Defined(k) /\ \A j \in 1 .. k - 1 : ~(Defined(j) /\ Same(j, k))})

(* At most one entry has exactly this orthography.                         *)
LexiconLookup(lex, token) ==
  Chosen(lex, {k \in DOMAIN lex : <<lex[k].word, lex[k].alt>> = token})

(* The chain of a base word: only a bare spelling is a key of that index.  *)
LexiconLookupVariants(lex, token) ==
  Chosen(lex, {k \in DOMAIN lex : token[2] = 1 /\ lex[k].word = token[1]})

-----------------------------------------------------------------------------
(* From words to slots.                                                    *)

(* The pronunciations each word contributes, none for an unknown word.     *)
WordPlan(lex, words, multipron) ==
  [i \in DOMAIN words |->
     LET chain == IF multipron THEN LexiconLookupVariants(lex, words[i]) ELSE <<>>
     IN  IF chain # <<>> THEN chain ELSE LexiconLookup(lex, words[i])]

Expandable(plan) == plan # <<>> /\ \A i \in DOMAIN plan : plan[i] # <<>>

(* Variants without phones are dropped, and so are words left with none.   *)
Sounded(plan) ==
  LET spoken == [i \in DOMAIN plan |->
                   Chosen(plan[i], {v \in DOMAIN plan[i] : plan[i][v].phones # <<>>})]
  IN  Chosen(spoken, {i \in DOMAIN spoken : spoken[i] # <<>>})

(* One slot per word, variant and phone, in that order.                    *)
Slots(words) ==
  FlattenSeq([i \in DOMAIN words |->
    FlattenSeq([v \in DOMAIN words[i] |->
      [p \in DOMAIN words[i][v].phones |->
         [word |-> i, variant |-> v, phone |-> words[i][v].phones[p],
          first |-> p = 1, last |-> p = Len(words[i][v].phones)]]])])

MkPhoneGraph(words) ==
  LET slots == Slots(words)
      Heads(i) == {k \in DOMAIN slots : slots[k].word = i /\ slots[k].first}
      Tails(i) == {k \in DOMAIN slots : slots[k].word = i /\ slots[k].last}
  IN  [phone |-> [k \in DOMAIN slots |-> slots[k].phone],
       btw   |-> [k \in DOMAIN slots |-> slots[k].last],
       next  |-> [k \in DOMAIN slots |->
                    IF slots[k].last THEN Heads(slots[k].word + 1) ELSE {k + 1}],
       prior |-> [k \in DOMAIN slots |->
                    IF slots[k].first THEN Tails(slots[k].word - 1) ELSE {k - 1}]]

(* The linear builder's list: the entry named by each token, end to end.   *)
MkPhoneList(lex, words) ==
  FlattenSeq([i \in DOMAIN words |->
    LET e == LexiconLookup(lex, words[i])[1]
    IN  [p \in DOMAIN e.phones |->
           [phone |-> e.phones[p], btw |-> p = Len(e.phones)]]])

-----------------------------------------------------------------------------
(* Splitting slots by context.                                             *)

ContextPhone(p) == IF p \in Fillers THEN SIL ELSE p

(* The contexts of some neighbours, by first occurrence; SIL when there    *)
(* are no neighbours.                                                      *)
DistinctContexts(g, neighbours) ==
  LET contexts == [k \in DOMAIN g.phone |-> ContextPhone(g.phone[k])]
      found == Chosen(contexts,
                 {k \in neighbours : \A j \in neighbours : j < k => contexts[j] # contexts[k]})
  IN  IF found = <<>> THEN <<SIL>> ELSE found

(* The copies of each slot: one per left and right context, a filler has   *)
(* only one.                                                               *)
ClassifySlots(g) ==
  FlattenSeq([k \in DOMAIN g.phone |->
    IF g.phone[k] \in Fillers
    THEN <<[slot |-> k, left |-> SIL, right |-> SIL]>>
    ELSE LET lefts  == DistinctContexts(g, g.prior[k])
             rights == DistinctContexts(g, g.next[k])
         IN  [c \in 1 .. Len(lefts) * Len(rights) |->
                [slot  |-> k,
                 left  |-> lefts[1 + ((c - 1) \div Len(rights))],
                 right |-> rights[1 + ((c - 1) % Len(rights))]]]])

(* (Mistaken: copies are joined whatever left context the second is for.)  *)
JoinedByRight(g, a, b) ==
  /\ a.slot \in g.prior[b.slot]
  /\ g.phone[a.slot] \notin Fillers => a.right = ContextPhone(g.phone[b.slot])

(* Two copies are joined when their slots were, the first was made for     *)
(* this right context and the second for this left one.                    *)
Joined(g, a, b) ==
  /\ a.slot \in g.prior[b.slot]
  /\ g.phone[a.slot] \notin Fillers => a.right = ContextPhone(g.phone[b.slot])
  /\ g.phone[b.slot] \notin Fillers => b.left = ContextPhone(g.phone[a.slot])

SplitContexts(g) ==
  LET copies == ClassifySlots(g)
  IN  IF Len(copies) = Len(g.phone) THEN g
      ELSE [phone |-> [c \in DOMAIN copies |-> g.phone[copies[c].slot]],
            btw   |-> [c \in DOMAIN copies |-> g.btw[copies[c].slot]],
            next  |-> [c \in DOMAIN copies |->
                         {d \in DOMAIN copies : Joined(g, copies[c], copies[d])}],
            prior |-> [c \in DOMAIN copies |->
                         {d \in DOMAIN copies : Joined(g, copies[d], copies[c])}]]

-----------------------------------------------------------------------------
(* Triphones.                                                              *)

Triphone(b, l, r, w) == [base |-> b, left |-> l, right |-> r, posn |-> w]
CI(b) == Triphone(b, "-", "-", "-")
IsCI(id) == id.posn = "-"

(* The position of the next phone in its word, from that of the one before *)
(* it: "b"egin, "e"nd, "s"ingle, "i"nternal.                               *)
BtwPosn(btw, posn) ==
  IF btw THEN IF posn \in {"i", "b"} THEN "e" ELSE "s"
  ELSE IF posn \in {"b", "i"} THEN "i" ELSE "b"

(* The order in which other positions are tried.                           *)
PosnOrder == <<"b", "e", "s", "i">>

BackOff(b, l, r, tris) ==
  LET known == Chosen(PosnOrder, {n \in DOMAIN PosnOrder : Triphone(b, l, r, PosnOrder[n]) \in tris})
  IN  IF known = <<>> THEN CI(b) ELSE Triphone(b, l, r, known[1])

Resolve(b, l, r, w, tris) ==
  IF Triphone(b, l, r, w) \in tris THEN Triphone(b, l, r, w)
  ELSE BackOff(b, l, r, tris)

(* What the graph says of a slot: word position and contexts are read off  *)
(* its first neighbours.                                                   *)
GraphPosns(g) ==
  LET posn[k \in DOMAIN g.phone] ==
        BtwPosn(g.btw[k], IF g.prior[k] = {} THEN "e" ELSE posn[Min(g.prior[k])])
  IN  posn

FirstContext(g, neighbours) ==
  IF neighbours = {} THEN SIL ELSE ContextPhone(g.phone[Min(neighbours)])

VisitTriphones(g) ==
  LET posn == GraphPosns(g)
  IN  [k \in DOMAIN g.phone |->
         Triphone(g.phone[k], FirstContext(g, g.prior[k]),
                  FirstContext(g, g.next[k]), posn[k])]

(* The model of every slot; a model without triphones leaves them all CI.  *)
Cvt2TriphoneGraph(g, tris) ==
  LET own == VisitTriphones(g)
  IN  [k \in DOMAIN g.phone |->
         IF tris = {} \/ g.phone[k] \in Fillers THEN CI(g.phone[k])
         ELSE Resolve(own[k].base, own[k].left, own[k].right, own[k].posn, tris)]

(* (Mistaken: the position is taken from the word break alone.)            *)
ListPosnsAlone(list) == [k \in 0 .. Len(list) |-> IF k = 0 THEN "e" ELSE BtwPosn(list[k].btw, "e")]

(* The same for the linear list, where the last phone does not back off.   *)
ListPosns(list) ==
  LET posn[k \in 0 .. Len(list)] ==
        IF k = 0 THEN "e" ELSE BtwPosn(list[k].btw, posn[k - 1])
  IN  posn

Cvt2Triphone(list, tris) ==
  LET n == Len(list)
      posn == ListPosns(list)
      Left(k)  == IF k = 1 THEN SIL ELSE ContextPhone(list[k - 1].phone)
      Right(k) == IF k = n THEN SIL ELSE ContextPhone(list[k + 1].phone)
      Own(k)   == Triphone(list[k].phone, Left(k), Right(k), posn[k])
  IN  [k \in 1 .. n |->
         IF tris = {} \/ list[k].phone \in Fillers THEN CI(list[k].phone)
         ELSE IF k = n THEN IF Own(k) \in tris THEN Own(k) ELSE CI(list[k].phone)
         ELSE Resolve(list[k].phone, Left(k), Right(k), posn[k], tris)]
=============================================================================
