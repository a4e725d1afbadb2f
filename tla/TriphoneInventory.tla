--------------------------- MODULE TriphoneInventory ---------------------------
(***************************************************************************)
(* Which triphones the untied model definition lists: make_dict_triphone-  *)
(* _list and count_triphones of mk_mdef_gen.c, and the policies of         *)
(* pstrain_mdef_gen.c.  Counts are kept as the set of triphones seen: the  *)
(* trainer's thresholds are one occurrence and a hundred thousand          *)
(* triphones, so a triphone is kept exactly when it was counted.           *)
(***************************************************************************)
EXTENDS PhoneGraph

FirstPhone(e) == e.phones[1]
LastPhone(e) == e.phones[Len(e.phones)]
Spoken(b, l, r, w) ==
  IF b \in Fillers THEN {} ELSE {Triphone(b, ContextPhone(l), ContextPhone(r), w)}

(* The triphones of a word between the given outer contexts.  A word whose *)
(* first phone is a filler is left at once, whatever follows.              *)
WordTriphones(e, lefts, rights) ==
  LET p == e.phones
      n == Len(p)
  IN  IF FirstPhone(e) \in Fillers THEN {}
      ELSE IF n = 1
      THEN UNION {Spoken(p[1], l, r, "s") : l \in lefts, r \in rights}
      ELSE UNION (    {Spoken(p[1], l, p[2], "b") : l \in lefts}
                 \cup {Spoken(p[j], p[j - 1], p[j + 1], "i") : j \in 2 .. n - 1}
                 \cup {Spoken(p[n], p[n - 1], r, "e") : r \in rights})

(* (Mistaken: a word is preceded by what begins words.)                    *)
MakeSwappedTriphoneList(dict) ==
  LET begins == {SIL} \cup ({FirstPhone(dict[k]) : k \in DOMAIN dict} \ Fillers)
      ends   == {SIL} \cup ({LastPhone(dict[k]) : k \in DOMAIN dict} \ Fillers)
  IN  UNION {WordTriphones(dict[k], begins, ends) : k \in DOMAIN dict}

(* Every triphone two words of the dictionary could produce: silence and   *)
(* each phone that begins or ends a word are its outer contexts.           *)
MakeDictTriphoneList(dict) ==
  LET begins == {SIL} \cup ({FirstPhone(dict[k]) : k \in DOMAIN dict} \ Fillers)
      ends   == {SIL} \cup ({LastPhone(dict[k]) : k \in DOMAIN dict} \ Fillers)
  IN  UNION {WordTriphones(dict[k], ends, begins) : k \in DOMAIN dict}

(* What the transcripts say, token by token: an unknown word counts for    *)
(* nothing and stands for silence beside its neighbours.                   *)
CountTriphones(dict, texts) ==
  LET Outer(text, i, Phone(_)) ==
        IF i \notin DOMAIN text \/ LexiconLookup(dict, text[i]) = <<>> THEN SIL
        ELSE Phone(LexiconLookup(dict, text[i])[1])
      Counted(text, i) ==
        UNION {WordTriphones(e, {Outer(text, i - 1, LastPhone)}, {Outer(text, i + 1, FirstPhone)}) :
                 e \in Range(LexiconLookup(dict, text[i]))}
  IN  UNION {UNION {Counted(text, i) : i \in DOMAIN text} : text \in Range(texts)}

(* What the graphs of the transcripts reach, with their split contexts.    *)
ReachableTriphones(lex, texts, multipron) ==
  LET graphs == {SplitContexts(MkPhoneGraph(Sounded(WordPlan(lex, text, multipron)))) :
                   text \in Range(texts)}
      Reached(own) == {own[k] : k \in {j \in DOMAIN own : own[j].base \notin Fillers}}
  IN  UNION {Reached(own) : own \in {VisitTriphones(g) : g \in graphs}}

(* Generation stops on a word without phones, on an orthography listed     *)
(* twice, and, when it follows the graphs, on a word it cannot look up or  *)
(* a context the dictionary does not produce.  An empty transcript is      *)
(* passed over.                                                            *)
ReadDict(dict) ==
  /\ \A k \in DOMAIN dict : dict[k].phones # <<>>
  /\ \A j, k \in DOMAIN dict :
       dict[j].word = dict[k].word /\ dict[j].alt = dict[k].alt => j = k

GenUntied(dict, texts, policy, multipron) ==
  LET domain == MakeDictTriphoneList(dict)
      lex == LexiconRead(dict)
      reached == ReachableTriphones(lex, texts, multipron)
      known == \A text \in Range(texts) :
                 text # <<>> => Expandable(WordPlan(lex, text, multipron))
  IN  IF ~ReadDict(dict) THEN [ok |-> FALSE, tris |-> {}]
      ELSE IF policy = "all" THEN [ok |-> TRUE, tris |-> domain]
      ELSE IF policy = "occurrence" THEN [ok |-> TRUE, tris |-> CountTriphones(dict, texts)]
      ELSE IF known /\ reached \subseteq domain THEN [ok |-> TRUE, tris |-> reached]
      ELSE [ok |-> FALSE, tris |-> {}]
=============================================================================
