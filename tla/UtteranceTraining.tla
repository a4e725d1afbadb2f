--------------------------- MODULE UtteranceTraining ---------------------------
(***************************************************************************)
(* One training session over a few utterances: the untied model definition *)
(* is generated, and each utterance is expanded to a sentence HMM, scored  *)
(* forward and backward, and its counts are added to the session's.        *)
(* Translated from pstrain_bw.c, next_utt_states.c, forward.c, backward.c, *)
(* baum_welch.c and accum.c, with the caller's treatment of an utterance   *)
(* whose final state is not reached (steps/train.py, feasibility.py).      *)
(*                                                                         *)
(* Probabilities are integers: a forward or backward value is in units of  *)
(* which Unit make one.  The code rescales the values of a frame by a      *)
(* common factor; here they are left unscaled, which changes no test.      *)
(* A count is kept as the numerator of a posterior whose denominator is    *)
(* the utterance's final forward value.                                    *)
(***************************************************************************)
EXTENDS SentenceHMM

CONSTANTS Setups,  \* the sessions to consider
          Unit     \* the integer that stands for probability one

(* A session has a dictionary, dict, and transcripts, texts; multipron and *)
(* bypass are its graph options; policy says which triphones are listed,   *)
(* "none" for a CI session; K and tmat give the models; frames is the      *)
(* length of each utterance and hears the observations it is made of;      *)
(* beam, retryBeam and backBeam are the reciprocals of the forward beam,   *)
(* of the one a retry is given and of the backward one, 0 for none.        *)

(* Dictionaries, pronunciations and transcripts are sequences, there is    *)
(* something to train on, and the options are flags.                       *)
IsSeq(s) == s \in Seq(Range(s))
ASSUME SetupsAssumption ==
  \A s \in Setups :
    /\ IsSeq(s.dict) /\ \A k \in DOMAIN s.dict : IsSeq(s.dict[k].phones)
    /\ IsSeq(s.texts) /\ s.texts # <<>>
    /\ \A i \in DOMAIN s.texts : IsSeq(s.texts[i])
    /\ s.multipron \in BOOLEAN /\ s.bypass \in BOOLEAN

(* Every row of a transition matrix adds up to one.                        *)
ASSUME MatricesAssumption ==
  \A s \in Setups :
    /\ s.K \in Nat \ {0}
    /\ \A b \in Phones :
         /\ s.tmat[b] \in [0 .. s.K - 1 -> [0 .. s.K -> Nat]]
         /\ \A m \in 0 .. s.K - 1 : SumFunction(s.tmat[b][m]) = One

(* No transition of a phone leads back (flat.py, create_topology_file).    *)
ASSUME LeftToRightAssumption ==
  \A s \in Setups : \A b \in Phones :
    \A m \in 0 .. s.K - 1 : \A t \in 0 .. m - 1 : s.tmat[b][m][t] = 0

(* Frames are counted, and densities and beams are natural numbers.        *)
ASSUME ScoresAssumption ==
  /\ Unit \in Nat \ {0}
  /\ \A s \in Setups :
       /\ \A i \in DOMAIN s.texts : s.frames[i] \in Nat
       /\ \A o \in s.hears : o.density \in Nat
       /\ s.beam \in Nat /\ s.retryBeam \in Nat /\ s.backBeam \in Nat

(* The words of a transcript on the graph builder's path.                  *)
Pronounced(s, i) == Sounded(WordPlan(LexiconRead(s.dict), s.texts[i], s.multipron))

(* A transcript ends in </s>, which has one pronunciation, of a filler.    *)
ASSUME EndsAssumption ==
  \A s \in Setups : \A i \in DOMAIN s.texts :
    LET words == Pronounced(s, i)
        end == words[Len(words)]
    IN  words # <<>> => Len(end) = 1 /\ Last(end[1].phones) \in Fillers

(* One is such that halves of its shares are whole.                        *)
ASSUME SharesAssumption ==
  \A s \in Setups : \A i \in DOMAIN s.texts :
    LET g == SplitContexts(MkPhoneGraph(Pronounced(s, i)))
    IN  \A k \in DOMAIN g.phone :
          g.next[k] # {} => One % (2 * Cardinality(g.next[k])) = 0

VARIABLES setup,      \* the session's dictionary, transcripts and options
          phase,      \* what the session does next
          inventory,  \* the triphones of the model definition
          utt,        \* the transcript at hand
          graph,      \* its split graph, on the graph builder's path
          hmm,        \* its sentence HMM
          heard,      \* its observations
          wide,       \* is this the retry with the widened beam
          forw,       \* the active states and alphas of each frame scored
          back,       \* the frame, betas and active states of the backward pass
          local,      \* the utterance's own accumulators
          totals,     \* what each accepted utterance added to the session's
          outcomes,   \* what became of each utterance so far
          fallback    \* the CI senones that stood in for a missing triphone

vars == <<setup, phase, inventory, utt, graph, hmm, heard, wide, forw, back,
          local, totals, outcomes, fallback>>
building == <<setup, inventory>>
sentence == <<utt, graph, hmm, heard>>
session == <<totals, fallback>>

NoGraph == [phone |-> <<>>, btw |-> <<>>, next |-> <<>>, prior |-> <<>>]
NoHMM == [K |-> 0, id |-> <<>>, next |-> <<>>, prior |-> <<>>]
NoBack == [frame |-> 0, beta |-> <<>>, active |-> {}]
NoCounts == [arcs |-> <<>>, senones |-> <<>>]

Text == setup.texts[utt]
Frames == setup.frames[utt]
Lexicon == LexiconRead(setup.dict)
FinalState == Len(hmm.id) * Width(hmm)
Senone(id, m) == <<id, m>>

(* The density of an observation in any state of a phone.                  *)
Density(o, b) == IF o.phone = b THEN o.density ELSE 1

(* What of a value goes through an arc.                                    *)
Through(value, w) == (value * w) \div One

(* Terms added to a table of sums.                                         *)
AddTo(table, terms) ==
  [k \in DOMAIN table \cup DOMAIN terms |->
     (IF k \in DOMAIN table THEN table[k] ELSE 0)
     + (IF k \in DOMAIN terms THEN terms[k] ELSE 0)]

Init ==
  /\ setup \in Setups
  /\ phase = "generate"
  /\ inventory = [ok |-> FALSE, tris |-> {}]
  /\ utt = 1 /\ graph = NoGraph /\ hmm = NoHMM /\ heard = <<>>
  /\ wide = FALSE /\ forw = <<>> /\ back = NoBack /\ local = NoCounts
  /\ totals = <<>> /\ outcomes = <<>> /\ fallback = {}

-----------------------------------------------------------------------------
(* The model definition: none is generated for a CI session.               *)
Generate ==
  /\ phase = "generate"
  /\ inventory' = IF setup.policy = "none" THEN [ok |-> TRUE, tris |-> {}]
                  ELSE GenUntied(setup.dict, setup.texts, setup.policy, setup.multipron)
  /\ phase' = IF inventory'.ok THEN "expand" ELSE "done"
  /\ UNCHANGED <<setup, sentence, wide, forw, back, local, session, outcomes>>

-----------------------------------------------------------------------------
(* The sentence HMM of the utterance at hand.                              *)

GraphBuilt == setup.multipron \/ setup.bypass

SplitGraph == SplitContexts(MkPhoneGraph(Pronounced(setup, utt)))

NextUttStatesGraph(g) ==
  LET h == StateSeqMakeGraph(g, Cvt2TriphoneGraph(g, inventory.tris), setup.K, setup.tmat)
  IN  IF setup.bypass THEN AddBoundaryBypass(h, g) ELSE h

NextUttStates ==
  StateSeqMake(Cvt2Triphone(MkPhoneList(Lexicon, Text), inventory.tris), setup.K, setup.tmat)

(* No state sequence comes of an unknown word.                             *)
Buildable ==
  LET plan == WordPlan(Lexicon, Text, GraphBuilt /\ setup.multipron)
  IN  Expandable(plan) /\ Sounded(plan) # <<>>

Settle(outcome) ==
  /\ phase' = "settled"
  /\ outcomes' = Append(outcomes, outcome)

(* An utterance without frames is one whose state sequence is inspected    *)
(* only.                                                                   *)
BuildUttStateSeq ==
  /\ phase = "expand"
  /\ IF ~Buildable
     THEN /\ Settle("unbuilt")
          /\ UNCHANGED <<graph, hmm, heard>>
     ELSE /\ graph' = IF GraphBuilt THEN SplitGraph ELSE NoGraph
          /\ hmm' = IF GraphBuilt THEN NextUttStatesGraph(graph') ELSE NextUttStates
          /\ heard' \in [1 .. Frames -> setup.hears]
          /\ IF Frames = 0 THEN Settle("inspected")
             ELSE phase' = "forward" /\ UNCHANGED outcomes
  /\ UNCHANGED <<building, utt, wide, forw, back, local, session>>

-----------------------------------------------------------------------------
(* The forward pass.                                                       *)

Scored(t, s) == Density(heard[t], Base(hmm, s))

(* Kept by the beam: above the fraction 1/beam of the best, or above zero. *)
Kept(value, best, beam) == IF beam = 0 THEN value > 0 ELSE value * beam > best
ForwardBeam == IF wide THEN setup.retryBeam ELSE setup.beam

Ascending(S) == Chosen([k \in 1 .. FinalState |-> k], S)
AppendNew(list, S) == list \o Ascending(S \ Range(list))
EmittingNext(s) == {t \in DOMAIN hmm.next[s] : Emitting(hmm, t)}

(* Only the first state is active in the first frame, and the exits after  *)
(* it are not entered then.                                                *)
ForwardFirst ==
  /\ phase = "forward" /\ forw = <<>>
  /\ IF Scored(1, 1) = 0
     THEN Settle("failed") /\ UNCHANGED forw
     ELSE /\ forw' = <<[active |-> <<1>>, alpha |-> [s \in {1} |-> Unit * Scored(1, 1)]]>>
          /\ UNCHANGED <<phase, outcomes>>
  /\ UNCHANGED <<building, sentence, wide, back, local, session>>

(* The emitting states that follow the active ones, and their alphas.      *)
Activate(f) ==
  LET upTo[k \in 0 .. Len(f.active)] ==
        IF k = 0 THEN <<>> ELSE AppendNew(upTo[k - 1], EmittingNext(f.active[k]))
  IN  upTo[Len(f.active)]
Alpha(f, t, j) ==
  Scored(t, j) *
  SumFunction([i \in {x \in DOMAIN f.alpha : j \in DOMAIN hmm.next[x]} |->
                 Through(f.alpha[i], hmm.next[i][j])])

(* The non-emitting states after each active one, and after the ones that  *)
(* this adds to the list; no state joins it twice.                         *)
Consume(list, alpha) ==
  LET run[k \in 0 .. FinalState] ==
        IF k = 0 THEN [active |-> list, alpha |-> alpha]
        ELSE LET f == run[k - 1]
                 i == f.active[k]
                 quiet == DOMAIN hmm.next[i] \ EmittingNext(i)
             IN  IF k > Len(f.active) THEN f
                 ELSE [active |-> AppendNew(f.active, quiet),
                       alpha  |-> AddTo(f.alpha,
                                    [j \in quiet |-> Through(f.alpha[i], hmm.next[i][j])])]
  IN  run[FinalState]

(* (Mistaken: a pruned state stays on the list.)                           *)
PruneAlphas(f, best) ==
  [active |-> f.active,
   alpha  |-> [s \in {x \in Range(f.active) : Kept(f.alpha[x], best, ForwardBeam)} |-> f.alpha[s]]]

Prune(f, best) ==
  LET kept == Chosen(f.active, {k \in DOMAIN f.active : Kept(f.alpha[f.active[k]], best, ForwardBeam)})
  IN  [active |-> kept, alpha |-> [s \in Range(kept) |-> f.alpha[s]]]

(* A frame in which every alpha is zero, or nothing is active, is an error *)
(* of the utterance.                                                       *)
ForwardFrame ==
  /\ phase = "forward" /\ forw # <<>> /\ Len(forw) < Frames
  /\ LET t == Len(forw) + 1
         list == Activate(forw[t - 1])
         full == Consume(list, [j \in Range(list) |-> Alpha(forw[t - 1], t, j)])
         best == Max({0} \cup Range(full.alpha))
     IN  IF best = 0
         THEN Settle("failed") /\ UNCHANGED forw
         ELSE /\ forw' = Append(forw, Prune(full, best))
              /\ UNCHANGED <<phase, outcomes>>
  /\ UNCHANGED <<building, sentence, wide, back, local, session>>

-----------------------------------------------------------------------------
(* The final state was pruned or cannot be reached: the caller measures    *)
(* the graph, and only an utterance with enough frames is tried again.     *)

(* The fewest emitting states on a path; Len of the HMM plus one for none. *)
MinimumEmittingStates(h) ==
  LET none == Len(h.id) * Width(h) + 1
      least[s \in States(h)] ==
        LET cost == IF Emitting(h, s) THEN 1 ELSE 0
            before == {p \in 1 .. s - 1 : s \in DOMAIN h.next[p] /\ least[p] < none}
        IN  IF s = 1 THEN cost
            ELSE IF before = {} THEN none
            ELSE cost + Min({least[p] : p \in before})
  IN  least[Len(h.id) * Width(h)]

FinalReached == FinalState \in DOMAIN forw[Frames].alpha

TooShortOrExact == MinimumEmittingStates(hmm) >= Frames   \* (Mistaken: off by one.)
TooShort == MinimumEmittingStates(hmm) > Frames

FinalStateNotReached ==
  /\ phase = "forward" /\ Len(forw) = Frames /\ ~FinalReached
  /\ IF TooShort
     THEN Settle("infeasible") /\ UNCHANGED <<wide, forw>>
     ELSE IF wide
     THEN Settle("unreached") /\ UNCHANGED <<wide, forw>>
     ELSE /\ wide' = TRUE
          /\ forw' = <<>>
          /\ UNCHANGED <<phase, outcomes>>
  /\ UNCHANGED <<building, sentence, back, local, session>>

-----------------------------------------------------------------------------
(* The backward pass.                                                      *)

FinalAlpha == forw[Frames].alpha[FinalState]
BackKept(value) == Kept(value \div Unit, FinalAlpha, setup.backBeam)
Reached(f, j) == DOMAIN hmm.prior[j] \cap DOMAIN f.alpha
Count(alpha, term) == (alpha * term) \div Unit

(* From each non-emitting state of the list back to the states before it,  *)
(* in the same frame; the ones without output join the list.  Only the     *)
(* exit of the sentence has such states before it, so that none joins it   *)
(* more than twice.                                                        *)
Retreat(f, list, at) ==
  LET run[k \in 0 .. FinalState] ==
        IF k = 0 THEN [list |-> list, at |-> at]
        ELSE LET r == run[k - 1]
                 j == r.list[k]
                 from == Reached(f, j)
                 waiting == SubSeq(r.list, k + 1, Len(r.list))
                 quiet == {i \in from : ~Emitting(hmm, i)} \ Range(waiting)
                 beta == [i \in from |-> Through(r.at.beta[j], hmm.prior[j][i])]
             IN  IF k > Len(r.list) THEN r
                 ELSE [list |-> r.list \o Ascending(quiet),
                       at   |-> [beta   |-> AddTo(r.at.beta, beta),
                                 arcs   |-> AddTo(r.at.arcs, [e \in from \X {j} |->
                                              Count(f.alpha[e[1]], beta[e[1]])]),
                                 active |-> r.at.active \cup {i \in from : Emitting(hmm, i)}]]
  IN  run[FinalState].at

(* (Mistaken: the senone sums are reused.)                                 *)
BackwardStartOnTop ==
  /\ phase = "forward" /\ Len(forw) = Frames /\ FinalReached
  /\ LET start == [beta |-> [s \in States(hmm) |-> IF s = FinalState THEN Unit ELSE 0],
                   arcs |-> <<>>, active |-> {}]
         end == Retreat(forw[Frames], <<FinalState>>, start)
     IN  /\ back' = [frame |-> Frames, beta |-> end.beta, active |-> end.active]
         /\ local' = [local EXCEPT !.arcs = end.arcs]
  /\ phase' = "backward"
  /\ UNCHANGED <<building, sentence, wide, forw, session, outcomes>>

(* The accumulators of the utterance are allocated afresh, the final state *)
(* has beta one, and the exits before it are entered.                      *)
BackwardStart ==
  /\ phase = "forward" /\ Len(forw) = Frames /\ FinalReached
  /\ LET start == [beta |-> [s \in States(hmm) |-> IF s = FinalState THEN Unit ELSE 0],
                   arcs |-> <<>>, active |-> {}]
         end == Retreat(forw[Frames], <<FinalState>>, start)
     IN  /\ back' = [frame |-> Frames, beta |-> end.beta, active |-> end.active]
         /\ local' = [arcs |-> end.arcs, senones |-> <<>>]
  /\ phase' = "backward"
  /\ UNCHANGED <<building, sentence, wide, forw, session, outcomes>>

(* The senones that a count for state j goes to: its own and its phone's.  *)
Senones(j) ==
  {Senone(hmm.id[Slot(hmm, j)], MState(hmm, j)), Senone(CI(Base(hmm, j)), MState(hmm, j))}

(* One frame back: posteriors of the arcs into the active states, the      *)
(* betas of the states before them, the check of their sum against the     *)
(* final alpha, and the exits of this frame.                               *)
BackwardFrame ==
  /\ phase = "backward" /\ back.frame > 1
  /\ LET t == back.frame - 1
         f == forw[t]
         Term(i, j) == Through(Scored(t + 1, j) * back.beta[j], hmm.prior[j][i])
         arcs == UNION {{<<i, j>> : i \in Reached(f, j)} : j \in back.active}
         Post(e) == Count(f.alpha[e[1]], Term(e[1], e[2]))
         counted == {e \in arcs : Post(e) > 0}
         touched == {e[1] : e \in arcs}
         beta == [i \in States(hmm) |->
                    SumFunction([e \in {a \in arcs : a[1] = i} |-> Term(e[1], e[2])])]
         kept == {i \in touched : BackKept(f.alpha[i] * beta[i])}
         total == SumFunction([i \in kept |-> Count(f.alpha[i], beta[i])])
         apart == IF total > FinalAlpha THEN total - FinalAlpha ELSE FinalAlpha - total
         summed == AddTo(local.arcs, [e \in counted |-> Post(e)])
         end == Retreat(f, Ascending({i \in kept : ~Emitting(hmm, i)}),
                  [beta |-> beta, arcs |-> summed,
                   active |-> {i \in kept : Emitting(hmm, i)}])
         occupied == UNION {Senones(e[2]) : e \in counted}
         occupancy == [q \in occupied |->
                         SumFunction([e \in {a \in counted : q \in Senones(a[2])} |-> Post(e)])]
     IN  IF \/ \E e \in arcs : 100 * Post(e) > 101 * FinalAlpha
            \/ 100 * apart > FinalAlpha
         THEN /\ Settle("failed")
              /\ local' = [arcs |-> summed, senones |-> local.senones]
              /\ UNCHANGED back
         ELSE /\ back' = [frame |-> t, beta |-> end.beta, active |-> end.active]
              /\ local' = [arcs |-> end.arcs,
                           senones |-> AddTo(local.senones, occupancy)]
              /\ UNCHANGED <<phase, outcomes>>
  /\ UNCHANGED <<building, sentence, wide, forw, session>>

(* Into the session's accumulators: a count between two states of one      *)
(* matrix goes to the row and column of their numbers in it.               *)
AccumGlobal(senones) ==
  LET arcs == {e \in States(hmm) \X States(hmm) :
                 /\ e[2] \in DOMAIN hmm.next[e[1]]
                 /\ Base(hmm, e[1]) = Base(hmm, e[2])
                 /\ MState(hmm, e[1]) <= MState(hmm, e[2])}
      Cell(e) == <<Base(hmm, e[1]), MState(hmm, e[1]), MState(hmm, e[2])>>
      Mass(e) == IF e \in DOMAIN local.arcs THEN local.arcs[e] ELSE 0
      Total(c) == SumFunction([e \in {a \in arcs : Cell(a) = c} |-> Mass(e)])
  IN  [utt |-> utt, final |-> FinalAlpha, senones |-> senones,
       tmat |-> [c \in {Cell(e) : e \in arcs} |-> Total(c)]]

FallbackSenones ==
  {Senone(hmm.id[Slot(hmm, s)], MState(hmm, s)) :
     s \in {q \in States(hmm) : /\ Emitting(hmm, q)
                                /\ IsCI(hmm.id[Slot(hmm, q)])
                                /\ Base(hmm, q) \notin Fillers}}

(* The first frame: one more check of beta against alpha, the count of the *)
(* first state, and only then do the counts reach the session.             *)
BackwardEnd ==
  /\ phase = "backward" /\ back.frame = 1
  /\ LET total == back.beta[1] * Scored(1, 1)
         apart == IF total > FinalAlpha THEN total - FinalAlpha ELSE FinalAlpha - total
         first == Senone(hmm.id[1], 0)
         keys == IF 1 \in back.active THEN Senones(1) ELSE {}
         mass == [q \in keys |-> IF q = first THEN total ELSE FinalAlpha]
     IN  IF 100 * apart > FinalAlpha \/ total = 0
         THEN Settle("failed") /\ UNCHANGED <<local, session>>
         ELSE /\ local' = [local EXCEPT !.senones = AddTo(@, mass)]
              /\ totals' = Append(totals, AccumGlobal(local'.senones))
              /\ fallback' = IF setup.multipron THEN fallback \cup FallbackSenones
                             ELSE fallback
              /\ Settle("accepted")
  /\ UNCHANGED <<building, sentence, wide, forw, back>>

-----------------------------------------------------------------------------
(* The next utterance finds the accumulators as this one left them, and    *)
(* the nominal beam.                                                       *)
NextUtterance ==
  /\ phase = "settled"
  /\ utt' = IF utt < Len(setup.texts) THEN utt + 1 ELSE utt
  /\ phase' = IF utt < Len(setup.texts) THEN "expand" ELSE "done"
  /\ graph' = NoGraph /\ hmm' = NoHMM /\ heard' = <<>>
  /\ wide' = FALSE /\ forw' = <<>> /\ back' = NoBack
  /\ UNCHANGED <<building, local, session, outcomes>>

Next ==
  \/ Generate \/ BuildUttStateSeq
  \/ ForwardFirst \/ ForwardFrame \/ FinalStateNotReached
  \/ BackwardStart \/ BackwardFrame \/ BackwardEnd
  \/ NextUtterance

Spec == Init /\ [][Next]_vars

-----------------------------------------------------------------------------
(* Properties.                                                             *)

(* Types of the state: what is active in a frame has an alpha, the         *)
(* backward pass looks only at states that the forward pass kept, and      *)
(* counts are nonnegative.                                                 *)
TypeOK ==
  /\ phase \in {"generate", "expand", "forward", "backward", "settled", "done"}
  /\ utt \in DOMAIN setup.texts
  /\ Len(outcomes) = IF phase \in {"settled", "done"} /\ inventory.ok THEN utt ELSE utt - 1
  /\ \A t \in DOMAIN forw : /\ Range(forw[t].active) = DOMAIN forw[t].alpha
                            /\ IsInjective(forw[t].active)
                            /\ \A x \in Range(forw[t].alpha) : x \in Nat \ {0}
  /\ phase = "backward" =>
       /\ back.active \subseteq {i \in DOMAIN forw[back.frame].alpha : Emitting(hmm, i)}
       /\ \A x \in Range(local.arcs) \cup Range(local.senones) : x \in Nat
  /\ fallback \subseteq {Senone(CI(b), m) : b \in Phones \ Fillers, m \in 0 .. setup.K - 1}

Built == hmm # NoHMM
WholeGraph == MkPhoneGraph(Pronounced(setup, utt))

(* The ways through a graph, from a slot without predecessor to one        *)
(* without successor.                                                      *)
PathsOf(g) ==
  LET from[k \in DOMAIN g.phone] ==
        IF g.next[k] = {} THEN {<<k>>}
        ELSE UNION {{<<k>> \o p : p \in from[j]} : j \in g.next[k]}
  IN  UNION {from[k] : k \in {j \in DOMAIN g.phone : g.prior[j] = {}}}

(* Splitting a graph by context keeps its paths: each way through the      *)
(* copies, with every copy replaced by its slot, is a way through the      *)
(* graph, each way through the graph is had once, and both lists of        *)
(* neighbours say the same (phone_graph_split_contexts).                   *)
PathsKept ==
  graph # NoGraph =>
    LET copies == ClassifySlots(WholeGraph)
        split == PathsOf(graph)
        Slotted(p) == [i \in DOMAIN p |-> copies[p[i]].slot]
    IN  /\ {Slotted(p) : p \in split} = PathsOf(WholeGraph)
        /\ Cardinality(split) = Cardinality(PathsOf(WholeGraph))
        /\ \A k, j \in DOMAIN graph.phone : j \in graph.next[k] <=> k \in graph.prior[j]

(* Words that mix fillers with other phones are outside the dictionary     *)
(* domain; the builder of the model definition leaves them out.            *)
Plain(e) == Range(e.phones) \cap Fillers = {} \/ Len(e.phones) = 1

(* The position of a phone in its word, from the pronunciation itself.     *)
TruePosn(s) == IF s.first THEN IF s.last THEN "s" ELSE "b"
               ELSE IF s.last THEN "e" ELSE "i"

(* A model definition made for these transcripts has every triphone their  *)
(* graphs use: each spoken slot gets the model of its own phone, word      *)
(* position and contexts, the same for all of its neighbours, and no slot  *)
(* falls back to its context-independent phone or to another position.     *)
(* Of a dictionary that can be read, generation fails for no other reason  *)
(* than an unknown word.                                                   *)
EveryContextIsModelled ==
  LET plain == \A k \in DOMAIN setup.dict : Plain(setup.dict[k])
      known == \A text \in Range(setup.texts) :
                 text # <<>> => Expandable(WordPlan(Lexicon, text, setup.multipron))
      slots == Slots(Pronounced(setup, utt))
      copies == ClassifySlots(WholeGraph)
  IN  /\ phase = "done" /\ ~inventory.ok /\ plain /\ ReadDict(setup.dict) => ~known
      /\ (graph # NoGraph /\ setup.policy # "none"
            /\ (setup.policy = "reachable" \/ plain)
            /\ (setup.policy = "occurrence" => ~setup.multipron)) =>
           \A k \in DOMAIN graph.phone :
             graph.phone[k] \notin Fillers =>
               LET id == hmm.id[k]
                   Left(j)  == id.left = ContextPhone(graph.phone[j])
                   Right(j) == id.right = ContextPhone(graph.phone[j])
               IN  /\ id.base = graph.phone[k]
                   /\ id.posn = TruePosn(slots[copies[k].slot])
                   /\ \A j \in graph.prior[k] : Left(j)
                   /\ \A j \in graph.next[k] : Right(j)
                   /\ graph.prior[k] = {} => id.left = SIL
                   /\ graph.next[k] = {} => id.right = SIL

(* With one pronunciation per word, the linear builder and the graph       *)
(* builder make the same sentence HMM (mk_phone_graph, mk_phone_list and   *)
(* both state_seq builders).  A transcript ends in a filler.               *)
BuildersAgree ==
  LET plan == WordPlan(Lexicon, Text, TRUE)
      g == SplitContexts(MkPhoneGraph(Sounded(plan)))
      byGraph == StateSeqMakeGraph(g, Cvt2TriphoneGraph(g, inventory.tris), setup.K, setup.tmat)
  IN  Built /\ (\A i \in DOMAIN plan : plan[i] = LexiconLookup(Lexicon, Text[i])) =>
        NextUttStates = byGraph

(* Out of every state but the last goes the whole of its mass, also where  *)
(* the final silence may be left out, and each arc has the same weight     *)
(* from both ends (state_seq_graph.c, add_boundary_bypass).                *)
MassIsOne ==
  \A s \in States(hmm) :
    /\ SumFunction(hmm.next[s]) = IF s = FinalState THEN 0 ELSE One
    /\ \A t \in DOMAIN hmm.next[s] :
         s \in DOMAIN hmm.prior[t] /\ hmm.prior[t][s] = hmm.next[s][t]
    /\ DOMAIN hmm.prior[s] \subseteq {p \in States(hmm) : s \in DOMAIN hmm.next[p]}

(* Only an accepted utterance adds to the session, once and in its turn,   *)
(* over a final alpha that is not zero: whatever fails, is tried again or  *)
(* is set aside between two of them leaves nothing in the totals           *)
(* (baum_welch.c, accum.c).                                                *)
AcceptedAreCounted ==
  /\ {totals[k].utt : k \in DOMAIN totals} = {i \in DOMAIN outcomes : outcomes[i] = "accepted"}
  /\ \A k \in DOMAIN totals : /\ totals[k].final # 0
                              /\ \A j \in 1 .. k - 1 : totals[j].utt < totals[k].utt

(* "internal phone model transition" (accum.c:488): every transition       *)
(* counted for a matrix leaves one of its emitting states, the only rows   *)
(* the accumulator has.                                                    *)
CountedTransitionsAreInternal ==
  \A k \in DOMAIN totals : \A c \in DOMAIN totals[k].tmat : c[2] < setup.K
=============================================================================
