--------------------------- MODULE NativeWorkerProofs ---------------------------
(***************************************************************************)
(* Proofs about NativeWorker: the inductive invariant TypeOK /\ Accounted, *)
(* the theorem that an answer is the caller's own, the implementation of   *)
(* AtMostOnce, and that results are clean (Tidy).                          *)
(***************************************************************************)
EXTENDS NativeWorker, SequenceTheorems, TLAPS

(* Sequences.                                                              *)

LEMMA Replaced ==
    ASSUME NEW S, NEW s \in Seq(S), NEW i, NEW e \in S
    PROVE  /\ [s EXCEPT ![i] = e] \in Seq(S)
           /\ Len([s EXCEPT ![i] = e]) = Len(s)
           /\ \A j \in 1..Len(s) :
                [s EXCEPT ![i] = e][j] = IF j = i THEN e ELSE s[j]
  <1>1. CASE i \in 1..Len(s)
    BY <1>1, ExceptSeq
  <1>2. CASE i \notin 1..Len(s)
    <2>1. DOMAIN s = 1..Len(s)
      BY LenProperties
    <2>2. [s EXCEPT ![i] = e] = [j \in DOMAIN s |-> s[j]]
      BY <1>2, <2>1
    <2>3. s = [j \in DOMAIN s |-> s[j]]
      OBVIOUS
    <2> QED
      BY <1>2, <2>2, <2>3
  <1> QED
    BY <1>1, <1>2

LEMMA Appended ==
    ASSUME NEW S, NEW s \in Seq(S), NEW e \in S
    PROVE  /\ Append(s, e) \in Seq(S)
           /\ Len(Append(s, e)) = Len(s) + 1
           /\ \A j \in 1..Len(s) : Append(s, e)[j] = s[j]
           /\ Append(s, e)[Len(s) + 1] = e
  OBVIOUS

\* A write to a pipe: what it holds afterwards was there, or was written.
WrittenTo(s, t, e) == \E k : \A i \in 1..Len(t) :
    \/ i = k /\ t[i] = e
    \/ i \in 1..Len(s) /\ t[i] = s[i]

LEMMA Written ==
    ASSUME NEW S, NEW s \in Seq(S), NEW e \in S, NEW t,
           t = Append(s, e) \/ t = [s EXCEPT ![Len(s)] = e]
    PROVE  WrittenTo(s, t, e)
  <1>1. Len(s) \in Nat
    OBVIOUS
  <1>2. CASE t = Append(s, e)
    <2>1. \A i \in 1..Len(t) : \/ i = Len(s) + 1 /\ t[i] = e
                               \/ i \in 1..Len(s) /\ t[i] = s[i]
      <3>1. Len(t) = Len(s) + 1 /\ t[Len(s) + 1] = e
        BY <1>2, Appended
      <3>2. \A i \in 1..Len(s) : t[i] = s[i]
        BY <1>2, Appended
      <3> QED
        BY <1>1, <3>1, <3>2
    <2> QED
      BY <2>1 DEF WrittenTo
  <1>3. CASE t = [s EXCEPT ![Len(s)] = e]
    <2>1. \A i \in 1..Len(t) : \/ i = Len(s) /\ t[i] = e
                               \/ i \in 1..Len(s) /\ t[i] = s[i]
      <3>1. Len(t) = Len(s)
        BY <1>3, Replaced
      <3>2. \A i \in 1..Len(s) : t[i] = IF i = Len(s) THEN e ELSE s[i]
        BY <1>3, Replaced
      <3> QED
        BY <1>1, <3>1, <3>2
    <2> QED
      BY <2>1 DEF WrittenTo
  <1> QED
    BY <1>2, <1>3

LEMMA Popped ==
    ASSUME NEW S, NEW s \in Seq(S), s # <<>>
    PROVE  /\ Tail(s) \in Seq(S)
           /\ Head(s) = s[1] /\ Head(s) \in S
           /\ Len(s) \in Nat \ {0} /\ Len(Tail(s)) = Len(s) - 1
           /\ \A j \in 1..Len(Tail(s)) : Tail(s)[j] = s[j + 1]
  BY HeadTailProperties, EmptySeq

-------------------------------------------------------------------------------
(* Types.                                                                  *)

LEMMA ConstantsTyped ==
    /\ MaxCalls \in Nat /\ MaxHelpers \in Nat
    /\ Calls = 1..MaxCalls /\ Helpers = 1..MaxHelpers
  BY ConstantsAssumption DEF Calls, Helpers

\* The owner's variables a call ends with.
LEMMA TellTyped ==
    ASSUME TypeOK, NEW told \in Answers \cup Refusals \cup Losses, Tell(told),
           current' \in Helpers \cup {0}, leaving' \in Helpers \cup {0},
           answer' \in [Calls -> 0..MaxCalls]
    PROVE  OwnerOK' /\ HistoryOK'
  <1>1. proxies' \in [Objects -> {"none", "open", "gone"}]
    BY DEF TypeOK, OwnerOK, Tell, ProxiesAfter
  <1>2. OwnerOK'
    BY <1>1 DEF TypeOK, OwnerOK, Tell, ids
  <1>3. outcome' \in [Calls -> {"none", "pending"} \cup Answers \cup Refusals
                                 \cup Losses]
    BY DEF TypeOK, HistoryOK, Tell
  <1>4. HistoryOK'
    BY <1>3 DEF TypeOK, HistoryOK, Tell
  <1> QED
    BY <1>2, <1>4

LEMMA ReclaimedTyped ==
    ASSUME TypeOK, NEW h, Reclaimed(h)
    PROVE  HelpersOK'
  <1>1. <<>> \in Seq(Frames) /\ <<>> \in Seq(Replies)
    OBVIOUS
  <1>2. /\ inbox' \in [Helpers -> Seq(Frames)]
        /\ outbox' \in [Helpers -> Seq(Replies)]
    BY <1>1 DEF TypeOK, HelpersOK, Reclaimed
  <1>3. job' \in [Helpers -> Frames \cup {NoJob}]
    BY DEF TypeOK, HelpersOK, Reclaimed
  <1>4. /\ reply' \in [Helpers -> Answers \cup {"none"}]
        /\ begun' \in [Helpers -> {"none", "begun", "torn"}]
        /\ objects' \in [Helpers -> SUBSET Objects]
        /\ dirty' \in [Helpers -> BOOLEAN]
    BY DEF TypeOK, HelpersOK, Reclaimed
  <1>5. /\ life' \in [Helpers -> {"unborn", "booting", "idle", "busy",
                                  "replying", "dying", "dead"}]
        /\ status' \in [Helpers -> {"none", "signal", "nonzero", "zero"}]
    BY DEF TypeOK, HelpersOK, Reclaimed
  <1> QED
    BY <1>2, <1>3, <1>4, <1>5 DEF HelpersOK

LEMMA AbandonTyped ==
    ASSUME TypeOK, NEW told \in Answers \cup Refusals \cup Losses,
           Abandon(told)
    PROVE  TypeOK'
  <1>1. HelpersOK'
    BY ReclaimedTyped DEF Abandon
  <1>2. OwnerOK' /\ HistoryOK'
    <2>1. current' \in Helpers \cup {0} /\ leaving' \in Helpers \cup {0}
      BY DEF Abandon, TypeOK, OwnerOK
    <2>2. answer' \in [Calls -> 0..MaxCalls]
      BY DEF Abandon, TypeOK, HistoryOK
    <2> QED
      BY <2>1, <2>2, TellTyped DEF Abandon
  <1> QED
    BY <1>1, <1>2 DEF TypeOK

LEMMA SwallowedTyped ==
    ASSUME TypeOK, current \in Helpers, NEW n \in 0..Len(outbox[current]),
           NEW cut \in BOOLEAN, Swallowed(n, cut)
    PROVE  HelpersOK'
  <1> DEFINE left == SubSeq(outbox[current], n + 1, Len(outbox[current]))
             rest == IF cut /\ left # <<>> THEN <<Rest>> \o Tail(left) ELSE left
  <1>1. left \in Seq(Replies)
    BY DEF TypeOK, HelpersOK
  <1>2. <<Rest>> \in Seq(Replies) /\ (left # <<>> => Tail(left) \in Seq(Replies))
    BY <1>1 DEF Replies
  <1>3. rest \in Seq(Replies)
    BY <1>1, <1>2
  <1>4. outbox' \in [Helpers -> Seq(Replies)]
    BY <1>3 DEF Swallowed, TypeOK, HelpersOK
  <1>5. begun' \in [Helpers -> {"none", "begun", "torn"}]
    BY DEF Swallowed, TypeOK, HelpersOK
  <1> QED
    BY <1>4, <1>5 DEF Swallowed, TypeOK, HelpersOK

LEMMA ClassifiedTyped ==
    ASSUME TypeOK, NEW h \in Helpers
    PROVE  Classified(h) \in {"crash", "fatal", "protocol"}
  BY DEF TypeOK, HelpersOK, Classified

\* In a call, serial and reqId number a call and a request.
LEMMA CallNumbered ==
    ASSUME TypeOK, Accounted, stage # "free"
    PROVE  serial \in Calls /\ reqId \in Calls
  BY ConstantsTyped DEF TypeOK, OwnerOK, Accounted, CallsInOrder, IdsAreFresh

LEMMA HelperThere ==
    ASSUME TypeOK, Accounted
    PROVE  /\ stage \in {"starting", "sending", "waiting", "receiving"}
                => current \in Helpers
           /\ stage = "discarding" => leaving \in Helpers
  BY DEF TypeOK, OwnerOK, Accounted, HasHelper

LEMMA FrameTyped ==
    ASSUME TypeOK, Accounted, stage # "free", NEW whole \in BOOLEAN
    PROVE  Frame(whole) \in Frames
  BY CallNumbered DEF Frame, Frames

LEMMA TypeStep ==
    ASSUME TypeOK, Accounted, [Next]_vars
    PROVE  TypeOK'
  <1>1. ASSUME NEW o \in Ops, Begin(o) PROVE TypeOK'
    <2>1. serial + 1 \in Calls /\ lastId + 1 \in 1..MaxCalls
      BY <1>1, ConstantsTyped
      DEF Begin, TypeOK, OwnerOK, Accounted, IdsAreFresh
    <2>2. OwnerOK'
      BY <1>1, <2>1, ConstantsTyped
      DEF Begin, TypeOK, OwnerOK, progress, hold, Blocking
    <2>3. HelpersOK'
      BY <1>1 DEF Begin, TypeOK, HelpersOK, helpers, inside
    <2>4. HistoryOK'
      BY <1>1 DEF Begin, TypeOK, HistoryOK
    <2> QED
      BY <2>2, <2>3, <2>4 DEF TypeOK
  <1>2. ASSUME NEW o \in Ops, Refuse(o) PROVE TypeOK'
    <2>1. proxies' \in [Objects -> {"none", "open", "gone"}]
      BY <1>2 DEF Refuse, TypeOK, OwnerOK, ProxiesAfter
    <2>2. OwnerOK'
      BY <1>2, <2>1, ConstantsTyped DEF Refuse, TypeOK, OwnerOK, progress, hold
    <2>3. HelpersOK'
      BY <1>2 DEF Refuse, TypeOK, HelpersOK, helpers, inside
    <2>4. HistoryOK'
      BY <1>2 DEF Refuse, TypeOK, HistoryOK, Refusals
    <2> QED
      BY <2>2, <2>3, <2>4 DEF TypeOK
  <1>3. CASE DeadlinePasses
    BY <1>3 DEF DeadlinePasses, TypeOK, OwnerOK, HelpersOK, HistoryOK, ids,
                hold, helpers, inside, history
  <1>4. CASE Spawn
    <2>1. OwnerOK'
      BY <1>4 DEF Spawn, TypeOK, OwnerOK, ids, progress, Blocking
    <2>2. HelpersOK'
      BY <1>4 DEF Spawn, TypeOK, HelpersOK, inside
    <2>3. HistoryOK'
      BY <1>4 DEF Spawn, TypeOK, HistoryOK, history
    <2> QED
      BY <2>1, <2>2, <2>3 DEF TypeOK
  <1>5. CASE SpawnFails
    <2>1. current' \in Helpers \cup {0} /\ leaving' \in Helpers \cup {0}
      BY <1>5 DEF SpawnFails, TypeOK, OwnerOK
    <2>2. answer' \in [Calls -> 0..MaxCalls]
      BY <1>5 DEF SpawnFails, TypeOK, HistoryOK
    <2>3. OwnerOK' /\ HistoryOK'
      BY <1>5, <2>1, <2>2, TellTyped DEF SpawnFails, Refusals
    <2>4. HelpersOK'
      BY <1>5 DEF SpawnFails, TypeOK, HelpersOK, helpers, inside
    <2> QED
      BY <2>3, <2>4 DEF TypeOK
  <1>6. CASE Started
    <2>1. Tail(outbox[current]) \in Seq(Replies)
      BY <1>6, HelperThere, HeadTailProperties
      DEF Started, TypeOK, HelpersOK
    <2>2. HelpersOK'
      BY <1>6, <2>1 DEF Started, TypeOK, HelpersOK, inside
    <2>3. OwnerOK'
      BY <1>6 DEF Started, TypeOK, OwnerOK, progress, hold, Blocking
    <2>4. HistoryOK'
      BY <1>6 DEF Started, TypeOK, HistoryOK, history
    <2> QED
      BY <2>2, <2>3, <2>4 DEF TypeOK
  <1>7. CASE StartFails
    BY <1>7, AbandonTyped DEF StartFails, Refusals
  <1>8. CASE SendSome
    <2>1. Append(inbox[current], Frame(FALSE)) \in Seq(Frames)
      BY <1>8, HelperThere, FrameTyped, Appended
      DEF SendSome, TypeOK, HelpersOK
    <2>2. HelpersOK'
      BY <1>8, <2>1 DEF SendSome, TypeOK, HelpersOK, inside
    <2>3. OwnerOK'
      BY <1>8 DEF SendSome, TypeOK, OwnerOK, ids, hold
    <2>4. HistoryOK'
      BY <1>8 DEF SendSome, TypeOK, HistoryOK, history
    <2> QED
      BY <2>2, <2>3, <2>4 DEF TypeOK
  <1>9. CASE SendRest
    <2>1. /\ inbox[current] \in Seq(Frames)
          /\ Frame(TRUE) \in Frames
      BY <1>9, HelperThere, FrameTyped DEF SendRest, TypeOK, HelpersOK
    <2>2. /\ Append(inbox[current], Frame(TRUE)) \in Seq(Frames)
          /\ [inbox[current] EXCEPT ![Len(inbox[current])] = Frame(TRUE)]
               \in Seq(Frames)
      BY <2>1, Replaced, Appended
    <2>3. HelpersOK'
      BY <1>9, <2>2 DEF SendRest, TypeOK, HelpersOK, inside
    <2>4. OwnerOK'
      BY <1>9 DEF SendRest, TypeOK, OwnerOK, ids, hold, Blocking
    <2>5. HistoryOK'
      BY <1>9 DEF SendRest, TypeOK, HistoryOK, history
    <2> QED
      BY <2>3, <2>4, <2>5 DEF TypeOK
  <1>10. CASE SendTimesOut
    BY <1>10, AbandonTyped DEF SendTimesOut, Losses
  <1>11. CASE SendFails
    <2>1. HelpersOK'
      BY <1>11, ReclaimedTyped DEF SendFails
    <2>2. OwnerOK'
      BY <1>11 DEF SendFails, TypeOK, OwnerOK, ids
    <2>3. HistoryOK'
      BY <1>11 DEF SendFails, TypeOK, HistoryOK, history
    <2> QED
      BY <2>1, <2>2, <2>3 DEF TypeOK
  <1>12. CASE SendFailsAgain
    BY <1>12, AbandonTyped, ClassifiedTyped, HelperThere
    DEF SendFailsAgain, Refusals, Losses
  <1>13. CASE Receive
    <2>1. current \in Helpers
      BY <1>13, HelperThere DEF Receive
    <2>2. /\ Head(outbox[current]) \in Replies
          /\ Tail(outbox[current]) \in Seq(Replies)
      BY <1>13, <2>1, HeadTailProperties DEF Receive, TypeOK, HelpersOK
    <2>3. HelpersOK'
      BY <1>13, <2>2 DEF Receive, TypeOK, HelpersOK, inside
    <2>4. CASE Tell("unclassified") /\ UNCHANGED <<hold, answer>>
      <3>1. OwnerOK' /\ HistoryOK'
        BY <2>4, TellTyped DEF TypeOK, OwnerOK, HistoryOK, hold, Losses
      <3> QED
        BY <2>3, <3>1 DEF TypeOK
    <2>5. CASE /\ Head(outbox[current]).kind \in Answers
               /\ Tell(Head(outbox[current]).kind)
               /\ answer' = [answer EXCEPT
                               ![serial] = Head(outbox[current]).call]
               /\ UNCHANGED hold
      <3>1. /\ Head(outbox[current]).kind \in Answers
            /\ Head(outbox[current]).call \in 0..MaxCalls
        BY <2>2, <2>5, ConstantsTyped DEF Replies, Ready, Rest
      <3>2. answer' \in [Calls -> 0..MaxCalls]
        BY <2>5, <3>1 DEF TypeOK, HistoryOK
      <3>3. OwnerOK' /\ HistoryOK'
        BY <2>5, <3>1, <3>2, TellTyped DEF TypeOK, OwnerOK, hold
      <3> QED
        BY <2>3, <3>3 DEF TypeOK
    <2>6. CASE /\ stage' = "discarding" /\ leaving' = current /\ current' = 0
               /\ UNCHANGED <<ids, progress, proxies, exit, history>>
      <3>1. OwnerOK'
        BY <2>6 DEF TypeOK, OwnerOK, ids, progress, Blocking
      <3>2. HistoryOK'
        BY <2>6 DEF TypeOK, HistoryOK, history
      <3> QED
        BY <2>3, <3>1, <3>2 DEF TypeOK
    <2> QED
      BY <1>13, <2>4, <2>5, <2>6 DEF Receive
  <1>14. CASE Discarded
    <2>1. HelpersOK'
      BY <1>14, ReclaimedTyped DEF Discarded
    <2>2. current' \in Helpers \cup {0} /\ leaving' \in Helpers \cup {0}
      BY <1>14 DEF Discarded, TypeOK, OwnerOK
    <2>3. answer' \in [Calls -> 0..MaxCalls]
      BY <1>14 DEF Discarded, TypeOK, HistoryOK
    <2>4. OwnerOK' /\ HistoryOK'
      BY <1>14, <2>2, <2>3, TellTyped DEF Discarded, Losses
    <2> QED
      BY <2>1, <2>4 DEF TypeOK
  <1>15. CASE HelperLost
    BY <1>15, AbandonTyped, ClassifiedTyped, HelperThere DEF HelperLost, Losses
  <1>16. CASE WaitTimesOut
    BY <1>16, AbandonTyped DEF WaitTimesOut, Losses
  <1>17. CASE Interrupt \/ WaitIsReset
    <2>1. current' \in Helpers \cup {0} /\ leaving' \in Helpers \cup {0}
      BY <1>17 DEF Interrupt, WaitIsReset, hold, TypeOK, OwnerOK
    <2>2. answer' \in [Calls -> 0..MaxCalls]
      BY <1>17 DEF Interrupt, WaitIsReset, TypeOK, HistoryOK
    <2>3. OwnerOK' /\ HistoryOK'
      BY <1>17, <2>1, <2>2, TellTyped DEF Interrupt, WaitIsReset, Losses
    <2>4. HelpersOK'
      BY <1>17 DEF Interrupt, WaitIsReset, TypeOK, HelpersOK, helpers, inside
    <2> QED
      BY <2>3, <2>4 DEF TypeOK
  <1>18. CASE CollectInCall
    BY <1>18 DEF CollectInCall, TypeOK, OwnerOK, HelpersOK, HistoryOK, ids,
                 progress, hold, helpers, inside, history
  <1>19. CASE BeginExit \/ CloseSends
    BY <1>19 DEF BeginExit, CloseSends, TypeOK, OwnerOK, HelpersOK, HistoryOK,
                 ids, progress, hold, helpers, inside, history
  <1>20. CASE EndExit
    BY <1>20 DEF EndExit, TypeOK, OwnerOK, HelpersOK, HistoryOK, ids, progress,
                 hold, helpers, inside, history
  <1>21. CASE OwnerDies
    BY <1>21 DEF OwnerDies, TypeOK, OwnerOK, HelpersOK, HistoryOK, ids,
                 progress, helpers, inside, history
  <1>22. ASSUME NEW h \in Helpers, HelperStep(h) \/ Dies(h) PROVE TypeOK'
    <2>1. OwnerOK'
      BY <1>22
      DEF HelperStep, Boot, Recv, Garbled, SeesEnd, Run, ReplySome, Reply,
          Ended, Dies, TypeOK, OwnerOK, owner, ids, progress, hold
    <2>2. CASE Boot(h)
      <3>1. Append(outbox[h], Ready) \in Seq(Replies)
        BY Appended DEF TypeOK, HelpersOK, Replies
      <3>2. HelpersOK'
        <4>1. outbox' \in [Helpers -> Seq(Replies)]
          BY <2>2, <3>1 DEF Boot, TypeOK, HelpersOK
        <4>2. /\ life' \in [Helpers -> {"unborn", "booting", "idle", "busy",
                                        "replying", "dying", "dead"}]
              /\ status' \in [Helpers -> {"none", "signal", "nonzero", "zero"}]
          BY <2>2 DEF Boot, TypeOK, HelpersOK
        <4> QED
          BY <2>2, <4>1, <4>2 DEF Boot, TypeOK, HelpersOK, inside
      <3>3. HistoryOK'
        BY <2>2 DEF Boot, TypeOK, HistoryOK, history
      <3> QED
        BY <2>1, <3>2, <3>3 DEF TypeOK
    <2>3. CASE Recv(h)
      <3>1. /\ Head(inbox[h]) \in Frames
            /\ Tail(inbox[h]) \in Seq(Frames)
        BY <2>3, HeadTailProperties DEF Recv, TypeOK, HelpersOK
      <3>2. HelpersOK'
        BY <2>3, <3>1 DEF Recv, TypeOK, HelpersOK
      <3>3. HistoryOK'
        <4>1. runs' \in [Calls -> Nat]
          <5>1. Head(inbox[h]).call \in Calls
            BY <3>1 DEF Frames
          <5>2. runs[Head(inbox[h]).call] + 1 \in Nat
            BY <5>1 DEF TypeOK, HistoryOK
          <5> QED
            BY <2>3, <5>2 DEF Recv, TypeOK, HistoryOK
        <4>2. clean' \in [Calls -> BOOLEAN]
          BY <2>3 DEF Recv, TypeOK, HistoryOK, HelpersOK
        <4> QED
          BY <2>3, <4>1, <4>2 DEF Recv, TypeOK, HistoryOK
      <3> QED
        BY <2>1, <3>2, <3>3 DEF TypeOK
    <2>4. CASE Garbled(h) \/ SeesEnd(h) \/ Dies(h) \/ Ended(h)
      <3>1. HelpersOK'
        <4>1. UNCHANGED <<inbox, outbox, inside>>
          BY <2>4 DEF Garbled, SeesEnd, Dies, Ended
        <4>2. life' = [life EXCEPT ![h] = "dying"]
                \/ life' = [life EXCEPT ![h] = "dead"]
          BY <2>4 DEF Garbled, SeesEnd, Dies, Ended
        <4>3. \/ status' = status
              \/ \E how \in {"signal", "nonzero", "zero"} :
                   status' = [status EXCEPT ![h] = how]
          BY <2>4 DEF Garbled, SeesEnd, Dies, Ended
        <4>4. life' \in [Helpers -> {"unborn", "booting", "idle", "busy",
                                     "replying", "dying", "dead"}]
          BY <4>2 DEF TypeOK, HelpersOK
        <4>5. status' \in [Helpers -> {"none", "signal", "nonzero", "zero"}]
          BY <4>3 DEF TypeOK, HelpersOK
        <4> QED
          BY <4>1, <4>4, <4>5 DEF TypeOK, HelpersOK, inside
      <3>2. HistoryOK'
        BY <2>4
        DEF Garbled, SeesEnd, Dies, Ended, TypeOK, HistoryOK, history
      <3> QED
        BY <2>1, <3>1, <3>2 DEF TypeOK
    <2>5. CASE Run(h)
      <3>1. PICK a \in Answers :
              LET c == job[h].call
                  left == ObjectsAfter(h, op[c], a)
              IN  /\ reply' = [reply EXCEPT ![h] = a]
                  /\ done' = [done EXCEPT ![c] = a]
                  /\ objects' = [objects EXCEPT ![h] = left]
                  /\ dirty' = [dirty EXCEPT ![h] = left # {}]
        BY <2>5 DEF Run
      <3>2. job[h].call \in Calls
        BY <2>5 DEF Run, TypeOK, HelpersOK, Accounted, AnswersAreDone, Working,
                    Frames
      <3>3. ObjectsAfter(h, op[job[h].call], a) \subseteq Objects
        BY <3>2 DEF ObjectsAfter, TypeOK, HelpersOK, HistoryOK, Ops
      <3>4. HelpersOK'
        BY <2>5, <3>1, <3>3 DEF Run, TypeOK, HelpersOK
      <3>5. HistoryOK'
        BY <2>5, <3>1 DEF Run, TypeOK, HistoryOK
      <3> QED
        BY <2>1, <3>4, <3>5 DEF TypeOK
    <2>7. CASE ReplySome(h)
      <3>1. HelpersOK'
        BY <2>7 DEF ReplySome, TypeOK, HelpersOK
      <3>2. HistoryOK'
        BY <2>7 DEF ReplySome, TypeOK, HistoryOK, history
      <3> QED
        BY <2>1, <3>1, <3>2 DEF TypeOK
    <2>6. CASE Reply(h)
      <3>1. Response(h) \in Replies
        BY <2>6 DEF Reply, Response, TypeOK, HelpersOK, Accounted,
                    AnswersAreDone, Working, Frames, Replies
      <3>2. HelpersOK'
        <4>1. outbox' \in [Helpers -> Seq(Replies)]
          <5>1. Append(outbox[h], Response(h)) \in Seq(Replies)
            BY <3>1, Appended DEF TypeOK, HelpersOK
          <5> QED
            BY <2>6, <5>1 DEF Reply, TypeOK, HelpersOK
        <4>2. /\ life' \in [Helpers -> {"unborn", "booting", "idle", "busy",
                                        "replying", "dying", "dead"}]
              /\ status' \in [Helpers -> {"none", "signal", "nonzero", "zero"}]
          BY <2>6 DEF Reply, TypeOK, HelpersOK
        <4>3. /\ job' \in [Helpers -> Frames \cup {NoJob}]
              /\ reply' \in [Helpers -> Answers \cup {"none"}]
              /\ begun' \in [Helpers -> {"none", "begun", "torn"}]
          BY <2>6 DEF Reply, TypeOK, HelpersOK
        <4> QED
          BY <2>6, <4>1, <4>2, <4>3 DEF Reply, TypeOK, HelpersOK
      <3>3. HistoryOK'
        BY <2>6 DEF Reply, TypeOK, HistoryOK, history
      <3> QED
        BY <2>1, <3>2, <3>3 DEF TypeOK
    <2> QED
      BY <1>22, <2>2, <2>3, <2>4, <2>5, <2>6, <2>7 DEF HelperStep
  <1>23. CASE BeginReceive
    BY <1>23 DEF BeginReceive, TypeOK, OwnerOK, HelpersOK, HistoryOK, ids,
                 progress, hold, helpers, inside, history, Blocking
  <1>24. ASSUME stage \in {"waiting", "receiving"},
                NEW told \in Losses, Tell(told), UNCHANGED <<hold, answer>>,
                \E n \in 0..Len(outbox[current]), cut \in BOOLEAN :
                  Swallowed(n, cut)
         PROVE  TypeOK'
    <2>1. HelpersOK'
      BY <1>24, HelperThere, SwallowedTyped
    <2>2. OwnerOK' /\ HistoryOK'
      BY <1>24, TellTyped DEF TypeOK, OwnerOK, HistoryOK, hold
    <2> QED
      BY <2>1, <2>2 DEF TypeOK
  <1>25. CASE GarbledReply
    <2>1. CASE Abandon(Classified(current))
      BY <1>25, <2>1, AbandonTyped, ClassifiedTyped, HelperThere
      DEF GarbledReply, Losses
    <2>2. CASE /\ \E n \in 0..Len(outbox[current]), cut \in BOOLEAN :
                    Swallowed(n, cut)
               /\ Tell("unclassified") /\ UNCHANGED <<hold, answer>>
      BY <1>24, <1>25, <2>2 DEF GarbledReply, Losses
    <2> QED
      BY <1>25, <2>1, <2>2 DEF GarbledReply
  <1>26. CASE InterruptedReceive
    BY <1>24, <1>26 DEF InterruptedReceive, Losses
  <1>27. CASE CloseJoins
    <2>1. HelpersOK'
      BY <1>27, ReclaimedTyped DEF CloseJoins
    <2>2. OwnerOK'
      BY <1>27 DEF CloseJoins, TypeOK, OwnerOK, ids, progress
    <2>3. HistoryOK'
      BY <1>27 DEF CloseJoins, TypeOK, HistoryOK, history
    <2> QED
      BY <2>1, <2>2, <2>3 DEF TypeOK
  <1>28. CASE UNCHANGED vars
    BY <1>28 DEF vars, owner, ids, progress, hold, helpers, inside, history,
                 TypeOK, OwnerOK, HelpersOK, HistoryOK
  <1> QED
    BY <1>1, <1>2, <1>3, <1>4, <1>5, <1>6, <1>7, <1>8, <1>9, <1>10, <1>11,
       <1>12, <1>13, <1>14, <1>15, <1>16, <1>17, <1>18, <1>19, <1>20, <1>21,
       <1>22, <1>23, <1>25, <1>26, <1>27, <1>28
    DEF Next, CallStep

-------------------------------------------------------------------------------
(* The invariant Accounted.                                                *)

\* What the owner leaves of the messages of h was there before.
Gleaned(h) == \A i \in 1..Len(outbox'[h]) :
    \/ outbox'[h][i] = Rest
    \/ \E j \in 1..Len(outbox[h]) : outbox'[h][i] = outbox[h][j]

\* Nothing starts or ends in a helper; messages are read by the owner or go
\* with their pipe.
Undisturbed ==
    /\ \A h \in Helpers : inbox'[h] = inbox[h] \/ inbox'[h] = <<>>
    /\ \A h \in Helpers :
         \/ outbox'[h] = outbox[h]
         \/ outbox'[h] = <<>>
         \/ outbox[h] # <<>> /\ outbox'[h] = Tail(outbox[h])
         \/ Gleaned(h)
    /\ \A h \in Helpers : life'[h] \in {"busy", "replying"} =>
         life'[h] = life[h] /\ job'[h] = job[h] /\ reply'[h] = reply[h]
    /\ runs' = runs /\ done' = done

\* What an undisturbed pipe holds was there before.
LEMMA PipesShrink ==
    ASSUME TypeOK, Undisturbed, NEW h \in Helpers
    PROVE  /\ \A i \in 1..Len(inbox'[h]) :
                i \in 1..Len(inbox[h]) /\ inbox'[h][i] = inbox[h][i]
           /\ \A i \in 1..Len(outbox'[h]) : outbox'[h][i].kind \in Answers =>
                \E j \in 1..Len(outbox[h]) : outbox'[h][i] = outbox[h][j]
  <1>1. \A i \in 1..Len(inbox'[h]) :
          i \in 1..Len(inbox[h]) /\ inbox'[h][i] = inbox[h][i]
    BY EmptySeq DEF Undisturbed, TypeOK, HelpersOK
  <1>2. CASE outbox'[h] = outbox[h] \/ outbox'[h] = <<>>
    BY <1>1, <1>2, EmptySeq
  <1>3. CASE outbox[h] # <<>> /\ outbox'[h] = Tail(outbox[h])
    <2>1. outbox[h] \in Seq(Replies)
      BY DEF TypeOK, HelpersOK
    <2>2. \A i \in 1..Len(outbox'[h]) : /\ i + 1 \in 1..Len(outbox[h])
                                        /\ outbox'[h][i] = outbox[h][i + 1]
      BY <1>3, <2>1, Popped
    <2> QED
      BY <1>1, <2>2
  <1>4. CASE Gleaned(h)
    BY <1>1, <1>4 DEF Gleaned, Rest, Answers
  <1> QED
    BY <1>1, <1>2, <1>3, <1>4 DEF Undisturbed

LEMMA UndisturbedAnswers ==
    ASSUME TypeOK, Accounted, Undisturbed
    PROVE  AnswersAreDone'
  <1>1. ASSUME NEW h \in Helpers, Working(h)'
        PROVE  /\ job'[h] # NoJob
               /\ runs'[job'[h].call] = 1
               /\ life'[h] = "busy" => done'[job'[h].call] = "none"
               /\ life'[h] = "replying" => /\ reply'[h] \in Answers
                                           /\ done'[job'[h].call] = reply'[h]
    BY <1>1 DEF Undisturbed, Working, Accounted, AnswersAreDone
  <1>2. ASSUME NEW h \in Helpers, NEW i \in 1..Len(outbox'[h]),
               outbox'[h][i].kind \in Answers
        PROVE  done'[outbox'[h][i].call] = outbox'[h][i].kind
    BY <1>2, PipesShrink DEF Undisturbed, Accounted, AnswersAreDone
  <1>3. \A g, h \in Helpers :
          Working(g)' /\ Working(h)' /\ job'[g].call = job'[h].call => g = h
    BY DEF Undisturbed, Working, Accounted, AnswersAreDone
  <1> QED
    BY <1>1, <1>2, <1>3 DEF AnswersAreDone, Working

LEMMA UndisturbedStarts ==
    ASSUME TypeOK, Accounted, Undisturbed,
           \A c \in Calls : outcome'[c] \in Refusals =>
             \/ outcome[c] \in Refusals
             \/ /\ runs[c] = 0
                /\ \A h \in Helpers : \A i \in 1..Len(inbox[h]) :
                     inbox[h][i].whole => inbox[h][i].call # c,
           \A c \in Calls : outcome'[c] = "none" => outcome[c] = "none"
    PROVE  StartedOnce'
  <1>1. ASSUME NEW h \in Helpers, NEW i \in 1..Len(inbox[h])
        PROVE  inbox[h][i].call \in Calls
    <2>1. inbox[h][i] \in Frames
      BY ElementOfSeq DEF TypeOK, HelpersOK
    <2> QED
      BY <2>1 DEF Frames
  <1>2. ASSUME NEW h \in Helpers, NEW i \in 1..Len(inbox'[h]),
               inbox'[h][i].whole
        PROVE  /\ runs'[inbox'[h][i].call] = 0
               /\ outcome'[inbox'[h][i].call] \notin Refusals
    BY <1>1, <1>2, PipesShrink DEF Undisturbed, Accounted, StartedOnce
  <1>3. ASSUME NEW g \in Helpers, NEW h \in Helpers,
               NEW i \in 1..Len(inbox'[g]), NEW j \in 1..Len(inbox'[h]),
               inbox'[g][i].whole, inbox'[h][j].whole,
               inbox'[g][i].call = inbox'[h][j].call
        PROVE  g = h /\ i = j
    <2>1. i \in 1..Len(inbox[g]) /\ inbox'[g][i] = inbox[g][i]
      BY PipesShrink
    <2>2. j \in 1..Len(inbox[h]) /\ inbox'[h][j] = inbox[h][j]
      BY PipesShrink
    <2> QED
      BY <1>3, <2>1, <2>2 DEF Accounted, StartedOnce
  <1>4. \A c \in Calls : outcome'[c] \in Refusals \cup {"none"} => runs'[c] = 0
    BY DEF Undisturbed, Accounted, StartedOnce
  <1> QED
    BY <1>2, <1>3, <1>4 DEF StartedOnce, Undisturbed, Accounted

LEMMA UndisturbedIds ==
    ASSUME TypeOK, TypeOK', Accounted, Undisturbed,
           serial' >= serial, lastId' >= lastId,
           \/ stage' = "free"
           \/ stage # "free" /\ reqId' = reqId /\ serial' = serial
           \/ reqId' > lastId
    PROVE  \A h \in Helpers :
             /\ \A i \in 1..Len(inbox'[h]) : Known(inbox[h][i])'
             /\ Working(h)' => Known(job[h])'
             /\ \A i \in 1..Len(outbox'[h]) :
                  outbox'[h][i].kind \in Answers => Known(outbox[h][i])'
  <1>1. ASSUME NEW f \in Frames \cup Replies, Known(f)
        PROVE  f.id <= lastId' /\ f.call <= serial'
               /\ (stage' # "free" /\ f.id = reqId' => f.call = serial')
    BY <1>1, ConstantsTyped
    DEF Known, TypeOK, OwnerOK, Frames, Replies, Ready, Rest, Calls
  <1>2. ASSUME NEW h \in Helpers
        PROVE  /\ \A i \in 1..Len(inbox[h]) : inbox[h][i] \in Frames
               /\ Working(h) => job[h] \in Frames
               /\ \A i \in 1..Len(outbox[h]) : outbox[h][i] \in Replies
    BY ElementOfSeq DEF TypeOK, HelpersOK, Accounted, AnswersAreDone
  <1>3. ASSUME NEW h \in Helpers, NEW i \in 1..Len(inbox'[h])
        PROVE  Known(inbox[h][i])'
    <2>1. i \in 1..Len(inbox[h]) /\ inbox'[h][i] = inbox[h][i]
      BY PipesShrink
    <2> QED
      BY <1>1, <1>2, <2>1 DEF Accounted, IdsAreFresh, Known
  <1>4. ASSUME NEW h \in Helpers, Working(h)'
        PROVE  Known(job[h])'
    BY <1>1, <1>2, <1>4 DEF Undisturbed, Working, Accounted, IdsAreFresh, Known
  <1>5. ASSUME NEW h \in Helpers, NEW i \in 1..Len(outbox'[h]),
               outbox'[h][i].kind \in Answers
        PROVE  Known(outbox[h][i])'
    <2>1. PICK j \in 1..Len(outbox[h]) : outbox'[h][i] = outbox[h][j]
      BY <1>5, PipesShrink
    <2> QED
      BY <1>1, <1>2, <1>5, <2>1 DEF Accounted, IdsAreFresh, Known
  <1> QED
    BY <1>3, <1>4, <1>5

LEMMA ReclaimedUndisturbed ==
    ASSUME TypeOK, NEW h, Reclaimed(h), runs' = runs, done' = done
    PROVE  Undisturbed
  BY DEF Reclaimed, Undisturbed, TypeOK, HelpersOK

LEMMA SwallowedUndisturbed ==
    ASSUME TypeOK, current \in Helpers, NEW n \in 0..Len(outbox[current]),
           NEW cut \in BOOLEAN, Swallowed(n, cut), runs' = runs, done' = done
    PROVE  Undisturbed
  <1> DEFINE box == outbox[current]
             left == SubSeq(box, n + 1, Len(box))
  <1>1. box \in Seq(Replies) /\ Len(box) \in Nat /\ n \in Nat
    BY DEF TypeOK, HelpersOK
  <1>2. /\ left \in Seq(Replies) /\ Len(left) = Len(box) - n
        /\ \A i \in 1..Len(left) : /\ left[i] = box[n + i]
                                  /\ n + i \in 1..Len(box)
    BY <1>1
  <1>3. /\ UNCHANGED <<life, inbox, job, reply>>
        /\ \A h \in Helpers : h # current => outbox'[h] = outbox[h]
        /\ outbox'[current] = IF cut /\ left # <<>> THEN <<Rest>> \o Tail(left)
                                                    ELSE left
    BY DEF Swallowed, TypeOK, HelpersOK
  <1>4. Gleaned(current)
    <2>1. CASE outbox'[current] = left
      BY <1>2, <2>1 DEF Gleaned
    <2>2. CASE left # <<>> /\ outbox'[current] = <<Rest>> \o Tail(left)
      <3>1. /\ Tail(left) \in Seq(Replies) /\ Len(Tail(left)) \in Nat
            /\ \A i \in 1..Len(Tail(left)) : /\ Tail(left)[i] = left[i + 1]
                                            /\ i + 1 \in 1..Len(left)
        BY <1>2, <2>2, Popped
      <3>2. /\ Len(outbox'[current]) = Len(Tail(left)) + 1
            /\ outbox'[current][1] = Rest
            /\ \A i \in 2..Len(outbox'[current]) :
                 outbox'[current][i] = Tail(left)[i - 1]
        <4>1. <<Rest>> \in Seq(Replies) /\ Len(<<Rest>>) = 1 /\ <<Rest>>[1] = Rest
          BY DEF Replies
        <4> QED
          BY <2>2, <3>1, <4>1, ConcatProperties
      <3>3. \A i \in 2..Len(outbox'[current]) :
              \E j \in 1..Len(box) : outbox'[current][i] = box[j]
        <4> SUFFICES ASSUME NEW i \in 2..Len(outbox'[current])
                     PROVE  \E j \in 1..Len(box) : outbox'[current][i] = box[j]
          OBVIOUS
        <4>1. i - 1 \in 1..Len(Tail(left)) /\ (i - 1) + 1 = i
          BY <3>1, <3>2
        <4>2. outbox'[current][i] = left[i] /\ i \in 1..Len(left)
          BY <3>1, <3>2, <4>1
        <4> QED
          BY <1>2, <4>2
      <3>4. \A i \in 1..Len(outbox'[current]) :
              i = 1 \/ i \in 2..Len(outbox'[current])
        BY <3>1, <3>2
      <3> QED
        BY <3>2, <3>3, <3>4 DEF Gleaned
    <2> QED
      BY <1>3, <2>1, <2>2
  <1> QED
    BY <1>3, <1>4 DEF Undisturbed

\* A call that ends leaves the invariant, if it may be refused only while its
\* request has not been sent.
LEMMA CallEndsAccounted ==
    ASSUME TypeOK, TypeOK', Accounted, Undisturbed, stage # "free",
           NEW told \in Answers \cup Refusals \cup Losses, Tell(told),
           told \in Refusals => stage \in {"spawning", "starting", "sending"}
    PROVE  Accounted'
  <1>1. serial \in Calls
    BY CallNumbered
  <1>2. /\ outcome'[serial] = told
        /\ \A c \in Calls : c # serial => outcome'[c] = outcome[c]
    BY <1>1 DEF Tell, TypeOK, HistoryOK
  <1>3. told \notin {"none", "pending"}
    BY DEF Answers, Refusals, Losses
  <1>4. CallsInOrder'
    BY <1>1, <1>2, <1>3, ConstantsTyped
    DEF Tell, ids, Accounted, CallsInOrder, TypeOK, OwnerOK
  <1>5. IdsAreFresh'
    BY UndisturbedIds DEF Tell, ids, Accounted, IdsAreFresh, TypeOK, OwnerOK
  <1>6. StartedOnce'
    BY <1>1, <1>2, <1>3, UndisturbedStarts DEF Accounted, UnsentIsUnseen
  <1>7. AnswersAreDone'
    BY UndisturbedAnswers
  <1>8. UnsentIsUnseen' /\ HasHelper'
    BY DEF Tell, UnsentIsUnseen, HasHelper
  <1> QED
    BY <1>4, <1>5, <1>6, <1>7, <1>8 DEF Accounted

\* A step within a call, or of its process.
LEMMA CallGoesOn ==
    ASSUME TypeOK, TypeOK', Accounted, Undisturbed,
           serial' = serial, outcome' = outcome, reqId' = reqId,
           stage' = "free" \/ stage # "free",
           stage' = "free" /\ exit' # "gone" => stage = "free" /\ exit # "gone",
           lastId' = lastId \/ (lastId' = reqId /\ stage # "free"),
           stage' \in {"sending", "waiting", "receiving"} => reqId = lastId',
           stage' \in {"spawning", "starting", "sending"} =>
             stage \in {"spawning", "starting", "sending"},
           HasHelper'
    PROVE  Accounted'
  <1>1. CallsInOrder'
    BY DEF Accounted, CallsInOrder
  <1>2. lastId' >= lastId /\ serial' >= serial
    BY DEF Accounted, IdsAreFresh, TypeOK, OwnerOK
  <1>3. IdsAreFresh'
    BY <1>2, UndisturbedIds DEF Accounted, IdsAreFresh, TypeOK, OwnerOK
  <1>4. StartedOnce'
    BY UndisturbedStarts
  <1>5. AnswersAreDone'
    BY UndisturbedAnswers
  <1>6. UnsentIsUnseen'
    BY PipesShrink DEF Undisturbed, Accounted, UnsentIsUnseen
  <1> QED
    BY <1>1, <1>3, <1>4, <1>5, <1>6 DEF Accounted

LEMMA AbandonAccounted ==
    ASSUME TypeOK, TypeOK', Accounted, stage # "free",
           NEW told \in Answers \cup Refusals \cup Losses, Abandon(told),
           told \in Refusals => stage \in {"spawning", "starting", "sending"}
    PROVE  Accounted'
  <1>1. Undisturbed
    BY ReclaimedUndisturbed DEF Abandon, Tell
  <1> QED
    BY <1>1, CallEndsAccounted DEF Abandon

LEMMA HelpersUndisturbed ==
    ASSUME TypeOK, UNCHANGED helpers, runs' = runs, done' = done
    PROVE  Undisturbed
  BY DEF helpers, inside, Undisturbed

\* Issuing a call: it is new to every pipe.
LEMMA BeginAccounted ==
    ASSUME TypeOK, TypeOK', Accounted, stage = "free", exit = "running",
           UNCHANGED <<helpers, exit>>,
           runs' = runs, done' = done, serial' = serial + 1,
           NEW told, told \in {"pending", "invalid"},
           outcome' = [outcome EXCEPT ![serial + 1] = told],
           \/ stage' = "free" /\ reqId' = reqId /\ lastId' = lastId
           \/ stage' = "spawning" /\ reqId' = lastId + 1 /\ lastId' = lastId
           \/ /\ stage' = "sending" /\ reqId' = lastId + 1
              /\ lastId' = lastId + 1 /\ current' # 0,
           stage' # "free" <=> told = "pending"
    PROVE  Accounted'
  <1>1. Undisturbed
    BY HelpersUndisturbed
  <1>2. serial \in Nat /\ serial' \in 0..MaxCalls /\ lastId \in Nat
    BY ConstantsTyped DEF TypeOK, OwnerOK
  <1>3. serial + 1 \in Calls
    BY <1>2, ConstantsTyped
  <1>4. /\ outcome'[serial + 1] = told
        /\ \A c \in Calls : c # serial + 1 => outcome'[c] = outcome[c]
    BY <1>3 DEF TypeOK, HistoryOK
  <1>5. CallsInOrder'
    <2>1. \A c \in Calls : outcome'[c] = "none" <=> c > serial'
      BY <1>2, <1>3, <1>4, ConstantsTyped DEF Accounted, CallsInOrder
    <2>2. \A c \in Calls : outcome'[c] = "pending" => c = serial'
      BY <1>2, <1>3, <1>4, ConstantsTyped DEF Accounted, CallsInOrder
    <2>3. stage' = "free" => \A c \in Calls : outcome'[c] # "pending"
      BY <1>2, <1>3, <1>4, ConstantsTyped DEF Accounted, CallsInOrder
    <2>4. stage' # "free" => serial' > 0 /\ outcome'[serial'] = "pending"
      BY <1>2, <1>4
    <2> QED
      BY <2>1, <2>2, <2>3, <2>4 DEF CallsInOrder
  <1>6. IdsAreFresh'
    <2>1. lastId' >= lastId /\ serial' >= serial
      BY <1>2
    <2>2. stage' = "free" \/ reqId' > lastId
      BY <1>2
    <2>3. \A h \in Helpers :
             /\ \A i \in 1..Len(inbox'[h]) : Known(inbox[h][i])'
             /\ Working(h)' => Known(job[h])'
             /\ \A i \in 1..Len(outbox'[h]) :
                  outbox'[h][i].kind \in Answers => Known(outbox[h][i])'
      BY <1>1, <2>1, <2>2, UndisturbedIds
    <2>4. lastId' <= serial' /\ reqId' <= serial'
      BY <1>2 DEF Accounted, IdsAreFresh, TypeOK, OwnerOK
    <2>5. /\ stage' # "free" => reqId' > 0 /\ reqId' \in {lastId', lastId' + 1}
          /\ stage' \in {"sending", "waiting", "receiving"} => reqId' = lastId'
      BY <1>2
    <2> QED
      BY <2>3, <2>4, <2>5 DEF IdsAreFresh
  <1>7. /\ runs[serial + 1] = 0
        /\ \A h \in Helpers : \A i \in 1..Len(inbox[h]) :
             inbox[h][i].call # serial + 1
    <2>1. outcome[serial + 1] = "none"
      BY <1>2, <1>3 DEF Accounted, CallsInOrder
    <2>2. ASSUME NEW h \in Helpers, NEW i \in 1..Len(inbox[h])
          PROVE  inbox[h][i].call # serial + 1
      <3>1. inbox[h][i] \in Frames
        BY ElementOfSeq DEF TypeOK, HelpersOK
      <3> QED
        BY <1>2, <3>1, ConstantsTyped DEF Accounted, IdsAreFresh, Known, Frames
    <2> QED
      BY <1>3, <2>1, <2>2 DEF Accounted, StartedOnce
  <1>8. StartedOnce'
    BY <1>1, <1>4, <1>7, UndisturbedStarts DEF Refusals
  <1>9. AnswersAreDone'
    BY <1>1, UndisturbedAnswers
  <1>10. UnsentIsUnseen'
    BY <1>7 DEF UnsentIsUnseen, helpers
  <1>11. HasHelper'
    BY DEF HasHelper
  <1> QED
    BY <1>5, <1>6, <1>8, <1>9, <1>10, <1>11 DEF Accounted

\* A write adds to the pipe, or completes in it, the frame of the current call.
LEMMA WriteAccounted ==
    ASSUME TypeOK, TypeOK', Accounted, stage = "sending",
           NEW k, NEW whole \in BOOLEAN,
           \A h \in Helpers : h # current => inbox'[h] = inbox[h],
           \A i \in 1..Len(inbox'[current]) :
             \/ i = k /\ inbox'[current][i] = Frame(whole)
             \/ /\ i \in 1..Len(inbox[current])
                /\ inbox'[current][i] = inbox[current][i],
           UNCHANGED <<ids, hold, exit, life, status, outbox, inside, history>>,
           stage' = IF whole THEN "waiting" ELSE "sending"
    PROVE  Accounted'
  <1>1. /\ serial \in Calls /\ reqId \in Calls
        /\ reqId = lastId /\ outcome[serial] = "pending"
    BY CallNumbered DEF Accounted, IdsAreFresh, CallsInOrder
  <1>2. /\ Frame(whole).whole = whole
        /\ Frame(whole).id = reqId /\ Frame(whole).call = serial
    BY DEF Frame
  <1>3. ASSUME NEW h \in Helpers, NEW i \in 1..Len(inbox'[h])
        PROVE  \/ h = current /\ i = k /\ inbox'[h][i] = Frame(whole)
               \/ i \in 1..Len(inbox[h]) /\ inbox'[h][i] = inbox[h][i]
    BY <1>3
  <1>4. CallsInOrder'
    BY DEF Accounted, CallsInOrder, ids, history
  <1>5. IdsAreFresh'
    <2>1. ASSUME NEW h \in Helpers, NEW i \in 1..Len(inbox'[h])
          PROVE  Known(inbox[h][i])'
      <3>1. CASE inbox'[h][i] = Frame(whole)
        BY <1>1, <1>2, <3>1, ConstantsTyped
        DEF Known, ids, Accounted, IdsAreFresh, TypeOK, OwnerOK
      <3>2. CASE i \in 1..Len(inbox[h]) /\ inbox'[h][i] = inbox[h][i]
        BY <3>2 DEF Known, ids, Accounted, IdsAreFresh
      <3> QED
        BY <1>3, <2>1, <3>1, <3>2
    <2>2. ASSUME NEW h \in Helpers
          PROVE  /\ Working(h)' => Known(job[h])'
                 /\ \A i \in 1..Len(outbox'[h]) :
                      outbox'[h][i].kind \in Answers => Known(outbox[h][i])'
      BY DEF Working, Known, ids, inside, Accounted, IdsAreFresh
    <2> QED
      BY <2>1, <2>2 DEF IdsAreFresh, ids, Accounted
  <1>6. StartedOnce'
    <2>1. runs[serial] = 0 /\ outcome[serial] \notin Refusals
      BY <1>1 DEF Accounted, UnsentIsUnseen, Refusals
    <2>2. \A h \in Helpers : \A i \in 1..Len(inbox[h]) :
            inbox[h][i].whole => inbox[h][i].call # serial
      BY DEF Accounted, UnsentIsUnseen
    <2>3. ASSUME NEW h \in Helpers, NEW i \in 1..Len(inbox'[h]),
                 inbox'[h][i].whole
          PROVE  /\ runs[inbox'[h][i].call] = 0
                 /\ outcome[inbox'[h][i].call] \notin Refusals
      BY <1>2, <1>3, <2>1, <2>3 DEF Accounted, StartedOnce
    <2>4. ASSUME NEW g \in Helpers, NEW h \in Helpers,
                 NEW i \in 1..Len(inbox'[g]), NEW j \in 1..Len(inbox'[h]),
                 inbox'[g][i].whole, inbox'[h][j].whole,
                 inbox'[g][i].call = inbox'[h][j].call
          PROVE  g = h /\ i = j
      <3>1. CASE inbox'[g][i] = Frame(whole) /\ g = current /\ i = k
        BY <1>2, <1>3, <2>2, <2>4, <3>1
      <3>2. CASE i \in 1..Len(inbox[g]) /\ inbox'[g][i] = inbox[g][i]
        BY <1>2, <1>3, <2>2, <2>4, <3>2 DEF Accounted, StartedOnce
      <3> QED
        BY <1>3, <3>1, <3>2
    <2> QED
      BY <2>3, <2>4 DEF Accounted, StartedOnce, history
  <1>7. UnsentIsUnseen'
    BY <1>2, <1>3 DEF Accounted, UnsentIsUnseen, ids, history
  <1>8. AnswersAreDone'
    BY DEF Accounted, AnswersAreDone, Working, inside, history
  <1>9. HasHelper'
    BY DEF Accounted, HasHelper, hold
  <1> QED
    BY <1>4, <1>5, <1>6, <1>7, <1>8, <1>9 DEF Accounted

\* A step of a helper leaves the owner's part of the invariant alone.
LEMMA OwnerKept ==
    ASSUME Accounted, UNCHANGED owner, outcome' = outcome
    PROVE  /\ CallsInOrder' /\ HasHelper'
           /\ lastId' <= serial' /\ reqId' <= serial'
           /\ stage' # "free" => reqId' > 0 /\ reqId' \in {lastId', lastId' + 1}
           /\ stage' \in {"sending", "waiting", "receiving"} => reqId' = lastId'
           /\ \A f : Known(f) => /\ f.id <= lastId' /\ f.call <= serial'
                                 /\ stage' # "free" /\ f.id = reqId'
                                      => f.call = serial'
  BY DEF Accounted, CallsInOrder, HasHelper, IdsAreFresh, Known, owner, ids,
         hold

LEMMA BootAccounted ==
    ASSUME TypeOK, TypeOK', Accounted, NEW h \in Helpers, Boot(h)
    PROVE  Accounted'
  <1>1. UNCHANGED owner /\ outcome' = outcome /\ ~Working(h) /\ ~Working(h)'
        /\ \A g \in Helpers : g # h => life'[g] = life[g] /\ outbox'[g] = outbox[g]
    BY DEF Boot, history, Working, TypeOK, HelpersOK
  <1>2. outbox[h] \in Seq(Replies) /\ Ready \in Replies
    BY DEF TypeOK, HelpersOK, Replies
  <1>3. ASSUME NEW g \in Helpers, NEW i \in 1..Len(outbox'[g]),
               outbox'[g][i].kind \in Answers
        PROVE  i \in 1..Len(outbox[g]) /\ outbox'[g][i] = outbox[g][i]
    <2>1. CASE g = h /\ outbox'[h] = Append(outbox[h], Ready)
      BY <1>2, <1>3, <2>1, Appended DEF Ready, Answers
    <2>2. CASE outbox'[g] = outbox[g]
      BY <1>3, <2>2
    <2> QED
      BY <1>1, <2>1, <2>2 DEF Boot, TypeOK, HelpersOK
  <1>4. IdsAreFresh'
    <2>1. ASSUME NEW g \in Helpers
          PROVE  /\ \A i \in 1..Len(inbox'[g]) : Known(inbox[g][i])'
                 /\ Working(g)' => Known(job[g])'
                 /\ \A i \in 1..Len(outbox'[g]) :
                      outbox'[g][i].kind \in Answers => Known(outbox[g][i])'
      BY <1>1, <1>3, OwnerKept
      DEF Boot, inside, Working, Known, Accounted, IdsAreFresh
    <2> QED
      BY <1>1, <2>1, OwnerKept DEF IdsAreFresh
  <1>5. StartedOnce' /\ UnsentIsUnseen'
    BY <1>1 DEF Boot, history, owner, ids, Accounted, StartedOnce,
                UnsentIsUnseen
  <1>6. AnswersAreDone'
    BY <1>1, <1>3 DEF Boot, inside, history, Working, Accounted, AnswersAreDone
  <1> QED
    BY <1>1, <1>4, <1>5, <1>6, OwnerKept DEF Accounted

LEMMA RecvAccounted ==
    ASSUME TypeOK, TypeOK', Accounted, NEW h \in Helpers, Recv(h)
    PROVE  Accounted'
  <1> DEFINE frame == Head(inbox[h])
  <1>1. /\ frame \in Frames /\ frame = inbox[h][1] /\ frame.whole
        /\ 1 \in 1..Len(inbox[h])
        /\ \A i \in 1..Len(inbox'[h]) : /\ i + 1 \in 1..Len(inbox[h])
                                        /\ inbox'[h][i] = inbox[h][i + 1]
    BY Popped DEF Recv, TypeOK, HelpersOK
  <1>2. /\ frame.call \in Calls
        /\ runs[frame.call] = 0 /\ done[frame.call] = "none"
        /\ outcome[frame.call] \notin Refusals
        /\ frame.call <= serial
    BY <1>1 DEF Accounted, StartedOnce, IdsAreFresh, Known, Frames
  <1>3. /\ runs'[frame.call] = 1
        /\ \A c \in Calls : c # frame.call => runs'[c] = runs[c]
        /\ done' = done /\ outcome' = outcome /\ UNCHANGED owner
    BY <1>2 DEF Recv, TypeOK, HistoryOK
  <1>4. ASSUME NEW g \in Helpers, NEW i \in 1..Len(inbox'[g])
        PROVE  \E j \in 1..Len(inbox[g]) :
                 /\ inbox'[g][i] = inbox[g][j]
                 /\ j = IF g = h THEN i + 1 ELSE i
    BY <1>1 DEF Recv, TypeOK, HelpersOK
  <1>5. ASSUME NEW g \in Helpers, NEW i \in 1..Len(inbox'[g]),
               inbox'[g][i].whole
        PROVE  inbox'[g][i].call # frame.call
    <2>1. PICK j \in 1..Len(inbox[g]) : /\ inbox'[g][i] = inbox[g][j]
                                        /\ j = IF g = h THEN i + 1 ELSE i
      BY <1>4
    <2>2. ~(g = h /\ j = 1)
      BY <2>1
    <2> QED
      BY <1>1, <1>5, <2>1, <2>2 DEF Accounted, StartedOnce
  <1>6. /\ job'[h] = frame /\ life'[h] = "busy"
        /\ \A g \in Helpers : g # h => /\ life'[g] = life[g]
                                       /\ job'[g] = job[g]
        /\ reply' = reply /\ outbox' = outbox
    BY DEF Recv, TypeOK, HelpersOK
  <1>7. frame.call # serial \/ stage \notin {"spawning", "starting", "sending"}
    BY <1>1 DEF Accounted, UnsentIsUnseen
  <1>8. IdsAreFresh'
    <2>1. ASSUME NEW g \in Helpers, NEW i \in 1..Len(inbox'[g])
          PROVE  Known(inbox[g][i])'
      <3>1. PICK j \in 1..Len(inbox[g]) : inbox'[g][i] = inbox[g][j]
        BY <1>4
      <3> QED
        BY <1>3, <3>1, OwnerKept DEF Known, Accounted, IdsAreFresh
    <2>2. ASSUME NEW g \in Helpers
          PROVE  Working(g)' => Known(job[g])'
      BY <1>1, <1>3, <1>6, OwnerKept
      DEF Known, Working, Accounted, IdsAreFresh
    <2>3. ASSUME NEW g \in Helpers, NEW i \in 1..Len(outbox'[g]),
                 outbox'[g][i].kind \in Answers
          PROVE  Known(outbox[g][i])'
      BY <1>3, <1>6, <2>3, OwnerKept DEF Known, Accounted, IdsAreFresh
    <2> QED
      BY <1>3, <2>1, <2>2, <2>3, OwnerKept DEF IdsAreFresh
  <1>9. StartedOnce'
    <2>1. \A c \in Calls : /\ runs'[c] \in {0, 1}
                           /\ runs'[c] = 0 => done'[c] = "none"
      BY <1>3 DEF Accounted, StartedOnce
    <2>2. \A c \in Calls : outcome'[c] \in Refusals \cup {"none"} => runs'[c] = 0
      <3>1. outcome[frame.call] # "none"
        BY <1>2, ConstantsTyped
        DEF Accounted, CallsInOrder, TypeOK, OwnerOK
      <3> QED
        BY <1>2, <1>3, <3>1 DEF Accounted, StartedOnce
    <2>3. ASSUME NEW g \in Helpers, NEW i \in 1..Len(inbox'[g]),
                 inbox'[g][i].whole
          PROVE  /\ runs'[inbox'[g][i].call] = 0
                 /\ outcome'[inbox'[g][i].call] \notin Refusals
      <3>1. PICK j \in 1..Len(inbox[g]) : inbox'[g][i] = inbox[g][j]
        BY <1>4
      <3>2. inbox[g][j] \in Frames
        BY ElementOfSeq DEF TypeOK, HelpersOK
      <3> QED
        BY <1>3, <1>5, <2>3, <3>1, <3>2 DEF Accounted, StartedOnce, Frames
    <2>4. ASSUME NEW f \in Helpers, NEW g \in Helpers,
                 NEW i \in 1..Len(inbox'[f]), NEW j \in 1..Len(inbox'[g]),
                 inbox'[f][i].whole, inbox'[g][j].whole,
                 inbox'[f][i].call = inbox'[g][j].call
          PROVE  f = g /\ i = j
      <3>1. PICK k \in 1..Len(inbox[f]) : /\ inbox'[f][i] = inbox[f][k]
                                          /\ k = IF f = h THEN i + 1 ELSE i
        BY <1>4
      <3>2. PICK l \in 1..Len(inbox[g]) : /\ inbox'[g][j] = inbox[g][l]
                                          /\ l = IF g = h THEN j + 1 ELSE j
        BY <1>4
      <3>3. f = g /\ k = l
        BY <2>4, <3>1, <3>2 DEF Accounted, StartedOnce
      <3> QED
        BY <3>1, <3>2, <3>3
    <2> QED
      BY <2>1, <2>2, <2>3, <2>4 DEF StartedOnce
  <1>10. UnsentIsUnseen'
    <2>1. CASE stage \in {"spawning", "starting", "sending"}
      <3>1. serial \in Calls
        BY <2>1, CallNumbered
      <3> QED
        BY <1>3, <1>4, <1>7, <2>1, <3>1
        DEF Accounted, UnsentIsUnseen, owner, ids
    <2>2. CASE stage \notin {"spawning", "starting", "sending"}
      BY <1>3, <2>2 DEF UnsentIsUnseen, owner
    <2> QED
      BY <2>1, <2>2
  <1>11. AnswersAreDone'
    <2>1. ASSUME NEW g \in Helpers, Working(g)', g # h
          PROVE  /\ job'[g] # NoJob
                 /\ runs'[job'[g].call] = 1
                 /\ life'[g] = "busy" => done'[job'[g].call] = "none"
                 /\ life'[g] = "replying" =>
                      reply'[g] \in Answers /\ done'[job'[g].call] = reply'[g]
      <3>1. Working(g) /\ job[g] # NoJob /\ runs[job[g].call] = 1
        BY <1>6, <2>1 DEF Working, Accounted, AnswersAreDone
      <3>2. job[g].call \in Calls
        BY <3>1 DEF TypeOK, HelpersOK, Frames
      <3> QED
        BY <1>2, <1>3, <1>6, <2>1, <3>1, <3>2
        DEF Working, Accounted, AnswersAreDone
    <2>2. /\ job'[h] # NoJob
          /\ runs'[job'[h].call] = 1
          /\ done'[job'[h].call] = "none" /\ life'[h] = "busy"
      BY <1>1, <1>2, <1>3, <1>6 DEF NoJob
    <2>3. \A g \in Helpers : \A i \in 1..Len(outbox'[g]) :
            outbox'[g][i].kind \in Answers =>
              done'[outbox'[g][i].call] = outbox'[g][i].kind
      BY <1>3, <1>6 DEF Accounted, AnswersAreDone
    <2>4. ASSUME NEW g \in Helpers, Working(g)', g # h
          PROVE  job'[g].call # job'[h].call
      <3>1. Working(g) /\ runs[job[g].call] = 1
        BY <1>6, <2>4 DEF Working, Accounted, AnswersAreDone
      <3> QED
        BY <1>2, <1>6, <2>4, <3>1
    <2>5. \A f, g \in Helpers :
            Working(f)' /\ Working(g)' /\ job'[f].call = job'[g].call => f = g
      BY <1>6, <2>4 DEF Working, Accounted, AnswersAreDone
    <2> QED
      BY <2>1, <2>2, <2>3, <2>5 DEF AnswersAreDone
  <1> QED
    BY <1>3, <1>8, <1>9, <1>10, <1>11, OwnerKept DEF Accounted

LEMMA RunAccounted ==
    ASSUME TypeOK, TypeOK', Accounted, NEW h \in Helpers, Run(h)
    PROVE  Accounted'
  <1> DEFINE c == job[h].call
  <1>1. Working(h) /\ job[h] \in Frames /\ c \in Calls
        /\ runs[c] = 1 /\ done[c] = "none"
    BY DEF Run, Working, Accounted, AnswersAreDone, TypeOK, HelpersOK, Frames
  <1>2. PICK a \in Answers : /\ reply' = [reply EXCEPT ![h] = a]
                             /\ done' = [done EXCEPT ![c] = a]
    BY DEF Run
  <1>3. /\ done'[c] = a /\ reply'[h] = a
        /\ \A d \in Calls : d # c => done'[d] = done[d]
        /\ \A g \in Helpers : g # h => reply'[g] = reply[g]
    BY <1>1, <1>2 DEF TypeOK, HistoryOK, HelpersOK
  <1>4. /\ UNCHANGED owner /\ outcome' = outcome /\ runs' = runs
        /\ job' = job /\ inbox' = inbox /\ outbox' = outbox
        /\ life'[h] = "replying"
        /\ \A g \in Helpers : g # h => life'[g] = life[g]
    BY DEF Run, TypeOK, HelpersOK
  <1>5. \A g \in Helpers : Working(g)' <=> Working(g)
    BY <1>1, <1>4 DEF Working
  <1>6. IdsAreFresh'
    BY <1>4, <1>5, OwnerKept DEF IdsAreFresh, Accounted, Known
  <1>7. StartedOnce'
    <2>1. \A d \in Calls : runs'[d] = 0 => done'[d] = "none"
      BY <1>1, <1>3, <1>4 DEF Accounted, StartedOnce
    <2> QED
      BY <1>4, <2>1 DEF Accounted, StartedOnce
  <1>8. UnsentIsUnseen'
    BY <1>4 DEF Accounted, UnsentIsUnseen, owner, ids
  <1>9. AnswersAreDone'
    <2>1. ASSUME NEW g \in Helpers, Working(g)', g # h
          PROVE  /\ job'[g] # NoJob
                 /\ runs'[job'[g].call] = 1
                 /\ life'[g] = "busy" => done'[job'[g].call] = "none"
                 /\ life'[g] = "replying" =>
                      reply'[g] \in Answers /\ done'[job'[g].call] = reply'[g]
      <3>1. Working(g) /\ job[g] # NoJob /\ job[g].call # c
        BY <1>1, <1>5, <2>1 DEF Accounted, AnswersAreDone
      <3>2. job[g].call \in Calls
        BY <3>1 DEF TypeOK, HelpersOK, Frames
      <3> QED
        BY <1>3, <1>4, <2>1, <3>1, <3>2 DEF Accounted, AnswersAreDone
    <2>2. /\ job'[h] # NoJob /\ runs'[job'[h].call] = 1
          /\ life'[h] = "replying"
          /\ reply'[h] \in Answers /\ done'[job'[h].call] = reply'[h]
      BY <1>1, <1>3, <1>4 DEF Accounted, AnswersAreDone
    <2>3. ASSUME NEW g \in Helpers, NEW i \in 1..Len(outbox'[g]),
                 outbox'[g][i].kind \in Answers
          PROVE  done'[outbox'[g][i].call] = outbox'[g][i].kind
      <3>1. /\ outbox[g][i] \in Replies /\ outbox[g][i].kind \in Answers
            /\ done[outbox[g][i].call] = outbox[g][i].kind
        BY <1>4, <2>3, ElementOfSeq
        DEF TypeOK, HelpersOK, Accounted, AnswersAreDone
      <3>2. outbox[g][i].call \in Calls /\ outbox[g][i].kind \in Answers
        BY <3>1 DEF Replies, Ready, Rest, Answers
      <3>3. outbox[g][i].call # c
        BY <1>1, <3>1, <3>2 DEF Answers
      <3> QED
        BY <1>3, <1>4, <3>1, <3>2, <3>3
    <2>4. \A f, g \in Helpers :
            Working(f)' /\ Working(g)' /\ job'[f].call = job'[g].call => f = g
      BY <1>4, <1>5 DEF Accounted, AnswersAreDone
    <2> QED
      BY <1>4, <2>1, <2>2, <2>3, <2>4 DEF AnswersAreDone
  <1> QED
    BY <1>4, <1>6, <1>7, <1>8, <1>9, OwnerKept DEF Accounted

LEMMA ReplyAccounted ==
    ASSUME TypeOK, TypeOK', Accounted, NEW h \in Helpers, Reply(h)
    PROVE  Accounted'
  <1> DEFINE message == Response(h)
  <1>1. /\ Working(h) /\ job[h] \in Frames /\ Known(job[h])
        /\ reply[h] \in Answers /\ done[job[h].call] = reply[h]
    BY DEF Reply, Working, Accounted, AnswersAreDone, IdsAreFresh, TypeOK,
           HelpersOK
  <1>2. /\ message \in Replies /\ outbox[h] \in Seq(Replies)
        /\ message.kind \in Answers =>
             message = [kind |-> reply[h], id |-> job[h].id,
                        call |-> job[h].call]
    BY <1>1 DEF Response, Replies, Frames, Rest, Answers, TypeOK, HelpersOK
  <1>3. /\ UNCHANGED owner /\ outcome' = outcome /\ runs' = runs
        /\ done' = done /\ inbox' = inbox
        /\ life'[h] \in {"idle", "dying"}
        /\ \A g \in Helpers : g # h => /\ life'[g] = life[g]
                                       /\ job'[g] = job[g]
                                       /\ reply'[g] = reply[g]
                                       /\ outbox'[g] = outbox[g]
    BY DEF Reply, TypeOK, HelpersOK, history
  <1>4. outbox'[h] = outbox[h] \/ outbox'[h] = Append(outbox[h], message)
    BY DEF Reply, TypeOK, HelpersOK
  <1>5. \A g \in Helpers : Working(g)' <=> Working(g) /\ g # h
    BY <1>3 DEF Working
  <1>6. ASSUME NEW g \in Helpers, NEW i \in 1..Len(outbox'[g])
        PROVE  \/ outbox'[g][i] = message
               \/ i \in 1..Len(outbox[g]) /\ outbox'[g][i] = outbox[g][i]
    <2>1. CASE outbox'[g] = outbox[g]
      BY <1>6, <2>1
    <2>2. CASE g = h /\ outbox'[h] = Append(outbox[h], message)
      BY <1>2, <1>6, <2>2, Appended
    <2> QED
      BY <1>3, <1>4, <2>1, <2>2
  <1>7. IdsAreFresh'
    <2>1. ASSUME NEW g \in Helpers, NEW i \in 1..Len(outbox'[g]),
                 outbox'[g][i].kind \in Answers
          PROVE  Known(outbox[g][i])'
      <3>1. CASE outbox'[g][i] = message
        BY <1>1, <1>2, <1>3, <2>1, <3>1, OwnerKept DEF Known
      <3>2. CASE i \in 1..Len(outbox[g]) /\ outbox'[g][i] = outbox[g][i]
        BY <1>3, <2>1, <3>2, OwnerKept DEF Known, Accounted, IdsAreFresh
      <3> QED
        BY <1>6, <3>1, <3>2
    <2>2. ASSUME NEW g \in Helpers
          PROVE  /\ \A i \in 1..Len(inbox'[g]) : Known(inbox[g][i])'
                 /\ Working(g)' => Known(job[g])'
      BY <1>3, <1>5, OwnerKept DEF Known, Accounted, IdsAreFresh
    <2> QED
      BY <1>3, <2>1, <2>2, OwnerKept DEF IdsAreFresh
  <1>8. StartedOnce' /\ UnsentIsUnseen'
    BY <1>3 DEF Accounted, StartedOnce, UnsentIsUnseen, owner, ids
  <1>9. AnswersAreDone'
    <2>1. ASSUME NEW g \in Helpers, Working(g)'
          PROVE  /\ job'[g] # NoJob
                 /\ runs'[job'[g].call] = 1
                 /\ life'[g] = "busy" => done'[job'[g].call] = "none"
                 /\ life'[g] = "replying" =>
                      reply'[g] \in Answers /\ done'[job'[g].call] = reply'[g]
      BY <1>3, <1>5, <2>1 DEF Accounted, AnswersAreDone
    <2>2. ASSUME NEW g \in Helpers, NEW i \in 1..Len(outbox'[g]),
                 outbox'[g][i].kind \in Answers
          PROVE  done'[outbox'[g][i].call] = outbox'[g][i].kind
      BY <1>1, <1>2, <1>3, <1>6, <2>2 DEF Accounted, AnswersAreDone
    <2>3. \A f, g \in Helpers :
            Working(f)' /\ Working(g)' /\ job'[f].call = job'[g].call => f = g
      BY <1>3, <1>5 DEF Accounted, AnswersAreDone
    <2> QED
      BY <2>1, <2>2, <2>3 DEF AnswersAreDone
  <1> QED
    BY <1>3, <1>7, <1>8, <1>9, OwnerKept DEF Accounted

LEMMA AccountedStep ==
    ASSUME TypeOK, TypeOK', Accounted, [Next]_vars
    PROVE  Accounted'
  <1>1. ASSUME NEW o \in Ops, Begin(o) PROVE Accounted'
    <2>1. CASE current # 0 /\ IsAlive(current)
      BY <1>1, <2>1, BeginAccounted DEF Begin, hold
    <2>2. CASE ~(current # 0 /\ IsAlive(current))
      BY <1>1, <2>2, BeginAccounted DEF Begin
    <2> QED
      BY <2>1, <2>2
  <1>2. ASSUME NEW o \in Ops, Refuse(o) PROVE Accounted'
    BY <1>2, BeginAccounted DEF Refuse
  <1>3. CASE DeadlinePasses
    <2>1. Undisturbed
      BY <1>3, HelpersUndisturbed DEF DeadlinePasses, history
    <2>2. HasHelper'
      BY <1>3 DEF DeadlinePasses, hold, Accounted, HasHelper
    <2> QED
      BY <1>3, <2>1, <2>2, CallGoesOn
      DEF DeadlinePasses, ids, history, Accounted, IdsAreFresh
  <1>4. CASE Spawn
    <2>1. Undisturbed
      BY <1>4 DEF Spawn, Undisturbed, inside, history, TypeOK, HelpersOK
    <2>2. HasHelper'
      BY <1>4, ConstantsTyped DEF Spawn, Accounted, HasHelper
    <2> QED
      BY <1>4, <2>1, <2>2, CallGoesOn DEF Spawn, ids, history
  <1>5. CASE SpawnFails
    <2>1. Undisturbed
      BY <1>5, HelpersUndisturbed DEF SpawnFails, Tell
    <2> QED
      BY <1>5, <2>1, CallEndsAccounted DEF SpawnFails, Refusals
  <1>6. CASE Started
    <2>1. Undisturbed
      BY <1>6, HelperThere
      DEF Started, Undisturbed, inside, history, TypeOK, HelpersOK
    <2>2. HasHelper'
      BY <1>6 DEF Started, hold, Accounted, HasHelper
    <2> QED
      BY <1>6, <2>1, <2>2, CallGoesOn DEF Started, history
  <1>7. CASE StartFails
    BY <1>7, AbandonAccounted DEF StartFails, Refusals
  <1>8. CASE SendSome
    <2>1. inbox[current] \in Seq(Frames) /\ Frame(FALSE) \in Frames
      BY <1>8, HelperThere, FrameTyped DEF SendSome, TypeOK, HelpersOK
    <2>2. inbox'[current] = Append(inbox[current], Frame(FALSE))
      BY <1>8, HelperThere DEF SendSome, TypeOK, HelpersOK
    <2>3. PICK k : \A i \in 1..Len(inbox'[current]) :
             \/ i = k /\ inbox'[current][i] = Frame(FALSE)
             \/ /\ i \in 1..Len(inbox[current])
                /\ inbox'[current][i] = inbox[current][i]
      <3>1. WrittenTo(inbox[current], inbox'[current], Frame(FALSE))
        BY <2>1, <2>2, Written
      <3> QED
        BY <3>1 DEF WrittenTo
    <2>4. \A h \in Helpers : h # current => inbox'[h] = inbox[h]
      BY <1>8 DEF SendSome, TypeOK, HelpersOK
    <2> QED
      BY <1>8, <2>3, <2>4, WriteAccounted DEF SendSome
  <1>9. CASE SendRest
    <2>1. inbox[current] \in Seq(Frames) /\ Frame(TRUE) \in Frames
      BY <1>9, HelperThere, FrameTyped DEF SendRest, TypeOK, HelpersOK
    <2>2. \/ inbox'[current] = Append(inbox[current], Frame(TRUE))
          \/ inbox'[current] = [inbox[current] EXCEPT
                                  ![Len(inbox[current])] = Frame(TRUE)]
      BY <1>9, HelperThere DEF SendRest, TypeOK, HelpersOK
    <2>3. PICK k : \A i \in 1..Len(inbox'[current]) :
             \/ i = k /\ inbox'[current][i] = Frame(TRUE)
             \/ /\ i \in 1..Len(inbox[current])
                /\ inbox'[current][i] = inbox[current][i]
      <3>1. WrittenTo(inbox[current], inbox'[current], Frame(TRUE))
        BY <2>1, <2>2, Written
      <3> QED
        BY <3>1 DEF WrittenTo
    <2>4. \A h \in Helpers : h # current => inbox'[h] = inbox[h]
      BY <1>9 DEF SendRest, TypeOK, HelpersOK
    <2> QED
      BY <1>9, <2>3, <2>4, WriteAccounted DEF SendRest
  <1>10. CASE SendTimesOut
    BY <1>10, AbandonAccounted DEF SendTimesOut, Losses, Refusals
  <1>11. CASE SendFails
    <2>1. Undisturbed
      BY <1>11, ReclaimedUndisturbed DEF SendFails, history
    <2>2. HasHelper'
      BY <1>11 DEF SendFails, Accounted, HasHelper
    <2> QED
      BY <1>11, <2>1, <2>2, CallGoesOn DEF SendFails, ids, history
  <1>12. CASE SendFailsAgain
    BY <1>12, AbandonAccounted, ClassifiedTyped, HelperThere
    DEF SendFailsAgain, Refusals, Losses
  <1>13. CASE Receive
    <2>1. current \in Helpers
      BY <1>13, HelperThere DEF Receive
    <2>2. Head(outbox[current]) \in Replies
      BY <1>13, <2>1, HeadTailProperties DEF Receive, TypeOK, HelpersOK
    <2>3. UNCHANGED <<runs, done>>
      BY <1>13 DEF Receive, Tell, history
    <2>4. Undisturbed
      BY <1>13, <2>1, <2>3
      DEF Receive, Undisturbed, inside, TypeOK, HelpersOK
    <2>5. CASE Tell("unclassified")
      BY <1>13, <2>4, <2>5, CallEndsAccounted DEF Receive, Losses, Refusals
    <2>6. CASE Head(outbox[current]).kind \in Answers
               /\ Tell(Head(outbox[current]).kind)
      <3>1. Head(outbox[current]).kind \in Answers
        BY <2>2, <2>6 DEF Replies
      <3>2. Head(outbox[current]).kind \notin Refusals
        BY <3>1 DEF Answers, Refusals
      <3> QED
        BY <1>13, <2>4, <2>6, <3>1, <3>2, CallEndsAccounted DEF Receive
    <2>7. CASE /\ stage' = "discarding" /\ leaving' = current /\ current' = 0
               /\ UNCHANGED <<ids, progress, proxies, exit, history>>
      <3>1. HasHelper'
        BY <1>13, <2>1, <2>7, ConstantsTyped
        DEF Receive, Accounted, HasHelper
      <3> QED
        BY <1>13, <2>4, <2>7, <3>1, CallGoesOn DEF Receive, ids, history
    <2> QED
      BY <1>13, <2>5, <2>6, <2>7 DEF Receive
  <1>14. CASE Discarded
    <2>1. Undisturbed
      BY <1>14, ReclaimedUndisturbed DEF Discarded, Tell
    <2> QED
      BY <1>14, <2>1, CallEndsAccounted DEF Discarded, Losses, Refusals
  <1>15. CASE HelperLost
    BY <1>15, AbandonAccounted, ClassifiedTyped, HelperThere
    DEF HelperLost, Losses, Refusals
  <1>16. CASE WaitTimesOut
    BY <1>16, AbandonAccounted DEF WaitTimesOut, Losses, Refusals
  <1>17. CASE Interrupt \/ WaitIsReset
    <2>1. Undisturbed
      BY <1>17, HelpersUndisturbed DEF Interrupt, WaitIsReset, Tell
    <2>2. stage # "free"
      BY <1>17, ConstantsAssumption DEF Interrupt, WaitIsReset, Blocking
    <2> QED
      BY <1>17, <2>1, <2>2, CallEndsAccounted
      DEF Interrupt, WaitIsReset, Losses, Refusals
  <1>18. CASE CollectInCall
    <2>1. Undisturbed
      BY <1>18, HelpersUndisturbed DEF CollectInCall, history
    <2>2. HasHelper'
      BY <1>18 DEF CollectInCall, Blocking, Accounted, HasHelper
    <2> QED
      BY <1>18, <2>1, <2>2, CallGoesOn
      DEF CollectInCall, ids, history, Blocking
  <1>19. CASE BeginExit \/ CloseSends
    <2>1. Undisturbed
      BY <1>19, HelpersUndisturbed DEF BeginExit, CloseSends, history
    <2>2. UNCHANGED <<stage, ids, history>>
      BY <1>19 DEF BeginExit, CloseSends
    <2>3. HasHelper'
      BY <1>19, <2>2 DEF BeginExit, CloseSends, Accounted, HasHelper
    <2>4. stage = "free" /\ exit # "gone"
      BY <1>19 DEF BeginExit, CloseSends, Accounted, HasHelper
    <2> QED
      BY <2>1, <2>2, <2>3, <2>4, CallGoesOn DEF ids, history
  <1>20. CASE EndExit
    <2>1. Undisturbed
      BY <1>20, HelpersUndisturbed DEF EndExit, history
    <2>2. HasHelper'
      BY <1>20 DEF EndExit, hold, Accounted, HasHelper
    <2> QED
      BY <1>20, <2>1, <2>2, CallGoesOn
      DEF EndExit, ids, history, Accounted, IdsAreFresh
  <1>21. CASE OwnerDies
    <2>1. Undisturbed
      BY <1>21, HelpersUndisturbed DEF OwnerDies, history
    <2>2. HasHelper'
      BY <1>21 DEF OwnerDies, HasHelper
    <2>3. /\ serial' = serial /\ outcome' = outcome /\ reqId' = reqId
          /\ lastId' = lastId /\ stage' = "free" /\ exit' = "gone"
      BY <1>21 DEF OwnerDies, ids, history
    <2> QED
      BY <2>1, <2>2, <2>3, CallGoesOn
  <1>22. ASSUME NEW h \in Helpers,
                Garbled(h) \/ SeesEnd(h) \/ Dies(h) \/ Ended(h)
         PROVE  Accounted'
    <2>1. Undisturbed
      BY <1>22 DEF Garbled, SeesEnd, Dies, Ended, Undisturbed, inside, history,
                   TypeOK, HelpersOK
    <2>2. UNCHANGED owner /\ outcome' = outcome
      BY <1>22 DEF Garbled, SeesEnd, Dies, Ended, history
    <2>3. HasHelper'
      BY <2>2, OwnerKept
    <2> QED
      BY <2>1, <2>2, <2>3, CallGoesOn
      DEF owner, ids, Accounted, IdsAreFresh
  <1>23. ASSUME NEW h \in Helpers, ReplySome(h) PROVE Accounted'
    <2>1. Undisturbed
      BY <1>23 DEF ReplySome, Undisturbed, history
    <2>2. UNCHANGED owner /\ outcome' = outcome
      BY <1>23 DEF ReplySome, history
    <2>3. HasHelper'
      BY <2>2, OwnerKept
    <2> QED
      BY <2>1, <2>2, <2>3, CallGoesOn
      DEF owner, ids, Accounted, IdsAreFresh
  <1>24. CASE BeginReceive
    <2>1. Undisturbed
      BY <1>24, HelpersUndisturbed DEF BeginReceive, history
    <2>2. HasHelper'
      BY <1>24 DEF BeginReceive, hold, Accounted, HasHelper
    <2>3. reqId = lastId'
      BY <1>24 DEF BeginReceive, ids, Accounted, IdsAreFresh
    <2> QED
      BY <1>24, <2>1, <2>2, <2>3, CallGoesOn DEF BeginReceive, ids, history
  <1>25. ASSUME stage \in {"waiting", "receiving"},
                NEW told \in Losses, Tell(told),
                \E n \in 0..Len(outbox[current]), cut \in BOOLEAN :
                  Swallowed(n, cut)
         PROVE  Accounted'
    <2>1. Undisturbed
      BY <1>25, HelperThere, SwallowedUndisturbed DEF Tell
    <2> QED
      BY <1>25, <2>1, CallEndsAccounted DEF Losses, Refusals
  <1>26. CASE GarbledReply
    <2>1. CASE Abandon(Classified(current))
      BY <1>26, <2>1, AbandonAccounted, ClassifiedTyped, HelperThere
      DEF GarbledReply, Losses, Refusals
    <2>2. CASE /\ \E n \in 0..Len(outbox[current]), cut \in BOOLEAN :
                    Swallowed(n, cut)
               /\ Tell("unclassified")
      BY <1>25, <1>26, <2>2 DEF GarbledReply, Losses
    <2> QED
      BY <1>26, <2>1, <2>2 DEF GarbledReply
  <1>27. CASE InterruptedReceive
    BY <1>25, <1>27 DEF InterruptedReceive, Losses
  <1>28. CASE CloseJoins
    <2>1. Undisturbed
      BY <1>28, ReclaimedUndisturbed DEF CloseJoins, history
    <2>2. UNCHANGED <<stage, ids, history>>
      BY <1>28 DEF CloseJoins
    <2>3. stage = "free" /\ exit # "gone"
      BY <1>28 DEF CloseJoins, Accounted, HasHelper
    <2>4. HasHelper'
      BY <2>2, <2>3 DEF HasHelper
    <2> QED
      BY <2>1, <2>2, <2>3, <2>4, CallGoesOn DEF ids, history
  <1>29. CASE UNCHANGED vars
    <2>1. Undisturbed
      BY <1>29, HelpersUndisturbed DEF vars, history
    <2>2. UNCHANGED owner /\ outcome' = outcome
      BY <1>29 DEF vars, history
    <2>3. HasHelper'
      BY <2>2, OwnerKept
    <2> QED
      BY <2>1, <2>2, <2>3, CallGoesOn
      DEF owner, ids, Accounted, IdsAreFresh
  <1> QED
    BY <1>1, <1>2, <1>3, <1>4, <1>5, <1>6, <1>7, <1>8, <1>9, <1>10, <1>11,
       <1>12, <1>13, <1>14, <1>15, <1>16, <1>17, <1>18, <1>19, <1>20, <1>21,
       <1>22, <1>23, <1>24, <1>26, <1>27, <1>28, <1>29,
       BootAccounted, RecvAccounted, RunAccounted, ReplyAccounted
    DEF Next, CallStep, HelperStep

-------------------------------------------------------------------------------
(* The theorems.                                                           *)

LEMMA InitInvariant == Init => TypeOK /\ Accounted
  <1> SUFFICES ASSUME Init PROVE TypeOK /\ Accounted
    OBVIOUS
  <1>1. /\ \A h \in Helpers : inbox[h] = <<>> /\ outbox[h] = <<>>
        /\ \A h \in Helpers : life[h] = "unborn" /\ Len(<<>>) = 0
    BY EmptySeq DEF Init
  <1>2. OwnerOK
    <2>1. 0 \in 0..MaxCalls /\ 0 \in Helpers \cup {0}
      BY ConstantsTyped
    <2>2. proxies \in [Objects -> {"none", "open", "gone"}]
      BY DEF Init
    <2> QED
      BY <2>1, <2>2 DEF Init, OwnerOK
  <1>3. HelpersOK
    BY EmptySeq DEF Init, HelpersOK
  <1>4. HistoryOK
    BY ConstantsTyped DEF Init, HistoryOK, Ops
  <1>5. CallsInOrder /\ UnsentIsUnseen /\ HasHelper
    BY ConstantsTyped DEF Init, CallsInOrder, UnsentIsUnseen, HasHelper
  <1>6. IdsAreFresh
    BY <1>1 DEF Init, IdsAreFresh, Working
  <1>7. StartedOnce
    BY <1>1 DEF Init, StartedOnce
  <1>8. AnswersAreDone
    BY <1>1 DEF AnswersAreDone, Working
  <1> QED
    BY <1>2, <1>3, <1>4, <1>5, <1>6, <1>7, <1>8 DEF TypeOK, Accounted

\* Every variable keeps its type, and every request is accounted for: the
\* request ids, frames and answers in the pipes belong to the calls that made
\* them, whatever dies and whatever is interrupted.
THEOREM AccountedAlways == Spec => [](TypeOK /\ Accounted)
  <1>1. TypeOK /\ Accounted /\ [Next]_vars => (TypeOK /\ Accounted)'
    BY TypeStep, AccountedStep
  <1> QED
    BY <1>1, InitInvariant, PTL DEF Spec

\* Every variable of owner, helpers and history keeps its type, for any number
\* of calls, helpers and objects.
THEOREM TypeCorrect == Spec => []TypeOK
  BY AccountedAlways, PTL

\* A reply that is taken for the answer is of this call, and is what its
\* operation came to.
LEMMA ReplyIsOurs ==
    ASSUME TypeOK, Accounted, stage \in {"waiting", "receiving"},
           outbox[current] # <<>>, Head(outbox[current]).kind \in Answers,
           Head(outbox[current]).id = reqId
    PROVE  /\ Head(outbox[current]).call = serial
           /\ Head(outbox[current]).kind \in Answers
           /\ done[serial] = Head(outbox[current]).kind
  <1>1. current \in Helpers
    BY HelperThere
  <1>2. /\ Head(outbox[current]) = outbox[current][1]
        /\ 1 \in 1..Len(outbox[current])
        /\ Head(outbox[current]) \in Replies
    BY <1>1, Popped DEF TypeOK, HelpersOK
  <1>3. Known(Head(outbox[current]))
    BY <1>1, <1>2 DEF Accounted, IdsAreFresh
  <1> QED
    BY <1>1, <1>2, <1>3 DEF Known, Replies, Accounted, AnswersAreDone

\* The steps that do not give an answer to a caller.
NoAnswer ==
    /\ done' = done /\ answer' = answer
    /\ \A c \in Calls : outcome'[c] = outcome[c] \/ outcome'[c] \notin Answers

LEMMA TellNoAnswer ==
    ASSUME TypeOK, NEW told \in Refusals \cup Losses, Tell(told),
           answer' = answer
    PROVE  NoAnswer
  BY DEF NoAnswer, Tell, TypeOK, HistoryOK, Answers, Refusals, Losses

LEMMA AnswerIsOwnStep ==
    ASSUME TypeOK, Accounted, AnswerIsOwn, [Next]_vars
    PROVE  AnswerIsOwn'
  <1>1. ASSUME NoAnswer PROVE AnswerIsOwn'
    BY <1>1 DEF NoAnswer, AnswerIsOwn
  <1>2. ASSUME NEW o \in Ops, Begin(o) \/ Refuse(o) PROVE NoAnswer
    BY <1>2 DEF Begin, Refuse, NoAnswer, TypeOK, HistoryOK, Answers
  <1>3. CASE SpawnFails \/ Interrupt \/ Discarded \/ WaitIsReset
               \/ InterruptedReceive
    BY <1>1, <1>3, TellNoAnswer
    DEF SpawnFails, Interrupt, Discarded, WaitIsReset, InterruptedReceive,
        Refusals, Losses
  <1>4. ASSUME NEW told \in Refusals \cup Losses, Abandon(told)
        PROVE  NoAnswer
    BY <1>4, TellNoAnswer DEF Abandon
  <1>5. CASE StartFails \/ SendTimesOut \/ WaitTimesOut
    BY <1>1, <1>4, <1>5
    DEF StartFails, SendTimesOut, WaitTimesOut, Refusals, Losses
  <1>6. CASE SendFailsAgain \/ HelperLost
    <2>1. Classified(current) \in Losses
      BY <1>6, ClassifiedTyped, HelperThere
      DEF SendFailsAgain, HelperLost, Losses
    <2> QED
      BY <1>1, <1>4, <1>6, <2>1
      DEF SendFailsAgain, HelperLost, Refusals
  <1>14. CASE GarbledReply
    <2>1. CASE Abandon(Classified(current))
      BY <1>1, <1>4, <1>14, <2>1, ClassifiedTyped, HelperThere
      DEF GarbledReply, Losses
    <2>2. CASE Tell("unclassified") /\ UNCHANGED answer
      BY <1>1, <2>2, TellNoAnswer DEF Losses
    <2> QED
      BY <1>14, <2>1, <2>2 DEF GarbledReply
  <1>7. CASE Receive
    <2>1. CASE Tell("unclassified") /\ UNCHANGED answer
      BY <1>1, <2>1, TellNoAnswer DEF Losses
    <2>2. CASE /\ Head(outbox[current]).kind \in Answers
               /\ Head(outbox[current]).id = reqId
               /\ Tell(Head(outbox[current]).kind)
               /\ answer' = [answer EXCEPT
                               ![serial] = Head(outbox[current]).call]
      <3>1. serial \in Calls
        BY <1>7, CallNumbered DEF Receive
      <3>2. /\ answer'[serial] = serial
            /\ outcome'[serial] = done[serial]
        BY <1>7, <2>2, <3>1, ReplyIsOurs
        DEF Receive, Tell, TypeOK, HistoryOK
      <3>3. \A c \in Calls : c # serial => /\ answer'[c] = answer[c]
                                           /\ outcome'[c] = outcome[c]
        BY <2>2 DEF Tell, TypeOK, HistoryOK
      <3> QED
        BY <2>2, <3>1, <3>2, <3>3 DEF Tell, AnswerIsOwn
    <2>3. CASE UNCHANGED history
      BY <1>1, <2>3 DEF history, NoAnswer
    <2> QED
      BY <1>7, <2>1, <2>2, <2>3 DEF Receive
  <1>8. ASSUME NEW h \in Helpers, Recv(h) PROVE NoAnswer
    BY <1>8 DEF Recv, NoAnswer
  <1>9. ASSUME NEW h \in Helpers, Run(h) PROVE AnswerIsOwn'
    <2>1. PICK a \in Answers : done' = [done EXCEPT ![job[h].call] = a]
      BY <1>9 DEF Run
    <2>2. done[job[h].call] = "none"
      BY <1>9 DEF Run, Working, Accounted, AnswersAreDone
    <2>3. \A c \in Calls : c # job[h].call => done'[c] = done[c]
      BY <2>1 DEF TypeOK, HistoryOK
    <2>4. outcome' = outcome /\ answer' = answer
      BY <1>9 DEF Run
    <2> QED
      BY <2>2, <2>3, <2>4 DEF AnswerIsOwn, Answers
  <1>10. CASE UNCHANGED history
    BY <1>1, <1>10 DEF history, NoAnswer
  <1>11. DeadlinePasses \/ Spawn \/ Started \/ SendSome \/ SendRest \/ SendFails
           \/ BeginReceive \/ CollectInCall \/ BeginExit \/ CloseSends
           \/ CloseJoins \/ EndExit \/ OwnerDies
         => UNCHANGED history
    BY DEF DeadlinePasses, Spawn, Started, SendSome, SendRest, SendFails,
           BeginReceive, CollectInCall, BeginExit, CloseSends, CloseJoins,
           EndExit, OwnerDies
  <1>12. ASSUME NEW h \in Helpers, Boot(h) \/ Garbled(h) \/ SeesEnd(h)
                                     \/ ReplySome(h) \/ Reply(h) \/ Ended(h)
                                     \/ Dies(h)
         PROVE  UNCHANGED history
    BY <1>12 DEF Boot, Garbled, SeesEnd, ReplySome, Reply, Ended, Dies
  <1>13. CASE UNCHANGED vars
    BY <1>10, <1>13 DEF vars
  <1> QED
    BY <1>1, <1>2, <1>3, <1>5, <1>6, <1>7, <1>8, <1>9, <1>10, <1>11, <1>12,
       <1>13, <1>14 DEF Next, CallStep, HelperStep

\* An answer is the answer of the call it is given to.
THEOREM AnswerIsOwnAlways == Spec => []AnswerIsOwn
  <1>1. Init => AnswerIsOwn
    BY DEF Init, AnswerIsOwn, Answers
  <1>2. TypeOK /\ Accounted /\ AnswerIsOwn /\ [Next]_vars => AnswerIsOwn'
    BY AnswerIsOwnStep
  <1> QED
    BY <1>1, <1>2, AccountedAlways, PTL DEF Spec

-------------------------------------------------------------------------------
(* The promise of AtMostOnce.                                              *)

LEMMA LossIsPromised ==
    ASSUME TypeOK, Accounted, stage # "free", NEW told \in Losses, Tell(told)
    PROVE  Promise!Next
  <1>1. serial \in Calls /\ outcome[serial] = "pending"
    BY CallNumbered DEF Accounted, CallsInOrder
  <1>2. Promise!Lose(serial)
    BY <1>1 DEF Tell, Promise!Lose
  <1> QED
    BY <1>1, <1>2 DEF Promise!Next

\* Until its send is complete a request can still be refused.
LEMMA RefusalIsPromised ==
    ASSUME TypeOK, Accounted, stage \in {"spawning", "starting", "sending"},
           NEW told \in Refusals, Tell(told)
    PROVE  Promise!Next
  <1>1. serial \in Calls /\ outcome[serial] = "pending"
    BY CallNumbered DEF Accounted, CallsInOrder
  <1>2. runs[serial] = 0
    BY DEF Accounted, UnsentIsUnseen
  <1>3. Promise!Refuse(serial)
    BY <1>1, <1>2 DEF Tell, Promise!Refuse
  <1> QED
    BY <1>1, <1>3 DEF Promise!Next

\* A request taken from a pipe was sent for a call that has no answer yet and
\* was not refused.
LEMMA RecvIsPromised ==
    ASSUME TypeOK, Accounted, AnswerIsOwn, NEW h \in Helpers, Recv(h)
    PROVE  Promise!Next
  <1> DEFINE c == Head(inbox[h]).call
  <1>1. /\ Head(inbox[h]) = inbox[h][1] /\ 1 \in 1..Len(inbox[h])
        /\ Head(inbox[h]) \in Frames /\ inbox[h][1].whole
    BY Popped DEF Recv, TypeOK, HelpersOK
  <1>2. c \in Calls
    BY <1>1 DEF Frames
  <1>3. runs[c] = 0 /\ outcome[c] \notin Refusals
    BY <1>1 DEF Accounted, StartedOnce
  <1>4. outcome[c] # "none"
    <2>1. c <= serial /\ c \in Nat /\ serial \in Nat
      BY <1>1, <1>2, ConstantsTyped
      DEF Accounted, IdsAreFresh, Known, TypeOK, OwnerOK
    <2> QED
      BY <1>2, <2>1 DEF Accounted, CallsInOrder
  <1>5. done[c] = "none"
    BY <1>2, <1>3 DEF Accounted, StartedOnce
  <1>6. outcome[c] \notin Answers
    BY <1>2, <1>5 DEF AnswerIsOwn, Answers
  <1>7. outcome[c] \in Losses \cup {"pending"}
    BY <1>2, <1>3, <1>4, <1>6 DEF TypeOK, HistoryOK
  <1>8. runs' = [runs EXCEPT ![c] = 1]
    BY <1>3 DEF Recv, TypeOK, HistoryOK
  <1>9. Promise!Start(c)
    BY <1>3, <1>7, <1>8 DEF Recv, Promise!Start
  <1> QED
    BY <1>2, <1>9 DEF Promise!Next

LEMMA RunIsPromised ==
    ASSUME TypeOK, Accounted, NEW h \in Helpers, Run(h)
    PROVE  Promise!Next
  <1> DEFINE c == job[h].call
  <1>1. c \in Calls /\ runs[c] = 1 /\ done[c] = "none"
    <2>1. job[h] # NoJob /\ runs[c] = 1 /\ done[c] = "none"
      BY DEF Run, Working, Accounted, AnswersAreDone
    <2> QED
      BY <2>1 DEF TypeOK, HelpersOK, Frames
  <1>2. PICK a \in Answers : done' = [done EXCEPT ![c] = a]
    BY DEF Run
  <1>3. UNCHANGED <<outcome, runs>>
    BY DEF Run
  <1>4. Promise!Finish(c)
    BY <1>1, <1>2, <1>3 DEF Promise!Finish
  <1> QED
    BY <1>1, <1>4 DEF Promise!Next

LEMMA ReceiveIsPromised ==
    ASSUME TypeOK, Accounted, Receive
    PROVE  [Promise!Next]_(Promise!vars)
  <1>1. CASE Tell("unclassified")
    BY <1>1, LossIsPromised DEF Receive, Losses
  <1>2. CASE /\ Head(outbox[current]).kind \in Answers
             /\ Head(outbox[current]).id = reqId
             /\ Tell(Head(outbox[current]).kind)
    <2>1. serial \in Calls /\ outcome[serial] = "pending"
      BY CallNumbered DEF Receive, Accounted, CallsInOrder
    <2>2. /\ done[serial] \in Answers
          /\ done[serial] = Head(outbox[current]).kind
      BY <1>2, ReplyIsOurs DEF Receive
    <2>3. Promise!Answer(serial)
      BY <1>2, <2>1, <2>2 DEF Tell, Promise!Answer
    <2> QED
      BY <2>1, <2>3 DEF Promise!Next
  <1>3. CASE UNCHANGED history
    BY <1>3 DEF history, Promise!vars
  <1> QED
    BY <1>1, <1>2, <1>3 DEF Receive

LEMMA PromiseStep ==
    ASSUME TypeOK, Accounted, AnswerIsOwn, [Next]_vars
    PROVE  [Promise!Next]_(Promise!vars)
  <1>1. ASSUME UNCHANGED history PROVE [Promise!Next]_(Promise!vars)
    BY <1>1 DEF history, Promise!vars
  <1>2. ASSUME NEW o \in Ops, Begin(o) \/ Refuse(o) PROVE Promise!Next
    <2>1. serial + 1 \in Calls /\ outcome[serial + 1] = "none"
      BY <1>2, ConstantsTyped
      DEF Begin, Refuse, TypeOK, OwnerOK, Accounted, CallsInOrder
    <2>2. runs[serial + 1] = 0
      BY <2>1 DEF Accounted, StartedOnce
    <2>3. Promise!Issue(serial + 1) \/ Promise!Refuse(serial + 1)
      BY <1>2, <2>1, <2>2
      DEF Begin, Refuse, Promise!Issue, Promise!Refuse, Refusals
    <2> QED
      BY <2>1, <2>3 DEF Promise!Next
  <1>3. CASE SpawnFails
    BY <1>3, RefusalIsPromised DEF SpawnFails, Refusals
  <1>4. CASE StartFails
    BY <1>4, RefusalIsPromised DEF StartFails, Abandon, Refusals
  <1>5. CASE SendTimesOut \/ WaitTimesOut
    BY <1>5, LossIsPromised DEF SendTimesOut, WaitTimesOut, Abandon, Losses
  <1>6. CASE SendFailsAgain
    <2>1. CASE IsAlive(current)
      BY <1>6, <2>1, RefusalIsPromised DEF SendFailsAgain, Abandon, Refusals
    <2>2. CASE ~IsAlive(current)
      <3>1. Classified(current) \in Losses
        BY <1>6, ClassifiedTyped, HelperThere DEF SendFailsAgain, Losses
      <3> QED
        BY <1>6, <2>2, <3>1, LossIsPromised DEF SendFailsAgain, Abandon
    <2> QED
      BY <2>1, <2>2
  <1>7. CASE HelperLost
    <2>1. Classified(current) \in Losses
      BY <1>7, ClassifiedTyped, HelperThere DEF HelperLost, Losses
    <2> QED
      BY <1>7, <2>1, LossIsPromised DEF HelperLost, Abandon
  <1>8. CASE Discarded \/ Interrupt \/ InterruptedReceive \/ WaitIsReset
    <2>1. stage # "free"
      BY <1>8, ConstantsAssumption
      DEF Discarded, Interrupt, InterruptedReceive, WaitIsReset, Blocking
    <2> QED
      BY <1>8, <2>1, LossIsPromised
      DEF Discarded, Interrupt, InterruptedReceive, WaitIsReset, Losses
  <1>12. CASE GarbledReply
    <2>1. stage # "free" /\ Classified(current) \in Losses
      BY <1>12, ClassifiedTyped, HelperThere DEF GarbledReply, Losses
    <2>2. CASE Abandon(Classified(current))
      BY <2>1, <2>2, LossIsPromised DEF Abandon
    <2>3. CASE Tell("unclassified")
      BY <2>1, <2>3, LossIsPromised DEF Losses
    <2> QED
      BY <1>12, <2>2, <2>3 DEF GarbledReply
  <1>9. DeadlinePasses \/ Spawn \/ Started \/ SendSome \/ SendRest \/ SendFails
          \/ BeginReceive \/ CollectInCall \/ BeginExit \/ CloseSends
          \/ CloseJoins \/ EndExit \/ OwnerDies
        => UNCHANGED history
    BY DEF DeadlinePasses, Spawn, Started, SendSome, SendRest, SendFails,
           BeginReceive, CollectInCall, BeginExit, CloseSends, CloseJoins,
           EndExit, OwnerDies
  <1>10. ASSUME NEW h \in Helpers, Boot(h) \/ Garbled(h) \/ SeesEnd(h)
                                     \/ ReplySome(h) \/ Reply(h) \/ Ended(h)
                                     \/ Dies(h)
         PROVE  UNCHANGED history
    BY <1>10 DEF Boot, Garbled, SeesEnd, ReplySome, Reply, Ended, Dies
  <1>11. CASE UNCHANGED vars
    BY <1>1, <1>11 DEF vars
  <1> QED
    BY <1>1, <1>2, <1>3, <1>4, <1>5, <1>6, <1>7, <1>8, <1>9, <1>10, <1>11,
       <1>12, RecvIsPromised, RunIsPromised, ReceiveIsPromised
    DEF Next, CallStep, HelperStep

\* The worker keeps its promise: a request is started at most once, a refusal
\* is final, an answer is of its own request - also when sends are repeated,
\* calls interrupted and helpers killed.
THEOREM PromiseIsKept == Spec => KeepsPromise
  <1>1. Init => Promise!Init
    BY DEF Init, Promise!Init
  <1>2. TypeOK /\ Accounted /\ AnswerIsOwn /\ [Next]_vars
          => [Promise!Next]_(Promise!vars)
    BY PromiseStep
  <1> QED
    BY <1>1, <1>2, AccountedAlways, AnswerIsOwnAlways, PTL
    DEF Spec, KeepsPromise, Promise!Spec

-------------------------------------------------------------------------------
(* One helper at a time.                                                   *)

\* The helper that lives is the one in use or the one being joined, and there
\* is none when another is about to be spawned.
OneAtATime ==
    /\ stage # "free" => exit = "running"
    /\ leaving # 0 => /\ current = 0
                      /\ stage \in {"discarding", "blocked"} \/ exit = "reclaiming"
    /\ exit # "gone" =>
         \A h \in Helpers : IsAlive(h) => h = current \/ h = leaving
    /\ stage = "spawning" => \A h \in Helpers : ~IsAlive(h)
    /\ OneHelper

\* Nothing is born.
NoBirth == \A h \in Helpers : IsAlive(h)' => IsAlive(h)

LEMMA ReclaimedIsDead ==
    ASSUME TypeOK, NEW h \in Helpers, Reclaimed(h)
    PROVE  NoBirth /\ \A g \in Helpers : IsAlive(g)' => g # h
  BY DEF Reclaimed, NoBirth, IsAlive, OpenEnd, TypeOK, HelpersOK

LEMMA AbandonOneAtATime ==
    ASSUME TypeOK, OneAtATime, NEW told, Abandon(told), current \in Helpers,
           stage \in {"starting", "sending", "waiting", "receiving"}
    PROVE  OneAtATime'
  <1>1. NoBirth /\ \A g \in Helpers : IsAlive(g)' => g # current
    BY ReclaimedIsDead DEF Abandon
  <1>2. current' = 0 /\ leaving' = leaving /\ stage' = "free" /\ exit' = exit
    BY DEF Abandon, Tell
  <1> QED
    BY <1>1, <1>2 DEF OneAtATime, NoBirth, OneHelper

LEMMA OneAtATimeStep ==
    ASSUME TypeOK, Accounted, OneAtATime, [Next]_vars,
           "discarding" \notin InterruptAt
    PROVE  OneAtATime'
  <1>1. ASSUME NoBirth, UNCHANGED <<stage, current, leaving, exit>>
        PROVE  OneAtATime'
    BY <1>1 DEF NoBirth, OneAtATime, OneHelper
  <1>2. ASSUME NEW o \in Ops, Begin(o) PROVE OneAtATime'
    <2>1. /\ UNCHANGED <<current, leaving, exit, life>>
          /\ exit = "running" /\ leaving = 0 /\ stage = "free"
          /\ stage' \in {"sending", "spawning"}
      BY <1>2 DEF Begin, hold, helpers, OneAtATime
    <2>2. stage' = "spawning" => ~(current # 0 /\ IsAlive(current))
      BY <1>2 DEF Begin
    <2>3. NoBirth
      BY <2>1 DEF NoBirth, IsAlive, OpenEnd
    <2>4. \A h \in Helpers : h # 0 /\ (IsAlive(h) => h = current)
      BY <2>1, ConstantsTyped DEF OneAtATime
    <2> QED
      BY <2>1, <2>2, <2>3, <2>4 DEF OneAtATime, NoBirth, OneHelper
  <1>3. ASSUME NEW o \in Ops, Refuse(o) PROVE OneAtATime'
    BY <1>1, <1>3 DEF Refuse, hold, helpers, NoBirth, IsAlive, OpenEnd
  <1>4. CASE Spawn
    <2>1. PICK h \in Helpers : /\ life' = [life EXCEPT ![h] = "booting"]
                               /\ current' = h
      BY <1>4 DEF Spawn
    <2>2. \A g \in Helpers : g # h => ~IsAlive(g)'
      BY <1>4, <2>1
      DEF Spawn, OneAtATime, IsAlive, OpenEnd, TypeOK, HelpersOK
    <2>3. leaving = 0 /\ leaving' = 0 /\ stage' = "starting" /\ exit' = exit
      BY <1>4 DEF Spawn, OneAtATime
    <2> QED
      BY <1>4, <2>1, <2>2, <2>3 DEF Spawn, OneAtATime, OneHelper
  <1>5. CASE SpawnFails
    BY <1>5
    DEF SpawnFails, Tell, helpers, OneAtATime, OneHelper, IsAlive, OpenEnd
  <1>6. CASE Started \/ SendRest
    BY <1>6 DEF Started, SendRest, hold, OneAtATime, OneHelper, IsAlive, OpenEnd
  <1>7. CASE DeadlinePasses \/ SendSome
    BY <1>1, <1>7
    DEF DeadlinePasses, SendSome, hold, helpers, NoBirth, IsAlive, OpenEnd
  <1>19. CASE BeginReceive
    BY <1>19
    DEF BeginReceive, hold, helpers, OneAtATime, OneHelper, IsAlive, OpenEnd
  <1>8. CASE StartFails \/ SendTimesOut \/ SendFailsAgain \/ HelperLost
               \/ WaitTimesOut
    BY <1>8, AbandonOneAtATime, HelperThere
    DEF StartFails, SendTimesOut, SendFailsAgain, HelperLost, WaitTimesOut
  <1>9. CASE SendFails
    <2>1. NoBirth /\ \A g \in Helpers : IsAlive(g)' => g # current
      BY <1>9, ReclaimedIsDead, HelperThere DEF SendFails
    <2>2. /\ current' = 0 /\ leaving' = leaving /\ stage' = "spawning"
          /\ exit' = exit /\ exit = "running" /\ leaving = 0
      BY <1>9 DEF SendFails, OneAtATime
    <2>3. \A h \in Helpers : ~IsAlive(h)'
      BY <2>1, <2>2, ConstantsTyped DEF OneAtATime, NoBirth
    <2> QED
      BY <2>2, <2>3 DEF OneAtATime, OneHelper
  <1>10. CASE Receive
    <2>1. NoBirth
      BY <1>10 DEF Receive, NoBirth, IsAlive, OpenEnd
    <2>2. exit = "running" /\ leaving = 0 /\ exit' = exit
      BY <1>10 DEF Receive, OneAtATime, Tell
    <2>3. \/ stage' = "free" /\ UNCHANGED <<current, leaving>>
          \/ stage' = "discarding" /\ leaving' = current /\ current' = 0
      BY <1>10 DEF Receive, Tell, hold
    <2> QED
      BY <2>1, <2>2, <2>3 DEF OneAtATime, NoBirth, OneHelper
  <1>11. CASE Discarded
    <2>1. NoBirth /\ \A g \in Helpers : IsAlive(g)' => g # leaving
      BY <1>11, ReclaimedIsDead, HelperThere DEF Discarded
    <2>2. leaving' = 0 /\ current' = current /\ stage' = "free" /\ exit' = exit
      BY <1>11 DEF Discarded, Tell
    <2> QED
      BY <2>1, <2>2 DEF OneAtATime, NoBirth, OneHelper
  <1>20. CASE GarbledReply \/ InterruptedReceive
    <2>1. CASE Abandon(Classified(current))
      BY <1>20, <2>1, AbandonOneAtATime, HelperThere
      DEF GarbledReply, InterruptedReceive
    <2>2. CASE UNCHANGED <<hold, life>> /\ stage' = "free" /\ exit' = exit
      <3>1. NoBirth
        BY <2>2 DEF NoBirth, IsAlive, OpenEnd
      <3>2. leaving = 0 /\ UNCHANGED <<current, leaving>>
        BY <1>20, <2>2
        DEF GarbledReply, InterruptedReceive, OneAtATime, hold
      <3> QED
        BY <2>2, <3>1, <3>2 DEF OneAtATime, NoBirth, OneHelper
    <2> QED
      BY <1>20, <2>1, <2>2
      DEF GarbledReply, InterruptedReceive, Swallowed, Tell
  <1>12. CASE Interrupt \/ WaitIsReset
    <2>1. stage \in {"starting", "sending", "waiting", "receiving"}
      BY <1>12, ConstantsAssumption DEF Interrupt, WaitIsReset, Blocking
    <2>2. leaving = 0 /\ leaving' = 0
      BY <1>12, <2>1 DEF Interrupt, WaitIsReset, hold, OneAtATime
    <2> QED
      BY <1>12, <2>2
      DEF Interrupt, WaitIsReset, hold, Tell, helpers, OneAtATime, OneHelper,
          IsAlive, OpenEnd
  <1>13. CASE CollectInCall
    BY <1>13
    DEF CollectInCall, Blocking, hold, helpers, OneAtATime, OneHelper, IsAlive,
        OpenEnd
  <1>14. CASE BeginExit
    BY <1>14
    DEF BeginExit, hold, helpers, OneAtATime, OneHelper, IsAlive, OpenEnd
  <1>21. CASE CloseSends
    <2>1. /\ leaving = 0 /\ leaving' = current /\ current' = 0
          /\ exit' = "reclaiming" /\ exit = "closing"
          /\ UNCHANGED <<stage, life>>
      BY <1>21 DEF CloseSends, helpers, OneAtATime
    <2> QED
      BY <2>1, ConstantsTyped DEF OneAtATime, OneHelper, IsAlive, OpenEnd
  <1>22. CASE CloseJoins
    <2>1. NoBirth /\ \A g \in Helpers : IsAlive(g)' => g # leaving
      <3>1. CASE leaving \in Helpers
        BY <1>22, <3>1, ReclaimedIsDead DEF CloseJoins
      <3>2. CASE leaving \notin Helpers
        BY <1>22, <3>2
        DEF CloseJoins, Reclaimed, NoBirth, IsAlive, OpenEnd, TypeOK, HelpersOK
      <3> QED
        BY <3>1, <3>2
    <2>2. /\ leaving' = 0 /\ exit' = "joining" /\ exit = "reclaiming"
          /\ UNCHANGED <<stage, current>>
      BY <1>22 DEF CloseJoins
    <2> QED
      BY <2>1, <2>2 DEF OneAtATime, NoBirth, OneHelper
  <1>15. CASE EndExit
    BY <1>15
    DEF EndExit, hold, helpers, OneAtATime, OneHelper, IsAlive, OpenEnd
  <1>16. CASE OwnerDies
    BY <1>16 DEF OwnerDies, helpers, OneAtATime, OneHelper, IsAlive, OpenEnd
  <1>17. ASSUME NEW h \in Helpers, HelperStep(h) \/ Dies(h)
         PROVE  OneAtATime'
    <2>1. NoBirth
      BY <1>17
      DEF HelperStep, Boot, Recv, Garbled, SeesEnd, Run, ReplySome, Reply,
          Ended, Dies, NoBirth, IsAlive, OpenEnd, TypeOK, HelpersOK
    <2>2. UNCHANGED <<stage, current, leaving, exit>>
      BY <1>17
      DEF HelperStep, Boot, Recv, Garbled, SeesEnd, Run, ReplySome, Reply,
          Ended, Dies, owner, hold
    <2> QED
      BY <1>1, <2>1, <2>2
  <1>18. CASE UNCHANGED vars
    BY <1>1, <1>18
    DEF vars, owner, hold, helpers, NoBirth, IsAlive, OpenEnd
  <1> QED
    BY <1>2, <1>3, <1>4, <1>5, <1>6, <1>7, <1>8, <1>9, <1>10, <1>11, <1>12,
       <1>13, <1>14, <1>15, <1>16, <1>17, <1>18, <1>19, <1>20, <1>21, <1>22
    DEF Next, CallStep

\* Two helpers of one owner never live at once, and so two native calls never
\* run at once, provided that no interrupt hits the join in _discard.
THEOREM OneHelperAlways ==
    ASSUME "discarding" \notin InterruptAt
    PROVE  Spec => []OneHelper
  <1>1. Init => OneAtATime
    BY DEF Init, OneAtATime, OneHelper, IsAlive, OpenEnd
  <1>2. TypeOK /\ Accounted /\ OneAtATime /\ [Next]_vars => OneAtATime'
    BY OneAtATimeStep
  <1>3. OneAtATime => OneHelper
    BY DEF OneAtATime
  <1> QED
    BY <1>1, <1>2, <1>3, AccountedAlways, PTL DEF Spec

-----------------------------------------------------------------------------
(* Results are clean: one that a caller gets while it holds no object was  *)
(* computed without the session state of earlier operations.  What the     *)
(* helper in use holds is what its owner holds, unless something older     *)
(* than the current call is still in its pipes, and then the current call  *)
(* cannot get its result from it.                                          *)

(* The inductive invariant.                                                *)

\* Of the call that holds _lock.
Own(c) == stage # "free" /\ c = serial

\* The call is started, or answered, in helper k.
Answering(k) ==
    \/ Working(k) /\ Own(job[k].call)
    \/ \E i \in 1..Len(outbox[k]) : Own(outbox[k][i].call)

\* Something in k comes before the answer to the current call.
Stale(k) ==
    \/ life[k] = "booting"
    \/ \E i \in 1..Len(inbox[k]) : ~Own(inbox[k][i].call)
    \/ Working(k) /\ ~Own(job[k].call)
    \/ \E i \in 1..Len(outbox[k]) : ~Own(outbox[k][i].call)

\* A helper starts with nothing; a session that lingers has an object.
Fresh == \A h \in Helpers :
    /\ life[h] \in {"unborn", "booting"} => outbox[h] = <<>> /\ objects[h] = {}
    /\ life[h] = "unborn" => inbox[h] = <<>>
    /\ dirty[h] => objects[h] # {}

Settled ==
    /\ partial => stage \in {"sending", "blocked"} \/ exit = "gone"
    /\ exit # "running" => stage = "free"
    /\ exit \notin {"running", "closing"} => current = 0
    /\ stage = "discarding" => current = 0
    /\ stage # "free" /\ op[serial].kind = "create" =>
         proxies[op[serial].obj] = "none"

\* What is of the current call is the last thing in its helper.
OwnIsLast(k) ==
    /\ \A i \in 1..Len(inbox[k]) : Own(inbox[k][i].call) =>
         i = Len(inbox[k]) /\ (stage = "sending" => partial)
    /\ Working(k) /\ Own(job[k].call) => inbox[k] = <<>>
    /\ \A i \in 1..Len(outbox[k]) : Own(outbox[k][i].call) =>
         i = Len(outbox[k]) /\ inbox[k] = <<>> /\ ~Working(k)

\* A request that was sent is in its helper while that one lives.
SentIsThere(k) ==
    /\ partial => LET n == Len(inbox[k])
                  IN  n # 0 /\ ~inbox[k][n].whole /\ Own(inbox[k][n].call)
    /\ stage \in {"waiting", "receiving"} /\ OpenEnd(k) =>
         Answering(k) \/ \E i \in 1..Len(inbox[k]) : Own(inbox[k][i].call)

StartsEmpty(k) == stage = "starting" =>
    /\ inbox[k] = <<>> /\ ~Working(k) /\ objects[k] = {}
    /\ outbox[k] # <<>> => outbox[k] = <<Ready>> /\ life[k] # "booting"

HeldIsOpen(k) == OpenEnd(k) /\ ~Stale(k) =>
    \A o \in objects[k] :
      \/ proxies[o] = "open"
      \/ /\ stage # "free" /\ op[serial].kind = "create" /\ op[serial].obj = o
         /\ done[serial] = "result"

ClosedIsGone(k) ==
    Answering(k) /\ life[k] # "busy" /\ op[serial].kind = "close"
      => op[serial].obj \notin objects[k]

StartedClean(k) ==
    /\ Answering(k) /\ ~Stale(k) /\ op[serial].kind = "oneshot"
    /\ \A o \in Objects : proxies[o] # "open"
    => clean[serial]

InHand(k) == OwnIsLast(k) /\ SentIsThere(k) /\ StartsEmpty(k) /\ HeldIsOpen(k)
               /\ ClosedIsGone(k) /\ StartedClean(k)

\* No message has lost its beginning.
Whole == \A h \in Helpers :
    /\ begun[h] # "torn"
    /\ \A i \in 1..Len(outbox[h]) : outbox[h][i] # Rest

Tidy == Fresh /\ Settled /\ Whole /\ (current # 0 => InHand(current))

-------------------------------------------------------------------------------
(* What Accounted says of one helper.                                      *)

LEMMA PipesTyped ==
    ASSUME TypeOK, Accounted, NEW k \in Helpers
    PROVE  /\ inbox[k] \in Seq(Frames) /\ outbox[k] \in Seq(Replies)
           /\ Len(inbox[k]) \in Nat /\ Len(outbox[k]) \in Nat
           /\ inbox[k] = <<>> <=> Len(inbox[k]) = 0
           /\ outbox[k] = <<>> <=> Len(outbox[k]) = 0
           /\ \A i \in 1..Len(inbox[k]) : inbox[k][i] \in Frames
           /\ \A i \in 1..Len(outbox[k]) : outbox[k][i] \in Replies
           /\ Working(k) => job[k] \in Frames
  <1>1. inbox[k] \in Seq(Frames) /\ outbox[k] \in Seq(Replies)
    BY DEF TypeOK, HelpersOK
  <1>2. Working(k) => job[k] \in Frames
    BY DEF TypeOK, HelpersOK, Accounted, AnswersAreDone
  <1> QED
    BY <1>1, <1>2, ElementOfSeq, EmptySeq

LEMMA OwnNumbered ==
    ASSUME TypeOK, Accounted, NEW c, Own(c)
    PROVE  /\ c = serial /\ serial \in Calls /\ serial # 0
           /\ c # Ready.call /\ c # Rest.call
  <1>1. c = serial /\ serial \in Calls
    BY CallNumbered DEF Own
  <1> QED
    BY <1>1, ConstantsTyped DEF Ready, Rest

\* A request that its helper works on, or has answered, was started.
LEMMA AnsweringIsStarted ==
    ASSUME TypeOK, Accounted, NEW k \in Helpers, Answering(k)
    PROVE  /\ stage # "free" /\ serial \in Calls /\ runs[serial] = 1
           /\ \A h \in Helpers : \A i \in 1..Len(inbox[h]) :
                inbox[h][i].whole => inbox[h][i].call # serial
           /\ \A h \in Helpers : h # k /\ life[h] = "busy" =>
                job[h].call # serial
  <1>1. stage # "free" /\ serial \in Calls
    BY CallNumbered DEF Answering, Own
  <1>2. \/ Working(k) /\ job[k].call = serial
        \/ done[serial] \in Answers
    <2>1. ASSUME NEW i \in 1..Len(outbox[k]), Own(outbox[k][i].call)
          PROVE  done[serial] \in Answers
      <3>1. /\ outbox[k][i] \notin {Ready, Rest}
            /\ outbox[k][i].call = serial
        BY <2>1, OwnNumbered
      <3>2. outbox[k][i].kind \in Answers
        BY <3>1, PipesTyped DEF Replies
      <3> QED
        BY <3>1, <3>2 DEF Accounted, AnswersAreDone
    <2> QED
      BY <2>1 DEF Answering, Own
  <1>3. runs[serial] = 1
    <2>1. done[serial] \in Answers => runs[serial] # 0
      BY <1>1 DEF Accounted, StartedOnce, Answers
    <2> QED
      BY <1>1, <1>2, <2>1 DEF Accounted, StartedOnce, AnswersAreDone
  <1>4. ASSUME NEW h \in Helpers, NEW i \in 1..Len(inbox[h]),
               inbox[h][i].whole
        PROVE  inbox[h][i].call # serial
    BY <1>3, <1>4 DEF Accounted, StartedOnce
  <1>5. ASSUME NEW h \in Helpers, h # k, life[h] = "busy"
        PROVE  job[h].call # serial
    <2>1. CASE Working(k) /\ job[k].call = serial
      BY <1>5, <2>1 DEF Accounted, AnswersAreDone, Working
    <2>2. CASE done[serial] \in Answers
      BY <1>5, <2>2 DEF Accounted, AnswersAreDone, Working, Answers
    <2> QED
      BY <1>2, <2>1, <2>2
  <1> QED
    BY <1>1, <1>3, <1>4, <1>5

\* Before its send is complete it was not.
LEMMA UnsentIsNotStarted ==
    ASSUME TypeOK, Accounted, NEW k \in Helpers,
           stage \in {"spawning", "starting", "sending"}
    PROVE  ~Answering(k)
  BY AnsweringIsStarted DEF Accounted, UnsentIsUnseen

-------------------------------------------------------------------------------
(* Fresh, Settled and Whole.                                               *)

LEMMA ReclaimedIsFresh ==
    ASSUME TypeOK, Fresh, NEW h, Reclaimed(h)
    PROVE  Fresh'
  BY DEF Reclaimed, Fresh, TypeOK, HelpersOK

LEMMA SwallowedNothing ==
    ASSUME TypeOK, current \in Helpers, outbox[current] = <<>>,
           NEW n \in 0..Len(outbox[current]), NEW cut \in BOOLEAN,
           Swallowed(n, cut)
    PROVE  outbox'[current] = <<>>
  <1> DEFINE left == SubSeq(outbox[current], n + 1, Len(outbox[current]))
  <1>1. n = 0 /\ Len(outbox[current]) = 0
    OBVIOUS
  <1>2. left = <<>>
    BY <1>1
  <1>3. outbox' = [outbox EXCEPT ![current] =
                     IF cut /\ left # <<>> THEN <<Rest>> \o Tail(left) ELSE left]
    BY DEF Swallowed
  <1> HIDE DEF left
  <1> QED
    BY <1>2, <1>3 DEF TypeOK, HelpersOK

LEMMA FreshStep ==
    ASSUME TypeOK, Accounted, Fresh, [Next]_vars
    PROVE  Fresh'
  <1>1. ASSUME UNCHANGED <<life, inbox, outbox, objects, dirty>>
        PROVE  Fresh'
    BY <1>1 DEF Fresh
  <1>2. ASSUME NEW o \in Ops, Begin(o) \/ Refuse(o) PROVE Fresh'
    BY <1>1, <1>2 DEF Begin, Refuse, helpers, inside
  <1>3. CASE DeadlinePasses \/ SpawnFails \/ Interrupt \/ WaitIsReset
               \/ BeginReceive \/ CollectInCall \/ BeginExit \/ CloseSends
               \/ EndExit \/ OwnerDies \/ UNCHANGED vars
    BY <1>1, <1>3
    DEF DeadlinePasses, SpawnFails, Interrupt, WaitIsReset, BeginReceive,
        CollectInCall, BeginExit, CloseSends, EndExit, OwnerDies, vars,
        helpers, inside
  <1>4. CASE Spawn
    <2>1. PICK h \in Helpers : /\ life[h] = "unborn"
                               /\ life' = [life EXCEPT ![h] = "booting"]
      BY <1>4 DEF Spawn
    <2> QED
      BY <1>4, <2>1 DEF Spawn, Fresh, inside, TypeOK, HelpersOK
  <1>5. CASE Started \/ Receive
    <2>1. /\ UNCHANGED <<life, inbox, objects, dirty>>
          /\ outbox[current] # <<>>
          /\ outbox' = [outbox EXCEPT ![current] = Tail(@)]
      BY <1>5 DEF Started, Receive, inside
    <2> QED
      BY <2>1 DEF Fresh, TypeOK, HelpersOK
  <1>6. CASE StartFails \/ SendTimesOut \/ SendFails \/ SendFailsAgain
               \/ Discarded \/ HelperLost \/ WaitTimesOut \/ CloseJoins
    BY <1>6, ReclaimedIsFresh
    DEF StartFails, SendTimesOut, SendFails, SendFailsAgain, Discarded,
        HelperLost, WaitTimesOut, CloseJoins, Abandon
  <1>7. CASE SendSome \/ SendRest
    <2>1. /\ UNCHANGED <<life, outbox, objects, dirty>>
          /\ life[current] # "unborn"
          /\ \A h \in Helpers : h # current => inbox'[h] = inbox[h]
      BY <1>7 DEF SendSome, SendRest, OpenEnd, inside, TypeOK, HelpersOK
    <2> QED
      BY <2>1 DEF Fresh
  <1>8. CASE GarbledReply \/ InterruptedReceive
    <2>1. CASE Abandon(Classified(current))
      BY <2>1, ReclaimedIsFresh DEF Abandon
    <2>2. ASSUME NEW n \in 0..Len(outbox[current]), NEW cut \in BOOLEAN,
                 Swallowed(n, cut), current \in Helpers
          PROVE  Fresh'
      <3>1. outbox[current] = <<>> => outbox'[current] = <<>>
        BY <2>2, SwallowedNothing
      <3>2. \A h \in Helpers : h # current => outbox'[h] = outbox[h]
        BY <2>2 DEF Swallowed, TypeOK, HelpersOK
      <3>3. UNCHANGED <<life, inbox, objects, dirty>>
        BY <2>2 DEF Swallowed
      <3> QED
        BY <3>1, <3>2, <3>3 DEF Fresh
    <2> QED
      BY <1>8, <2>1, <2>2, HelperThere DEF GarbledReply, InterruptedReceive
  <1>9. ASSUME NEW h \in Helpers, HelperStep(h) \/ Dies(h) PROVE Fresh'
    <2>1. CASE Boot(h)
      BY <2>1 DEF Boot, Fresh, inside, TypeOK, HelpersOK
    <2>2. CASE Recv(h)
      BY <2>2 DEF Recv, Fresh, TypeOK, HelpersOK
    <2>3. CASE Garbled(h) \/ SeesEnd(h) \/ Dies(h) \/ Ended(h)
      BY <2>3
      DEF Garbled, SeesEnd, Dies, Ended, Fresh, inside, TypeOK, HelpersOK
    <2>4. CASE Run(h)
      <3>1. PICK left : /\ objects' = [objects EXCEPT ![h] = left]
                        /\ dirty' = [dirty EXCEPT ![h] = left # {}]
        BY <2>4 DEF Run
      <3> QED
        BY <2>4, <3>1 DEF Run, Fresh, TypeOK, HelpersOK
    <2>5. CASE Reply(h)
      <3>1. /\ UNCHANGED <<inbox, objects, dirty>>
            /\ life[h] = "replying" /\ life'[h] \in {"idle", "dying"}
            /\ \A g \in Helpers : g # h => /\ life'[g] = life[g]
                                           /\ outbox'[g] = outbox[g]
        BY <2>5 DEF Reply, TypeOK, HelpersOK
      <3> QED
        BY <3>1 DEF Fresh
    <2>6. CASE ReplySome(h)
      BY <1>1, <2>6 DEF ReplySome
    <2> QED
      BY <1>9, <2>1, <2>2, <2>3, <2>4, <2>5, <2>6 DEF HelperStep
  <1> QED
    BY <1>2, <1>3, <1>4, <1>5, <1>6, <1>7, <1>8, <1>9 DEF Next, CallStep

LEMMA SettledStep ==
    ASSUME TypeOK, Accounted, Settled, [Next]_vars
    PROVE  Settled'
  <1>1. ASSUME UNCHANGED <<stage, serial, partial, current, proxies, exit, op>>
        PROVE  Settled'
    BY <1>1 DEF Settled
  <1>2. ASSUME NEW o \in Ops, Begin(o) PROVE Settled'
    <2>1. serial + 1 \in Calls /\ serial' = serial + 1
      BY <1>2, ConstantsTyped DEF Begin, TypeOK, OwnerOK
    <2>2. op'[serial'] = o
      BY <1>2, <2>1 DEF Begin, TypeOK, HistoryOK
    <2>3. o.kind = "create" => proxies'[o.obj] = "none"
      BY <1>2 DEF Begin, Permitted
    <2>4. /\ UNCHANGED <<partial, current, exit>> /\ exit = "running"
          /\ stage = "free" /\ stage' \in {"sending", "spawning"}
      BY <1>2 DEF Begin, progress, hold
    <2> QED
      BY <2>2, <2>3, <2>4 DEF Settled
  <1>3. ASSUME NEW o \in Ops, Refuse(o) PROVE Settled'
    BY <1>3 DEF Refuse, Settled, progress, hold
  <1>4. ASSUME stage' = "free", exit' = exit, current' \in {0, current},
               partial' = FALSE
        PROVE  Settled'
    BY <1>4 DEF Settled
  <1>5. CASE DeadlinePasses
    BY <1>1, <1>5 DEF DeadlinePasses, ids, hold, history
  <1>6. CASE Spawn \/ Started \/ SendRest \/ SendFails
    <2>1. /\ UNCHANGED <<serial, proxies, exit, op>>
          /\ stage \notin {"free", "discarding", "blocked"}
          /\ stage' \notin {"free", "discarding"}
      BY <1>6 DEF Spawn, Started, SendRest, SendFails, ids, progress, history
    <2>2. ~partial'
      <3>1. CASE Spawn \/ Started
        BY <3>1 DEF Spawn, Started, progress, Settled
      <3>2. CASE SendRest \/ SendFails
        BY <3>2 DEF SendRest, SendFails
      <3> QED
        BY <1>6, <3>1, <3>2
    <2> QED
      BY <2>1, <2>2 DEF Settled
  <1>7. CASE SendSome
    BY <1>7 DEF SendSome, Settled, ids, hold, history
  <1>8. CASE SpawnFails \/ StartFails \/ SendTimesOut \/ SendFailsAgain
               \/ HelperLost \/ WaitIsReset \/ WaitTimesOut \/ Discarded
               \/ Interrupt \/ GarbledReply \/ InterruptedReceive
    BY <1>4, <1>8
    DEF SpawnFails, StartFails, SendTimesOut, SendFailsAgain, HelperLost,
        WaitIsReset, WaitTimesOut, Discarded, Interrupt, GarbledReply,
        InterruptedReceive, Abandon, Tell, hold
  <1>14. CASE BeginReceive
    BY <1>14 DEF BeginReceive, Settled, ids, progress, hold, history
  <1>9. CASE Receive
    <2>1. CASE stage' = "discarding"
      BY <1>9, <2>1
      DEF Receive, Tell, Settled, ids, progress, history
    <2>2. CASE stage' # "discarding"
      BY <1>4, <1>9, <2>2 DEF Receive, Tell, hold
    <2> QED
      BY <2>1, <2>2
  <1>10. CASE CollectInCall
    BY <1>10
    DEF CollectInCall, Blocking, Settled, ids, progress, hold, history
  <1>11. CASE BeginExit \/ CloseSends \/ CloseJoins \/ EndExit \/ OwnerDies
    BY <1>11
    DEF BeginExit, CloseSends, CloseJoins, EndExit, OwnerDies, Settled, ids,
        progress, hold, history
  <1>12. ASSUME NEW h \in Helpers, HelperStep(h) \/ Dies(h) PROVE Settled'
    <2>1. UNCHANGED <<stage, serial, partial, current, proxies, exit, op>>
      BY <1>12
      DEF HelperStep, Boot, Recv, Garbled, SeesEnd, Run, ReplySome, Reply,
          Ended, Dies, owner, ids, progress, hold, history
    <2> QED
      BY <1>1, <2>1
  <1>13. CASE UNCHANGED vars
    BY <1>1, <1>13 DEF vars, owner, ids, progress, hold, history
  <1> QED
    BY <1>2, <1>3, <1>5, <1>6, <1>7, <1>8, <1>9, <1>10, <1>11, <1>12, <1>13,
       <1>14 DEF Next, CallStep

LEMMA NothingTorn ==
    ASSUME TypeOK, Accounted, Whole, "receiving" \notin InterruptAt
    PROVE  ~GarbledReply /\ ~InterruptedReceive
  <1>1. ASSUME GarbledReply PROVE FALSE
    <2>1. current \in Helpers /\ outbox[current] \in Seq(Replies)
      BY <1>1, HelperThere, PipesTyped DEF GarbledReply
    <2>2. begun[current] # "torn"
      BY <2>1 DEF Whole
    <2>3. outbox[current] # <<>> /\ Head(outbox[current]) = Rest
      BY <1>1, <2>2 DEF GarbledReply
    <2>4. /\ 1 \in 1..Len(outbox[current])
          /\ Head(outbox[current]) = outbox[current][1]
      BY <2>1, <2>3, Popped
    <2> QED
      BY <2>1, <2>3, <2>4 DEF Whole
  <1> QED
    BY <1>1 DEF InterruptedReceive

LEMMA WholeStep ==
    ASSUME TypeOK, Accounted, Whole, [Next]_vars, "receiving" \notin InterruptAt
    PROVE  Whole'
  <1>1. ASSUME UNCHANGED <<outbox, begun>> PROVE Whole'
    BY <1>1 DEF Whole
  <1>2. ASSUME NEW h, Reclaimed(h) PROVE Whole'
    <2>1. ASSUME NEW g \in Helpers, g # h
          PROVE  outbox'[g] = outbox[g] /\ begun'[g] = begun[g]
      BY <1>2, <2>1 DEF Reclaimed, TypeOK, HelpersOK
    <2>2. ASSUME h \in Helpers
          PROVE  Len(outbox'[h]) = 0 /\ begun'[h] = "none"
      BY <1>2, <2>2 DEF Reclaimed, TypeOK, HelpersOK
    <2> QED
      BY <2>1, <2>2 DEF Whole
  <1>3. CASE Started \/ Receive
    <2>1. /\ current \in Helpers /\ outbox[current] # <<>>
          /\ outbox[current] \in Seq(Replies)
      BY <1>3, HelperThere, PipesTyped DEF Started, Receive
    <2>2. /\ UNCHANGED begun
          /\ outbox' = [outbox EXCEPT ![current] = Tail(@)]
      BY <1>3 DEF Started, Receive, inside
    <2>3. ASSUME NEW i \in 1..Len(outbox'[current])
          PROVE  outbox'[current][i] # Rest
      <3>1. /\ Len(Tail(outbox[current])) = Len(outbox[current]) - 1
            /\ \A j \in 1..Len(Tail(outbox[current])) :
                 Tail(outbox[current])[j] = outbox[current][j + 1]
        BY <2>1, Popped
      <3>2. /\ i + 1 \in 1..Len(outbox[current])
            /\ outbox'[current][i] = outbox[current][i + 1]
        BY <2>1, <2>2, <2>3, <3>1 DEF TypeOK, HelpersOK
      <3> QED
        BY <2>1, <3>2 DEF Whole
    <2> QED
      BY <2>2, <2>3 DEF Whole, TypeOK, HelpersOK
  <1>4. ~GarbledReply /\ ~InterruptedReceive
    BY NothingTorn
  <1>5. CASE StartFails \/ SendTimesOut \/ SendFails \/ SendFailsAgain
               \/ Discarded \/ HelperLost \/ WaitTimesOut \/ CloseJoins
    BY <1>2, <1>5
    DEF StartFails, SendTimesOut, SendFails, SendFailsAgain, Discarded,
        HelperLost, WaitTimesOut, CloseJoins, Abandon
  <1>6. CASE \/ \E o \in Ops : Begin(o) \/ Refuse(o)
             \/ DeadlinePasses \/ Spawn \/ SpawnFails \/ SendSome \/ SendRest
             \/ BeginReceive \/ Interrupt \/ WaitIsReset \/ CollectInCall
             \/ BeginExit \/ CloseSends \/ EndExit \/ OwnerDies
             \/ UNCHANGED vars
    BY <1>1, <1>6
    DEF Begin, Refuse, DeadlinePasses, Spawn, SpawnFails, SendSome, SendRest,
        BeginReceive, Interrupt, WaitIsReset, CollectInCall, BeginExit,
        CloseSends, EndExit, OwnerDies, vars, helpers, inside
  <1>7. ASSUME NEW h \in Helpers, HelperStep(h) \/ Dies(h) PROVE Whole'
    <2>1. ASSUME NEW m \in Replies, m # Rest, begun'[h] # "torn",
                 outbox' = [outbox EXCEPT ![h] = Append(@, m)],
                 \A g \in Helpers : g # h => begun'[g] = begun[g]
          PROVE  Whole'
      <3>1. outbox[h] \in Seq(Replies)
        BY PipesTyped
      <3>2. outbox'[h] = Append(outbox[h], m)
        BY <2>1 DEF TypeOK, HelpersOK
      <3>3. \A i \in 1..Len(outbox'[h]) : outbox'[h][i] # Rest
        <4>1. /\ Len(outbox'[h]) = Len(outbox[h]) + 1
              /\ \A i \in 1..Len(outbox[h]) : outbox'[h][i] = outbox[h][i]
              /\ outbox'[h][Len(outbox[h]) + 1] = m
              /\ Len(outbox[h]) \in Nat
          BY <3>1, <3>2, Appended
        <4> QED
          BY <2>1, <4>1 DEF Whole
      <3>4. \A g \in Helpers : g # h => outbox'[g] = outbox[g]
        BY <2>1 DEF TypeOK, HelpersOK
      <3> QED
        BY <2>1, <3>3, <3>4 DEF Whole
    <2>2. CASE Boot(h)
      <3>1. Ready \in Replies /\ Ready # Rest
        BY DEF Replies, Ready, Rest
      <3>2. UNCHANGED begun
        BY <2>2 DEF Boot, inside
      <3>3. begun'[h] # "torn"
        BY <3>2 DEF Whole
      <3> QED
        BY <1>1, <2>1, <2>2, <3>1, <3>2, <3>3 DEF Boot
    <2>3. CASE Reply(h)
      <3>1. Response(h) \in Replies /\ Response(h) # Rest
        <4>1. job[h] \in Frames /\ reply[h] \in Answers
          BY <2>3, PipesTyped DEF Reply, Working, Accounted, AnswersAreDone
        <4>2. begun[h] # "torn"
          BY DEF Whole
        <4> QED
          BY <4>1, <4>2 DEF Response, Frames, Replies, Rest, Answers
      <3>2. /\ begun'[h] = "none"
            /\ \A g \in Helpers : g # h => begun'[g] = begun[g]
        BY <2>3 DEF Reply, TypeOK, HelpersOK
      <3>3. CASE UNCHANGED outbox
        BY <3>2, <3>3 DEF Whole
      <3> HIDE DEF Response
      <3> QED
        BY <2>1, <2>3, <3>1, <3>2, <3>3 DEF Reply
    <2>4. CASE ReplySome(h)
      <3>1. /\ UNCHANGED outbox /\ begun'[h] = "begun"
            /\ \A g \in Helpers : g # h => begun'[g] = begun[g]
        BY <2>4 DEF ReplySome, TypeOK, HelpersOK
      <3> QED
        BY <3>1 DEF Whole
    <2>5. CASE Recv(h) \/ Garbled(h) \/ SeesEnd(h) \/ Run(h) \/ Ended(h)
                 \/ Dies(h)
      BY <1>1, <2>5 DEF Recv, Garbled, SeesEnd, Run, Ended, Dies, inside
    <2> QED
      BY <1>7, <2>2, <2>3, <2>4, <2>5 DEF HelperStep
  <1> QED
    BY <1>3, <1>4, <1>5, <1>6, <1>7 DEF Next, CallStep

-------------------------------------------------------------------------------
(* InHand, when the helper in use is not the one that moves.               *)

SameAtHand(k) ==
    /\ inbox'[k] = inbox[k] /\ outbox'[k] = outbox[k]
    /\ job'[k] = job[k] /\ life'[k] = life[k] /\ objects'[k] = objects[k]

LEMMA Untouched ==
    ASSUME NEW k, SameAtHand(k), InHand(k),
           UNCHANGED <<serial, partial, op, proxies>>,
           stage' = "free" <=> stage = "free",
           stage' \in {"starting", "sending"} => stage' = stage,
           stage' \in {"waiting", "receiving"}
             => stage \in {"waiting", "receiving"},
           stage # "free" /\ done[serial] = "result"
             => done'[serial] = "result",
           Answering(k) => clean'[serial] = clean[serial]
    PROVE  InHand(k)'
  <1>1. /\ \A c : Own(c)' <=> Own(c)
        /\ Working(k)' <=> Working(k)
        /\ OpenEnd(k)' <=> OpenEnd(k)
    BY DEF Own, Working, OpenEnd, SameAtHand
  <1>2. (Answering(k)' <=> Answering(k)) /\ (Stale(k)' <=> Stale(k))
    BY <1>1 DEF Answering, Stale, SameAtHand
  <1>3. OwnIsLast(k)'
    BY <1>1 DEF InHand, OwnIsLast, SameAtHand
  <1>4. SentIsThere(k)'
    BY <1>1, <1>2 DEF InHand, SentIsThere, SameAtHand
  <1>5. StartsEmpty(k)'
    BY <1>1 DEF InHand, StartsEmpty, SameAtHand
  <1>6. HeldIsOpen(k)'
    BY <1>1, <1>2 DEF InHand, HeldIsOpen, SameAtHand
  <1>7. ClosedIsGone(k)'
    BY <1>2 DEF InHand, ClosedIsGone, SameAtHand
  <1>8. StartedClean(k)'
    BY <1>2 DEF InHand, StartedClean
  <1> QED
    BY <1>3, <1>4, <1>5, <1>6, <1>7, <1>8 DEF InHand

LEMMA OtherHelperSteps ==
    ASSUME TypeOK, Accounted, NEW k \in Helpers, NEW h \in Helpers, h # k,
           HelperStep(h) \/ Dies(h), InHand(k)
    PROVE  InHand(k)'
  <1>1. SameAtHand(k) /\ UNCHANGED <<stage, serial, partial, op, proxies>>
    BY DEF HelperStep, Boot, Recv, Garbled, SeesEnd, Run, ReplySome, Reply,
           Ended, Dies, SameAtHand, TypeOK, HelpersOK, owner, ids, progress,
           inside, history
  <1>2. stage # "free" /\ done[serial] = "result" => done'[serial] = "result"
    <2>1. CASE Run(h)
      <3>1. PICK a \in Answers : done' = [done EXCEPT ![job[h].call] = a]
        BY <2>1 DEF Run
      <3>2. done[job[h].call] = "none"
        BY <2>1 DEF Run, Accounted, AnswersAreDone, Working
      <3> QED
        BY <3>1, <3>2 DEF TypeOK, HistoryOK
    <2>2. CASE ~Run(h)
      BY <2>2
      DEF HelperStep, Boot, Recv, Garbled, SeesEnd, ReplySome, Reply, Ended,
          Dies, history
    <2> QED
      BY <2>1, <2>2
  <1>3. ASSUME Answering(k) PROVE clean'[serial] = clean[serial]
    <2>1. CASE Recv(h)
      <3>1. 1 \in 1..Len(inbox[h]) /\ Head(inbox[h]) = inbox[h][1]
        BY <2>1, Popped DEF Recv, TypeOK, HelpersOK
      <3>2. Head(inbox[h]).call # serial
        BY <1>3, <2>1, <3>1, AnsweringIsStarted DEF Recv
      <3> QED
        BY <2>1, <3>2 DEF Recv, TypeOK, HistoryOK
    <2>2. CASE ~Recv(h)
      BY <2>2
      DEF HelperStep, Boot, Garbled, SeesEnd, Run, ReplySome, Reply, Ended,
          Dies, history
    <2> QED
      BY <2>1, <2>2
  <1> QED
    BY <1>1, <1>2, <1>3, Untouched

\* A call that ends and keeps its helper leaves nothing of its own in force.
LEMMA Released ==
    ASSUME NEW k, stage' = "free", partial' = FALSE, HeldIsOpen(k)'
    PROVE  InHand(k)'
  <1>1. \A c : ~Own(c)'
    BY DEF Own
  <1>2. ~Answering(k)'
    BY <1>1 DEF Answering
  <1> QED
    BY <1>1, <1>2
    DEF InHand, OwnIsLast, SentIsThere, StartsEmpty, ClosedIsGone, StartedClean

-------------------------------------------------------------------------------
(* InHand, when the helper in use moves.                                   *)

LEMMA BootInHand ==
    ASSUME TypeOK, TypeOK', Accounted, Accounted', NEW k \in Helpers, Boot(k),
           current = k, Fresh, InHand(k)
    PROVE  InHand(k)'
  <1>1. /\ life[k] = "booting" /\ outbox[k] = <<>> /\ life'[k] = "idle"
        /\ UNCHANGED <<stage, serial, partial, inbox, job, objects, proxies,
                       op>>
    BY DEF Boot, Linked, Fresh, TypeOK, HelpersOK, owner, ids, progress,
           inside, history
  <1>2. outbox'[k] = <<Ready>>
    BY <1>1 DEF Boot, Linked, TypeOK, HelpersOK
  <1>3. Len(outbox'[k]) = 1 /\ outbox'[k][1] = Ready
    BY <1>2
  <1>4. /\ \A c : Own(c)' <=> Own(c)
        /\ ~Working(k) /\ ~Working(k)'
    BY <1>1 DEF Own, Working
  <1>5. ~Own(Ready.call)
    BY OwnNumbered
  <1>6. ~Answering(k) /\ ~Answering(k)' /\ Stale(k)'
    BY <1>1, <1>3, <1>4, <1>5 DEF Answering, Stale
  <1>7. OwnIsLast(k)'
    BY <1>1, <1>3, <1>4, <1>5 DEF InHand, OwnIsLast
  <1>8. SentIsThere(k)'
    BY <1>1, <1>4, <1>6 DEF InHand, SentIsThere, OpenEnd
  <1>9. StartsEmpty(k)'
    BY <1>1, <1>2, <1>4 DEF InHand, StartsEmpty
  <1> QED
    BY <1>6, <1>7, <1>8, <1>9
    DEF InHand, HeldIsOpen, ClosedIsGone, StartedClean

LEMMA StopInHand ==
    ASSUME TypeOK, Accounted, NEW k \in Helpers, current = k, Fresh, InHand(k),
           Garbled(k) \/ SeesEnd(k) \/ Dies(k) \/ Ended(k)
    PROVE  InHand(k)'
  <1>1. /\ life'[k] \in {"dying", "dead"}
        /\ UNCHANGED <<stage, serial, partial, inbox, outbox, job, objects,
                       proxies, op, clean>>
    BY DEF Garbled, SeesEnd, Dies, Ended, TypeOK, HelpersOK, owner, ids,
           progress, inside, history
  <1>2. /\ \A c : Own(c)' <=> Own(c)
        /\ ~Working(k)' /\ ~OpenEnd(k)'
    BY <1>1 DEF Own, Working, OpenEnd
  <1>3. OwnIsLast(k)'
    BY <1>1, <1>2 DEF InHand, OwnIsLast
  <1>4. SentIsThere(k)'
    BY <1>1, <1>2 DEF InHand, SentIsThere
  <1>5. StartsEmpty(k)'
    BY <1>1, <1>2 DEF InHand, StartsEmpty
  <1>6. ASSUME Answering(k)'
        PROVE  /\ Answering(k) /\ ~Working(k) /\ life[k] # "booting"
               /\ Stale(k) => Stale(k)'
    <2>1. PICK i \in 1..Len(outbox[k]) : Own(outbox[k][i].call)
      BY <1>1, <1>2, <1>6 DEF Answering
    <2>2. ~Working(k) /\ life[k] # "booting"
      BY <2>1, PipesTyped DEF InHand, OwnIsLast, Fresh
    <2> QED
      BY <1>1, <1>2, <2>1, <2>2 DEF Answering, Stale
  <1>7. ClosedIsGone(k)'
    BY <1>1, <1>6 DEF InHand, ClosedIsGone, Working
  <1>8. StartedClean(k)'
    BY <1>1, <1>6 DEF InHand, StartedClean
  <1> QED
    BY <1>2, <1>3, <1>4, <1>5, <1>7, <1>8 DEF InHand, HeldIsOpen


LEMMA RecvInHand ==
    ASSUME TypeOK, Accounted, NEW k \in Helpers, current = k, Fresh, InHand(k),
           Recv(k)
    PROVE  InHand(k)'
  <1> DEFINE n == Len(inbox[k])
             first == inbox[k][1]
  <1>1. /\ n \in Nat \ {0} /\ first \in Frames /\ first.whole
        /\ Len(inbox'[k]) = n - 1
        /\ \A i \in 1..Len(inbox'[k]) : inbox'[k][i] = inbox[k][i + 1]
        /\ inbox'[k] = <<>> <=> n = 1
        /\ job'[k] = first /\ life'[k] = "busy"
    <2>1. inbox'[k] = Tail(inbox[k])
      BY DEF Recv, TypeOK, HelpersOK
    <2>2. job'[k] = Head(inbox[k]) /\ life'[k] = "busy"
      BY DEF Recv, TypeOK, HelpersOK
    <2>4. inbox[k] \in Seq(Frames) /\ inbox[k] # <<>> /\ Head(inbox[k]).whole
      BY DEF Recv, TypeOK, HelpersOK
    <2>3. Tail(inbox[k]) = <<>> <=> Len(Tail(inbox[k])) = 0
      <3>1. Tail(inbox[k]) \in Seq(Frames)
        BY <2>4, Popped
      <3> QED
        BY <3>1, EmptySeq
    <2> QED
      BY <2>1, <2>2, <2>3, <2>4, Popped
  <1>2. /\ life[k] = "idle" /\ inbox[k] # <<>>
        /\ UNCHANGED <<stage, serial, partial, outbox, objects, dirty, proxies,
                       op, done>>
    BY DEF Recv, owner, ids, progress
  <1>3. /\ \A c : Own(c)' <=> Own(c)
        /\ ~Working(k) /\ Working(k)'
    BY <1>1, <1>2 DEF Own, Working
  <1>4. /\ \A i \in 1..Len(outbox[k]) : ~Own(outbox[k][i].call)
        /\ \A i \in 1..n : Own(inbox[k][i].call) =>
             i = n /\ (stage = "sending" => partial)
    BY <1>2 DEF InHand, OwnIsLast
  <1>5. Stale(k) => Stale(k)'
    <2>1. ASSUME NEW i \in 1..n, ~Own(inbox[k][i].call) PROVE Stale(k)'
      <3>1. CASE i = 1
        BY <1>1, <1>3, <2>1, <3>1 DEF Stale
      <3>2. CASE i # 1
        <4>1. i - 1 \in 1..Len(inbox'[k]) /\ inbox'[k][i - 1] = inbox[k][i]
          BY <1>1, <3>2
        <4> QED
          BY <1>3, <2>1, <4>1 DEF Stale
      <3> QED
        BY <3>1, <3>2
    <2> QED
      BY <1>2, <1>3, <2>1 DEF Stale
  <1>6. OwnIsLast(k)'
    <2>1. ASSUME NEW i \in 1..Len(inbox'[k]), Own(inbox[k][i].call)'
          PROVE  i = Len(inbox'[k]) /\ (stage' = "sending" => partial')
      <3>1. i + 1 \in 1..n /\ Own(inbox[k][i + 1].call)
        BY <1>1, <1>3, <2>1
      <3> QED
        BY <1>1, <1>2, <1>4, <3>1
    <2>2. Own(job[k].call)' => inbox'[k] = <<>>
      BY <1>1, <1>3, <1>4
    <2>3. \A i \in 1..Len(outbox'[k]) : ~Own(outbox[k][i].call)'
      BY <1>2, <1>3, <1>4
    <2> QED
      BY <2>1, <2>2, <2>3 DEF OwnIsLast
  <1>7. SentIsThere(k)'
    <2>1. ASSUME partial'
          PROVE  LET m == Len(inbox'[k])
                 IN  /\ m # 0 /\ ~inbox'[k][m].whole
                     /\ stage' # "free" /\ inbox'[k][m].call = serial'
      <3>1. n # 1 /\ ~inbox[k][n].whole /\ Own(inbox[k][n].call)
        BY <1>1, <1>2, <2>1 DEF InHand, SentIsThere
      <3>2. n - 1 \in 1..Len(inbox'[k]) /\ n - 1 = Len(inbox'[k])
        BY <1>1, <3>1
      <3>3. inbox'[k][n - 1] = inbox[k][(n - 1) + 1] /\ (n - 1) + 1 = n
        BY <1>1, <3>2
      <3> QED
        BY <1>2, <3>1, <3>2, <3>3 DEF Own
    <2>2. ASSUME stage' \in {"waiting", "receiving"}
          PROVE  \/ Answering(k)'
                 \/ \E i \in 1..Len(inbox'[k]) : Own(inbox[k][i].call)'
      <3>1. PICK i \in 1..n : Own(inbox[k][i].call)
        BY <1>2, <1>3, <1>4, <2>2 DEF InHand, SentIsThere, OpenEnd, Answering
      <3>2. CASE i = 1
        BY <1>1, <1>3, <3>1, <3>2 DEF Answering
      <3>3. CASE i # 1
        <4>1. i - 1 \in 1..Len(inbox'[k]) /\ inbox'[k][i - 1] = inbox[k][i]
          BY <1>1, <3>3
        <4> QED
          BY <1>3, <3>1, <4>1
      <3> QED
        BY <3>2, <3>3
    <2> QED
      BY <2>1, <2>2 DEF SentIsThere, Own
  <1>8. StartsEmpty(k)'
    BY <1>2 DEF InHand, StartsEmpty
  <1>9. HeldIsOpen(k)'
    BY <1>2, <1>5 DEF InHand, HeldIsOpen, OpenEnd
  <1>10. ClosedIsGone(k)'
    BY <1>1 DEF ClosedIsGone
  <1>11. StartedClean(k)'
    <2> SUFFICES ASSUME Answering(k)', ~Stale(k)', op[serial].kind = "oneshot",
                        \A o \in Objects : proxies[o] # "open"
                 PROVE  clean'[serial']
      BY <1>2 DEF StartedClean
    <2>1. Own(first.call)
      BY <1>1, <1>2, <1>3, <1>4 DEF Answering
    <2>2. objects[k] \subseteq Objects
      BY DEF TypeOK, HelpersOK
    <2>3. objects[k] = {}
      BY <1>2, <1>5, <2>2 DEF InHand, HeldIsOpen, OpenEnd
    <2>4. ~dirty[k]
      BY <2>3 DEF Fresh
    <2>5. first = Head(inbox[k])
      BY <1>2, Popped DEF TypeOK, HelpersOK
    <2>6. serial \in Calls /\ Head(inbox[k]).call = serial
      BY <2>1, <2>5, OwnNumbered
    <2>7. clean' = [clean EXCEPT ![serial] = ~dirty[k]]
      BY <2>6 DEF Recv
    <2> QED
      BY <1>2, <2>4, <2>6, <2>7 DEF TypeOK, HistoryOK
  <1> QED
    BY <1>6, <1>7, <1>8, <1>9, <1>10, <1>11 DEF InHand

LEMMA RunInHand ==
    ASSUME TypeOK, Accounted, NEW k \in Helpers, current = k, InHand(k), Run(k)
    PROVE  InHand(k)'
  <1>1. PICK a \in Answers :
          /\ done' = [done EXCEPT ![job[k].call] = a]
          /\ objects' = [objects EXCEPT
                           ![k] = ObjectsAfter(k, op[job[k].call], a)]
    BY DEF Run
  <1>2. /\ life[k] = "busy" /\ life'[k] = "replying"
        /\ UNCHANGED <<stage, serial, partial, inbox, outbox, job, proxies, op,
                       clean>>
    BY DEF Run, owner, ids, progress, TypeOK, HelpersOK
  <1>3. /\ \A c : Own(c)' <=> Own(c)
        /\ Working(k) /\ Working(k)' /\ OpenEnd(k) /\ OpenEnd(k)'
    BY <1>2 DEF Own, Working, OpenEnd
  <1>4. (Answering(k)' <=> Answering(k)) /\ (Stale(k)' <=> Stale(k))
    BY <1>2, <1>3 DEF Answering, Stale
  <1>5. OwnIsLast(k)'
    BY <1>2, <1>3 DEF InHand, OwnIsLast
  <1>6. SentIsThere(k)'
    BY <1>2, <1>3, <1>4 DEF InHand, SentIsThere
  <1>7. StartsEmpty(k)'
    BY <1>2, <1>3 DEF InHand, StartsEmpty
  <1>8. StartedClean(k)'
    BY <1>2, <1>4 DEF InHand, StartedClean
  <1>9. /\ job[k].call \in Calls
        /\ done'[job[k].call] = a
        /\ objects'[k] = ObjectsAfter(k, op[job[k].call], a)
        /\ done[job[k].call] = "none"
    <2>1. job[k].call \in Calls
      BY <1>3, PipesTyped DEF Frames
    <2> QED
      BY <1>1, <1>2, <1>3, <2>1
      DEF TypeOK, HelpersOK, HistoryOK, Accounted, AnswersAreDone
  <1>10. ClosedIsGone(k)'
    <2> SUFFICES ASSUME Answering(k), op[serial].kind = "close"
                 PROVE  op[serial].obj \notin objects'[k]
      BY <1>2, <1>4 DEF ClosedIsGone
    <2>1. job[k].call = serial
      BY <1>3 DEF Answering, InHand, OwnIsLast, Own
    <2> QED
      BY <1>9, <2>1 DEF ObjectsAfter
  <1>11. HeldIsOpen(k)'
    <2> SUFFICES ASSUME ~Stale(k), NEW o \in objects'[k]
                 PROVE  \/ proxies[o] = "open"
                        \/ /\ stage # "free" /\ op[serial].kind = "create"
                           /\ op[serial].obj = o /\ done'[serial] = "result"
      BY <1>2, <1>3, <1>4 DEF HeldIsOpen
    <2>1. job[k].call = serial /\ stage # "free"
      BY <1>3 DEF Stale, Own
    <2>2. CASE o \in objects[k]
      BY <1>3, <1>9, <2>1, <2>2 DEF InHand, HeldIsOpen
    <2>3. CASE o \notin objects[k]
      BY <1>9, <2>1, <2>3 DEF ObjectsAfter
    <2> QED
      BY <2>2, <2>3
  <1> QED
    BY <1>5, <1>6, <1>7, <1>8, <1>10, <1>11 DEF InHand

LEMMA ReplyInHand ==
    ASSUME TypeOK, Accounted, NEW k \in Helpers, current = k, Whole, InHand(k),
           Reply(k)
    PROVE  InHand(k)'
  <1> DEFINE m == Len(outbox[k])
             new == [kind |-> reply[k], id |-> job[k].id, call |-> job[k].call]
  <1>14. Response(k) = new
    BY DEF Response, Whole
  <1>1. /\ life[k] = "replying" /\ life'[k] = "idle"
        /\ UNCHANGED <<stage, serial, partial, inbox, objects, proxies, op,
                       done, clean>>
    BY DEF Reply, Linked, owner, ids, progress, history, TypeOK, HelpersOK
  <1>2. /\ \A c : Own(c)' <=> Own(c)
        /\ Working(k) /\ ~Working(k)' /\ OpenEnd(k) /\ OpenEnd(k)'
    BY <1>1 DEF Own, Working, OpenEnd
  <1>3. /\ m \in Nat /\ Len(outbox'[k]) = m + 1
        /\ \A i \in 1..m : outbox'[k][i] = outbox[k][i]
        /\ outbox'[k][m + 1].call = job[k].call
    <2>1. outbox'[k] = Append(outbox[k], new)
      BY <1>14 DEF Reply, Linked, TypeOK, HelpersOK
    <2>2. new \in Replies
      <3>1. job[k] \in Frames /\ reply[k] \in Answers
        BY <1>1, <1>2, PipesTyped DEF Accounted, AnswersAreDone
      <3> QED
        BY <3>1 DEF Frames, Replies
    <2> HIDE DEF new
    <2>3. outbox[k] \in Seq(Replies)
      BY PipesTyped
    <2>4. /\ m \in Nat /\ Len(outbox'[k]) = m + 1
          /\ \A i \in 1..m : outbox'[k][i] = outbox[k][i]
          /\ outbox'[k][m + 1] = new
      BY <2>1, <2>2, <2>3, Appended
    <2> QED
      BY <2>4 DEF new
  <1> HIDE DEF m, new
  <1>4. \A i \in 1..m : ~Own(outbox[k][i].call)
    BY <1>2 DEF InHand, OwnIsLast, m
  <1>5. Answering(k)' <=> Own(job[k].call)
    <2>1. ASSUME Own(job[k].call) PROVE Answering(k)'
      <3>1. PICK i \in 1..Len(outbox'[k]) : i = m + 1
        BY <1>3
      <3>2. Own(outbox[k][i].call)'
        BY <1>2, <1>3, <2>1, <3>1
      <3> QED
        BY <3>2 DEF Answering
    <2>2. ASSUME NEW i \in 1..Len(outbox'[k]), Own(outbox[k][i].call)'
          PROVE  Own(job[k].call)
      BY <1>2, <1>3, <1>4, <2>2
    <2> QED
      BY <1>2, <2>1, <2>2 DEF Answering
  <1>6. Answering(k) <=> Own(job[k].call)
    BY <1>2, <1>4 DEF Answering, m
  <1>7. Stale(k) => Stale(k)'
    <2>1. ASSUME NEW i \in 1..m, ~Own(outbox[k][i].call) PROVE Stale(k)'
      <3>1. i \in 1..Len(outbox'[k]) /\ ~Own(outbox[k][i].call)'
        BY <1>2, <1>3, <2>1
      <3> QED
        BY <3>1 DEF Stale
    <2>2. ASSUME ~Own(job[k].call) PROVE Stale(k)'
      <3>1. PICK i \in 1..Len(outbox'[k]) : i = m + 1
        BY <1>3
      <3>2. ~Own(outbox[k][i].call)'
        BY <1>2, <1>3, <2>2, <3>1
      <3> QED
        BY <3>2 DEF Stale
    <2> QED
      BY <1>1, <1>2, <2>1, <2>2 DEF Stale, m
  <1>8. OwnIsLast(k)'
    <2>1. ASSUME NEW i \in 1..Len(outbox'[k]), Own(outbox[k][i].call)'
          PROVE  i = Len(outbox'[k]) /\ inbox'[k] = <<>>
      <3>1. i = m + 1
        BY <1>2, <1>3, <1>4, <2>1
      <3>2. Own(job[k].call)
        BY <1>2, <1>3, <2>1, <3>1
      <3> QED
        BY <1>1, <1>2, <1>3, <3>1, <3>2 DEF InHand, OwnIsLast
    <2> QED
      BY <1>1, <1>2, <2>1 DEF InHand, OwnIsLast
  <1>9. SentIsThere(k)'
    BY <1>1, <1>2, <1>5, <1>6 DEF InHand, SentIsThere
  <1>10. StartsEmpty(k)'
    BY <1>1, <1>2 DEF InHand, StartsEmpty
  <1>11. HeldIsOpen(k)'
    BY <1>1, <1>2, <1>7 DEF InHand, HeldIsOpen
  <1>12. ClosedIsGone(k)'
    BY <1>1, <1>5, <1>6 DEF InHand, ClosedIsGone
  <1>13. StartedClean(k)'
    BY <1>1, <1>5, <1>6, <1>7 DEF InHand, StartedClean
  <1> QED
    BY <1>8, <1>9, <1>10, <1>11, <1>12, <1>13 DEF InHand


-------------------------------------------------------------------------------
(* InHand, when the owner moves.                                           *)

\* What the two steps of a send do to the pipe: the frame of the current call
\* is the last one.
LEMMA WriteInHand ==
    ASSUME TypeOK, Accounted, NEW k \in Helpers, InHand(k), stage = "sending",
           stage' \in {"sending", "waiting"},
           UNCHANGED <<serial, outbox, job, life, objects, proxies, op, done,
                       clean>>,
           NEW n \in Nat \ {0}, Len(inbox'[k]) = n, inbox'[k] # <<>>,
           inbox'[k][n].call = serial,
           \A i \in 1..(n - 1) : /\ inbox'[k][i] = inbox[k][i]
                                 /\ ~Own(inbox[k][i].call),
           \A i \in 1..Len(inbox[k]) : i < n \/ Own(inbox[k][i].call),
           stage' = "sending" => partial',
           partial' => ~inbox'[k][n].whole
    PROVE  InHand(k)'
  <1>1. /\ \A c : Own(c)' <=> Own(c)
        /\ \A c : Own(c) <=> c = serial
        /\ Working(k)' <=> Working(k)
        /\ OpenEnd(k)' <=> OpenEnd(k)
    BY DEF Own, Working, OpenEnd
  <1>2. ~Answering(k)
    BY UnsentIsNotStarted
  <1>3. ~Answering(k)'
    BY <1>1, <1>2 DEF Answering
  <1>4. Stale(k) => Stale(k)'
    <2>1. ASSUME NEW i \in 1..Len(inbox[k]), ~Own(inbox[k][i].call)
          PROVE  Stale(k)'
      <3>1. i \in 1..Len(inbox'[k]) /\ inbox'[k][i] = inbox[k][i]
        BY <2>1, PipesTyped
      <3> QED
        BY <1>1, <2>1, <3>1 DEF Stale
    <2> QED
      BY <1>1, <2>1 DEF Stale
  <1>5. OwnIsLast(k)'
    BY <1>1, <1>3 DEF OwnIsLast, Answering
  <1>6. SentIsThere(k)'
    <2>1. Own(inbox[k][n].call)'
      BY <1>1
    <2> QED
      BY <1>1, <2>1 DEF SentIsThere
  <1>7. StartsEmpty(k)'
    BY DEF StartsEmpty
  <1>8. HeldIsOpen(k)'
    BY <1>1, <1>4 DEF InHand, HeldIsOpen
  <1> QED
    BY <1>3, <1>5, <1>6, <1>7, <1>8 DEF InHand, ClosedIsGone, StartedClean

LEMMA SendInHand ==
    ASSUME TypeOK, Accounted, NEW k \in Helpers, current = k, InHand(k),
           SendSome \/ SendRest
    PROVE  InHand(k)'
  <1> DEFINE n == Len(inbox[k])
  <1>1. /\ stage = "sending" /\ n \in Nat /\ inbox[k] \in Seq(Frames)
        /\ UNCHANGED <<serial, outbox, job, life, objects, proxies, op, done,
                       clean>>
    BY PipesTyped DEF SendSome, SendRest, ids, inside, history
  <1>2. PICK whole \in BOOLEAN :
          /\ inbox' = [inbox EXCEPT ![k] =
               IF partial THEN [@ EXCEPT ![Len(@)] = Frame(whole)]
                          ELSE Append(@, Frame(whole))]
          /\ stage' = IF whole THEN "waiting" ELSE "sending"
          /\ partial' = ~whole
    <2>1. CASE SendSome
      BY <2>1 DEF SendSome
    <2>2. CASE SendRest
      BY <2>2 DEF SendRest
    <2> QED
      BY <2>1, <2>2
  <1>3. /\ Frame(whole) \in Frames /\ Frame(whole).call = serial
        /\ Frame(whole).whole = whole
    BY <1>1, FrameTyped DEF Frame
  <1>4. CASE partial
    <2>1. /\ n \in Nat \ {0} /\ Own(inbox[k][n].call)
          /\ \A i \in 1..n : Own(inbox[k][i].call) => i = n
      BY <1>1, <1>4 DEF InHand, OwnIsLast, SentIsThere
    <2>2. inbox'[k] = [inbox[k] EXCEPT ![n] = Frame(whole)]
      BY <1>2, <1>4 DEF TypeOK, HelpersOK
    <2>3. /\ Len(inbox'[k]) = n /\ inbox'[k][n] = Frame(whole)
          /\ \A i \in 1..(n - 1) : inbox'[k][i] = inbox[k][i]
          /\ inbox'[k] \in Seq(Frames)
      BY <1>1, <1>3, <2>1, <2>2, Replaced
    <2>4. inbox'[k] # <<>>
      BY <2>1, <2>3, EmptySeq
    <2>5. \A i \in 1..Len(inbox[k]) : i < n \/ Own(inbox[k][i].call)
      BY <2>1
    <2>6. \A i \in 1..(n - 1) : ~Own(inbox[k][i].call)
      BY <2>1
    <2> HIDE DEF n
    <2> QED
      BY <1>1, <1>2, <1>3, <2>1, <2>3, <2>4, <2>5, <2>6, WriteInHand
  <1>5. CASE ~partial
    <2>1. \A i \in 1..n : ~Own(inbox[k][i].call)
      BY <1>1, <1>5 DEF InHand, OwnIsLast
    <2>2. inbox'[k] = Append(inbox[k], Frame(whole))
      BY <1>2, <1>5 DEF TypeOK, HelpersOK
    <2>3. /\ Len(inbox'[k]) = n + 1 /\ inbox'[k][n + 1] = Frame(whole)
          /\ \A i \in 1..n : inbox'[k][i] = inbox[k][i]
          /\ inbox'[k] \in Seq(Frames)
      BY <1>1, <1>3, <2>2, Appended
    <2>4. inbox'[k] # <<>>
      BY <1>1, <2>3, EmptySeq
    <2>5. /\ n + 1 \in Nat \ {0} /\ 1..((n + 1) - 1) = 1..n
          /\ \A i \in 1..Len(inbox[k]) : i < n + 1
      BY <1>1
    <2> HIDE DEF n
    <2> QED
      BY <1>1, <1>2, <1>3, <2>1, <2>3, <2>4, <2>5, WriteInHand
  <1> QED
    BY <1>4, <1>5

LEMMA SpawnInHand ==
    ASSUME TypeOK, TypeOK', Accounted, Fresh, Settled, Spawn
    PROVE  current' # 0 => InHand(current)'
  <1>1. PICK h \in Helpers : /\ life[h] = "unborn" /\ current' = h
                             /\ life' = [life EXCEPT ![h] = "booting"]
    BY DEF Spawn
  <1>2. /\ life'[h] = "booting" /\ stage' = "starting" /\ ~partial'
        /\ inbox'[h] = <<>> /\ outbox'[h] = <<>> /\ objects'[h] = {}
    BY <1>1
    DEF Spawn, progress, inside, Fresh, Settled, TypeOK, HelpersOK
  <1>3. Len(inbox'[h]) = 0 /\ Len(outbox'[h]) = 0
    BY <1>2
  <1>4. ~Working(h)' /\ ~Answering(h)' /\ Stale(h)'
    BY <1>2, <1>3 DEF Working, Answering, Stale
  <1>5. InHand(h)'
    BY <1>2, <1>3, <1>4
    DEF InHand, OwnIsLast, SentIsThere, StartsEmpty, HeldIsOpen, ClosedIsGone,
        StartedClean
  <1> QED
    BY <1>1, <1>5

LEMMA StartedInHand ==
    ASSUME TypeOK, Accounted, NEW k \in Helpers, current = k, Settled,
           InHand(k), Started
    PROVE  InHand(k)'
  <1>1. /\ stage' = "sending" /\ ~partial' /\ stage = "starting"
        /\ UNCHANGED <<inbox, job, life, objects>>
    BY DEF Started, progress, inside, Settled
  <1>2. /\ inbox[k] = <<>> /\ ~Working(k) /\ objects[k] = {}
        /\ outbox[k] = <<Ready>>
    BY DEF Started, InHand, StartsEmpty
  <1>3. outbox'[k] = <<>>
    <2>1. outbox'[k] = Tail(outbox[k])
      BY DEF Started, TypeOK, HelpersOK
    <2> QED
      BY <1>2, <2>1
  <1>4. Len(inbox'[k]) = 0 /\ Len(outbox'[k]) = 0 /\ ~Working(k)'
    BY <1>1, <1>2, <1>3 DEF Working
  <1>5. ~Answering(k)'
    BY <1>4 DEF Answering
  <1> QED
    BY <1>1, <1>2, <1>4, <1>5
    DEF InHand, OwnIsLast, SentIsThere, StartsEmpty, HeldIsOpen, ClosedIsGone,
        StartedClean

LEMMA BeginInHand ==
    ASSUME TypeOK, Accounted, NEW k \in Helpers, current = k, Settled,
           InHand(k), NEW o \in Ops, Begin(o)
    PROVE  InHand(k)'
  <1>1. /\ stage = "free" /\ stage' \in {"sending", "spawning"}
        /\ serial' = serial + 1 /\ ~partial' /\ serial \in Nat
        /\ UNCHANGED <<inbox, outbox, job, life, objects, proxies>>
    BY ConstantsTyped
    DEF Begin, progress, helpers, inside, Settled, TypeOK, OwnerOK
  <1>2. ASSUME NEW f \in Frames \cup Replies, Known(f) \/ f \in {Ready, Rest}
        PROVE  ~Own(f.call) /\ ~Own(f.call)'
    BY <1>1, <1>2, ConstantsTyped
    DEF Own, Known, Frames, Replies, Ready, Rest, Calls
  <1>10. \A i \in 1..Len(outbox[k]) :
           Known(outbox[k][i]) \/ outbox[k][i] \in {Ready, Rest}
    BY PipesTyped DEF Replies, Accounted, IdsAreFresh
  <1>3. /\ \A i \in 1..Len(inbox[k]) : /\ ~Own(inbox[k][i].call)
                                       /\ ~Own(inbox[k][i].call)'
        /\ Working(k) => ~Own(job[k].call) /\ ~Own(job[k].call)'
        /\ \A i \in 1..Len(outbox[k]) : /\ ~Own(outbox[k][i].call)
                                        /\ ~Own(outbox[k][i].call)'
    BY <1>1, <1>2, <1>10, PipesTyped DEF Accounted, IdsAreFresh
  <1>4. (Working(k)' <=> Working(k)) /\ (OpenEnd(k)' <=> OpenEnd(k))
    BY <1>1 DEF Working, OpenEnd
  <1>5. ~Answering(k)'
    BY <1>1, <1>3, <1>4 DEF Answering
  <1>6. Stale(k) => Stale(k)'
    BY <1>1, <1>3, <1>4 DEF Stale
  <1>7. OwnIsLast(k)'
    BY <1>1, <1>3, <1>4 DEF OwnIsLast
  <1>8. SentIsThere(k)' /\ StartsEmpty(k)'
    BY <1>1 DEF SentIsThere, StartsEmpty
  <1>9. HeldIsOpen(k)'
    BY <1>1, <1>4, <1>6 DEF InHand, HeldIsOpen
  <1> QED
    BY <1>5, <1>7, <1>8, <1>9 DEF InHand, ClosedIsGone, StartedClean


LEMMA RefuseInHand ==
    ASSUME TypeOK, Accounted, NEW k \in Helpers, current = k, Settled,
           InHand(k), NEW o \in Ops, Refuse(o)
    PROVE  InHand(k)'
  <1>1. /\ stage = "free" /\ stage' = "free"
        /\ ~partial' /\ partial' \in BOOLEAN
        /\ UNCHANGED <<inbox, outbox, job, life, objects>>
        /\ proxies' = ProxiesAfter(o, "invalid")
    BY DEF Refuse, progress, helpers, inside, Settled, TypeOK, OwnerOK
  <1>2. \A p \in Objects : proxies[p] = "open" => proxies'[p] = "open"
    BY <1>1 DEF Refuse, Permitted, ProxiesAfter, Ops, TypeOK, OwnerOK
  <1>3. (OpenEnd(k)' <=> OpenEnd(k)) /\ (Stale(k)' <=> Stale(k))
    BY <1>1 DEF OpenEnd, Stale, Working, Own
  <1>4. objects[k] \subseteq Objects
    BY DEF TypeOK, HelpersOK
  <1>5. HeldIsOpen(k)'
    BY <1>1, <1>2, <1>3, <1>4 DEF InHand, HeldIsOpen
  <1> QED
    BY <1>1, <1>5, Released

\* A call that ends while the helper works on it leaves its request, or its
\* reply, in the helper.
LEMMA WaitLeavesStale ==
    ASSUME TypeOK, Accounted, NEW k \in Helpers, InHand(k),
           stage \in {"waiting", "receiving"}, OpenEnd(k), stage' = "free",
           UNCHANGED <<inbox, job, life>>,
           \/ outbox'[k] = outbox[k]
           \/ /\ outbox[k] # <<>> /\ outbox[k][1] = Ready
              /\ outbox'[k] = Tail(outbox[k])
    PROVE  Stale(k)'
  <1>1. (\A c : ~Own(c)') /\ (Working(k)' <=> Working(k))
    BY DEF Own, Working
  <1>2. CASE Working(k)
    BY <1>1, <1>2 DEF Stale
  <1>3. ASSUME NEW i \in 1..Len(inbox[k]) PROVE Stale(k)'
    BY <1>1, <1>3 DEF Stale
  <1>4. ASSUME NEW i \in 1..Len(outbox[k]), Own(outbox[k][i].call)
        PROVE  Stale(k)'
    <2>1. CASE outbox'[k] = outbox[k]
      BY <1>1, <1>4, <2>1 DEF Stale
    <2>2. CASE /\ outbox[k] # <<>> /\ outbox[k][1] = Ready
               /\ outbox'[k] = Tail(outbox[k])
      <3>1. i # 1
        BY <1>4, <2>2, OwnNumbered
      <3>2. /\ outbox[k] \in Seq(Replies) /\ Len(outbox[k]) \in Nat
            /\ Len(outbox'[k]) = Len(outbox[k]) - 1
        BY <2>2, PipesTyped, Popped
      <3>3. PICK j \in 1..Len(outbox'[k]) : j = i - 1
        BY <3>1, <3>2
      <3> QED
        BY <1>1, <3>3 DEF Stale
    <2> QED
      BY <2>1, <2>2
  <1> QED
    BY <1>2, <1>3, <1>4 DEF InHand, SentIsThere, Answering

LEMMA LeftInHand ==
    ASSUME TypeOK, Accounted, NEW k \in Helpers, current = k, Settled,
           InHand(k), Interrupt \/ WaitIsReset, "sending" \notin InterruptAt
    PROVE  InHand(k)'
  <1>1. /\ stage' = "free" /\ partial' = FALSE
        /\ stage \in {"starting", "waiting", "receiving"}
        /\ UNCHANGED <<inbox, outbox, job, life, objects>>
    <2>1. stage \in {"starting", "waiting", "receiving"}
      <3>1. stage # "discarding"
        BY ConstantsTyped DEF Settled
      <3>2. stage \in {"waiting", "receiving"} \/ stage \in InterruptAt
        BY DEF Interrupt, WaitIsReset
      <3> QED
        BY <3>1, <3>2, ConstantsAssumption DEF Blocking
    <2> QED
      BY <2>1 DEF Interrupt, WaitIsReset, Tell, helpers, inside
  <1>2. OpenEnd(k)' <=> OpenEnd(k)
    BY <1>1 DEF OpenEnd
  <1>3. HeldIsOpen(k)'
    <2>1. CASE stage = "starting"
      BY <1>1, <2>1 DEF InHand, StartsEmpty, HeldIsOpen
    <2>2. CASE stage \in {"waiting", "receiving"}
      BY <1>1, <1>2, <2>2, WaitLeavesStale DEF HeldIsOpen
    <2> QED
      BY <1>1, <2>1, <2>2
  <1> QED
    BY <1>1, <1>3, Released

\* The answer the owner takes is the last thing in the helper.
LEMMA TakenIsAll ==
    ASSUME TypeOK, Accounted, NEW k \in Helpers, current = k, Fresh, InHand(k),
           stage \in {"waiting", "receiving"}, outbox[k] # <<>>,
           Head(outbox[k]).kind \in Answers, Head(outbox[k]).id = reqId
    PROVE  /\ Answering(k) /\ ~Stale(k) /\ life[k] # "busy"
           /\ done[serial] = Head(outbox[k]).kind
  <1>1. /\ Head(outbox[k]).call = serial
        /\ done[serial] = Head(outbox[k]).kind
    BY ReplyIsOurs
  <1>2. /\ Head(outbox[k]) = outbox[k][1] /\ 1 \in 1..Len(outbox[k])
        /\ Len(outbox[k]) \in Nat
    BY PipesTyped, Popped
  <1>3. Own(outbox[k][1].call)
    BY <1>1, <1>2 DEF Own
  <1>4. Len(outbox[k]) = 1 /\ Len(inbox[k]) = 0 /\ ~Working(k)
    BY <1>2, <1>3, PipesTyped DEF InHand, OwnIsLast
  <1>5. life[k] # "booting"
    BY DEF Fresh
  <1> QED
    BY <1>1, <1>2, <1>3, <1>4, <1>5 DEF Answering, Stale, Working

LEMMA ReceiveInHand ==
    ASSUME TypeOK, Accounted, NEW k \in Helpers, current = k, Fresh, Settled,
           InHand(k), Receive, current' # 0
    PROVE  InHand(k)'
  <1>1. /\ stage \in {"waiting", "receiving"} /\ outbox[k] # <<>>
        /\ outbox'[k] = Tail(outbox[k])
        /\ UNCHANGED <<inbox, job, life, objects>>
    BY DEF Receive, inside, TypeOK, HelpersOK
  <1>2. OpenEnd(k)' <=> OpenEnd(k)
    BY <1>1 DEF OpenEnd
  <1>3. CASE Head(outbox[k]) = Ready /\ Tell("unclassified")
    <2>1. stage' = "free" /\ partial' = FALSE
      BY <1>3 DEF Tell
    <2>2. outbox[k][1] = Ready
      BY <1>1, <1>3, PipesTyped, Popped
    <2>3. HeldIsOpen(k)'
      BY <1>1, <1>2, <2>1, <2>2, WaitLeavesStale DEF HeldIsOpen
    <2> QED
      BY <2>1, <2>3, Released
  <1>4. CASE /\ Head(outbox[k]).kind \in Answers
             /\ Head(outbox[k]).id = reqId
             /\ Tell(Head(outbox[k]).kind)
    <2> DEFINE told == Head(outbox[k]).kind
    <2>1. /\ Answering(k) /\ ~Stale(k) /\ life[k] # "busy"
          /\ done[serial] = told
      BY <1>1, <1>4, TakenIsAll
    <2>2. /\ stage' = "free" /\ partial' = FALSE /\ stage # "free"
          /\ proxies' = ProxiesAfter(op[serial], told)
      BY <1>1, <1>4 DEF Tell
    <2>3. objects[k] \subseteq Objects
      BY DEF TypeOK, HelpersOK
    <2> HIDE DEF told
    <2>4. ASSUME OpenEnd(k), NEW o \in objects[k] PROVE proxies'[o] = "open"
      <3>1. o \in Objects /\ proxies \in [Objects -> {"none", "open", "gone"}]
        BY <2>3 DEF TypeOK, OwnerOK
      <3>2. \/ proxies[o] = "open"
            \/ /\ op[serial].kind = "create" /\ op[serial].obj = o
               /\ told = "result"
        BY <2>1, <2>4 DEF InHand, HeldIsOpen
      <3>3. op[serial].kind = "close" => op[serial].obj # o
        BY <2>1 DEF InHand, ClosedIsGone
      <3>4. op[serial].kind = "create" => proxies[op[serial].obj] = "none"
        BY <2>2 DEF Settled
      <3>5. CASE op[serial].kind = "create"
        <4>1. \/ /\ told = "result"
                 /\ proxies' = [proxies EXCEPT ![op[serial].obj] = "open"]
              \/ /\ told # "result"
                 /\ proxies' = [proxies EXCEPT ![op[serial].obj] = "gone"]
          BY <2>2, <3>5 DEF ProxiesAfter
        <4> QED
          BY <3>1, <3>2, <3>4, <3>5, <4>1
      <3>6. CASE op[serial].kind = "close"
        <4>1. proxies' = [proxies EXCEPT ![op[serial].obj] = "gone"]
          BY <2>2, <3>6 DEF ProxiesAfter
        <4> QED
          BY <3>1, <3>2, <3>3, <3>6, <4>1
      <3>7. CASE op[serial].kind \notin {"create", "close"}
        <4>1. proxies' = proxies
          BY <2>2, <3>7 DEF ProxiesAfter
        <4> QED
          BY <3>2, <3>7, <4>1
      <3> QED
        BY <3>5, <3>6, <3>7
    <2>5. HeldIsOpen(k)'
      BY <1>1, <1>2, <2>4 DEF HeldIsOpen
    <2> QED
      BY <2>2, <2>5, Released
  <1> QED
    BY <1>3, <1>4 DEF Receive

-------------------------------------------------------------------------------
LEMMA InHandStep ==
    ASSUME TypeOK, TypeOK', Accounted, Accounted', Tidy, [Next]_vars,
           InterruptAt \cap {"sending", "receiving"} = {}
    PROVE  current' # 0 => InHand(current)'
  <1>1. ASSUME current' # 0, current' = current
        PROVE  /\ current \in Helpers /\ InHand(current)
               /\ Fresh /\ Settled /\ Whole
    BY <1>1 DEF Tidy, TypeOK, OwnerOK
  <1>2. ASSUME current # 0, InHand(current)', current' = current
        PROVE  current' # 0 => InHand(current)'
    BY <1>2
  <1>3. ASSUME NEW o \in Ops, Begin(o) \/ Refuse(o)
        PROVE  current' # 0 => InHand(current)'
    <2>1. current' = current
      BY <1>3 DEF Begin, Refuse, hold
    <2> QED
      BY <1>1, <1>3, <2>1, BeginInHand, RefuseInHand
  <1>4. CASE DeadlinePasses \/ BeginReceive \/ CollectInCall \/ BeginExit
               \/ UNCHANGED vars
    <2>1. /\ UNCHANGED <<serial, partial, op, proxies, done, clean, current>>
          /\ UNCHANGED <<inbox, outbox, job, life, objects>>
          /\ stage' = "free" <=> stage = "free"
          /\ stage' \in {"starting", "sending"} => stage' = stage
          /\ stage' \in {"waiting", "receiving"}
               => stage \in {"waiting", "receiving"}
      BY <1>4
      DEF DeadlinePasses, BeginReceive, CollectInCall, BeginExit, Blocking,
          vars, owner, ids, progress, hold, helpers, inside, history
    <2>2. SameAtHand(current)
      BY <2>1 DEF SameAtHand
    <2> QED
      BY <1>1, <2>1, <2>2, Untouched
  <1>5. CASE Spawn
    BY <1>5, SpawnInHand DEF Tidy
  <1>6. CASE Started \/ SendSome \/ SendRest
    <2>1. current' = current
      BY <1>6 DEF Started, SendSome, SendRest, hold
    <2> QED
      BY <1>1, <1>6, <2>1, StartedInHand, SendInHand
  <1>7. CASE SpawnFails \/ StartFails \/ SendTimesOut \/ SendFails
               \/ SendFailsAgain \/ HelperLost \/ WaitTimesOut \/ CloseSends
               \/ OwnerDies
    BY <1>7
    DEF SpawnFails, StartFails, SendTimesOut, SendFails, SendFailsAgain,
        HelperLost, WaitTimesOut, CloseSends, OwnerDies, Abandon
  <1>8. CASE Discarded \/ CloseJoins \/ EndExit
    BY <1>8 DEF Discarded, CloseJoins, EndExit, hold, Tidy, Settled
  <1>9. CASE Receive
    <2>1. current' \in {0, current}
      BY <1>9 DEF Receive, hold
    <2> QED
      BY <1>1, <1>9, <2>1, ReceiveInHand
  <1>10. CASE Interrupt \/ WaitIsReset
    <2>1. current' = current
      BY <1>10 DEF Interrupt, WaitIsReset, hold
    <2> QED
      BY <1>1, <1>10, <2>1, LeftInHand
  <1>11. ASSUME NEW h \in Helpers, HelperStep(h) \/ Dies(h)
         PROVE  current' # 0 => InHand(current)'
    <2>1. current' = current
      BY <1>11
      DEF HelperStep, Boot, Recv, Garbled, SeesEnd, Run, ReplySome, Reply,
          Ended, Dies, owner, hold
    <2>4. CASE ReplySome(h)
      <3>1. /\ UNCHANGED <<stage, serial, partial, op, proxies, done, clean>>
            /\ SameAtHand(current)
        BY <2>4
        DEF ReplySome, owner, ids, progress, history, SameAtHand
      <3> QED
        BY <1>1, <2>1, <3>1, Untouched
    <2>2. CASE h = current
      BY <1>1, <1>11, <2>1, <2>2, <2>4, BootInHand, StopInHand, RecvInHand,
         RunInHand, ReplyInHand
      DEF HelperStep
    <2>3. CASE h # current
      BY <1>1, <1>11, <2>1, <2>3, OtherHelperSteps
    <2> QED
      BY <2>2, <2>3
  <1>12. ~GarbledReply /\ ~InterruptedReceive
    BY NothingTorn DEF Tidy
  <1> QED
    BY <1>3, <1>4, <1>5, <1>6, <1>7, <1>8, <1>9, <1>10, <1>11, <1>12
    DEF Next, CallStep

LEMMA TidyAlways ==
    ASSUME InterruptAt \cap {"sending", "receiving"} = {}
    PROVE  Spec => []Tidy
  <1>1. Init => Tidy
    BY DEF Init, Tidy, Fresh, Settled, Whole
  <1>2. TypeOK /\ TypeOK' /\ Accounted /\ Accounted' /\ Tidy /\ [Next]_vars
          => Tidy'
    BY FreshStep, SettledStep, WholeStep, InHandStep DEF Tidy
  <1> QED
    BY <1>1, <1>2, AccountedAlways, PTL DEF Spec

\* Only a response gives a result.
LEMMA ResultIsReceived ==
    ASSUME TypeOK, Accounted, [Next]_vars, NEW c \in Calls,
           outcome[c] = "pending", outcome'[c] = "result"
    PROVE  /\ c = serial /\ stage \in {"waiting", "receiving"}
           /\ outbox[current] # <<>> /\ Head(outbox[current]).kind \in Answers
           /\ Head(outbox[current]).id = reqId
  <1>1. c = serial
    BY DEF Accounted, CallsInOrder
  <1>2. ASSUME NEW told \in Refusals \cup Losses, Tell(told) PROVE FALSE
    BY <1>1, <1>2 DEF Tell, TypeOK, HistoryOK, Refusals, Losses
  <1>3. ASSUME NEW told \in Refusals \cup Losses, Abandon(told) PROVE FALSE
    BY <1>2, <1>3 DEF Abandon
  <1>4. ASSUME NEW o \in Ops, Begin(o) \/ Refuse(o) PROVE FALSE
    BY <1>4 DEF Begin, Refuse, TypeOK, HistoryOK
  <1>5. ~(SpawnFails \/ Interrupt \/ InterruptedReceive \/ Discarded
            \/ WaitIsReset)
    BY <1>2
    DEF SpawnFails, Interrupt, InterruptedReceive, Discarded, WaitIsReset,
        Refusals, Losses
  <1>6. ~(StartFails \/ SendTimesOut \/ WaitTimesOut)
    BY <1>3 DEF StartFails, SendTimesOut, WaitTimesOut, Refusals, Losses
  <1>7. ~(SendFailsAgain \/ HelperLost \/ GarbledReply)
    <2>1. stage \in {"sending", "waiting", "receiving"}
            => Classified(current) \in Losses
      BY ClassifiedTyped, HelperThere DEF Losses
    <2>2. "unclassified" \in Losses
      BY DEF Losses
    <2> QED
      BY <1>2, <1>3, <2>1, <2>2
      DEF SendFailsAgain, HelperLost, GarbledReply, Refusals
  <1>8. ASSUME outcome' = outcome PROVE FALSE
    BY <1>8
  <1>9. ~(DeadlinePasses \/ Spawn \/ Started \/ SendSome \/ SendRest
            \/ SendFails \/ BeginReceive \/ CollectInCall \/ BeginExit
            \/ CloseSends \/ CloseJoins \/ EndExit \/ OwnerDies
            \/ UNCHANGED vars)
    BY <1>8
    DEF DeadlinePasses, Spawn, Started, SendSome, SendRest, SendFails,
        BeginReceive, CollectInCall, BeginExit, CloseSends, CloseJoins,
        EndExit, OwnerDies, vars, history
  <1>10. ASSUME NEW h \in Helpers, HelperStep(h) \/ Dies(h) PROVE FALSE
    BY <1>8, <1>10
    DEF HelperStep, Boot, Recv, Garbled, SeesEnd, Run, ReplySome, Reply,
        Ended, Dies, history
  <1>11. Receive
    BY <1>4, <1>5, <1>6, <1>7, <1>9, <1>10 DEF Next, CallStep
  <1>12. ~Tell("unclassified")
    BY <1>2 DEF Losses
  <1> QED
    BY <1>1, <1>8, <1>11, <1>12 DEF Receive, history

\* A result that a caller gets while it holds no object was computed without
\* the session state of earlier operations, provided that no interrupt hits a
\* send or a recv: one that does may leave an object in the helper that its
\* owner has given up, and nothing in the pipe that would show it.
THEOREM ResultsAreCleanAlways ==
    ASSUME InterruptAt \cap {"sending", "receiving"} = {}
    PROVE  Spec => ResultsAreClean
  <1>1. ASSUME TypeOK, Accounted, Tidy, [Next]_vars, NEW c \in Calls,
               outcome[c] = "pending", outcome'[c] = "result",
               op[c].kind = "oneshot", \A o \in Objects : proxies[o] # "open"
        PROVE  clean[c]
    <2>1. /\ c = serial /\ stage \in {"waiting", "receiving"}
          /\ outbox[current] # <<>> /\ Head(outbox[current]).kind \in Answers
          /\ Head(outbox[current]).id = reqId
      BY <1>1, ResultIsReceived
    <2>2. current \in Helpers /\ current # 0
      BY <1>1, <2>1, HelperThere, ConstantsTyped
    <2>3. Answering(current) /\ ~Stale(current)
      BY <1>1, <2>1, <2>2, TakenIsAll DEF Tidy
    <2> QED
      BY <1>1, <2>1, <2>2, <2>3 DEF Tidy, InHand, StartedClean
  <1>2. TypeOK /\ Accounted /\ Tidy /\ [Next]_vars =>
          [\A c \in Calls :
             /\ outcome[c] = "pending" /\ outcome'[c] = "result"
             /\ op[c].kind = "oneshot"
             /\ \A o \in Objects : proxies[o] # "open"
             => clean[c]]_vars
    BY <1>1
  <1> QED
    BY <1>2, TidyAlways, AccountedAlways, PTL DEF Spec, ResultsAreClean

===============================================================================
