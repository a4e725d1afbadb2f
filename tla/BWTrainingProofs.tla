--------------------------- MODULE BWTrainingProofs ---------------------------
(***************************************************************************)
(* What TLAPS proves of a Baum-Welch stage: for every manifest, number of  *)
(* shards and workers, ladder, policy and number of crashes.               *)
(***************************************************************************)
EXTENDS BWTraining, WellFoundedInduction, FiniteSetTheorems, TLAPS

(* The arguments, and the manifest's partition.                            *)

LEMMA SettingShape ==
    ASSUME opts \in Settings
    PROVE  /\ opts.shards \in Workers /\ opts.shards \in Nat \ {0}
           /\ opts.multipron \in BOOLEAN
           /\ opts.remainder \in {"first", "last"} /\ opts.rungs \in Nat
           /\ opts.policy \in {"recover", "abort", "omit"}
           /\ opts.budget \in 0..NUtts /\ opts.floor \in BOOLEAN
           /\ opts.verdicts \subseteq Verdict
           /\ Running \subseteq Lines /\ Shards \subseteq Lines \ {0}
           /\ Running = (IF Serial THEN {0} ELSE Shards)
           /\ ~Pooled => \E l \in Lines : Running = {l}
           /\ Pooled => Running = Shards
           /\ Shards = 1..opts.shards /\ NUtts \in Nat \ {0}
  <1>1. opts \in [shards : Workers, multipron : BOOLEAN,
                  remainder : {"first", "last"}, rungs : Nat,
                  policy : {"recover", "abort", "omit"},
                  budget : 0..NUtts, floor : BOOLEAN, verdicts : SUBSET Verdict]
    BY ConstantsAssumption
  <1>2. opts.shards \in Workers /\ MaxShards \in Nat /\ NUtts \in Nat \ {0}
    BY <1>1, ConstantsAssumption
  <1> QED
    BY <1>1, <1>2 DEF Workers, Lines, Running, Serial, Pooled, Shards

LEMMA Products ==
    ASSUME NEW m \in Nat, NEW n \in Nat, NEW q \in Nat, m <= n
    PROVE  m * q \in Nat /\ n * q \in Nat /\ m * q <= n * q
  <1>1. PICK d \in Nat : n = m + d
    BY n - m \in Nat
  <1>2. n * q = m * q + d * q /\ d * q \in Nat /\ m * q \in Nat
    BY <1>1
  <1> QED
    BY <1>2

LEMMA DivisionLaw ==
    ASSUME NEW n \in Nat, NEW s \in Nat \ {0}
    PROVE  /\ n \div s \in Nat /\ n % s \in Nat
           /\ s * (n \div s) + (n % s) = n /\ n % s < s
  BY SMTT(60)

LEMMA Division ==
    ASSUME opts \in Settings
    PROVE  /\ Quotient \in Nat /\ Remainder \in Nat
           /\ opts.shards * Quotient + Remainder = NUtts
           /\ Remainder < opts.shards
  <1>1. NUtts \in Nat /\ opts.shards \in Nat \ {0}
    BY SettingShape
  <1>2. /\ NUtts \div opts.shards \in Nat /\ NUtts % opts.shards \in Nat
        /\ opts.shards * (NUtts \div opts.shards) + (NUtts % opts.shards) = NUtts
        /\ NUtts % opts.shards < opts.shards
    BY <1>1, DivisionLaw
  <1> QED
    BY <1>2 DEF Quotient, Remainder

\* The lines before a shard and those up to its end, when the first shards
\* take one more each: a and b are the whole quotients before and up to it.
LEMMA SharedEnds ==
    ASSUME NEW l \in Nat \ {0}, NEW s \in Nat \ {0}, l <= s,
           NEW a \in Nat, NEW b \in Nat, NEW c \in Nat, NEW r \in Nat,
           a <= b, b <= c, r < s
    PROVE  /\ Least(l - 1, r) \in Nat /\ Least(l, r) \in Nat
           /\ Least(l - 1, r) <= Least(l, r) /\ Least(l, r) <= r
           /\ l = 1 => Least(l - 1, r) = 0
           /\ l = s => Least(l, r) = r
           /\ a + Least(l - 1, r) + 1 \in Nat \ {0}
           /\ b + Least(l, r) \in Nat
           /\ a + Least(l - 1, r) + 1 <= b + Least(l, r) + 1
           /\ b + Least(l, r) <= c + r
  <1>1. CASE l <= r
    <2>1. Least(l - 1, r) = l - 1 /\ Least(l, r) = l
      <3>1. l - 1 < r /\ l - 1 \in Nat
        BY <1>1
      <3>2. CASE l = r
        BY <3>1, <3>2 DEF Least
      <3>3. CASE l # r
        <4>1. l < r
          BY <1>1, <3>3
        <4> QED
          BY <3>1, <4>1 DEF Least
      <3> QED
        BY <3>2, <3>3
    <2>2. l # s
      BY <1>1
    <2> QED
      BY <1>1, <2>1, <2>2
  <1>2. CASE ~(l <= r)
    <2>1. Least(l - 1, r) = r /\ Least(l, r) = r
      <3>1. ~(l - 1 < r) /\ ~(l < r)
        BY <1>2
      <3> QED
        BY <3>1 DEF Least
    <2>2. l = 1 => r = 0
      BY <1>2
    <2> QED
      BY <1>2, <2>1, <2>2
  <1> QED
    BY <1>1, <1>2

\* Where a shard begins and ends.
LEMMA Ends ==
    ASSUME opts \in Settings, NEW l \in Shards
    PROVE  /\ First(l) \in Nat \ {0} /\ Last(l) \in Nat
           /\ First(l) <= Last(l) + 1 /\ Last(l) <= NUtts
           /\ l = 1 => First(l) = 1
           /\ l = opts.shards => Last(l) = NUtts
           /\ l # 1 => First(l) = Last(l - 1) + 1
  <1> DEFINE q == Quotient
             r == Remainder
             s == opts.shards
             a == (l - 1) * q
             b == l * q
             c == s * q
  <1>0. /\ l \in Nat \ {0} /\ s \in Nat \ {0} /\ l <= s
        /\ opts.remainder \in {"first", "last"} /\ NUtts \in Nat
    BY SettingShape
  <1>1. q \in Nat /\ r \in Nat /\ c + r = NUtts /\ r < s
    BY Division
  <1>2. a \in Nat /\ b \in Nat /\ c \in Nat /\ a <= b /\ b <= c
    <2>1. l - 1 \in Nat /\ l - 1 <= l
      BY <1>0
    <2> HIDE DEF q
    <2>2. a \in Nat /\ b \in Nat /\ a <= b
      BY <1>0, <1>1, <2>1, Products
    <2>3. c \in Nat /\ b <= c
      BY <1>0, <1>1, Products
    <2> QED
      BY <2>2, <2>3
  <1>3. l = 1 => a = 0
    BY <1>1
  <1>e. l = s => b = c
    OBVIOUS
  <1>4. CASE opts.remainder = "first"
    <2>1. /\ First(l) = a + Least(l - 1, r) + 1
          /\ Last(l) = b + Least(l, r)
          /\ l # 1 => Last(l - 1) = a + Least(l - 1, r)
      BY <1>0, <1>4 DEF First, Last
    <2> HIDE DEF q, r, s, a, b, c
    <2>2. /\ Least(l - 1, r) \in Nat /\ Least(l, r) \in Nat
          /\ Least(l - 1, r) <= Least(l, r) /\ Least(l, r) <= r
          /\ l = 1 => Least(l - 1, r) = 0
          /\ l = s => Least(l, r) = r
          /\ a + Least(l - 1, r) + 1 \in Nat \ {0}
          /\ b + Least(l, r) \in Nat
          /\ a + Least(l - 1, r) + 1 <= b + Least(l, r) + 1
          /\ b + Least(l, r) <= c + r
      BY <1>0, <1>1, <1>2, SharedEnds
    <2>3. First(l) \in Nat \ {0} /\ Last(l) \in Nat /\ First(l) <= Last(l) + 1
      BY <2>1, <2>2
    <2>4. Last(l) <= NUtts
      BY <1>1, <2>1, <2>2
    <2>5. l = 1 => First(l) = 1
      BY <1>3, <2>1, <2>2
    <2>6. l = s => Last(l) = NUtts
      BY <1>1, <1>e, <2>1, <2>2
    <2>7. l # 1 => First(l) = Last(l - 1) + 1
      BY <2>1
    <2> QED
      BY <2>3, <2>4, <2>5, <2>6, <2>7 DEF s
  <1>5. CASE opts.remainder = "last"
    <2>1. /\ First(l) = a + 1
          /\ Last(l) = IF l = s THEN NUtts ELSE b
          /\ l # 1 => Last(l - 1) = a
      BY <1>0, <1>5 DEF First, Last
    <2> HIDE DEF q, r, s, a, b, c
    <2>2. a <= NUtts /\ b <= NUtts
      BY <1>1, <1>2
    <2>3. First(l) \in Nat \ {0} /\ (l = 1 => First(l) = 1)
      BY <1>2, <1>3, <2>1
    <2>4. /\ Last(l) \in Nat /\ First(l) <= Last(l) + 1 /\ Last(l) <= NUtts
          /\ l = s => Last(l) = NUtts
      <3>1. CASE l = s
        BY <1>0, <1>2, <2>1, <2>2, <3>1
      <3>2. CASE l # s
        BY <1>0, <1>2, <2>1, <2>2, <3>2
      <3> QED
        BY <3>1, <3>2
    <2>5. l # 1 => First(l) = Last(l - 1) + 1
      BY <2>1
    <2> QED
      BY <2>3, <2>4, <2>5 DEF s
  <1> QED
    BY <1>0, <1>4, <1>5

\* Natural numbers are well founded: a nonempty set of them has a least one.
LEMMA LeastOne ==
    ASSUME NEW ns \in SUBSET Nat, ns # {}
    PROVE  \E n \in ns : \A m \in ns : n <= m
  <1>1. PICK n \in ns : \A m \in ns : ~(<<m, n>> \in OpToRel(<, Nat))
    BY NatLessThanWellFounded, WFMin
  <1>2. \A m \in ns : ~(m < n)
    BY <1>1 DEF OpToRel
  <1> QED
    BY <1>2

LEMMA ShardsInOrder ==
    ASSUME opts \in Settings, NEW k \in Shards, NEW l \in Shards, k < l
    PROVE  Last(k) < First(l)
  <1> DEFINE bad == {n \in Shards : k < n /\ ~(Last(k) < First(n))}
  <1>0. Shards = 1..opts.shards /\ opts.shards \in Nat
    BY SettingShape
  <1>1. bad \in SUBSET Nat
    BY <1>0
  <1>2. SUFFICES ASSUME bad # {} PROVE FALSE
    BY <1>0
  <1>3. PICK n \in bad : \A m \in bad : n <= m
    BY <1>1, <1>2, LeastOne
  <1>4. /\ n \in Shards /\ n - 1 \in Shards /\ k <= n - 1 /\ n # 1
        /\ k \in Nat /\ n \in Nat
    BY <1>0, <1>3
  <1>5. n - 1 \notin bad
    BY <1>3, <1>4
  <1>6. Last(k) <= Last(n - 1)
    <2>1. CASE k = n - 1
      BY <1>4, <2>1, Ends
    <2>2. CASE k # n - 1
      <3>1. Last(k) < First(n - 1)
        BY <1>4, <1>5, <2>2
      <3> QED
        BY <1>4, <3>1, Ends
    <2> QED
      BY <2>1, <2>2
  <1>7. First(n) = Last(n - 1) + 1 /\ Last(n - 1) \in Nat /\ Last(k) \in Nat
    BY <1>4, Ends
  <1> QED
    BY <1>3, <1>6, <1>7

LEMMA ShardsCover ==
    ASSUME opts \in Settings, NEW u \in Utts
    PROVE  \E l \in Shards : u \in Part(l)
  <1> DEFINE late == {n \in Shards : u <= Last(n)}
  <1>0. /\ Shards = 1..opts.shards /\ opts.shards \in Nat \ {0}
        /\ u \in 1..NUtts /\ NUtts \in Nat
    BY SettingShape DEF Utts
  <1>1. opts.shards \in late
    BY <1>0, Ends
  <1>2. late \in SUBSET Nat
    BY <1>0
  <1>3. PICK n \in late : \A m \in late : n <= m
    BY <1>1, <1>2, LeastOne
  <1>4. First(n) <= u
    <2>1. CASE n = 1
      BY <1>0, <1>3, <2>1, Ends
    <2>2. CASE n # 1
      <3>1. n - 1 \in Shards /\ ~(n <= n - 1)
        BY <1>0, <1>3, <2>2
      <3>2. n - 1 \notin late
        BY <1>3, <3>1
      <3> QED
        BY <1>0, <1>3, <2>2, <3>1, <3>2, Ends
    <2> QED
      BY <2>1, <2>2
  <1> QED
    BY <1>0, <1>3, <1>4, Ends DEF Part

\* The lines that run share the manifest out.
LEMMA Partition ==
    ASSUME opts \in Settings
    PROVE  /\ \A l \in Running : /\ First(l) \in Nat \ {0} /\ Last(l) \in Nat
                                 /\ First(l) <= Last(l) + 1 /\ Last(l) <= NUtts
                                 /\ Part(l) \in SUBSET Utts
           /\ \A u \in Utts : \E l \in Running : u \in Part(l)
           /\ \A k, l \in Running : k # l => Part(k) \cap Part(l) = {}
  <1>0. NUtts \in Nat \ {0} /\ Shards = 1..opts.shards /\ opts.shards \in Nat
    BY SettingShape
  <1>1. CASE Serial
    <2>1. Running = {0} /\ First(0) = 1 /\ Last(0) = NUtts
      BY <1>1 DEF Running, First, Last
    <2> QED
      BY <1>0, <2>1 DEF Part, Utts
  <1>2. CASE ~Serial
    <2>1. Running = Shards
      BY <1>2 DEF Running
    <2>2. \A l \in Shards : /\ First(l) \in Nat \ {0} /\ Last(l) \in Nat
                            /\ First(l) <= Last(l) + 1 /\ Last(l) <= NUtts
      BY Ends
    <2>3. \A l \in Shards : Part(l) \in SUBSET Utts
      BY <1>0, <2>2 DEF Part, Utts
    <2>4. \A k, l \in Shards : k # l => Part(k) \cap Part(l) = {}
      <3> SUFFICES ASSUME NEW k \in Shards, NEW l \in Shards, k < l
                   PROVE  Part(k) \cap Part(l) = {}
        BY <1>0
      <3>1. Last(k) < First(l) /\ Last(k) \in Nat /\ First(l) \in Nat
        BY <2>2, ShardsInOrder
      <3> QED
        BY <2>2, <3>1 DEF Part
    <2> QED
      BY <2>1, <2>2, <2>3, <2>4, ShardsCover
  <1> QED
    BY <1>1, <1>2

-------------------------------------------------------------------------------
(* Types.                                                                  *)

LEMMA VerdictShape ==
    ASSUME TypeOK, NEW u \in Utts
    PROVE  /\ nature[u].from \in Nat
           /\ nature[u].end \in {"aligns", "fails", "raises", "absent", "short"}
           /\ nature[u].end \in {"absent", "short"} => nature[u].from = 0
  <1>1. nature[u] \in Verdict
    BY SettingShape DEF TypeOK
  <1> QED
    BY <1>1 DEF Verdict

LEMMA SumShape ==
    /\ Nobody \in [Utts -> Nat]
    /\ \A u \in Utts : Only(u) \in [Utts -> Nat]
    /\ \A a, b \in [Utts -> Nat] : Plus(a, b) \in [Utts -> Nat]
    /\ \A us : Once(us) \in [Utts -> Nat]
  BY DEF Nobody, Only, Plus, Once

LEMMA InitType == Init => TypeOK
  <1> SUFFICES ASSUME Init PROVE TypeOK
    OBVIOUS
  <1>1. opts \in Settings
    BY DEF Init
  <1> QED
    BY <1>1, SettingShape, SumShape, ConstantsAssumption
    DEF Init, TypeOK, Lines, Workers, Up, Outcomes, File

\* What an attempt does to the sums of a session.
LEMMA AttemptShape ==
    ASSUME TypeOK, NEW l \in Lines, NEW u \in Utts, NEW result,
           Attempt(l, u, result)
    PROVE  /\ local' \in [Lines -> [Utts -> Nat]]
           /\ acc' = IF result = "aligns"
                       THEN [acc EXCEPT ![l] = Plus(acc[l], Only(u))] ELSE acc
           /\ acc' \in [Lines -> [Utts -> Nat]]
  <1>1. /\ local \in [Lines -> [Utts -> Nat]] /\ acc \in [Lines -> [Utts -> Nat]]
        /\ Only(u) \in [Utts -> Nat] /\ Plus(acc[l], Only(u)) \in [Utts -> Nat]
    BY SumShape DEF TypeOK
  <1>2. CASE result = "aligns"
    <2>1. /\ local' = [local EXCEPT ![l] = Only(u)]
          /\ acc' = [acc EXCEPT ![l] = Plus(@, local'[l])]
      BY <1>2 DEF Attempt
    <2> QED
      BY <1>1, <1>2, <2>1
  <1>3. CASE result # "aligns"
    BY <1>1, <1>3 DEF Attempt
  <1> QED
    BY <1>2, <1>3

LEMMA SettleShape ==
    ASSUME TypeOK, NEW l \in Lines, NEW u \in Utts, NEW o, Settle(l, u, o)
    PROVE  /\ outcome'[u] = o
           /\ \A v \in Utts \ {u} : outcome'[v] = outcome[v]
           /\ at'[l] = at[l] + 1 /\ rung'[l] = 0 /\ line'[l] = "next"
           /\ at' = [at EXCEPT ![l] = at'[l]] /\ rung' = [rung EXCEPT ![l] = 0]
           /\ line' = [line EXCEPT ![l] = "next"]
           /\ at' \in [Lines -> Nat] /\ rung' \in [Lines -> Nat]
           /\ line' \in [Lines -> {"queued", "next", "climb", "done",
                                   "raised", "lost"}]
           /\ outcome' = [outcome EXCEPT ![u] = o]
           /\ o \in Outcomes => outcome' \in [Utts -> Outcomes]
  <1>1. /\ outcome' = [outcome EXCEPT ![u] = o]
        /\ at' = [at EXCEPT ![l] = at[l] + 1] /\ rung' = [rung EXCEPT ![l] = 0]
        /\ line' = [line EXCEPT ![l] = "next"]
    BY DEF Settle
  <1>2. /\ outcome \in [Utts -> Outcomes] /\ at \in [Lines -> Nat]
        /\ rung \in [Lines -> Nat]
        /\ line \in [Lines -> {"queued", "next", "climb", "done", "raised", "lost"}]
    BY DEF TypeOK
  <1>3. /\ outcome'[u] = o /\ (o \in Outcomes => outcome' \in [Utts -> Outcomes])
        /\ \A v \in Utts \ {u} : outcome'[v] = outcome[v]
    BY <1>1, <1>2
  <1>4. at'[l] = at[l] + 1 /\ at' \in [Lines -> Nat]
    BY <1>1, <1>2
  <1>5. rung'[l] = 0 /\ rung' \in [Lines -> Nat]
    BY <1>1, <1>2
  <1>6. /\ line'[l] = "next"
        /\ line' \in [Lines -> {"queued", "next", "climb", "done", "raised", "lost"}]
    BY <1>1, <1>2
  <1> QED
    BY <1>1, <1>3, <1>4, <1>5, <1>6

-------------------------------------------------------------------------------
(* What a step of a line comes to.                                         *)

Counts(o) == o \in {"processed", "retried"}

\* It settles its utterance: as the reference does, or because its helper died.
SettlesOne(l, o) ==
    /\ line[l] \in {"next", "climb"} /\ at[l] \in Part(l)
    /\ o \in Outcomes \ {"none"}
    /\ Settle(l, at[l], o)
    /\ acc' = IF Counts(o) THEN [acc EXCEPT ![l] = Plus(acc[l], Only(at[l]))]
                           ELSE acc
    /\ beam' = [beam EXCEPT ![l] = 0]
    /\ \/ alive' = alive /\ (alive[l] => o = Reference(at[l]))
       \/ ~Pooled /\ alive' = [k \in Lines |-> FALSE]

\* Or it goes on to the next rung.
ClimbsOn(l, r) ==
    /\ line[l] \in {"next", "climb"} /\ at[l] \in Part(l) /\ r \in Nat
    /\ line' = [line EXCEPT ![l] = "climb"]
    /\ rung' = [rung EXCEPT ![l] = r] /\ beam' = [beam EXCEPT ![l] = r]
    /\ UNCHANGED <<outcome, at, acc, alive>>
    /\ opts.policy = "recover" /\ r < opts.rungs /\ r < nature[at[l]].from
    /\ nature[at[l]].end \in {"aligns", "fails", "raises"}

\* Or the line is over.
Stops(l) ==
    /\ line[l] = "next"
    /\ \/ line' = [line EXCEPT ![l] = "raised"]
       \/ /\ line' = [line EXCEPT ![l] = "done"]
          /\ at[l] = Last(l) + 1 /\ alive[l]
    /\ UNCHANGED <<outcome, at, rung, beam, acc, alive>>

LEMMA BusyRuns ==
    ASSUME Safe, NEW l \in Lines, Busy(l)
    PROVE  l \in Running
  BY SettingShape DEF Safe, TypeOK, PoolIsKept, Busy

\* An utterance a line is on is one of its own.
LEMMA OnLine ==
    ASSUME Safe, NEW l \in Running, line[l] \in {"next", "climb"}
    PROVE  /\ opts \in Settings /\ l \in Lines /\ at[l] \in Nat /\ Last(l) \in Nat
           /\ at[l] <= Last(l) + 1
           /\ at[l] <= Last(l) => at[l] \in Part(l) /\ at[l] \in Utts
  <1>1. opts \in Settings /\ at[l] \in First(l)..(Last(l) + 1) /\ l \in Lines
    BY SettingShape DEF Safe, TypeOK, LineIsAccounted, Reached
  <1>2. at[l] <= Last(l) => at[l] \in Part(l)
    BY <1>1, Partition DEF Part
  <1> QED
    BY <1>1, <1>2, Partition

LEMMA OmitShape ==
    ASSUME Safe, NEW l \in Running, Omit(l), UNCHANGED alive
    PROVE  SettlesOne(l, "skipped") /\ local' \in [Lines -> [Utts -> Nat]]
  <1>1. at[l] \in Part(l) /\ at[l] \in Utts /\ TypeOK
    BY OnLine DEF Omit, Safe
  <1>2. alive[l] => Reference(at[l]) = "skipped"
    BY DEF Omit, Reference
  <1>3. beam[l] = 0 /\ beam \in [Lines -> Nat] /\ l \in Lines
    BY <1>1, SettingShape DEF Safe, TypeOK, LadderIsKept, Omit
  <1> QED
    BY <1>1, <1>2, <1>3 DEF Omit, SettlesOne, Outcomes, Counts, TypeOK

LEMMA NominalShape ==
    ASSUME Safe, NEW l \in Running, Nominal(l), UNCHANGED alive
    PROVE  /\ \/ \E o \in Outcomes : SettlesOne(l, o)
              \/ ClimbsOn(l, 0) \/ Stops(l)
           /\ local' \in [Lines -> [Utts -> Nat]]
  <1> DEFINE u == at[l]
             result == Result(u, 0)
  <1>1. /\ u \in Part(l) /\ u \in Utts /\ TypeOK
        /\ l \in Lines /\ line[l] = "next" /\ alive[l]
        /\ nature[u].end # "absent"
    BY OnLine DEF Nominal, Safe
  <1>2. beam[l] = 0 /\ rung[l] = 0 /\ UNCHANGED beam
        /\ beam' = [beam EXCEPT ![l] = 0]
        /\ rung = [rung EXCEPT ![l] = 0]
    BY <1>1 DEF Safe, TypeOK, LadderIsKept, Nominal
  <1>3. Attempt(l, u, result)
    BY <1>2 DEF Nominal
  <1>4. /\ nature[u].from \in Nat
        /\ nature[u].end \in {"aligns", "fails", "raises", "short"}
        /\ nature[u].end = "short" => nature[u].from = 0
        /\ result = IF nature[u].end = "short" \/ nature[u].from # 0
                      THEN "pruned" ELSE nature[u].end
        /\ opts.policy \in {"recover", "abort", "omit"} /\ opts.rungs \in Nat
    <2>1. opts \in Settings
      BY <1>1 DEF TypeOK
    <2>2. /\ nature[u].from \in Nat
          /\ nature[u].end \in {"aligns", "fails", "raises", "absent", "short"}
          /\ nature[u].end \in {"absent", "short"} => nature[u].from = 0
      BY <1>1, VerdictShape
    <2> QED
      BY <1>1, <2>1, <2>2, SettingShape DEF Result
  <1>5. /\ local' \in [Lines -> [Utts -> Nat]]
        /\ acc' = IF result = "aligns"
                    THEN [acc EXCEPT ![l] = Plus(acc[l], Only(u))] ELSE acc
    BY <1>1, <1>3, AttemptShape
  <1>6. ASSUME NEW o \in Outcomes \ {"none"}, Settle(l, u, o), o = Reference(u),
               Counts(o) <=> result = "aligns"
        PROVE  SettlesOne(l, o)
    BY <1>1, <1>2, <1>5, <1>6 DEF SettlesOne
  <1> HIDE DEF result
  <1>7. CASE result = "aligns"
    <2>1. Settle(l, u, "processed")
      BY <1>2, <1>7 DEF Nominal, result
    <2>2. Reference(u) = "processed"
      BY <1>4, <1>7 DEF Reference
    <2> QED
      BY <1>5, <1>6, <1>7, <2>1, <2>2 DEF Outcomes, Counts
  <1>8. CASE result # "aligns"
    <2>1. \/ Reference(u) = "skipped"
          \/ /\ nature[u].end = "aligns" /\ nature[u].from # 0
             /\ opts.policy = "recover" /\ opts.rungs > 0
      BY <1>4, <1>8 DEF Reference
    <2>2. \/ /\ Settle(l, u, "skipped")
             /\ opts.policy = "recover" /\ opts.rungs > 0 =>
                  result # "pruned" \/ nature[u].end = "short"
          \/ line' = [line EXCEPT ![l] = "raised"] /\ UNCHANGED <<outcome, at, rung>>
          \/ /\ line' = [line EXCEPT ![l] = "climb"] /\ UNCHANGED <<outcome, at, rung>>
             /\ opts.policy = "recover" /\ opts.rungs > 0
             /\ result = "pruned" /\ nature[u].end # "short"
      <3> DEFINE Raised == /\ line' = [line EXCEPT ![l] = "raised"]
                           /\ UNCHANGED <<outcome, at, rung>>
      <3>1. CASE result = "raises"
        <4>1. Settle(l, u, "skipped")
          BY <1>2, <3>1 DEF Nominal, result
        <4> QED
          BY <3>1, <4>1
      <3>2. CASE result = "fails"
        <4>1. Settle(l, u, "skipped") \/ Raised
          BY <1>2, <3>2 DEF Nominal, Terminal, result
        <4> QED
          BY <3>2, <4>1
      <3>3. CASE result = "pruned" /\ nature[u].end = "short"
        <4>1. Settle(l, u, "skipped") \/ Raised
          BY <1>2, <3>3 DEF Nominal, Terminal, result
        <4> QED
          BY <3>3, <4>1
      <3>4. CASE result = "pruned" /\ nature[u].end # "short"
        <4>0. opts.rungs # 0 <=> opts.rungs > 0
          BY <1>4
        <4>1. CASE opts.policy = "recover" /\ opts.rungs > 0
          <5>1. line' = [line EXCEPT ![l] = "climb"] /\ UNCHANGED <<outcome, at, rung>>
            BY <1>2, <3>4, <4>0, <4>1 DEF Nominal, result
          <5> QED
            BY <3>4, <4>1, <5>1
        <4>2. CASE ~(opts.policy = "recover" /\ opts.rungs > 0)
          <5>1. Settle(l, u, "skipped") \/ Raised
            BY <1>2, <1>4, <3>4, <4>0, <4>2, Zenon DEF Nominal, Terminal, result
          <5> QED
            BY <4>2, <5>1
        <4> QED
          BY <4>1, <4>2
      <3> QED
        BY <1>4, <1>8, <3>1, <3>2, <3>3, <3>4
    <2>3. CASE /\ Settle(l, u, "skipped")
               /\ opts.policy = "recover" /\ opts.rungs > 0 =>
                    result # "pruned" \/ nature[u].end = "short"
      <3>1. Reference(u) = "skipped"
        BY <1>4, <2>1, <2>3
      <3> QED
        BY <1>5, <1>6, <1>8, <2>3, <3>1 DEF Outcomes, Counts
    <2>4. CASE line' = [line EXCEPT ![l] = "raised"] /\ UNCHANGED <<outcome, at, rung>>
      BY <1>1, <1>2, <1>5, <1>8, <2>4 DEF Stops
    <2>5. CASE /\ line' = [line EXCEPT ![l] = "climb"] /\ UNCHANGED <<outcome, at, rung>>
               /\ opts.policy = "recover" /\ opts.rungs > 0
               /\ result = "pruned" /\ nature[u].end # "short"
      <3>1. ClimbsOn(l, 0)
        <4>1. nature[u].from # 0 /\ nature[u].end \in {"aligns", "fails", "raises"}
          BY <1>4, <2>5
        <4>2. acc' = acc /\ rung' = [rung EXCEPT ![l] = 0]
          BY <1>2, <1>5, <1>8, <2>5
        <4>3. 0 < nature[u].from /\ 0 < opts.rungs
          BY <1>4, <2>5, <4>1
        <4> QED
          BY <1>1, <1>2, <2>5, <4>1, <4>2, <4>3 DEF ClimbsOn
      <3> QED
        BY <1>5, <3>1
    <2> QED
      BY <2>2, <2>3, <2>4, <2>5
  <1> QED
    BY <1>7, <1>8

LEMMA ClimbShape ==
    ASSUME Safe, NEW l \in Running, Climb(l), UNCHANGED alive
    PROVE  /\ \/ \E o \in Outcomes : SettlesOne(l, o)
              \/ ClimbsOn(l, rung[l] + 1)
           /\ local' \in [Lines -> [Utts -> Nat]]
  <1> DEFINE u == at[l]
             r == rung[l] + 1
             result == Result(u, r)
  <1>1. /\ line[l] = "climb" /\ TypeOK /\ l \in Lines
        /\ u \in Part(l) /\ u \in Utts
        /\ opts.policy = "recover" /\ rung[l] < opts.rungs
        /\ rung[l] < nature[u].from /\ nature[u].end \in {"aligns", "fails", "raises"}
    BY OnLine, SettingShape DEF Climb, Safe, TypeOK, LadderIsKept
  <1>2. /\ nature[u].from \in Nat /\ rung[l] \in Nat /\ opts.rungs \in Nat
        /\ result = IF r < nature[u].from THEN "pruned" ELSE nature[u].end
    BY <1>1, VerdictShape, SettingShape DEF Result, TypeOK
  <1>3. /\ local' \in [Lines -> [Utts -> Nat]]
        /\ acc' = IF result = "aligns"
                    THEN [acc EXCEPT ![l] = Plus(acc[l], Only(u))] ELSE acc
    BY <1>1, AttemptShape DEF Climb
  <1>4. line = [line EXCEPT ![l] = "climb"]
    BY <1>1 DEF TypeOK
  <1> HIDE DEF result
  <1>5. CASE result = "pruned" /\ r < opts.rungs
    <2>1. /\ rung' = [rung EXCEPT ![l] = r] /\ beam' = [beam EXCEPT ![l] = r]
          /\ UNCHANGED <<outcome, at, line>>
      BY <1>5 DEF Climb, result
    <2> QED
      BY <1>1, <1>2, <1>3, <1>4, <1>5, <2>1 DEF ClimbsOn
  <1>6. CASE ~(result = "pruned" /\ r < opts.rungs)
    <2> DEFINE o == IF result = "aligns" THEN "retried" ELSE "skipped"
    <2>1. Settle(l, u, o) /\ beam' = [beam EXCEPT ![l] = 0]
      BY <1>6 DEF Climb, Restore, result
    <2>2. o = Reference(u)
      BY <1>1, <1>2, <1>6 DEF Reference
    <2>3. SettlesOne(l, o)
      BY <1>1, <1>3, <2>1, <2>2 DEF SettlesOne, Outcomes, Counts
    <2> QED
      BY <1>3, <2>3 DEF Outcomes
  <1> QED
    BY <1>5, <1>6

\* A step of a line is one of these, whichever action it was.
LEMMA LineStepShape ==
    ASSUME Safe, NEW l \in Lines, LineStep(l)
    PROVE  /\ l \in Running
           /\ \/ \E o \in Outcomes : SettlesOne(l, o)
              \/ \E r \in Nat : ClimbsOn(l, r)
              \/ Stops(l)
           /\ local' \in [Lines -> [Utts -> Nat]]
           /\ crashes' \in 0..MaxCrashes
           /\ UNCHANGED <<phase, run, merge, store, submitted, worker, job>>
  <1>1. l \in Running
    BY BusyRuns DEF LineStep
  <1>2. UNCHANGED <<phase, run, merge, store, submitted, worker, job>>
    BY DEF LineStep, HelperDies, pool
  <1>3. TypeOK /\ rung[l] \in Nat
    BY SettingShape, <1>1 DEF Safe, TypeOK
  <1>4. CASE UNCHANGED <<alive, pool>> /\ InUtterance(l)
    BY <1>1, <1>2, <1>3, <1>4, OmitShape, NominalShape, ClimbShape
    DEF InUtterance, pool, TypeOK, Outcomes
  <1>5. CASE UNCHANGED <<alive, pool>> /\ (EndLine(l) \/ BreakLine(l))
    <2>1. line[l] = "next" /\ at[l] <= Last(l) + 1 /\ at[l] \in Nat /\ Last(l) \in Nat
      BY <1>1, <1>5, OnLine DEF EndLine, BreakLine
    <2>2. Stops(l)
      BY <1>5, <2>1 DEF EndLine, BreakLine, Stops
    <2> QED
      BY <1>1, <1>2, <1>3, <1>5, <2>2 DEF EndLine, BreakLine, pool, TypeOK
  <1>6. CASE HelperDies(l)
    <2>0. at[l] \in Part(l)
      BY <1>1, <1>6, OnLine DEF HelperDies
    <2>1. SettlesOne(l, "skipped")
      BY <1>6, <2>0 DEF HelperDies, SettlesOne, Restore, Outcomes, Counts
    <2> QED
      BY <1>1, <1>2, <1>3, <1>6, <2>1, ConstantsAssumption
      DEF HelperDies, TypeOK, Outcomes
  <1> QED
    BY <1>4, <1>5, <1>6 DEF LineStep

-------------------------------------------------------------------------------
(* Types are preserved.                                                    *)

\* The type invariant by the parts that change together.
Phase == {"start", "work", "reaping", "merge", "account", "retain"}
           \cup Saving \cup Ended
RunTypes == opts \in Settings /\ pass \in 1..NIter /\ nature \in [Utts -> opts.verdicts]
SessionTypes ==
    /\ line \in [Lines -> {"queued", "next", "climb", "done", "raised", "lost"}]
    /\ at \in [Lines -> Nat] /\ rung \in [Lines -> Nat] /\ beam \in [Lines -> Nat]
    /\ alive \in [Lines -> BOOLEAN]
    /\ local \in [Lines -> [Utts -> Nat]] /\ acc \in [Lines -> [Utts -> Nat]]
PoolTypes ==
    /\ submitted \in 0..MaxShards /\ crashes \in 0..MaxCrashes
    /\ worker \in [Workers -> {"none", "gone"} \cup Up]
    /\ job \in [Workers -> Lines]
MergeTypes ==
    /\ merged \in 0..MaxShards
    /\ sum \in [Utts -> Nat] /\ update \in [Utts -> Nat] /\ staged \in [Utts -> Nat]
StoreTypes ==
    /\ trail \in Seq(Likelihoods) /\ history \in Seq([Utts -> Nat])
    /\ row \in {"none", "continued", "converged", "cap", "failed"}
    /\ files \in [File -> [Utts -> Nat]] /\ backup \in [File -> [Utts -> Nat]]

LEMMA TypeParts ==
    TypeOK <=> /\ phase \in Phase /\ RunTypes /\ outcome \in [Utts -> Outcomes]
               /\ SessionTypes /\ PoolTypes /\ MergeTypes /\ StoreTypes
  BY DEF TypeOK, Phase, RunTypes, SessionTypes, PoolTypes, MergeTypes, StoreTypes

LEMMA TypeOfParts ==
    ASSUME (phase \in Phase)', RunTypes', (outcome \in [Utts -> Outcomes])',
           SessionTypes', PoolTypes', MergeTypes', StoreTypes'
    PROVE  TypeOK'
  BY DEF TypeOK, Phase, RunTypes, SessionTypes, PoolTypes, MergeTypes, StoreTypes

LEMMA TypeFrames ==
    ASSUME TypeOK
    PROVE  /\ UNCHANGED phase => (phase \in Phase)'
           /\ UNCHANGED run => RunTypes'
           /\ UNCHANGED outcome => (outcome \in [Utts -> Outcomes])'
           /\ UNCHANGED session => SessionTypes'
           /\ UNCHANGED pool => PoolTypes'
           /\ UNCHANGED merge => MergeTypes'
           /\ UNCHANGED store => StoreTypes'
  BY TypeParts DEF run, session, pool, merge, store, RunTypes, SessionTypes,
     PoolTypes, MergeTypes, StoreTypes, Outcomes

LEMMA CountShape ==
    ASSUME TypeOK
    PROVE  /\ MaxShards \in Nat \ {0} /\ NIter \in Nat \ {0} /\ 0 \in Lines
           /\ Lines = 0..MaxShards /\ Workers = 1..MaxShards
           /\ submitted \in Nat /\ submitted <= MaxShards
           /\ merged \in Nat /\ merged <= MaxShards
           /\ pass \in Nat \ {0} /\ pass <= NIter
  BY ConstantsAssumption DEF TypeOK, Lines, Workers

LEMMA LineStepType ==
    ASSUME Safe, NEW l \in Lines, LineStep(l)
    PROVE  TypeOK'
  <1>1. TypeOK /\ l \in Running /\ local' \in [Lines -> [Utts -> Nat]]
        /\ crashes' \in 0..MaxCrashes
        /\ UNCHANGED <<phase, run, merge, store, submitted, worker, job>>
    BY LineStepShape DEF Safe
  <1> DEFINE Typed == /\ outcome' \in [Utts -> Outcomes]
                      /\ line' \in [Lines -> {"queued", "next", "climb", "done",
                                              "raised", "lost"}]
                      /\ at' \in [Lines -> Nat] /\ rung' \in [Lines -> Nat]
                      /\ beam' \in [Lines -> Nat] /\ alive' \in [Lines -> BOOLEAN]
                      /\ acc' \in [Lines -> [Utts -> Nat]]
  <1>2. SUFFICES Typed
    BY <1>1 DEF TypeOK, run, merge, store
  <1>3. ASSUME NEW o \in Outcomes, SettlesOne(l, o) PROVE Typed
    <2>1. /\ outcome' \in [Utts -> Outcomes] /\ at' \in [Lines -> Nat]
          /\ rung' \in [Lines -> Nat]
          /\ line' \in [Lines -> {"queued", "next", "climb", "done",
                                  "raised", "lost"}]
      <3>1. /\ outcome \in [Utts -> Outcomes] /\ at \in [Lines -> Nat]
            /\ rung \in [Lines -> Nat]
            /\ line \in [Lines -> {"queued", "next", "climb", "done",
                                   "raised", "lost"}]
        BY <1>1 DEF TypeOK
      <3>2. /\ outcome' = [outcome EXCEPT ![at[l]] = o]
            /\ at' = [at EXCEPT ![l] = at[l] + 1] /\ rung' = [rung EXCEPT ![l] = 0]
            /\ line' = [line EXCEPT ![l] = "next"]
        BY <1>3 DEF SettlesOne, Settle
      <3>3. at[l] + 1 \in Nat
        BY <3>1
      <3>4. outcome' \in [Utts -> Outcomes] /\ at' \in [Lines -> Nat]
        BY <3>1, <3>2, <3>3
      <3>5. rung' \in [Lines -> Nat]
        BY <3>1, <3>2
      <3>6. line' \in [Lines -> {"queued", "next", "climb", "done",
                                 "raised", "lost"}]
        BY <3>1, <3>2
      <3> QED
        BY <3>4, <3>5, <3>6
    <2>2. acc' \in [Lines -> [Utts -> Nat]]
      <3>1. Plus(acc[l], Only(at[l])) \in [Utts -> Nat]
        <4>1. acc[l] \in [Utts -> Nat]
          BY <1>1 DEF TypeOK
        <4>2. Only(at[l]) \in [Utts -> Nat]
          BY DEF Only
        <4> QED
          BY <4>1, <4>2 DEF Plus
      <3> QED
        BY <1>1, <1>3, <3>1 DEF SettlesOne, TypeOK
    <2> QED
      BY <1>1, <1>3, <2>1, <2>2 DEF SettlesOne, TypeOK
  <1>4. ASSUME NEW r \in Nat, ClimbsOn(l, r) PROVE Typed
    BY <1>1, <1>4 DEF ClimbsOn, TypeOK
  <1>5. ASSUME Stops(l) PROVE Typed
    BY <1>1, <1>5 DEF Stops, TypeOK
  <1> QED
    BY <1>3, <1>4, <1>5, LineStepShape

LEMMA GoneShape ==
    ASSUME TypeOK, NEW ws \in SUBSET Workers, Gone(ws)
    PROVE  /\ worker' \in [Workers -> {"none", "gone"} \cup Up]
           /\ job' \in [Workers -> Lines]
           /\ line' \in [Lines -> {"queued", "next", "climb", "done",
                                   "raised", "lost"}]
           /\ \A w \in Workers : worker'[w] \in {worker[w], "gone"}
           /\ \A w \in Workers : worker'[w] = "busy" => job'[w] = job[w]
           /\ \A w \in ws : worker'[w] = "gone"
           /\ \A l \in Lines : line'[l] \in {line[l], "lost"}
  <1>1. 0 \in Lines
    BY ConstantsAssumption DEF Lines
  <1> QED
    BY <1>1 DEF Gone, TypeOK

LEMMA FreshShape ==
    ASSUME TypeOK, NEW l \in Shards, Fresh(l)
    PROVE  /\ at' \in [Lines -> Nat] /\ alive' \in [Lines -> BOOLEAN]
           /\ line' \in [Lines -> {"queued", "next", "climb", "done",
                                   "raised", "lost"}]
  <1>1. First(l) \in Nat /\ l \in Lines
    BY Ends, SettingShape DEF TypeOK
  <1> QED
    BY <1>1 DEF Fresh, TypeOK

LEMMA PoolType ==
    ASSUME Safe,
           \/ Submit \/ TerminateBroken
           \/ \E w \in Workers : Take(w) \/ Answer(w) \/ WorkerDies(w)
                                 \/ WatchExit(w) \/ Kill(w)
    PROVE  TypeOK'
  <1>0. TypeOK /\ opts \in Settings /\ submitted <= opts.shards
    BY DEF Safe, TypeOK, PoolIsKept
  <1>1. CASE Submit
    <2>1. submitted' \in 0..MaxShards
      BY <1>0, <1>1, SettingShape, ConstantsAssumption
      DEF Submit, MaySubmit, TypeOK, Workers
    <2>2. worker' \in [Workers -> {"none", "gone"} \cup Up]
      BY <1>0, <1>1 DEF Submit, TypeOK, Up
    <2>3. PoolTypes'
      BY <1>0, <1>1, <2>1, <2>2 DEF Submit, TypeOK, PoolTypes
    <2> QED
      BY <1>0, <1>1, <2>3, TypeOfParts, TypeFrames DEF Submit
  <1>2. CASE TerminateBroken
    <2>1. 0 \in Lines
      BY ConstantsAssumption DEF Lines
    <2> QED
      BY <1>0, <1>2, <2>1 DEF TerminateBroken, TypeOK, run, merge, store
  <1>3. ASSUME NEW w \in Workers, Take(w) PROVE TypeOK'
    <2>1. PICK l \in 1..submitted : /\ worker' = [worker EXCEPT ![w] = "busy"]
                                    /\ job' = [job EXCEPT ![w] = l] /\ Fresh(l)
      BY <1>3 DEF Take
    <2>2. l \in Shards /\ l \in Lines
      BY <1>0, CountShape, SettingShape
    <2>3. SessionTypes'
      BY <1>0, <2>1, <2>2, FreshShape DEF Fresh, TypeOK, SessionTypes
    <2>4. PoolTypes'
      BY <1>0, <1>3, <2>1, <2>2 DEF Take, TypeOK, PoolTypes, Up
    <2> QED
      BY <1>0, <1>3, <2>3, <2>4, TypeOfParts, TypeFrames DEF Take
  <1>4. ASSUME NEW w \in Workers, Answer(w) PROVE TypeOK'
    <2>1. 0 \in Lines
      BY ConstantsAssumption DEF Lines
    <2> QED
      BY <1>0, <1>4, <2>1 DEF Answer, TypeOK, run, session, merge, store, Up
  <1>5. ASSUME NEW w \in Workers, WorkerDies(w) \/ WatchExit(w) \/ Kill(w) PROVE TypeOK'
    <2>1. Gone({w}) /\ crashes' \in 0..MaxCrashes
      <3>1. crashes \in 0..MaxCrashes /\ MaxCrashes \in Nat
        BY <1>0, ConstantsAssumption DEF TypeOK
      <3>2. Gone({w})
        BY <1>5 DEF WorkerDies, WatchExit, Kill
      <3>3. crashes' = crashes \/ (crashes < MaxCrashes /\ crashes' = crashes + 1)
        BY <1>5 DEF WorkerDies, WatchExit, Kill
      <3> QED
        BY <3>1, <3>2, <3>3
    <2>2. /\ worker' \in [Workers -> {"none", "gone"} \cup Up]
          /\ job' \in [Workers -> Lines]
          /\ line' \in [Lines -> {"queued", "next", "climb", "done",
                                   "raised", "lost"}]
      BY <1>0, <2>1, GoneShape
    <2> QED
      BY <1>0, <1>5, <2>1, <2>2
      DEF WorkerDies, WatchExit, Kill, TypeOK, run, merge, store
  <1> QED
    BY <1>1, <1>2, <1>3, <1>4, <1>5

LEMMA CoordinatorType ==
    ASSUME Safe,
           \/ Begin \/ EndSerial \/ EndShards \/ MergeShard \/ EndMerge \/ Fail
           \/ Reaped \/ Raise \/ Killed
    PROVE  TypeOK'
  <1>0. TypeOK /\ opts \in Settings
    BY DEF Safe, TypeOK
  <1>1. CASE Begin
    <2>1. \A l \in Running : First(l) \in Nat
      BY <1>0, Partition
    <2>2. at' \in [Lines -> Nat]
      BY <1>1, <2>1 DEF Begin
    <2> QED
      BY <1>0, <1>1, <2>2 DEF Begin, TypeOK, run, pool, merge, store
  <1>2. CASE EndSerial
    <2>1. 0 \in Lines
      BY ConstantsAssumption DEF Lines
    <2> QED
      BY <1>0, <1>2, <2>1 DEF EndSerial, TypeOK, run, session, pool, store
  <1>3. CASE EndShards
    <2>1. /\ worker' \in [Workers -> {"none", "gone"} \cup Up]
          /\ job' \in [Workers -> Lines]
          /\ line' \in [Lines -> {"queued", "next", "climb", "done",
                                   "raised", "lost"}]
      BY <1>0, <1>3, GoneShape DEF EndShards
    <2> QED
      BY <1>0, <1>3, <2>1 DEF EndShards, TypeOK, run, merge, store
  <1>4. CASE MergeShard
    <2>1. merged + 1 \in Lines /\ merged' \in 0..MaxShards
      BY <1>0, <1>4, CountShape, SettingShape DEF MergeShard
    <2>2. sum' \in [Utts -> Nat]
      BY <1>0, <1>4, <2>1, SumShape DEF MergeShard, TypeOK
    <2>3. MergeTypes'
      BY <1>0, <1>4, <2>1, <2>2 DEF MergeShard, TypeOK, MergeTypes
    <2> QED
      BY <1>0, <1>4, <2>3, TypeOfParts, TypeFrames DEF MergeShard
  <1>5. CASE EndMerge \/ Fail \/ Reaped \/ Raise \/ Killed
    BY <1>0, <1>5
    DEF EndMerge, Fail, Reaped, Raise, Killed, GiveUp, TypeOK, run, session, pool,
        merge, store, Ended
  <1> QED
    BY <1>1, <1>2, <1>3, <1>4, <1>5

LEMMA PublishingType ==
    ASSUME Safe,
           \/ Account \/ SaveCounts \/ Normalize \/ SaveParameters
           \/ InstallParameters \/ InstallCounts \/ SaveFails \/ EndPass
    PROVE  TypeOK'
  <1>0. TypeOK
    BY DEF Safe
  <1>1. CASE Account
    <2>1. row' \in {"none", "continued", "converged", "cap", "failed"}
      BY <1>1 DEF Account
    <2>2. trail' \in Seq(Likelihoods)
      <3>1. trail \in Seq(Likelihoods)
        BY <1>0 DEF TypeOK
      <3>2. \/ trail' = trail
            \/ \E likelihood \in Likelihoods : trail' = Append(trail, likelihood)
        BY <1>1 DEF Account
      <3> QED
        BY <3>1, <3>2
    <2>3. StoreTypes'
      BY <1>0, <1>1, <2>1, <2>2 DEF Account, TypeOK, StoreTypes
    <2>4. phase' \in Phase
      BY <1>1 DEF Account, Phase, Saving, Ended
    <2> QED
      BY <1>0, <1>1, <2>3, <2>4, TypeOfParts, TypeFrames DEF Account
  <1>2. CASE SaveCounts \/ Normalize \/ InstallParameters \/ SaveFails
    <2>0. MergeTypes /\ StoreTypes
      BY <1>0, TypeParts
    <2>1. phase' \in Phase
      BY <1>2 DEF SaveCounts, Normalize, InstallParameters, SaveFails, Phase, Saving,
                  Ended
    <2>2. MergeTypes'
      BY <1>2, <2>0, SumShape
      DEF SaveCounts, Normalize, InstallParameters, SaveFails, MergeTypes, merge
    <2>3. StoreTypes'
      BY <1>2, <2>0
      DEF SaveCounts, Normalize, InstallParameters, SaveFails, Rollback, MergeTypes,
          StoreTypes, File, store
    <2>4. UNCHANGED <<run, outcome, session, pool>>
      BY <1>2 DEF SaveCounts, Normalize, InstallParameters, SaveFails
    <2> QED
      BY <1>0, <2>1, <2>2, <2>3, <2>4, TypeOfParts, TypeFrames
  <1>3. CASE SaveParameters \/ InstallCounts
    <2>1. history' \in Seq([Utts -> Nat])
      <3>1. history \in Seq([Utts -> Nat]) /\ update \in [Utts -> Nat]
        BY <1>0 DEF TypeOK
      <3>2. history' = history \/ history' = Append(history, update)
        BY <1>3 DEF SaveParameters, InstallCounts
      <3>3. Append(history, update) \in Seq([Utts -> Nat])
        <4> HIDE DEF Utts
        <4> QED
          BY <3>1
      <3> QED
        BY <3>1, <3>2, <3>3
    <2>2. files' \in [File -> [Utts -> Nat]]
      BY <1>0, <1>3 DEF SaveParameters, InstallCounts, TypeOK, File
    <2>3. StoreTypes'
      BY <1>0, <1>3, <2>1, <2>2 DEF SaveParameters, InstallCounts, TypeOK, StoreTypes
    <2>4. phase' \in Phase /\ UNCHANGED <<run, outcome, session, pool, merge>>
      BY <1>3 DEF SaveParameters, InstallCounts, Phase, Saving
    <2> QED
      BY <1>0, <2>3, <2>4, TypeOfParts, TypeFrames
  <1>4. CASE EndPass
    <2>1. phase' \in {"converged", "cap", "start"} /\ UNCHANGED store
      BY <1>4 DEF EndPass
    <2>2. CASE phase' # "start"
      BY <1>0, <1>4, <2>1, <2>2
      DEF EndPass, TypeOK, run, session, pool, merge, store, Ended
    <2>3. CASE phase' = "start"
      <3>1. pass < NIter
        BY <1>0, <1>4, <2>3, ConstantsAssumption DEF EndPass, TypeOK
      <3>2. /\ pass' = pass + 1 /\ nature' \in [Utts -> opts.verdicts]
            /\ outcome' = [u \in Utts |-> "none"]
            /\ line' = [l \in Lines |-> "queued"] /\ at' = [l \in Lines |-> 1]
            /\ rung' = [l \in Lines |-> 0] /\ beam' = [l \in Lines |-> 0]
            /\ alive' = [l \in Lines |-> FALSE]
            /\ local' = [l \in Lines |-> Nobody] /\ acc' = [l \in Lines |-> Nobody]
            /\ submitted' = 0 /\ worker' = [w \in Workers |-> "none"]
            /\ job' = [w \in Workers |-> 0] /\ merged' = 0 /\ sum' = Nobody
            /\ UNCHANGED <<opts, crashes, update, staged>>
        BY <1>4, <2>3 DEF EndPass
      <3>3. pass' \in 1..NIter
        BY <1>0, <3>1, <3>2, ConstantsAssumption DEF TypeOK
      <3>4. 0 \in Lines /\ 0 \in 0..MaxShards
        BY ConstantsAssumption DEF Lines
      <3> QED
        BY <1>0, <2>1, <2>3, <3>2, <3>3, <3>4, SumShape
        DEF TypeOK, store, Outcomes
    <2> QED
      BY <2>2, <2>3
  <1> QED
    BY <1>1, <1>2, <1>3, <1>4

LEMMA TypeStays == ASSUME Safe, Next PROVE TypeOK'
  BY LineStepType, PoolType, CoordinatorType, PublishingType
  DEF Next, Advance, PoolStep

-------------------------------------------------------------------------------
(* Every line stays accounted for.                                         *)

LEMMA OptsFrame ==
    ASSUME UNCHANGED opts
    PROVE  /\ Running' = Running /\ Shards' = Shards
           /\ Serial' = Serial /\ Pooled' = Pooled
           /\ \A l : First(l)' = First(l)
           /\ \A l : Last(l)' = Last(l)
           /\ \A l : Part(l)' = Part(l)
  BY DEF Running, Shards, Serial, Pooled, First, Last, Part, Quotient, Remainder

LEMMA ReferenceFrame ==
    ASSUME UNCHANGED <<opts, nature>>, NEW u PROVE Reference(u)' = Reference(u)
  BY DEF Reference

LEMMA OverLine ==
    ASSUME NEW l, line'[l] \in {"raised", "lost"}
    PROVE  LineIsAccounted(l)' /\ LadderIsKept(l)'
  BY DEF LineIsAccounted, LadderIsKept

\* A step that leaves a line and its utterances alone, but may end its session.
LEMMA LineFrame ==
    ASSUME UNCHANGED <<opts, nature>>, NEW l,
           LineIsAccounted(l), LadderIsKept(l), Part(l) \in SUBSET Utts,
           line'[l] = line[l], at'[l] = at[l], rung'[l] = rung[l],
           beam'[l] = beam[l], acc'[l] = acc[l],
           alive'[l] = alive[l],
           \A u \in Part(l) : outcome'[u] = outcome[u]
    PROVE  LineIsAccounted(l)' /\ LadderIsKept(l)'
  <1>1. Part(l) \cap Counted' = Part(l) \cap Counted
    BY DEF Counted
  <1>2. Once(Part(l)' \cap Counted') = Once(Part(l) \cap Counted)
    BY <1>1, OptsFrame
  <1>3. Reached(l)' = Reached(l)
    BY OptsFrame DEF Reached
  <1>4. LineIsAccounted(l)'
    BY <1>2, <1>3, OptsFrame, ReferenceFrame DEF LineIsAccounted, Once
  <1>5. LadderIsKept(l)'
    BY OptsFrame DEF LadderIsKept
  <1> QED
    BY <1>4, <1>5

LEMMA SettlingStays ==
    ASSUME Safe, NEW l \in Running, NEW o, SettlesOne(l, o),
           UNCHANGED <<opts, nature>>
    PROVE  LineIsAccounted(l)' /\ LadderIsKept(l)'
  <1> DEFINE u == at[l]
  <1>1. /\ TypeOK /\ l \in Lines /\ opts \in Settings
        /\ u \in Part(l) /\ u \in Utts /\ u \in First(l)..Last(l)
        /\ First(l) \in Nat /\ Last(l) \in Nat /\ Part(l) \in SUBSET Utts
    BY SettingShape, Partition DEF SettlesOne, Safe, TypeOK, Part
  <1>2. /\ outcome' = [outcome EXCEPT ![u] = o] /\ at'[l] = u + 1
        /\ rung'[l] = 0 /\ line'[l] = "next" /\ beam'[l] = 0
    BY <1>1 DEF SettlesOne, Settle, TypeOK
  <1>3. \A v \in Utts : outcome'[v] = IF v = u THEN o ELSE outcome[v]
    BY <1>1, <1>2 DEF TypeOK
  <1>4. /\ acc[l] = Once(Part(l) \cap Counted)
        /\ \A v \in Part(l) : outcome[v] = "none" <=> v >= u
        /\ alive[l] => \A v \in Part(l) : v < u => outcome[v] = Reference(v)
    BY DEF Safe, LineIsAccounted, SettlesOne, Reached
  <1>5. /\ Reached(l)' = u + 1 /\ Reached(l)' \in First(l)'..(Last(l)' + 1)
        /\ Part(l)' = Part(l)
    BY <1>1, <1>2, OptsFrame DEF Reached
  <1>6. acc'[l] = Once(Part(l) \cap Counted')
    <2>1. acc'[l] = IF Counts(o) THEN Plus(acc[l], Only(u)) ELSE acc[l]
      BY <1>1 DEF SettlesOne, TypeOK
    <2>2. outcome[u] = "none"
      BY <1>1, <1>4
    <2>3. ASSUME NEW v \in Utts
          PROVE  v \in Counted' <=> IF v = u THEN Counts(o) ELSE v \in Counted
      BY <1>3 DEF Counted, Counts
    <2>4. u \notin Counted
      BY <2>2 DEF Counted
    <2>5. ASSUME NEW v \in Utts
          PROVE  (IF Counts(o) THEN Plus(acc[l], Only(u)) ELSE acc[l])[v]
                   = IF v \in Part(l) \cap Counted' THEN 1 ELSE 0
      BY <1>1, <1>4, <2>3, <2>4 DEF Once, Plus, Only
    <2>6. (IF Counts(o) THEN Plus(acc[l], Only(u)) ELSE acc[l])
             = [v \in Utts |-> (IF Counts(o) THEN Plus(acc[l], Only(u)) ELSE acc[l])[v]]
      BY <1>4 DEF Once, Plus
    <2> QED
      BY <2>1, <2>5, <2>6 DEF Once
  <1>7. \A v \in Part(l) : outcome'[v] = "none" <=> v >= u + 1
    <2>1. o # "none"
      BY DEF SettlesOne
    <2>2. \A v \in Part(l) : v \in Nat /\ v \in Utts
      BY <1>1 DEF Part
    <2> QED
      BY <1>1, <1>3, <1>4, <2>1, <2>2
  <1>8. alive'[l] => \A v \in Part(l) : v < u + 1 => outcome'[v] = Reference(v)
    <2>1. alive'[l] => alive[l] /\ o = Reference(u)
      BY <1>1 DEF SettlesOne
    <2>2. \A v \in Part(l) : v \in Nat /\ v \in Utts
      BY <1>1 DEF Part
    <2> QED
      BY <1>1, <1>3, <1>4, <2>1, <2>2
  <1>9. LineIsAccounted(l)'
    BY <1>5, <1>6, <1>7, <1>8, ReferenceFrame DEF LineIsAccounted
  <1> QED
    BY <1>2, <1>9 DEF LadderIsKept

LEMMA LineStepStays ==
    ASSUME Safe, NEW k \in Lines, LineStep(k), NEW l \in Running
    PROVE  LineIsAccounted(l)' /\ LadderIsKept(l)'
  <1>1. /\ TypeOK /\ opts \in Settings /\ k \in Running /\ l \in Lines
        /\ LineIsAccounted(l) /\ LadderIsKept(l) /\ UNCHANGED <<opts, nature>>
        /\ Part(l) \in SUBSET Utts
    BY LineStepShape, SettingShape, Partition DEF Safe, TypeOK, run
  <1>2. ASSUME NEW o \in Outcomes, SettlesOne(k, o)
        PROVE  LineIsAccounted(l)' /\ LadderIsKept(l)'
    <2>1. CASE l = k
      BY <1>1, <1>2, <2>1, SettlingStays
    <2>2. CASE l # k
      <3>1. Pooled /\ alive' = alive
        BY <1>1, <1>2, <2>2, SettingShape DEF SettlesOne
      <3>2. at[k] \notin Part(l)
        BY <1>1, <1>2, <2>2, Partition DEF SettlesOne
      <3>3. \A u \in Part(l) : outcome'[u] = outcome[u]
        BY <1>1, <1>2, <3>2 DEF SettlesOne, Settle, TypeOK
      <3>4. /\ line'[l] = line[l] /\ at'[l] = at[l] /\ rung'[l] = rung[l]
            /\ beam'[l] = beam[l] /\ acc'[l] = acc[l]
        BY <1>1, <1>2, <2>2 DEF SettlesOne, Settle, TypeOK
      <3> QED
        BY <1>1, <3>1, <3>3, <3>4, LineFrame
    <2> QED
      BY <2>1, <2>2
  <1>3. ASSUME NEW r \in Nat, ClimbsOn(k, r)
        PROVE  LineIsAccounted(l)' /\ LadderIsKept(l)'
    <2>1. CASE l = k
      <3>1. /\ line'[l] = "climb" /\ line[l] \in {"next", "climb"}
            /\ rung'[l] = r /\ beam'[l] = r
            /\ UNCHANGED <<outcome, at, acc, alive>>
            /\ at[l] <= Last(l)
        BY <1>1, <1>3, <2>1, Partition DEF ClimbsOn, TypeOK, Part
      <3>2. Reached(l)' = Reached(l) /\ Counted' = Counted
        BY <3>1 DEF Reached, Counted
      <3>3. LineIsAccounted(l)'
        BY <1>1, <3>1, <3>2, OptsFrame, ReferenceFrame DEF LineIsAccounted, Once
      <3>4. LadderIsKept(l)'
        BY <1>1, <1>3, <2>1, <3>1, OptsFrame DEF LadderIsKept, ClimbsOn
      <3> QED
        BY <3>3, <3>4
    <2>2. CASE l # k
      <3>1. /\ line'[l] = line[l] /\ at'[l] = at[l] /\ rung'[l] = rung[l]
            /\ beam'[l] = beam[l] /\ acc'[l] = acc[l] /\ alive' = alive
            /\ outcome' = outcome
        BY <1>1, <1>3, <2>2 DEF ClimbsOn, TypeOK
      <3> QED
        BY <1>1, <3>1, LineFrame
    <2> QED
      BY <2>1, <2>2
  <1>4. CASE Stops(k)
    <2>1. CASE l = k
      <3>1. UNCHANGED <<outcome, at, rung, beam, acc, alive>> /\ line[l] = "next"
        BY <1>4, <2>1 DEF Stops
      <3>2. CASE line'[l] = "raised"
        BY <3>2, OverLine
      <3>3. CASE line'[l] = "done" /\ at[l] = Last(l) + 1 /\ alive[l]
        <4>1. Reached(l)' = Reached(l) /\ Counted' = Counted
          BY <3>1, <3>3 DEF Reached, Counted
        <4>2. LineIsAccounted(l)'
          BY <1>1, <3>1, <3>3, <4>1, OptsFrame, ReferenceFrame
          DEF LineIsAccounted, Once
        <4>3. LadderIsKept(l)'
          BY <1>1, <3>1, <3>3, OptsFrame DEF LadderIsKept
        <4> QED
          BY <4>2, <4>3
      <3> QED
        BY <1>1, <1>4, <2>1, <3>2, <3>3 DEF Stops, TypeOK
    <2>2. CASE l # k
      <3>1. /\ line'[l] = line[l]
            /\ UNCHANGED <<outcome, at, rung, beam, acc, alive>>
        BY <1>1, <1>4, <2>2 DEF Stops, TypeOK
      <3> QED
        BY <1>1, <3>1, LineFrame
    <2> QED
      BY <2>1, <2>2
  <1> QED
    BY <1>2, <1>3, <1>4, LineStepShape

\* Steps of the coordinator and of the pool that lose lines at most.
Quiet ==
    \/ Submit \/ Fail \/ Reaped \/ Raise \/ Killed \/ EndSerial \/ MergeShard
    \/ EndMerge \/ Account \/ SaveCounts \/ Normalize \/ SaveParameters
    \/ InstallParameters \/ InstallCounts \/ SaveFails
    \/ (EndPass /\ phase' # "start") \/ \E w \in Workers : Answer(w)
Loses ==
    EndShards \/ TerminateBroken
    \/ \E w \in Workers : WorkerDies(w) \/ WatchExit(w) \/ Kill(w)

LEMMA QuietOrLosing ==
    /\ Quiet => UNCHANGED <<run, outcome, session>>
    /\ Loses => UNCHANGED <<run, outcome, at, rung, beam, alive, local, acc>>
    /\ TypeOK /\ Loses => \A l \in Lines : line'[l] \in {line[l], "lost"}
  <1>1. Quiet => UNCHANGED <<run, outcome, session>>
    BY DEF Quiet, Submit, Fail, Reaped, Raise, Killed, EndSerial, MergeShard, EndMerge,
       Account, SaveCounts, Normalize, SaveParameters, InstallParameters,
       InstallCounts, SaveFails, EndPass, Answer
  <1>2. Loses => UNCHANGED <<run, outcome, at, rung, beam, alive, local, acc>>
    BY DEF Loses, EndShards, TerminateBroken, WorkerDies, WatchExit, Kill
  <1>3. ASSUME TypeOK, Loses, NEW l \in Lines PROVE line'[l] \in {line[l], "lost"}
    <2>1. CASE TerminateBroken
      BY <1>3, <2>1 DEF TerminateBroken
    <2>2. CASE EndShards
      BY <1>3, <2>2 DEF EndShards, Gone
    <2>3. ASSUME NEW w \in Workers, WorkerDies(w) \/ WatchExit(w) \/ Kill(w)
          PROVE  line'[l] \in {line[l], "lost"}
      BY <1>3, <2>3 DEF WorkerDies, WatchExit, Kill, Gone
    <2> QED
      BY <1>3, <2>1, <2>2, <2>3 DEF Loses
  <1> QED
    BY <1>1, <1>2, <1>3

LEMMA NextCases ==
    ASSUME Next
    PROVE  \/ Quiet \/ Loses \/ Begin \/ (EndPass /\ phase' = "start")
           \/ (\E w \in Workers : Take(w)) \/ \E l \in Lines : LineStep(l)
  BY DEF Next, Advance, PoolStep, Quiet, Loses

LEMMA FromTheStart ==
    ASSUME NEW l, UNCHANGED <<opts, nature>>, First(l) \in Nat, Last(l) \in Nat,
           First(l) <= Last(l) + 1, Part(l) \in SUBSET Utts,
           line'[l] = "queued" \/ (line'[l] = "next" /\ at'[l] = First(l)),
           acc'[l] = Nobody, rung'[l] = 0, beam'[l] = 0,
           \A u \in Part(l) : outcome'[u] = "none"
    PROVE  LineIsAccounted(l)' /\ LadderIsKept(l)'
  <1>1. Reached(l)' = First(l) /\ Part(l)' = Part(l)
    BY OptsFrame DEF Reached
  <1>2. Part(l) \cap Counted' = {}
    BY DEF Counted
  <1>3. acc'[l] = Once(Part(l)' \cap Counted')
    BY <1>1, <1>2 DEF Once, Nobody
  <1>4. \A u \in Part(l) : u \in Nat /\ u >= First(l)
    BY DEF Part
  <1>5. LineIsAccounted(l)'
    BY <1>1, <1>3, <1>4, OptsFrame DEF LineIsAccounted
  <1> QED
    BY <1>5, OptsFrame DEF LadderIsKept

\* What is known of a line that waits to be started.
LEMMA QueuedLine ==
    ASSUME Safe, NEW l \in Running, line[l] = "queued"
    PROVE  /\ l \in Lines /\ opts \in Settings
           /\ First(l) \in Nat /\ Last(l) \in Nat
           /\ First(l) <= Last(l) + 1 /\ Part(l) \in SUBSET Utts
           /\ acc[l] = Nobody /\ rung[l] = 0 /\ beam[l] = 0
           /\ \A u \in Part(l) : outcome[u] = "none"
  <1>1. /\ l \in Lines /\ opts \in Settings
        /\ LineIsAccounted(l) /\ LadderIsKept(l)
    BY SettingShape DEF Safe, TypeOK
  <1>2. /\ First(l) \in Nat /\ Last(l) \in Nat
        /\ First(l) <= Last(l) + 1 /\ Part(l) \in SUBSET Utts
    BY <1>1, Partition
  <1>3. \A u \in Part(l) : outcome[u] = "none"
    BY <1>1, <1>2 DEF LineIsAccounted, Reached, Part
  <1>4. Part(l) \cap Counted = {}
    BY <1>3 DEF Counted
  <1>5. acc[l] = Nobody
    BY <1>1, <1>4 DEF LineIsAccounted, Once, Nobody
  <1> QED
    BY <1>1, <1>2, <1>3, <1>5 DEF LadderIsKept

LEMMA LinesStay ==
    ASSUME Safe, Next
    PROVE  \A l \in Running' : LineIsAccounted(l)' /\ LadderIsKept(l)'
  <1>0. TypeOK /\ opts \in Settings /\ UNCHANGED opts /\ Running' = Running
    <2>1. UNCHANGED opts
      BY LineStepShape, QuietOrLosing, NextCases DEF run, Begin, EndPass, Take
    <2> QED
      BY <2>1, OptsFrame DEF Safe, TypeOK
  <1> SUFFICES ASSUME NEW l \in Running
               PROVE  LineIsAccounted(l)' /\ LadderIsKept(l)'
    BY <1>0
  <1>1. /\ l \in Lines /\ LineIsAccounted(l) /\ LadderIsKept(l)
        /\ Part(l) \in SUBSET Utts
    BY <1>0, SettingShape, Partition DEF Safe
  <1>2. CASE \E k \in Lines : LineStep(k)
    BY <1>2, LineStepStays
  <1>3. CASE Quiet
    <2>1. UNCHANGED <<run, outcome, session>>
      BY <1>3, QuietOrLosing
    <2> QED
      BY <1>1, <2>1, LineFrame DEF run, session
  <1>4. CASE Loses
    <2>1. /\ UNCHANGED <<run, outcome, at, rung, beam, alive, local, acc>>
          /\ line'[l] \in {line[l], "lost"}
      BY <1>0, <1>1, <1>4, QuietOrLosing
    <2> QED
      BY <1>1, <2>1, LineFrame, OverLine DEF run
  <1>5. ASSUME NEW w \in Workers, Take(w)
        PROVE  LineIsAccounted(l)' /\ LadderIsKept(l)'
    <2>1. PICK k \in 1..submitted : line[k] = "queued" /\ Fresh(k)
      BY <1>5 DEF Take
    <2>2. UNCHANGED <<run, outcome, rung, beam, acc>>
      BY <1>5, <2>1 DEF Take, Fresh
    <2>3. k \in Lines
      BY <1>0, <2>1, CountShape
    <2>4. CASE k = l
      <3>1. at'[l] = First(l) /\ line'[l] = "next"
        BY <1>0, <2>1, <2>3, <2>4 DEF Fresh, TypeOK
      <3> QED
        BY <2>1, <2>2, <2>4, <3>1, QueuedLine, FromTheStart DEF run
    <2>5. CASE k # l
      <3>1. at'[l] = at[l] /\ line'[l] = line[l] /\ alive'[l] = alive[l]
        BY <1>0, <1>1, <2>1, <2>5 DEF Fresh, TypeOK
      <3> QED
        BY <1>1, <2>2, <3>1, LineFrame DEF run
    <2> QED
      BY <2>4, <2>5
  <1>6. CASE Begin
    <2>1. line[l] = "queued"
      BY <1>6 DEF Begin, Safe, SumIsKept
    <2>2. /\ at'[l] = First(l) /\ line'[l] \in {"next", "queued"}
          /\ UNCHANGED <<run, outcome, rung, beam, acc>>
      BY <1>1, <1>6 DEF Begin
    <2> QED
      BY <2>1, <2>2, QueuedLine, FromTheStart DEF run
  <1>7. CASE EndPass /\ phase' = "start"
    <2>1. /\ line'[l] = "queued" /\ rung'[l] = 0 /\ beam'[l] = 0
          /\ acc'[l] = Nobody /\ outcome' = [u \in Utts |-> "none"]
      BY <1>1, <1>7 DEF EndPass
    <2>2. /\ First(l)' = First(l) /\ Last(l)' = Last(l)
          /\ First(l) \in Nat /\ Last(l) \in Nat /\ First(l) <= Last(l) + 1
      BY <1>0, Partition, OptsFrame
    <2>3. Part(l)' = Part(l) /\ Reached(l)' = First(l)'
      BY <1>0, <2>1, OptsFrame DEF Reached
    <2>4. Part(l) \cap Counted' = {}
      BY <1>1, <2>1 DEF Counted
    <2>5. acc'[l] = Once(Part(l)' \cap Counted')
      BY <2>1, <2>3, <2>4 DEF Once, Nobody
    <2>6. \A u \in Part(l)' : u \in Nat /\ u >= First(l)' /\ outcome'[u] = "none"
      <3>1. \A u \in Part(l) : u \in Nat /\ u >= First(l)
        BY <2>2 DEF Part
      <3>2. \A u \in Part(l) : outcome'[u] = "none"
        BY <1>1, <2>1
      <3> QED
        BY <2>2, <2>3, <3>1, <3>2
    <2>7. LineIsAccounted(l)'
      BY <2>2, <2>3, <2>5, <2>6 DEF LineIsAccounted
    <2> QED
      BY <2>1, <2>7 DEF LadderIsKept
  <1> QED
    BY <1>2, <1>3, <1>4, <1>5, <1>6, <1>7, NextCases

LEMMA PoolStays ==
    ASSUME Safe, Next, TypeOK'
    PROVE  PoolIsKept'
  <1>0. /\ TypeOK /\ opts \in Settings /\ PoolIsKept
        /\ opts.shards \in Nat /\ opts.shards <= MaxShards /\ MaxShards \in Nat
        /\ Shards = 1..opts.shards /\ submitted \in Nat
    <2>1. opts \in Settings /\ TypeOK /\ PoolIsKept
      BY DEF Safe, TypeOK
    <2> QED
      BY <2>1, CountShape, SettingShape
  <1>1. CASE \E l \in Lines : LineStep(l)
    <2>1. UNCHANGED <<phase, opts, submitted, worker, job>>
      BY <1>1, LineStepShape DEF run
    <2> QED
      BY <1>0, <2>1, OptsFrame DEF PoolIsKept, Up
  <1>2. CASE Quiet
    <2>0. UNCHANGED opts
      BY <1>2, QuietOrLosing DEF run
    <2>1. CASE Submit
      <3>1. /\ phase' = "work" /\ Pooled /\ submitted' <= opts.shards
            /\ UNCHANGED job
        BY <1>0, <2>1 DEF Submit, MaySubmit
      <3>2. worker \in [Workers -> {"none", "gone"} \cup Up]
        BY <1>0 DEF TypeOK
      <3>3. \A w \in Workers : worker'[w] = "busy" => worker[w] = "busy"
        BY <2>1, <3>2 DEF Submit
      <3> QED
        BY <1>0, <2>0, <3>1, <3>3, OptsFrame DEF PoolIsKept
    <2>2. ASSUME NEW w \in Workers, Answer(w) PROVE PoolIsKept'
      BY <1>0, <2>0, <2>2, OptsFrame DEF Answer, PoolIsKept, TypeOK, Up
    <2>3. ASSUME ~Submit, ~(\E w \in Workers : Answer(w)) PROVE PoolIsKept'
      <3>1. UNCHANGED pool
        BY <1>2, <2>3
        DEF Quiet, Fail, Reaped, Raise, Killed, EndSerial, MergeShard, EndMerge,
            Account, SaveCounts, Normalize, SaveParameters, InstallParameters,
            InstallCounts, SaveFails, EndPass
      <3>2. \/ phase' \in {"reaping", "dead"}
            \/ \A w \in Workers : worker[w] \notin Up
        <4>1. CASE Fail \/ Raise
          BY <1>0, <4>1 DEF Fail, Raise, GiveUp, PoolIsKept
        <4>2. CASE EndSerial
          BY <1>0, <4>2, SettingShape DEF EndSerial, Serial, Pooled, PoolIsKept
        <4>3. CASE Reaped \/ Killed
          BY <4>3 DEF Reaped, Killed
        <4>4. CASE phase \notin {"work", "reaping", "dead"}
          BY <1>0, <4>4 DEF PoolIsKept
        <4> QED
          BY <1>2, <2>3, <4>1, <4>2, <4>3, <4>4
          DEF Quiet, MergeShard, EndMerge, Account, SaveCounts, Normalize,
              SaveParameters, InstallParameters, InstallCounts, SaveFails, Saving,
              EndPass
      <3> QED
        BY <1>0, <2>0, <3>1, <3>2, OptsFrame DEF PoolIsKept, pool, Up
    <2> QED
      BY <2>1, <2>2, <2>3
  <1>3. CASE Loses
    <2>0. UNCHANGED opts /\ UNCHANGED submitted
      BY <1>3, QuietOrLosing
      DEF run, Loses, EndShards, TerminateBroken, WorkerDies, WatchExit, Kill
    <2>1. \A w \in Workers : /\ worker'[w] \in {worker[w], "gone"}
                             /\ worker'[w] = "busy" => job'[w] = job[w]
      <3>1. CASE TerminateBroken
        BY <1>0, <3>1 DEF TerminateBroken, TypeOK, Up
      <3>2. CASE EndShards
        BY <1>0, <3>2, GoneShape DEF EndShards
      <3>3. ASSUME NEW v \in Workers, WorkerDies(v) \/ WatchExit(v) \/ Kill(v)
            PROVE  \A w \in Workers : /\ worker'[w] \in {worker[w], "gone"}
                                      /\ worker'[w] = "busy" => job'[w] = job[w]
        <4>1. Gone({v})
          BY <3>3 DEF WorkerDies, WatchExit, Kill
        <4> QED
          BY <1>0, <4>1, GoneShape
      <3> QED
        BY <1>3, <3>1, <3>2, <3>3 DEF Loses
    <2>2. phase' = phase \/ EndShards
      BY <1>3 DEF Loses, TerminateBroken, WorkerDies, WatchExit, Kill
    <2>3. EndShards => \A w \in Workers : worker'[w] \notin Up
      <3> SUFFICES ASSUME EndShards, NEW w \in Workers PROVE worker'[w] \notin Up
        OBVIOUS
      <3> QED
        BY DEF EndShards, Gone, Up
    <2> QED
      BY <1>0, <2>0, <2>1, <2>2, <2>3, OptsFrame DEF PoolIsKept, Up
  <1>4. ASSUME NEW w \in Workers, Take(w) PROVE PoolIsKept'
    <2>1. PICK l \in 1..submitted : /\ worker' = [worker EXCEPT ![w] = "busy"]
                                    /\ job' = [job EXCEPT ![w] = l]
      BY <1>4 DEF Take
    <2>2. l \in Shards
      BY <1>0 DEF PoolIsKept
    <2>3. UNCHANGED <<opts, phase, submitted>> /\ worker[w] \in Up
      BY <1>4 DEF Take, run, Up
    <2> QED
      BY <1>0, <2>1, <2>2, <2>3, OptsFrame DEF PoolIsKept, TypeOK, Up
  <1>5. CASE Begin
    BY <1>0, <1>5, OptsFrame DEF Begin, PoolIsKept, pool, run, Up
  <1>6. CASE EndPass /\ phase' = "start"
    <2>1. /\ submitted' = 0 /\ worker' = [w \in Workers |-> "none"]
          /\ UNCHANGED opts
      BY <1>6 DEF EndPass
    <2> QED
      BY <1>0, <2>1, OptsFrame DEF PoolIsKept, Up
  <1> QED
    BY <1>1, <1>2, <1>3, <1>4, <1>5, <1>6, NextCases

-------------------------------------------------------------------------------
(* The coordinator's sums.                                                 *)

\* When nothing is at work, no line moves.
LEMMA AtRest ==
    ASSUME Safe, phase \notin {"work", "reaping", "dead"}
    PROVE  /\ ~(\E l \in Lines : LineStep(l)) /\ ~(\E w \in Workers : Take(w))
           /\ ~Loses /\ ~Submit /\ ~(\E w \in Workers : Answer(w))
  <1>1. \A w \in Workers : worker[w] \notin Up
    BY DEF Safe, PoolIsKept
  <1>2. ASSUME NEW l \in Lines, LineStep(l) PROVE FALSE
    BY <1>1, <1>2 DEF LineStep, Busy, Up
  <1>3. ~(\E w \in Workers : Take(w)) /\ ~(\E w \in Workers : Answer(w))
    BY <1>1 DEF Take, Answer, Up
  <1>4. ~Loses
    BY <1>1 DEF Loses, EndShards, TerminateBroken, WorkerDies, WatchExit, Kill
  <1>5. ~Submit
    BY DEF Submit
  <1> QED
    BY <1>2, <1>3, <1>4, <1>5

\* The actions between two passes, by phase.
LEMMA StepsAtRest ==
    ASSUME Safe, Next, phase \notin {"work", "reaping", "dead"}
    PROVE  \/ phase = "start" /\ (Begin \/ Raise \/ Killed)
           \/ phase = "merge" /\ (MergeShard \/ EndMerge \/ Raise \/ Killed)
           \/ phase = "account" /\ (Account \/ Raise \/ Killed)
           \/ phase = "counts" /\ (SaveCounts \/ SaveFails \/ Killed)
           \/ phase = "normalize" /\ (Normalize \/ SaveFails \/ Killed)
           \/ phase = "parameters" /\ (SaveParameters \/ SaveFails \/ Killed)
           \/ phase = "install" /\ (InstallParameters \/ SaveFails \/ Killed)
           \/ phase = "installing" /\ (InstallCounts \/ SaveFails \/ Killed)
           \/ phase = "retain" /\ (EndPass \/ Raise \/ Killed)
  <1>1. /\ (Begin => phase = "start") /\ ~Fail /\ ~Reaped /\ ~EndSerial
        /\ (MergeShard \/ EndMerge => phase = "merge") /\ (Account => phase = "account")
        /\ (SaveCounts => phase = "counts") /\ (Normalize => phase = "normalize")
        /\ (SaveParameters => phase = "parameters")
        /\ (InstallParameters => phase = "install")
        /\ (InstallCounts => phase = "installing") /\ (EndPass => phase = "retain")
    BY DEF Begin, Fail, Reaped, EndSerial, MergeShard, EndMerge, Account, SaveCounts,
           Normalize, SaveParameters, InstallParameters, InstallCounts, EndPass
  <1>2. /\ Raise => phase \in {"start", "merge", "account", "retain"}
        /\ SaveFails => phase \in Saving
        /\ Killed => phase \notin Ended
    BY DEF Raise, SaveFails, Killed
  <1>3. phase \in {"start", "work", "reaping", "merge", "account", "retain"}
                     \cup Saving \cup Ended
    BY DEF Safe, TypeOK
  <1>4. Quiet \/ Begin \/ EndPass
    BY AtRest, NextCases
  <1>5. \/ Begin \/ MergeShard \/ EndMerge \/ Account \/ SaveCounts \/ Normalize
        \/ SaveParameters \/ InstallParameters \/ InstallCounts \/ EndPass
        \/ Raise \/ SaveFails \/ Killed
    BY <1>1, <1>4, AtRest DEF Quiet
  <1> QED
    BY <1>1, <1>2, <1>3, <1>5 DEF Saving, Ended

\* While lines are at work, the store and the coordinator's sums are left alone.
LEMMA StepsAtWork ==
    ASSUME Safe, Next, phase \in {"work", "reaping", "dead"}
    PROVE  /\ UNCHANGED <<run, update, staged, store>>
           /\ \/ phase' = phase /\ UNCHANGED merge
              \/ phase = "work" /\ (EndSerial \/ EndShards)
              \/ phase # "dead" /\ phase' \in {"reaping", "failed", "dead"}
  <1>1. CASE \E l \in Lines : LineStep(l)
    BY <1>1, LineStepShape DEF merge
  <1>2. CASE Quiet
    BY <1>2
    DEF Quiet, Submit, Answer, Fail, Reaped, Raise, Killed, EndSerial, MergeShard,
        EndMerge, Account, SaveCounts, Normalize, SaveParameters, InstallParameters,
        InstallCounts, SaveFails, EndPass, GiveUp, Saving, Ended, merge
  <1>3. CASE Loses
    BY <1>3 DEF Loses, EndShards, TerminateBroken, WorkerDies, WatchExit, Kill, merge
  <1>4. CASE \E w \in Workers : Take(w)
    BY <1>4 DEF Take, merge
  <1>5. CASE Begin \/ EndPass
    BY <1>5 DEF Begin, EndPass
  <1> QED
    BY <1>1, <1>2, <1>3, <1>4, <1>5, NextCases

LEMMA MergingStays ==
    ASSUME Safe, MergeShard, SumIsKept
    PROVE  sum' = Once({u \in Counted : \E l \in 1..merged' : u \in Part(l)})
  <1> DEFINE n == merged + 1
             S == {u \in Counted : \E l \in 1..merged : u \in Part(l)}
  <1>0. /\ TypeOK /\ opts \in Settings /\ phase = "merge" /\ ~Serial
        /\ merged \in Nat /\ n \in Nat /\ merged < opts.shards
        /\ sum = Once(S) /\ opts.shards \in Nat
    <2>1. TypeOK /\ opts \in Settings
      BY DEF Safe, TypeOK
    <2> QED
      BY <2>1, CountShape, SettingShape DEF SumIsKept, MergeShard
  <1>1. n \in Running /\ Shards = Running /\ Shards = 1..opts.shards
    BY <1>0, SettingShape
  <1>2. acc[n] = Once(Part(n) \cap Counted)
    BY <1>0, <1>1 DEF Safe, SumIsKept, LineIsAccounted
  <1>3. \A l \in 1..merged : l \in Running /\ l # n
    BY <1>0, <1>1
  <1>4. \A u \in Part(n) : ~\E l \in 1..merged : u \in Part(l)
    BY <1>0, <1>1, <1>3, Partition
  <1>5. merged' = n /\ 1..n = (1..merged) \cup {n}
    BY <1>0 DEF MergeShard
  <1>6. ASSUME NEW u \in Utts
        PROVE  Plus(Once(S), Once(Part(n) \cap Counted))[u]
                 = IF u \in S \cup (Part(n) \cap Counted) THEN 1 ELSE 0
    BY <1>4 DEF Plus, Once
  <1>7. Plus(Once(S), Once(Part(n) \cap Counted)) = Once(S \cup (Part(n) \cap Counted))
    BY <1>6 DEF Plus, Once
  <1>8. S \cup (Part(n) \cap Counted)
          = {u \in Counted : \E l \in 1..merged' : u \in Part(l)}
    BY <1>5
  <1> QED
    BY <1>0, <1>2, <1>7, <1>8 DEF MergeShard

LEMMA SumsStay ==
    ASSUME Safe, Next, TypeOK'
    PROVE  SumIsKept'
  <1>0. /\ TypeOK /\ opts \in Settings /\ SumIsKept
        /\ phase \in {"start", "work", "reaping", "merge", "account", "retain"}
                       \cup Saving \cup Ended
    BY DEF Safe, TypeOK
  <1>1. CASE phase \in {"work", "reaping", "dead"}
    <2>0. UNCHANGED opts /\ Running' = Running
      BY <1>1, StepsAtWork, OptsFrame DEF run
    <2>1. CASE phase' = phase /\ UNCHANGED merge
      BY <1>0, <1>1, <2>1 DEF SumIsKept, CountedOnce, merge, AfterWork, Saving
    <2>2. CASE phase' \in {"reaping", "failed", "dead"}
      BY <2>2 DEF SumIsKept, CountedOnce, AfterWork, Saving
    <2>3. CASE phase = "work" /\ EndSerial
      <3>1. Running = {0} /\ line[0] = "done" /\ UNCHANGED <<line, outcome>>
        BY <1>0, <2>3, SettingShape DEF EndSerial, session
      <3>2. sum' = Once(Part(0) \cap Counted) /\ phase' = "account"
        BY <2>3, <3>1 DEF EndSerial, Safe, LineIsAccounted
      <3>3. Counted \subseteq Part(0)
        BY <1>0, <3>1, Partition DEF Counted
      <3>4. sum' = [u \in Utts |-> IF u \in Counted' THEN 1 ELSE 0]
        BY <3>1, <3>2, <3>3 DEF Once, Counted
      <3> QED
        BY <2>0, <3>1, <3>2, <3>4 DEF SumIsKept, CountedOnce, AfterWork, Saving
    <2>4. CASE phase = "work" /\ EndShards
      <3>1. /\ Running = Shards /\ Shards' = Shards /\ ~Serial /\ Serial' = Serial
            /\ phase' = "merge" /\ UNCHANGED <<outcome, merge>> /\ Shards \subseteq Lines
            /\ opts.shards \in Nat
        BY <1>0, <2>0, <2>4, SettingShape, OptsFrame DEF EndShards
      <3>2. \A l \in Shards : line'[l] = "done"
        BY <2>4, <3>1 DEF EndShards, Gone, Answered
      <3>3. merged = 0 /\ sum = Nobody
        BY <1>0, <2>4 DEF SumIsKept
      <3>4. 1..merged = {}
        BY <3>3
      <3>5. sum' = Once({u \in Counted' : \E l \in 1..merged' : u \in Part(l)'})
        BY <3>1, <3>3, <3>4 DEF Once, Nobody, merge
      <3>6. merged' <= opts'.shards
        BY <2>0, <3>1, <3>3 DEF merge
      <3> QED
        BY <2>0, <3>1, <3>2, <3>5, <3>6 DEF SumIsKept, CountedOnce, AfterWork, Saving
    <2> QED
      BY <1>1, <2>1, <2>2, <2>3, <2>4, StepsAtWork
  <1>2. CASE phase \notin {"work", "reaping", "dead"}
    <2>1. CASE Raise \/ Killed \/ SaveFails
      <3>1. phase' \in {"failed", "dead"}
        BY <1>2, <2>1 DEF Raise, Killed, SaveFails
      <3> QED
        BY <3>1 DEF SumIsKept, CountedOnce, AfterWork, Saving
    <2>2. CASE phase = "start" /\ Begin
      <3>1. phase' = "work" /\ UNCHANGED merge
        BY <2>2 DEF Begin
      <3> QED
        BY <1>0, <2>2, <3>1 DEF SumIsKept, CountedOnce, AfterWork, Saving, merge
    <2>3. CASE phase = "merge" /\ MergeShard
      <3>1. /\ UNCHANGED <<phase, opts, outcome, line>> /\ merged' = merged + 1
            /\ merged < opts.shards
        BY <2>3 DEF MergeShard, run, session
      <3>2. merged' <= opts.shards
        BY <1>0, <3>1, CountShape, SettingShape
      <3>3. sum' = Once({u \in Counted' : \E l \in 1..merged' : u \in Part(l)'})
        BY <1>0, <2>3, <3>1, MergingStays, OptsFrame DEF Counted
      <3> QED
        BY <1>0, <2>3, <3>1, <3>2, <3>3, OptsFrame
        DEF SumIsKept, CountedOnce, AfterWork, Saving
    <2>4. CASE phase = "merge" /\ EndMerge
      <3>1. /\ UNCHANGED <<opts, outcome, line, sum>> /\ merged = opts.shards
            /\ phase' = "account"
        BY <2>4 DEF EndMerge, run, session, merge
      <3>2. ~Serial /\ Running = 1..merged
        BY <1>0, <2>4, <3>1, SettingShape DEF SumIsKept
      <3>3. {u \in Counted : \E l \in 1..merged : u \in Part(l)} = Counted
        BY <1>0, <3>2, Partition DEF Counted
      <3>4. sum' = [u \in Utts |-> IF u \in Counted' THEN 1 ELSE 0]
        BY <1>0, <2>4, <3>1, <3>3 DEF SumIsKept, Once, Counted
      <3> QED
        BY <1>0, <2>4, <3>1, <3>4, OptsFrame DEF SumIsKept, CountedOnce, AfterWork, Saving
    <2>5. CASE Account \/ SaveCounts \/ Normalize \/ SaveParameters \/ InstallParameters
               \/ InstallCounts \/ (EndPass /\ phase' # "start")
      <3>1. /\ UNCHANGED <<opts, outcome, line>> /\ phase \in AfterWork
            /\ phase' \in AfterWork \cup {"failed"}
            /\ phase' \in {"counts", "normalize"} =>
                 phase \in {"account", "counts"} /\ UNCHANGED sum
        BY <1>0, <2>5
        DEF Account, SaveCounts, Normalize, SaveParameters, InstallParameters,
            InstallCounts, EndPass, run, session, merge, AfterWork, Saving
      <3>2. Running' = Running /\ Counted' = Counted
        BY <3>1, OptsFrame DEF Counted
      <3>3. phase' \in {"account", "counts", "normalize"} =>
               sum' = [u \in Utts |-> IF u \in Counted' THEN 1 ELSE 0]
        <4>1. phase' # "account"
          BY <1>0, <2>5
          DEF Account, SaveCounts, Normalize, SaveParameters, InstallParameters,
              InstallCounts, EndPass
        <4> QED
          BY <1>0, <3>1, <3>2, <4>1 DEF SumIsKept, CountedOnce
      <3>4. phase' \notin {"start", "work", "merge"}
        BY <3>1 DEF AfterWork, Saving
      <3>5. \A l \in Running : line'[l] = "done"
        BY <1>0, <3>1 DEF SumIsKept
      <3> QED
        BY <3>2, <3>3, <3>4, <3>5 DEF SumIsKept, CountedOnce
    <2>6. CASE EndPass /\ phase' = "start"
      <3>1. /\ line' = [l \in Lines |-> "queued"] /\ merged' = 0 /\ sum' = Nobody
            /\ UNCHANGED opts
        BY <2>6 DEF EndPass
      <3>2. Nobody' = Nobody /\ Running' = Running /\ Running \subseteq Lines
        BY <1>0, <3>1, OptsFrame, SettingShape DEF Nobody
      <3> QED
        BY <2>6, <3>1, <3>2 DEF SumIsKept, CountedOnce, AfterWork, Saving
    <2> QED
      BY <1>2, <2>1, <2>2, <2>3, <2>4, <2>5, <2>6, StepsAtRest
  <1> QED
    BY <1>1, <1>2

-------------------------------------------------------------------------------
(* What is published.                                                      *)

LEMMA SkippedShape ==
    ASSUME NUtts \in Nat
    PROVE  IsFiniteSet(Skipped) /\ Cardinality(Skipped) \in Nat
  <1>1. IsFiniteSet(Utts)
    BY FS_Interval DEF Utts
  <1>2. Skipped \subseteq Utts
    BY DEF Skipped
  <1> QED
    BY <1>1, <1>2, FS_Subset, FS_CardinalityType

LEMMA StoreStays ==
    ASSUME Safe, Next, TypeOK'
    PROVE  StoreIsKept'
  <1>0. /\ TypeOK /\ opts \in Settings /\ StoreIsKept /\ FilesAgree /\ SumIsKept
        /\ File = {"counts", "parameters"}
        /\ files \in [File -> [Utts -> Nat]] /\ backup \in [File -> [Utts -> Nat]]
    BY DEF Safe, TypeOK, StoreIsKept, File
  <1>1. CASE phase \in {"work", "reaping", "dead"}
    <2>1. /\ UNCHANGED <<opts, files>>
          /\ phase' \in {"work", "reaping", "dead", "account", "merge", "failed"}
      BY <1>1, StepsAtWork DEF run, store, EndSerial, EndShards
    <2>2. opts.floor /\ phase' # "dead" => files["counts"] = files["parameters"]
      <3>1. phase' # "dead" => phase # "dead"
        BY <1>1, StepsAtWork
      <3> QED
        BY <1>0, <1>1, <3>1 DEF FilesAgree
    <2> QED
      BY <2>1, <2>2 DEF StoreIsKept, FilesAgree, Saving
  <1>2. CASE phase \notin {"work", "reaping", "dead"}
    <2>1. CASE Killed
      <3>1. phase' = "dead"
        BY <2>1 DEF Killed
      <3> QED
        BY <3>1 DEF StoreIsKept, FilesAgree, Saving
    <2>2. CASE Raise \/ SaveFails
      <3>1. /\ phase' = "failed" /\ UNCHANGED opts
            /\ phase # "dead" /\ (phase = "installing" => files' = backup)
            /\ phase = "install" => files' = backup
            /\ phase \notin {"install", "installing"} => files' = files
        BY <1>2, <2>2 DEF Raise, SaveFails, Rollback, GiveUp, run, store, Saving
      <3>2. opts.floor => files'["counts"] = files'["parameters"]
        BY <1>0, <3>1 DEF StoreIsKept, FilesAgree
      <3> QED
        BY <3>1, <3>2 DEF StoreIsKept, FilesAgree, Saving
    <2>3. CASE Begin \/ MergeShard \/ EndMerge
      <3>1. /\ UNCHANGED <<opts, files>> /\ phase \in {"start", "merge"}
            /\ phase' \in {"work", "merge", "account"}
        BY <2>3 DEF Begin, MergeShard, EndMerge, run, store
      <3> QED
        BY <1>0, <3>1 DEF StoreIsKept, FilesAgree, Saving
    <2>4. CASE Account
      <3>1. /\ UNCHANGED <<opts, outcome, files>> /\ phase = "account"
            /\ \/ phase' = "failed"
               \/ phase' = "counts" /\ ~OverBudget /\ Counted # {}
        BY <2>4 DEF Account, run
      <3>2. Counted' = Counted /\ Skipped' = Skipped
        BY <3>1 DEF Counted, Skipped
      <3>3. ~OverBudget => Cardinality(Skipped) <= opts.budget
        BY <1>0, SkippedShape, SettingShape DEF OverBudget
      <3> QED
        BY <1>0, <3>1, <3>2, <3>3 DEF StoreIsKept, FilesAgree, Saving
    <2>5. CASE SaveCounts \/ Normalize \/ SaveParameters \/ InstallParameters
               \/ InstallCounts
      <3>1. /\ UNCHANGED <<opts, outcome>> /\ phase \in Saving
            /\ phase' \in Saving \cup {"retain"}
        BY <2>5 DEF SaveCounts, Normalize, SaveParameters, InstallParameters,
                    InstallCounts, run, Saving
      <3>2. Counted' = Counted /\ Skipped' = Skipped
        BY <3>1 DEF Counted, Skipped
      <3>3. Counted' # {} /\ Cardinality(Skipped') <= opts'.budget
        BY <1>0, <3>1, <3>2 DEF StoreIsKept
      <3>4. CASE SaveCounts
        <4>1. /\ phase = "counts" /\ phase' = "normalize" /\ sum' = sum
              /\ IF opts.floor THEN staged' = sum /\ files' = files
                 ELSE files' = [files EXCEPT !["counts"] = sum]
          BY <3>4 DEF SaveCounts
        <4>2. IF opts.floor THEN staged' = sum' /\ files'["counts"] = files'["parameters"]
                            ELSE files'["counts"] = sum'
          BY <1>0, <4>1 DEF FilesAgree
        <4> QED
          BY <3>1, <3>3, <4>1, <4>2 DEF StoreIsKept, FilesAgree
      <3>5. CASE Normalize
        <4>1. /\ phase = "normalize" /\ phase' = "parameters" /\ update' = sum
              /\ UNCHANGED <<staged, files>>
          BY <3>5 DEF Normalize, store
        <4>2. update' = Once(Counted')
          BY <1>0, <3>2, <4>1 DEF SumIsKept, CountedOnce, Once
        <4> QED
          BY <1>0, <3>1, <3>3, <4>1, <4>2 DEF StoreIsKept, FilesAgree, Once
      <3>6. CASE SaveParameters
        <4>1. /\ phase = "parameters" /\ UNCHANGED <<update, staged>>
              /\ update = Once(Counted)
          BY <1>0, <3>6 DEF SaveParameters, merge, StoreIsKept
        <4>2. CASE opts.floor
          <5>1. phase' = "install" /\ backup' = files /\ UNCHANGED <<files, history>>
            BY <3>6, <4>2 DEF SaveParameters
          <5> QED
            BY <1>0, <3>1, <3>2, <3>3, <4>1, <4>2, <5>1
            DEF StoreIsKept, FilesAgree, Once
        <4>3. CASE ~opts.floor
          <5>1. /\ phase' = "retain" /\ files' = [files EXCEPT !["parameters"] = update]
                /\ history' = Append(history, update)
            BY <3>6, <4>3 DEF SaveParameters
          <5>2. history'[Len(history')] = update
            <6>1. history \in Seq([Utts -> Nat]) /\ update \in [Utts -> Nat]
              BY <1>0 DEF TypeOK
            <6> QED
              BY <5>1, <6>1
          <5>3. \A f \in File : files'[f] = update
            BY <1>0, <4>1, <4>3, <5>1, <3>6 DEF StoreIsKept
          <5> QED
            BY <1>0, <3>1, <3>2, <3>3, <4>3, <5>1, <5>2, <5>3
            DEF StoreIsKept, FilesAgree
        <4> QED
          BY <4>2, <4>3
      <3>7. CASE InstallParameters
        <4>1. /\ phase = "install" /\ phase' = "installing"
              /\ files' = [files EXCEPT !["parameters"] = update]
              /\ UNCHANGED <<update, staged, backup>>
          BY <3>7 DEF InstallParameters, merge
        <4>2. /\ files'["parameters"] = update'
              /\ backup'["counts"] = backup'["parameters"]
              /\ opts.floor /\ staged' = update' /\ update' = Once(Counted)
          BY <1>0, <4>1 DEF StoreIsKept, FilesAgree
        <4> QED
          BY <3>1, <3>2, <3>3, <4>1, <4>2 DEF StoreIsKept, FilesAgree, Once
      <3>8. CASE InstallCounts
        <4>1. /\ phase = "installing" /\ phase' = "retain"
              /\ files' = [files EXCEPT !["counts"] = staged]
              /\ history' = Append(history, update)
          BY <3>8 DEF InstallCounts
        <4>2. history'[Len(history')] = update
          <5>1. history \in Seq([Utts -> Nat]) /\ update \in [Utts -> Nat]
            BY <1>0 DEF TypeOK
          <5> QED
            BY <4>1, <5>1
        <4>3. \A f \in File : files'[f] = update
          BY <1>0, <4>1 DEF StoreIsKept
        <4> QED
          BY <1>0, <3>1, <3>2, <3>3, <4>1, <4>2, <4>3 DEF StoreIsKept, FilesAgree
      <3> QED
        BY <2>5, <3>4, <3>5, <3>6, <3>7, <3>8
    <2>6. CASE EndPass
      <3>1. /\ phase = "retain" /\ UNCHANGED <<opts, files, history>>
            /\ phase' \in {"converged", "cap", "start"}
        BY <2>6 DEF EndPass, store, run
      <3> QED
        BY <1>0, <3>1 DEF StoreIsKept, FilesAgree, Saving
    <2> QED
      BY <1>2, <2>1, <2>2, <2>3, <2>4, <2>5, <2>6, StepsAtRest
  <1> QED
    BY <1>1, <1>2

-------------------------------------------------------------------------------
(* How the stage ends.                                                     *)

\* The test the coordinator makes after a pass is whether the pass earns the end.
LEMMA SettledEarns ==
    ASSUME TypeOK, Len(trail) = pass
    PROVE  Settled(trail) <=> Earns(pass)
  <1>1. /\ pass \in Nat \ {0} /\ MinIter \in Nat /\ Threshold \in Nat
        /\ Likelihoods \ {NonFinite} \subseteq Int /\ NonFinite \notin Int
    BY CountShape, ConstantsAssumption
  <1>2. pass > 1 => trail[pass] \in Likelihoods /\ trail[pass - 1] \in Likelihoods
    <2>1. trail \in Seq(Likelihoods)
      BY DEF TypeOK
    <2> QED
      BY <1>1, <2>1
  <1>3. ASSUME NEW c \in Likelihoods, NEW d \in Likelihoods
        PROVE  /\ HasConverged(c, d) <=>
                     /\ c \in Int /\ d \in Int /\ pass >= MinIter
                     /\ IF d = 0 THEN c = 0 \/ (c > 0 /\ Threshold >= 1)
                                 ELSE d <= c /\ c - d <= Threshold
    BY <1>1 DEF HasConverged, Delta
  <1> QED
    BY <1>1, <1>2, <1>3 DEF Settled, Earns

\* A trail that grows at its end keeps its verdicts on the passes before.
LEMMA EarnsFrame ==
    ASSUME NEW n \in Nat, \A p \in 1..n : trail'[p] = trail[p],
           NEW p \in 1..n
    PROVE  Earns(p)' <=> Earns(p)
  <1>1. p >= 2 => p - 1 \in 1..n
    OBVIOUS
  <1> QED
    BY <1>1 DEF Earns

LEMMA TrailStays ==
    ASSUME Safe, Next, TypeOK'
    PROVE  TrailIsKept'
  <1>0. /\ TypeOK /\ TrailIsKept /\ pass \in Nat \ {0} /\ pass <= NIter
        /\ trail \in Seq(Likelihoods) /\ history \in Seq([Utts -> Nat])
        /\ update \in [Utts -> Nat]
        /\ phase \in {"start", "work", "reaping", "merge", "account", "retain"}
                       \cup Saving \cup Ended
    <2>1. TypeOK /\ TrailIsKept
      BY DEF Safe
    <2> QED
      BY <2>1, CountShape DEF TypeOK
  <1>1. CASE phase \in {"work", "reaping", "dead"}
    <2>1. /\ UNCHANGED <<pass, trail, history>>
          /\ phase' \in {"work", "reaping", "dead", "account", "merge", "failed"}
          /\ phase = "dead" => phase' = "dead"
      BY <1>1, StepsAtWork DEF run, store, EndSerial, EndShards
    <2> QED
      BY <1>0, <1>1, <2>1 DEF TrailIsKept, Earns, Saving
  <1>2. CASE phase \notin {"work", "reaping", "dead"}
    <2>1. CASE Killed \/ Raise \/ SaveFails
      <3>1. phase' \in {"dead", "failed"}
        BY <1>2, <2>1 DEF Killed, Raise, SaveFails
      <3> QED
        BY <3>1 DEF TrailIsKept, Saving
    <2>2. CASE Begin \/ MergeShard \/ EndMerge
      <3>1. /\ UNCHANGED <<pass, trail, history>> /\ phase \in {"start", "merge"}
            /\ phase' \in {"work", "merge", "account"}
        BY <2>2 DEF Begin, MergeShard, EndMerge, run, store
      <3> QED
        BY <1>0, <3>1 DEF TrailIsKept, Earns, Saving
    <2>3. CASE Account
      <3>1. phase = "account" /\ UNCHANGED <<pass, history>> /\ Len(trail) = pass - 1
        BY <1>0, <2>3 DEF Account, run, TrailIsKept
      <3>2. CASE phase' = "failed"
        BY <3>2 DEF TrailIsKept, Saving
      <3>3. CASE phase' # "failed"
        <4>1. PICK x \in Likelihoods :
                /\ trail' = Append(trail, x) /\ phase' = "counts"
                /\ row' = CASE Settled(trail') -> "converged"
                            [] ~Settled(trail') /\ pass = NIter -> "cap"
                            [] OTHER -> "continued"
          BY <2>3, <3>3 DEF Account
        <4>2. Len(trail') = pass /\ \A p \in 1..(pass - 1) : trail'[p] = trail[p]
          BY <1>0, <3>1, <4>1
        <4>3. \A p \in 1..(pass - 1) : ~Earns(p)'
          <5>1. pass - 1 \in Nat
            BY <1>0
          <5> QED
            BY <1>0, <3>1, <4>2, <5>1, EarnsFrame DEF TrailIsKept
        <4>4. Settled(trail') <=> Settled(trail)'
          BY <3>1 DEF Settled, HasConverged
        <4>5. row' = CASE Settled(trail)' -> "converged"
                       [] ~Settled(trail)' /\ pass' = NIter -> "cap"
                       [] OTHER -> "continued"
          BY <3>1, <4>1, <4>4
        <4> QED
          BY <1>0, <3>1, <4>1, <4>2, <4>3, <4>5 DEF TrailIsKept, Saving
      <3> QED
        BY <3>2, <3>3
    <2>4. CASE SaveCounts \/ Normalize \/ SaveParameters \/ InstallParameters
               \/ InstallCounts
      <3>1. /\ UNCHANGED <<pass, trail, row>> /\ phase \in Saving
            /\ \/ phase' \in Saving /\ UNCHANGED history
               \/ phase' = "retain" /\ history' = Append(history, update)
        BY <2>4 DEF SaveCounts, Normalize, SaveParameters, InstallParameters,
                    InstallCounts, run, store, Saving
      <3>2. Len(history) = pass - 1 /\ Len(trail) = pass
        BY <1>0, <3>1 DEF TrailIsKept, Saving
      <3>3. IF phase' = "retain" THEN Len(history') = pass' ELSE Len(history') = pass' - 1
        <4>1. phase' = "retain" => Len(history') = Len(history) + 1
          BY <1>0, <3>1 DEF Saving
        <4> QED
          BY <1>0, <3>1, <3>2, <4>1 DEF Saving
      <3>4. Settled(trail)' <=> Settled(trail)
        BY <3>1 DEF Settled, HasConverged
      <3>5. \A p \in 1..(pass - 1) : ~Earns(p)'
        BY <1>0, <3>1 DEF TrailIsKept, Earns, Saving
      <3>6. row' = CASE Settled(trail)' -> "converged"
                     [] ~Settled(trail)' /\ pass' = NIter -> "cap"
                     [] OTHER -> "continued"
        BY <1>0, <3>1, <3>4 DEF TrailIsKept
      <3> QED
        BY <3>1, <3>2, <3>3, <3>5, <3>6 DEF TrailIsKept, Saving
    <2>5. CASE EndPass
      <3>1. /\ phase = "retain" /\ UNCHANGED <<trail, row, history>>
            /\ Len(trail) = pass /\ Len(history) = pass
            /\ phase' = CASE Settled(trail) -> "converged"
                          [] ~Settled(trail) /\ pass = NIter -> "cap"
                          [] OTHER -> "start"
            /\ row = CASE Settled(trail) -> "converged"
                       [] ~Settled(trail) /\ pass = NIter -> "cap"
                       [] OTHER -> "continued"
            /\ \A p \in 1..(pass - 1) : ~Earns(p)
        BY <1>0, <2>5 DEF EndPass, store, TrailIsKept
      <3>2. CASE phase' = "start"
        <4>1. pass' = pass + 1 /\ ~Settled(trail)
          BY <2>5, <3>1, <3>2 DEF EndPass
        <4>2. ~Earns(pass)
          BY <1>0, <3>1, <4>1, SettledEarns
        <4>3. \A p \in 1..(pass' - 1) : ~Earns(p)'
          BY <1>0, <3>1, <4>1, <4>2 DEF Earns
        <4> QED
          BY <1>0, <3>1, <3>2, <4>1, <4>3 DEF TrailIsKept, Saving
      <3>3. CASE phase' # "start"
        <4>1. UNCHANGED pass
          BY <2>5, <3>3 DEF EndPass, run
        <4>2. Settled(trail)' <=> Settled(trail)
          BY <3>1, <4>1 DEF Settled, HasConverged
        <4>3. \A p \in 1..(pass - 1) : ~Earns(p)'
          BY <3>1 DEF Earns
        <4>4. \/ phase' = "converged" /\ Settled(trail) /\ row = "converged"
              \/ phase' = "cap" /\ ~Settled(trail) /\ pass = NIter /\ row = "cap"
          BY <3>1, <3>3
        <4> QED
          BY <1>0, <3>1, <4>1, <4>2, <4>3, <4>4 DEF TrailIsKept, Saving
      <3> QED
        BY <3>2, <3>3
    <2> QED
      BY <1>2, <2>1, <2>2, <2>3, <2>4, <2>5, StepsAtRest
  <1> QED
    BY <1>1, <1>2

-------------------------------------------------------------------------------
(* The invariant, and what follows from it.                                *)

LEMMA InitSafe == Init => Safe
  <1> SUFFICES ASSUME Init PROVE Safe
    OBVIOUS
  <1>1. TypeOK /\ opts \in Settings /\ phase = "start" /\ pass = 1
    BY InitType DEF Init
  <1>2. ASSUME NEW l \in Running PROVE LineIsAccounted(l) /\ LadderIsKept(l)
    <2>1. /\ l \in Lines /\ First(l) \in Nat /\ Last(l) \in Nat
          /\ First(l) <= Last(l) + 1 /\ Part(l) \in SUBSET Utts
      BY <1>1, Partition, SettingShape
    <2>2. /\ line[l] = "queued" /\ acc[l] = Nobody /\ rung[l] = 0 /\ beam[l] = 0
          /\ outcome = [u \in Utts |-> "none"]
      BY <2>1 DEF Init
    <2>3. Counted = {}
      BY <2>2 DEF Counted
    <2>4. acc[l] = Once(Part(l) \cap Counted)
      BY <2>2, <2>3 DEF Once, Nobody
    <2>5. \A u \in Part(l) : u \in Nat /\ u >= First(l) /\ outcome[u] = "none"
      <3>1. \A u \in Part(l) : u \in Nat /\ u >= First(l)
        BY <2>1 DEF Part
      <3> QED
        BY <2>1, <2>2, <3>1
    <2> QED
      BY <2>1, <2>2, <2>4, <2>5 DEF LineIsAccounted, LadderIsKept, Reached
  <1>3. PoolIsKept
    BY <1>1, SettingShape DEF Init, PoolIsKept, Up
  <1>4. SumIsKept
    BY <1>1, SettingShape DEF Init, SumIsKept, CountedOnce, AfterWork, Saving
  <1>5. StoreIsKept
    BY <1>1 DEF Init, StoreIsKept, FilesAgree, Saving, File
  <1>6. TrailIsKept
    <2>1. Len(trail) = 0 /\ Len(history) = 0
      BY DEF Init
    <2> QED
      BY <1>1, <2>1 DEF TrailIsKept, Saving
  <1> QED
    BY <1>1, <1>2, <1>3, <1>4, <1>5, <1>6 DEF Safe

LEMMA SafeStutters == Safe /\ UNCHANGED vars => Safe'
  <1> SUFFICES ASSUME Safe, UNCHANGED vars PROVE Safe'
    OBVIOUS
  <1>1. UNCHANGED <<phase, run, outcome, session, pool, merge, store>> /\ TypeOK
    BY DEF vars, Safe
  <1>2. TypeOK'
    BY <1>1, TypeFrames, TypeOfParts
  <1>3. Running' = Running /\ opts \in Settings
    BY <1>1, OptsFrame DEF run, TypeOK
  <1>4. \A l \in Running' : LineIsAccounted(l)' /\ LadderIsKept(l)'
    BY <1>1, <1>3, LineFrame, Partition DEF run, session, Safe
  <1>5. PoolIsKept' /\ SumIsKept'
    BY <1>1 DEF run, session, pool, merge, Safe, PoolIsKept, SumIsKept, CountedOnce,
      Pooled, Shards, Running, Serial, Counted, Part, First, Last, Quotient,
      Remainder, Once
  <1>6. StoreIsKept' /\ TrailIsKept'
    BY <1>1 DEF run, merge, store, Safe, StoreIsKept, TrailIsKept, FilesAgree, Counted,
      Skipped, Once, Earns, Settled, HasConverged
  <1> QED
    BY <1>2, <1>4, <1>5, <1>6 DEF Safe

LEMMA SafeIsInductive == Safe /\ [Next]_vars => Safe'
  <1>1. ASSUME Safe, Next PROVE Safe'
    BY <1>1, TypeStays, LinesStay, PoolStays, SumsStay, StoreStays, TrailStays DEF Safe
  <1> QED
    BY <1>1, SafeStutters

LEMMA SafeAlways == Spec => []Safe
  BY InitSafe, SafeIsInductive, PTL DEF Spec

\* Every variable is of its type in every reachable state, for every manifest,
\* number of shards and ladder (run_bw_training).
THEOREM TypeCorrect == Spec => []TypeOK
  <1>1. Safe => TypeOK
    BY DEF Safe
  <1> QED
    BY <1>1, SafeAlways, PTL

\* Whichever path runs a pass and however its workers are scheduled, each
\* utterance ends as the serial loop's would (bw_pool.py, retry_ladder.py).
THEOREM Independent == Spec => []PartitionIndependent
  <1>1. Safe => PartitionIndependent
    <2> SUFFICES ASSUME Safe, phase \in AfterWork, NEW u \in Utts
                 PROVE  outcome[u] = Reference(u)
      BY DEF PartitionIndependent
    <2>1. opts \in Settings
      BY DEF Safe, TypeOK
    <2>2. PICK l \in Running : u \in Part(l)
      BY <2>1, Partition
    <2>3. line[l] = "done" /\ at[l] = Last(l) + 1 /\ alive[l]
      BY DEF Safe, SumIsKept, LadderIsKept
    <2>4. u < at[l]
      BY <2>1, <2>2, <2>3, Partition DEF Part
    <2> QED
      BY <2>2, <2>3, <2>4 DEF Safe, LineIsAccounted, Reached
  <1> QED
    BY <1>1, SafeAlways, PTL

\* The sums that are normalised hold every utterance that counts once and no
\* other (restore_accumulators, norm over the merged shards).
THEOREM CountsOnce == Spec => []CountedOnce
  <1>1. Safe => CountedOnce
    BY DEF Safe, SumIsKept
  <1> QED
    BY <1>1, SafeAlways, PTL

\* Parameters and density counts on disk are of one pass when the stage returns,
\* and under a variance floor however it ends (_save_iteration_model).
THEOREM FilesTogether == Spec => []FilesAgree
  <1>1. Safe => FilesAgree
    BY DEF Safe, StoreIsKept
  <1> QED
    BY <1>1, SafeAlways, PTL

\* The stage converges at the first pass that earns it and at no other, and its
\* last telemetry row says how it ended (_has_converged).
THEOREM EndJustified == Spec => []EndIsJustified
  <1>1. Safe => EndIsJustified
    <2> SUFFICES ASSUME Safe, phase \in {"converged", "cap"}
                 PROVE  /\ Len(trail) = pass
                        /\ \A p \in 1..(pass - 1) : ~Earns(p)
                        /\ phase = "converged" <=> Earns(pass)
                        /\ row = phase
      BY DEF EndIsJustified
    <2>1. TypeOK /\ TrailIsKept
      BY DEF Safe
    <2>2. Len(trail) = pass
      BY <2>1 DEF TrailIsKept
    <2>3. Settled(trail) <=> Earns(pass)
      BY <2>1, <2>2, SettledEarns
    <2> QED
      BY <2>1, <2>2, <2>3 DEF TrailIsKept
  <1> QED
    BY <1>1, SafeAlways, PTL

-------------------------------------------------------------------------------
(* The refinement of Reestimation.                                         *)

LEMMA RefinesInit == Init => Abstract!Init
  <1> SUFFICES ASSUME Init PROVE Abstract!Init
    OBVIOUS
  <1>1. opts \in Settings /\ history = <<>> /\ phase = "start"
    BY DEF Init
  <1>2. opts.budget \in Nat
    BY <1>1, SettingShape
  <1> QED
    BY <1>1, <1>2 DEF Abstract!Init

\* Putting a model in place is the abstract publication: its sums count a set of
\* utterances that is not empty and leaves out no more than the budget.
LEMMA Publishes ==
    ASSUME Safe, phase \in {"parameters", "installing"}, UNCHANGED opts,
           phase' = "retain", history' = Append(history, update)
    PROVE  Abstract!Publish
  <1>1. /\ update = Once(Counted) /\ Counted # {}
        /\ Cardinality(Skipped) <= opts.budget
        /\ Len(history) = pass - 1 /\ pass \in Nat \ {0} /\ pass <= NIter
    BY CountShape DEF Safe, StoreIsKept, TrailIsKept, Saving
  <1>2. \A u \in Utts : outcome[u] \in {"processed", "retried", "skipped"}
    <2>1. opts \in Settings /\ phase \in AfterWork
      BY DEF Safe, TypeOK, AfterWork, Saving
    <2> SUFFICES ASSUME NEW u \in Utts
                 PROVE  outcome[u] \in {"processed", "retried", "skipped"}
      OBVIOUS
    <2>2. PICK l \in Running : u \in Part(l)
      BY <2>1, Partition
    <2>3. line[l] = "done" /\ at[l] = Last(l) + 1
      BY <2>1 DEF Safe, SumIsKept, LadderIsKept
    <2>4. ~(u >= at[l])
      BY <2>1, <2>2, <2>3, Partition DEF Part
    <2> QED
      BY <2>2, <2>3, <2>4 DEF Safe, LineIsAccounted, Reached, TypeOK, Outcomes
  <1>3. Utts \ Counted = Skipped /\ Counted \in SUBSET Utts
    BY <1>2 DEF Counted, Skipped
  <1>4. Abstract!Utts = Utts
    BY DEF Abstract!Utts, Utts
  <1>5. update = [u \in Abstract!Utts |-> IF u \in Counted THEN 1 ELSE 0]
    BY <1>1, <1>4 DEF Once
  <1>6. Len(history) < NIter
    BY <1>1, ConstantsAssumption
  <1>7. Abstract!Cardinality(Abstract!Utts \ Counted) <= opts.budget
    <2>1. \A S : Abstract!Cardinality(S) = Cardinality(S)
      BY DEF Abstract!Cardinality, Cardinality, Abstract!IsFiniteSet, IsFiniteSet
    <2> QED
      BY <1>1, <1>3, <1>4, <2>1
  <1> QED
    BY <1>1, <1>3, <1>4, <1>5, <1>6, <1>7 DEF Abstract!Publish

LEMMA RefinesStep ==
    ASSUME Safe, Next
    PROVE  Abstract!Next \/ UNCHANGED <<opts.budget, history,
             IF phase \in {"converged", "cap", "failed"} THEN phase ELSE "running">>
  <1> DEFINE ending == IF phase \in {"converged", "cap", "failed"} THEN phase
                                                                   ELSE "running"
  <1>1. ASSUME UNCHANGED <<opts, history>>, ending = "running", ending' = "failed"
        PROVE  Abstract!Next
    BY <1>1 DEF Abstract!Next, Abstract!End
  <1>2. CASE phase \in {"work", "reaping", "dead"}
    <2>1. /\ UNCHANGED <<opts, history>>
          /\ phase' \in {"work", "reaping", "dead", "account", "merge", "failed"}
      BY <1>2, StepsAtWork DEF run, store, EndSerial, EndShards
    <2> QED
      BY <1>1, <1>2, <2>1
  <1>3. CASE phase \notin {"work", "reaping", "dead"}
    <2>1. CASE Killed
      <3>1. /\ phase' = "dead" /\ phase \notin {"converged", "cap", "failed"}
            /\ UNCHANGED <<opts, history>>
        BY <2>1 DEF Killed, Ended, run, store
      <3> QED
        BY <3>1
    <2>2. CASE Raise \/ SaveFails
      <3>1. /\ phase' = "failed" /\ UNCHANGED <<opts, history>>
            /\ phase \notin {"converged", "cap", "failed"}
        BY <1>3, <2>2 DEF Raise, SaveFails, Saving, run, store
      <3> QED
        BY <1>1, <3>1
    <2>3. CASE Begin \/ MergeShard \/ EndMerge \/ SaveCounts \/ Normalize
               \/ InstallParameters
      <3>1. /\ UNCHANGED <<opts, history>>
            /\ phase \notin {"converged", "cap", "failed"}
            /\ phase' \notin {"converged", "cap", "failed"}
        BY <2>3 DEF Begin, MergeShard, EndMerge, SaveCounts, Normalize,
                    InstallParameters, run, store
      <3> QED
        BY <3>1
    <2>4. CASE Account
      <3>1. /\ UNCHANGED <<opts, history>> /\ phase = "account"
            /\ phase' \in {"failed", "counts"}
        BY <2>4 DEF Account, run
      <3> QED
        BY <1>1, <3>1
    <2>5. CASE SaveParameters \/ InstallCounts
      <3>1. /\ UNCHANGED opts /\ phase \in {"parameters", "installing"}
            /\ \/ phase' = "retain" /\ history' = Append(history, update)
               \/ phase' = "install" /\ UNCHANGED history
        BY <2>5 DEF SaveParameters, InstallCounts, run
      <3> QED
        BY <3>1, Publishes DEF Abstract!Next
    <2>6. CASE EndPass
      <3>1. /\ phase = "retain" /\ UNCHANGED <<opts, history>> /\ Len(history) = pass
            /\ \/ phase' = "converged" /\ Settled(trail)
               \/ phase' = "cap" /\ pass = NIter
               \/ phase' = "start"
        BY <2>6 DEF EndPass, run, store, Safe, TrailIsKept
      <3>2. pass \in Nat /\ (Settled(trail) => pass >= 2)
        BY CountShape DEF Safe, Settled
      <3>3. CASE phase' = "start"
        BY <3>1, <3>3
      <3>4. CASE phase' \in {"converged", "cap"}
        BY <3>1, <3>2, <3>4 DEF Abstract!Next, Abstract!End
      <3> QED
        BY <3>1, <3>3, <3>4
    <2> QED
      BY <1>3, <2>1, <2>2, <2>3, <2>4, <2>5, <2>6, StepsAtRest
  <1> QED
    BY <1>2, <1>3

\* However it divides the work, the stage is one re-estimation: every model it
\* publishes comes of one pass in which each utterance counts once or not at all,
\* within the skip budget, and nothing is published after the end
\* (run_bw_training).
THEOREM IsReestimation == Spec => Refines
  <1>1. Init => Abstract!Init
    BY RefinesInit
  <1>2. Safe /\ [Next]_vars => [Abstract!Next]_<<opts.budget, history,
          IF phase \in {"converged", "cap", "failed"} THEN phase ELSE "running">>
    <2>1. ASSUME UNCHANGED vars
          PROVE  UNCHANGED <<opts.budget, history,
            IF phase \in {"converged", "cap", "failed"} THEN phase ELSE "running">>
      BY <2>1 DEF vars, run, store
    <2> QED
      BY <2>1, RefinesStep
  <1> QED
    BY <1>1, <1>2, SafeAlways, PTL DEF Spec, Refines, Abstract!Spec
===============================================================================
