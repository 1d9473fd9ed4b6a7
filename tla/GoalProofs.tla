----------------------------- MODULE GoalProofs -----------------------------
(***************************************************************************)
(* Proofs about two things the watcher decides of its goals: the rungs of  *)
(* the escalation ladder (GoalEscalation), and the levels of autonomy      *)
(* (Graduation with Trust), for any goals, budgets, bounds and evidence.   *)
(***************************************************************************)
EXTENDS GoalEscalation, Trust, SequenceTheorems, WellFoundedInduction, TLAPS

-----------------------------------------------------------------------------
(* The ladder.                                                             *)


Entry ==
    [level : Diagnosis..Shelving, diagnoses : 0..MaxDiagnoses,
     redecompositions : 0..MaxRedecompositions, last : -1..MaxSnapshots]

LadderType ==
    /\ snaps \in 0..MaxSnapshots
    /\ esc \in [Goals -> Entry]
    /\ since \in [Goals -> 0..Cooldown]

\* The part of LadderInOrder that is about one entry.
Ordered(e) ==
    /\ e.redecompositions > 0 => e.diagnoses = MaxDiagnoses
    /\ e.level >= Reprioritization => e.redecompositions = MaxRedecompositions

(***************************************************************************)
(* The snapshot an escalation was recorded at never lies ahead, and since  *)
(* is no smaller than the distance the code computes: the count of         *)
(* snapshots may stop while since goes on.                                 *)
(***************************************************************************)
SinceIsLonger ==
    \A g \in Goals :
        /\ esc[g].last < 0 => since[g] = Cooldown
        /\ esc[g].last <= snaps
        /\ since[g] = Cooldown \/ since[g] >= snaps - esc[g].last

IInv == LadderType /\ LadderInOrder /\ SinceIsLonger

\* Counting an attempt keeps an entry well typed and its budgets in order.
LEMMA CountedEntry ==
    ASSUME NEW e \in Entry, Ordered(e)
    PROVE  /\ Counted(e) \in Entry
           /\ Ordered(Counted(e))
           /\ Counted(e).last = e.last
<1> DEFINE r == Rung(e)
           c == Counted(e)
<1>1. r \in Diagnosis..Shelving
  BY DEF Rung, Diagnosis, Redecomposition, Reprioritization, Shelving
<1>2. /\ c.level = r
      /\ c.diagnoses = e.diagnoses + (IF r = Diagnosis THEN 1 ELSE 0)
      /\ c.redecompositions = e.redecompositions + (IF r = Redecomposition THEN 1 ELSE 0)
      /\ c.last = e.last
  BY DEF Counted, Entry
<1>3. r = Diagnosis => e.diagnoses < MaxDiagnoses
  BY DEF Rung, Diagnosis, Redecomposition, Reprioritization, Shelving
<1>4. r = Redecomposition => e.diagnoses >= MaxDiagnoses /\ e.redecompositions < MaxRedecompositions
  BY LadderAssumption DEF Entry, Rung, Diagnosis, Redecomposition, Reprioritization, Shelving
<1>5. r >= Reprioritization => e.redecompositions >= MaxRedecompositions
  BY LadderAssumption DEF Entry, Rung, Diagnosis, Redecomposition, Reprioritization, Shelving
<1>6. c \in Entry
  <2> DEFINE d == e.diagnoses + (IF r = Diagnosis THEN 1 ELSE 0)
             m == e.redecompositions + (IF r = Redecomposition THEN 1 ELSE 0)
  <2>1. d \in 0..MaxDiagnoses
    <3> HIDE DEF r
    <3> QED BY <1>3, LadderAssumption DEF Entry
  <2>2. m \in 0..MaxRedecompositions
    <3> HIDE DEF r
    <3> QED BY <1>4, LadderAssumption DEF Entry
  <2>3. c = [e EXCEPT !.level = r, !.diagnoses = d, !.redecompositions = m]
    BY DEF Counted
  <2> HIDE DEF r, c, d, m
  <2> QED
    BY <1>1, <2>1, <2>2, <2>3 DEF Entry
<1>7. Ordered(c)
  <2> HIDE DEF r, c
  <2> QED
    BY <1>1, <1>2, <1>3, <1>4, <1>5, LadderAssumption
    DEF Ordered, Entry, Diagnosis, Redecomposition, Reprioritization, Shelving
<1> QED
  BY <1>2, <1>6, <1>7

LEMMA InitIInv == Init => IInv
<1> SUFFICES ASSUME Init PROVE IInv
  OBVIOUS
<1>1. LadderType
  BY SnapshotAssumption, LadderAssumption DEF Init, LadderType, Entry, Diagnosis, Shelving
<1>2. LadderInOrder
  BY DEF Init, LadderInOrder, Diagnosis, Reprioritization
<1>3. SinceIsLonger
  BY SnapshotAssumption, LadderAssumption DEF Init, SinceIsLonger
<1> QED
  BY <1>1, <1>2, <1>3 DEF IInv

LEMMA NextIInv == IInv /\ [Next]_vars => IInv'
<1> SUFFICES ASSUME IInv, [Next]_vars PROVE IInv'
  OBVIOUS
<1>o. \A g \in Goals : esc[g] \in Entry /\ Ordered(esc[g])
  BY DEF IInv, LadderType, LadderInOrder, Ordered
<1>1. ASSUME UNCHANGED <<snaps, esc, since>> PROVE IInv'
  BY <1>1 DEF IInv, LadderType, LadderInOrder, SinceIsLonger
<1>2. ASSUME NEW g \in Goals, Evaluate(g) PROVE IInv'
  <2> DEFINE q == [Counted(esc[g]) EXCEPT !.last = snaps]
  <2>1. /\ esc' = [esc EXCEPT ![g] = q]
        /\ since' = [since EXCEPT ![g] = 0]
        /\ snaps' = snaps
    BY <1>2 DEF Evaluate
  <2>2. Counted(esc[g]) \in Entry /\ Ordered(Counted(esc[g]))
    BY <1>o, CountedEntry
  <2>3. q \in Entry /\ Ordered(q) /\ q.last = snaps
    BY <2>2, SnapshotAssumption DEF IInv, LadderType, Entry, Ordered
  <2> HIDE DEF q
  <2>4. LadderType'
    BY <2>1, <2>3, LadderAssumption DEF IInv, LadderType
  <2>5. LadderInOrder'
    BY <2>1, <2>3, <1>o DEF IInv, LadderType, LadderInOrder, Ordered
  <2>6. SinceIsLonger'
    BY <2>1, <2>3, SnapshotAssumption DEF IInv, LadderType, SinceIsLonger
  <2> QED
    BY <2>4, <2>5, <2>6 DEF IInv
<1>3. ASSUME NEW g \in Goals, Abandon(g) PROVE IInv'
  <2> DEFINE q == Counted(esc[g])
  <2>1. /\ snaps' = snaps
        /\ since' = since
        /\ esc' = esc \/ esc' = [esc EXCEPT ![g] = q]
    BY <1>3 DEF Abandon
  <2>2. q \in Entry /\ Ordered(q) /\ q.last = esc[g].last
    BY <1>o, CountedEntry
  <2> HIDE DEF q
  <2>3. CASE esc' = esc
    BY <2>1, <2>3, <1>1
  <2>4. CASE esc' = [esc EXCEPT ![g] = q]
    <3>1. LadderType'
      BY <2>1, <2>2, <2>4 DEF IInv, LadderType
    <3>2. LadderInOrder'
      BY <2>2, <2>4, <1>o DEF IInv, LadderType, LadderInOrder, Ordered
    <3>3. SinceIsLonger'
      BY <2>1, <2>2, <2>4 DEF IInv, LadderType, SinceIsLonger
    <3> QED
      BY <3>1, <3>2, <3>3 DEF IInv
  <2> QED
    BY <2>1, <2>3, <2>4
<1>4. ASSUME Review PROVE IInv'
  <2>1. /\ esc' = esc
        /\ snaps' = IF snaps < MaxSnapshots THEN snaps + 1 ELSE snaps
        /\ since' = [g \in Goals |-> IF since[g] < Cooldown THEN since[g] + 1 ELSE since[g]]
    BY <1>4 DEF Review
  <2>2. LadderType'
    BY <2>1, SnapshotAssumption, LadderAssumption DEF IInv, LadderType
  <2>3. LadderInOrder'
    BY <2>1 DEF IInv, LadderInOrder
  <2>4. SinceIsLonger'
    BY <2>1, <1>o, SnapshotAssumption, LadderAssumption DEF IInv, LadderType, Entry, SinceIsLonger
  <2> QED
    BY <2>2, <2>3, <2>4 DEF IInv
<1> QED
  BY <1>1, <1>2, <1>3, <1>4
  DEF Next, vars, StartCycle, Defer, ApplyChanges, ReviewFails, NoReviewDue, Work

(***************************************************************************)
(* The ladder is climbed rung by rung whatever the model answers and       *)
(* however often the stage is abandoned.                                   *)
(***************************************************************************)
THEOREM BudgetInOrder == Spec => []LadderInOrder
<1>1. IInv => LadderInOrder
  BY DEF IInv
<1> QED
  BY <1>1, InitIInv, NextIInv, PTL DEF Spec

(***************************************************************************)
(* The cooldown, measured by the code on a list that stops growing, is     *)
(* never shorter than Cooldown recorded reviews.                           *)
(***************************************************************************)
THEOREM CooldownHolds == Spec => CooldownKept
<1>1. IInv => \A g \in Goals : Evaluate(g) => since[g] = Cooldown
  <2> SUFFICES ASSUME IInv, NEW g \in Goals, Evaluate(g) PROVE since[g] = Cooldown
    OBVIOUS
  <2>1. esc[g] \in Entry /\ since[g] \in 0..Cooldown /\ snaps \in 0..MaxSnapshots
    BY DEF IInv, LadderType
  <2>2. esc[g].last < 0 \/ snaps - esc[g].last >= Cooldown
    BY DEF Evaluate, CooledDown
  <2> QED
    BY <2>1, <2>2, LadderAssumption, SnapshotAssumption DEF IInv, SinceIsLonger, Entry
<1>2. IInv /\ [Next]_vars => [\A g \in Goals : Evaluate(g) => since[g] = Cooldown]_vars
  BY <1>1
<1> QED
  BY <1>2, InitIInv, NextIInv, PTL DEF Spec, CooldownKept

-----------------------------------------------------------------------------
(* The trust score.                                                        *)

LEMMA Products ==
    /\ \A a \in Nat, b \in Nat : a * b \in Nat
    /\ \A a \in Nat \ {0}, b \in Nat \ {0} : a * b \in Nat \ {0}
OBVIOUS

\* A signal in which nothing is positive is worth three quarters at most.
LEMMA SignalWithoutSuccess ==
    ASSUME NEW n \in Nat, NEW k \in Nat
    PROVE  /\ Of(n) \in Nat \ {0} /\ Positive(0, n) \in Nat
           /\ 4 * (Positive(0, n) * k) <= 3 * (Of(n) * k)
<1>1. CASE n = 0
  BY <1>1 DEF Of, Positive
<1>2. CASE n # 0
  <2>1. Of(n) = n /\ Positive(0, n) = 0 /\ n * k \in Nat
    BY <1>2, Products DEF Of, Positive
  <2> QED
    BY <1>2, <2>1
<1> QED
  BY <1>1, <1>2

\* Three quarters in thousandths, rounded, fall short of full autonomy.
LEMMA RoundedQuotient ==
    ASSUME NEW s \in Nat, NEW w \in Nat \ {0}, 4 * s <= 300 * w
    PROVE  (20 * s + w) \div (2 * w) < 800 /\ (20 * s + w) \div (2 * w) \in Int
<1> DEFINE q == (20 * s + w) \div (2 * w)
<1>1. q \in Int /\ (2 * w) * q <= 20 * s + w
  OBVIOUS
<1> HIDE DEF q
<1>2. ASSUME q >= 800 PROVE FALSE
  <2>1. (2 * w) * q >= (2 * w) * 800
    BY <1>1, <1>2
  <2> QED
    BY <1>1, <2>1
<1> QED
  BY <1>1, <1>2 DEF q


(***************************************************************************)
(* The weights of the score: however many entries the logs hold, evidence  *)
(* in which nothing went well does not suggest full autonomy, although     *)
(* what has no data counts as three quarters.                              *)
(***************************************************************************)
THEOREM NothingWellNoAutonomy ==
    \A e \in Evidences : Successes(e) <= 0 => Band(e) < 3
<1> SUFFICES ASSUME NEW e \in Evidences, Successes(e) <= 0 PROVE Band(e) < 3
  OBVIOUS
<1>1. e.passes = 0 /\ e.decided - e.refused = 0 /\ e.wins = 0
  BY DEF Evidences, Successes
<1> DEFINE v == Of(e.verified) a == Of(e.decided) r == Of(e.runs) s == Of(e.steps)
           pv == Positive(0, e.verified) pa == Positive(0, e.decided)
           pr == Positive(0, e.runs) ps == Positive(0, e.steps)
           w == v * a * r * s
           sum == 35 * pv * a * r * s + 25 * pa * v * r * s
                + 25 * pr * v * a * s + 15 * ps * v * a * r
<1>2. Score(e) = (20 * sum + w) \div (2 * w)
  BY <1>1 DEF Score, StepsDone
<1>3. /\ v \in Nat \ {0} /\ a \in Nat \ {0} /\ r \in Nat \ {0} /\ s \in Nat \ {0}
      /\ pv \in Nat /\ pa \in Nat /\ pr \in Nat /\ ps \in Nat
  BY SignalWithoutSuccess DEF Evidences
<1>4. /\ 4 * (pv * (a * r * s)) <= 3 * (v * (a * r * s))
      /\ 4 * (pa * (v * r * s)) <= 3 * (a * (v * r * s))
      /\ 4 * (pr * (v * a * s)) <= 3 * (r * (v * a * s))
      /\ 4 * (ps * (v * a * r)) <= 3 * (s * (v * a * r))
  <2>1. (a * r * s) \in Nat /\ (v * r * s) \in Nat /\ (v * a * s) \in Nat /\ (v * a * r) \in Nat
    BY <1>3, Products
  <2> HIDE DEF v, a, r, s
  <2>2. /\ e.verified \in Nat /\ e.decided \in Nat /\ e.runs \in Nat /\ e.steps \in Nat
    BY DEF Evidences
  <2> QED
    BY <2>1, <2>2, SignalWithoutSuccess DEF v, a, r, s
<1> HIDE DEF v, a, r, s, pv, pa, pr, ps
<1>5. w \in Nat \ {0}
  <2>1. v * a \in Nat \ {0}
    BY <1>3, Products
  <2>2. v * a * r \in Nat \ {0}
    BY <1>3, <2>1, Products
  <2> QED
    BY <1>3, <2>2, Products
<1>6. /\ v * (a * r * s) = w /\ a * (v * r * s) = w /\ r * (v * a * s) = w /\ s * (v * a * r) = w
  BY <1>3
<1>7. sum = 35 * (pv * (a * r * s)) + 25 * (pa * (v * r * s))
          + 25 * (pr * (v * a * s)) + 15 * (ps * (v * a * r))
  BY <1>3
<1>8. sum \in Nat /\ 4 * sum <= 300 * w
  <2>1. /\ pv * (a * r * s) \in Nat /\ pa * (v * r * s) \in Nat
        /\ pr * (v * a * s) \in Nat /\ ps * (v * a * r) \in Nat
    BY <1>3, Products
  <2> DEFINE p1 == pv * (a * r * s)  p2 == pa * (v * r * s)
             p3 == pr * (v * a * s)  p4 == ps * (v * a * r)
  <2>2. 4 * p1 <= 3 * w /\ 4 * p2 <= 3 * w /\ 4 * p3 <= 3 * w /\ 4 * p4 <= 3 * w
    BY <1>4, <1>6
  <2>3. /\ sum = 35 * p1 + 25 * p2 + 25 * p3 + 15 * p4
        /\ p1 \in Nat /\ p2 \in Nat /\ p3 \in Nat /\ p4 \in Nat
    BY <1>7, <2>1
  <2> HIDE DEF w, sum, p1, p2, p3, p4
  <2> QED
    BY <1>5, <2>2, <2>3
<1>9. Score(e) < 800 /\ Score(e) \in Int
  <2> HIDE DEF w, sum
  <2> QED
    BY <1>2, <1>5, <1>8, RoundedQuotient
<1> QED
  BY <1>9 DEF Band, Suggested

\* The levels the score suggests are levels.
LEMMA BandType == ASSUME NEW e \in Evidences PROVE Band(e) \in Levels
BY DEF Band, Suggested, Levels

-----------------------------------------------------------------------------
(* The levels of the goals.                                                *)

CONSTANTS Scheduled, Evidence, DefaultLevel, GraduationCooldown, MaxHistory
VARIABLES evidence, level, events, snapshots, idle

Bands == [e \in Evidence |-> Band(e)]
G == INSTANCE Graduation
         WITH Goals <- Scheduled, Cooldown <- GraduationCooldown, BandOf <- Bands

levelVars == <<evidence, level, events, snapshots, idle>>
LevelSpec == G!Init /\ [][G!JudgeAll]_levelVars

\* What Learning assumes.
LevelAssumption == G!GraduationAssumption /\ Scheduled \in Seq(G!GoalSet)

LevelType == level \in [G!GoalSet -> Levels \cup {G!None}]

LEMMA LeastNatural ==
    ASSUME NEW T, T \subseteq Nat, T # {}
    PROVE  \E n \in T : \A m \in T : n <= m
<1> DEFINE R == OpToRel(<, Nat)
<1>1. IsWellFoundedOn(R, Nat)
  BY NatLessThanWellFounded
<1> HIDE DEF R
<1>2. PICK n \in T : \A m \in T : ~ (<<m, n>> \in R)
  BY <1>1, WFMin
<1>3. ASSUME NEW m \in T PROVE n <= m
  <2>1. m < n => <<m, n>> \in R
    BY DEF R, OpToRel
  <2> QED
    BY <1>2, <2>1
<1> QED
  BY <1>2, <1>3

\* Induction over the natural numbers, for a set of them.
LEMMA NatSetInduction ==
    ASSUME NEW T, 0 \in T, \A n \in Nat : n \in T => n + 1 \in T
    PROVE  Nat \subseteq T
<1> SUFFICES ASSUME Nat \ T # {} PROVE FALSE
  OBVIOUS
<1>1. PICK n \in Nat \ T : \A m \in Nat \ T : n <= m
  BY LeastNatural
<1>2. n - 1 \in Nat /\ n - 1 \notin Nat \ T
  BY <1>1
<1> QED
  BY <1>1, <1>2

\* The recursive function that goes through the goals exists.
LEMMA JudgedUpToDef ==
    ASSUME NEW st, NEW shots, NEW ev, Len(Scheduled) \in Nat
    PROVE  G!JudgedUpTo(st, shots, ev) = [i \in 0..Len(Scheduled) |->
               IF i = 0 THEN st
               ELSE G!Judge(G!JudgedUpTo(st, shots, ev)[i - 1], shots, ev, Scheduled[i])]
<1> DEFINE Fits(f, n) ==
             f = [i \in 0..n |-> IF i = 0 THEN st ELSE G!Judge(f[i - 1], shots, ev, Scheduled[i])]
           T == {n \in Nat : \E f : Fits(f, n)}
<1>1. 0 \in T
  <2>1. Fits([i \in 0..0 |-> st], 0)
    OBVIOUS
  <2> QED
    BY <2>1
<1>2. ASSUME NEW n \in Nat, n \in T PROVE n + 1 \in T
  <2>1. PICK f : Fits(f, n)
    BY <1>2
  <2> DEFINE g == [i \in 0..n + 1 |->
                     IF i = n + 1 THEN G!Judge(f[n], shots, ev, Scheduled[n + 1]) ELSE f[i]]
  <2>2. \A i \in 0..n : f[i] = IF i = 0 THEN st ELSE G!Judge(f[i - 1], shots, ev, Scheduled[i])
    BY <2>1, Zenon
  <2>3. ASSUME NEW i \in 0..n + 1
        PROVE  g[i] = IF i = 0 THEN st ELSE G!Judge(g[i - 1], shots, ev, Scheduled[i])
    <3>1. CASE i = n + 1
      BY <3>1
    <3>2. CASE i # n + 1
      <4>1. i \in 0..n /\ (i # 0 => i - 1 \in 0..n /\ i - 1 # n + 1)
        BY <3>2
      <4> QED
        BY <2>2, <4>1
    <3> QED
      BY <3>1, <3>2
  <2>4. Fits(g, n + 1)
    BY <2>3
  <2>5. \E f1 : Fits(f1, n + 1)
    BY <2>4
  <2> QED
    BY <2>5
<1>3. \E f : Fits(f, Len(Scheduled))
  BY <1>1, <1>2, NatSetInduction
<1>4. G!JudgedUpTo(st, shots, ev) = CHOOSE f : Fits(f, Len(Scheduled))
  BY DEF G!JudgedUpTo
<1> HIDE DEF Fits
<1>5. Fits(G!JudgedUpTo(st, shots, ev), Len(Scheduled))
  BY <1>3, <1>4
<1> QED
  BY <1>5 DEF Fits

\* How the levels of all goals may change when goal g is judged.
OneJudged(old, new, ev, g) ==
    /\ new \in [G!GoalSet -> Levels \cup {G!None}]
    /\ \A h \in G!GoalSet : h # g => new[h] = old[h]
    /\ new[g] = 3 => new[g] = old[g] \/ Band(ev[g]) = 3

\* Judging a goal changes its level only, and takes it to the highest only on
\* evidence that suggests it.
LEMMA JudgeOne ==
    ASSUME LevelAssumption, NEW st, st.levels \in [G!GoalSet -> Levels \cup {G!None}],
           NEW shots, NEW ev \in [G!GoalSet -> Evidence], NEW g \in G!GoalSet,
           NEW new, new = G!Judge(st, shots, ev, g)
    PROVE  OneJudged(st.levels, new.levels, ev, g)
<1> DEFINE now == G!LevelOf(st.levels, g) band == Bands[ev[g]]
<1>1. now \in Levels /\ band = Band(ev[g]) /\ band \in Levels
  BY BandType DEF LevelAssumption, G!GraduationAssumption, G!LevelOf, G!Evidences, Evidences, Bands,
     G!Levels, Levels
<1>2. \A l : G!Apply(st, g, l).levels = [st.levels EXCEPT ![g] = l]
  BY DEF G!Apply
<1>3. \/ new = st
      \/ now > 0 /\ band < now /\ new = G!Apply(st, g, now - 1)
      \/ band # now /\ new = G!Apply(st, g, G!Target(now, band))
  BY <1>1 DEF G!Judge, Levels, G!LevelOf, G!None
<1>4. band # now => G!Target(now, band) \in Levels /\ (G!Target(now, band) = 3 => band = 3)
  BY <1>1 DEF G!Target, Levels
<1> HIDE DEF now, band
<1>5. CASE new = st
  BY <1>5 DEF OneJudged
<1>6. ASSUME NEW l \in Levels, l = 3 => band = 3, new = G!Apply(st, g, l)
      PROVE  OneJudged(st.levels, new.levels, ev, g)
  <2>1. new.levels = [st.levels EXCEPT ![g] = l]
    BY <1>2, <1>6
  <2> QED
    BY <1>1, <1>6, <2>1 DEF OneJudged
<1>7. CASE now > 0 /\ band < now /\ new = G!Apply(st, g, now - 1)
  <2>1. now - 1 \in Levels /\ now - 1 # 3
    BY <1>1, <1>7 DEF Levels
  <2> QED
    BY <1>6, <1>7, <2>1
<1>8. CASE band # now /\ new = G!Apply(st, g, G!Target(now, band))
  BY <1>4, <1>6, <1>8
<1> QED
  BY <1>3, <1>5, <1>7, <1>8

\* Judging all goals: the same, for each of them.
LEMMA JudgeEach ==
    ASSUME LevelAssumption, LevelType, NEW st, st.levels = level, NEW shots,
           NEW ev \in [G!GoalSet -> Evidence]
    PROVE  LET end == G!JudgedUpTo(st, shots, ev)[Len(Scheduled)] IN
           /\ end.levels \in [G!GoalSet -> Levels \cup {G!None}]
           /\ \A g \in G!GoalSet : end.levels[g] = 3 => level[g] = 3 \/ Band(ev[g]) = 3
<1> DEFINE f == G!JudgedUpTo(st, shots, ev)
           Fine(x) == /\ x.levels \in [G!GoalSet -> Levels \cup {G!None}]
                      /\ \A g \in G!GoalSet : x.levels[g] = 3 => level[g] = 3 \/ Band(ev[g]) = 3
           T == {n \in Nat : n <= Len(Scheduled) => Fine(f[n])}
<1>1. Len(Scheduled) \in Nat
  BY DEF LevelAssumption
<1>2. \A i \in 0..Len(Scheduled) :
         f[i] = IF i = 0 THEN st ELSE G!Judge(f[i - 1], shots, ev, Scheduled[i])
  <2>1. f = [i \in 0..Len(Scheduled) |->
               IF i = 0 THEN st ELSE G!Judge(f[i - 1], shots, ev, Scheduled[i])]
    BY <1>1, JudgedUpToDef
  <2> HIDE DEF f
  <2> QED
    BY <2>1, Zenon
<1> HIDE DEF f
<1>3. 0 \in T
  BY <1>1, <1>2 DEF LevelType
<1>4. ASSUME NEW n \in Nat, n \in T PROVE n + 1 \in T
  <2> SUFFICES ASSUME n + 1 <= Len(Scheduled) PROVE Fine(f[n + 1])
    OBVIOUS
  <2>1. Fine(f[n]) /\ f[n + 1] = G!Judge(f[n], shots, ev, Scheduled[n + 1])
    BY <1>1, <1>2, <1>4
  <2>2. Scheduled[n + 1] \in G!GoalSet
    BY <1>1 DEF LevelAssumption
  <2> DEFINE x == f[n]  y == f[n + 1]  h == Scheduled[n + 1]
  <2>3. /\ x.levels \in [G!GoalSet -> Levels \cup {G!None}] /\ h \in G!GoalSet
        /\ y = G!Judge(x, shots, ev, h)
    BY <2>1, <2>2
  <2> HIDE DEF x, y, h
  <2>4. OneJudged(x.levels, y.levels, ev, h)
    BY <2>3, JudgeOne
  <2> QED
    BY <2>1, <2>3, <2>4 DEF x, y, OneJudged
<1>5. Len(Scheduled) \in T
  BY <1>1, <1>3, <1>4, NatSetInduction
<1> QED
  BY <1>1, <1>5 DEF f

LEMMA LevelStep ==
    ASSUME LevelAssumption, LevelType, G!JudgeAll
    PROVE  /\ LevelType' /\ evidence' \in [G!GoalSet -> Evidence]
           /\ \A g \in G!GoalSet : level'[g] = 3 => level[g] = 3 \/ Band(evidence'[g]) = 3
<1> DEFINE aged == [i \in DOMAIN events |-> [events[i] EXCEPT !.age = G!Older(@)]]
           st == [levels |-> level, log |-> aged]
<1>1. /\ evidence' \in [G!GoalSet -> Evidence]
      /\ level' = G!JudgedUpTo(st, snapshots', evidence')[Len(Scheduled)].levels
  BY DEF G!JudgeAll
<1>2. st.levels = level
  OBVIOUS
<1> HIDE DEF st
<1> QED
  BY <1>1, <1>2, JudgeEach DEF LevelType

(***************************************************************************)
(* AutonomyEarned of Learning, for any number of goals, any evidence and   *)
(* any cooldown, stability or history: a goal is not raised to the highest *)
(* level in a cycle in which the logs hold nothing that went well.         *)
(***************************************************************************)
THEOREM FullAutonomyIsEarned ==
    ASSUME LevelAssumption
    PROVE  LevelSpec =>
             [][\A g \in G!GoalSet : G!FullRise(g) => Successes(evidence'[g]) > 0]_levelVars
<1>1. G!Init => LevelType
  BY DEF G!Init, LevelType
<1>2. LevelType /\ [G!JudgeAll]_levelVars => LevelType'
  BY LevelStep DEF LevelType, levelVars
<1>3. LevelType /\ G!JudgeAll =>
         \A g \in G!GoalSet : G!FullRise(g) => Successes(evidence'[g]) > 0
  <2> SUFFICES ASSUME LevelType, G!JudgeAll, NEW g \in G!GoalSet, G!FullRise(g)
               PROVE  Successes(evidence'[g]) > 0
    OBVIOUS
  <2>1. level'[g] = 3 /\ level[g] # 3
    BY DEF G!FullRise, G!Rises, G!LevelOf, G!None
  <2>2. evidence'[g] \in Evidences /\ Band(evidence'[g]) = 3
    BY <2>1, LevelStep DEF LevelAssumption, G!GraduationAssumption, G!Evidences, Evidences
  <2>3. Successes(evidence'[g]) \in Int
    BY <2>2 DEF Successes, Evidences
  <2> QED
    BY <2>2, <2>3, NothingWellNoAutonomy
<1>4. LevelType /\ [G!JudgeAll]_levelVars =>
         [\A g \in G!GoalSet : G!FullRise(g) => Successes(evidence'[g]) > 0]_levelVars
  BY <1>3
<1> QED
  BY <1>1, <1>2, <1>4, PTL DEF LevelSpec
(***************************************************************************)
(* The cooldown.  The change of a goal's level is found again only while   *)
(* the goals that share the history have not pushed it out.                *)
(***************************************************************************)
Events == [goal : G!GoalSet, age : 0..GraduationCooldown]

\* The goals are different, and few enough for the history.
HistoryHolds ==
    /\ \A i, j \in 1..Len(Scheduled) : Scheduled[i] = Scheduled[j] => i = j
    /\ (Len(Scheduled) - 1) * (GraduationCooldown - 1) < MaxHistory

\* The newest change of goal g is a cycles old and at most n others follow it.
Noted(log, g, a, n) ==
    \E i \in DOMAIN log :
        /\ log[i].goal = g /\ G!IsLatest(log, i)
        /\ log[i].age = a /\ Len(log) - i <= n

\* The changes of the other goals in k cycles.
Others(k) == (Len(Scheduled) - 1) * k

\* The change of a goal whose level changed recently is in the history, behind no
\* more others than can have followed it.
ChangesNoted ==
    \A p \in 1..Len(Scheduled) :
        LET g == Scheduled[p] IN
        idle[g] <= GraduationCooldown - 2 =>
            Noted(events, g, idle[g], Others(idle[g]) + Len(Scheduled) - p)

CooldownInv ==
    /\ LevelType /\ ChangesNoted
    /\ events \in Seq(Events) /\ idle \in [G!GoalSet -> 0..GraduationCooldown]

LEMMA NotedLonger ==
    ASSUME NEW log, Len(log) \in Nat, NEW g, NEW a, NEW n \in Int, Noted(log, g, a, n),
           NEW m \in Int, n <= m, DOMAIN log \subseteq Nat
    PROVE  Noted(log, g, a, m)
BY DEF Noted

\* One more change, of goal h, in a history that may be full.
LEMMA NotedChange ==
    ASSUME LevelAssumption, NEW log \in Seq(Events), NEW h \in G!GoalSet,
           NEW new, new = G!Trim(Append(log, [goal |-> h, age |-> 0]))
    PROVE  /\ new \in Seq(Events) /\ Noted(new, h, 0, 0)
           /\ \A g, a : \A n \in Nat : g # h /\ Noted(log, g, a, n) /\ n + 1 < MaxHistory
                                 => Noted(new, g, a, n + 1)
<1> DEFINE e == [goal |-> h, age |-> 0]
           long == Append(log, e)
           cut == IF Len(long) > MaxHistory THEN Len(long) - MaxHistory ELSE 0
<1>1. GraduationCooldown \in Nat \ {0} /\ MaxHistory \in Nat \ {0}
  BY DEF LevelAssumption, G!GraduationAssumption
<1>2. e \in Events /\ e.goal = h /\ e.age = 0
  BY <1>1 DEF Events
<1> HIDE DEF e
<1>3. /\ long \in Seq(Events) /\ Len(long) = Len(log) + 1 /\ Len(log) \in Nat
      /\ \A i \in 1..Len(log) : long[i] = log[i]
      /\ long[Len(log) + 1] = e
  BY <1>2
<1> HIDE DEF long
<1>4. \/ Len(long) > MaxHistory /\ cut = Len(long) - MaxHistory
         /\ new = SubSeq(long, cut + 1, Len(long))
      \/ ~ (Len(long) > MaxHistory) /\ cut = 0 /\ new = long
  <2>1. new = IF Len(long) > MaxHistory
              THEN SubSeq(long, Len(long) - MaxHistory + 1, Len(long)) ELSE long
    BY DEF G!Trim, G!Newest, long, e
  <2> QED
    BY <2>1
<1>5. cut \in Nat /\ cut <= Len(log) /\ cut <= Len(long) - 1
  BY <1>1, <1>3
<1> HIDE DEF cut
<1>6. /\ new \in Seq(Events) /\ Len(new) = Len(long) - cut /\ Len(new) <= MaxHistory
      /\ \A i \in 1..Len(new) : new[i] = long[i + cut]
  <2>1. CASE Len(long) > MaxHistory
    <3> DEFINE m == cut + 1  n == Len(long)
    <3>1. new = SubSeq(long, m, n) /\ cut = n - MaxHistory
      BY <1>4, <2>1
    <3>2. \A i \in m..n : long[i] \in Events
      BY <1>3, <1>5
    <3>3. n \in Int /\ m \in Int /\ m <= n /\ n - m + 1 = n - cut
      BY <1>3, <1>5
    <3> HIDE DEF m, n
    <3>4. /\ new \in Seq(Events) /\ Len(new) = n - m + 1
          /\ \A i \in 1..n - m + 1 : new[i] = long[m + i - 1]
      <4>1. SubSeq(long, m, n) \in Seq(Events)
        BY <3>2, <3>3, SubSeqProperties, Zenon
      <4>2. Len(SubSeq(long, m, n)) = IF m <= n THEN n - m + 1 ELSE 0
        BY <3>2, <3>3, SubSeqProperties, Zenon
      <4>3. \A i \in 1..n - m + 1 : SubSeq(long, m, n)[i] = long[m + i - 1]
        BY <3>2, <3>3, SubSeqProperties
      <4>4. Len(new) = n - m + 1
        BY <3>1, <3>3, <4>2, Zenon
      <4> QED
        BY <3>1, <4>1, <4>3, <4>4, Zenon
    <3>5. \A i \in 1..Len(new) : m + i - 1 = i + cut
      BY <1>5 DEF m
    <3>6. Len(new) = n - cut /\ Len(new) <= MaxHistory
      BY <1>1, <1>5, <3>1, <3>3, <3>4
    <3> QED
      BY <3>3, <3>4, <3>5, <3>6 DEF n
  <2>2. CASE ~ (Len(long) > MaxHistory)
    <3>1. new = long /\ cut = 0
      BY <1>4, <2>2
    <3>2. Len(long) \in Nat /\ Len(long) <= MaxHistory
      BY <1>1, <1>3, <2>2
    <3>3. \A i \in 1..Len(long) : long[i] = long[i + 0]
      BY <3>2
    <3>4. new \in Seq(Events)
      BY <1>3, <3>1, Zenon
    <3>5. Len(new) = Len(long) - cut
      BY <3>1, <3>2
    <3>6. \A i \in 1..Len(new) : new[i] = long[i + cut]
      BY <3>1, <3>3, Zenon
    <3> QED
      BY <3>1, <3>2, <3>4, <3>5, <3>6, Zenon
  <2> QED
    BY <2>1, <2>2
<1>7. Len(new) \in 1..MaxHistory /\ DOMAIN new = 1..Len(new) /\ DOMAIN log = 1..Len(log)
  BY <1>1, <1>3, <1>5, <1>6
<1>8. new[Len(new)] = e
  BY <1>3, <1>5, <1>6, <1>7
<1>9. Noted(new, h, 0, 0)
  BY <1>2, <1>7, <1>8 DEF Noted, G!IsLatest
<1>10. ASSUME NEW g, NEW a, NEW n \in Nat, g # h, Noted(log, g, a, n), n + 1 < MaxHistory
       PROVE  Noted(new, g, a, n + 1)
  <2>1. PICK i \in 1..Len(log) : /\ log[i].goal = g /\ G!IsLatest(log, i)
                                 /\ log[i].age = a /\ Len(log) - i <= n
    BY <1>7, <1>10 DEF Noted
  <2>2. i - cut \in 1..Len(new) /\ Len(new) - (i - cut) <= n + 1
    <3>1. cut = 0 \/ Len(new) = MaxHistory
      BY <1>1, <1>3, <1>4, <1>6
    <3> QED
      BY <1>1, <1>3, <1>5, <1>6, <1>10, <2>1, <3>1
  <2>3. new[i - cut] = log[i]
    BY <1>3, <1>5, <1>6, <2>1, <2>2
  <2>4. G!IsLatest(new, i - cut)
    <3> SUFFICES ASSUME NEW j \in (i - cut) + 1..Len(new) PROVE new[j].goal # g
      BY <2>1, <2>3 DEF G!IsLatest
    <3>1. j \in 1..Len(new) /\ new[j] = long[j + cut]
      BY <1>5, <1>6, <2>2
    <3>2. CASE j + cut = Len(log) + 1
      BY <1>2, <1>3, <1>10, <3>1, <3>2
    <3>3. CASE j + cut # Len(log) + 1
      <4>1. Len(new) = Len(log) + 1 - cut /\ Len(log) \in Nat
        <5>1. Len(new) = Len(long) - cut
          BY <1>6
        <5>2. Len(long) = Len(log) + 1 /\ Len(log) \in Nat
          BY <1>3
        <5> QED
          BY <1>5, <5>1, <5>2
      <4>2. j + cut \in i + 1..Len(log)
        BY <1>5, <2>1, <3>1, <3>3, <4>1
      <4> QED
        BY <1>3, <2>1, <3>1, <4>2 DEF G!IsLatest
    <3> QED
      BY <3>2, <3>3
  <2> QED
    BY <1>7, <2>1, <2>2, <2>3, <2>4 DEF Noted
<1> QED
  BY <1>6, <1>9, <1>10

LEMMA OthersFacts ==
    ASSUME LevelAssumption, HistoryHolds, Len(Scheduled) \in Nat \ {0}
    PROVE  /\ \A k \in Nat : Others(k) \in Nat /\ Others(k + 1) = Others(k) + Len(Scheduled) - 1
           /\ Others(0) = 0
           /\ \A k \in 0..GraduationCooldown - 1 : Others(k) < MaxHistory
<1> DEFINE n == Len(Scheduled) - 1  c == GraduationCooldown - 1
<1>1. n \in Nat /\ c \in Nat /\ n * c < MaxHistory /\ MaxHistory \in Nat
  BY DEF LevelAssumption, G!GraduationAssumption, HistoryHolds
<1>2. \A k : Others(k) = n * k
  BY DEF Others
<1> HIDE DEF n, c
<1>3. \A k \in Nat : n * k \in Nat /\ n * (k + 1) = n * k + n
  BY <1>1
<1>4. n * 0 = 0
  BY <1>1
<1>5. ASSUME NEW k \in 0..c PROVE n * k < MaxHistory
  <2>1. c - k \in Nat /\ n * (c - k) \in Nat
    BY <1>1, <1>5
  <2>2. n * c = n * k + n * (c - k)
    BY <1>1, <1>5, <2>1
  <2>3. n * k \in Nat /\ n * c \in Nat
    BY <1>1, <1>3, <1>5
  <2> QED
    BY <1>1, <2>1, <2>2, <2>3
<1>6. \A k \in Nat : Others(k) \in Nat /\ Others(k + 1) = Others(k) + n
  BY <1>2, <1>3
<1>7. Others(0) = 0 /\ \A k \in 0..c : Others(k) < MaxHistory
  BY <1>2, <1>4, <1>5
<1>8. n = Len(Scheduled) - 1 /\ c = GraduationCooldown - 1
  BY DEF n, c
<1>9. \A k \in Nat : Others(k) + n = Others(k) + Len(Scheduled) - 1
  BY <1>6, <1>8
<1> QED
  BY <1>6, <1>7, <1>8, <1>9

\* A level that is judged is changed to another, and to a higher one only when
\* the goal is not cooling down.
OneChange(x, y, h) ==
    \/ y = x
    \/ \E l \in Levels :
          /\ y = G!Apply(x, h, l) /\ l # G!LevelOf(x.levels, h)
          /\ l > G!LevelOf(x.levels, h) => ~ G!CoolingDown(x, h)

LEMMA JudgeChanges ==
    ASSUME LevelAssumption, NEW x, x.levels \in [G!GoalSet -> Levels \cup {G!None}],
           NEW shots, NEW ev \in [G!GoalSet -> Evidence], NEW h \in G!GoalSet
    PROVE  OneChange(x, G!Judge(x, shots, ev, h), h)
<1> DEFINE now == G!LevelOf(x.levels, h) band == Bands[ev[h]]
           y == G!Judge(x, shots, ev, h)
<1>1. now \in Levels /\ band \in Levels
  BY BandType DEF LevelAssumption, G!GraduationAssumption, G!LevelOf, G!Evidences, Evidences, Bands,
     G!Levels, Levels
<1>2. \/ y = x
      \/ now > 0 /\ band < now /\ y = G!Apply(x, h, now - 1)
      \/ /\ band # now /\ y = G!Apply(x, h, G!Target(now, band))
         /\ G!Eligible(x, shots, h, G!Target(now, band))
  BY <1>1 DEF G!Judge, Levels, G!LevelOf, G!None
<1>3. band # now => G!Target(now, band) \in Levels /\ G!Target(now, band) # now
  BY <1>1 DEF G!Target, Levels
<1>4. \A l : G!Eligible(x, shots, h, l) /\ l > now => ~ G!CoolingDown(x, h)
  BY DEF G!Eligible
<1> HIDE DEF now, band, y
<1>5. CASE y = x
  BY <1>5 DEF OneChange, y
<1>6. CASE now > 0 /\ band < now /\ y = G!Apply(x, h, now - 1)
  <2>1. now - 1 \in Levels /\ now - 1 # now /\ ~ (now - 1 > now)
    BY <1>1, <1>6 DEF Levels
  <2> QED
    BY <1>6, <2>1 DEF OneChange, y, now
<1>7. CASE /\ band # now /\ y = G!Apply(x, h, G!Target(now, band))
           /\ G!Eligible(x, shots, h, G!Target(now, band))
  BY <1>3, <1>4, <1>7 DEF OneChange, y, now
<1> QED
  BY <1>2, <1>5, <1>6, <1>7

\* When the first i goals have been judged: before its turn the change of the
\* goal at p has aged and more others follow it; after its turn either nothing
\* else has happened, or its level has changed, not upwards if it was recent.
SoFar(x, p, i) ==
    LET g == Scheduled[p]
        k == idle[g]
        before == Others(k) + Len(Scheduled) - p IN
    /\ x.levels \in [G!GoalSet -> Levels \cup {G!None}] /\ x.log \in Seq(Events)
    /\ i < p => /\ x.levels[g] = level[g]
                /\ k <= GraduationCooldown - 2 => Noted(x.log, g, k + 1, before + i)
    /\ i >= p =>
          /\ x.levels[g] = level[g] /\ k <= GraduationCooldown - 3
                => Noted(x.log, g, k + 1, before + i - 1)
          /\ x.levels[g] # level[g] /\ GraduationCooldown >= 2 => Noted(x.log, g, 0, i - p)
          /\ k <= GraduationCooldown - 2 => ~ (x.levels[g] > G!LevelOf(level, g))

LEMMA SoFarStep ==
    ASSUME LevelAssumption, HistoryHolds, CooldownInv,
           NEW p \in 1..Len(Scheduled), NEW i \in 0..Len(Scheduled) - 1,
           NEW x, SoFar(x, p, i), NEW y, OneChange(x, y, Scheduled[i + 1])
    PROVE  SoFar(y, p, i + 1)
<1> DEFINE N == Len(Scheduled)  C == GraduationCooldown
           g == Scheduled[p]  h == Scheduled[i + 1]  k == idle[g]
           before == Others(k) + N - p
<1>1. N \in Nat \ {0} /\ C \in Nat \ {0} /\ MaxHistory \in Nat \ {0}
  BY DEF LevelAssumption, G!GraduationAssumption
<1>2. g \in G!GoalSet /\ h \in G!GoalSet /\ k \in 0..C /\ (g = h <=> p = i + 1)
  BY <1>1 DEF LevelAssumption, HistoryHolds, CooldownInv
<1>3. /\ before \in Nat
      /\ i + 1 < p /\ k <= C - 2 => before + i + 1 < MaxHistory
      /\ i + 1 > p /\ k <= C - 3 => before + i < MaxHistory
      /\ i + 1 > p /\ C >= 2 => i + 1 - p < MaxHistory /\ i - p \in Nat
  <2> DEFINE o == Others(k)  oo == Others(k + 1)  ooo == Others(k + 1 + 1)
             z == Others(0)  zz == Others(0 + 1)
  <2>1. \A m \in Nat : Others(m) \in Nat /\ Others(m + 1) = Others(m) + N - 1
    BY <1>1, OthersFacts
  <2>2. \A m \in 0..C - 1 : Others(m) < MaxHistory
    BY <1>1, OthersFacts
  <2>3. z = 0
    BY <1>1, OthersFacts
  <2>4. p \in 1..N /\ i \in 0..N - 1
    OBVIOUS
  <2> HIDE DEF N, C, k, g, h
  <2>5. k \in Nat /\ k + 1 \in Nat /\ 0 \in Nat
    BY <1>2
  <2>6. /\ o \in Nat /\ oo \in Nat /\ ooo \in Nat /\ zz \in Nat
        /\ oo = o + N - 1 /\ ooo = oo + N - 1 /\ zz = z + N - 1
    <3>1. k + 1 + 1 \in Nat /\ 0 + 1 \in Nat
      BY <2>5
    <3> QED
      BY <2>1, <2>5, <3>1, Zenon
  <2>7. /\ k <= C - 2 => oo < MaxHistory
        /\ k <= C - 3 => ooo < MaxHistory
        /\ C >= 2 => zz < MaxHistory
    BY <1>1, <1>2, <2>2
  <2>8. before = o + N - p
    OBVIOUS
  <2> HIDE DEF o, oo, ooo, z, zz, before
  <2>9. before \in Nat
    BY <1>1, <2>4, <2>6, <2>8
  <2>10. ASSUME i + 1 < p, k <= C - 2 PROVE before + i + 1 < MaxHistory
    BY <1>1, <2>4, <2>6, <2>7, <2>8, <2>10
  <2>11. ASSUME i + 1 > p, k <= C - 3 PROVE before + i < MaxHistory
    BY <1>1, <2>4, <2>6, <2>7, <2>8, <2>11
  <2>12. ASSUME i + 1 > p, C >= 2 PROVE i + 1 - p < MaxHistory /\ i - p \in Nat
    BY <1>1, <2>3, <2>4, <2>6, <2>7, <2>12
  <2> QED
    BY <2>9, <2>10, <2>11, <2>12
<1>4. /\ x.levels \in [G!GoalSet -> Levels \cup {G!None}] /\ x.log \in Seq(Events)
      /\ i < p => /\ x.levels[g] = level[g]
                  /\ k <= C - 2 => Noted(x.log, g, k + 1, before + i)
      /\ i >= p =>
            /\ x.levels[g] = level[g] /\ k <= C - 3 => Noted(x.log, g, k + 1, before + i - 1)
            /\ x.levels[g] # level[g] /\ C >= 2 => Noted(x.log, g, 0, i - p)
            /\ k <= C - 2 => ~ (x.levels[g] > G!LevelOf(level, g))
  BY DEF SoFar
<1>5. SUFFICES
      /\ y.levels \in [G!GoalSet -> Levels \cup {G!None}] /\ y.log \in Seq(Events)
      /\ i + 1 < p => /\ y.levels[g] = level[g]
                      /\ k <= C - 2 => Noted(y.log, g, k + 1, before + i + 1)
      /\ i + 1 >= p =>
            /\ y.levels[g] = level[g] /\ k <= C - 3 => Noted(y.log, g, k + 1, before + i)
            /\ y.levels[g] # level[g] /\ C >= 2 => Noted(y.log, g, 0, i + 1 - p)
            /\ k <= C - 2 => ~ (y.levels[g] > G!LevelOf(level, g))
  <2>1. before + (i + 1) = before + i + 1 /\ before + (i + 1) - 1 = before + i
    BY <1>3
  <2> QED
    BY <2>1 DEF SoFar
<1> HIDE DEF N, C, g, h, k, before
<1>6. p \in Nat /\ i \in Nat
  BY DEF N
<1>7. CASE y = x
  <2>1. Len(x.log) \in Nat /\ DOMAIN x.log \subseteq Nat
    BY <1>4
  <2>2. ASSUME NEW a, NEW n \in Nat, Noted(x.log, g, a, n) PROVE Noted(x.log, g, a, n + 1)
    BY <2>1, <2>2, NotedLonger
  <2>3. CASE i + 1 < p
    BY <1>3, <1>4, <1>6, <1>7, <2>2, <2>3
  <2>4. CASE i + 1 = p
    <3>1. i < p
      BY <1>6, <2>4
    <3>2. level[g] \in Levels \cup {G!None} /\ ~ (level[g] > G!LevelOf(level, g))
      BY <1>2 DEF CooldownInv, LevelType, G!LevelOf, Levels, LevelAssumption,
         G!GraduationAssumption, G!Levels, G!None
    <3> QED
      BY <1>1, <1>2, <1>3, <1>4, <1>6, <1>7, <2>4, <3>1, <3>2
  <2>5. CASE i + 1 > p
    <3>1. i >= p /\ ~ (i + 1 < p) /\ (k <= C - 3 => before + i - 1 \in Nat)
      BY <1>3, <1>6, <2>5
    <3>2. before + i - 1 + 1 = before + i /\ i - p + 1 = i + 1 - p
      BY <1>3, <1>6
    <3>3. i - p \in Nat
      BY <1>6, <3>1
    <3> QED
      BY <1>4, <1>7, <2>2, <3>1, <3>2, <3>3
  <2> QED
    BY <1>6, <2>3, <2>4, <2>5
<1>8. ASSUME NEW l \in Levels, y = G!Apply(x, h, l), l # G!LevelOf(x.levels, h),
             l > G!LevelOf(x.levels, h) => ~ G!CoolingDown(x, h)
      PROVE  /\ y.levels \in [G!GoalSet -> Levels \cup {G!None}] /\ y.log \in Seq(Events)
             /\ i + 1 < p => /\ y.levels[g] = level[g]
                             /\ k <= C - 2 => Noted(y.log, g, k + 1, before + i + 1)
             /\ i + 1 >= p =>
                   /\ y.levels[g] = level[g] /\ k <= C - 3 => Noted(y.log, g, k + 1, before + i)
                   /\ y.levels[g] # level[g] /\ C >= 2 => Noted(y.log, g, 0, i + 1 - p)
                   /\ k <= C - 2 => ~ (y.levels[g] > G!LevelOf(level, g))
  <2>1. /\ y.levels = [x.levels EXCEPT ![h] = l]
        /\ y.log = G!Trim(Append(x.log, [goal |-> h, age |-> 0]))
    BY <1>8 DEF G!Apply
  <2>2. /\ y.log \in Seq(Events) /\ Noted(y.log, h, 0, 0)
        /\ \A f, a : \A n \in Nat : f # h /\ Noted(x.log, f, a, n) /\ n + 1 < MaxHistory
                                  => Noted(y.log, f, a, n + 1)
    BY <1>2, <1>4, <2>1, NotedChange
  <2>3. y.levels \in [G!GoalSet -> Levels \cup {G!None}]
    BY <1>2, <1>4, <2>1
  <2>4. CASE i + 1 < p
    <3>1. g # h /\ i < p /\ y.levels[g] = x.levels[g] /\ before + i \in Nat
      BY <1>2, <1>3, <1>4, <1>6, <2>1, <2>4
    <3>2. k <= C - 2 => Noted(y.log, g, k + 1, before + i + 1)
      BY <1>3, <1>4, <2>2, <2>4, <3>1
    <3> QED
      BY <1>4, <1>6, <2>2, <2>3, <2>4, <3>1, <3>2
  <2>5. CASE i + 1 = p
    <3>1. g = h /\ i < p /\ y.levels[g] = l /\ x.levels[g] = level[g]
      BY <1>2, <1>4, <1>6, <2>1, <2>5
    <3>2. G!LevelOf(x.levels, h) = G!LevelOf(level, g)
      BY <3>1 DEF G!LevelOf
    <3>3. l # level[g]
      BY <1>8, <3>1, <3>2 DEF G!LevelOf, Levels, G!None
    <3>4. k <= C - 2 => G!CoolingDown(x, h)
      BY <1>1, <1>2, <1>4, <3>1 DEF Noted, G!CoolingDown, C
    <3>5. i + 1 - p = 0 /\ ~ (i + 1 < p)
      BY <1>6, <2>5
    <3> QED
      BY <1>8, <2>2, <2>3, <3>1, <3>2, <3>3, <3>4, <3>5
  <2>6. CASE i + 1 > p
    <3>1. g # h /\ i >= p /\ y.levels[g] = x.levels[g] /\ ~ (i + 1 < p) /\ before + i - 1 \in Nat
      BY <1>2, <1>3, <1>4, <1>6, <2>1, <2>6
    <3>2. ASSUME y.levels[g] = level[g], k <= C - 3 PROVE Noted(y.log, g, k + 1, before + i)
      <4>1. before + i - 1 + 1 = before + i /\ before + i < MaxHistory
        BY <1>3, <1>6, <2>6, <3>2
      <4> QED
        BY <1>4, <2>2, <3>1, <3>2, <4>1
    <3>3. ASSUME y.levels[g] # level[g], C >= 2 PROVE Noted(y.log, g, 0, i + 1 - p)
      <4>1. i - p \in Nat /\ i - p + 1 = i + 1 - p /\ i + 1 - p < MaxHistory
        BY <1>3, <1>6, <2>6, <3>3
      <4> QED
        BY <1>4, <2>2, <3>1, <3>3, <4>1
    <3> QED
      BY <1>4, <2>2, <2>3, <3>1, <3>2, <3>3
  <2> QED
    BY <1>6, <2>4, <2>5, <2>6
<1> QED
  BY <1>7, <1>8 DEF OneChange, h

\* When all goals have been judged.
LEMMA JudgedSoFar ==
    ASSUME LevelAssumption, HistoryHolds, CooldownInv, NEW st, NEW shots,
           NEW ev \in [G!GoalSet -> Evidence], NEW p \in 1..Len(Scheduled), SoFar(st, p, 0)
    PROVE  SoFar(G!JudgedUpTo(st, shots, ev)[Len(Scheduled)], p, Len(Scheduled))
<1> DEFINE f == G!JudgedUpTo(st, shots, ev)
           T == {n \in Nat : n <= Len(Scheduled) => SoFar(f[n], p, n)}
<1>1. Len(Scheduled) \in Nat
  BY DEF LevelAssumption
<1>2. \A i \in 0..Len(Scheduled) :
         f[i] = IF i = 0 THEN st ELSE G!Judge(f[i - 1], shots, ev, Scheduled[i])
  <2>1. f = [i \in 0..Len(Scheduled) |->
               IF i = 0 THEN st ELSE G!Judge(f[i - 1], shots, ev, Scheduled[i])]
    BY <1>1, JudgedUpToDef
  <2> HIDE DEF f
  <2> QED
    BY <2>1, Zenon
<1> HIDE DEF f
<1>3. 0 \in T
  BY <1>1, <1>2
<1>4. ASSUME NEW n \in Nat, n \in T PROVE n + 1 \in T
  <2> SUFFICES ASSUME n + 1 <= Len(Scheduled) PROVE SoFar(f[n + 1], p, n + 1)
    OBVIOUS
  <2>1. SoFar(f[n], p, n) /\ f[n + 1] = G!Judge(f[n], shots, ev, Scheduled[n + 1])
    BY <1>1, <1>2, <1>4
  <2>2. Scheduled[n + 1] \in G!GoalSet /\ n \in 0..Len(Scheduled) - 1
    BY <1>1 DEF LevelAssumption
  <2>3. OneChange(f[n], f[n + 1], Scheduled[n + 1])
    BY <2>1, <2>2, JudgeChanges DEF SoFar
  <2> QED
    BY <2>1, <2>2, <2>3, SoFarStep
<1>5. Len(Scheduled) \in T
  BY <1>1, <1>3, <1>4, NatSetInduction
<1> QED
  BY <1>1, <1>5 DEF f

LEMMA CooldownStep ==
    ASSUME LevelAssumption, HistoryHolds, CooldownInv, G!JudgeAll
    PROVE  CooldownInv' /\ G!Spaced
<1> DEFINE N == Len(Scheduled)  C == GraduationCooldown
           aged == [i \in DOMAIN events |-> [events[i] EXCEPT !.age = G!Older(@)]]
           st == [levels |-> level, log |-> aged]
           end == G!JudgedUpTo(st, snapshots', evidence')[N]
<1>1. N \in Nat /\ C \in Nat \ {0}
  BY DEF LevelAssumption, G!GraduationAssumption
<1>2. /\ evidence' \in [G!GoalSet -> Evidence]
      /\ level' = end.levels /\ events' = end.log
      /\ idle' = [g \in G!GoalSet |-> IF level'[g] # level[g] THEN 0 ELSE G!Older(idle[g])]
  BY DEF G!JudgeAll
<1>3. \A a \in 0..C : G!Older(a) \in 0..C /\ (a < C => G!Older(a) = a + 1)
  BY <1>1 DEF G!Older
<1>4. /\ aged \in Seq(Events) /\ Len(aged) = Len(events) /\ Len(events) \in Nat
      /\ DOMAIN aged = 1..Len(events) /\ DOMAIN events = 1..Len(events)
      /\ \A i \in 1..Len(events) : /\ aged[i].goal = events[i].goal
                                   /\ aged[i].age = G!Older(events[i].age)
                                   /\ events[i].age \in 0..C
  <2>1. /\ Len(events) \in Nat /\ DOMAIN events = 1..Len(events)
        /\ \A i \in 1..Len(events) : events[i] \in Events
    BY DEF CooldownInv
  <2>2. \A i \in 1..Len(events) : /\ aged[i] \in Events /\ aged[i].goal = events[i].goal
                                  /\ aged[i].age = G!Older(events[i].age)
                                  /\ events[i].age \in 0..C
    BY <1>3, <2>1 DEF Events
  <2>3. DOMAIN aged = 1..Len(events) /\ aged = [i \in 1..Len(events) |-> aged[i]]
    BY <2>1
  <2> HIDE DEF aged
  <2>4. aged \in Seq(Events) /\ Len(aged) = Len(events)
    BY <2>1, <2>2, <2>3
  <2> QED
    BY <2>1, <2>2, <2>3, <2>4
<1>5. ASSUME NEW g, NEW a \in 0..C - 1, NEW n, Noted(events, g, a, n)
      PROVE  Noted(aged, g, a + 1, n)
  <2> HIDE DEF aged
  <2>1. PICK i \in 1..Len(events) : /\ events[i].goal = g /\ G!IsLatest(events, i)
                                    /\ events[i].age = a /\ Len(events) - i <= n
    BY <1>4, <1>5 DEF Noted
  <2>2. aged[i].age = a + 1
    BY <1>1, <1>3, <1>4, <2>1
  <2>3. G!IsLatest(aged, i)
    BY <1>4, <2>1 DEF G!IsLatest
  <2> QED
    BY <1>4, <2>1, <2>2, <2>3 DEF Noted
<1>6. st.levels = level /\ st.log = aged
  OBVIOUS
<1> HIDE DEF aged, st
<1>7. ASSUME NEW p \in 1..N PROVE SoFar(end, p, N)
  <2> DEFINE g == Scheduled[p]
             before == Others(idle[g]) + N - p
  <2>1. g \in G!GoalSet /\ idle[g] \in 0..C /\ p \in 1..N
    BY <1>1 DEF LevelAssumption, CooldownInv
  <2>2. before \in Nat
    <3>1. Others(idle[g]) \in Nat
      <4>1. Len(Scheduled) \in Nat \ {0} /\ idle[g] \in Nat
        BY <1>1, <2>1
      <4> QED
        BY <4>1, OthersFacts
    <3> QED
      BY <1>1, <2>1, <3>1
  <2>3. ASSUME idle[g] <= C - 2 PROVE Noted(aged, g, idle[g] + 1, before + 0)
    <3>1. Noted(events, g, idle[g], before)
      BY <2>3 DEF CooldownInv, ChangesNoted
    <3>2. idle[g] \in 0..C - 1 /\ before + 0 = before
      BY <1>1, <2>1, <2>2, <2>3
    <3> HIDE DEF before, g
    <3> QED
      BY <1>5, <3>1, <3>2
  <2>4. SoFar(st, p, 0)
    <3>1. 0 < p /\ ~ (0 >= p)
      OBVIOUS
    <3> QED
      BY <1>4, <1>6, <2>3, <3>1 DEF SoFar, CooldownInv, LevelType
  <2> QED
    BY <1>2, <2>4, JudgedSoFar
<1>8. ASSUME NEW g \in G!GoalSet PROVE \E p \in 1..N : Scheduled[p] = g
  BY <1>8 DEF G!GoalSet, G!Range, LevelAssumption
<1> HIDE DEF end
<1>9. CASE N = 0
  <2>1. G!GoalSet = {}
    BY <1>8, <1>9
  <2>2. end = st
    BY <1>1, <1>9, JudgedUpToDef DEF end
  <2>3. LevelType' /\ events' \in Seq(Events)
    BY <1>2, <1>4, <1>6, <2>2 DEF CooldownInv, LevelType
  <2>4. idle' \in [G!GoalSet -> 0..C]
    BY <1>1, <1>2, <1>3 DEF CooldownInv
  <2>5. 1..N = {}
    BY <1>9
  <2> QED
    BY <2>1, <2>3, <2>4, <2>5 DEF CooldownInv, ChangesNoted, G!Spaced
<1>10. CASE N > 0
  <2>1. /\ LevelType' /\ events' \in Seq(Events)
    <3>1. 1 \in 1..N
      BY <1>1, <1>10
    <3> QED
      BY <1>2, <1>7, <3>1 DEF SoFar, LevelType
  <2>2. idle' \in [G!GoalSet -> 0..C]
    BY <1>1, <1>2, <1>3 DEF CooldownInv
  <2>3. ASSUME NEW p \in 1..N, idle'[Scheduled[p]] <= C - 2
        PROVE  Noted(events', Scheduled[p], idle'[Scheduled[p]],
                     Others(idle'[Scheduled[p]]) + N - p)
    <3> DEFINE g == Scheduled[p]  k == idle[g]  before == Others(k) + N - p
    <3>1. g \in G!GoalSet /\ k \in 0..C /\ N >= p
      BY <1>1 DEF LevelAssumption, CooldownInv
    <3>2. /\ level'[g] = level[g] /\ k <= C - 3 => Noted(events', g, k + 1, before + N - 1)
          /\ level'[g] # level[g] /\ C >= 2 => Noted(events', g, 0, N - p)
      BY <1>2, <1>7, <3>1 DEF SoFar
    <3> DEFINE m == idle'[g]
    <3>3. m = IF level'[g] # level[g] THEN 0 ELSE G!Older(k)
      BY <1>2, <3>1
    <3>4. m <= C - 2
      BY <2>3
    <3>5. SUFFICES Noted(events', g, m, Others(m) + N - p)
      OBVIOUS
    <3>6. N \in Nat \ {0} /\ p \in 1..N
      BY <1>1, <1>10
    <3>7. Others(0) = 0 /\ \A j \in Nat : Others(j) \in Nat /\ Others(j + 1) = Others(j) + N - 1
      BY <3>6, OthersFacts
    <3> HIDE DEF g, k, m, N, C
    <3>8. CASE level'[g] # level[g]
      <4>1. m = 0 /\ C >= 2
        BY <1>1, <3>3, <3>4, <3>8
      <4>2. Others(m) + N - p = N - p
        BY <3>6, <3>7, <4>1
      <4> HIDE DEF before
      <4> QED
        BY <3>2, <3>8, <4>1, <4>2
    <3>9. CASE level'[g] = level[g]
      <4>1. m = k + 1 /\ k <= C - 3
        BY <1>1, <1>3, <3>1, <3>3, <3>4, <3>9 DEF G!Older, C
      <4>2. k \in Nat /\ Others(k) \in Nat /\ Others(k + 1) = Others(k) + N - 1
        BY <3>1, <3>7
      <4>3. Others(k + 1) + N - p = before + N - 1
        BY <3>6, <4>2
      <4> HIDE DEF before
      <4> QED
        BY <3>2, <3>9, <4>1, <4>3
    <3> QED
      BY <3>8, <3>9
  <2>4. ASSUME NEW g \in G!GoalSet, G!Rises(g) PROVE idle[g] >= C - 1
    <3>1. PICK p \in 1..N : Scheduled[p] = g
      BY <1>8
    <3>2. idle[g] <= C - 2 => ~ (level'[g] > G!LevelOf(level, g))
      BY <1>1, <1>2, <1>7, <3>1 DEF SoFar
    <3>3. idle[g] \in Int
      BY DEF CooldownInv
    <3> QED
      BY <1>1, <2>4, <3>2, <3>3 DEF G!Rises
  <2> QED
    BY <2>1, <2>2, <2>3, <2>4 DEF CooldownInv, ChangesNoted, G!Spaced
<1> QED
  BY <1>1, <1>9, <1>10

(***************************************************************************)
(* CooldownKept of Learning, for every cooldown and history, as long as    *)
(* the changes that the other goals can make meanwhile fit into the        *)
(* history they share: with a cooldown of five cycles and a history of     *)
(* thirty changes, for eight goals.                                        *)
(***************************************************************************)
THEOREM PromotionsAreSpaced ==
    ASSUME LevelAssumption, HistoryHolds
    PROVE  LevelSpec => [][G!Spaced]_levelVars
<1>1. G!Init => CooldownInv
  <2> SUFFICES ASSUME G!Init PROVE CooldownInv
    OBVIOUS
  <2>1. \A p \in 1..Len(Scheduled) : idle[Scheduled[p]] = GraduationCooldown
    BY DEF G!Init, LevelAssumption
  <2> QED
    BY <2>1 DEF G!Init, CooldownInv, LevelType, ChangesNoted, LevelAssumption, G!GraduationAssumption
<1>2. CooldownInv /\ [G!JudgeAll]_levelVars => CooldownInv'
  <2>1. CASE UNCHANGED levelVars
    BY <2>1 DEF CooldownInv, LevelType, ChangesNoted, levelVars
  <2> QED
    BY <2>1, CooldownStep
<1>3. CooldownInv /\ [G!JudgeAll]_levelVars => [G!Spaced]_levelVars
  BY CooldownStep
<1> QED
  BY <1>1, <1>2, <1>3, PTL DEF LevelSpec
=============================================================================
