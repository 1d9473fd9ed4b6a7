------------------------- MODULE TaskAttemptProofs -------------------------
(***************************************************************************)
(* For any limits, workers, goals, checks and numbers of attempts: the API *)
(* accepts the history of every first call, budgets are kept, no free      *)
(* model acts alone, the log misses nothing an agent reported, and nothing *)
(* counts as done that was not seen to work.                               *)
(***************************************************************************)
EXTENDS TaskAttempt, WellFoundedInduction, FiniteSetTheorems, SequenceTheorems, TLAPS

(***************************************************************************)
(* The outcome of a step.                                                  *)
(***************************************************************************)
\* Before the step is recorded.
Waiting == {"judge", "override", "record"}

\* The verdict on the step, until it is recorded and after.
Verdict ==
    /\ stage \in Waiting =>
          ~completed /\ (verified => sPassed /\ opinion # "fail")
    /\ stage = "record" /\ verified => checks # "fails"
    /\ completed => sPassed /\ checks # "fails" /\ opinion # "fail"

\* A goal without an open sub-goal.
Finished(g) == g \in Goals /\ open[g] = 0

(***************************************************************************)
(* From being detected to being marked, a goal has no open sub-goals; what *)
(* keeps it is a test that was valid once, or a reason to do without.      *)
(***************************************************************************)
Validated ==
    /\ open \in [Goals -> Int] /\ DOMAIN proof = Goals
    /\ stage \in Waiting => waiting = {} /\ kept = {} /\ marked = {}
    /\ \A g \in waiting : Finished(g)
    /\ stage = "harness" => Finished(goal) /\ (lastGood => proof[goal] # "none")
    /\ \A g \in kept \cup marked : Finished(g) /\ proof[g] # "none"

IInv == Verdict /\ Validated

LEMMA InitIInv == Init => IInv
<1> SUFFICES ASSUME S!Init PROVE IInv
  BY DEF Init
<1>1. open \in [Goals -> Int] /\ DOMAIN proof = Goals
  BY DEF S!Init, S!NoProof
<1> QED
  BY <1>1 DEF S!Init, IInv, Verdict, Validated, Waiting

LEMMA StartKeeps == IInv /\ S!Start(passed) => IInv'
<1> SUFFICES ASSUME NEW ch, NEW rest \in [Goals -> 0..MaxOpen], S!Fresh("judge", passed, ch, rest)
    PROVE  IInv'
  BY DEF S!Start
<1>1. open' \in [Goals -> Int] /\ DOMAIN proof' = Goals
  <2>1. rest \in [Goals -> Int]
    OBVIOUS
  <2> QED
    BY <2>1 DEF S!Fresh, S!NoProof
<1> QED
  BY <1>1 DEF S!Fresh, IInv, Verdict, Validated, Waiting

\* A goal is kept, for a reason.
LEMMA KeepKeeps ==
    ASSUME Validated, NEW g, Finished(g), NEW why, why # "none", S!Keep(g, why),
           UNCHANGED <<open, marked>>
    PROVE  /\ DOMAIN proof' = Goals
           /\ \A h \in kept' \cup marked' : Finished(h)' /\ proof'[h] # "none"
<1>1. kept' = kept \cup {g} /\ proof' = [proof EXCEPT ![g] = why] /\ DOMAIN proof = Goals
  BY DEF S!Keep, Validated
<1>2. \A h \in Goals : proof'[h] = IF h = g THEN why ELSE proof[h]
  BY <1>1
<1> QED
  BY <1>1, <1>2 DEF Validated, Finished

LEMMA StepKeeps == IInv /\ S!Step => IInv'
<1> SUFFICES ASSUME IInv, S!Step PROVE IInv'
  OBVIOUS
<1> USE DEF IInv
<1>1. CASE S!Judge
  <2>1. /\ stage = "judge" /\ stage' = "override"
        /\ UNCHANGED <<sPassed, checks, completed, open, waiting, goal, lastGood, kept,
                       marked, proof>>
    BY <1>1 DEF S!Judge
  <2>2. ~completed /\ (verified' => sPassed /\ opinion' # "fail")
    <3>1. ~completed /\ (verified => sPassed /\ opinion # "fail")
      BY <2>1 DEF Verdict, Waiting
    <3>2. CASE sPassed /\ verified' = (opinion' = "pass")
      <4>1. verified' => opinion' = "pass"
        BY <3>2, Zenon
      <4> QED
        BY <3>1, <3>2, <4>1
    <3>3. CASE UNCHANGED <<opinion, verified>>
      BY <3>1, <3>3
    <3> QED
      BY <1>1, <3>2, <3>3 DEF S!Judge
  <2>3. Verdict'
    BY <2>1, <2>2 DEF Verdict, Waiting
  <2> QED
    BY <2>1, <2>3 DEF Validated, Waiting, Finished
<1>2. CASE S!Override
  BY <1>2 DEF S!Override, Verdict, Validated, Waiting, Finished
<1>3. CASE S!Record
  <2>1. /\ stage = "record" /\ stage' \in {"goals", "over"} /\ completed' = verified
        /\ waiting = {} /\ kept = {} /\ marked = {}
        /\ UNCHANGED <<sPassed, checks, verified, opinion, kept, marked, proof>>
    BY <1>3 DEF S!Record, Validated, Waiting
  <2>2. Verdict'
    BY <2>1 DEF Verdict, Waiting
  <2>3. open' \in [Goals -> Int]
    BY <1>3 DEF S!Record, Validated
  <2>4. \A g \in waiting' : Finished(g)'
    BY <1>3, <2>1 DEF S!Record, S!CompletedGoals, Finished
  <2> QED
    BY <2>1, <2>2, <2>3, <2>4 DEF Validated, Waiting
<1>4. CASE S!Unchecked
  <2>1. PICK g \in waiting : /\ waiting' = waiting \ {g}
                             /\ S!Keep(g, IF g \in Judged THEN "exception" ELSE "noCriteria")
    BY <1>4 DEF S!Unchecked
  <2>2. /\ stage = "goals" /\ UNCHANGED <<stage, sPassed, checks, verified, opinion, completed, open, marked>>
    BY <1>4 DEF S!Unchecked
  <2>3. Finished(g)
    BY DEF Validated
  <2>4. /\ DOMAIN proof' = Goals
        /\ \A h \in kept' \cup marked' : Finished(h)' /\ proof'[h] # "none"
    BY <2>1, <2>2, <2>3, KeepKeeps
  <2> QED
    BY <2>1, <2>2, <2>4 DEF Verdict, Validated, Waiting, Finished
<1>5. CASE S!BeginHarness
  BY <1>5 DEF S!BeginHarness, Verdict, Validated, Waiting, Finished
<1>6. CASE \E t \in S!Tests : S!Attempt(t)
  <2>1. PICK t \in S!Tests : S!Attempt(t)
    BY <1>6
  <2>2. /\ stage = "harness" /\ lastGood' = (lastGood \/ S!Valid(t))
        /\ proof' = IF t.good = "passed" /\ t.bad # "passed"
                    THEN [proof EXCEPT ![goal] = "harness"] ELSE proof
        /\ UNCHANGED <<stage, sPassed, checks, verified, opinion, completed, open, waiting, goal, kept, marked>>
    BY <2>1 DEF S!Attempt
  <2>3. DOMAIN proof' = Goals /\ \A g \in Goals : proof[g] # "none" => proof'[g] # "none"
    BY <2>2 DEF Validated
  <2>4. S!Valid(t) => proof'[goal] # "none"
    BY <2>2 DEF Validated, Finished, S!Valid, S!Passes
  <2> QED
    BY <2>2, <2>3, <2>4 DEF Verdict, Validated, Waiting, Finished
<1>7. CASE S!HarnessDone
  BY <1>7 DEF S!HarnessDone, Verdict, Validated, Waiting, Finished
<1>8. CASE S!HarnessRaises
  <2>1. /\ stage = "harness" /\ stage' = "goals" /\ S!Keep(goal, "exception")
        /\ UNCHANGED <<sPassed, checks, verified, opinion, completed, open, waiting, goal, marked>>
    BY <1>8 DEF S!HarnessRaises
  <2>2. /\ DOMAIN proof' = Goals
        /\ \A h \in kept' \cup marked' : Finished(h)' /\ proof'[h] # "none"
    BY <2>1, KeepKeeps DEF Validated
  <2> QED
    BY <2>1, <2>2 DEF Verdict, Validated, Waiting, Finished
<1>9. CASE S!Mark
  BY <1>9 DEF S!Mark, Verdict, Validated, Waiting, Finished
<1> QED
  BY <1>1, <1>2, <1>3, <1>4, <1>5, <1>6, <1>7, <1>8, <1>9 DEF S!Step

LEMMA NextIInv == IInv /\ [Next]_vars => IInv'
<1> SUFFICES ASSUME IInv, [Next]_vars PROVE IInv'
  OBVIOUS
<1>1. CASE UNCHANGED stepVars
  BY <1>1 DEF stepVars, IInv, Verdict, Validated, Waiting, Finished
<1>2. CASE Settle
  BY <1>1, <1>2, StartKeeps DEF Settle
<1>3. CASE RecordStep
  BY <1>1, <1>3, StepKeeps DEF RecordStep
<1> QED
  BY <1>1, <1>2, <1>3 DEF Next, Attempts, Begin, GiveUp, Run, Returned, TimedOut, Raised,
     AskStop, vars

(***************************************************************************)
(* A step is recorded as completed only when its task passed, no check of  *)
(* its effects failed and the judge did not turn it down; a goal is marked *)
(* only when all its sub-goals are done and a test passed on the project   *)
(* and failed without it, unless it has no criteria or an exception kept   *)
(* the tests from running.                                                 *)
(***************************************************************************)
THEOREM DoneIsProven == Spec => []CompletionProven
<1>1. IInv => CompletionProven
  BY DEF IInv, Verdict, Validated, Finished, CompletionProven, S!CompletionProven
<1> QED
  BY <1>1, InitIInv, NextIInv, PTL DEF Spec

(***************************************************************************)
(* Induction over the natural numbers, for a set of them.                  *)
(***************************************************************************)
LEMMA LeastNatural ==
    ASSUME NEW T, T \subseteq Nat, T # {}
    PROVE  \E n \in T : \A m \in T : n <= m
<1> DEFINE R == OpToRel(<, Nat)
<1>1. IsWellFoundedOn(R, Nat)
  BY NatLessThanWellFounded
<1> HIDE DEF R
<1>2. PICK n \in T : \A m \in T : ~ (<<m, n>> \in R)
  BY <1>1, WFMin
<1>3. ASSUME NEW m \in T PROVE n <= m
  <2>1. m < n => <<m, n>> \in R
    BY DEF R, OpToRel
  <2> QED
    BY <1>2, <2>1
<1> QED
  BY <1>2, <1>3

LEMMA NatSetInduction ==
    ASSUME NEW T, 0 \in T, \A n \in Nat : n \in T => n + 1 \in T
    PROVE  Nat \subseteq T
<1> SUFFICES ASSUME Nat \ T # {} PROVE FALSE
  OBVIOUS
<1>1. PICK n \in Nat \ T : \A m \in Nat \ T : n <= m
  BY LeastNatural
<1>2. n - 1 \in Nat /\ n - 1 \notin Nat \ T
  BY <1>1
<1> QED
  BY <1>1, <1>2

(***************************************************************************)
(* The recursive function that goes through a history exists.              *)
(***************************************************************************)
LEMMA MendedUpToDef ==
    ASSUME NEW h, Len(h) \in Nat
    PROVE  A!MendedUpTo(h) = [i \in 0..Len(h) |->
               IF i = 0 THEN <<>> ELSE A!MendedUpTo(h)[i - 1] \o A!Mended(h, h[i])]
<1> DEFINE Fits(f, n) == f = [i \in 0..n |-> IF i = 0 THEN <<>> ELSE f[i - 1] \o A!Mended(h, h[i])]
           T == {n \in Nat : \E f : Fits(f, n)}
<1>1. 0 \in T
  <2>1. Fits([i \in 0..0 |-> <<>>], 0)
    OBVIOUS
  <2> QED
    BY <2>1
<1>2. ASSUME NEW n \in Nat, n \in T PROVE n + 1 \in T
  <2>1. PICK f : Fits(f, n)
    BY <1>2
  <2> DEFINE g == [i \in 0..n + 1 |-> IF i = n + 1 THEN f[n] \o A!Mended(h, h[n + 1]) ELSE f[i]]
  <2>2. \A i \in 0..n : f[i] = IF i = 0 THEN <<>> ELSE f[i - 1] \o A!Mended(h, h[i])
    BY <2>1, Zenon
  <2>3. ASSUME NEW i \in 0..n + 1
        PROVE  g[i] = IF i = 0 THEN <<>> ELSE g[i - 1] \o A!Mended(h, h[i])
    <3>1. CASE i = n + 1
      BY <3>1
    <3>2. CASE i # n + 1
      <4>1. i \in 0..n /\ (i # 0 => i - 1 \in 0..n /\ i - 1 # n + 1)
        BY <3>2
      <4> QED
        BY <2>2, <4>1
    <3> QED
      BY <3>1, <3>2
  <2>4. Fits(g, n + 1)
    BY <2>3
  <2>5. \E f1 : Fits(f1, n + 1)
    BY <2>4
  <2> QED
    BY <2>5
<1>3. \E f : Fits(f, Len(h))
  BY <1>1, <1>2, NatSetInduction
<1>4. A!MendedUpTo(h) = CHOOSE f : Fits(f, Len(h))
  BY DEF A!MendedUpTo
<1> HIDE DEF Fits
<1>5. Fits(A!MendedUpTo(h), Len(h))
  BY <1>3, <1>4
<1> QED
  BY <1>5 DEF Fits

(***************************************************************************)
(* Histories.                                                              *)
(***************************************************************************)
Messages == [kind : {"use", "result", "say", "user"}, turn : Int]
Tool(m) == m.kind \in {"use", "result"}

\* Every use is followed by its results; results may have lost their use.
UsesAnswered(h) ==
    \A i \in 1..Len(h) : h[i].kind = "use" => i < Len(h) /\ h[i + 1] = A!Results(h[i].turn)

\* Uses and results come in the order of their turns, each at most once.
Precedes(m, n) ==
    Tool(m) /\ Tool(n) =>
        m.turn < n.turn \/ (m.kind = "use" /\ n.kind = "result" /\ m.turn = n.turn)
Ordered(h) == \A i, j \in 1..Len(h) : i < j => Precedes(h[i], h[j])

Below(h, t) == \A i \in 1..Len(h) : Tool(h[i]) => h[i].turn < t

Cut(h, t) == h \in Seq(Messages) /\ UsesAnswered(h) /\ Ordered(h) /\ Below(h, t)
Whole(h, t) == Cut(h, t) /\ A!WellFormed(h)

\* In a history whose uses are answered, sanitizing drops the results that do
\* not follow their use and leaves every other message.
LEMMA MendedIs ==
    ASSUME NEW h \in Seq(Messages), UsesAnswered(h), Ordered(h), NEW i \in 1..Len(h)
    PROVE  \/ A!Mended(h, h[i]) = <<h[i]>>
              /\ (h[i].kind = "result" => i > 1 /\ h[i - 1] = A!Use(h[i].turn))
           \/ A!Mended(h, h[i]) = <<>> /\ h[i].kind = "result"
              /\ ~ (i > 1 /\ h[i - 1] = A!Use(h[i].turn))
<1>0. h[i].turn \in Int /\ h[i].kind \in {"use", "result", "say", "user"}
  <2>1. h[i] \in Messages
    OBVIOUS
  <2> QED
    BY <2>1 DEF Messages
<1>1. CASE h[i].kind = "use"
  <2>1. A!Contains(h, A!Results(h[i].turn))
    BY <1>1 DEF UsesAnswered, A!Contains
  <2> QED
    BY <1>1, <2>1 DEF A!Mended
<1>2. CASE h[i].kind = "result" /\ A!Contains(h, A!Use(h[i].turn))
  <2>1. PICK a \in 1..Len(h) : h[a] = A!Use(h[i].turn)
    BY <1>2 DEF A!Contains
  <2>2. h[a].kind = "use" /\ h[a].turn = h[i].turn
    BY <2>1 DEF A!Use
  <2>3. a + 1 \in 1..Len(h) /\ h[a + 1] = A!Results(h[i].turn)
    BY <2>2 DEF UsesAnswered
  <2>4. h[a + 1].kind = "result" /\ h[a + 1].turn = h[i].turn
    BY <2>3 DEF A!Results
  <2>5. ~ (i < a)
    BY <1>0, <1>2, <2>2 DEF Ordered, Precedes, Tool
  <2>6. ~ (a + 1 < i)
    BY <1>0, <1>2, <2>3, <2>4 DEF Ordered, Precedes, Tool
  <2>7. i # a
    BY <1>2, <2>2
  <2>8. i = a + 1
    BY <2>5, <2>6, <2>7
  <2> QED
    BY <1>2, <2>1, <2>8 DEF A!Mended
<1>3. CASE h[i].kind = "result" /\ ~A!Contains(h, A!Use(h[i].turn))
  <2>1. ~ (i > 1 /\ h[i - 1] = A!Use(h[i].turn))
    BY <1>3 DEF A!Contains
  <2> QED
    BY <1>3, <2>1 DEF A!Mended
<1>4. CASE h[i].kind \in {"say", "user"}
  BY <1>4 DEF A!Mended
<1> QED
  BY <1>0, <1>1, <1>2, <1>3, <1>4

\* What has been kept of the first i messages of h: a use that is still waiting
\* for its results is the last one.
Kept(h, i, s) ==
    /\ s \in Seq(Messages)
    /\ \A k \in 1..Len(s) : \E j \in 1..i : s[k] = h[j]
    /\ \A k \in 1..Len(s) : s[k].kind = "use" =>
           \/ k < Len(s) /\ s[k + 1] = A!Results(s[k].turn)
           \/ k = Len(s) /\ i > 0 /\ s[k] = h[i]
    /\ \A k \in 1..Len(s) : s[k].kind = "result" => k > 1 /\ s[k - 1] = A!Use(s[k].turn)
    /\ i > 0 /\ h[i].kind = "use" => Len(s) > 0 /\ s[Len(s)] = h[i]
    /\ Ordered(s)

LEMMA KeptStep ==
    ASSUME NEW h \in Seq(Messages), UsesAnswered(h), Ordered(h),
           NEW i \in Nat, i < Len(h), NEW s, Kept(h, i, s)
    PROVE  Kept(h, i + 1, s \o A!Mended(h, h[i + 1]))
<1> DEFINE m == h[i + 1]
<1>1. i + 1 \in 1..Len(h) /\ m \in Messages
  OBVIOUS
<1>2. i > 0 /\ h[i].kind = "use" => m = A!Results(h[i].turn)
  BY <1>1 DEF UsesAnswered
<1>3. CASE A!Mended(h, m) = <<>> /\ m.kind = "result" /\ ~ (i > 0 /\ h[i] = A!Use(m.turn))
  <2>1. ~ (i > 0 /\ h[i].kind = "use")
    <3> SUFFICES ASSUME i > 0, h[i].kind = "use" PROVE FALSE
      OBVIOUS
    <3>1. h[i] \in Messages
      OBVIOUS
    <3>2. m.turn = h[i].turn
      BY <1>2 DEF A!Results
    <3>3. h[i] = A!Use(m.turn)
      BY <3>1, <3>2 DEF A!Use, Messages
    <3> QED
      BY <1>3, <3>3
  <2>2. s \o A!Mended(h, m) = s /\ i + 1 > 0
    BY <1>3 DEF Kept
  <2>3. \A k \in 1..Len(s) : s[k] # h[i] \/ s[k].kind # "use" \/ ~ (i > 0)
    BY <2>1
  <2>4. \A k \in 1..Len(s) : \E j \in 1..(i + 1) : s[k] = h[j]
    BY DEF Kept
  <2> QED
    BY <1>3, <2>2, <2>3, <2>4 DEF Kept
<1>4. CASE A!Mended(h, m) = <<m>> /\ (m.kind = "result" => i > 0 /\ h[i] = A!Use(m.turn))
  <2> DEFINE t == s \o <<m>>
  <2>1. /\ t \in Seq(Messages) /\ Len(t) = Len(s) + 1 /\ t[Len(t)] = m
        /\ \A k \in 1..Len(s) : t[k] = s[k]
    BY <1>1 DEF Kept
  <2> HIDE DEF t
  <2>2. Len(s) \in Nat /\ Len(t) \in Nat
    BY <2>1 DEF Kept
  <2>3. \A k \in 1..Len(t) : \E j \in 1..(i + 1) : t[k] = h[j]
    BY <1>1, <2>1, <2>2 DEF Kept
  <2>a. ASSUME NEW k \in 1..Len(t), k # Len(t) PROVE k \in 1..Len(s) /\ t[k] = s[k]
    BY <2>1, <2>2, <2>a
  <2>4. ASSUME NEW k \in 1..Len(t), t[k].kind = "use"
        PROVE  \/ k < Len(t) /\ t[k + 1] = A!Results(t[k].turn)
               \/ k = Len(t) /\ t[k] = m
    <3> SUFFICES ASSUME k # Len(t) PROVE k < Len(t) /\ t[k + 1] = A!Results(t[k].turn)
      BY <2>1
    <3>1. k \in 1..Len(s) /\ t[k] = s[k] /\ s[k].kind = "use"
      BY <2>4, <2>a
    <3>2. CASE k < Len(s)
      <4>1. s[k + 1] = A!Results(s[k].turn) /\ k + 1 \in 1..Len(s)
        BY <2>2, <3>1, <3>2 DEF Kept
      <4> QED
        BY <2>1, <2>2, <3>1, <4>1
    <3>3. CASE k = Len(s)
      <4>1. i > 0 /\ s[k] = h[i]
        BY <2>2, <3>1, <3>3 DEF Kept
      <4> QED
        BY <1>2, <2>1, <2>2, <3>1, <3>3, <4>1
    <3> QED
      BY <2>2, <3>1, <3>2, <3>3
  <2>5. ASSUME NEW k \in 1..Len(t), t[k].kind = "result"
        PROVE  k > 1 /\ t[k - 1] = A!Use(t[k].turn)
    <3>1. CASE k = Len(t)
      <4>1. i > 0 /\ h[i] = A!Use(m.turn)
        BY <1>4, <2>1, <2>5, <3>1
      <4>2. h[i].kind = "use"
        BY <4>1 DEF A!Use
      <4> QED
        BY <2>1, <2>2, <3>1, <4>1, <4>2 DEF Kept
    <3>2. CASE k # Len(t)
      <4>1. k \in 1..Len(s) /\ t[k] = s[k] /\ s[k].kind = "result"
        BY <2>5, <2>a, <3>2
      <4>2. k > 1 /\ s[k - 1] = A!Use(s[k].turn)
        BY <4>1 DEF Kept
      <4> QED
        BY <2>1, <2>2, <4>1, <4>2
    <3> QED
      BY <3>1, <3>2
  <2>6. Ordered(t)
    <3>1. ASSUME NEW a \in 1..Len(t), NEW b \in 1..Len(t), a < b PROVE Precedes(t[a], t[b])
      <4>1. CASE b = Len(t)
        <5>1. PICK j \in 1..i : s[a] = h[j]
          BY <2>1, <2>2, <3>1, <4>1 DEF Kept
        <5> QED
          BY <1>1, <2>1, <2>2, <3>1, <4>1, <5>1 DEF Ordered
      <4>2. CASE b # Len(t)
        <5>1. a \in 1..Len(s) /\ t[a] = s[a] /\ b \in 1..Len(s) /\ t[b] = s[b]
          BY <2>2, <2>a, <3>1, <4>2
        <5> QED
          BY <3>1, <5>1 DEF Kept, Ordered
      <4> QED
        BY <4>1, <4>2
    <3> QED
      BY <3>1 DEF Ordered
  <2>7. s \o A!Mended(h, m) = t
    BY <1>4 DEF t
  <2>8. Len(t) > 0
    BY <2>1, <2>2
  <2>9. i + 1 > 0
    OBVIOUS
  <2> QED
    BY <2>1, <2>3, <2>4, <2>5, <2>6, <2>7, <2>8, <2>9 DEF Kept
<1> QED
  BY <1>3, <1>4, <1>1, MendedIs

\* _sanitize_tool_pairs makes any history that lost messages at its beginning
\* one that the API accepts.
LEMMA SanitizedWhole ==
    ASSUME NEW h, NEW t, Cut(h, t)
    PROVE  Whole(A!Sanitized(h), t)
<1> DEFINE f == A!MendedUpTo(h)
           T == {i \in Nat : i <= Len(h) => Kept(h, i, f[i])}
<1>1. h \in Seq(Messages) /\ UsesAnswered(h) /\ Ordered(h) /\ Below(h, t) /\ Len(h) \in Nat
  BY DEF Cut
<1>2. \A i \in 0..Len(h) : f[i] = IF i = 0 THEN <<>> ELSE f[i - 1] \o A!Mended(h, h[i])
  BY <1>1, MendedUpToDef, Zenon
<1> HIDE DEF f
<1>3. Kept(h, 0, f[0])
  <2>1. f[0] = <<>>
    BY <1>1, <1>2
  <2> QED
    BY <2>1 DEF Kept, Ordered
<1>4. ASSUME NEW i \in Nat, i \in T PROVE i + 1 \in T
  <2> SUFFICES ASSUME i + 1 <= Len(h) PROVE Kept(h, i + 1, f[i + 1])
    OBVIOUS
  <2>1. i + 1 \in 0..Len(h) /\ i + 1 # 0 /\ (i + 1) - 1 = i /\ i < Len(h)
    BY <1>1
  <2>2. f[i + 1] = f[i] \o A!Mended(h, h[i + 1])
    BY <1>2, <2>1
  <2>3. Kept(h, i, f[i])
    BY <1>4, <2>1, <1>1
  <2> QED
    BY <1>1, <2>1, <2>2, <2>3, KeptStep
<1>5. Len(h) \in T
  BY <1>1, <1>3, <1>4, NatSetInduction
<1> DEFINE s == A!Sanitized(h)
<1>6. Kept(h, Len(h), s)
  BY <1>1, <1>5 DEF A!Sanitized, f
<1> HIDE DEF s
<1>7. s \in Seq(Messages) /\ Ordered(s) /\ Len(s) \in Nat
  BY <1>6 DEF Kept
<1>8. \A k \in 1..Len(s) : s[k].kind = "result" => k > 1 /\ s[k - 1] = A!Use(s[k].turn)
  BY <1>6 DEF Kept
<1>9. ASSUME NEW k \in 1..Len(s), s[k].kind = "use"
      PROVE  k < Len(s) /\ s[k + 1] = A!Results(s[k].turn)
  <2>1. CASE k = Len(s) /\ Len(h) > 0 /\ s[k] = h[Len(h)]
    BY <1>1, <1>9, <2>1 DEF UsesAnswered
  <2> QED
    BY <1>6, <1>9, <2>1 DEF Kept
<1>10. UsesAnswered(s) /\ A!WellFormed(s)
  BY <1>8, <1>9 DEF UsesAnswered, A!WellFormed
<1>11. Below(s, t)
  <2>1. \A k \in 1..Len(s) : \E j \in 1..Len(h) : s[k] = h[j]
    BY <1>6 DEF Kept
  <2> QED
    BY <1>1, <2>1 DEF Below
<1> QED
  BY <1>7, <1>10, <1>11 DEF Whole, Cut, s

\* Cutting off the oldest messages orphans results and nothing else.
LEMMA SuffixCut ==
    ASSUME NEW h, NEW t, Cut(h, t), NEW n \in 1..Len(h) + 1
    PROVE  Cut(SubSeq(h, n, Len(h)), t)
<1> DEFINE s == SubSeq(h, n, Len(h))
<1>1. h \in Seq(Messages) /\ Len(h) \in Nat
  BY DEF Cut
<1>2. /\ s \in Seq(Messages) /\ Len(s) = Len(h) - n + 1
      /\ \A k \in 1..Len(s) : s[k] = h[k + n - 1] /\ k + n - 1 \in 1..Len(h)
  BY <1>1
<1> HIDE DEF s
<1>3. UsesAnswered(s)
  <2> SUFFICES ASSUME NEW k \in 1..Len(s), s[k].kind = "use"
               PROVE  k < Len(s) /\ s[k + 1] = A!Results(s[k].turn)
    BY DEF UsesAnswered
  <2> DEFINE j == k + n - 1
  <2>1. j \in 1..Len(h) /\ h[j] = s[k]
    BY <1>2
  <2>2. j < Len(h) /\ h[j + 1] = A!Results(h[j].turn)
    BY <2>1 DEF Cut, UsesAnswered
  <2>3. k < Len(s) /\ k + 1 \in 1..Len(s) /\ (k + 1) + n - 1 = j + 1
    BY <1>1, <1>2, <2>2
  <2> QED
    BY <1>2, <2>1, <2>2, <2>3
<1>4. Ordered(s)
  <2> SUFFICES ASSUME NEW a \in 1..Len(s), NEW b \in 1..Len(s), a < b
               PROVE  Precedes(s[a], s[b])
    BY DEF Ordered
  <2>1. a + n - 1 < b + n - 1
    OBVIOUS
  <2> QED
    BY <1>2, <2>1 DEF Cut, Ordered
<1>5. Below(s, t)
  BY <1>2 DEF Cut, Below
<1> QED
  BY <1>2, <1>3, <1>4, <1>5 DEF Cut, s

LEMMA NewestCut ==
    ASSUME NEW h, NEW t, Cut(h, t), NEW n \in Nat
    PROVE  Cut(A!Newest(h, n), t)
<1>1. Len(h) \in Nat
  BY DEF Cut
<1>2. CASE Len(h) > n
  BY <1>1, <1>2, SuffixCut DEF A!Newest
<1> QED
  BY <1>2 DEF A!Newest

\* A message without tools may be added at either end.
Plain(m) == m \in Messages /\ ~Tool(m)

LEMMA PlainFirst ==
    ASSUME NEW h, NEW t, Cut(h, t), NEW m, Plain(m)
    PROVE  Cut(<<m>> \o h, t)
<1> DEFINE s == <<m>> \o h
<1>1. h \in Seq(Messages) /\ Len(h) \in Nat /\ m \in Messages
  BY DEF Cut, Plain
<1>2. /\ s \in Seq(Messages) /\ Len(s) = Len(h) + 1 /\ s[1] = m
      /\ \A k \in 2..Len(s) : s[k] = h[k - 1] /\ k - 1 \in 1..Len(h)
  BY <1>1
<1> HIDE DEF s
<1>3. UsesAnswered(s)
  <2> SUFFICES ASSUME NEW k \in 1..Len(s), s[k].kind = "use"
               PROVE  k < Len(s) /\ s[k + 1] = A!Results(s[k].turn)
    BY DEF UsesAnswered
  <2>1. k \in 2..Len(s) /\ h[k - 1] = s[k] /\ k - 1 \in 1..Len(h)
    BY <1>2 DEF Plain, Tool
  <2>2. k - 1 < Len(h) /\ h[(k - 1) + 1] = A!Results(h[k - 1].turn)
    BY <2>1 DEF Cut, UsesAnswered
  <2>3. k < Len(s) /\ k + 1 \in 2..Len(s) /\ (k + 1) - 1 = (k - 1) + 1
    BY <1>1, <1>2, <2>1, <2>2
  <2> QED
    BY <1>2, <2>1, <2>2, <2>3
<1>4. Ordered(s)
  <2> SUFFICES ASSUME NEW a \in 1..Len(s), NEW b \in 1..Len(s), a < b
               PROVE  Precedes(s[a], s[b])
    BY DEF Ordered
  <2>1. CASE a = 1
    BY <1>2, <2>1 DEF Plain, Precedes
  <2>2. CASE a # 1
    <3>1. a - 1 < b - 1 /\ a \in 2..Len(s) /\ b \in 2..Len(s)
      BY <1>1, <1>2, <2>2
    <3> QED
      BY <1>2, <3>1 DEF Cut, Ordered
  <2> QED
    BY <2>1, <2>2
<1>5. Below(s, t)
  <2> SUFFICES ASSUME NEW k \in 1..Len(s), Tool(s[k]) PROVE s[k].turn < t
    BY DEF Below
  <2>1. k \in 2..Len(s)
    BY <1>2 DEF Plain
  <2> QED
    BY <1>2, <2>1 DEF Cut, Below
<1> QED
  BY <1>2, <1>3, <1>4, <1>5 DEF Cut, s

LEMMA PlainLast ==
    ASSUME NEW h, NEW t, Whole(h, t), NEW m, Plain(m)
    PROVE  Whole(Append(h, m), t)
<1> DEFINE s == Append(h, m)
<1>1. h \in Seq(Messages) /\ Len(h) \in Nat /\ m \in Messages
  BY DEF Whole, Cut, Plain
<1>2. /\ s \in Seq(Messages) /\ Len(s) = Len(h) + 1 /\ s[Len(s)] = m
      /\ \A k \in 1..Len(h) : s[k] = h[k]
  BY <1>1
<1> HIDE DEF s
<1>3. ASSUME NEW k \in 1..Len(s), Tool(s[k]) PROVE k \in 1..Len(h) /\ s[k] = h[k]
  BY <1>1, <1>2, <1>3 DEF Plain
<1>4. UsesAnswered(s)
  <2> SUFFICES ASSUME NEW k \in 1..Len(s), s[k].kind = "use"
               PROVE  k < Len(s) /\ s[k + 1] = A!Results(s[k].turn)
    BY DEF UsesAnswered
  <2>1. k \in 1..Len(h) /\ s[k] = h[k]
    BY <1>3 DEF Tool
  <2>2. k < Len(h) /\ h[k + 1] = A!Results(h[k].turn)
    BY <2>1 DEF Whole, Cut, UsesAnswered
  <2>3. k + 1 \in 1..Len(h)
    BY <1>1, <2>1, <2>2
  <2> QED
    BY <1>1, <1>2, <2>1, <2>2, <2>3
<1>5. Ordered(s)
  <2> SUFFICES ASSUME NEW a \in 1..Len(s), NEW b \in 1..Len(s), a < b, Tool(s[a]), Tool(s[b])
               PROVE  Precedes(s[a], s[b])
    BY DEF Ordered, Precedes
  <2> QED
    BY <1>3 DEF Whole, Cut, Ordered
<1>6. Below(s, t)
  BY <1>3 DEF Whole, Cut, Below
<1>7. A!WellFormed(s)
  <2>1. ASSUME NEW k \in 1..Len(s), s[k].kind = "result" PROVE k > 1 /\ s[k - 1] = A!Use(s[k].turn)
    <3>1. k \in 1..Len(h) /\ s[k] = h[k]
      BY <1>3, <2>1 DEF Tool
    <3>2. k > 1 /\ h[k - 1] = A!Use(h[k].turn)
      BY <2>1, <3>1 DEF Whole, A!WellFormed
    <3>3. k - 1 \in 1..Len(h)
      BY <1>1, <3>1, <3>2
    <3> QED
      BY <1>2, <3>1, <3>2, <3>3
  <2> QED
    BY <1>4, <2>1 DEF UsesAnswered, A!WellFormed
<1> QED
  BY <1>2, <1>4, <1>5, <1>6, <1>7 DEF Whole, Cut, s

\* A turn with tools adds their use and, when they have run, their results.
LEMMA PairLast ==
    ASSUME NEW h, NEW t \in Nat, Whole(h, t)
    PROVE  Whole(Append(Append(h, A!Use(t)), A!Results(t)), t + 1)
<1> DEFINE s == Append(Append(h, A!Use(t)), A!Results(t))
           n == Len(h)
<1>1. h \in Seq(Messages) /\ n \in Nat /\ A!Use(t) \in Messages /\ A!Results(t) \in Messages
  BY DEF Whole, Cut, A!Use, A!Results, Messages
<1>2. /\ s \in Seq(Messages) /\ Len(s) = n + 2 /\ s[n + 1] = A!Use(t) /\ s[n + 2] = A!Results(t)
      /\ \A k \in 1..n : s[k] = h[k]
  BY <1>1
<1>3. /\ A!Use(t).kind = "use" /\ A!Use(t).turn = t
      /\ A!Results(t).kind = "result" /\ A!Results(t).turn = t
  BY DEF A!Use, A!Results
<1>4. \A k \in 1..Len(s) : k \in 1..n \/ k = n + 1 \/ k = n + 2
  BY <1>1, <1>2
<1> HIDE DEF s, n
<1>5. UsesAnswered(s)
  <2> SUFFICES ASSUME NEW k \in 1..Len(s), s[k].kind = "use"
               PROVE  k < Len(s) /\ s[k + 1] = A!Results(s[k].turn)
    BY DEF UsesAnswered
  <2>1. CASE k \in 1..n
    <3>1. k < n /\ h[k + 1] = A!Results(h[k].turn)
      BY <1>2, <2>1 DEF Whole, Cut, UsesAnswered, n
    <3>2. k + 1 \in 1..n /\ k < Len(s)
      BY <1>1, <1>2, <2>1, <3>1
    <3> QED
      BY <1>2, <2>1, <3>1, <3>2
  <2>2. CASE k = n + 1
    BY <1>1, <1>2, <1>3, <2>2
  <2> QED
    BY <1>2, <1>3, <1>4, <2>1, <2>2
<1>6. A!WellFormed(s)
  <2>1. ASSUME NEW k \in 1..Len(s), s[k].kind = "result" PROVE k > 1 /\ s[k - 1] = A!Use(s[k].turn)
    <3>1. CASE k \in 1..n
      <4>1. k > 1 /\ h[k - 1] = A!Use(h[k].turn)
        BY <1>2, <2>1, <3>1 DEF Whole, A!WellFormed, n
      <4>2. k - 1 \in 1..n
        BY <1>1, <3>1, <4>1
      <4> QED
        BY <1>2, <3>1, <4>1, <4>2
    <3>2. CASE k = n + 2
      BY <1>1, <1>2, <1>3, <3>2
    <3> QED
      BY <1>2, <1>3, <1>4, <2>1, <3>1, <3>2
  <2> QED
    BY <1>5, <2>1 DEF UsesAnswered, A!WellFormed
<1>7. \A k \in 1..n : Tool(s[k]) => s[k].turn < t /\ s[k].turn \in Int
  <2>1. \A k \in 1..n : h[k] \in Messages
    BY <1>1 DEF n
  <2> QED
    BY <1>2, <2>1 DEF Whole, Cut, Below, Messages, n
<1>8. Below(s, t + 1)
  BY <1>2, <1>3, <1>4, <1>7 DEF Below
<1>9. Ordered(s)
  <2> SUFFICES ASSUME NEW a \in 1..Len(s), NEW b \in 1..Len(s), a < b
               PROVE  Precedes(s[a], s[b])
    BY DEF Ordered
  <2>1. CASE b \in 1..n
    <3>1. a \in 1..n
      BY <1>1, <2>1
    <3> QED
      BY <1>2, <2>1, <3>1 DEF Whole, Cut, Ordered, n
  <2>2. CASE b \notin 1..n /\ a \in 1..n
    BY <1>2, <1>3, <1>4, <1>7, <2>2 DEF Precedes
  <2>3. CASE a \notin 1..n
    <3>1. a = n + 1 /\ b = n + 2
      BY <1>1, <1>2, <1>4, <2>3
    <3> QED
      BY <1>2, <1>3, <3>1 DEF Precedes
  <2> QED
    BY <2>1, <2>2, <2>3
<1> QED
  BY <1>2, <1>5, <1>6, <1>8, <1>9 DEF Whole, Cut, s

\* Two messages at an end of a history are added one after the other.
LEMMA TwoAre ==
    ASSUME NEW M, NEW u \in M, NEW y \in M
    PROVE  <<u>> \o <<y>> = <<u, y>>
<1> DEFINE a == <<u>> \o <<y>>
           b == <<u, y>>
<1>1. a \in Seq(M) /\ Len(a) = 2 /\ a[1] = u /\ a[2] = y
  OBVIOUS
<1>2. b \in Seq(M) /\ Len(b) = 2 /\ b[1] = u /\ b[2] = y
  OBVIOUS
<1> HIDE DEF a, b
<1>3. a = b
  BY <1>1, <1>2, SeqEqual
<1> QED
  BY <1>3 DEF a, b

LEMMA TwoFirst ==
    ASSUME NEW M, NEW u \in M, NEW y \in M, NEW r \in Seq(M)
    PROVE  <<u, y>> \o r = <<u>> \o (<<y>> \o r)
<1> DEFINE v == <<u>>
           w == <<y>>
<1>0. v \in Seq(M) /\ w \in Seq(M)
  OBVIOUS
<1>1. v \o w = <<u, y>>
  BY TwoAre
<1> HIDE DEF v, w
<1>2. v \o (w \o r) = (v \o w) \o r
  BY <1>0, ConcatAssociative
<1> QED
  BY <1>1, <1>2 DEF v, w

LEMMA TwoLast ==
    ASSUME NEW M, NEW u \in M, NEW y \in M, NEW r \in Seq(M)
    PROVE  r \o <<u, y>> = Append(Append(r, u), y)
<1> DEFINE v == <<u>>
           w == <<y>>
<1>0. v \in Seq(M) /\ w \in Seq(M)
  OBVIOUS
<1>1. v \o w = <<u, y>>
  BY TwoAre
<1>2. Append(r, u) \in Seq(M) /\ Append(r, u) = r \o v
  BY AppendIsConcat
<1>4. Append(Append(r, u), y) = Append(r, u) \o w
  BY <1>2, AppendIsConcat
<1> HIDE DEF v, w
<1>3. r \o (v \o w) = (r \o v) \o w
  BY <1>0, ConcatAssociative
<1> QED
  BY <1>1, <1>2, <1>3, <1>4

\* Pruning and summarising leave a history the API accepts.
LEMMA PrunedWhole ==
    ASSUME NEW h, NEW t, Whole(h, t)
    PROVE  Whole(A!Pruned(h), t)
<1>1. KeepPairs * 2 \in Nat
  BY AttemptAssumption DEF A!AgentAssumption
<1>2. Cut(A!Newest(h, KeepPairs * 2), t)
  BY <1>1, NewestCut DEF Whole
<1> QED
  BY <1>2, SanitizedWhole DEF A!Pruned

LEMMA SummarizedWhole ==
    ASSUME NEW h, NEW t, Whole(h, t)
    PROVE  Whole(A!Summarized(h), t)
<1> DEFINE r == A!Newest(h, Recent)
           u == A!Message("user")
           y == A!Message("say")
<1>1. Cut(r, t)
  BY NewestCut, AttemptAssumption DEF Whole, A!AgentAssumption
<1>2. Plain(u) /\ Plain(y)
  BY DEF Plain, Tool, A!Message, Messages
<1> HIDE DEF r, u, y
<1>3. Cut(<<u>> \o (<<y>> \o r), t)
  BY <1>1, <1>2, PlainFirst
<1>4. <<u>> \o (<<y>> \o r) = <<u, y>> \o r
  BY <1>1, <1>2, TwoFirst DEF Cut, Plain
<1>5. Whole(A!Sanitized(<<u, y>> \o r), t)
  BY <1>3, <1>4, SanitizedWhole
<1> QED
  BY <1>5 DEF A!Summarized, r, u, y

\* The recovery cuts again what it has sanitized: results may be orphaned.
LEMMA ShiftedCut ==
    ASSUME NEW h, NEW t, Cut(h, t)
    PROVE  Cut(A!Shifted(h), t)
<1>1. Cut(A!Sanitized(h), t) /\ Len(A!Sanitized(h)) \in Nat
  BY SanitizedWhole DEF Whole, Cut
<1>2. CASE Len(A!Sanitized(h)) > 2
  <2>1. 3 \in 1..Len(A!Sanitized(h)) + 1
    BY <1>1, <1>2
  <2> QED
    BY <1>1, <1>2, <2>1, SuffixCut DEF A!Shifted
<1> QED
  BY <1>1, <1>2 DEF A!Shifted

\* The next turn is later than all that was said.
LEMMA WholeLater ==
    ASSUME NEW h, NEW t \in Nat, Whole(h, t)
    PROVE  Whole(h, t + 1)
<1>1. \A i \in 1..Len(h) : h[i] \in Messages
  BY DEF Whole, Cut
<1>2. Below(h, t + 1)
  BY <1>1 DEF Whole, Cut, Below, Messages
<1> QED
  BY <1>2 DEF Whole, Cut

(***************************************************************************)
(* A run of the agent: its history, and what it has spent.                 *)
(***************************************************************************)
Told ==
    /\ pc = "turn" => Whole(history, turn)
    /\ pc = "call" => Cut(history, turn) /\ (tries = 0 => A!WellFormed(history))
    /\ pc = "tools" => \E h : Whole(h, turn) /\ history = Append(h, A!Use(turn))

Spent ==
    /\ {turn, tries, calls, premium, reply.tools, reply.redundant} \subseteq Nat
    /\ pc = "call" => turn < A!EffectiveTurns
    /\ pc = "tools" => calls + reply.tools <= MaxCalls /\ reply.redundant <= reply.tools
    /\ calls <= MaxCalls /\ premium <= A!EffectiveTurns * Multiplier

AgentInv == Told /\ Spent

LEMMA EmptyWhole == Whole(<<>>, 0)
  BY DEF Whole, Cut, UsesAnswered, Ordered, Below, A!WellFormed

LEMMA TurnsAre == A!EffectiveTurns \in Nat \ {0}
<1>1. CASE Budget > 0 /\ Multiplier > 0
  <2>1. Budget \div Multiplier \in Nat
    BY <1>1, AttemptAssumption DEF A!AgentAssumption
  <2> QED
    BY <1>1, <2>1, AttemptAssumption DEF A!AgentAssumption, A!EffectiveTurns
<1>2. CASE ~ (Budget > 0 /\ Multiplier > 0)
  BY <1>2, AttemptAssumption DEF A!AgentAssumption, A!EffectiveTurns
<1> QED
  BY <1>1, <1>2

\* The turns that the budget pays for cost no more than it.
LEMMA TurnsPaid ==
    ASSUME Budget >= Multiplier, Multiplier > 0
    PROVE  A!EffectiveTurns * Multiplier <= Budget
<1> DEFINE q == Budget \div Multiplier
<1>1. Budget \in Nat /\ Multiplier \in Nat /\ TierTurns \in Nat
  BY AttemptAssumption DEF A!AgentAssumption
<1>2. q \in Nat /\ q > 0 /\ q * Multiplier <= Budget
  BY <1>1
<1>3. A!EffectiveTurns = IF q < TierTurns THEN q ELSE TierTurns
  BY <1>1, <1>2 DEF A!EffectiveTurns
<1> HIDE DEF q
<1>4. A!EffectiveTurns \in Nat /\ A!EffectiveTurns <= q
  BY <1>1, <1>2, <1>3
<1>5. A!EffectiveTurns * Multiplier <= q * Multiplier
  BY <1>1, <1>2, <1>4
<1> QED
  BY <1>1, <1>2, <1>4, <1>5

\* A new run starts from nothing.
LEMMA FreshAgent == ASSUME NEW where \in {"turn", "off"}, NEW p, A!Fresh(where, p) PROVE AgentInv'
<1>1. A!EffectiveTurns * Multiplier >= 0
  BY TurnsAre, AttemptAssumption DEF A!AgentAssumption
<1> QED
  BY <1>1, EmptyWhole, AttemptAssumption
  DEF A!Fresh, A!NoReply, AgentInv, Told, Spent, A!AgentAssumption

LEMMA PairsWellFormed == ASSUME NEW h, NEW t, Whole(h, t) PROVE A!WellFormed(h) /\ Cut(h, t)
  BY DEF Whole

\* Every step of the agent keeps both.
LEMMA AgentKeeps == AgentInv /\ A!Step => AgentInv'
<1> SUFFICES ASSUME AgentInv, A!Step PROVE AgentInv'
  OBVIOUS
<1> USE DEF AgentInv
<1>0. /\ A!EffectiveTurns \in Nat \ {0} /\ {Multiplier, MaxCalls} \subseteq Nat
      /\ {turn, tries, calls, premium, reply.tools, reply.redundant} \subseteq Nat
  BY TurnsAre, AttemptAssumption DEF A!AgentAssumption, Spent
<1>1. CASE A!BeginTurn
  <2>1. CASE turn < A!EffectiveTurns
    <3>1. /\ pc = "turn" /\ pc' = "call" /\ tries' = 0
          /\ history' = A!Summarized(A!Pruned(history))
          /\ UNCHANGED <<turn, reply, calls, premium>>
      BY <1>1, <2>1 DEF A!BeginTurn, A!Goto
    <3>2. Whole(history', turn)
      BY <3>1, PrunedWhole, SummarizedWhole DEF Told
    <3> QED
      BY <2>1, <3>1, <3>2 DEF Told, Spent, Whole
  <2>2. CASE ~ (turn < A!EffectiveTurns)
    BY <1>1, <2>2 DEF A!BeginTurn, A!Done, Told, Spent
  <2> QED
    BY <2>1, <2>2
<1>2. CASE A!Transient
  BY <1>0, <1>2 DEF A!Transient, A!Goto, A!Done, Told, Spent
<1>3. CASE \E how \in {"apiError", "quota"} : A!Failed(how)
  BY <1>3 DEF A!Failed, A!Done, Told, Spent
<1>4. CASE A!Refused
  <2>1. CASE path = "openai" /\ tries < A!ApiRetries - 1 /\ Len(history) > 2
    <3>1. /\ pc = "call" /\ pc' = "call" /\ tries' = tries + 1 /\ history' = A!Shifted(history)
          /\ UNCHANGED <<turn, reply, calls, premium>>
      BY <1>4, <2>1 DEF A!Refused, A!Goto
    <3>2. Cut(history', turn)
      BY <3>1, ShiftedCut DEF Told
    <3> QED
      BY <1>0, <3>1, <3>2 DEF Told, Spent
  <2>2. CASE ~ (path = "openai" /\ tries < A!ApiRetries - 1 /\ Len(history) > 2)
    BY <1>4, <2>2 DEF A!Refused, A!Done, Told, Spent
  <2> QED
    BY <2>1, <2>2
<1>5. A!Answered => /\ Whole(history, turn) /\ premium' \in Nat
                    /\ premium' <= A!EffectiveTurns * Multiplier
  <2> SUFFICES ASSUME A!Answered PROVE premium' \in Nat /\ premium' <= A!EffectiveTurns * Multiplier
    BY DEF A!Answered, Told, Whole
  <2>1. turn + 1 <= A!EffectiveTurns /\ premium' = (turn + 1) * Multiplier /\ turn \in Nat
    BY <1>0 DEF A!Answered, Spent
  <2>2. (turn + 1) * Multiplier <= A!EffectiveTurns * Multiplier
    BY <1>0, <2>1
  <2> QED
    BY <1>0, <2>1, <2>2
<1>6. CASE A!Empty
  <2>1. A!Answered /\ UNCHANGED <<tries, reply, calls>>
    BY <1>6 DEF A!Empty
  <2>2. CASE empties' <= A!MaxEmpty /\ turn < A!EffectiveTurns - 1
    <3> DEFINE u == A!Message("user")
               y == A!Message("say")
    <3>1. history' = history \o <<y, u>> /\ turn' = turn + 1 /\ pc' = "turn"
      BY <1>6, <2>2 DEF A!Empty, A!Goto
    <3>2. Plain(u) /\ Plain(y)
      BY DEF Plain, Tool, A!Message, Messages
    <3> HIDE DEF u, y
    <3>3. history' = Append(Append(history, y), u)
      BY <1>5, <2>1, <3>1, <3>2, TwoLast DEF Whole, Cut, Plain
    <3>4. Whole(history', turn + 1)
      BY <1>0, <1>5, <2>1, <3>2, <3>3, PlainLast, WholeLater
    <3> QED
      BY <1>0, <1>5, <2>1, <3>1, <3>4 DEF Told, Spent
  <2>3. CASE ~ (empties' <= A!MaxEmpty /\ turn < A!EffectiveTurns - 1)
    <3>1. pc' = "done" /\ UNCHANGED <<history, turn>>
      BY <1>6, <2>3 DEF A!Empty, A!Done
    <3> QED
      BY <1>0, <1>5, <2>1, <3>1 DEF Told, Spent
  <2> QED
    BY <2>2, <2>3
<1>7. CASE A!Text
  <2>1. A!Answered /\ pc' = "done" /\ UNCHANGED <<turn, tries, reply, calls>>
    BY <1>7 DEF A!Text, A!Done
  <2> QED
    BY <1>0, <1>5, <2>1 DEF Told, Spent
<1>8. CASE \E n \in 1..MaxBatch, r \in 0..MaxBatch : A!Tools(n, r)
  <2>1. PICK n \in 1..MaxBatch, r \in 0..MaxBatch : A!Tools(n, r)
    BY <1>8
  <2>2. /\ A!Answered /\ r <= n /\ history' = Append(history, A!Use(turn))
        /\ reply' = [tools |-> n, redundant |-> r] /\ UNCHANGED <<turn, tries, calls>>
        /\ pc' \in {"tools", "done"} /\ (pc' = "tools" => calls + n <= MaxCalls)
    BY <2>1 DEF A!Tools, A!Fits, A!Goto, A!Done
  <2>3. n \in Nat /\ r \in Nat /\ reply'.tools = n /\ reply'.redundant = r
    BY <2>2, AttemptAssumption DEF A!AgentAssumption
  <2>4. Told'
    <3>1. Whole(history, turn') /\ history' = Append(history, A!Use(turn'))
      BY <1>5, <2>2
    <3> QED
      BY <2>2, <3>1 DEF Told
  <2>5. Spent'
    BY <1>0, <1>5, <2>2, <2>3 DEF Spent
  <2> QED
    BY <2>4, <2>5
<1>9. CASE \E fail \in BOOLEAN : A!RunTools(fail)
  <2>1. PICK fail \in BOOLEAN : A!RunTools(fail)
    BY <1>9
  <2>2. /\ pc = "tools" /\ calls' = calls + reply.tools - reply.redundant
        /\ UNCHANGED <<tries, reply, premium>>
    BY <2>1 DEF A!RunTools
  <2>3. /\ calls' \in Nat /\ calls' <= MaxCalls
        /\ {tries', premium', reply.tools', reply.redundant'} \subseteq Nat
        /\ premium' <= A!EffectiveTurns * Multiplier
    BY <1>0, <2>2 DEF Spent
  <2>4. CASE errors' >= A!MaxErrors
    <3>1. pc' = "done" /\ UNCHANGED <<history, turn>>
      BY <2>1, <2>4 DEF A!RunTools, A!Done
    <3> QED
      BY <1>0, <2>3, <3>1 DEF Told, Spent
  <2>5. CASE ~ (errors' >= A!MaxErrors)
    <3> DEFINE u == A!Message("user")
               s == Append(history, A!Results(turn))
    <3>1. /\ history' = s \o (IF A!Signalled(reply.tools) THEN <<u>> ELSE <<>>)
          /\ turn' = turn + 1 /\ pc' = "turn"
      BY <2>1, <2>5 DEF A!RunTools, A!Goto
    <3>2. PICK h : Whole(h, turn) /\ history = Append(h, A!Use(turn))
      BY <2>2 DEF Told
    <3>3. Whole(s, turn + 1)
      BY <1>0, <3>2, PairLast
    <3>4. Plain(u) /\ s \in Seq(Messages)
      BY <3>3 DEF Plain, Tool, A!Message, Messages, Whole, Cut
    <3> HIDE DEF s, u
    <3>5. history' = s \/ history' = Append(s, u)
      <4>1. Append(s, u) = s \o <<u>> /\ s \o <<>> = s
        BY <3>4, AppendIsConcat, ConcatEmptySeq DEF Plain
      <4> QED
        BY <3>1, <4>1
    <3>6. Whole(history', turn + 1)
      BY <3>3, <3>4, <3>5, PlainLast
    <3> QED
      BY <1>0, <2>3, <3>1, <3>6 DEF Told, Spent
  <2> QED
    BY <2>4, <2>5
<1> QED
  BY <1>1, <1>2, <1>3, <1>4, <1>6, <1>7, <1>8, <1>9 DEF A!Step

(***************************************************************************)
(* What the workers decide is what two of them named.                      *)
(***************************************************************************)
LEMMA NamersFinite ==
    ASSUME NEW a, NEW n
    PROVE  /\ IsFiniteSet(Namers(a, n)) /\ Cardinality(Namers(a, n)) \in 0..Cardinality(Workers)
           /\ Cardinality(Workers) \in Nat
<1>1. Namers(a, n) \subseteq Workers
  BY DEF Namers, Good
<1>2. IsFiniteSet(Workers)
  BY VoteAssumption
<1> QED
  BY <1>1, <1>2, FS_Subset, FS_CardinalityType

\* Each call that is executed has a voter, and a name that two workers gave.
LEMMA ElectedNamed ==
    ASSUME NEW a, NEW C \in Elected(a), NEW c \in C
    PROVE  Voters(a, c) # {} /\ Cardinality(Namers(a, c[1])) >= 2
<1>1. CASE Majority(a) # {}
  <2>1. c \in ToolCalls /\ Cardinality(Voters(a, c)) >= 2
    BY <1>1 DEF Elected, Majority, Threshold
  <2>2. Voters(a, c) \subseteq Namers(a, c[1])
    BY DEF Voters, Namers
  <2>3. Cardinality(Voters(a, c)) <= Cardinality(Namers(a, c[1]))
    BY <2>2, NamersFinite, FS_Subset
  <2>4. Voters(a, c) # {}
    BY <2>1, FS_EmptySet
  <2>5. /\ Cardinality(Voters(a, c)) \in Nat
        /\ Cardinality(Namers(a, c[1])) \in Nat
    BY <2>2, NamersFinite, FS_Subset, FS_CardinalityType
  <2> QED
    BY <2>1, <2>3, <2>4, <2>5
<1>2. CASE Majority(a) = {}
  <2>1. C \in Soft(a)
    BY <1>2 DEF Elected
  <2> DEFINE names == {n \in CallNames : Cardinality(Namers(a, n)) >= Threshold}
  <2>2. C \subseteq names \X CallArgs /\ \A d \in C : Voters(a, d) # {}
    BY <2>1 DEF Soft
  <2>3. c[1] \in names
    BY <2>2
  <2> QED
    BY <2>2, <2>3 DEF Threshold
<1> QED
  BY <1>1, <1>2

\* So the least supported of them has two workers behind it.
LEMMA SupportEnough ==
    ASSUME NEW a, NEW C \in Elected(a), C # {}
    PROVE  Support(a, C) \in Nat /\ Support(a, C) >= 2
<1> DEFINE T == {Cardinality(Namers(a, c[1])) : c \in C}
           Least(k) == /\ \E c \in C : Cardinality(Namers(a, c[1])) = k
                       /\ \A c \in C : Cardinality(Namers(a, c[1])) >= k
           most == Cardinality(Workers)
<1>1. T \subseteq Nat /\ T # {}
  BY NamersFinite
<1>2. PICK k \in T : \A m \in T : k <= m
  BY <1>1, LeastNatural
<1>3. k \in 0..most /\ Least(k)
  <2>1. \A c \in C : Cardinality(Namers(a, c[1])) \in T
    OBVIOUS
  <2>2. PICK c \in C : Cardinality(Namers(a, c[1])) = k
    BY <1>2
  <2>3. \A d \in C : Cardinality(Namers(a, d[1])) >= k
    BY <1>1, <1>2, <2>1
  <2> QED
    BY <2>2, <2>3, NamersFinite
<1>4. Support(a, C) = CHOOSE j \in 0..most : Least(j)
  BY ElectedNamed DEF Support
<1> HIDE DEF Least, most
<1>5. Support(a, C) \in 0..most /\ Least(Support(a, C))
  BY <1>3, <1>4
<1> QED
  BY <1>5, ElectedNamed, NamersFinite DEF Least, most

LEMMA DecisionsBacked == \A d \in Decisions : d.acts => d.support \in Nat /\ d.support >= 2
<1> SUFFICES ASSUME NEW d \in Decisions, d.acts PROVE d.support \in Nat /\ d.support >= 2
  OBVIOUS
<1>1. PICK a, C : /\ C \in Elected(a)
                  /\ d = [acts |-> C # {}, support |-> IF C = {} THEN 0 ELSE Support(a, C),
                          disagree |-> Disagree(a), ends |-> EndVotes(a) >= Threshold]
  BY DEF Decisions
<1>2. C # {} /\ d.support = Support(a, C)
  BY <1>1
<1> QED
  BY <1>1, <1>2, SupportEnough

(***************************************************************************)
(* A run of the ensemble: what its reviews cost, who is behind a call, and *)
(* how many reviews the progress tracker lacks.                            *)
(***************************************************************************)
LEMMA Products ==
    ASSUME NEW a \in Nat, NEW b \in Nat, a <= b, NEW p \in Nat
    PROVE  a * p \in Nat /\ b * p \in Nat /\ a * p <= b * p /\ (a + 1) * p = a * p + p
OBVIOUS

\* A review that no turn has followed.
Latest == checkpoints > 0 /\ lastCheckpoint = workTurns

\* One review for each stalled turn, two without a cooldown, and the latest one.
Hidden == (IF Cooldown = 0 THEN 2 * stalls ELSE stalls) + (IF Latest THEN 1 ELSE 0)

OracleInv ==
    /\ checkpoints \in Nat /\ checkpoints <= MaxCheckpoints
    /\ oPremium = checkpoints * Price /\ shown \in Nat
    /\ backers = "workers" => support >= 2
    /\ {workTurns, lastCheckpoint, stalls} \subseteq Nat /\ lastCheckpoint <= workTurns
    /\ running => oPremium <= shown + Hidden * Price

LEMMA OracleNumbers ==
    /\ {MaxCheckpoints, Price, Cooldown} \subseteq Nat /\ Interval \in Nat \ {0}
    /\ OracleInv => oPremium \in Nat /\ Hidden \in Nat
<1>1. {MaxCheckpoints, Price, Cooldown} \subseteq Nat /\ Interval \in Nat \ {0}
  BY AttemptAssumption DEF O!OracleAssumption
<1> QED
  BY <1>1 DEF OracleInv, Hidden

\* A tracker that is up to date hides nothing.
LEMMA ShowsAll ==
    ASSUME NEW n \in Nat, oPremium \in Nat, shown = oPremium PROVE oPremium <= shown + n * Price
<1>1. n * Price \in Nat
  BY OracleNumbers, Products
<1> QED
  BY <1>1

\* Another review, when the tracker may lack one more.
LEMMA OneMore ==
    ASSUME OracleInv, running, NEW paid, paid = oPremium + Price,
           NEW n \in Nat, Hidden + 1 <= n
    PROVE  paid <= shown + n * Price
<1>1. Price \in Nat /\ Hidden \in Nat /\ oPremium \in Nat /\ shown \in Nat
  BY OracleNumbers DEF OracleInv
<1>2. oPremium <= shown + Hidden * Price
  BY DEF OracleInv
<1> HIDE DEF Hidden
<1>3. Hidden * Price \in Nat /\ (Hidden + 1) * Price = Hidden * Price + Price
  BY <1>1, Products
<1>4. (Hidden + 1) * Price <= n * Price /\ n * Price \in Nat
  BY <1>1, Products
<1> QED
  BY <1>1, <1>2, <1>3, <1>4

\* No review and another stalled turn: the tracker lacks no more than before.
LEMMA NoMore ==
    ASSUME OracleInv, running, NEW n \in Nat, Hidden <= n
    PROVE  oPremium <= shown + n * Price
<1>1. Price \in Nat /\ Hidden \in Nat /\ oPremium \in Nat /\ shown \in Nat
  BY OracleNumbers DEF OracleInv
<1>2. oPremium <= shown + Hidden * Price
  BY DEF OracleInv
<1> HIDE DEF Hidden
<1>3. Hidden * Price \in Nat /\ Hidden * Price <= n * Price /\ n * Price \in Nat
  BY <1>1, Products
<1> QED
  BY <1>1, <1>2, <1>3

\* A review comes only when it is due, or when the cooldown is over.
LEMMA ReviewApart ==
    ASSUME OracleInv, O!Due \/ \E d \in Decisions : O!Escalates(d)
    PROVE  checkpoints < MaxCheckpoints /\ Hidden + 1 <= O!Lost
           /\ (O!Due \/ Cooldown # 0 => ~Latest)
<1>1. {MaxCheckpoints, Cooldown} \subseteq Nat /\ Interval \in Nat \ {0}
  BY OracleNumbers
<1>2. /\ {checkpoints, workTurns, lastCheckpoint, stalls} \subseteq Nat
      /\ lastCheckpoint <= workTurns
  BY DEF OracleInv
<1>3. checkpoints < MaxCheckpoints
  BY DEF O!Due, O!Escalates
<1>4. O!Due => ~Latest
  BY <1>1, <1>2 DEF O!Due, Latest
<1>5. ~O!Due /\ Cooldown # 0 => ~Latest
  BY <1>1, <1>2 DEF O!Escalates, Latest
<1> QED
  BY <1>1, <1>2, <1>3, <1>4, <1>5 DEF Hidden, O!Lost

LEMMA FreshOracle == ASSUME NEW goes, O!Fresh(goes) PROVE OracleInv'
<1>1. {MaxCheckpoints, Price, Cooldown} \subseteq Nat
  BY OracleNumbers
<1>2. /\ checkpoints' = 0 /\ oPremium' = 0 /\ shown' = 0 /\ stalls' = 0
      /\ workTurns' = 0 /\ lastCheckpoint' = 0 /\ backers' = "none"
  BY DEF O!Fresh
<1>3. Hidden' = 0 /\ 0 * Price = 0
  BY <1>1, <1>2 DEF Hidden, Latest
<1> QED
  BY <1>1, <1>2, <1>3 DEF OracleInv

\* What the reviews cost, with another one or without.
LEMMA ReviewPaid ==
    ASSUME OracleInv, O!Reviewed, checkpoints < MaxCheckpoints
    PROVE  /\ checkpoints' \in Nat /\ checkpoints' > 0 /\ checkpoints' <= MaxCheckpoints
           /\ oPremium' = checkpoints' * Price /\ oPremium' \in Nat
           /\ oPremium' = oPremium + Price /\ lastCheckpoint' = workTurns
<1>1. {MaxCheckpoints, Price} \subseteq Nat /\ checkpoints \in Nat
  BY OracleNumbers DEF OracleInv
<1>2. (checkpoints + 1) * Price = checkpoints * Price + Price
  BY <1>1, Products
<1> QED
  BY <1>1, <1>2, OracleNumbers DEF OracleInv, O!Reviewed

LEMMA OracleKeeps == OracleInv /\ O!Step => OracleInv'
<1> SUFFICES ASSUME OracleInv, O!Step PROVE OracleInv'
  OBVIOUS
<1>0. {MaxCheckpoints, Price, Cooldown} \subseteq Nat /\ oPremium \in Nat /\ Hidden \in Nat
      /\ {checkpoints, workTurns, lastCheckpoint, stalls} \subseteq Nat
  BY OracleNumbers DEF OracleInv
<1>1. CASE O!Checkpoint
  <2>1. /\ running /\ O!Due /\ O!Reviewed /\ shown' \in {shown, oPremium'}
        /\ backers' \in {backers, "checkpoint"} /\ UNCHANGED <<workTurns, stalls, support>>
    BY <1>1 DEF O!Checkpoint
  <2>2. checkpoints < MaxCheckpoints /\ ~Latest
    BY <2>1, ReviewApart
  <2>3. /\ checkpoints' \in Nat /\ checkpoints' > 0 /\ checkpoints' <= MaxCheckpoints
        /\ oPremium' = checkpoints' * Price /\ oPremium' \in Nat
        /\ oPremium' = oPremium + Price /\ lastCheckpoint' = workTurns
    BY <2>1, <2>2, ReviewPaid
  <2>4. Hidden' \in Nat /\ Hidden + 1 <= Hidden'
    BY <1>0, <2>1, <2>2, <2>3 DEF Hidden, Latest
  <2>5. oPremium' <= shown' + Hidden' * Price
    <3> HIDE DEF Hidden
    <3>1. CASE shown' = oPremium'
      <4>1. Hidden' * Price \in Nat
        BY <1>0, <2>4, Products
      <4> QED
        BY <2>3, <3>1, <4>1
    <3>2. CASE shown' = shown
      BY <2>1, <2>3, <2>4, <3>2, OneMore
    <3> QED
      BY <2>1, <3>1, <3>2
  <2> QED
    BY <1>0, <2>1, <2>3, <2>5 DEF OracleInv
<1>2. CASE O!Fail \/ O!OutOfTurns
  BY <1>2 DEF O!Fail, O!OutOfTurns, O!Stop, OracleInv
<1>3. ASSUME NEW d \in Decisions, O!Work(d) PROVE OracleInv'
  <2>1. running /\ workTurns' = workTurns + 1 /\ workTurns' \in Nat
    BY <1>0, <1>3 DEF O!Work, O!Stalled, O!Act
  <2>2. /\ checkpoints' \in Nat /\ checkpoints' <= MaxCheckpoints
        /\ oPremium' = checkpoints' * Price /\ oPremium' \in Nat
        /\ lastCheckpoint' \in Nat /\ lastCheckpoint' <= workTurns
    <3>1. CASE O!Escalates(d)
      <4>1. O!Reviewed
        BY <1>3, <3>1 DEF O!Work
      <4> QED
        BY <1>0, <3>1, <4>1, ReviewApart, ReviewPaid
    <3>2. CASE ~O!Escalates(d)
      BY <1>0, <1>3, <3>2 DEF O!Work, OracleInv
    <3> QED
      BY <3>1, <3>2
  <2>3. backers' = "workers" => support' >= 2
    BY <1>3, DecisionsBacked DEF O!Work, O!Stalled, O!Act, OracleInv
  <2>4. CASE stalls' = 0 /\ shown' = oPremium'
    <3>1. Hidden' = 0
      BY <1>0, <2>1, <2>2, <2>4 DEF Hidden, Latest
    <3>2. oPremium' <= shown' + Hidden' * Price
      BY <1>0, <2>2, <2>4, <3>1
    <3> QED
      BY <2>1, <2>2, <2>3, <2>4, <3>2 DEF OracleInv
  <2>5. CASE stalls' = stalls + 1 /\ shown' = shown
    <3>1. Hidden' \in Nat /\ Hidden' = (IF Cooldown = 0 THEN 2 * stalls + 2 ELSE stalls + 1)
      BY <1>0, <2>1, <2>2, <2>5 DEF Hidden, Latest
    <3>2. oPremium' <= shown + Hidden' * Price
      <4>1. CASE O!Escalates(d)
        <5>1. oPremium' = oPremium + Price
          BY <1>3, <4>1, ReviewApart, ReviewPaid DEF O!Work
        <5>2. Hidden + 1 <= Hidden'
          BY <3>1, <4>1, ReviewApart DEF O!Lost
        <5> QED
          BY <2>1, <3>1, <5>1, <5>2, OneMore
      <4>2. CASE ~O!Escalates(d)
        <5>1. oPremium' = oPremium
          BY <1>3, <4>2 DEF O!Work
        <5>2. Hidden <= Hidden'
          BY <1>0, <3>1 DEF Hidden
        <5> QED
          BY <2>1, <3>1, <5>1, <5>2, NoMore
      <4> QED
        BY <4>1, <4>2
    <3> QED
      BY <1>0, <2>1, <2>2, <2>3, <2>5, <3>2 DEF OracleInv
  <2>6. \/ stalls' = 0 /\ shown' = oPremium'
        \/ stalls' = stalls + 1 /\ shown' = shown
    BY <1>3 DEF O!Work, O!Stalled, O!Act
  <2> QED
    BY <2>4, <2>5, <2>6
<1> QED
  BY <1>1, <1>2, <1>3 DEF O!Step

\* The timeout of a run: what it took is on the tracker but for Lost reviews.
LEMMA CancelLoses ==
    ASSUME OracleInv, O!Cancel
    PROVE  /\ OracleInv' /\ O!Lost \in Nat /\ oPremium' \in Nat
           /\ oPremium' <= shown + O!Lost * Price
<1>0. {MaxCheckpoints, Price, Cooldown} \subseteq Nat /\ oPremium \in Nat /\ Hidden \in Nat
      /\ {checkpoints, workTurns, lastCheckpoint, stalls} \subseteq Nat
  BY OracleNumbers DEF OracleInv
<1>1. running /\ running' = FALSE /\ UNCHANGED <<workTurns, stalls, shown, backers, support>>
  BY DEF O!Cancel
<1>2. O!Lost \in Nat /\ Hidden <= O!Lost
  BY <1>0 DEF O!Lost, Hidden
<1>3. CASE UNCHANGED <<checkpoints, oPremium, lastCheckpoint>>
  <2>1. oPremium <= shown + O!Lost * Price
    BY <1>1, <1>2, NoMore
  <2> QED
    BY <1>0, <1>1, <1>2, <1>3, <2>1 DEF OracleInv
<1>4. CASE O!Reviewed /\ (O!Due \/ \E d \in Decisions : O!Escalates(d))
  <2>1. checkpoints < MaxCheckpoints /\ Hidden + 1 <= O!Lost
    BY <1>4, ReviewApart
  <2>2. /\ checkpoints' \in Nat /\ checkpoints' <= MaxCheckpoints
        /\ oPremium' = checkpoints' * Price /\ oPremium' \in Nat
        /\ oPremium' = oPremium + Price /\ lastCheckpoint' = workTurns
    BY <1>4, <2>1, ReviewPaid
  <2>3. oPremium' <= shown + O!Lost * Price
    BY <1>1, <1>2, <2>1, <2>2, OneMore
  <2> QED
    BY <1>0, <1>1, <1>2, <2>2, <2>3 DEF OracleInv
<1> QED
  BY <1>3, <1>4 DEF O!Cancel

(***************************************************************************)
(* The log of a task, over its attempts: what it lacks are reviews that    *)
(* timeouts may have hidden.                                               *)
(***************************************************************************)
Accounts ==
    /\ engine \in {"agent", "oracle"} /\ {logged, used, doubtful} \subseteq Nat
    /\ used <= logged + doubtful * Price

\* What a run reports, and what the tracker shows of the agent.
LEMMA Reports == OracleInv /\ AgentInv => Used \in Nat /\ Shown \in Nat
  BY OracleNumbers DEF Used, Shown, OracleInv, AgentInv, Spent

(***************************************************************************)
(* All of it together.                                                     *)
(***************************************************************************)
RunInv == AgentInv /\ OracleInv /\ Accounts

LEMMA InitRunInv == Init => RunInv
<1> SUFFICES ASSUME Init PROVE RunInv
  OBVIOUS
<1>1. A!EffectiveTurns * Multiplier >= 0 /\ {MaxCalls, MaxCheckpoints, Price} \subseteq Nat
  BY TurnsAre, AttemptAssumption DEF A!AgentAssumption, O!OracleAssumption
<1>2. AgentInv
  BY <1>1 DEF Init, A!Init, A!NoReply, AgentInv, Told, Spent
<1>3. OracleInv
  <2>1. {MaxCheckpoints, Price, Cooldown} \subseteq Nat
    BY OracleNumbers
  <2> QED
    BY <1>1, <2>1 DEF Init, O!Init, OracleInv
<1>4. Accounts
  <2>1. Price \in Nat
    BY OracleNumbers
  <2> QED
    BY <2>1 DEF Init, Accounts
<1> QED
  BY <1>2, <1>3, <1>4 DEF RunInv

\* One step of the attempts: the run goes on, or its account is settled.
LEMMA NextRunInv == RunInv /\ [Next]_vars => RunInv'
<1> SUFFICES ASSUME RunInv, [Next]_vars PROVE RunInv'
  OBVIOUS
<1> USE DEF RunInv
<1>1. UNCHANGED agentVars => AgentInv'
  BY DEF agentVars, AgentInv, Told, Spent
<1>2. UNCHANGED oracleVars => OracleInv'
  BY DEF oracleVars, OracleInv, Hidden, Latest
<1>3. Used \in Nat /\ Shown \in Nat /\ Price \in Nat /\ doubtful * Price \in Nat
  BY Reports, OracleNumbers, Products DEF Accounts
<1>4. CASE Begin
  <2>1. AgentInv'
    BY <1>1, <1>4, FreshAgent DEF Begin, A!Start
  <2>2. OracleInv'
    BY <1>2, <1>4, FreshOracle DEF Begin, O!Start
  <2>3. Accounts'
    BY <1>3, <1>4 DEF Begin, Accounts
  <2> QED
    BY <2>1, <2>2, <2>3
<1>5. CASE GiveUp
  BY <1>1, <1>2, <1>5 DEF GiveUp, Accounts
<1>6. CASE Run
  <2>1. AgentInv' /\ OracleInv'
    BY <1>1, <1>2, <1>6, AgentKeeps, OracleKeeps DEF Run
  <2>2. Accounts'
    BY <1>3, <1>6 DEF Run, own, Accounts
  <2> QED
    BY <2>1, <2>2
<1>7. CASE Returned
  <2>1. TaskCost \in Nat
    BY AttemptAssumption
  <2>2. /\ logged' \in Nat /\ logged' >= logged + Used /\ used' = used + Used
        /\ UNCHANGED <<engine, doubtful>>
    BY <1>3, <1>7, <2>1 DEF Returned, Accounts
  <2>3. Accounts'
    BY <1>3, <2>2 DEF Accounts
  <2> QED
    BY <1>1, <1>2, <1>7, <2>3 DEF Returned
<1>8. CASE TimedOut
  <2>1. /\ logged' = logged + Shown /\ used' = used + Used' /\ engine' = engine
    BY <1>8 DEF TimedOut
  <2>2. CASE engine = "agent"
    <3>1. A!Cancel /\ UNCHANGED <<oracleVars, doubtful>>
      BY <1>8, <2>2 DEF TimedOut
    <3>2. Used' = Shown
      BY <2>1, <2>2, <3>1 DEF A!Cancel, Used, Shown
    <3>3. Accounts'
      BY <1>3, <2>1, <3>1, <3>2 DEF Accounts
    <3>4. AgentInv'
      BY <3>1 DEF A!Cancel, AgentInv, Told, Spent
    <3> QED
      BY <1>2, <3>1, <3>3, <3>4
  <2>3. CASE engine = "oracle"
    <3>1. O!Cancel /\ UNCHANGED agentVars /\ doubtful' = doubtful + O!Lost
      BY <1>8, <2>3 DEF TimedOut
    <3>2. /\ OracleInv' /\ O!Lost \in Nat /\ oPremium' \in Nat
          /\ oPremium' <= shown + O!Lost * Price
      BY <3>1, CancelLoses
    <3>3. Used' = oPremium' /\ Shown = shown /\ shown \in Nat
      BY <2>1, <2>3 DEF Used, Shown, OracleInv
    <3>4. /\ doubtful' \in Nat /\ doubtful' * Price = doubtful * Price + O!Lost * Price
          /\ O!Lost * Price \in Nat
      <4> HIDE DEF O!Lost
      <4> QED
        BY <1>3, <3>1, <3>2 DEF Accounts
    <3>5. Accounts'
      BY <1>3, <2>1, <3>2, <3>3, <3>4 DEF Accounts
    <3> QED
      BY <1>1, <3>1, <3>2, <3>5
  <2> QED
    BY <2>2, <2>3 DEF Accounts
<1>9. CASE Raised
  BY <1>1, <1>2, <1>9 DEF Raised, Accounts
<1>10. CASE Settle
  <2>1. AgentInv' /\ OracleInv'
    BY <1>10, FreshAgent, FreshOracle DEF Settle, A!Leave, O!Leave
  <2>2. Accounts'
    BY <1>3, <1>10 DEF Settle, Accounts
  <2> QED
    BY <2>1, <2>2
<1>11. CASE RecordStep
  BY <1>1, <1>2, <1>3, <1>11 DEF RecordStep, Accounts
<1>12. CASE AskStop
  BY <1>1, <1>2, <1>3, <1>12 DEF AskStop, Accounts
<1>13. CASE UNCHANGED vars
  BY <1>1, <1>2, <1>3, <1>13 DEF vars, own, Accounts
<1> QED
  BY <1>4, <1>5, <1>6, <1>7, <1>8, <1>9, <1>10, <1>11, <1>12, <1>13 DEF Next, Attempts

LEMMA RunsKept == Spec => []RunInv
  BY InitRunInv, NextRunInv, PTL DEF Spec

(***************************************************************************)
(* The first call of a turn has a history that the API accepts, however    *)
(* often it was pruned, summarised or cut by a recovery before:            *)
(* direct_agent sanitizes whatever it has cut before it calls.             *)
(***************************************************************************)
THEOREM HistoryAccepted == Spec => []FirstCallValid
<1>1. RunInv => FirstCallValid
  BY DEF RunInv, AgentInv, Told, FirstCallValid, A!FirstCallValid
<1> QED
  BY <1>1, RunsKept, PTL

(***************************************************************************)
(* The agent executes no more tools than its budget and, when the budget   *)
(* pays for one request at all, takes no more premium than it; the         *)
(* ensemble has no more reviews than it is allowed.                        *)
(***************************************************************************)
THEOREM WithinBudgets == Spec => []BudgetsKept
<1>1. RunInv => BudgetsKept
  <2> SUFFICES ASSUME RunInv PROVE BudgetsKept
    OBVIOUS
  <2>1. calls <= MaxCalls /\ checkpoints <= MaxCheckpoints
    BY DEF RunInv, AgentInv, Spent, OracleInv
  <2>2. ASSUME Budget >= Multiplier, Multiplier > 0 PROVE premium <= Budget
    <3>1. /\ premium \in Nat /\ premium <= A!EffectiveTurns * Multiplier
          /\ A!EffectiveTurns * Multiplier \in Nat /\ Budget \in Nat
      BY TurnsAre, AttemptAssumption DEF RunInv, AgentInv, Spent, A!AgentAssumption
    <3> QED
      BY <2>2, <3>1, TurnsPaid
  <2> QED
    BY <2>1, <2>2 DEF BudgetsKept, A!BudgetsKept, O!ReviewsBounded
<1> QED
  BY <1>1, RunsKept, PTL

(***************************************************************************)
(* Calls that the reviewer did not make carry names two workers gave.      *)
(***************************************************************************)
THEOREM NoFreeModelAlone == Spec => []Backed
<1>1. RunInv => Backed
  BY DEF RunInv, OracleInv, Backed, O!Backed
<1> QED
  BY <1>1, RunsKept, PTL

(***************************************************************************)
(* The log holds all premium an agent took; for the ensemble it lacks at   *)
(* most, for each timeout, a review for every stalled turn since tools     *)
(* were last executed and one for the turn the timeout ended, or two for   *)
(* each when there is no cooldown.                                         *)
(***************************************************************************)
THEOREM NothingUnlogged == Spec => []LogComplete
<1>1. RunInv => LogComplete
  BY DEF RunInv, Accounts, LogComplete
<1> QED
  BY <1>1, RunsKept, PTL
=============================================================================
