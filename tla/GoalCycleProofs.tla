--------------------------- MODULE GoalCycleProofs ---------------------------
(***************************************************************************)
(* Theorems about GoalCycle, for any goals, dependencies, budgets and      *)
(* plan sizes, and whatever the model answers.  The first part says what   *)
(* the operations of StepPlan preserve.  The inductive invariant of the    *)
(* second says that every plan is good and that the task in the dispatch   *)
(* loop is still the next step of its plan.                                *)
(***************************************************************************)
EXTENDS GoalCycle, SequenceTheorems, TLAPS

\* What every stored plan satisfies.
Good(p) == p \in Plan /\ Ordered(p) /\ WithinBudget(p) /\ Settled(p)

\* A plan whose next step i has just been recorded as failed.
JustFailed(p, i) ==
    /\ p \in Plan /\ WithinBudget(p)
    /\ ~p.completed /\ ~p.blocked
    /\ i \in DOMAIN p.steps
    /\ p.steps[i].status = "failed"
    /\ \A j \in DOMAIN p.steps : j < i => p.steps[j].status = "completed"
    /\ \A j \in DOMAIN p.steps : j > i => p.steps[j].status = "pending"

-----------------------------------------------------------------------------
(* Drafted plans.                                                          *)

\* "No plan" counts as a good plan.
LEMMA NoPlanGood == Good(NoPlan)
BY BudgetAssumption DEF Good, NoPlan, Plan, Ordered, WithinBudget, Settled

\* A step made pending from a draft, or from a step, is a step.
LEMMA PendingType ==
    /\ \A d \in DraftType : Pending(d) \in Step /\ Pending(d).status = "pending"
    /\ \A d \in Step : Pending(d) \in Step /\ Pending(d).status = "pending"
BY DEF Pending, Step, DraftType, StepStatus

\* A list of drafts becomes a list of pending steps of the same length.
LEMMA PendingList ==
    ASSUME NEW n \in Nat, NEW ds \in [1..n -> DraftType]
    PROVE  /\ PendingSteps(ds) \in Seq(Step)
           /\ Len(PendingSteps(ds)) = n
           /\ \A k \in 1..n : PendingSteps(ds)[k].status = "pending"
<1>1. /\ PendingSteps(ds) \in [1..n -> Step]
      /\ \A k \in 1..n : PendingSteps(ds)[k].status = "pending"
  BY PendingType DEF PendingSteps
<1>2. PendingSteps(ds) \in Seq(Step)
  BY <1>1
<1> QED
  BY <1>1, <1>2, LenProperties

\* A decomposition gives a good plan.
LEMMA NewPlanGood ==
    ASSUME NEW ds \in Decompositions
    PROVE  Good(NewPlan(ds))
<1>1. PICK n \in 1..MaxSteps : ds \in [1..n -> DraftType]
  BY SizesAssumption, DraftsAssumption DEF Decompositions, ListsUpTo
<1> DEFINE st == PendingSteps(ds)
<1>2. /\ n \in Nat /\ n >= 1
      /\ st \in Seq(Step) /\ Len(st) = n
      /\ \A k \in 1..n : st[k].status = "pending"
  BY <1>1, PendingList, SizesAssumption
<1> DEFINE q == NewPlan(ds)
<1>3. NoPlan \in Plan
  BY NoPlanGood DEF Good
<1> HIDE DEF st
<1>4. /\ q \in Plan
      /\ q.steps = st /\ ~q.completed /\ ~q.blocked
      /\ q.retries = <<>> /\ q.recomps = 0
  BY <1>2, <1>3 DEF NewPlan, NoPlan, Plan, st
<1> HIDE DEF q
<1>5. Ordered(q) /\ WithinBudget(q)
  BY <1>2, <1>4, BudgetAssumption DEF Ordered, WithinBudget
<1>6. IsNext(q, 1)
  BY <1>2, <1>4 DEF IsNext
<1>7. Settled(q)
  BY <1>2, <1>4, <1>6 DEF Settled
<1> QED
  BY <1>4, <1>5, <1>7 DEF Good, q

-----------------------------------------------------------------------------
(* Recording a result.                                                     *)

\* A good plan with a next step has tried nothing after it.
LEMMA NextStepFirst ==
    ASSUME NEW p, Good(p), NEW i, IsNext(p, i)
    PROVE  /\ i \in 1..Len(p.steps) /\ p.steps \in Seq(Step)
           /\ \A j \in 1..Len(p.steps) : j < i => p.steps[j].status = "completed"
           /\ \A j \in 1..Len(p.steps) : j > i => p.steps[j].status = "pending"
<1>1. p.steps \in Seq(Step) /\ i \in 1..Len(p.steps)
  BY DEF Good, Plan, IsNext
<1>2. \A j \in 1..Len(p.steps) : j < i => p.steps[j].status = "completed"
  BY <1>1 DEF IsNext
<1>3. ASSUME NEW j \in 1..Len(p.steps), j > i
      PROVE  p.steps[j].status = "pending"
  BY <1>1, <1>3 DEF Good, Ordered, IsNext
<1> QED
  BY <1>1, <1>2, <1>3

\* The steps of a plan after the status of one of them has been set.
LEMMA StatusSet ==
    ASSUME NEW st \in Seq(Step), NEW i \in 1..Len(st), NEW v \in StepStatus
    PROVE  /\ [st EXCEPT ![i].status = v] \in Seq(Step)
           /\ Len([st EXCEPT ![i].status = v]) = Len(st)
           /\ [st EXCEPT ![i].status = v][i].status = v
           /\ \A j \in 1..Len(st) : j # i => [st EXCEPT ![i].status = v][j] = st[j]
<1>1. [st[i] EXCEPT !.status = v] \in Step /\ [st[i] EXCEPT !.status = v].status = v
  <2>1. st[i] \in Step
    BY ElementOfSeq
  <2> QED
    BY <2>1 DEF Step
<1> QED
  BY <1>1, ExceptSeq

\* Recording a failure of the next step.
LEMMA RecordedFailure ==
    ASSUME NEW p, Good(p), NEW i, IsNext(p, i)
    PROVE  JustFailed(Recorded(p, i, FALSE), i)
<1> DEFINE st == [p.steps EXCEPT ![i].status = "failed"]
<1>1. /\ i \in 1..Len(p.steps) /\ p.steps \in Seq(Step)
      /\ \A j \in 1..Len(p.steps) : j < i => p.steps[j].status = "completed"
      /\ \A j \in 1..Len(p.steps) : j > i => p.steps[j].status = "pending"
  BY NextStepFirst
<1>2. /\ st \in Seq(Step) /\ Len(st) = Len(p.steps)
      /\ st[i].status = "failed"
      /\ \A j \in 1..Len(p.steps) : j # i => st[j] = p.steps[j]
  BY <1>1, StatusSet DEF StepStatus
<1>3. Recorded(p, i, FALSE) = [p EXCEPT !.steps = st]
  <2>1. ~AllCompleted(st)
    BY <1>1, <1>2 DEF AllCompleted
  <2> QED
    BY <2>1 DEF Recorded
<1> HIDE DEF st
<1> DEFINE q == [p EXCEPT !.steps = st]
<1>4. /\ q \in Plan /\ q.steps = st
      /\ q.completed = p.completed /\ q.blocked = p.blocked
      /\ q.retries = p.retries /\ q.recomps = p.recomps
  BY <1>2 DEF Good, Plan
<1>5. ~q.completed /\ ~q.blocked
  BY <1>4 DEF IsNext
<1>6. WithinBudget(q)
  BY <1>4 DEF Good, WithinBudget
<1> HIDE DEF q
<1>7. JustFailed(q, i)
  BY <1>1, <1>2, <1>4, <1>5, <1>6 DEF JustFailed
<1> QED
  BY <1>3, <1>7 DEF q

\* The mutation step is added at the end, pending, or not at all.
LEMMA EnforcedSteps ==
    ASSUME NEW st \in Seq(Step), Len(st) >= 1
    PROVE  /\ Enforced(st) \in Seq(Step)
           /\ Len(Enforced(st)) \in {Len(st), Len(st) + 1}
           /\ \A j \in 1..Len(st) : Enforced(st)[j] = st[j]
           /\ Len(Enforced(st)) = Len(st) + 1 =>
                Enforced(st)[Len(st) + 1].status = "pending"
<1> DEFINE m == MutationStep(st[Len(st)].tier)
<1>1. m \in Step /\ m.status = "pending"
  <2>1. st[Len(st)] \in Step
    BY ElementOfSeq
  <2> QED
    BY <2>1 DEF MutationStep, Step, StepStatus
<1> HIDE DEF m
<1>2. /\ Append(st, m) \in Seq(Step) /\ Len(Append(st, m)) = Len(st) + 1
      /\ \A j \in 1..Len(st) : Append(st, m)[j] = st[j]
      /\ Append(st, m)[Len(st) + 1] = m
  BY <1>1, AppendProperties
<1>3. Enforced(st) = st \/ Enforced(st) = Append(st, m)
  BY DEF Enforced, m
<1> QED
  BY <1>1, <1>2, <1>3, LenProperties

\* Recording a success of the next step keeps a plan good.
LEMMA RecordedSuccess ==
    ASSUME NEW p, Good(p), NEW i, IsNext(p, i)
    PROVE  Good(Recorded(p, i, TRUE))
<1> DEFINE st == [p.steps EXCEPT ![i].status = "completed"]
           q == Recorded(p, i, TRUE)
<1>1. /\ i \in 1..Len(p.steps) /\ p.steps \in Seq(Step)
      /\ \A j \in 1..Len(p.steps) : j < i => p.steps[j].status = "completed"
      /\ \A j \in 1..Len(p.steps) : j > i => p.steps[j].status = "pending"
  BY NextStepFirst
<1>2. /\ st \in Seq(Step) /\ Len(st) = Len(p.steps)
      /\ \A j \in 1..Len(st) : j <= i => st[j].status = "completed"
      /\ \A j \in 1..Len(st) : j > i => st[j].status = "pending"
  <2>1. /\ st \in Seq(Step) /\ Len(st) = Len(p.steps)
        /\ st[i].status = "completed"
        /\ \A j \in 1..Len(p.steps) : j # i => st[j] = p.steps[j]
    BY <1>1, StatusSet DEF StepStatus
  <2> HIDE DEF st
  <2> QED
    BY <1>1, <2>1
<1>3. q = IF AllCompleted(st)
          THEN [p EXCEPT !.steps = Enforced(st), !.completed = TRUE]
          ELSE [p EXCEPT !.steps = st]
  BY DEF Recorded
<1> HIDE DEF st, q
<1>4. p \in Plan /\ WithinBudget(p) /\ ~p.completed /\ ~p.blocked
  BY DEF Good, IsNext
<1>5. CASE AllCompleted(st)
  <2> DEFINE e == Enforced(st)
  <2>1. /\ e \in Seq(Step) /\ Len(e) \in {Len(st), Len(st) + 1}
        /\ \A j \in 1..Len(st) : e[j] = st[j]
        /\ Len(e) = Len(st) + 1 => e[Len(st) + 1].status = "pending"
    BY <1>1, <1>2, EnforcedSteps
  <2> HIDE DEF e
  <2>2. /\ q \in Plan /\ q.steps = e /\ q.completed /\ ~q.blocked
        /\ q.retries = p.retries /\ q.recomps = p.recomps
    BY <1>3, <1>4, <1>5, <2>1 DEF Plan, e
  <2>3. /\ Len(st) \in Nat
        /\ \A j \in 1..Len(st) : e[j].status = "completed"
    BY <1>2, <1>5, <2>1, LenProperties DEF AllCompleted
  <2>4. Ordered(q)
    BY <2>1, <2>2, <2>3 DEF Ordered
  <2>5. Settled(q)
    <3>1. \A j \in 1..Len(e) : e[j].status # "failed"
      BY <2>1, <2>3
    <3>2. \A j \in 1..(Len(e) - 1) : e[j].status = "completed"
      BY <2>1, <2>3
    <3> QED
      BY <2>1, <2>2, <3>1, <3>2 DEF Settled
  <2>6. WithinBudget(q)
    BY <1>4, <2>2 DEF WithinBudget
  <2> QED
    BY <2>2, <2>4, <2>5, <2>6 DEF Good, q
<1>6. CASE ~AllCompleted(st)
  <2>1. /\ q \in Plan /\ q.steps = st /\ ~q.completed /\ ~q.blocked
        /\ q.retries = p.retries /\ q.recomps = p.recomps
    BY <1>2, <1>3, <1>4, <1>6 DEF Plan
  <2>2. Ordered(q)
    BY <1>1, <1>2, <2>1 DEF Ordered
  <2>3. IsNext(q, i + 1)
    <3>1. i + 1 \in 1..Len(st)
      BY <1>1, <1>2, <1>6 DEF AllCompleted
    <3> QED
      BY <1>1, <1>2, <2>1, <3>1 DEF IsNext
  <2>4. \A j \in 1..Len(st) : st[j].status # "failed"
    BY <1>1, <1>2
  <2>5. Settled(q)
    <3>1. i + 1 \in DOMAIN q.steps
      BY <2>3 DEF IsNext
    <3> QED
      BY <1>2, <2>1, <2>3, <2>4, <3>1 DEF Settled
  <2>6. WithinBudget(q)
    BY <1>4, <2>1 DEF WithinBudget
  <2> QED
    BY <2>1, <2>2, <2>5, <2>6 DEF Good, q
<1> QED
  BY <1>5, <1>6 DEF q

-----------------------------------------------------------------------------
(* Recovering from a failure.                                              *)

\* Counting one more retry keeps the counts a sequence, and within budget if
\* the step had a retry left.
LEMMA RetryCounts ==
    ASSUME NEW p, p \in Plan, WithinBudget(p), NEW i \in Nat \ {0}, CanRetry(p, i)
    PROVE  /\ OneMoreRetry(p.retries, i) \in Seq(Nat)
           /\ \A j \in DOMAIN OneMoreRetry(p.retries, i) :
                 OneMoreRetry(p.retries, i)[j] <= MaxRetries
<1> DEFINE r == p.retries
           n == IF i > Len(r) THEN i ELSE Len(r)
           count(j) == (IF j \in DOMAIN r THEN r[j] ELSE 0) + (IF j = i THEN 1 ELSE 0)
<1>1. r \in Seq(Nat) /\ Len(r) \in Nat /\ DOMAIN r = 1..Len(r) /\ n \in Nat
  BY LenProperties DEF Plan
<1>2. ASSUME NEW j \in 1..n
      PROVE  count(j) \in Nat /\ count(j) <= MaxRetries
  <2>1. j \in DOMAIN r => r[j] \in Nat /\ r[j] <= MaxRetries
    BY <1>1, ElementOfSeq DEF WithinBudget
  <2>2. j = i => (IF j \in DOMAIN r THEN r[j] ELSE 0) < MaxRetries
    BY DEF CanRetry, Retried
  <2> HIDE DEF r
  <2> QED
    BY <2>1, <2>2, BudgetAssumption
<1>3. OneMoreRetry(r, i) = [j \in 1..n |-> count(j)]
  BY DEF OneMoreRetry
<1> HIDE DEF count, n
<1>4. OneMoreRetry(r, i) \in [1..n -> Nat]
  BY <1>2, <1>3
<1>5. OneMoreRetry(r, i) \in Seq(Nat)
  BY <1>1, <1>4
<1> QED
  BY <1>2, <1>3, <1>5

\* A retried or revised step is pending again and its plan is good.
LEMMA RetryGood ==
    ASSUME NEW p, NEW i, JustFailed(p, i), CanRetry(p, i), NEW d \in Step
    PROVE  Good(Retry(p, i, d)) /\ Len(Retry(p, i, d).steps) >= 1
<1> DEFINE q  == Retry(p, i, d)
           st == [p.steps EXCEPT ![i] = Pending(d)]
           r  == OneMoreRetry(p.retries, i)
<1>1. /\ p \in Plan /\ WithinBudget(p) /\ ~p.completed /\ ~p.blocked
      /\ p.steps \in Seq(Step) /\ Len(p.steps) \in Nat /\ i \in 1..Len(p.steps)
      /\ \A j \in 1..Len(p.steps) : j < i => p.steps[j].status = "completed"
      /\ \A j \in 1..Len(p.steps) : j > i => p.steps[j].status = "pending"
  BY LenProperties DEF JustFailed, Plan
<1>2. /\ st \in Seq(Step) /\ Len(st) = Len(p.steps)
      /\ \A j \in 1..Len(st) : j < i => st[j].status = "completed"
      /\ \A j \in 1..Len(st) : j >= i => st[j].status = "pending"
  <2>1. Pending(d) \in Step /\ Pending(d).status = "pending"
    BY PendingType
  <2>2. /\ st \in Seq(Step) /\ Len(st) = Len(p.steps)
        /\ st[i] = Pending(d)
        /\ \A j \in 1..Len(p.steps) : j # i => st[j] = p.steps[j]
    BY <1>1, <2>1, ExceptSeq
  <2> HIDE DEF st
  <2> QED
    BY <1>1, <2>1, <2>2
<1>3. r \in Seq(Nat) /\ \A j \in DOMAIN r : r[j] <= MaxRetries
  <2>1. i \in Nat \ {0}
    BY <1>1
  <2> QED
    BY <1>1, <2>1, RetryCounts
<1> HIDE DEF st, r
<1>4. /\ q \in Plan /\ q.steps = st /\ ~q.completed /\ ~q.blocked
      /\ q.retries = r /\ q.recomps = p.recomps
  BY <1>1, <1>2, <1>3 DEF Retry, Plan, st, r
<1> HIDE DEF q
<1>5. WithinBudget(q)
  BY <1>1, <1>3, <1>4 DEF WithinBudget
<1>6. Ordered(q)
  BY <1>1, <1>2, <1>4 DEF Ordered
<1>7. IsNext(q, i)
  BY <1>1, <1>2, <1>4 DEF IsNext
<1>8. \A j \in 1..Len(st) : st[j].status # "failed"
  BY <1>1, <1>2
<1>9. Settled(q)
  BY <1>1, <1>2, <1>4, <1>7, <1>8 DEF Settled
<1> QED
  BY <1>1, <1>2, <1>4, <1>5, <1>6, <1>9 DEF Good, q

\* A recomposed plan keeps the completed steps and is good.
LEMMA RecomposeGood ==
    ASSUME NEW p, NEW i, JustFailed(p, i), CanRecompose(p), NEW ds \in Replacements
    PROVE  LET q == Recompose(p, SubSeq(p.steps, 1, i - 1), ds)
           IN  Good(q) /\ Len(q.steps) >= 1 /\ ~q.completed
<1> DEFINE kept == SubSeq(p.steps, 1, i - 1)
           new  == PendingSteps(ds)
           st   == kept \o new
           q    == Recompose(p, kept, ds)
<1>1. /\ p \in Plan /\ WithinBudget(p) /\ ~p.completed /\ ~p.blocked
      /\ p.steps \in Seq(Step) /\ Len(p.steps) \in Nat /\ i \in 1..Len(p.steps)
      /\ \A j \in 1..Len(p.steps) : j < i => p.steps[j].status = "completed"
  BY LenProperties DEF JustFailed, Plan
<1>2. PICK n \in 1..MaxNew : ds \in [1..n -> DraftType]
  <2>1. {[d EXCEPT !.guarded = FALSE] : d \in Drafts} \subseteq DraftType
    BY DraftsAssumption DEF DraftType
  <2> QED
    BY <2>1, SizesAssumption DEF Replacements, ListsUpTo
<1>3. /\ n \in Nat /\ n >= 1
      /\ new \in Seq(Step) /\ Len(new) = n
      /\ \A k \in 1..n : new[k].status = "pending"
  BY <1>2, PendingList, SizesAssumption
<1>4. /\ kept \in Seq(Step) /\ Len(kept) = i - 1
      /\ \A k \in 1..(i - 1) : kept[k] = p.steps[k]
  BY <1>1, SubSeqProperties
<1> HIDE DEF kept, new
<1>5. /\ st \in Seq(Step) /\ Len(st) = i - 1 + n
      /\ \A k \in 1..Len(st) : st[k] = IF k <= i - 1 THEN kept[k] ELSE new[k - (i - 1)]
  <2>1. /\ kept \o new \in Seq(Step) /\ Len(kept \o new) = Len(kept) + Len(new)
        /\ \A k \in 1..(Len(kept) + Len(new)) :
              (kept \o new)[k] = IF k <= Len(kept) THEN kept[k] ELSE new[k - Len(kept)]
    BY <1>3, <1>4, ConcatProperties
  <2> QED
    BY <1>3, <1>4, <2>1
<1> HIDE DEF st
<1>6. /\ \A k \in 1..Len(st) : k < i => st[k].status = "completed"
      /\ \A k \in 1..Len(st) : k >= i => st[k].status = "pending"
  <2>1. ASSUME NEW k \in 1..Len(st), k < i
        PROVE  st[k].status = "completed"
    <3>1. k <= i - 1 /\ k \in 1..(i - 1)
      BY <1>1, <1>5, <2>1, LenProperties
    <3>2. st[k] = kept[k] /\ kept[k] = p.steps[k]
      BY <1>4, <1>5, <2>1, <3>1
    <3> QED
      BY <1>1, <2>1, <3>1, <3>2
  <2>2. ASSUME NEW k \in 1..Len(st), k >= i
        PROVE  st[k].status = "pending"
    <3>1. ~(k <= i - 1) /\ k - (i - 1) \in 1..n
      BY <1>1, <1>3, <1>5, <2>2, LenProperties
    <3> QED
      BY <1>3, <1>5, <3>1
  <2> QED
    BY <2>1, <2>2
<1>7. /\ q \in Plan /\ q.steps = st /\ ~q.completed /\ ~q.blocked
      /\ q.retries = p.retries /\ q.recomps = p.recomps + 1
  <2>1. q = [p EXCEPT !.steps = st, !.recomps = @ + 1, !.completed = FALSE]
    BY DEF Recompose, st, new
  <2> HIDE DEF q, st
  <2>2. p.recomps + 1 \in Nat
    BY <1>1 DEF Plan
  <2>3. q \in Plan
    BY <1>1, <1>5, <2>1, <2>2 DEF Plan
  <2>4. /\ q.steps = st /\ ~q.completed /\ q.blocked = p.blocked
        /\ q.retries = p.retries /\ q.recomps = p.recomps + 1
    BY <1>1, <2>1 DEF Plan
  <2> QED
    BY <1>1, <2>3, <2>4
<1> HIDE DEF q
<1>8. WithinBudget(q)
  BY <1>1, <1>7, BudgetAssumption DEF WithinBudget, CanRecompose, Plan
<1>9. Ordered(q)
  BY <1>1, <1>3, <1>5, <1>6, <1>7 DEF Ordered
<1>10. IsNext(q, i)
  BY <1>1, <1>3, <1>5, <1>6, <1>7 DEF IsNext
<1>11. \A j \in 1..Len(st) : st[j].status # "failed"
  BY <1>1, <1>5, <1>6
<1>12. i \in DOMAIN q.steps
  BY <1>10 DEF IsNext
<1>13. Settled(q)
  BY <1>5, <1>7, <1>10, <1>11, <1>12 DEF Settled
<1> QED
  BY <1>1, <1>3, <1>5, <1>7, <1>8, <1>9, <1>13 DEF Good, q, kept

\* Blocking settles a plan in which a step has just failed.
LEMMA BlockGood ==
    ASSUME NEW p, NEW i, JustFailed(p, i)
    PROVE  Good(Block(p)) /\ Len(Block(p).steps) >= 1
<1> DEFINE q == Block(p)
<1>1. /\ q \in Plan /\ q.steps = p.steps /\ q.blocked /\ ~q.completed
      /\ q.retries = p.retries /\ q.recomps = p.recomps
  BY DEF Block, Plan, JustFailed
<1>2. p.steps \in Seq(Step) /\ Len(p.steps) \in Nat /\ i \in 1..Len(p.steps)
  BY LenProperties DEF JustFailed, Plan
<1> HIDE DEF q
<1>3. WithinBudget(q)
  BY <1>1 DEF WithinBudget, JustFailed
<1>4. Ordered(q)
  BY <1>1, <1>2 DEF Ordered, JustFailed
<1>5. Settled(q)
  BY <1>1 DEF Settled
<1> QED
  BY <1>1, <1>2, <1>3, <1>4, <1>5 DEF Good, q

\* So does blocking a good plan that is not completed.
LEMMA BlockStaysGood ==
    ASSUME NEW p, Good(p), ~p.completed
    PROVE  Good(Block(p))
<1> DEFINE q == Block(p)
<1>1. /\ q \in Plan /\ q.steps = p.steps /\ q.blocked /\ ~q.completed
      /\ q.retries = p.retries /\ q.recomps = p.recomps
  BY DEF Block, Plan, Good
<1> HIDE DEF q
<1>2. WithinBudget(q) /\ Ordered(q)
  BY <1>1 DEF WithinBudget, Ordered, Good
<1>3. Settled(q)
  BY <1>1 DEF Settled
<1> QED
  BY <1>1, <1>2, <1>3 DEF Good, q

\* Logging a failure changes the log alone.
LEMMA LoggedGood ==
    ASSUME NEW p, Good(p), Len(p.steps) >= 1, NEW entry \in 0..NTiers
    PROVE  Good(Logged(p, entry))
<1> DEFINE q   == Logged(p, entry)
           log == Append(p.log, entry)
<1>1. p \in Plan /\ p.log \in Seq(0..NTiers)
  BY DEF Good, Plan
<1>2. log \in Seq(0..NTiers) /\ Len(log) \in Nat
  BY <1>1, AppendProperties, LenProperties
<1>3. SubSeq(log, 2, Len(log)) \in Seq(0..NTiers)
  <2> HIDE DEF log
  <2>1. ASSUME NEW k \in 2..Len(log)
        PROVE  log[k] \in 0..NTiers
    <3>1. k \in 1..Len(log)
      BY <1>2
    <3> QED
      BY <1>2, <3>1, ElementOfSeq
  <2> QED
    BY <1>2, <2>1, SubSeqProperties
<1> HIDE DEF log
<1>4. /\ q \in Plan /\ q.steps = p.steps
      /\ q.blocked = p.blocked /\ q.completed = p.completed
      /\ q.retries = p.retries /\ q.recomps = p.recomps
  BY <1>1, <1>2, <1>3 DEF Logged, Plan, log
<1> HIDE DEF q
<1>5. WithinBudget(q) /\ Ordered(q)
  BY <1>4 DEF WithinBudget, Ordered, Good
<1>6. p # NoPlan
  BY DEF NoPlan
<1>7. \A i : IsNext(p, i) <=> IsNext(q, i)
  BY <1>4 DEF IsNext
<1>8. Settled(q)
  BY <1>4, <1>6, <1>7 DEF Settled, Good
<1> QED
  BY <1>4, <1>5, <1>8 DEF Good, q

-----------------------------------------------------------------------------
(* The cycles of the watcher.                                               *)

IInv == TypeOK /\ (\A s \in SubGoals : Good(plan[s])) /\ TaskIsNext

\* The variables a recovery changes, as a fact about their new values.
PlansGood ==
    /\ plan \in [SubGoals -> Plan] /\ (\A s \in SubGoals : Good(plan[s]))
    /\ status \in [SubGoals -> Statuses]
    /\ override \in [SubGoals -> 0..NTiers]

-----------------------------------------------------------------------------
(* The initial states and the parts of a step.                             *)

LEMMA InitIInv == Init => IInv
<1> SUFFICES ASSUME Init PROVE IInv
  OBVIOUS
<1>1. \A s \in SubGoals : plan[s] = NoPlan /\ Good(plan[s])
  BY NoPlanGood DEF Init
<1>2. TypeOK
  BY NoPlanGood, TiersAssumption DEF Init, TypeOK, Statuses, NoTask, Good
<1>3. TaskIsNext
  BY DEF Init, TaskIsNext
<1> QED
  BY <1>1, <1>2, <1>3 DEF IInv

\* The override a failure leaves is a tier.
LEMMA EscalatedType ==
    ASSUME NEW o \in 0..NTiers, NEW log, NEW entry \in 0..NTiers
    PROVE  Escalated(o, log, entry) \in 0..NTiers
BY TiersAssumption DEF Escalated

\* Replacing one plan by a good one.
LEMMA PlanReplaced ==
    ASSUME PlansGood, NEW s \in SubGoals, NEW q, Good(q),
           plan' = [plan EXCEPT ![s] = q]
    PROVE  plan' \in [SubGoals -> Plan] /\ \A r \in SubGoals : Good(plan'[r])
BY DEF PlansGood, Good

\* Logging the failure with the new plan.
LEMMA AppliedGood ==
    ASSUME PlansGood, NEW s \in SubGoals, NEW q, Good(q), Len(q.steps) >= 1,
           NEW entry \in 0..NTiers, Applied(s, q, entry)
    PROVE  /\ plan' \in [SubGoals -> Plan]
           /\ \A r \in SubGoals : Good(plan'[r])
           /\ override' \in [SubGoals -> 0..NTiers]
<1>1. Good(Logged(q, entry))
  BY LoggedGood
<1>2. Escalated(override[s], Logged(q, entry).log, entry) \in 0..NTiers
  BY EscalatedType DEF PlansGood
<1> QED
  BY <1>1, <1>2, PlanReplaced DEF Applied, PlansGood

\* Saving the plan without a log entry.
LEMMA UnloggedGood ==
    ASSUME PlansGood, NEW s \in SubGoals, NEW q, Good(q), Unlogged(s, q)
    PROVE  /\ plan' \in [SubGoals -> Plan]
           /\ \A r \in SubGoals : Good(plan'[r])
           /\ override' \in [SubGoals -> 0..NTiers]
BY PlanReplaced DEF Unlogged, PlansGood

\* What the log receives is a tier or 0.
LEMMA EntriesType ==
    ASSUME NEW p, NEW i, JustFailed(p, i)
    PROVE  Entries(p, i) \subseteq 0..NTiers /\ p.steps[i] \in Step
<1>1. p.steps[i] \in Step
  BY ElementOfSeq DEF JustFailed, Plan
<1> QED
  BY <1>1, TiersAssumption DEF Entries, Step, Tiers

\* Every recovery of a plan that has just failed leaves good plans.
LEMMA RecoverGood ==
    ASSUME PlansGood, NEW s \in SubGoals, NEW p, NEW i, JustFailed(p, i),
           NEW known, Recover(s, p, i, known)
    PROVE  PlansGood'
<1>1. Entries(p, i) \subseteq 0..NTiers /\ 0 \in 0..NTiers /\ p.steps[i] \in Step
  BY EntriesType, TiersAssumption
<1>2. CASE RetryStep(s, p, i)
  <2>1. PICK d \in Revisions(p.steps[i]) :
          \/ \E entry \in Entries(p, i) : Applied(s, Retry(p, i, d), entry)
          \/ Unlogged(s, Retry(p, i, d))
    BY <1>2 DEF RetryStep
  <2>2. d \in Step
    BY <1>1, <2>1, DraftsAssumption DEF Revisions, Step, DraftType
  <2>3. Good(Retry(p, i, d)) /\ Len(Retry(p, i, d).steps) >= 1
    BY <1>2, <2>2, RetryGood DEF RetryStep
  <2> QED
    BY <1>1, <1>2, <2>1, <2>3, AppliedGood, UnloggedGood DEF RetryStep, PlansGood
<1>3. CASE RecomposePlan(s, p, i)
  <2>1. PICK ds \in Replacements :
          LET q == Recompose(p, SubSeq(p.steps, 1, i - 1), ds)
          IN  \/ \E entry \in Entries(p, i) : Applied(s, q, entry)
              \/ Unlogged(s, Block(q))
    BY <1>3 DEF RecomposePlan
  <2> DEFINE q == Recompose(p, SubSeq(p.steps, 1, i - 1), ds)
  <2>2. Good(q) /\ Len(q.steps) >= 1 /\ ~q.completed
    BY <1>3, RecomposeGood DEF RecomposePlan
  <2>3. (\E entry \in Entries(p, i) : Applied(s, q, entry)) \/ Unlogged(s, Block(q))
    BY <2>1
  <2> HIDE DEF q
  <2>4. Good(Block(q))
    BY <2>2, BlockStaysGood
  <2> QED
    BY <1>1, <1>3, <2>2, <2>3, <2>4, AppliedGood, UnloggedGood
       DEF RecomposePlan, PlansGood
<1>4. CASE BlockPlan(s, p, i, known)
  <2>1. Good(Block(p)) /\ Len(Block(p).steps) >= 1
    BY BlockGood
  <2>2. (\E entry \in 0..NTiers : Applied(s, Block(p), entry)) \/ Unlogged(s, Block(p))
    BY <1>1, <1>4 DEF BlockPlan
  <2>3. status' \in [SubGoals -> Statuses]
    BY <1>4 DEF BlockPlan, PlansGood, Statuses
  <2> QED
    BY <2>1, <2>2, <2>3, AppliedGood, UnloggedGood DEF PlansGood
<1> QED
  BY <1>2, <1>3, <1>4 DEF Recover

-----------------------------------------------------------------------------
(* One step preserves the invariant.                                       *)

\* What an action that keeps the plans good still has to show.
LEMMA IInvParts ==
    ASSUME PlansGood',
           (before \subseteq SubGoals \X SubGoals)',
           (active \subseteq Goals)',
           (pc \in {"idle", "review", "scan", "dispatch"})',
           (left \subseteq SubGoals)',
           (task \in (SubGoals \X Nat) \cup {NoTask})',
           (pc = "dispatch" <=> task # NoTask)',
           TaskIsNext'
    PROVE  IInv'
BY DEF IInv, TypeOK, PlansGood

\* Leaving plans out of the dictionary and adding drafted ones.
LEMMA AheadType ==
    ASSUME before \subseteq SubGoals \X SubGoals,
           NEW gone, NEW new \in SUBSET SubGoals
    PROVE  Ahead(gone, new) \subseteq SubGoals \X SubGoals
BY DEF Ahead, Planned

LEMMA UpdatedType ==
    ASSUME NEW st \in [SubGoals -> Statuses], NEW V \in SUBSET Statuses, NEW u \in Updates(V)
    PROVE  Updated(st, u) \in [SubGoals -> Statuses]
<1>1. PICK S \in SUBSET SubGoals : u \in [S -> V]
  BY DEF Updates
<1> QED
  BY <1>1 DEF Updated

LEMMA StepIInv == IInv /\ [Next]_vars => IInv'
<1> SUFFICES ASSUME IInv, [Next]_vars PROVE IInv'
  OBVIOUS
<1> USE DEF IInv, TypeOK
<1>1. PlansGood
  BY DEF PlansGood
<1>2. CASE StartCycle
  <2>1. active' \subseteq Goals
    BY <1>2 DEF StartCycle, Selected, Eligible
  <2> QED
    BY <1>2, <2>1 DEF StartCycle, state, TaskIsNext
<1>3. ASSUME NEW g \in Goals, Escalate(g)
      PROVE  IInv'
  <2>1. /\ plan' \in [SubGoals -> Plan] /\ (\A s \in SubGoals : Good(plan'[s]))
        /\ status' \in [SubGoals -> Statuses]
        /\ before' \subseteq SubGoals \X SubGoals
    <3>1. CASE Diagnose
      <4>1. Verdicts \ {"done"} \in SUBSET Statuses
        BY VerdictsAssumption
      <4> QED
        BY <3>1, <4>1, UpdatedType DEF Diagnose
    <3>2. CASE Redecompose(g)
      <4>1. before' \subseteq SubGoals \X SubGoals
        BY <3>2, AheadType DEF Redecompose
      <4> QED
        BY <3>2, <4>1, NoPlanGood DEF Redecompose, Without, Statuses, Good
    <3>3. CASE Shelve(g)
      BY <3>3 DEF Shelve, Statuses
    <3> QED
      BY <1>3, <3>1, <3>2, <3>3 DEF Escalate
  <2> QED
    BY <1>3, <2>1 DEF Escalate, TaskIsNext
<1>4. CASE Review
  <2>1. PICK stale \in SUBSET Blocked, u \in Updates(Verdicts) :
          LET gone == Orphans \cup stale
              st   == Updated(Pruned(gone), u)
              todo == FirstOf(Decomposable(st, gone))
          IN  \E new \in SUBSET todo :
              \E ds \in [new -> Decompositions] :
                /\ status' = st
                /\ plan' = [s \in SubGoals |->
                               IF s \in new THEN NewPlan(ds[s]) ELSE Without(gone)[s]]
                /\ before' = Ahead(gone, new)
                /\ left' = (Planned \ gone) \cup new
    BY <1>4 DEF Review
  <2> DEFINE gone == Orphans \cup stale
             st   == Updated(Pruned(gone), u)
             todo == FirstOf(Decomposable(st, gone))
  <2>2. PICK new \in SUBSET todo :
          \E ds \in [new -> Decompositions] :
            /\ status' = st
            /\ plan' = [s \in SubGoals |->
                           IF s \in new THEN NewPlan(ds[s]) ELSE Without(gone)[s]]
            /\ before' = Ahead(gone, new)
            /\ left' = (Planned \ gone) \cup new
    BY <2>1
  <2>3. PICK ds \in [new -> Decompositions] :
            /\ status' = st
            /\ plan' = [s \in SubGoals |->
                           IF s \in new THEN NewPlan(ds[s]) ELSE Without(gone)[s]]
            /\ before' = Ahead(gone, new)
            /\ left' = (Planned \ gone) \cup new
    BY <2>2
  <2>4. new \subseteq SubGoals
    BY DEF FirstOf, Decomposable
  <2>5. st \in [SubGoals -> Statuses]
    <3>1. Pruned(gone) \in [SubGoals -> Statuses]
      BY DEF Pruned, Statuses
    <3>2. Verdicts \in SUBSET Statuses
      BY VerdictsAssumption
    <3> QED
      BY <3>1, <3>2, UpdatedType
  <2> HIDE DEF gone, st, todo
  <2>6. \A s \in SubGoals : Good(plan'[s])
    BY <2>3, NewPlanGood, NoPlanGood DEF Without
  <2>7. plan' \in [SubGoals -> Plan]
    BY <2>3, <2>6 DEF Good
  <2>8. before' \subseteq SubGoals \X SubGoals /\ left' \subseteq SubGoals
    BY <2>3, <2>4, AheadType DEF Planned
  <2> QED
    BY <1>4, <2>3, <2>5, <2>6, <2>7, <2>8 DEF Review, TaskIsNext
<1>5. CASE NoReviewDue
  BY <1>5 DEF NoReviewDue, state, Planned, TaskIsNext
<1>6. ASSUME NEW s \in SubGoals, PassPlan(s)
      PROVE  IInv'
  BY <1>6 DEF PassPlan, state, TaskIsNext
<1>7. ASSUME NEW s \in SubGoals, PickStep(s)
      PROVE  IInv'
  <2>1. PICK i \in NextStep(s) : task' = <<s, i>>
    BY <1>7 DEF PickStep
  <2>2. IsNext(plan[s], i) /\ i \in Nat
    <3>1. plan[s].steps \in Seq(Step)
      BY DEF Plan
    <3> QED
      BY <2>1, <3>1, LenProperties DEF NextStep
  <2>3. <<s, i>> # NoTask
    BY DEF SubGoals, NoTask
  <2>4. task'[1] = s /\ task'[2] = i
    BY <2>1
  <2>5. TaskIsNext'
    BY <1>7, <2>2, <2>4 DEF PickStep, state, TaskIsNext
  <2> QED
    BY <1>7, <2>1, <2>2, <2>3, <2>5 DEF PickStep, state
<1>8. ASSUME NEW s \in SubGoals, FailPreconditions(s)
      PROVE  IInv'
  <2>1. PICK i \in NextStep(s) : Recover(s, Recorded(plan[s], i, FALSE), i, IsActive(s))
    BY <1>8 DEF FailPreconditions
  <2>2. JustFailed(Recorded(plan[s], i, FALSE), i)
    BY <2>1, RecordedFailure DEF NextStep
  <2>3. PlansGood'
    BY <1>1, <2>1, <2>2, RecoverGood
  <2> QED
    BY <1>8, <2>3 DEF FailPreconditions, PlansGood, TaskIsNext
<1>9. CASE NothingToRun
  BY <1>9 DEF NothingToRun, EndCycle, state, TaskIsNext
<1>10. CASE StepPasses
  <2>1. task[1] \in SubGoals /\ IsNext(plan[task[1]], task[2])
    BY <1>10 DEF StepPasses, TaskIsNext
  <2> DEFINE q == Recorded(plan[task[1]], task[2], TRUE)
  <2>2. Good(q)
    BY <2>1, RecordedSuccess
  <2>3. /\ plan' = [plan EXCEPT ![task[1]] = q]
        /\ status' = IF q.completed THEN [status EXCEPT ![task[1]] = "done"] ELSE status
        /\ UNCHANGED override
    BY <1>10 DEF StepPasses, Record
  <2> HIDE DEF q
  <2>4. PlansGood'
    BY <1>1, <2>1, <2>2, <2>3, PlanReplaced DEF PlansGood, Statuses
  <2> QED
    BY <1>10, <2>4 DEF StepPasses, EndCycle, PlansGood, TaskIsNext
<1>11. CASE StepFails
  <2>1. task[1] \in SubGoals /\ IsNext(plan[task[1]], task[2])
    BY <1>11 DEF StepFails, TaskIsNext
  <2>2. Recover(task[1], Recorded(plan[task[1]], task[2], FALSE), task[2], TRUE)
    BY <1>11 DEF StepFails, Record
  <2>3. JustFailed(Recorded(plan[task[1]], task[2], FALSE), task[2])
    BY <2>1, RecordedFailure
  <2>4. PlansGood'
    BY <1>1, <2>1, <2>2, <2>3, RecoverGood
  <2> QED
    BY <1>11, <2>4 DEF StepFails, EndCycle, PlansGood, TaskIsNext
<1>12. CASE StepDropped
  BY <1>12 DEF StepDropped, EndCycle, state, TaskIsNext
<1>13. CASE Crash
  BY <1>13 DEF Crash, EndCycle, state, TaskIsNext
<1>14. CASE UNCHANGED vars
  BY <1>14 DEF vars, TaskIsNext
<1> QED
  BY <1>2, <1>3, <1>4, <1>5, <1>6, <1>7, <1>8, <1>9, <1>10, <1>11, <1>12, <1>13, <1>14
     DEF Next, Cycle, Scan

LEMMA Invariance == Spec => []IInv
BY InitIInv, StepIInv, PTL DEF Spec

-----------------------------------------------------------------------------
(* The theorems.                                                           *)

\* Type correctness of the goal cycle.
THEOREM TypeCorrect == Spec => []TypeOK
<1>1. IInv => TypeOK
  BY DEF IInv
<1> QED
  BY <1>1, Invariance, PTL

\* In every plan, what has been tried comes after completed steps only.
THEOREM PlansOrdered == Spec => []StepsInOrder
<1>1. IInv => StepsInOrder
  BY DEF IInv, Good, StepsInOrder
<1> QED
  BY <1>1, Invariance, PTL

\* Whatever the model advises, recovery stays within its budget.
THEOREM RecoveryBounded == Spec => []RecoveryBudget
<1>1. IInv => RecoveryBudget
  BY DEF IInv, Good, RecoveryBudget
<1> QED
  BY <1>1, Invariance, PTL

\* No plan is left with a failed step or without a way forward.
THEOREM NoPlanStuck == Spec => []PlansSettled
<1>1. IInv => PlansSettled
  BY DEF IInv, Good, PlansSettled
<1> QED
  BY <1>1, Invariance, PTL

\* A result is always recorded for the step that is next in its plan.
THEOREM ResultsFresh == Spec => []TaskIsNext
<1>1. IInv => TaskIsNext
  BY DEF IInv
<1> QED
  BY <1>1, Invariance, PTL

-----------------------------------------------------------------------------
(* The tier override.                                                      *)

\* A recovery raises an override only with the log that earns it.
LEMMA AppliedEarned ==
    ASSUME PlansGood, NEW s \in SubGoals, NEW q \in Plan, NEW entry \in 0..NTiers,
           Applied(s, q, entry), NEW r \in SubGoals, override'[r] # override[r]
    PROVE  override'[r] > override[r] /\ RepeatedAt(plan'[r].log, override'[r] - 1)
<1> DEFINE p == Logged(q, entry)
<1>1. plan' = [plan EXCEPT ![s] = p]
  BY DEF Applied
<1>2. override' = [override EXCEPT ![s] = Escalated(override[s], p.log, entry)]
  BY DEF Applied
<1>3. override \in [SubGoals -> 0..NTiers] /\ plan \in [SubGoals -> Plan] /\ NTiers \in Nat
  BY TiersAssumption DEF PlansGood
<1> HIDE DEF p
<1>4. r = s /\ plan'[r] = p /\ override'[r] = Escalated(override[s], p.log, entry)
  BY <1>1, <1>2, <1>3
<1>5. /\ override'[r] = entry + 1 /\ RepeatedAt(p.log, entry) /\ override[r] < entry + 1
  BY <1>4 DEF Escalated
<1>6. override'[r] - 1 = entry
  BY <1>5
<1> QED
  BY <1>3, <1>4, <1>5, <1>6

LEMMA RecoverEarned ==
    ASSUME PlansGood, NEW s \in SubGoals, NEW p, NEW i, JustFailed(p, i),
           NEW known, Recover(s, p, i, known), NEW r \in SubGoals, override'[r] # override[r]
    PROVE  override'[r] > override[r] /\ RepeatedAt(plan'[r].log, override'[r] - 1)
<1>1. \A q : ~Unlogged(s, q)
  BY DEF Unlogged
<1>2. PICK q \in Plan, entry \in 0..NTiers : Applied(s, q, entry)
  <2>1. Entries(p, i) \subseteq 0..NTiers /\ 0 \in 0..NTiers /\ p.steps[i] \in Step
    BY EntriesType, TiersAssumption
  <2>2. CASE RetryStep(s, p, i)
    <3>1. PICK d \in Revisions(p.steps[i]), entry \in Entries(p, i) : Applied(s, Retry(p, i, d), entry)
      BY <1>1, <2>2 DEF RetryStep
    <3>2. d \in Step
      BY <2>1, <3>1, DraftsAssumption DEF Revisions, Step, DraftType
    <3> QED
      BY <2>1, <2>2, <3>1, <3>2, RetryGood DEF RetryStep, Good
  <2>3. CASE RecomposePlan(s, p, i)
    <3>1. PICK ds \in Replacements, entry \in Entries(p, i) :
             Applied(s, Recompose(p, SubSeq(p.steps, 1, i - 1), ds), entry)
      BY <1>1, <2>3 DEF RecomposePlan
    <3>2. Good(Recompose(p, SubSeq(p.steps, 1, i - 1), ds))
      BY <2>3, RecomposeGood DEF RecomposePlan
    <3> QED
      BY <2>1, <3>1, <3>2 DEF Good
  <2>4. CASE BlockPlan(s, p, i, known)
    <3>1. Good(Block(p))
      BY BlockGood
    <3>2. PICK entry \in 0..NTiers : Applied(s, Block(p), entry)
      BY <1>1, <2>1, <2>4 DEF BlockPlan
    <3> QED
      BY <3>1, <3>2 DEF Good
  <2> QED
    BY <2>2, <2>3, <2>4 DEF Recover
<1> QED
  BY <1>2, AppliedEarned

(***************************************************************************)
(* A sub-goal is given a stronger model only after its present plan failed *)
(* twice, for lack of capability, at the tier below, and never a weaker    *)
(* one.                                                                    *)
(***************************************************************************)
THEOREM TierEarned == Spec => EscalationEarned
<1>1. ASSUME IInv, [Next]_vars, NEW s \in SubGoals, override'[s] # override[s]
      PROVE  override'[s] > override[s] /\ RepeatedAt(plan'[s].log, override'[s] - 1)
  <2>1. PlansGood
    BY <1>1 DEF IInv, TypeOK, PlansGood
  <2>2. CASE \E r \in SubGoals : FailPreconditions(r)
    <3>r. PICK r \in SubGoals : FailPreconditions(r)
      BY <2>2
    <3>1. PICK i \in NextStep(r) : Recover(r, Recorded(plan[r], i, FALSE), i, IsActive(r))
      BY <3>r DEF FailPreconditions
    <3>2. JustFailed(Recorded(plan[r], i, FALSE), i)
      BY <1>1, <3>1, RecordedFailure DEF IInv, NextStep
    <3> QED
      BY <1>1, <2>1, <3>1, <3>2, RecoverEarned
  <2>3. CASE StepFails
    <3>1. task[1] \in SubGoals /\ IsNext(plan[task[1]], task[2])
      BY <1>1, <2>3 DEF StepFails, TaskIsNext, IInv, TypeOK
    <3>2. Recover(task[1], Recorded(plan[task[1]], task[2], FALSE), task[2], TRUE)
      BY <2>3 DEF StepFails, Record
    <3>3. JustFailed(Recorded(plan[task[1]], task[2], FALSE), task[2])
      BY <1>1, <3>1, RecordedFailure DEF IInv
    <3> QED
      BY <1>1, <2>1, <3>1, <3>2, <3>3, RecoverEarned
  <2>4. (\E r \in SubGoals : FailPreconditions(r)) \/ StepFails \/ UNCHANGED override
    BY <1>1 DEF Next, Cycle, Scan, StartCycle, Escalate, Review, NoReviewDue, PassPlan, PickStep,
       NothingToRun, StepPasses, Record, StepDropped, Crash, state, vars
  <2> QED
    BY <1>1, <2>2, <2>3, <2>4
<1>2. IInv /\ [Next]_vars =>
          [\A s \in SubGoals :
              override'[s] # override[s] =>
                 /\ override'[s] > override[s]
                 /\ RepeatedAt(plan'[s].log, override'[s] - 1)]_vars
  BY <1>1
<1> QED
  BY <1>2, Invariance, PTL DEF Spec, EscalationEarned

-----------------------------------------------------------------------------
(* Completed work.                                                         *)

\* The first n steps of plan p are the first n steps of plan q.
Keeps(p, q, n) == \A j \in 1..n : j \in DOMAIN q.steps /\ q.steps[j] = p.steps[j]

\* Only the steps of a good plan matter to Keeps, and logging or blocking
\* does not touch them.
LEMMA LoggedKeeps ==
    ASSUME NEW p, NEW n, NEW q \in Plan, Keeps(p, q, n)
    PROVE  Keeps(p, Block(q), n) /\ \A entry : Keeps(p, Logged(q, entry), n)
<1>1. Block(q).steps = q.steps /\ \A entry : Logged(q, entry).steps = q.steps
  BY DEF Plan, Block, Logged
<1> QED
  BY <1>1 DEF Keeps

\* A retry rewrites the failed step only.
LEMMA RetryKeeps ==
    ASSUME NEW p, NEW i, JustFailed(p, i), NEW d
    PROVE  Keeps(p, Retry(p, i, d), i - 1)
<1>1. p \in Plan /\ p.steps \in Seq(Step) /\ Len(p.steps) \in Nat /\ i \in 1..Len(p.steps)
  BY LenProperties DEF JustFailed, Plan
<1>2. Retry(p, i, d).steps = [p.steps EXCEPT ![i] = Pending(d)]
  BY <1>1 DEF Retry, Plan
<1>3. \A j \in 1..(i - 1) : j \in 1..Len(p.steps) /\ j # i
  BY <1>1
<1> QED
  BY <1>1, <1>2, <1>3 DEF Keeps

\* A recomposition replaces the failed step and what follows it.
LEMMA RecomposeKeeps ==
    ASSUME NEW p, NEW i, JustFailed(p, i), NEW ds \in Replacements
    PROVE  Keeps(p, Recompose(p, SubSeq(p.steps, 1, i - 1), ds), i - 1)
<1> DEFINE kept == SubSeq(p.steps, 1, i - 1)
           new  == PendingSteps(ds)
<1>1. p \in Plan /\ p.steps \in Seq(Step) /\ Len(p.steps) \in Nat /\ i \in 1..Len(p.steps)
  BY LenProperties DEF JustFailed, Plan
<1>2. PICK n \in 1..MaxNew : ds \in [1..n -> DraftType]
  <2>1. {[d EXCEPT !.guarded = FALSE] : d \in Drafts} \subseteq DraftType
    BY DraftsAssumption DEF DraftType
  <2> QED
    BY <2>1, SizesAssumption DEF Replacements, ListsUpTo
<1>3. new \in Seq(Step) /\ Len(new) \in Nat
  BY <1>2, PendingList, SizesAssumption, LenProperties
<1>4. /\ kept \in Seq(Step) /\ Len(kept) = i - 1
      /\ \A k \in 1..(i - 1) : kept[k] = p.steps[k]
  BY <1>1, SubSeqProperties
<1>5. Recompose(p, kept, ds).steps = kept \o new
  BY <1>1 DEF Recompose, Plan
<1> HIDE DEF kept, new
<1>6. /\ Len(kept \o new) = Len(kept) + Len(new)
      /\ DOMAIN (kept \o new) = 1..(Len(kept) + Len(new))
      /\ \A k \in 1..(Len(kept) + Len(new)) :
            (kept \o new)[k] = IF k <= Len(kept) THEN kept[k] ELSE new[k - Len(kept)]
  BY <1>3, <1>4, ConcatProperties, LenProperties
<1>7. ASSUME NEW j \in 1..(i - 1)
      PROVE  j \in DOMAIN (kept \o new) /\ (kept \o new)[j] = p.steps[j]
  BY <1>1, <1>3, <1>4, <1>6
<1> QED
  BY <1>5, <1>7 DEF Keeps, kept

\* Every recovery keeps the steps before the failed one.
LEMMA RecoverKeeps ==
    ASSUME PlansGood, NEW s \in SubGoals, NEW p, NEW i, JustFailed(p, i),
           NEW known, Recover(s, p, i, known)
    PROVE  /\ Keeps(p, plan'[s], i - 1)
           /\ \A r \in SubGoals \ {s} : plan'[r] = plan[r]
<1>1. Entries(p, i) \subseteq 0..NTiers /\ p.steps[i] \in Step /\ plan \in [SubGoals -> Plan]
  BY EntriesType DEF PlansGood
<1>2. PICK q \in Plan : /\ Keeps(p, q, i - 1)
                        /\ plan' = [plan EXCEPT ![s] = q] \/ \E entry : Applied(s, q, entry)
  <2>1. CASE RetryStep(s, p, i)
    <3>1. PICK d \in Revisions(p.steps[i]) :
            \/ \E entry \in Entries(p, i) : Applied(s, Retry(p, i, d), entry)
            \/ Unlogged(s, Retry(p, i, d))
      BY <2>1 DEF RetryStep
    <3>2. d \in Step
      BY <1>1, <3>1, DraftsAssumption DEF Revisions, Step, DraftType
    <3>3. Retry(p, i, d) \in Plan
      BY <2>1, <3>2, RetryGood DEF RetryStep, Good
    <3> QED
      BY <3>1, <3>3, RetryKeeps DEF Unlogged
  <2>2. CASE RecomposePlan(s, p, i)
    <3>1. PICK ds \in Replacements :
            LET q == Recompose(p, SubSeq(p.steps, 1, i - 1), ds)
            IN  \/ \E entry \in Entries(p, i) : Applied(s, q, entry)
                \/ Unlogged(s, Block(q))
      BY <2>2 DEF RecomposePlan
    <3> DEFINE q == Recompose(p, SubSeq(p.steps, 1, i - 1), ds)
    <3>2. Good(q) /\ ~q.completed /\ Keeps(p, q, i - 1)
      BY <2>2, RecomposeGood, RecomposeKeeps DEF RecomposePlan
    <3>3. (\E entry \in Entries(p, i) : Applied(s, q, entry)) \/ Unlogged(s, Block(q))
      BY <3>1
    <3> HIDE DEF q
    <3>4. q \in Plan /\ Block(q) \in Plan /\ Keeps(p, Block(q), i - 1)
      BY <3>2, BlockStaysGood, LoggedKeeps DEF Good
    <3> QED
      BY <3>2, <3>3, <3>4 DEF Unlogged
  <2>3. CASE BlockPlan(s, p, i, known)
    <3>1. p \in Plan /\ Keeps(p, p, i - 1)
      <4>1. p \in Plan /\ p.steps \in Seq(Step) /\ i \in 1..Len(p.steps) /\ Len(p.steps) \in Nat
        BY LenProperties DEF JustFailed, Plan
      <4>2. \A j \in 1..(i - 1) : j \in DOMAIN p.steps
        BY <4>1
      <4> QED
        BY <4>1, <4>2 DEF Keeps
    <3>2. Block(p) \in Plan /\ Keeps(p, Block(p), i - 1)
      BY <3>1, BlockGood, LoggedKeeps DEF Good
    <3> QED
      BY <2>3, <3>2 DEF BlockPlan, Unlogged
  <2> QED
    BY <2>1, <2>2, <2>3 DEF Recover
<1>3. (plan' = [plan EXCEPT ![s] = q]) \/ (\E entry : plan' = [plan EXCEPT ![s] = Logged(q, entry)])
  BY <1>2 DEF Applied
<1>4. Keeps(p, plan'[s], i - 1)
  BY <1>1, <1>2, <1>3, LoggedKeeps
<1> QED
  BY <1>1, <1>3, <1>4

\* A completed step of a plan whose next step has just failed is kept.
LEMMA FailureKeeps ==
    ASSUME IInv, NEW s \in SubGoals, NEW i, IsNext(plan[s], i),
           NEW known, Recover(s, Recorded(plan[s], i, FALSE), i, known),
           NEW r \in SubGoals, NEW j \in DOMAIN plan[r].steps,
           plan[r].steps[j].status = "completed"
    PROVE  j \in DOMAIN plan'[r].steps /\ plan'[r].steps[j] = plan[r].steps[j]
<1> DEFINE p == Recorded(plan[s], i, FALSE)
<1>1. Good(plan[s]) /\ PlansGood /\ JustFailed(p, i)
  BY RecordedFailure DEF IInv, TypeOK, PlansGood
<1>2. Keeps(p, plan'[s], i - 1) /\ \A t \in SubGoals \ {s} : plan'[t] = plan[t]
  BY <1>1, RecoverKeeps
<1>3. CASE r = s
  <2>1. /\ i \in 1..Len(plan[s].steps) /\ plan[s].steps \in Seq(Step)
        /\ \A k \in 1..Len(plan[s].steps) : k > i => plan[s].steps[k].status = "pending"
    BY <1>1, NextStepFirst
  <2>2. j \in 1..(i - 1)
    BY <1>3, <2>1, LenProperties DEF IsNext
  <2>3. p.steps = [plan[s].steps EXCEPT ![i].status = "failed"]
    BY <1>1, <2>1 DEF Recorded, Good, Plan, AllCompleted
  <2>4. p.steps[j] = plan[s].steps[j]
    <3>1. "failed" \in StepStatus /\ j \in 1..Len(plan[s].steps) /\ j # i
      BY <1>3, <2>1, <2>2, LenProperties DEF StepStatus
    <3> DEFINE st == plan[s].steps
    <3>2. st \in Seq(Step) /\ i \in 1..Len(st) /\ j \in 1..Len(st)
      BY <2>1, <3>1
    <3>3. p.steps = [st EXCEPT ![i].status = "failed"]
      BY <2>3
    <3> HIDE DEF p, st
    <3>4. p.steps[j] = st[j]
      BY <3>1, <3>2, <3>3, StatusSet
    <3> QED
      BY <3>4 DEF st
  <2> QED
    BY <1>2, <1>3, <2>2, <2>4 DEF Keeps
<1> QED
  BY <1>2, <1>3

(***************************************************************************)
(* Completed work is only thrown away by a review or an escalation, for a  *)
(* blocked sub-goal or one that is not active.                             *)
(***************************************************************************)
THEOREM CompletedWorkKept == Spec => WorkKept
<1> DEFINE Kept(s, j) == j \in DOMAIN plan'[s].steps /\ plan'[s].steps[j] = plan[s].steps[j]
           Discarded(s) == pc = "review" /\ (status[s] = "blocked" \/ plan[s].blocked \/ ~IsActive(s))
<1>1. ASSUME IInv, [Next]_vars, NEW s \in SubGoals, NEW j \in DOMAIN plan[s].steps,
             plan[s].steps[j].status = "completed"
      PROVE  Kept(s, j) \/ Discarded(s)
  <2>1. CASE \E r \in SubGoals : FailPreconditions(r)
    <3>1. PICK r \in SubGoals : FailPreconditions(r)
      BY <2>1
    <3>2. PICK i \in NextStep(r) : Recover(r, Recorded(plan[r], i, FALSE), i, IsActive(r))
      BY <3>1 DEF FailPreconditions
    <3> QED
      BY <1>1, <3>2, FailureKeeps DEF NextStep
  <2>2. CASE StepFails
    BY <1>1, <2>2, FailureKeeps DEF StepFails, Record, TaskIsNext, IInv, TypeOK
  <2>3. CASE StepPasses
    <3>1. task[1] \in SubGoals /\ IsNext(plan[task[1]], task[2])
      BY <1>1, <2>3 DEF StepPasses, TaskIsNext, IInv, TypeOK
    <3>2. plan' = [plan EXCEPT ![task[1]] = Recorded(plan[task[1]], task[2], TRUE)]
      BY <2>3 DEF StepPasses, Record
    <3>3. CASE s = task[1]
      <4> DEFINE p  == plan[s]
                 i  == task[2]
                 st == [p.steps EXCEPT ![i].status = "completed"]
      <4>1. /\ Good(p) /\ i \in 1..Len(p.steps) /\ p.steps \in Seq(Step) /\ Len(p.steps) \in Nat
            /\ j \in 1..Len(p.steps) /\ j # i
        BY <1>1, <3>1, <3>3, NextStepFirst, LenProperties DEF IInv, IsNext
      <4>2. st \in Seq(Step) /\ Len(st) = Len(p.steps) /\ st[j] = p.steps[j]
        <5>1. "completed" \in StepStatus
          BY DEF StepStatus
        <5> HIDE DEF p, i
        <5> QED
          BY <4>1, <5>1, StatusSet
      <4> HIDE DEF st
      <4>3. j \in DOMAIN Enforced(st) /\ Enforced(st)[j] = st[j]
        <5>1. CASE Enforced(st) = st
          BY <4>1, <4>2, <5>1
        <5>2. CASE Enforced(st) = Append(st, MutationStep(st[Len(st)].tier))
          BY <4>1, <4>2, <5>2
        <5> QED
          BY <5>1, <5>2 DEF Enforced
      <4>4. j \in DOMAIN st
        BY <4>1, <4>2
      <4>5. (Recorded(p, i, TRUE).steps = st) \/ (Recorded(p, i, TRUE).steps = Enforced(st))
        BY <4>1 DEF Recorded, Good, Plan, st
      <4>6. plan'[s] = Recorded(p, i, TRUE)
        BY <1>1, <3>2, <3>3 DEF IInv, TypeOK
      <4> QED
        BY <4>2, <4>3, <4>4, <4>5, <4>6
    <3> QED
      BY <1>1, <3>2, <3>3 DEF IInv, TypeOK
  <2>4. CASE Review
    <3>1. PICK stale \in SUBSET Blocked :
            \E new \in SUBSET SubGoals : \E ds :
              /\ \A r \in new : r \in Orphans \cup stale \/ ~HasPlan(r)
              /\ plan' = [r \in SubGoals |->
                            IF r \in new THEN NewPlan(ds[r]) ELSE Without(Orphans \cup stale)[r]]
      <4>1. PICK stale \in SUBSET Blocked, u \in Updates(Verdicts) :
              LET gone == Orphans \cup stale
                  st   == Updated(Pruned(gone), u)
                  todo == FirstOf(Decomposable(st, gone))
              IN  \E new \in SUBSET todo :
                  \E ds \in [new -> Decompositions] :
                    plan' = [r \in SubGoals |->
                               IF r \in new THEN NewPlan(ds[r]) ELSE Without(gone)[r]]
        BY <2>4 DEF Review
      <4> DEFINE gone == Orphans \cup stale
                 st   == Updated(Pruned(gone), u)
                 todo == FirstOf(Decomposable(st, gone))
      <4>2. todo \subseteq SubGoals /\ \A r \in todo : r \in gone \/ ~HasPlan(r)
        BY DEF FirstOf, Decomposable
      <4>3. PICK new \in SUBSET todo :
                  \E ds \in [new -> Decompositions] :
                    plan' = [r \in SubGoals |->
                               IF r \in new THEN NewPlan(ds[r]) ELSE Without(gone)[r]]
        BY <4>1
      <4> HIDE DEF todo
      <4> QED
        BY <4>2, <4>3
    <3>2. pc = "review" /\ ~HasPlan(s) => j \notin DOMAIN plan[s].steps
      BY <1>1 DEF HasPlan, NoPlan
    <3>3. s \in Orphans \cup stale => Discarded(s)
      BY <2>4 DEF Review, Orphans, Blocked
    <3> QED
      BY <1>1, <2>4, <3>1, <3>2, <3>3 DEF Without, Review
  <2>5. ASSUME NEW g \in Goals, Escalate(g)
        PROVE  Kept(s, j) \/ Discarded(s)
    <3>1. CASE Diagnose \/ Shelve(g)
      BY <1>1, <3>1 DEF Diagnose, Shelve
    <3>2. CASE Redecompose(g)
      BY <1>1, <2>5, <3>2 DEF Redecompose, Without, Escalate
    <3> QED
      BY <2>5, <3>1, <3>2 DEF Escalate
  <2>6. CASE UNCHANGED plan
    BY <1>1, <2>6
  <2>7. \/ \E r \in SubGoals : FailPreconditions(r)
        \/ StepFails \/ StepPasses \/ Review \/ (\E g \in Goals : Escalate(g))
        \/ UNCHANGED plan
    BY <1>1 DEF Next, Cycle, Scan, StartCycle, NoReviewDue, PassPlan, PickStep,
       NothingToRun, StepDropped, Crash, state, vars
  <2> QED
    BY <2>1, <2>2, <2>3, <2>4, <2>5, <2>6, <2>7
<1>2. IInv /\ [Next]_vars =>
        \A s \in SubGoals : \A j \in DOMAIN plan[s].steps :
          plan[s].steps[j].status = "completed" => Kept(s, j) \/ Discarded(s)
  BY <1>1
<1>3. IInv /\ [Next]_vars =>
          [\A s \in SubGoals : \A i \in DOMAIN plan[s].steps :
              plan[s].steps[i].status = "completed" =>
                 \/ i \in DOMAIN plan'[s].steps /\ plan'[s].steps[i] = plan[s].steps[i]
                 \/ pc = "review" /\ (status[s] = "blocked" \/ plan[s].blocked \/ ~IsActive(s))]_vars
  BY <1>2
<1> QED
  BY <1>3, Invariance, PTL DEF Spec, WorkKept

-----------------------------------------------------------------------------
(* Done sub-goals and completed plans.                                     *)

\* What no recovery gives: a completed plan or a sub-goal that is done.
Undone(p) == p \in Plan /\ ~p.completed

LEMMA StaysUndone ==
    ASSUME NEW p, Undone(p)
    PROVE  /\ ~Block(p).completed
           /\ \A entry : ~Logged(p, entry).completed
           /\ \A entry : ~Logged(Block(p), entry).completed
           /\ \A i, d : ~Retry(p, i, d).completed /\ \A e : ~Logged(Retry(p, i, d), e).completed
           /\ \A k, ds : LET q == Recompose(p, k, ds)
                         IN  ~q.completed /\ ~Block(q).completed /\ \A e : ~Logged(q, e).completed
BY DEF Undone, Plan, Block, Logged, Retry, Recompose

\* A recovery leaves the plan it is for uncompleted and touches no other.
LEMMA RecoverUndone ==
    ASSUME PlansGood, NEW s \in SubGoals, NEW p, NEW i, JustFailed(p, i),
           NEW known, Recover(s, p, i, known), status[s] # "done"
    PROVE  /\ status'[s] # "done" /\ ~plan'[s].completed
           /\ \A r \in SubGoals \ {s} : status'[r] = status[r] /\ plan'[r] = plan[r]
<1>1. plan \in [SubGoals -> Plan] /\ status \in [SubGoals -> Statuses] /\ Undone(p)
  BY DEF PlansGood, JustFailed, Undone
<1>2. CASE RetryStep(s, p, i)
  BY <1>1, <1>2, StaysUndone DEF RetryStep, Applied, Unlogged
<1>3. CASE RecomposePlan(s, p, i)
  <2>1. PICK ds \in Replacements :
          LET q == Recompose(p, SubSeq(p.steps, 1, i - 1), ds)
          IN  \/ \E entry \in Entries(p, i) : Applied(s, q, entry)
              \/ Unlogged(s, Block(q))
    BY <1>3 DEF RecomposePlan
  <2> DEFINE q == Recompose(p, SubSeq(p.steps, 1, i - 1), ds)
  <2>2. ~q.completed /\ ~Block(q).completed /\ \A e : ~Logged(q, e).completed
    BY <1>1, StaysUndone
  <2>3. (\E entry : Applied(s, q, entry)) \/ Unlogged(s, Block(q))
    BY <2>1
  <2> HIDE DEF q
  <2> QED
    BY <1>1, <1>3, <2>2, <2>3 DEF RecomposePlan, Applied, Unlogged
<1>4. CASE BlockPlan(s, p, i, known)
  BY <1>1, <1>4, StaysUndone DEF BlockPlan, Applied, Unlogged
<1> QED
  BY <1>2, <1>3, <1>4 DEF Recover

\* A failure of the next step, wherever it is recorded.
LEMMA FailureUndone ==
    ASSUME IInv, DoneIsEarned, NEW s \in SubGoals, NEW i, IsNext(plan[s], i),
           NEW known, Recover(s, Recorded(plan[s], i, FALSE), i, known)
    PROVE  DoneIsEarned'
<1>1. Good(plan[s]) /\ PlansGood
  BY DEF IInv, TypeOK, PlansGood
<1>2. JustFailed(Recorded(plan[s], i, FALSE), i)
  BY <1>1, RecordedFailure
<1>3. status[s] # "done"
  BY DEF DoneIsEarned, IsNext
<1>4. /\ status'[s] # "done" /\ ~plan'[s].completed
      /\ \A r \in SubGoals \ {s} : status'[r] = status[r] /\ plan'[r] = plan[r]
  BY <1>1, <1>2, <1>3, RecoverUndone
<1> QED
  BY <1>4 DEF DoneIsEarned

\* Without verdicts of the model, an update changes nothing.
LEMMA NoUpdate ==
    ASSUME NEW V, V = {}, NEW u \in Updates(V), NEW st \in [SubGoals -> Statuses]
    PROVE  Updated(st, u) = st
<1>1. PICK S \in SUBSET SubGoals : u \in [S -> {}]
  BY DEF Updates
<1>2. DOMAIN u = {}
  BY <1>1
<1> QED
  BY <1>2 DEF Updated

(***************************************************************************)
(* When only steps and escalations change statuses, a sub-goal is done     *)
(* exactly when its plan is completed.                                     *)
(***************************************************************************)
THEOREM DoneEarned ==
    ASSUME Verdicts = {}
    PROVE  Spec => []DoneIsEarned
<1>1. Init => DoneIsEarned
  BY DEF Init, DoneIsEarned, NoPlan
<1>2. IInv /\ DoneIsEarned /\ [Next]_vars => DoneIsEarned'
  <2> SUFFICES ASSUME IInv, DoneIsEarned, [Next]_vars PROVE DoneIsEarned'
    OBVIOUS
  <2>0. plan \in [SubGoals -> Plan] /\ status \in [SubGoals -> Statuses]
    BY DEF IInv, TypeOK
  <2>1. CASE \E r \in SubGoals : FailPreconditions(r)
    <3>1. PICK r \in SubGoals : FailPreconditions(r)
      BY <2>1
    <3>2. PICK i \in NextStep(r) : Recover(r, Recorded(plan[r], i, FALSE), i, IsActive(r))
      BY <3>1 DEF FailPreconditions
    <3> QED
      BY <3>2, FailureUndone DEF NextStep
  <2>2. CASE StepFails
    BY <2>2, FailureUndone DEF StepFails, Record, TaskIsNext, IInv, TypeOK
  <2>3. CASE StepPasses
    <3> DEFINE s == task[1]
               q == Recorded(plan[s], task[2], TRUE)
    <3>1. s \in SubGoals /\ IsNext(plan[s], task[2])
      BY <2>3 DEF StepPasses, TaskIsNext, IInv, TypeOK
    <3>2. /\ plan' = [plan EXCEPT ![s] = q]
          /\ status' = IF q.completed THEN [status EXCEPT ![s] = "done"] ELSE status
      BY <2>3 DEF StepPasses, Record
    <3>3. status[s] # "done"
      BY <3>1 DEF DoneIsEarned, IsNext
    <3>4. plan'[s] = q /\ \A r \in SubGoals \ {s} : plan'[r] = plan[r] /\ status'[r] = status[r]
      BY <2>0, <3>1, <3>2
    <3>5. status'[s] = "done" <=> q.completed
      BY <2>0, <3>1, <3>2, <3>3
    <3> HIDE DEF s, q
    <3> QED
      BY <3>1, <3>4, <3>5 DEF DoneIsEarned
  <2>4. CASE Review
    <3>1. PICK stale \in SUBSET Blocked, u \in Updates(Verdicts) :
            LET gone == Orphans \cup stale
                st   == Updated(Pruned(gone), u)
                todo == FirstOf(Decomposable(st, gone))
            IN  \E new \in SUBSET todo :
                \E ds \in [new -> Decompositions] :
                  /\ status' = st
                  /\ plan' = [s \in SubGoals |->
                                 IF s \in new THEN NewPlan(ds[s]) ELSE Without(gone)[s]]
                  /\ before' = Ahead(gone, new)
                  /\ left' = (Planned \ gone) \cup new
      BY <2>4 DEF Review
    <3> DEFINE gone == Orphans \cup stale
               st   == Updated(Pruned(gone), u)
               todo == FirstOf(Decomposable(st, gone))
    <3>2. PICK new \in SUBSET todo :
                \E ds \in [new -> Decompositions] :
                  /\ status' = st
                  /\ plan' = [r \in SubGoals |->
                                 IF r \in new THEN NewPlan(ds[r]) ELSE Without(gone)[r]]
      BY <3>1
    <3>3. st = Pruned(gone)
      <4>1. Pruned(gone) \in [SubGoals -> Statuses]
        BY <2>0 DEF Pruned, Statuses
      <4> QED
        BY <4>1, NoUpdate
    <3>4. \A r \in new : r \in SubGoals /\ st[r] # "done"
      BY DEF FirstOf, Decomposable
    <3>5. \A d : ~NewPlan(d).completed
      BY DEF NewPlan, NoPlan
    <3>6. ASSUME NEW r \in SubGoals
          PROVE  status'[r] = "done" <=> plan'[r].completed
      <4>1. CASE r \in new
        BY <3>2, <3>4, <3>5, <4>1
      <4>2. CASE r \notin new
        <5>1. plan'[r] = Without(gone)[r] /\ status'[r] = Pruned(gone)[r]
          BY <3>2, <3>3, <4>2
        <5> QED
          BY <5>1 DEF Without, Pruned, DoneIsEarned, NoPlan
      <4> QED
        BY <4>1, <4>2
    <3> QED
      BY <3>6 DEF DoneIsEarned
  <2>5. ASSUME NEW g \in Goals, Escalate(g)
        PROVE  DoneIsEarned'
    <3>1. CASE Diagnose
      <4>1. Verdicts \ {"done"} = {}
        OBVIOUS
      <4>2. status' = status /\ plan' = plan
        BY <2>0, <3>1, <4>1, NoUpdate DEF Diagnose
      <4> QED
        BY <4>2 DEF DoneIsEarned
    <3>2. CASE Redecompose(g)
      BY <3>2 DEF Redecompose, Without, DoneIsEarned, NoPlan
    <3>3. CASE Shelve(g)
      BY <3>3 DEF Shelve, DoneIsEarned
    <3> QED
      BY <2>5, <3>1, <3>2, <3>3 DEF Escalate
  <2>6. CASE UNCHANGED <<plan, status>>
    BY <2>6 DEF DoneIsEarned
  <2>7. \/ \E r \in SubGoals : FailPreconditions(r)
        \/ StepFails \/ StepPasses \/ Review \/ (\E g \in Goals : Escalate(g))
        \/ UNCHANGED <<plan, status>>
    BY DEF Next, Cycle, Scan, StartCycle, NoReviewDue, PassPlan, PickStep,
       NothingToRun, StepDropped, Crash, state, vars
  <2> QED
    BY <2>1, <2>2, <2>3, <2>4, <2>5, <2>6, <2>7
<1> QED
  BY <1>1, <1>2, Invariance, PTL DEF Spec

=============================================================================
