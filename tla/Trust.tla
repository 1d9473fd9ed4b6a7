------------------------------- MODULE Trust -------------------------------
(***************************************************************************)
(* The trust score of a goal (goal_scheduler.py, compute_trust_score) and  *)
(* the level it suggests.  A body of evidence is what the logs hold about  *)
(* the goal, by counts: verifications and those that passed, decided       *)
(* approvals and those that refused, runs and those that succeeded, steps  *)
(* and those that are completed.                                           *)
(***************************************************************************)
EXTENDS Integers

Levels == 0..3             \* untrusted, cautious, trusted, autonomous
MinSamples == 2            \* MIN_GRADUATION_SAMPLES

Evidences ==
    {e \in [verified : Nat, passes : Nat, decided : Nat, refused : Nat,
            runs : Nat, wins : Nat, steps : Nat, completed : Nat] :
        /\ e.passes <= e.verified /\ e.refused <= e.decided
        /\ e.wins <= e.runs /\ e.completed <= e.steps}

\* Every entry counts as a sample, a step that has not been run too.
Samples(e) == e.verified + e.decided + e.runs + e.steps

\* Something that went well.
Successes(e) == e.passes + (e.decided - e.refused) + e.wins + e.completed

\* Mutant: a signal without data counts in full.
PositiveOptimistic(p, n) == IF n = 0 THEN 4 ELSE p
\* A signal without data stands at _NO_DATA_NEUTRAL, three quarters.
Of(n) == IF n = 0 THEN 4 ELSE n
Positive(p, n) == IF n = 0 THEN 3 ELSE p

\* The score counts the steps whose status is "done"; plans call theirs
\* "completed", so there are none.
StepsDone == 0

\* The weighted score in thousandths, rounded.
Score(e) ==
    LET v == Of(e.verified) a == Of(e.decided) r == Of(e.runs) s == Of(e.steps)
        whole == v * a * r * s
        sum == 35 * Positive(e.passes, e.verified) * a * r * s
             + 25 * Positive(e.decided - e.refused, e.decided) * v * r * s
             + 25 * Positive(e.wins, e.runs) * v * a * s
             + 15 * Positive(StepsDone, e.steps) * v * a * r IN
    (20 * sum + whole) \div (2 * whole)

\* suggest_policy: TRUST_LEVELS.
Suggested(score) ==
    CASE score < 300 -> 0 [] score \in 300..599 -> 1 [] score \in 600..799 -> 2
      [] OTHER -> 3
Band(e) == Suggested(Score(e))
============================================================================
