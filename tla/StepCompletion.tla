--------------------------- MODULE StepCompletion ---------------------------
(***************************************************************************)
(* What the watcher does with the outcome of a decomposed step             *)
(* (watcher.py, after the attempts): checks of the environment, a judge's  *)
(* verdict (goal_verification.py), the record of the step, and, when that  *)
(* completes goals, the generation of a test harness for each of them      *)
(* (goal_harness.py), after which a goal may be marked completed.          *)
(*                                                                         *)
(* What a recorded failure leads to is in GoalCycle and StepPlan.          *)
(***************************************************************************)
EXTENDS Integers, FiniteSets

CONSTANTS Effects,      \* the expected effects of the step
          Goals, TheGoal,  \* all goals, and the goal of the step
          Judged,       \* goals with success criteria
          MaxOpen,      \* bound: sub-goals of a goal that are not done
          MaxHarness,   \* MAX_GENERATION_ATTEMPTS
          InARow        \* CONSECUTIVE_PASSES_REQUIRED

\* Assumed by the module that composes this one.
CompletionAssumption ==
    /\ TheGoal \in Goals /\ Judged \subseteq Goals
    /\ {MaxOpen, MaxHarness, InARow} \subseteq Nat \ {0}

VARIABLES stage,     \* "off", "judge", "override", "record", "goals",
                     \* "harness" or "over"
          passed,    \* the task of the step passed
          checks,    \* what checking the expected effects gives
          verified,  \* _step_verified
          opinion,   \* history variable: what the judge said
          completed, \* the step was recorded as completed
          open,      \* sub-goals of each goal that are not done
          waiting,   \* completed goals that are still to be validated
          goal,      \* the goal being validated
          attempt, inARow,
          lastGood,  \* last_good_code is set
          kept,      \* completed goals that are to be marked
          marked,    \* completed_goals
          proof      \* history variable: why a goal was kept

vars == <<stage, passed, checks, verified, opinion, completed, open, waiting, goal, attempt,
          inARow, lastGood, kept, marked, proof>>

Outcomes == {"holds", "fails", "raises"}
NoProof == [g \in Goals |-> "none"]

Fresh(where, ok, ch, rest) ==
    /\ stage' = where /\ passed' = ok /\ checks' = ch /\ verified' = ok
    /\ opinion' = "none"
    /\ completed' = FALSE /\ open' = rest /\ waiting' = {} /\ goal' = TheGoal
    /\ attempt' = 0 /\ inARow' = 0 /\ lastGood' = FALSE /\ kept' = {}
    /\ marked' = {} /\ proof' = NoProof

Init ==
    /\ stage = "off" /\ passed = FALSE /\ checks = "holds" /\ verified = FALSE
    /\ opinion = "none"
    /\ completed = FALSE /\ open = [g \in Goals |-> 1] /\ waiting = {} /\ goal = TheGoal
    /\ attempt = 0 /\ inARow = 0 /\ lastGood = FALSE /\ kept = {}
    /\ marked = {} /\ proof = NoProof

\* check_assertions: an exception, which only some kinds of check turn into a
\* failure, leaves no results at all.
Result(effect) ==
    IF \E e \in Effects : effect[e] = "raises" THEN "raises"
    ELSE IF \E e \in Effects : effect[e] = "fails" THEN "fails" ELSE "holds"

\* The goal of the step has an open sub-goal; others may have been done already.
Start(ok) ==
    \E ch \in {Result(effect) : effect \in [Effects -> Outcomes]}, rest \in [Goals -> 0..MaxOpen] :
        rest[TheGoal] > 0 /\ Fresh("judge", ok, ch, rest)

\* The judge is asked when the task passed and the step has criteria; a failing
\* call and an answer that makes no sense are a pass, and only "fail" counts.
Judge ==
    /\ stage = "judge" /\ stage' = "override"
    /\ \/ passed /\ opinion' \in {"pass", "fail"} /\ verified' = (opinion' = "pass")
       \/ UNCHANGED <<opinion, verified>>
    /\ UNCHANGED <<passed, checks, completed, open, waiting, goal, attempt, inARow,
                   lastGood, kept, marked, proof>>

\* Failed checks override the verdict.
Override ==
    /\ stage = "override" /\ stage' = "record"
    /\ verified' = (verified /\ checks # "fails")
    /\ UNCHANGED <<passed, checks, opinion, completed, open, waiting, goal, attempt, inARow,
                   lastGood, kept, marked, proof>>

\* detect_completed_goals: every goal without an open sub-goal, also one that
\* was completed earlier.
CompletedGoals(rest) == {g \in Goals : rest[g] = 0}

\* The step is recorded; the last step of its plan completes the sub-goal.
Record ==
    /\ stage = "record" /\ completed' = verified
    /\ \/ verified /\ stage' = "goals"
          /\ open' = [open EXCEPT ![TheGoal] = @ - 1] /\ waiting' = CompletedGoals(open')
       \/ stage' = "over" /\ UNCHANGED <<open, waiting>>
    /\ UNCHANGED <<passed, checks, verified, opinion, goal, attempt, inARow, lastGood, kept,
                   marked, proof>>

----------------------------------------------------------------------------
(* The completed goals, one after the other.                               *)

Keep(g, why) == kept' = kept \cup {g} /\ proof' = [proof EXCEPT ![g] = why]

\* A goal without criteria needs no harness, and neither does one for which
\* something raises outside the loop.
Unchecked ==
    /\ stage = "goals" /\ \E g \in waiting :
          /\ waiting' = waiting \ {g}
          /\ Keep(g, IF g \in Judged THEN "exception" ELSE "noCriteria")
    /\ UNCHANGED <<stage, passed, checks, verified, opinion, completed, open, goal, attempt,
                   inARow, lastGood, marked>>

BeginHarness ==
    /\ stage = "goals" /\ stage' = "harness"
    /\ \E g \in waiting \cap Judged : goal' = g /\ waiting' = waiting \ {g}
    /\ attempt' = 0 /\ inARow' = 0 /\ lastGood' = FALSE
    /\ UNCHANGED <<passed, checks, verified, opinion, completed, open, kept, marked, proof>>

\* run_harness_test: a run passes only when it ends in time, with code zero.
Runs == {"passed", "failed", "timeout"}
Passes(run) == run = "passed"
\* What becomes of one answer of the model: nothing that is a test, or that
\* parses; or its runs on the project and in an empty directory.
NoTest == [parses |-> FALSE, good |-> "failed", bad |-> "failed"]
Tests == [parses : {TRUE}, good : Runs, bad : Runs] \cup {NoTest}

\* Mutant: a test that passes everywhere is as good as any.
ValidEverywhere(t) == t.parses /\ Passes(t.good)
Valid(t) == t.parses /\ Passes(t.good) /\ ~Passes(t.bad)

Attempt(t) ==
    /\ stage = "harness" /\ attempt < MaxHarness /\ inARow < InARow
    /\ attempt' = attempt + 1
    /\ inARow' = IF Valid(t) THEN inARow + 1 ELSE 0
    /\ lastGood' = (lastGood \/ Valid(t))
    /\ proof' = IF t.good = "passed" /\ t.bad # "passed"
                THEN [proof EXCEPT ![goal] = "harness"] ELSE proof
    /\ UNCHANGED <<stage, passed, checks, verified, opinion, completed, open, waiting, goal, kept, marked>>

\* Enough in a row, or no attempts left: the last test that was valid is
\* returned in both cases, and only without one is the goal held back.
HarnessDone ==
    /\ stage = "harness" /\ (attempt = MaxHarness \/ inARow = InARow)
    /\ stage' = "goals"
    /\ kept' = IF lastGood THEN kept \cup {goal} ELSE kept
    /\ UNCHANGED <<passed, checks, verified, opinion, completed, open, waiting, goal, attempt,
                   inARow, lastGood, marked, proof>>

\* Something raises inside the loop: the goal is kept.
HarnessRaises ==
    /\ stage = "harness" /\ stage' = "goals" /\ Keep(goal, "exception")
    /\ UNCHANGED <<passed, checks, verified, opinion, completed, open, waiting, goal, attempt,
                   inARow, lastGood, marked>>

\* mark_goals_completed
Mark ==
    /\ stage = "goals" /\ waiting = {} /\ stage' = "over"
    /\ marked' = marked \cup kept
    /\ UNCHANGED <<passed, checks, verified, opinion, completed, open, waiting, goal, attempt,
                   inARow, lastGood, kept, proof>>

Step ==
    \/ Judge \/ Override \/ Record \/ Unchecked \/ BeginHarness
    \/ (\E t \in Tests : Attempt(t)) \/ HarnessDone \/ HarnessRaises \/ Mark

----------------------------------------------------------------------------
(* Properties.                                                             *)

TypeOK ==
    /\ stage \in {"off", "judge", "override", "record", "goals", "harness", "over"}
    /\ {passed, verified, completed, lastGood} \subseteq BOOLEAN
    /\ checks \in Outcomes /\ open \in [Goals -> 0..MaxOpen]
    /\ goal \in Goals /\ UNION {waiting, kept, marked} \subseteq Goals
    /\ attempt \in 0..MaxHarness /\ inARow \in 0..InARow

\* Nothing is done that was not seen to work.  A step whose task failed, whose
\* effects a check found missing (unless another check raised), or which the judge
\* turned down is not completed, whatever the other two say; a goal is marked
\* completed only when all its sub-goals are done and some test passed on the
\* project and failed without it, unless it has no criteria or an exception kept
\* the tests from running (watcher.py:1702-1871, goal_harness.py:372-532).
CompletionProven ==
    /\ completed => passed /\ checks # "fails" /\ opinion # "fail"
    /\ \A g \in marked : open[g] = 0 /\ proof[g] # "none"

============================================================================
