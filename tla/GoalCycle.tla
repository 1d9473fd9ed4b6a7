------------------------------ MODULE GoalCycle ------------------------------
(***************************************************************************)
(* The goal part of a watcher cycle (watcher.py, _run_cycle) with goal     *)
(* tasks executed at once (approval modes "notify" and "auto"): selection  *)
(* of the active goals, escalation of stalled ones, the periodic review    *)
(* with its pruning and decomposition, the scan of the step plans for one  *)
(* step to run, and the recording of that step's result.                   *)
(*                                                                         *)
(* Every action ends where the code has written goal_state.json, so a      *)
(* crash is a cycle that is abandoned.  The language model is free: it may *)
(* answer any question with any answer the parsers let through, or fail.   *)
(***************************************************************************)
EXTENDS StepPlan, FiniteSets

CONSTANTS
    NSubGoals,      \* the sub-goals are 1..NSubGoals, in the order of goals.yaml
    NGoals,         \* the goals are 1..NGoals, by priority
    Goal,           \* the goal of each sub-goal
    DependsOn,      \* the prerequisites of each sub-goal
    MaxActive,      \* goals active in one cycle
    MaxDecompose,   \* plans drafted by one review
    Verdicts        \* the statuses the model may give a sub-goal

SubGoals == 1..NSubGoals
Goals == 1..NGoals

\* "unset": no entry in sub_goal_status, the status of goals.yaml counts
\* (not-started here).  "open" stands for not-started and in-progress.
Statuses == {"unset", "open", "blocked", "done"}

ASSUME CountsAssumption ==
    NSubGoals \in Nat /\ NGoals \in Nat /\ MaxActive \in Nat /\ MaxDecompose \in Nat
ASSUME GoalAssumption == Goal \in [SubGoals -> Goals]
ASSUME DependsOnAssumption == DependsOn \in [SubGoals -> SUBSET SubGoals]
ASSUME VerdictsAssumption == Verdicts \subseteq Statuses \ {"unset"}

VARIABLES
    plan,       \* step_plans
    status,     \* sub_goal_status
    override,   \* tier_overrides, 0 for none
    before,     \* <<r, s>>: the plan of r is ahead of that of s in step_plans
    active,     \* the goals selected for this cycle
    pc,         \* where the cycle is
    left,       \* plans the scan has not looked at yet
    task        \* the step handed to the dispatch loop: <<sub-goal, step>>

vars == <<plan, status, override, before, active, pc, left, task>>
state == <<plan, status, override, before>>

NoTask == <<0, 0>>

\* The locals of a cycle are gone when it ends.
EndCycle == pc' = "idle" /\ active' = {} /\ left' = {} /\ task' = NoTask

HasPlan(s) == plan[s] # NoPlan
Planned == {s \in SubGoals : HasPlan(s)}
IsActive(s) == Goal[s] \in active

Init ==
    /\ plan = [s \in SubGoals |-> NoPlan]
    /\ status = [s \in SubGoals |-> "unset"]
    /\ override = [s \in SubGoals |-> 0]
    /\ before = {}
    /\ active = {}
    /\ pc = "idle"
    /\ left = {}
    /\ task = NoTask

-----------------------------------------------------------------------------
(* Selecting the goals of the cycle (goal_scheduler.py,                    *)
(* goal_dependencies.py).                                                  *)

Open(s) == status[s] \in {"unset", "open"}
PrerequisitesMet(st, s) == \A d \in DependsOn[s] : st[d] = "done"
CanAdvance(s) == Open(s) /\ PrerequisitesMet(status, s)

Eligible == {g \in Goals : \E s \in SubGoals : Goal[s] = g /\ CanAdvance(s)}

Selected == {g \in Eligible : Cardinality({h \in Eligible : h < g}) < MaxActive}

StartCycle ==
    /\ pc = "idle"
    /\ active' = Selected
    /\ pc' = "review"
    /\ UNCHANGED <<state, left, task>>

-----------------------------------------------------------------------------
(* Removing plans and drafting new ones.                                   *)

\* Mutant: the plans of forgotten sub-goals stay.
WithoutNone(gone) == plan

Without(gone) == [s \in SubGoals |-> IF s \in gone THEN NoPlan ELSE plan[s]]

\* A new plan goes to the end of the dictionary.
Ahead(gone, new) ==
    {b \in before : b[1] \notin gone /\ b[2] \notin gone}
      \cup ((Planned \ gone) \X new)
      \cup {b \in new \X new : b[1] < b[2]}

-----------------------------------------------------------------------------
(* Escalation of a stalled goal (goal_escalation.py): its effect on the    *)
(* sub-goals.  Which rung of the ladder is taken is module GoalEscalation. *)

SubGoalsOf(g) == {s \in SubGoals : Goal[s] = g}

\* A diagnosis, like a review, may change the status of any sub-goal of an
\* active goal; it cannot call one done.
Updates(V) == UNION {[S -> V] : S \in SUBSET {s \in SubGoals : IsActive(s)}}

Updated(st, u) == [s \in SubGoals |-> IF s \in DOMAIN u THEN u[s] ELSE st[s]]

Diagnose ==
    /\ \E u \in Updates(Verdicts \ {"done"}) : status' = Updated(status, u)
    /\ UNCHANGED <<plan, before>>

Redecompose(g) ==
    LET blocked == {s \in SubGoalsOf(g) : status[s] = "blocked" \/ plan[s].blocked}
    IN  /\ plan' = Without(blocked)
        /\ before' = Ahead(blocked, {})
        /\ status' = [s \in SubGoals |-> IF s \in blocked THEN "open" ELSE status[s]]

Shelve(g) ==
    /\ status' = [s \in SubGoals |->
                     IF s \in SubGoalsOf(g) /\ status[s] # "done" THEN "blocked" ELSE status[s]]
    /\ UNCHANGED <<plan, before>>

Escalate(g) ==
    /\ pc = "review"
    /\ g \in active
    /\ \/ Diagnose
       \/ Redecompose(g)
       \/ Shelve(g)
    /\ UNCHANGED <<override, active, pc, left, task>>

-----------------------------------------------------------------------------
(* The review (watcher.py, goals.py): prune, ask the planner for status    *)
(* updates, then draft plans for sub-goals that have none.                 *)

\* prune_orphan_statuses knows the ids of the active goals only;
\* prune_stale_goals drops sub-goals blocked for more than a week.
Orphans == {s \in SubGoals : status[s] # "unset" /\ ~IsActive(s)}
Blocked == {s \in SubGoals : status[s] = "blocked"}

Pruned(gone) == [s \in SubGoals |-> IF s \in gone THEN "unset" ELSE status[s]]

\* find_decomposable_sub_goals and filter_blocked_sub_goals.
Decomposable(st, gone) ==
    {s \in SubGoals : /\ IsActive(s)
                      /\ st[s] \notin {"done", "blocked"}
                      /\ s \in gone \/ ~HasPlan(s)
                      /\ PrerequisitesMet(st, s)}

FirstOf(S) == {s \in S : Cardinality({r \in S : r < s}) < MaxDecompose}

Review ==
    /\ pc = "review"
    /\ \E stale \in SUBSET Blocked, u \in Updates(Verdicts) :
         LET gone == Orphans \cup stale
             st   == Updated(Pruned(gone), u)
             todo == FirstOf(Decomposable(st, gone))
         IN  \E new \in SUBSET todo :
             \E ds \in [new -> Decompositions] :
               /\ status' = st
               /\ plan' = [s \in SubGoals |->
                              IF s \in new THEN NewPlan(ds[s]) ELSE Without(gone)[s]]
               /\ before' = Ahead(gone, new)
               /\ left' = (Planned \ gone) \cup new
    /\ pc' = "scan"
    /\ UNCHANGED <<override, active, task>>

NoReviewDue ==
    /\ pc = "review"
    /\ pc' = "scan"
    /\ left' = Planned
    /\ UNCHANGED <<state, active, task>>

-----------------------------------------------------------------------------
(* Recovery of a failed step (goal_replanner.py, handle_step_failure): p   *)
(* is the plan in which step i has failed.  An analysis whose root cause   *)
(* is not a string raises when the failure is logged, after the plan has   *)
(* been changed; the caller catches it and saves.                          *)

Exhausted(p, i) == ~CanRetry(p, i) /\ ~CanRecompose(p)

\* What the failure log receives: a capability failure, or another one.
Entries(p, i) == {0, p.steps[i].tier}

Applied(s, q, entry) ==
    /\ plan' = [plan EXCEPT ![s] = Logged(q, entry)]
    /\ override' = [override EXCEPT ![s] = Escalated(@, Logged(q, entry).log, entry)]

Unlogged(s, q) ==
    /\ plan' = [plan EXCEPT ![s] = q]
    /\ UNCHANGED override

\* The step as a retry leaves it, or as a revision rewrites it.
Revisions(d) == {d} \cup {[d EXCEPT !.writes = e.writes, !.tier = e.tier] : e \in Drafts}

RetryStep(s, p, i) ==
    /\ CanRetry(p, i)
    /\ \E d \in Revisions(p.steps[i]) :
         \/ \E entry \in Entries(p, i) : Applied(s, Retry(p, i, d), entry)
         \/ Unlogged(s, Retry(p, i, d))
    /\ UNCHANGED status

RecomposePlan(s, p, i) ==
    /\ CanRecompose(p)
    /\ \E ds \in Replacements :
         LET q == Recompose(p, SubSeq(p.steps, 1, i - 1), ds)
         IN  \/ \E entry \in Entries(p, i) : Applied(s, q, entry)
             \/ Unlogged(s, Block(q))
    /\ UNCHANGED status

\* The budget is spent, or the model advised a recomposition that is not
\* possible or fails.  known: apply_updates accepts the sub-goal's id.
BlockPlan(s, p, i, known) ==
    \/ /\ \E entry \in IF Exhausted(p, i) THEN {0} ELSE Entries(p, i) :
              Applied(s, Block(p), entry)
       /\ status' = IF known THEN [status EXCEPT ![s] = "blocked"] ELSE status
    \/ /\ ~Exhausted(p, i)
       /\ Unlogged(s, Block(p))
       /\ UNCHANGED status

Recover(s, p, i, known) ==
    \/ RetryStep(s, p, i)
    \/ RecomposePlan(s, p, i)
    \/ BlockPlan(s, p, i, known)

-----------------------------------------------------------------------------
(* The scan: plans in the order of the dictionary, up to the first with a  *)
(* step to run.                                                            *)

AtHead(s) == s \in left /\ \A r \in left : <<r, s>> \notin before

NextStep(s) == {i \in DOMAIN plan[s].steps : IsNext(plan[s], i)}

\* A plan that is over is passed by.
PassPlan(s) ==
    /\ pc = "scan"
    /\ AtHead(s)
    /\ plan[s].completed \/ plan[s].blocked
    /\ left' = left \ {s}
    /\ UNCHANGED <<state, active, pc, task>>

\* One step per cycle.
PickStep(s) ==
    /\ pc = "scan"
    /\ AtHead(s)
    /\ \E i \in NextStep(s) : task' = <<s, i>>
    /\ pc' = "dispatch"
    /\ left' = {}
    /\ UNCHANGED <<state, active>>

\* The preconditions of the next step do not hold: it is recorded as failed
\* and handed to the replanner.  The goals known here are the active ones.
FailPreconditions(s) ==
    /\ pc = "scan"
    /\ AtHead(s)
    /\ \E i \in NextStep(s) :
         /\ plan[s].steps[i].guarded
         /\ Recover(s, Recorded(plan[s], i, FALSE), i, IsActive(s))
    /\ left' = left \ {s}
    /\ UNCHANGED <<before, active, pc, task>>

NothingToRun ==
    /\ pc = "scan"
    /\ left = {}
    /\ EndCycle
    /\ UNCHANGED state

-----------------------------------------------------------------------------
(* The dispatch loop hands the step to an agent and records the outcome.   *)

Record(ok, s, i) ==
    LET p == Recorded(plan[s], i, ok)
    IN  IF ok
        THEN /\ plan' = [plan EXCEPT ![s] = p]
             /\ status' = IF p.completed THEN [status EXCEPT ![s] = "done"] ELSE status
             /\ UNCHANGED override
        ELSE Recover(s, p, i, TRUE)

\* The agent succeeded, and so did the verification of the step.
StepPasses ==
    /\ pc = "dispatch"
    /\ Record(TRUE, task[1], task[2])
    /\ EndCycle
    /\ UNCHANGED before

StepFails ==
    /\ pc = "dispatch"
    /\ Record(FALSE, task[1], task[2])
    /\ EndCycle
    /\ UNCHANGED before

\* The step does not run in this cycle: guardrails, budgets, a claim of
\* another instance, quota.
StepDropped ==
    /\ pc = "dispatch"
    /\ EndCycle
    /\ UNCHANGED state

\* The process dies; what the file says is what the next one reads.
Crash ==
    /\ pc # "idle"
    /\ EndCycle
    /\ UNCHANGED state

Scan == \E s \in SubGoals : PassPlan(s) \/ PickStep(s) \/ FailPreconditions(s)

Cycle ==
    \/ StartCycle
    \/ \E g \in Goals : Escalate(g)
    \/ Review
    \/ NoReviewDue
    \/ Scan
    \/ NothingToRun
    \/ StepPasses
    \/ StepFails
    \/ StepDropped

Next == Cycle \/ Crash

Spec == Init /\ [][Next]_vars

\* The loop goes on by itself; a step that is picked again and again is not
\* dropped every time; from some time on the process does not crash and no
\* escalation (which may throw plans away) interferes.
Fairness ==
    /\ WF_vars(StartCycle)
    /\ WF_vars(Review \/ NoReviewDue)
    /\ WF_vars(Scan)
    /\ WF_vars(NothingToRun)
    /\ SF_vars(StepPasses \/ StepFails)
    /\ <>[][~Crash /\ \A g \in Goals : ~Escalate(g)]_vars

FairSpec == Spec /\ Fairness

-----------------------------------------------------------------------------
(* Properties.                                                             *)

\* The types of the variables; the watcher holds a task only in the dispatch
\* loop.
TypeOK ==
    /\ plan \in [SubGoals -> Plan]
    /\ status \in [SubGoals -> Statuses]
    /\ override \in [SubGoals -> 0..NTiers]
    /\ before \subseteq SubGoals \X SubGoals
    /\ active \subseteq Goals
    /\ pc \in {"idle", "review", "scan", "dispatch"}
    /\ left \subseteq SubGoals
    /\ task \in (SubGoals \X Nat) \cup {NoTask}
    /\ pc = "dispatch" <=> task # NoTask

\* Steps are done in order: whatever has been tried comes after completed
\* steps only (goal_decomposition.py, get_next_step: "a step is ready when
\* all prior steps are completed"), through retries, revisions,
\* recompositions and the mutation step.
StepsInOrder == \A s \in SubGoals : Ordered(plan[s])

\* Recovery stays within its budget: max 2 retries per step and max 1
\* recomposition per plan, whatever the model advises (goal_replanner.py).
RecoveryBudget == \A s \in SubGoals : WithinBudget(plan[s])

\* A failed step is never left behind: it rests only in a plan that is
\* blocked, so every live plan has a step to run, and a completed plan was
\* finished up to the mutation step the code may add.
PlansSettled == \A s \in SubGoals : Settled(plan[s])

\* The step whose result will be recorded is still the next step of its plan.
TaskIsNext == pc = "dispatch" => IsNext(plan[task[1]], task[2])

\* When only steps and escalations change statuses (no Verdicts), a sub-goal
\* is done exactly when its plan is completed, through shelving, pruning and
\* redecomposition.
DoneIsEarned == \A s \in SubGoals : status[s] = "done" <=> plan[s].completed

\* Completed work is only thrown away by a review or an escalation, and only
\* for a blocked sub-goal or one whose goal is not active in this cycle:
\* no recovery touches it.
WorkKept ==
    [][\A s \in SubGoals : \A i \in DOMAIN plan[s].steps :
          plan[s].steps[i].status = "completed" =>
             \/ i \in DOMAIN plan'[s].steps /\ plan'[s].steps[i] = plan[s].steps[i]
             \/ pc = "review" /\ (status[s] = "blocked" \/ plan[s].blocked \/ ~IsActive(s))]_vars

\* The tier override of a sub-goal only rises, and only to the tier above
\* one at which its present plan has failed twice for lack of capability.
EscalationEarned ==
    [][\A s \in SubGoals :
          override'[s] # override[s] =>
             /\ override'[s] > override[s]
             /\ RepeatedAt(plan'[s].log, override'[s] - 1)]_vars

\* Every plan is eventually over: completed, blocked, or removed.
PlanResolves ==
    \A s \in SubGoals : HasPlan(s) ~> (~HasPlan(s) \/ plan[s].completed \/ plan[s].blocked)

-----------------------------------------------------------------------------
(* What the code and its documents say and the code does not do; a run     *)
(* looks for the counterexample.                                           *)

\* prune_orphan_statuses removes "entries that don't match any ID in
\* goals.yaml"; all sub-goals here are defined there, so what is done stays
\* done unless the model says otherwise.
DoneKept == [][\A s \in SubGoals : status[s] = "done" => status'[s] = "done"]_vars
=============================================================================
