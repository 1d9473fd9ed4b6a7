# A TLA+ verification of claude-secretary

This directory holds a formal model of the secretary's autonomous core: TLA+
modules translated from `src/src/secretary/*.py`, TLC configurations that check
them on small instances, and proofs, checked by TLAPS, of what holds for every
value of the parameters. Paths below are relative to `src/src/secretary/`.

To check: `tlc -config MCX_y.cfg MCX.tla` for a run (the table under "Runs"
names them), `tlapm XProofs.tla` for a proof module.

## The system

The secretary is a long-running process (`watcher.py`) that wakes up every few
minutes, gathers tasks (campaign files, events, goals, approved proposals),
hands each to a language-model agent, and records what came of it. Everything
it knows between two cycles lives in files under `data/`: `goal_state.json`
(goals, plans, approval queue, trust), `dedup_history.json`, `run_log.jsonl`,
`memory.json`, `shared/` (claims and results of several instances). There is no
database and no lock: a reader loads a whole file, changes it in memory and
replaces it.

### Inventory

| Component | State it keeps | Operations | Interacts with | What makes it correct | Modules |
|---|---|---|---|---|---|
| Watcher loop (`watcher.py: run`) | cycle number, quota flag, stop flag, heartbeat, pid file | start a cycle, keep house, pause, stop, restart | everything | it leaves nothing behind; what it reports of itself is true | `WatchLoop` |
| Dispatch loop (`watcher.py: _run_cycle`, `task_batcher.py`) | batches, outcomes, prompts seen, record of successes | group, pass over, run, record | coordinator, agents, goal state | a skipped task really was done; a dependent runs after its prerequisite | `Dispatch`, `Coordinator` |
| Attempts at a task (`watcher.py`) | attempts left, what they used | run, time out, retry, log, record a step | agent, oracle, run log | every task ends; what was spent is logged | `TaskAttempt` |
| Step plans (`goal_decomposition.py`, `goal_replanner.py`) | steps with statuses, retry counts, recompositions, failure log, tier overrides | draft, pick next, record, retry, revise, recompose, block | watcher, planner model | order, bounded recovery, no plan stuck, no work lost | `StepPlan`, `GoalCycle` |
| Goal store and review (`goals.py`) | statuses of sub-goals, last review | load, save, update, prune, review | watcher, planner | done work is remembered; pruning removes only what is stale | `GoalCycle` |
| Scheduling, trust, graduation (`goal_scheduler.py`, `goal_dependencies.py`) | level of each goal, snapshots, level changes | select, score, promote, demote | watcher, approval | prerequisites respected; autonomy is earned, spaced, and follows the trust | `GoalCycle`, `Trust`, `Graduation` |
| Stall escalation and progress (`goal_escalation.py`, `goal_progress.py`) | snapshots (last 20), ladder position and budgets per goal | detect stall, diagnose, redecompose, reprioritize, shelve | review, plans | ladder order, cooldown, a stall is noticed | `GoalEscalation` |
| Approval queue (`goal_approval.py`, `goals --approve`) | entries: pending, approved, rejected, executed, notified | submit, approve, reject, execute, prune | watcher, a person at the command line | nothing runs without approval; what is approved runs at most once | `ApprovalQueue` |
| Coordinator (`coordinator.py`) | claim files, result files, instance registry | claim, release, publish, clean, clear, heartbeat | several watchers | at most one instance works on a task | `Coordinator` |
| Verification and harness (`goal_verification.py`, `goal_harness.py`) | verdicts, validation log, markers | judge a step, detect finished goals, generate validated tests | dispatch | nothing counts as done that was not seen to work | `StepCompletion` |
| Self-improvement pipeline (`self_improve.py`) | sandbox, backups, the project's git repository | copy, work, filter, test, promote, roll back, commit | dispatch, agent, git, CI | the project is never left half promoted; only tested files reach main | `SelfImprove`, `Promotion` |
| Proposals (`goal_self_improve.py`) | proposals with a status, breakers | analyse, deduplicate, sweep, prune, execute, record | run log, approval, pipeline | each is promoted once; the breakers hold; every execution settles | `Proposals` |
| Outcomes of proposals (`proposal_outcomes.py`, `run_log.py`) | run log with rotation, records, verdicts | append, snapshot, measure | watcher | a verdict is that of the first tasks after the promotion | `Outcomes` |
| Direct agent (`direct_agent.py`) | message history, counters | turn loop, tool calls, prune, summarise, recover | tools, model | budgets respected, every tool call answered | `AgentLoop` |
| Oracle (`oracle.py`) | rounds, checkpoints | fan out, vote, review, escalate | agent | no worker acts alone; reviews are bounded | `Oracle`, `OracleVote` |
| Proxy supervisor (`proxy_supervisor.py`) | child process, cooldown | check, restart, wait, stop | watcher | a dead proxy is replaced; never two children | `ProxySupervisor` |
| Event bus, OODA (`event_bus.py`, `ooda.py`) | events of the cycle, source baselines | poll, emit, match, plan | watcher | an event has a cause of its own | `EventBus` |
| Cost monitor (`cost_monitor.py`) | last alerts | sum spend, alert, stop | run log | spending stops at the limit | `CostMonitor` |
| Memory, strategy library (`memory.py`, `strategy_library.py`) | short and long entries; strategies with quality | add, consolidate, decay, credit, prune | agents | bounded; what recurs is remembered, what nothing speaks for is forgotten | `MemoryStore`, `StrategyLibrary` |
| Routing, tools, dashboards, prompts, CLI | see `PROJECT.json` | | | not part of the control core | |

### How they interact

`watcher.run` calls everything else, and nothing calls it. Within a cycle it
awaits the agents, so the only concurrency inside the process is between a run
and the timeout, signal or death that ends it. Between processes it is the
files: the command line and other watchers read and replace the same files, and
the self-improvement pipeline works in the very git repository it runs from.

### What is hard

* The language model decides much of the control flow and may answer anything,
  fail, or return a value of the wrong type after the state has been changed.
* State is read at the start of a cycle and used minutes later.
* A crash can happen between any two writes; the command line and other
  instances replace the same files.
* Counters and logs are truncated (20 snapshots, 10 log entries, 200 queue
  entries, rotated run logs) while other code counts them.
* Statuses, plans and goals are three views of one thing, changed by different
  parts of the code.
* Ages kept as cycle numbers meet processes that count cycles anew.

`PROJECT.json` lists 40 places where this bites, each with the properties that
would catch it or the reason why none does; "Further hazards" below names the
ones beyond these.

## Plan

All modules of the plan exist. In order of importance:

| Modules | Models | Main properties |
|---|---|---|
| `StepPlan`, `GoalCycle` | plans and the goal part of a cycle: select, escalate, review, scan, execute, recover, crash | order, budgets, no stuck plan, work kept, tiers earned, plans resolve |
| `GoalEscalation` | progress snapshots, stall detection and the escalation ladder | rungs in order, cooldown, stalls noticed |
| `ApprovalQueue`, `EntryLife` | the queue, the command line and the watcher as writers of one file, and the life the queue promises an entry | the refinement; runs granted, at most once, refusals hold, queue settles |
| `Coordinator`, `TaskLease` | claims and results of several instances and the task loop over them, and what the claims promise | the refinement; one valid claim, dependents after prerequisites, claims freed |
| `SelfImprove`, `Promotion` | the pipeline in the project's own repository, and its abstract promise | the refinement; no trace; no empty commit |
| `Proposals` | the life of improvement proposals over cycles, approvals and deaths | promoted once, kept on record, breakers heeded, executions settle |
| `TaskAttempt` = `AgentLoop`, `Oracle`, `OracleVote`, `StepCompletion` | the attempts at a task, and what follows for a step of a plan | valid histories, budgets, votes backed, completion proven, log complete, tasks end |
| `WatchLoop` = `ProxySupervisor`, `EventBus`, `Dispatch`, `CostMonitor`, `Outcomes` | the outer loop over several processes | events caused, skips earned, stops clean, verdicts fair, dead proxies replaced |
| `Learning` = `Trust`, `Graduation`, `StrategyLibrary`, `MemoryStore` | what is learned over the cycles | promotions spaced and earned, levels follow trust, forgetting and recall |
| `*Proofs` | proofs | see "Proved" in each section |

Composition is by `INSTANCE`: a component module has variables and operations
of its own and no specification, and the composing module gives it its turn
(`Tasks!Run(...)`), its fairness and its environment. `PlanResolves` and the
other liveness properties are stated under the fairness of the composing module.

What remains worth doing: `ApprovalQueue` composed with the plans of
`GoalCycle` (review mode submits a step again every cycle); `WatchLoop` composed
with `Coordinator`; a plan as a counter of completed steps, which `GoalCycle`
implements.

## Runs

| Run | Configuration | Properties |
|---|---|---|
| `goals_one` | `MCGoalCycle_one.cfg` | `StepsInOrder`, `RecoveryBudget`, `PlansSettled`, `WorkKept`, `EscalationEarned` |
| `goals_two` | `MCGoalCycle_two.cfg` | `DoneIsEarned`, `PlanResolves` (liveness) |
| `ladder` | `MCGoalEscalation_ladder.cfg` | `LadderInOrder`, `CooldownKept`, `StallNoticed` (liveness) |
| `shared` | `MCCoordinator_shared.cfg` | `DependencyRespected`, `Leased` (refinement), `ClaimsFreed` (liveness) |
| `approval_queue` | `MCApprovalQueue_queue.cfg` | `OnlyGranted`, `AtMostOnce`, `Lived` (refinement), `Settled` (liveness) |
| `self_improve` | `MCSelfImprove_pipeline.cfg` | `Promoted` (refinement), `NoTrace`, `CommitHasContent` |
| `proposals` | `MCProposals_life.cfg` | `PromotedOnce`, `CompletedKept`, `RedHeeded`, `Settles` (liveness) |
| `agent` | `MCTaskAttempt_attempts.cfg` | `FirstCallValid`, `BudgetsKept`, `Backed`, `CompletionProven`, `LogComplete`, `Ends` (liveness) |
| `watch_loop` | `MCWatchLoop_loop.cfg` | `NoPhantomEvent`, `SkipEarned`, `VerdictFair`, and `DeadReplaced`, `StopsClean` (liveness) |
| `learning` | `MCLearning_learn.cfg` | `CooldownKept`, `AutonomyEarned`, and `LevelFollowsTrust`, `Forgotten`, `Recalled` (liveness) |
| `goals_done` | `MCGoalCycle_done.cfg` | violated: `DoneKept`, what the documentation of `prune_orphan_statuses` says |
| `approval_decision` | `MCApprovalQueue_decision.cfg` | violated: `DecisionStands`, what `approve_task` says |

Every property of a passing run has a mutant of the code's model that breaks it (`PROJECT.json`);
the mutants that are not a one-line change are defined in the modules, marked
"Mutant". Each module has a `TypeOK`; it is documentation of the state, proved
where a section says so. Deadlock is checked except where the system stops:
the runs of `SelfImprove` (the bound on runs), of `TaskAttempt` (the task is
over) and of `WatchLoop` (the watcher has ended and the bound on lives is
reached).

## The goal cycle (`StepPlan`, `GoalCycle`)

`StepPlan` has no state. It defines the shape of a plan and one operator per
operation of `goal_decomposition.py` and `goal_replanner.py`: `IsNext`
(`get_next_step`), `Recorded` (`record_step_result`, with the mutation step it
appends), `Retry`, `Recompose`, `Block`, `Logged` and `Escalated`
(`_record_failure`, `_maybe_escalate_tier`). A step is reduced to what the code
decides on: status, whether its text holds a mutation keyword (`writes`),
whether it has preconditions (`guarded`), and its tier. Its id is its position.

`GoalCycle` runs plans. Its state is the part of `goal_state.json` that matters
(`plan`, `status`, `override`, and `before`, the insertion order of the
`step_plans` dictionary) and the locals of a cycle (`active`, `pc`, `left`,
`task`).

| Action | Code |
|---|---|
| `StartCycle` | load, `select_active_goals` |
| `Escalate(g)` | what one rung of the ladder does to statuses and plans |
| `Review`, `NoReviewDue` | both prunings, status updates, up to two decompositions |
| `PassPlan`, `FailPreconditions`, `PickStep`, `NothingToRun` | the scan: first plan with a step to run, one step per cycle, precondition failures go to the replanner |
| `StepPasses`, `StepFails`, `StepDropped` | the dispatch loop and the recording of the result, completion of the sub-goal, or recovery |
| `Crash` | the process dies; the file is what was last saved |

`Recover` is `handle_step_failure`: budget check, the model's recommendation,
fallbacks, and the case in which an analysis that is not a string raises while
the failure is logged, after the plan was changed (`Unlogged`).

| Run | Instance | Shows |
|---|---|---|
| `goals_one` | one sub-goal, two kinds of step, plans up to 2 steps, 2 retries, 1 recomposition, log of 3, every verdict | `StepsInOrder`, `RecoveryBudget`, `PlansSettled`, `WorkKept`, `EscalationEarned` |
| `goals_two` | two goals with one sub-goal each, one active at a time, plans up to 2 steps, 1 retry, 1 recomposition, no verdicts of the planner, fairness | `DoneIsEarned`, `PlanResolves` |
| `goals_done` | two dependent sub-goals of different goals | `DoneKept` is violated: pruning forgets done sub-goals of goals that are not active |

Bounds. The budgets of `goals_one` are those of the code (2 retries, 1
recomposition); a plan of two steps is the shortest in which a completed step
precedes a failed one and a recomposition keeps something; a log of three is
the shortest in which two failures at one tier can be separated by another
entry and pushed out.
One sub-goal suffices for properties of one plan, since plans of different
sub-goals meet only in the scan and in pruning; `goals_two` has two, so that one
plan can be passed by, pruned or overtaken by a change of the active goal.
`goals_two` gives the planner no verdicts: with them a review may call any
sub-goal done or open again, and neither `DoneIsEarned` nor `PlanResolves` is
meant to hold.

Fairness (`goals_two`): the loop goes on by itself (weak fairness of its
stages); a step that is picked again and again is not dropped every time
(strong fairness of executing it), which holds when quota, budgets and other
instances do not starve it for ever; and from some time on the process does not
crash and escalation does not throw plans away. Without the last two the code
promises nothing: every redecomposition starts the budgets afresh.

### Proved

`GoalCycleProofs` proves for all numbers of goals and sub-goals, all plans,
budgets, dependencies, verdicts and log lengths:

* `TypeCorrect`, `PlansOrdered`, `RecoveryBounded`, `NoPlanStuck`,
  `ResultsFresh`: `Spec => []P` for `TypeOK`, `StepsInOrder`,
  `RecoveryBudget`, `PlansSettled` and `TaskIsNext`.
* `TierEarned`, `CompletedWorkKept`: the action properties `EscalationEarned`
  and `WorkKept`.
* `DoneEarned`: `Spec => []DoneIsEarned` when the planner gives no verdicts.

The first five are one inductive invariant, `IInv`. None is inductive alone:
that a retry leaves the order intact needs that the failed step was the next
one (`TaskIsNext`), which needs that nothing between picking and recording
touches the plan, which needs that a live plan has no failed step
(`PlansSettled`), which needs the order. The action properties follow from it:
the step that fails is the next one, so every completed step lies before it, and
each recovery keeps what lies before the failed step (`RecoverKeeps`, a lemma
per kind of recovery). `DoneIsEarned` is inductive relative to `IInv`: a
completed plan is never blocked, so no rung touches it. The first part of the
module holds the lemmas about the operators of `StepPlan` (what each returns for
a good plan), which are cited by name. The assumptions are those of the two
modules: counts are naturals, drafts are drafts, and a decomposition has at
least one step.

### Abstractions

The status written in `goals.yaml` is taken to be not-started. Goals without
sub-goals, completed-goal markers and progress notes are not modelled. The tier
a revision may name is one of the known tiers. Steps run at once (approval modes
notify and auto); review mode is the business of `ApprovalQueue`.

The proofs do not assume the shape of the plans TLC uses: `Drafts` is any set of
drafts, and the goal, dependency and verdict constants are arbitrary.

## The escalation ladder (`GoalEscalation`)

`GoalCycle` lets escalation change statuses at any time; this module says when
it does. The state is `snaps` and `recent` (`progress_snapshots`: how many are
kept, and the last `StallThreshold` of them, which is all that stall detection
reads), `esc` (`escalation_state`: level, counters and the snapshot count of the
last escalation), the statuses of the sub-goals (open, blocked or done), and the
locals of a cycle: `active`, the stalled goals still to evaluate and the changes
decided so far, which are applied together at the end.

| Action | Code |
|---|---|
| `StartCycle` | selection, `compute_progress` |
| `Evaluate(g)`, `Defer(g)` | `evaluate_escalations` for one goal: the rung, its effect and its record; or the cooldown has not passed |
| `Abandon(g)` | the rung raises (the diagnosis is not what the code expects): the attempt stays counted, the stage ends, and what it had decided is dropped |
| `ApplyChanges` | the updates of all escalated goals are applied and saved |
| `Review`, `ReviewFails`, `NoReviewDue` | prunings, verdicts, `record_snapshot` with its cap |
| `Work` | the cycle's step may finish or block a sub-goal |

Run `ladder`: two goals of which one is active at a time, the first with two
sub-goals; stall threshold 2, cooldown 2, 5 snapshots, 2 diagnoses, 1
redecomposition; `LadderInOrder`, `CooldownKept`, `StallNoticed`. When the first goal is blocked
the second is selected, until the pruning of a review takes the statuses of the
first for orphans: the goals take turns, and each is missing from the snapshots
taken during the other's. A goal counts as having had nothing done there
(`Seen`), and this is what keeps a stall from going unnoticed; the mutant of
`StallNoticed` takes the default away.

Bounds. The run needs a list longer than the threshold and the cooldown, so
that escalations happen both while it grows and when it is full; five
leaves room for the climb of one goal to be broken off for the other's. The budgets are the
code's. Completion is a number of finished sub-goals, not a percentage; the
stall test compares it in the same way.

Fairness: the loop goes on; a review is carried out, and a stalled goal whose
turn comes again and again is evaluated, not every time without success (strong
fairness of `Review` and `Evaluate`: the model service answers in the end).
Without it the first failing diagnosis could fail for ever.

Abstractions: dependencies between goals are ignored in the selection (they are
in `GoalCycle`), and what redecomposition does to plans is there as well.

### Proved

`GoalProofs`: `BudgetInOrder` (`LadderInOrder`) and `CooldownHolds`
(`CooldownKept`), for any goals, budgets, thresholds and failures. The cooldown
is measured on a list that stops growing, so its distance says too little when
the list is full; the invariant `SinceIsLonger` states the relation that saves
it: the snapshots recorded since the last escalation are at least the distance
the code computes. That the distance may then stay too small for ever is a
known divergence, below.

## Several instances (`Coordinator`, `TaskLease`)

The claim and the result of a task are files; a process may stop or die between
any two operations on them. A claim is created exclusively (`Create`) and then
written (`WriteClaim`): in between it exists and cannot be read. Claims are
removed by name by whoever lists them: stale ones at the start of a cycle
(`StartCycle`, `Unlink`), all of them at its end (`EndCycle`, `Unlink`, then
`ClearResults`), the own ones when the process is told to stop (`Stop`,
`Stopped`). Between listing and unlinking other instances act. The dispatch loop
is `Pick` (the next task of the role, by priority), `PassOver` (duplicates,
schedule, success in the last cycle), `SkipDependent` or `Proceed` (the outcome
of the prerequisite, the own one first, then the published one), `LeaveToOwner`,
`Finish` and `Publish`, or `FinishSilently` for the paths that leave the loop
without publishing. `EndOverBudget` is the pause that skips the clearing.

`valid` and `passed` are history: the claim an instance created still has its
name, and the tasks that have passed anywhere.

`TaskLease` is the abstract promise: a task is leased to one instance at a time,
after its prerequisite has passed; anyone may revoke the lease, and who had it
is a stray that goes on with the task; a task passes only at the hands of an
instance that was given it. `Coordinator` implements it (`Leased`) with the
valid claims for leases and the instances that hold a task without a valid claim
for strays. Strays are in the promise because the clean-ups make them: the
promise says exactly how far "exclusive" goes.

Run `shared`: a specialist and a generalist; two tasks, the second needs the
first; tasks may outlast the age at which claims are stale; crashes, stops,
budgets; `DependencyRespected`, `ClaimsFreed`, `Leased`. That a task has
one valid claim (`OneValidClaim`, a theorem) is part of `Leased`: a task that is
leased cannot be taken.

Bounds. Two instances suffice for every race over one file: one creates, the
other removes. A specialist and a generalist have different task lists, so a
prerequisite may be run by either.

Fairness (`ClaimsFreed`): each instance that is on takes its steps, and from some
time on none crashes, is stopped or runs out of budget. An instance that is over
budget in every cycle never clears claims.

Abstractions: the registry of instances and its heartbeats are a free choice of
which specialists look alive; age of a claim is a free choice among readable
claims; batches are single tasks; dry runs, which claim nothing, are left out.

### Proved

`CoordinatorProofs`: `TypeCorrect`, `OwnerUnique` (`OneValidClaim`) and
`PrerequisiteFirst` (`DependencyRespected`) for any instances, roles, tasks and
prerequisites. The invariant has three parts besides types: `Owned` (behind a
valid claim is the holder's own file), `Truthful` (whatever says that a task has
passed is right), and `Cleared` (what was found before claiming stays true until
the task is over, though results are being cleared). `ClaimsAreLeases`
(`Leased`) is the refinement: creating a claim file is `Take`, unlinking the
file of a holder `Revoke`, finishing a task or dying with it `Quit`, and every
other step leaves leases, strays and `passed` as they are (`SameLeases`).

## The approval queue (`ApprovalQueue`, `EntryLife`)

`file` is the queue in `goal_state.json`. The watcher's copy `mine` is loaded at
the start of a cycle and saved several times until its end; the command line's
copy `theirs` is loaded, changed and saved by one command. Every save replaces
the file. The status of an entry is its only content; `AutoEntries` are the
entries the self-improvement rule accepts, `age` counts days.

| Action | Code |
|---|---|
| `StartCycle`, `Read` | `GoalStore.load` |
| `Save` | the saves before routing and after results, with the copy as it is |
| `Route` | submit for review or with notice, the automatic rule, take what is approved and mark it executed, prune, save: nothing is awaited in between |
| `Run`, `PassOver`, `EndCycle` | the dispatch loop; the retries of a task are one run |
| `Approve`, `ApproveAll`, `Reject`, `Leave` | the command, with its save (approving "all" saves even when nothing was pending) |
| `Crash` | the process dies or the cycle raises: copy and tasks are gone |
| `Day` | a day passes |

A save *overwrites* an entry when the file holds another status than the copy
the writer started from. `overwritten` collects these entries, and the safety
properties about single entries hold of all others: this is as much as a file
without a lock can promise, and it separates what the queue does from what its
two writers do to each other.

`EntryLife` states that promise as a machine of its own: an entry is unseen,
waiting, granted, taken, and then has run or is over, once and in this order. A
granted entry is not dropped for its age or by the cap: it stays until it is
taken. One that is taken may be over without having run (passed over, or lost
with the process), which is what the code does. An overwritten entry is void.
`Stage` maps the file, the tasks of the cycle and the history to it (`Lived`).
That a refusal holds (`RefusalHolds`, a theorem) is part of it: from being over
only an overwriting save leads anywhere.
Together with `DecisionStands`, which the code violates, it says how far a
decision stands.

| Run | Instance | Shows |
|---|---|---|
| `approval_queue` | two entries, one of which the rule accepts; stale after 1 day, dropped after 2; a cap of one entry | `OnlyGranted`, `AtMostOnce`, `Lived`, `Settled` |
| `approval_decision` | one entry | `DecisionStands` is violated: a decision of the person becomes undecided |

Bounds. Two entries make the order of the cap matter and let one command change
an entry while it overwrites another; the ages are the shortest that keep
staleness and dropping apart; a cap of one is exceeded by two entries.

Fairness (`Settled`): cycles go on, days pass, and not every cycle dies before
it routes (strong fairness of `Route`). Nothing is assumed of the person.

Abstractions: one watcher and one command at a time; whether a task is reviewed,
announced or run without the queue is a free choice per task (it follows from
the level of its goal); self-improvement analysis is one of the sources of
tasks, and whether the automatic rule is on may differ from cycle to cycle, as
after a restart with another configuration.

### Proved

`ApprovalQueueProofs`: `TypeCorrect`, `RunsAreGranted` (`OnlyGranted`),
`RunsOnce` (`AtMostOnce`) and `RejectionStands` (`RefusalHolds`), for any number
of entries, ages and caps. The inductive invariant adds `Backed` (an approval in
any of the three copies was given), `Spent` (the file does not offer what is
about to run or has run, unless overwritten), `Single` (nothing that ran is about
to run) and `Known` (a refused entry was submitted). `RouteEffect` is the lemma
on the whole of routing: what was decided stays decided or is dropped, what is
taken is marked, and nothing stays approved. `EntriesLive` (`Lived`) is the
refinement: `RouteMoves` adds what routing does to open and new entries (the
approved are taken; the new are not rejected at once, since by `Fresh` their age
is zero), and `NextMoves` has one case per action, in which an entry either is
overwritten, hence void, or has the status its writer read.

## The self-improvement pipeline (`SelfImprove`, `Promotion`)

An agent changes a copy of the project; the change is filtered, tested, copied
into the project, tested again and committed. What makes this hard is that
`_run_tests_ci` runs the tests in the project's own git repository: it makes a
branch there, copies the sandbox over the working tree, commits, waits for CI
and switches back in a `finally`. The model therefore has the working tree
(`tree`), the `index` and `commits`, the tips of the branches the repository is
stacked on, besides the locals of `improve()`: `sandbox`, `changes`, `backup`,
`retries`, `result`. A file's content is one of six kinds, told apart by what
the filters look at. `Ignored` are the files `.gitignore` names: they may exist
when the pipeline starts, git does not know them, `git add -A` passes over them
(`CIAdd`), no checkout touches them, and `git add` of one by name fails
(`Refused`).

| Action | Code |
|---|---|
| `StartRun`, `AfterBaseline`, `Agent`, `Detect` | `improve()` up to the tests: copy, baseline, agent, the three filters and the two guards |
| `CIBranch`, `CICopy`, `CIAdd`, `CICommit`, `CIWait`, `CIReset`, `CISwitch`, `CIFails` | `_run_tests_ci`, one action per git command, and the failure of each |
| `AfterFocused`, `Retry`, `AfterFull`, `Refix`, `AfterRefull` | the test phases and the retries with the failure as context |
| `Backup`, `Promote`, `PromoteBreaks`, `AfterReal`, `Repromote`, `GitCommit`, `Rollback` | from the backups to the commit, or the roll-back |
| `Crash`, `Edit(f)` | the process dies anywhere; a person edits a file |

`Promotion` is the abstract promise: the main branch changes only in one atomic
step, and only by files of the allowed scope taken from a tree the suite has
passed. `SelfImprove` implements it under `main <- commits[1]`
(`Promo!Spec`, the property `Promoted`).

Run `self_improve`: four files (one to modify, one to create, one outside the
scope, one in it that git ignores), every sandbox that differs from the project in a way the filters tell
apart, 2 retries as in the code, two runs of the pipeline and one trouble (a
failing command, a death or an edit) anywhere. Two runs, because what a broken
run leaves behind is met by the next one; one trouble, because a second one
after it only adds to a state already outside what `NoTrace` promises. No
fairness: all three properties are safety, and the pipeline may stop anywhere.

`NoTrace` is about the branch, the index and the files git knows or could know.
Of ignored files it promises nothing, because the code does not: the tests copy
the sandbox over the project as it is, and what lands on an ignored file stays.
Nor does it speak of a run in which a command fails: after a failing
`git commit` what was staged stays staged, and what was created stays.

### Proved

`SelfImproveProofs`: `PipelinePromotes` (`Promoted`, the refinement),
`LeavesNoTrace` (`NoTrace`) and `CommitsContent` (`CommitHasContent`), for any
files, scopes, sandboxes, numbers of runs and of troubles.

For the refinement the invariant `IInv` says where the repository is
(`Stacked`: the branch to return to exists, and the tests are one branch above
it from its creation to the verdict), that the change lies in the scope
(`InScope`), and how the verdict and the change belong together (`Seen`: what CI
judged contains the change, so a pass on main makes the change `Proven`, and
what is staged afterwards is the change). A death during the tests leaves the
repository on the temporary branch, where later promotions no longer touch
`commits[1]`: this is why the refinement survives it.

Both speak of the part of the change git can take (`Known`): that no commit,
index or branch ever holds an ignored file is an invariant of its own
(`Untracked`).

`NoTrace` needs another invariant, `UInv`: as long as nothing disturbed the
run, every change is a difference to HEAD (`Different`), the tests can put back
all they changed (`Restorable`), and what was promoted is known file by file
(`Traced`), each for the files git does not ignore.

### Abstractions

Prompt texts, the plan of changes and the hint of earlier failures are left out.
CI is free to answer anything for any tree. Git commands fail as a whole, but
for `git add` of several files, of which some may have been added. Which files
are ignored does not change: a sandbox that edits `.gitignore` itself is left
out.

## Proposals (`Proposals`)

The life of a proposal: `free` (not on record), pending, executing, completed,
failed, not promoted, discarded. `Analyse` is `run_self_improve_analysis` with
its clean-ups (`Swept`, `Pruned`) and its gates in their order (the pause after
failures in a row, the breaker for a red baseline, the interval, the cap on
pending ones, the stagnation check); `Route` sends the task to the approval
queue or to the loop; `Defer`, `Skip`, `Begin(p)`, `Promote`, `Return(r)` are
the dispatch, in which the pipeline is one step with the results it can return;
`Other` is a task of another kind; `Approve(p)`, `Reject(p)`, `Crash` and `Tick`
(an hour) happen around it. Times are ages that stop growing where the code no
longer tells them apart.

Run `proposals`: two proposals, both approval modes, one pending proposal at
most, a pause after one failure, two red entries in a row for the breaker, two
attempts per task, one entry of the queue per proposal, one death. Two proposals
let one wait while the other is executed, pruned or promoted. The thresholds in
hours keep their order (a reset comes before a discard).

Fairness: the loop goes on and a run of the pipeline returns (weak fairness of
`Analyse`, `Route`, `EndCycle`, `Return`), time passes (strong fairness of
`Tick`, which pauses while a cycle is being put together), and a task whose turn
comes again and again is not passed over every time (strong fairness per
proposal). Without the last, budgets and other tasks could starve it for ever.

### Proved

`ProposalsProofs`: `PromotesOnce` (`PromotedOnce`) and `CompletedStays`
(`CompletedKept`), for any numbers of proposals and bounds. Both hold in the mode
in which promotion is automatic; the invariant says that the list of tasks holds
at most the one executing proposal (`OneInHand`), and that a commit is on record
or its run is about to return (`CommitKnown`), unless the watcher died.

`RedIsHeeded` (`RedHeeded`) holds in every mode. The breaker wants
`RedThreshold` red entries among the last `RedLookback`, and the assumption is
what the code's constants say of them (2 of 20): a threshold of at most two, and
a log that is read at least two entries deep. The invariant `RedTwice` says that
a red baseline at the head of the log is followed by another one: `improve()`
and the watcher write one each, so that the breaker fires in the first cycle,
although it asks for two failures. The model writes both in one step (`Return`):
a process that dies between the two leaves one, which the breaker does not heed.

## The attempts at a task (`TaskAttempt`)

`TaskAttempt` composes the two engines and what follows a step.

* `AgentLoop` is the turn loop of `direct_agent.py` on both API paths:
  `BeginTurn` (pruning, summarising), `Transient`, `Failed`, `Refused`, `Empty`,
  `Text`, `Tools(n, r)` and `RunTools`. It keeps the message history message by
  message, as uses and results with their turn, because the API refuses a
  history in which they do not follow each other (`WellFormed`), and three
  different pieces of code cut it.
* `Oracle` is `oracle_run`: `Checkpoint`, `Work(d)`, `Fail`, `OutOfTurns`.
  `OracleVote` is the vote of one turn (`_majority_vote` with its soft
  fallback), reduced to what a turn can come to (`Decisions`): whether calls are
  made, how many workers back them, whether the workers disagree or call the
  task complete. The progress tracker (`shown`) is brought up to date only by
  turns that execute tools, and a timeout (`Cancel`) may come within a turn whose
  review is already paid for.
* `StepCompletion` is the verification of a step (`Judge`, `Override`,
  `Record`), the detection of completed goals, the loop of generated tests
  (`BeginHarness`, `Attempt(t)`, `HarnessDone`, `HarnessRaises`), and `Mark`.
* `TaskAttempt` adds the attempt loop of the watcher: `Begin`, `Run`,
  `Returned`, `TimedOut`, `Raised`, `GiveUp`, `Settle`, `RecordStep`, and
  `AskStop` at any point.

Run `agent`: two attempts; four turns per tier with a premium budget of 7 at 2
per turn, so that the budget (three turns) and not the tier ends the run, and
does not divide evenly; four tool calls in batches of up to two; histories
pruned to two pairs and summarised every other turn, so that both happen in one
run; three workers of whom two agree or none; five turns of the ensemble with
three reviews, so that a timeout can hide more of them than one; two effects, two goals, four attempts at a test with three passes
in a row, so that attempts can run out just before. A history is as long as the
turns allow.

`LogComplete` counts what timeouts may hide (`doubtful`): for each timeout of the
ensemble one review for every turn in a row that executed no tool and one for
the turn that was cut off (`Lost`; twice that if the cooldown of escalations is
configured to zero). It holds at every point of a task, so also of the log a
successful run leaves. The bound is tight in the run: TLC refutes it with one
review less, and its mutant is a turn that leaves the tracker as it was.

`CompletionProven` joins three opinions on a step, the task's own, the checks'
and the judge's (`opinion`), none of which may be overruled, and what is needed
to mark a goal. It does not ask for three passes in a row, which the code does
not either (see the known divergences).

Fairness: an attempt goes on (`WF(Attempts)`): every call to a model returns,
fails, or is cut off by the timeout. `Ends` then says that no chain of empty
answers, refusals, retries and failing tools goes on for ever.

### Proved

`TaskAttemptProofs`: `DoneIsProven` (`CompletionProven`), for any attempts,
goals, effects and bounds. The invariant joins `Verdict` (what the checks and
the judge have said about the step so far: a step that counts as verified was
not turned down by either) and `Validated` (from its detection
to its marking a goal has no open sub-goal, and what keeps it is a test that was
valid once or a reason to do without).

Four more theorems rest on `RunInv`, for any limits on turns, tools, reviews,
prices, workers and attempts:

* `HistoryAccepted` (`FirstCallValid`). `Told` says what the history is at each
  point of a turn: before it, `Whole`, uses and results in pairs with turns that
  ascend; at a call, `Cut`, the same with some of its beginning gone, so that a
  result may have lost its use; while tools run, whole but for the last use.
  Pruning and summarising sanitise what they cut, and the lemmas say that
  sanitising a cut history leaves a whole one (`SanitizedWhole`), that the newest
  part of a whole one is cut (`NewestCut`), and that the recovery from a refusal,
  which deletes two messages whatever they are, leaves it cut (`ShiftedCut`). A
  first call is always made on a history that is whole plus a nudge.
* `WithinBudgets` (`BudgetsKept`). `Spent` bounds the calls and the premium by
  the turns taken; that a budget which pays for one request also pays for all
  the turns it is turned into is `TurnsPaid`.
* `NoFreeModelAlone` (`Backed`). The vote is what a turn can come to
  (`Decisions`); `DecisionsBacked` says of every decision that acts that it has
  the names of two workers behind it: a majority on a call and its arguments is one on
  its name, and the fallback takes only names with a majority (`ElectedNamed`),
  so the least supported call has one too (`SupportEnough`).
* `NothingUnlogged` (`LogComplete`). The invariant of a run says how many reviews
  the tracker lacks (`Hidden`): as many as there were stalled turns in a row, and
  one more when no turn has followed the latest review. It is inductive because a
  review that is due, or that the cooldown allows, never follows another one
  without a turn between them (`ReviewApart`); a timeout within a turn adds the review of that turn
  (`CancelLoses`). `Accounts` sums this over the attempts. The assumption is that
  the interval of scheduled reviews is not zero: the code clamps it to 4 to 10
  (`_dynamic_checkpoint_interval`).

### Abstractions

Routing may choose another model for a retry: nothing here depends on it. The
texts of messages and nudges are left out; that a nudge is a message of its own
is not. A tool call succeeds, fails or is a redundant read. In `Oracle` messages
are only ever appended, calls and results together. The kinds of checks of the
environment are reduced to holds, fails and raises.

## The outer loop (`WatchLoop`)

`WatchLoop` is `watcher.run`, from start to return, over the lives of several
processes. It composes five components, each with its part of the state:

* `ProxySupervisor`: the managed process, whether some other proxy answers, the
  cooldown. `ensure_healthy` is `Healthy`, `LeaveIt` or `AttemptRestart` and
  `Waited`; `stop_managed` is `StopManaged`.
* `EventBus`: which sources are remembered and which differ from what is
  remembered. `Poll` is `poll_all`; `pending` and `cause` are history.
* `Dispatch`: batches (`Group`, by `task_batcher.py`), the tests on the first
  task of a batch in their order (`Untriggered`, `Unmet`, `Duplicate`,
  `SkipRecent`, `PassOver`), `Run`, and the record of successes with its file
  (`Save`, `Load`), with cycle numbers as ages.
* `CostMonitor`: the spend of the day and the week, the limits, the alerts.
* `Outcomes`: the run log with its rotation, the baselines of promotions and
  their verdicts.

| Action | Code |
|---|---|
| `Begin`, `Leave` | the head of the loop |
| `CheckProxy`, `WaitForProxy` | `ensure_healthy` and the wait for a new proxy |
| `StartCycle` | the poll, the planner of ad-hoc tasks, the grouping |
| `PassOverTask`, `RunTask(result)`, `RunGoalTask(e)`, `Promote`, `EndTasks` | the dispatch loop |
| `KeepHouse`, `ClearCycle` | record of successes, outcomes, alerts, heartbeat, and the pause the cycle ends in: budget, quota, `max_runs` |
| `Wake`, `Shutdown` | the sleep, the end |
| `RequestStop` | a signal whose handler sets a flag (SIGINT and SIGTERM, but not on Windows; Ctrl+Break there) |
| `Cancelled` | Ctrl+C without such a handler, within a cycle: asyncio cancels the main task, the `CancelledError` passes both handlers of the loop, and the process ends without its clean-up |
| `Interrupt` | the handled `KeyboardInterrupt`: Ctrl+C in a pause or sleep, or a second one within a cycle |
| `Die`, `Restart` | the process is killed and started anew: it reads the files, and counts its cycles from one |
| `ProxyChanges`, `SourceChanges` | the world, where the watcher is about to look at it |

Run `watch_loop`: five settings, each with what it needs and no more: a managed
proxy; events, a task that depends on a triggered one, and a planner; a task
on its own before a merged batch of two in which it is again; budgets for the day and
the week; promotions. Two lives, each replaced within its first two cycles: the
record of successes lasts two cycles, so this is when the ages of an earlier
process matter. A window of two tasks, a log of four and one promotion let the
log be rotated before, within and after the window. Proxy restarts are two ticks
apart, so a cycle falls into the cooldown.

Fairness: a process that lives goes on (`WF(Cycle)`). Nothing is assumed of the
proxy: `DeadReplaced` says that a dead one is not left at that, not that its
successor ever answers. `StopsClean` says that a request to stop is heeded,
whichever pause or cycle it meets: the loop ends with the pid file and the
proxy gone and the stopped heartbeat written, unless the process is cut off
before.

### Proved

`WatchLoopProofs`: `LeavesClean` (`LeftClean`, which no run checks: it is mostly
about one step), for any tasks, events, settings and lives. `Tidy` says that no
process was started while another one lived, and what is gone when the loop has
returned; `Reported` that every cycle that is over has left its heartbeat.
Processes that were killed or cancelled are not covered. Three more, each with an invariant of its own:

* `EventsCaused` (`NoPhantomEvent`). `Caused` says that what differs from what a
  source is remembered by has changed since, so that a poll finds only news;
  `Answering` that without a cause the batches hold only tasks of the
  configuration. Grouping neither adds nor changes a task (`GroupIn`).
  `TasksAssumption` says that the tasks of the planner are none of those of the
  configuration (it names them `ooda-1`, `ooda-2`, ...), and that the event of a
  task's success or failure is none of a source's.
* `SkipsEarned` (`SkipEarned`). `Dated` relates the age of every success on
  record to the cycle it is from: what this process did not load succeeded in
  this cycle if its age is 0 and in the one before if it is 1; what it loaded is
  passed over at age 1 only, and in the cycle after it is too old to be passed
  over again.
* `JudgedFairly` (`VerdictFair`). Until its verdict, the first tasks after a
  promotion are those the log holds from its baseline on, up to a full window
  (`Told`), unless a rotation took them away; the verdict is then about a full
  window, to which later tasks add nothing (`NoteFair`, `MeasureFair`). Leaving
  out the failures of the environment commutes with appending (`OfAgentsAppend`).

### Abstractions

Contents and times of sources are reduced to "differs". A task costs one unit.
Goal tasks and tasks of the pipeline are only their entries in the log here.
Claims are in `Coordinator`, attempts in `TaskAttempt`. Dry runs are left out.

## Learning (`Learning`)

Three parts that share no state, so each behaviour follows one of them, with the
consolidation the watcher calls every few cycles:

* `Graduation` with `Trust`: in every cycle, for every goal, the trust score of
  the evidence in the logs (`Score`, in thousandths, with the code's weights),
  the level it suggests, and the change of level if the samples, the stability
  of the snapshots and the cooldown allow it; down at once, up one level at a
  time (`Judge`). The history of changes is shared by all goals and trimmed.
* `StrategyLibrary`: `TaskEnds` (injection, credit, learning from successes),
  `Consolidate` (decay and pruning), `Load`. Quality is counted in twentieths.
* `MemoryStore`: `NoteTask`, `Consolidate` (patterns that recur, decay), `Save`,
  `Clear` (the command line), `Load`.

Run `learning`: six bodies of evidence, one for each way a score comes about
(nothing; a plan only drafted; failing runs; half and half; refusals; good work),
two goals sharing a history of two changes, a cooldown of two cycles; one
category with two strategies competing for one place; two kinds of tasks, a
short memory of four and a pattern after three. Two goals suffice for one to
push the other's change out of the history; one place per category makes every
strategy a competitor.

Fairness: cycles go on (weak fairness of `JudgeLevels` and `EndCycle`). Nothing
is assumed of the tasks. `LevelFollowsTrust`, `Forgotten` and `Recalled` are
conditional on what the world does in the end (evidence settles, nothing speaks
for a strategy, a kind recurs).

### Proved

`GoalProofs` (with the proofs about the ladder) takes the levels of autonomy:
`LevelSpec` is `Graduation` on its own, with `Trust`, for any goals, evidence,
cooldown and history; the three parts of `Learning` share no state, so what is
proved of `LevelSpec` is what the run checks of its first part.

* `NothingWellNoAutonomy`: evidence in which nothing went well never suggests
  full autonomy. Of the four signals those with data then count nothing and
  those without count three quarters, so the score is at most 750 thousandths.
* `FullAutonomyIsEarned` (`AutonomyEarned`): the goals of a cycle are judged one
  after the other on the same record; by induction over their number each level
  is what it was or what the evidence of this cycle suggests at most.
* `PromotionsAreSpaced` (`CooldownKept`). The cooldown is read from a history
  shared by all goals and trimmed. The invariant (`ChangesNoted`): the change of
  a goal that is still cooling down is in the history, as old as the goal has
  been idle, with at most as many others behind it as the other goals can have
  made since. Within a cycle it passes from goal to goal (`SoFar`): before its
  turn a goal has not changed and its entry moves back one place at a time, at
  its turn it is found, and afterwards the goals that follow move it on.
  The theorem needs `HistoryHolds`: the goals are different (the code takes them
  from the keys of a dictionary), and the other goals cannot make `MaxHistory`
  changes in a cooldown, `(goals - 1) * (Cooldown - 1) < MaxHistory`. With the
  code's five and thirty these are eight goals; with more the code does not
  guarantee the cooldown. The run is at the boundary: two goals, a cooldown of
  two, and a history of two, and with a history of one TLC finds a goal promoted
  twice in a row.

The induction over the goals is by the least natural number at which a claim
fails (`NatSetInduction`), since the induction theorems of the library take an
operator. The library of strategies and the memory are only model-checked: sorted
sequences, and what is claimed of them is liveness.

## Only model-checked

* Everything under fairness, which is out of the prover's reach: `PlanResolves`,
  `StallNoticed`, `ClaimsFreed`, `Settled`, `Settles`, `Ends`, `DeadReplaced`,
  `StopsClean`, `LevelFollowsTrust`, `Forgotten`, `Recalled`.
* The findings are counterexamples on small instances.

## Not modelled

`PROJECT.json` lists every part with its status. Left out altogether: routing
(stateless scoring; its choice is free in the models), history and health
(queries for reports), reflection and meta-reflection (notes that feed prompts;
no decision of the program reads them), planner and authoring (prompt text, and
authoring is unreachable from the review), prompt evolution (prompt text), tools
(input and output; a call succeeds, fails or is refused in `AgentLoop`), fixes
and oracle billing (the package does not import them). Left out of modelled
parts: the registry of instances (a free choice of which specialists look
alive), progress notes, metrics, the formatting of events, strategies and
memories for prompts, reports.

Data is abstracted throughout: the texts of prompts, steps and answers and the
choice of models have no part in the control core.

## Known divergences

Where the code does something else than its documents say. The models follow
the code. The first two have a run each:

* Orphan pruning forgets the done sub-goals of goals that are not active
  (`watcher.py:758`, `:817` against `goals.py:232`): `goals_done`.
* A decision of the person may be undone by the copy the watcher saves
  (`watcher.py:1890` against `goal_approval.py:64`): `approval_decision`.
The others are described only:

* Ctrl+C on Windows, within a cycle, ends the watcher without its clean-up
  (`watcher.py:1968`, `:1974` against `:14` and `:1936`).
* The clean-up of the tests does not put back files git ignores
  (`self_improve.py:376` against `:1768`).
* The roll-back after a failed `git commit` leaves new files and the index as
  they are (`self_improve.py:667` against `:1797`).
* The harness returns the last test that was valid when its attempts are
  exhausted, and one valid test marks the goal (`goal_harness.py:532` against
  `:317` and `:452`). A test that hangs in the empty directory counts
  as failing there.
* A plan is declared completed before its mutation step is appended, and the
  step never runs, yet counts in the evidence
  (`goal_decomposition.py:538-561`, `watcher.py:1795`).
* "Reset retry counts" after a recomposition keeps the counts of the ids that
  are used again (`goal_replanner.py:361`): a replacement step may start without
  a retry.
* The plans of a shelved goal go on being executed (`watcher.py:832` against
  `goal_escalation.py:30`).
* The cooldown of the ladder is measured on the list of snapshots, which stops
  growing at 20: a goal that stalls after that is never shelved
  (`goal_escalation.py:419` against `:32`).
* The end of one instance's cycle unlinks the claims of all
  (`coordinator.py:291`), so two instances may run one task in spite of `:3`.
* The pause for a used-up quota is looked for in exceptions only
  (`watcher.py:1643`), while the agent returns its errors
  (`direct_agent.py:1376-1383`); `Raised` is the one way there.
* A watcher over its budget pauses and then runs a full cycle
  (`watcher.py:2030-2045` against `cost_monitor.py:36`).
* The pauses for budget and quota come before the test of `max_runs`
  (`watcher.py:2070`), and the first before the quota flag is reset.
* Ages of the record of successes are cycle numbers of the process that wrote
  them (`watcher.py:1237`); `SkipEarned` states what is left of them.
* A rotated log breaks the "fair window" of a verdict
  (`proposal_outcomes.py:271`) and resets the spend. The cost of a success is the
  cost of all where there was none, so a promotion may look like a gain or loss
  it was not.
* A diagnosis that is not of the expected shape spends its attempt without
  starting the cooldown, and discards what was decided for earlier goals of the
  cycle (`goal_escalation.py:476`).
* "Disagreement escalates" (`oracle.py:17`) cannot happen with two workers.
* A premium budget below one request counts as none (`direct_agent.py:924`).
* The tier of a retry is routed by the watcher (`watcher.py:1372`) and again by
  the agent (`direct_agent.py:894`); the learned router never decides the tier of
  a first attempt.
* The agent's categories of strategies are not the library's, so some strategies
  are never retrieved. Saves of the library are not atomic, and an unreadable
  file loads as an empty one.

## Further hazards

Beyond those in `PROJECT.json`; none has a property.

* `instances.json` is loaded, changed and saved by every instance: a
  registration may be lost, and a heartbeat re-creates the entry without its
  role.
* A merged batch is tested by its first task only; tasks passed over as recent
  get no outcome, so tasks that depend on them do not run.
* The outcomes file is read and written whole; a priority that is no number
  raises in the coordinator.
* Two instances that improve themselves share one sandbox, and `git add -A` takes
  whatever a person has edited meanwhile.
* The baseline of a fresh sandbox passes when the targets have no tests.
* The tools of a run that was cut off go on in their threads.
* In review mode a step or a proposal is submitted again every cycle; an
  executing proposal older than an hour is reset while its approval is awaited.
* The pause after failures in a row reads the list of proposals after it was
  pruned (`goal_self_improve.py`).
* A retry of the pipeline is filtered again, but skips the two guards.
* The command that clears the memory is overwritten by a running watcher.
* The counter of consolidations starts again with every process.
