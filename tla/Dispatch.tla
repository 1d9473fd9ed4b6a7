------------------------------ MODULE Dispatch ------------------------------
(***************************************************************************)
(* The dispatch loop of a cycle (watcher.py, task_batcher.py): the tasks   *)
(* are grouped into batches, and a batch runs unless a test on its first   *)
(* task passes it over.  The prompts that succeeded are remembered with    *)
(* the number of the cycle, on disk too, and not run again in the next.    *)
(*                                                                         *)
(* A prompt is the sequence of the texts in it: one for a task, several    *)
(* for a merged batch.  A cycle number is kept as an age, the number of    *)
(* cycles since.  The attempts of a task are in TaskAttempt, the claims of *)
(* other instances in Coordinator.                                         *)
(***************************************************************************)
EXTENDS Integers, Sequences, SequencesExt

CONSTANTS MaxBatch,   \* max_batch_size
          None        \* no trigger, no dependency, no outcome

\* Assumed by the module that composes this one.
DispatchAssumption == MaxBatch \in Nat \ {0}

VARIABLES batches,    \* the batches still to look at
          outcomes,   \* task_outcomes
          seen,       \* seen_prompts
          history,    \* _success_history, as ages
          disk,       \* dedup_history.json
          quota,      \* _quota_exhausted
          skipped,    \* history variable: prompts skipped as recent in this cycle
          before,     \* history variable: those of the cycle before
          doing,      \* history variable: prompts that succeeded in this cycle
          done,       \* history variable: those of the cycle before
          loaded      \* history variable: prompts known from an earlier process
                      \* only, up to the cycle before

vars == <<batches, outcomes, seen, history, disk, quota, skipped, before, doing, done, loaded>>
past == <<skipped, before, doing, done, loaded>>

Nothing == [p \in {} |-> 0]

Init ==
    /\ batches = <<>> /\ outcomes = Nothing /\ seen = {} /\ quota = FALSE
    /\ history = Nothing /\ disk = Nothing
    /\ skipped = {} /\ before = {} /\ doing = {} /\ done = {} /\ loaded = {}

\* group_into_batches: neighbours that may be batched and are of one tier.
Joined(bs, t) ==
    IF /\ bs # <<>> /\ t.batchable /\ Last(bs)[1].batchable
       /\ t.tier = Last(bs)[1].tier /\ Len(Last(bs)) < MaxBatch
    THEN Front(bs) \o <<Append(Last(bs), t)>> ELSE Append(bs, <<t>>)
Grouped(tasks) ==
    LET upTo[n \in 0..Len(tasks)] == IF n = 0 THEN <<>> ELSE Joined(upTo[n - 1], tasks[n])
    IN  upTo
Group(tasks) == Grouped(tasks)[Len(tasks)]
Prompt(batch) == [i \in 1..Len(batch) |-> batch[i].prompt]
\* The prompts recorded for a batch: its own, and those of all but its first task.
Recorded(batch) == {Prompt(batch)} \cup {<<batch[i].prompt>> : i \in 2..Len(batch)}

Merge(f, keys, v) == [k \in DOMAIN f \cup keys |-> IF k \in keys THEN v ELSE f[k]]
Aged(f) == [p \in DOMAIN f |-> f[p] + 1]
Pruned(f) == [p \in {q \in DOMAIN f : f[q] <= 2} |-> f[p]]

\* _runs_completed is one more.
NewCycle ==
    /\ history' = Aged(history) /\ disk' = Aged(disk)
    /\ before' = skipped /\ skipped' = {} /\ done' = doing /\ doing' = {}
    /\ loaded' = loaded \ doing
    /\ UNCHANGED <<batches, outcomes, seen, quota>>
\* The start of the loop.
StartTasks(tasks) ==
    /\ batches' = Group(tasks) /\ outcomes' = Nothing /\ seen' = {}
    /\ UNCHANGED <<history, disk, quota, past>>

Current == Head(batches)
First == Current[1]
Over == batches = <<>> \/ quota

Drop == batches' = Tail(batches)
Ready(triggered) == ~Over /\ (First.trigger = None \/ triggered)

\* No event of the cycle matches the trigger, or events are disabled.
Untriggered(triggered) ==
    /\ ~Over /\ First.trigger # None /\ ~triggered
    /\ Drop /\ UNCHANGED <<outcomes, seen, history, disk, quota, past>>

Outcome(id) == IF id \in DOMAIN outcomes THEN outcomes[id] ELSE FALSE
DependencyHolds == First.dep = None \/ Outcome(First.dep)
\* The task it depends on failed, or has no outcome in this cycle.
Unmet(triggered) ==
    /\ Ready(triggered) /\ ~DependencyHolds
    /\ outcomes' = Merge(outcomes, {First.id}, FALSE)
    /\ Drop /\ UNCHANGED <<seen, history, disk, quota, past>>

Wanted(triggered) == Ready(triggered) /\ DependencyHolds
Duplicate(triggered) ==
    /\ Wanted(triggered) /\ Prompt(Current) \in seen
    /\ Drop /\ UNCHANGED <<outcomes, seen, history, disk, quota, past>>

Recently(p) == p \in DOMAIN history /\ history[p] = 1
Fresh(triggered) == Wanted(triggered) /\ Prompt(Current) \notin seen
See == seen' = seen \cup {Prompt(Current)}

\* Mutant: a skipped task is recorded as a success of this cycle.
NotedAgain(p) == Merge(history, {p}, 0)
Noted(p) == history
\* It succeeded in the last cycle: it counts as passed, but has no outcome.
SkipRecent(triggered) ==
    /\ Fresh(triggered) /\ First.skip /\ Recently(Prompt(Current))
    /\ skipped' = skipped \cup {Prompt(Current)}
    /\ history' = Noted(Prompt(Current))
    /\ See /\ Drop /\ UNCHANGED <<outcomes, disk, quota, before, doing, done, loaded>>

Due(triggered) == Fresh(triggered) /\ ~(First.skip /\ Recently(Prompt(Current)))
\* Outside its schedule, beyond the premium budget, claimed by another
\* instance, or put off because the baseline is red.
PassOver(triggered) ==
    /\ Due(triggered) /\ See /\ Drop
    /\ outcomes' \in {outcomes, Merge(outcomes, {First.id}, FALSE)}
    /\ UNCHANGED <<history, disk, quota, past>>

Ids(batch) == {batch[i].id : i \in 1..Len(batch)}
\* The batch runs, and its outcome is that of all its tasks; when the quota is
\* gone only the first has one.  A stop during the attempts is a failure.
Run(triggered, result) ==
    /\ Due(triggered) /\ See /\ Drop
    /\ CASE result = "passed" ->
              /\ history' = Merge(history, Recorded(Current), 0)
              /\ outcomes' = Merge(outcomes, Ids(Current), TRUE)
              /\ doing' = doing \cup Recorded(Current) /\ UNCHANGED quota
         [] result = "failed" ->
              /\ outcomes' = Merge(outcomes, Ids(Current), FALSE)
              /\ UNCHANGED <<history, quota, doing>>
         [] result = "quota" ->
              /\ outcomes' = Merge(outcomes, {First.id}, FALSE) /\ quota' = TRUE
              /\ UNCHANGED <<history, doing>>
    /\ UNCHANGED <<disk, skipped, before, done, loaded>>

\* _save_dedup_history
Save ==
    /\ history' = Pruned(history) /\ disk' = Pruned(history)
    /\ UNCHANGED <<quota, past>>
\* The loop is left, and what it kept for the cycle with it.
Return == batches' = <<>> /\ outcomes' = Nothing /\ seen' = {}

\* A new process reads what is on disk; its cycles start again at one, so an
\* entry of cycle n is as old as the number of the cycle less n.
Load(cycle) ==
    /\ history' = [p \in DOMAIN disk |-> disk[p] - cycle]
    /\ disk' = history'
    /\ quota' = FALSE /\ Return
    /\ skipped' = {} /\ before' = {} /\ doing' = {} /\ done' = {} /\ loaded' = DOMAIN disk

TypeOK ==
    /\ quota \in BOOLEAN
    /\ \A p \in DOMAIN history : history[p] \in Int
    /\ \A i \in 1..Len(batches) : Len(batches[i]) \in 1..MaxBatch
============================================================================
