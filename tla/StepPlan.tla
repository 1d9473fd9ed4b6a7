------------------------------ MODULE StepPlan ------------------------------
(***************************************************************************)
(* The step plan of one sub-goal and the pure operations the secretary     *)
(* applies to it: recording the result of a step (goal_decomposition.py)   *)
(* and recovering from a failed one (goal_replanner.py).  The modules that *)
(* run plans are built from these operators.                               *)
(*                                                                         *)
(* The text of a step is abstracted to what the code's decisions read:     *)
(* whether it holds a mutation keyword (writes), whether it has            *)
(* preconditions (guarded) and its model tier.  The id of a step is its    *)
(* position, which is what the code's numbering "<sub-goal>.<n>" yields.   *)
(***************************************************************************)
EXTENDS Integers, Sequences

CONSTANTS
    NTiers,        \* the tiers are 1..NTiers (low, medium, high)
    Drafts,        \* the steps the model may draft: [writes, guarded, tier]
    MaxSteps,      \* the longest plan a decomposition gives
    MaxNew,        \* the longest list of replacement steps
    MaxRetries,    \* retries of one step
    MaxRecomps,    \* recompositions of one plan
    LogLimit       \* length of the failure log

Tiers == 1..NTiers

DraftType == [writes : BOOLEAN, guarded : BOOLEAN, tier : Tiers]

ASSUME TiersAssumption  == NTiers \in Nat \ {0}
ASSUME DraftsAssumption == Drafts \subseteq DraftType
ASSUME SizesAssumption  == MaxSteps \in Nat \ {0} /\ MaxNew \in Nat \ {0}
ASSUME BudgetAssumption == MaxRetries \in Nat /\ MaxRecomps \in Nat
ASSUME LogAssumption    == LogLimit \in Nat \ {0}

StepStatus == {"pending", "completed", "failed"}

Step == [status : StepStatus, writes : BOOLEAN, guarded : BOOLEAN, tier : Tiers]

\* A plan; log is the failure log, one entry per analysed failure: the tier
\* of the failed step for a capability failure, and 0 for any other.
Plan == [steps : Seq(Step), completed : BOOLEAN, blocked : BOOLEAN,
         retries : Seq(Nat), recomps : Nat, log : Seq(0..NTiers)]

\* "No entry in step_plans": the plan without steps, which is never stored.
NoPlan == [steps |-> <<>>, completed |-> FALSE, blocked |-> FALSE,
           retries |-> <<>>, recomps |-> 0, log |-> <<>>]

Pending(d) == [status |-> "pending", writes |-> d.writes,
               guarded |-> d.guarded, tier |-> d.tier]

-----------------------------------------------------------------------------
(* Drafting a plan.                                                        *)

ListsUpTo(n, S) == UNION {[1..k -> S] : k \in 1..n}

\* What decompose_sub_goal may return; the empty list is a failed call.
Decompositions == ListsUpTo(MaxSteps, Drafts)

\* Replacement steps are rebuilt from action, verification and tier: they
\* carry no preconditions.
Replacements == ListsUpTo(MaxNew, {[d EXCEPT !.guarded = FALSE] : d \in Drafts})

PendingSteps(ds) == [i \in DOMAIN ds |-> Pending(ds[i])]

NewPlan(ds) == [NoPlan EXCEPT !.steps = PendingSteps(ds)]

-----------------------------------------------------------------------------
(* Reading a plan.                                                         *)

AllCompleted(steps) == \A i \in DOMAIN steps : steps[i].status = "completed"

\* Mutant: earlier steps are not looked at.
IsNextUnordered(p, i) ==
    /\ ~p.completed /\ ~p.blocked
    /\ i \in DOMAIN p.steps
    /\ p.steps[i].status = "pending"

\* get_next_step: the first pending step, when every step before it is done.
IsNext(p, i) ==
    /\ ~p.completed /\ ~p.blocked
    /\ i \in DOMAIN p.steps
    /\ p.steps[i].status = "pending"
    /\ \A j \in 1..(i - 1) : p.steps[j].status = "completed"

-----------------------------------------------------------------------------
(* Recording the result of step i.                                         *)

\* The step added to a finished plan that contains no mutation keyword.
MutationStep(tier) == [status |-> "pending", writes |-> TRUE,
                       guarded |-> FALSE, tier |-> tier]

Enforced(steps) ==
    IF \E i \in DOMAIN steps : steps[i].writes
    THEN steps
    ELSE Append(steps, MutationStep(steps[Len(steps)].tier))

Recorded(p, i, ok) ==
    LET steps == [p.steps EXCEPT ![i].status = IF ok THEN "completed" ELSE "failed"]
    IN  IF AllCompleted(steps)
        THEN [p EXCEPT !.steps = Enforced(steps), !.completed = TRUE]
        ELSE [p EXCEPT !.steps = steps]

-----------------------------------------------------------------------------
(* Recovering from the failure of step i.                                  *)

\* retry_counts is a dictionary keyed by step id, 0 by default.
Retried(p, i) == IF i \in DOMAIN p.retries THEN p.retries[i] ELSE 0

\* Mutant: one retry too many.
CanRetryOnceMore(p, i) == Retried(p, i) <= MaxRetries

CanRetry(p, i) == Retried(p, i) < MaxRetries
CanRecompose(p) == p.recomps < MaxRecomps

\* Mutant: the retry is not counted.
RetryNotCounted(r, i) == r

OneMoreRetry(r, i) ==
    [j \in 1..(IF i > Len(r) THEN i ELSE Len(r)) |->
        (IF j \in DOMAIN r THEN r[j] ELSE 0) + (IF j = i THEN 1 ELSE 0)]

\* apply_retry; d is the step as it was or as the analysis rewrote it.
Retry(p, i, d) ==
    [p EXCEPT !.steps[i] = Pending(d), !.retries = OneMoreRetry(@, i)]

\* Mutant: completed steps are dropped as well.
RecomposeFromScratch(p, kept, ds) ==
    [p EXCEPT !.steps = PendingSteps(ds), !.recomps = @ + 1, !.completed = FALSE]

\* apply_recompose: kept are the completed steps before the failed one.
Recompose(p, kept, ds) ==
    [p EXCEPT !.steps = kept \o PendingSteps(ds),
              !.recomps = @ + 1,
              !.completed = FALSE]

\* Mutant: the plan is not marked.
BlockUnmarked(p) == p

Block(p) == [p EXCEPT !.blocked = TRUE]

\* _record_failure: the log keeps its last LogLimit entries.
Logged(p, entry) ==
    LET log == Append(p.log, entry)
    IN  [p EXCEPT !.log = IF Len(log) > LogLimit THEN SubSeq(log, 2, Len(log)) ELSE log]

\* _maybe_escalate_tier, on the log with the new entry: a second capability
\* failure at one tier raises the sub-goal's override to the tier above.
CapabilityFailures(log, tier) == {k \in DOMAIN log : log[k] = tier}

RepeatedAt(log, tier) ==
    \E j, k \in CapabilityFailures(log, tier) : j # k

\* Mutant: the first capability failure raises the tier.
EscalatedAtOnce(override, log, entry) ==
    IF entry # 0 /\ entry < NTiers /\ override < entry + 1 THEN entry + 1 ELSE override

Escalated(override, log, entry) ==
    IF entry # 0 /\ entry < NTiers /\ RepeatedAt(log, entry) /\ override < entry + 1
    THEN entry + 1
    ELSE override

-----------------------------------------------------------------------------
(* What holds of every plan between two cycles.                            *)

\* Whatever has been tried comes after completed steps only.
Ordered(p) ==
    \A i, j \in DOMAIN p.steps :
        i < j /\ p.steps[j].status # "pending" => p.steps[i].status = "completed"

\* Retries and recompositions do not exceed their budget.
WithinBudget(p) ==
    /\ \A i \in DOMAIN p.retries : p.retries[i] <= MaxRetries
    /\ p.recomps <= MaxRecomps

\* A failed step rests only in a blocked plan; a completed plan is finished
\* up to its last step, which may be the mutation step; any other plan has a
\* step to run.
Settled(p) ==
    /\ (\E i \in DOMAIN p.steps : p.steps[i].status = "failed") => p.blocked
    /\ p.completed =>
         /\ ~p.blocked
         /\ \A i \in 1..(Len(p.steps) - 1) : p.steps[i].status = "completed"
    /\ p # NoPlan /\ ~p.completed /\ ~p.blocked =>
         \E i \in DOMAIN p.steps : IsNext(p, i)
=============================================================================
