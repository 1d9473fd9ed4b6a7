----------------------------- MODULE Proposals -----------------------------
(***************************************************************************)
(* The life of improvement proposals: goal_self_improve.py finds them in   *)
(* the failures of the run log and keeps their status in goal_state, the   *)
(* watcher runs the pipeline for them, directly or after an approval.      *)
(*                                                                         *)
(* Time is counted in ticks of an hour and kept as ages that stop growing  *)
(* at MaxAge: the code only asks whether an age has passed a threshold.    *)
(* The pipeline itself (SelfImprove) is one step here, with the results it *)
(* can return.  The watcher saves goal_state after every change made here, *)
(* so what a crash loses is the work in hand, never a status.              *)
(***************************************************************************)
EXTENDS Naturals, FiniteSets, SequencesExt

CONSTANTS N,            \* bound: proposals kept at a time, 1..N by priority
          Modes,        \* approval modes of the self-improvement goal
          MaxPending,   \* MAX_PENDING_PROPOSALS
          FailLimit,    \* CONSECUTIVE_FAIL_LIMIT
          PauseAge,     \* CONSECUTIVE_FAIL_COOLDOWN_HOURS
          ResetAge,     \* an executing proposal older than this is reset
          StaleAge,     \* a pending one older than this is discarded
          KeepRecent,   \* terminal proposals kept by prune_old_proposals
          RedLookback, RedThreshold,  \* the breaker for a red baseline
          MaxAttempts,  \* 1 + max_retries of the watcher
          MaxQueued,    \* bound: entries of one proposal in the queue
          MaxCrashes    \* bound: deaths of the watcher

Props == 1..N
MaxAge == StaleAge + 1
Ages == 0..MaxAge
Statuses == {"free", "pending", "executing", "completed", "failed", "notPromoted", "discarded"}
Executed == {"completed", "failed", "notPromoted"}
Results == {"promoted", "kept", "broken", "failed", "red"}

ASSUME BoundAssumption ==
    /\ {N, MaxPending, FailLimit, PauseAge, ResetAge, StaleAge, RedLookback,
        RedThreshold, MaxAttempts, MaxQueued} \subseteq Nat \ {0}
    /\ PauseAge <= StaleAge /\ ResetAge <= StaleAge
    /\ Modes \subseteq {"auto", "review"}
    /\ RedThreshold <= 2 /\ RedLookback >= 2   \* goal_self_improve.py:94-95

VARIABLES mode,      \* the approval mode of the goal
          phase,     \* where the cycle of the watcher is
          status,    \* of every proposal, "free" when there is none
          age,       \* since the proposal was created
          history,   \* the executed proposals, the latest first
          lastRun,   \* age of the latest execution
          lastLook,  \* age of last_analysis
          lastStag,  \* age of last_stagnation_check
          log,       \* the latest run log entries: TRUE for a red baseline
          lastRed,   \* age of the latest red entry
          waiting,   \* approval queue entries of a proposal nobody decided
          granted,   \* approved ones that were not run
          todo,      \* proposals whose task is in the list of this cycle
          current,   \* the proposal whose task runs, 0 for none
          attempts,  \* attempts left for it
          promos,    \* history variable: commits made for the proposal
          crashes

pipe == <<current, attempts, promos>>
queue == <<waiting, granted>>
ages == <<age, lastRun, lastLook, lastStag, lastRed>>
vars == <<mode, phase, status, ages, history, log, queue, todo, pipe, crashes>>

Init ==
    /\ mode \in Modes /\ phase = "idle"
    /\ status = [p \in Props |-> "free"] /\ age = [p \in Props |-> 0]
    /\ history = <<>> /\ log = <<>> /\ todo = <<>>
    /\ lastRun = PauseAge /\ lastLook = 1 /\ lastStag = 1 /\ lastRed = 2
    /\ waiting = [p \in Props |-> 0] /\ granted = [p \in Props |-> 0]
    /\ current = 0 /\ attempts = 0 /\ promos = [p \in Props |-> 0]
    /\ crashes = 0

----------------------------------------------------------------------------
(* The gates and clean-ups of run_self_improve_analysis.                   *)

\* Mutant: an executing proposal is never reset.
SweptPending ==
    [p \in Props |-> IF status[p] = "pending" /\ age[p] > StaleAge
                     THEN "discarded" ELSE status[p]]
\* Mutant: the status is reset although the proposal has a result.
SweptFinished ==
    [p \in Props |-> IF status[p] \in {"executing", "completed"} /\ age[p] > ResetAge
                     THEN "pending" ELSE status[p]]
\* discard_stale_proposals
Swept ==
    [p \in Props |->
        CASE status[p] = "executing" /\ age[p] > ResetAge -> "pending"
          [] status[p] = "pending" /\ age[p] > StaleAge -> "discarded"
          [] OTHER -> status[p]]

\* Mutant: every proposal that was executed may go.
PrunableExecuted(st) == {p \in Props : st[p] \in Executed \cup {"discarded"}}
\* prune_old_proposals: of the discarded and failed ones the newest stay.
Prunable(st) == {p \in Props : st[p] \in {"discarded", "failed"}}
Newer(q, p) == \/ age[q] < age[p]
               \/ age[q] = age[p] /\ q < p
Pruned(st) ==
    [p \in Props |-> IF /\ p \in Prunable(st)
                        /\ Cardinality({q \in Prunable(st) : Newer(q, p)}) >= KeepRecent
                     THEN "free" ELSE st[p]]

\* _check_consecutive_failures
Recent(st, h) == SelectSeq(h, LAMBDA p : st[p] \in Executed)
Paused(st, h) ==
    /\ Len(Recent(st, h)) >= FailLimit
    /\ \A i \in 1..FailLimit : st[Recent(st, h)[i]] = "failed"
    /\ lastRun < PauseAge

\* _master_baseline_appears_red: enough entries, the latest within the hour.
Red == /\ Cardinality({i \in DOMAIN log : log[i]}) >= RedThreshold
       /\ lastRed <= 1

\* get_pending_proposal: the pending proposal of the highest priority.
Pending(st) == {p \in Props : st[p] = "pending"}
Best(S) == CHOOSE p \in S : \A q \in S : q <= p
Picked(st) == [st EXCEPT ![Best(Pending(st))] = "executing"]

\* is_analysis_due; the stagnation check has a cooldown of its own.
Due == lastLook >= 1
StagDue == lastStag >= 1

\* The proposals of one analysis that survive _deduplicate_proposals.
Fresh(st) == SUBSET {p \in Props : st[p] = "free"}
With(st, new) == [p \in Props |-> IF p \in new THEN "pending" ELSE st[p]]

----------------------------------------------------------------------------
(* The cycle of the watcher.                                               *)

Take(st) ==
    IF Pending(st) = {} THEN status' = st /\ todo' = <<>>
    ELSE status' = Picked(st) /\ todo' = <<Best(Pending(st))>>
TakeNone(st) == status' = st /\ todo' = <<>>

Born(new) ==
    /\ age' = [p \in Props |-> IF p \in new THEN 0 ELSE age[p]]
    /\ promos' = [p \in Props |-> IF p \in new THEN 0 ELSE promos[p]]
NoneBorn == UNCHANGED <<age, promos>>

\* run_self_improve_analysis, its branches in their order.
Analyse ==
    /\ phase = "idle" /\ phase' = "route"
    /\ LET st == Pruned(Swept) IN
       /\ history' = Recent(st, history)
       /\ \/ /\ Paused(st, history') \/ Red
             /\ TakeNone(st) /\ NoneBorn /\ UNCHANGED <<lastLook, lastStag>>
          \/ /\ ~Paused(st, history') /\ ~Red /\ ~Due
             /\ UNCHANGED lastLook
             /\ \/ /\ Pending(st) # {} /\ Take(st) /\ NoneBorn /\ UNCHANGED lastStag
                \/ /\ Pending(st) = {} /\ ~StagDue
                   /\ TakeNone(st) /\ NoneBorn /\ UNCHANGED lastStag
                \/ /\ Pending(st) = {} /\ StagDue /\ lastStag' = 0
                   /\ \E new \in Fresh(st) : Born(new) /\ Take(With(st, new))
          \/ /\ ~Paused(st, history') /\ ~Red /\ Due /\ UNCHANGED lastStag
             /\ \/ /\ Cardinality(Pending(st)) >= MaxPending
                   /\ Take(st) /\ NoneBorn /\ UNCHANGED lastLook
                \/ /\ Cardinality(Pending(st)) < MaxPending
                   /\ \/ \E new \in Fresh(st) : Born(new) /\ Take(With(st, new)) /\ lastLook' = 0
                      \/ TakeNone(st) /\ NoneBorn /\ UNCHANGED lastLook    \* the analysis raises
    /\ UNCHANGED <<mode, lastRun, lastRed, log, queue, current, attempts, crashes>>

\* The guardrails let the task pass (they lower its tier and spare it from the
\* cap).  Review sends it to the approval queue, which takes it whatever it
\* already holds; then the approved entries join the list.
Route ==
    /\ phase = "route" /\ phase' = "dispatch"
    /\ LET asked == {p \in ToSet(todo) : mode = "review" /\ waiting[p] < MaxQueued}
           ready == SetToSeq({p \in Props : granted[p] > 0}) IN
       /\ waiting' = [p \in Props |-> IF p \in asked THEN waiting[p] + 1 ELSE waiting[p]]
       /\ todo' = (IF mode = "review" THEN <<>> ELSE todo) \o ready
    /\ granted' = [p \in Props |-> 0]
    /\ UNCHANGED <<mode, status, ages, history, log, pipe, crashes>>

\* The task is passed over: duplicate prompt, claim, budget, stop.
Skip ==
    /\ phase = "dispatch" /\ current = 0 /\ todo # <<>>
    /\ todo' = Tail(todo)
    /\ UNCHANGED <<mode, phase, status, ages, history, log, queue, pipe, crashes>>

\* defer_proposal_for_baseline_red, of a proposal that is still executing.
Deferred(p) == [status EXCEPT ![p] = IF @ = "executing" THEN "pending" ELSE @]
\* The breaker at dispatch.
Defer ==
    /\ phase = "dispatch" /\ current = 0 /\ todo # <<>> /\ Red
    /\ status' = Deferred(Head(todo))
    /\ todo' = Tail(todo)
    /\ UNCHANGED <<mode, phase, ages, history, log, queue, pipe, crashes>>

Begin(p) ==
    /\ phase = "dispatch" /\ current = 0 /\ todo # <<>> /\ Head(todo) = p /\ ~Red
    /\ todo' = Tail(todo) /\ current' = p /\ attempts' = MaxAttempts
    /\ UNCHANGED <<mode, phase, status, ages, history, log, queue, promos, crashes>>

\* An age, or a count, that stops growing.
Older(a, cap) == IF a < cap THEN a + 1 ELSE a

\* n entries are written to the run log.
Logged(red, n) ==
    /\ LET longer == [i \in 1..n |-> red] \o log IN
       log' = IF Len(longer) > RedLookback THEN SubSeq(longer, 1, RedLookback) ELSE longer
    /\ lastRed' = IF red THEN 0 ELSE lastRed

\* record_proposal_result
Recorded(r) == CASE r = "promoted" -> "completed"
                 [] r \in {"kept", "broken"} -> "notPromoted"
                 [] OTHER -> "failed"
\* Mutant: only the watcher writes one.
EntryOfTheWatcher == 1
\* improve() writes an entry to the run log and the watcher one more.
Entries == 2
Record(p, r) ==
    /\ status' = [status EXCEPT ![p] = Recorded(r)]
    /\ history' = <<p>> \o SelectSeq(history, LAMBDA q : q # p)
    /\ lastRun' = 0

\* The pipeline has made the commit, but improve() has not returned.
Promote ==
    /\ current # 0 /\ attempts > 0 /\ promos[current] < 2
    /\ promos' = [promos EXCEPT ![current] = @ + 1]
    /\ attempts' = 0
    /\ UNCHANGED <<mode, phase, status, ages, history, log, queue, todo, current, crashes>>

\* improve() returns and its result is recorded; without a commit an error
\* leads to the next attempt.  The entries of improve() and of the watcher are
\* written in one step: no process dies between the two.
Return(r) ==
    /\ current # 0
    /\ (r = "promoted") <=> (attempts = 0)
    /\ Record(current, r) /\ Logged(r = "red", Entries)
    /\ IF r \in {"promoted", "kept"} \/ attempts = 1
       THEN current' = 0 /\ attempts' = 0
       ELSE attempts' = attempts - 1 /\ UNCHANGED current
    /\ UNCHANGED <<mode, phase, age, lastLook, lastStag, queue, todo, promos, crashes>>

\* A task of another kind runs.
Other ==
    /\ phase = "dispatch" /\ current = 0 /\ todo = <<>>
    /\ Logged(FALSE, 1)
    /\ UNCHANGED <<mode, phase, status, age, lastRun, lastLook, lastStag, history, queue, todo, pipe, crashes>>

EndCycle ==
    /\ phase = "dispatch" /\ current = 0 /\ todo = <<>> /\ phase' = "idle"
    /\ UNCHANGED <<mode, status, ages, history, log, queue, todo, pipe, crashes>>

----------------------------------------------------------------------------
(* What happens around the watcher.                                        *)

Tick ==
    /\ phase = "idle" \/ current # 0
    /\ age' = [p \in Props |-> Older(age[p], MaxAge)]
    /\ lastRun' = Older(lastRun, PauseAge) /\ lastLook' = Older(lastLook, 1)
    /\ lastStag' = Older(lastStag, 1) /\ lastRed' = Older(lastRed, 2)
    /\ UNCHANGED <<mode, phase, status, history, log, queue, todo, pipe, crashes>>

\* A person decides on an entry (or auto_approve_self_improve does).
Approve(p) ==
    /\ waiting[p] > 0 /\ granted[p] < MaxQueued
    /\ waiting' = [waiting EXCEPT ![p] = @ - 1] /\ granted' = [granted EXCEPT ![p] = @ + 1]
    /\ UNCHANGED <<mode, phase, status, ages, history, log, todo, pipe, crashes>>
Reject(p) ==
    /\ waiting[p] > 0 /\ waiting' = [waiting EXCEPT ![p] = @ - 1]
    /\ UNCHANGED <<mode, phase, status, ages, history, log, granted, todo, pipe, crashes>>

\* The watcher dies and is started again.
Crash ==
    /\ phase # "idle" /\ crashes < MaxCrashes /\ crashes' = crashes + 1
    /\ phase' = "idle" /\ todo' = <<>> /\ current' = 0 /\ attempts' = 0
    /\ UNCHANGED <<mode, status, ages, history, log, queue, promos>>

Cycle == \/ Analyse \/ Route \/ Defer \/ EndCycle \/ Promote
         \/ \E p \in Props : Begin(p)
         \/ \E r \in Results : Return(r)
Next == Cycle \/ Skip \/ Other \/ Tick \/ Crash \/ \E p \in Props : Approve(p) \/ Reject(p)

\* The loop of the watcher goes on and time passes; a task whose turn comes
\* again and again is not passed over every time.
Fairness == /\ WF_vars(Analyse \/ Route \/ EndCycle) /\ WF_vars(\E r \in Results : Return(r))
            /\ SF_vars(Tick)
            /\ \A p \in Props : SF_vars(Begin(p) \/ (Defer /\ Head(todo) = p))

Spec == Init /\ [][Next]_vars /\ Fairness

----------------------------------------------------------------------------
(* Properties.                                                             *)

TypeOK ==
    /\ mode \in Modes /\ phase \in {"idle", "route", "dispatch"}
    /\ status \in [Props -> Statuses] /\ age \in [Props -> Ages]
    /\ ToSet(history) \cup ToSet(todo) \subseteq Props
    /\ Len(history) <= N /\ Len(log) <= RedLookback
    /\ lastRun \in 0..PauseAge /\ lastRed \in 0..2 /\ {lastLook, lastStag} \subseteq 0..1
    /\ waiting \in [Props -> 0..MaxQueued] /\ granted \in [Props -> 0..MaxQueued]
    /\ current \in 0..N /\ attempts \in 0..MaxAttempts /\ (current = 0 => attempts = 0)

\* A proposal that needs no approval is promoted once: no reset, no retry and
\* no pruning brings one back that has its commit, unless the watcher died
\* between the commit and the record of it (record_proposal_result).
PromotedOnce == (mode = "auto" /\ crashes = 0) => \A p \in Props : promos[p] <= 1

\* What has been promoted stays on record, through resets, pruning and deaths
\* (the analysis and the deduplication read it): prune_old_proposals keeps all
\* completed proposals, discard_stale_proposals touches none.
CompletedKept ==
    [][mode = "auto" => \A p \in Props : status[p] = "completed" => status'[p] = "completed"]_vars

\* "This gate fires on any run_log evidence and catches the problem in cycle
\* 1" (goal_self_improve.py:91): when the latest entry of the run log is a
\* red baseline of this hour no proposal begins, although two entries are
\* asked for.
RedHeeded ==
    [][(current = 0 /\ current' # 0) => (log = <<>> \/ ~log[1] \/ lastRed > 1)]_vars

\* A proposal that is being executed gets a result, or is given up for its
\* age, although its task may be passed over and the watcher may die.
Settles ==
    \A p \in Props :
        (mode = "auto" /\ status[p] = "executing") ~> status[p] \notin {"executing", "pending"}
============================================================================
