--------------------------- MODULE GoalEscalation ---------------------------
(***************************************************************************)
(* Stall detection (goal_progress.py) and the escalation ladder            *)
(* (goal_escalation.py) as the watcher drives them: at the start of a      *)
(* cycle every active goal that is stalled is escalated by one rung, when  *)
(* its cooldown is over; then a review may record a progress snapshot;     *)
(* then the cycle's step may finish or block a sub-goal.                   *)
(*                                                                         *)
(* Escalation counts time in snapshots, of which only the last             *)
(* MaxSnapshots are kept.  Stall detection reads the last StallThreshold   *)
(* of them, so the model keeps those and the number of snapshots.          *)
(***************************************************************************)
EXTENDS Integers, Sequences, FiniteSets

CONSTANTS
    NGoals,               \* the goals are 1..NGoals, by priority
    NSubGoals,
    Goal,                 \* the goal of each sub-goal
    MaxActive,            \* goals active in one cycle
    MaxSnapshots,         \* MAX_SNAPSHOTS
    StallThreshold,       \* STALL_THRESHOLD
    Cooldown,             \* ESCALATION_COOLDOWN_SNAPSHOTS
    MaxDiagnoses,         \* MAX_DIAGNOSES
    MaxRedecompositions,  \* MAX_REDECOMPOSITIONS
    Verdicts              \* the statuses the planner may give a sub-goal

Goals == 1..NGoals
SubGoals == 1..NSubGoals
Statuses == {"open", "blocked", "done"}

ASSUME GoalAssumption == Goal \in [SubGoals -> Goals]
ASSUME SnapshotAssumption ==
    /\ StallThreshold \in Nat \ {0}
    /\ MaxSnapshots \in Nat
    /\ MaxSnapshots >= StallThreshold
ASSUME LadderAssumption ==
    Cooldown \in Nat /\ MaxDiagnoses \in Nat /\ MaxRedecompositions \in Nat
ASSUME VerdictsAssumption == Verdicts \subseteq Statuses

\* The rungs: LEVEL_DIAGNOSE, LEVEL_REDECOMPOSE, LEVEL_REPRIORITIZE, LEVEL_SHELVE.
Diagnosis == 0
Redecomposition == 1
Reprioritization == 2
Shelving == 3

\* Snapshots hold the goals that were active when they were taken.
Absent == -1

VARIABLES
    status,    \* the effective status of each sub-goal
    active,    \* the goals selected for this cycle
    pc,        \* "idle", "escalate", "review", "work"
    todo,      \* stalled goals not yet evaluated in this cycle
    changes,   \* status changes decided but not applied
    snaps,     \* the number of progress snapshots kept
    recent,    \* the last StallThreshold snapshots: done sub-goals by goal
    esc,       \* escalation_state
    since      \* history: snapshots since the goal's last escalation, up to Cooldown

vars == <<status, active, pc, todo, changes, snaps, recent, esc, since>>

SubGoalsOf(g) == {s \in SubGoals : Goal[s] = g}
Completion(g) == Cardinality({s \in SubGoalsOf(g) : status[s] = "done"})

NoChange == [s \in {} |-> "open"]

Init ==
    /\ status = [s \in SubGoals |-> "open"]
    /\ active = {}
    /\ pc = "idle"
    /\ todo = {}
    /\ changes = NoChange
    /\ snaps = 0
    /\ recent = <<>>
    /\ esc = [g \in Goals |->
                 [level |-> Diagnosis, diagnoses |-> 0, redecompositions |-> 0, last |-> -1]]
    /\ since = [g \in Goals |-> Cooldown]

-----------------------------------------------------------------------------
(* Start of a cycle: selection and stall detection.                        *)

Eligible == {g \in Goals : \E s \in SubGoalsOf(g) : status[s] = "open"}
Selected == {g \in Eligible : Cardinality({h \in Eligible : h < g}) < MaxActive}

\* Mutant: a goal that is absent from a snapshot is unlike any other.
SeenOnly(snapshot, g) == snapshot[g]
\* A goal that is absent from a snapshot counts as having had nothing done.
Seen(snapshot, g) == IF snapshot[g] = Absent THEN 0 ELSE snapshot[g]

Stalled(g) ==
    /\ Len(recent) = StallThreshold
    /\ \A k \in DOMAIN recent : Seen(recent[k], g) = Completion(g)

StartCycle ==
    /\ pc = "idle"
    /\ active' = Selected
    /\ todo' = {g \in Selected : Stalled(g)}
    /\ pc' = "escalate"
    /\ UNCHANGED <<status, changes, snaps, recent, esc, since>>

-----------------------------------------------------------------------------
(* The ladder.                                                             *)

\* Mutant: one snapshot less.
CooledDownEarly(e) == e.last < 0 \/ snaps - e.last >= Cooldown - 1

CooledDown(e) == e.last < 0 \/ snaps - e.last >= Cooldown

\* Mutant: redecomposition before diagnosis.
RungSwapped(e) ==
    IF e.redecompositions < MaxRedecompositions THEN Redecomposition
    ELSE IF e.diagnoses < MaxDiagnoses THEN Diagnosis
    ELSE IF e.level < Reprioritization THEN Reprioritization
    ELSE Shelving

Rung(e) ==
    IF e.diagnoses < MaxDiagnoses THEN Diagnosis
    ELSE IF e.redecompositions < MaxRedecompositions THEN Redecomposition
    ELSE IF e.level < Reprioritization THEN Reprioritization
    ELSE Shelving

\* The attempt is counted before anything else is done.
Counted(e) ==
    LET rung == Rung(e)
    IN  [e EXCEPT !.level = rung,
                  !.diagnoses = @ + (IF rung = Diagnosis THEN 1 ELSE 0),
                  !.redecompositions = @ + (IF rung = Redecomposition THEN 1 ELSE 0)]

Overlay(f, u) ==
    [s \in DOMAIN f \cup DOMAIN u |-> IF s \in DOMAIN u THEN u[s] ELSE f[s]]

\* What each rung may ask to change.  A diagnosis may name any sub-goal of an
\* active goal, finished ones included.
Diagnosed ==
    UNION {[S -> {"open", "blocked"}] : S \in SUBSET {s \in SubGoals : Goal[s] \in active}}

Redecomposed(g) == [s \in {r \in SubGoalsOf(g) : status[r] = "blocked"} |-> "open"]
Shelved(g) == [s \in {r \in SubGoalsOf(g) : status[r] # "done"} |-> "blocked"]

Changes(g, rung) ==
    IF rung = Diagnosis THEN Diagnosed
    ELSE {CASE rung = Redecomposition -> Redecomposed(g)
            [] rung = Reprioritization -> NoChange
            [] rung = Shelving -> Shelved(g)}

AtTurn(g) == pc = "escalate" /\ g \in todo /\ \A h \in todo : g <= h

Evaluate(g) ==
    /\ AtTurn(g)
    /\ CooledDown(esc[g])
    /\ \E u \in Changes(g, Rung(esc[g])) : changes' = Overlay(changes, u)
    /\ esc' = [esc EXCEPT ![g] = [Counted(@) EXCEPT !.last = snaps]]
    /\ since' = [since EXCEPT ![g] = 0]
    /\ todo' = todo \ {g}
    /\ UNCHANGED <<status, active, pc, snaps, recent>>

\* Too early, or the diagnosis call has failed (shelving needs none).
Defer(g) ==
    /\ AtTurn(g)
    /\ ~CooledDown(esc[g]) \/ Rung(esc[g]) # Shelving
    /\ todo' = todo \ {g}
    /\ UNCHANGED <<status, active, pc, changes, snaps, recent, esc, since>>

\* The diagnosis is not of the expected shape: the evaluation raises, before or
\* after the attempt was counted, and the whole stage is abandoned.
Abandon(g) ==
    /\ AtTurn(g)
    /\ CooledDown(esc[g])
    /\ Rung(esc[g]) # Shelving
    /\ esc' \in {esc, [esc EXCEPT ![g] = Counted(@)]}
    /\ todo' = {}
    /\ changes' = NoChange
    /\ pc' = "review"
    /\ UNCHANGED <<status, active, snaps, recent, since>>

ApplyChanges ==
    /\ pc = "escalate"
    /\ todo = {}
    /\ status' = Overlay(status, changes)
    /\ changes' = NoChange
    /\ pc' = "review"
    /\ UNCHANGED <<active, todo, snaps, recent, esc, since>>

-----------------------------------------------------------------------------
(* The review.  Pruning comes first: the ids of goals that are not active  *)
(* are taken for orphans, and sub-goals blocked for a week are forgotten;  *)
(* what has no entry counts as not-started again.                          *)

\* What the two prunings may leave of the statuses.
Prunings ==
    {[s \in SubGoals |-> IF Goal[s] \notin active \/ s \in stale THEN "open" ELSE status[s]] :
        stale \in SUBSET {s \in SubGoals : status[s] = "blocked"}}

\* The metrics are taken after the pruning and before the planner's verdicts.
Snapshot(st) ==
    [g \in Goals |->
        IF g \in active THEN Cardinality({s \in SubGoalsOf(g) : st[s] = "done"}) ELSE Absent]

AllVerdicts ==
    UNION {[S -> Verdicts] : S \in SUBSET {s \in SubGoals : Goal[s] \in active}}

Review ==
    /\ pc = "review"
    /\ active # {}
    /\ \E st \in Prunings, v \in AllVerdicts :
         /\ status' = Overlay(st, v)
         /\ recent' = LET longer == Append(recent, Snapshot(st))
                      IN  IF Len(longer) > StallThreshold THEN Tail(longer) ELSE longer
    /\ snaps' = IF snaps < MaxSnapshots THEN snaps + 1 ELSE snaps
    /\ since' = [g \in Goals |-> IF since[g] < Cooldown THEN since[g] + 1 ELSE since[g]]
    /\ pc' = "work"
    /\ UNCHANGED <<active, todo, changes, esc>>

\* No goal is active or the planner call fails: nothing but the pruning.
ReviewFails ==
    /\ pc = "review"
    /\ status' \in Prunings
    /\ pc' = "work"
    /\ UNCHANGED <<active, todo, changes, snaps, recent, esc, since>>

NoReviewDue ==
    /\ pc = "review"
    /\ pc' = "work"
    /\ UNCHANGED <<status, active, todo, changes, snaps, recent, esc, since>>

\* The rest of the cycle: a step plan may complete or block its sub-goal.
Work ==
    /\ pc = "work"
    /\ \/ UNCHANGED status
       \/ \E s \in SubGoals, v \in {"done", "blocked"} : status' = [status EXCEPT ![s] = v]
    /\ active' = {}
    /\ pc' = "idle"
    /\ UNCHANGED <<todo, changes, snaps, recent, esc, since>>

Next ==
    \/ StartCycle
    \/ \E g \in Goals : Evaluate(g) \/ Defer(g) \/ Abandon(g)
    \/ ApplyChanges
    \/ Review
    \/ ReviewFails
    \/ NoReviewDue
    \/ Work

Spec == Init /\ [][Next]_vars

(***************************************************************************)
(* Cycles follow one another.  The model may fail to answer, but not       *)
(* forever: reviews that are due succeed again and again, and so does the  *)
(* diagnosis of a goal that is due for one.                                *)
(***************************************************************************)
FairSpec ==
    /\ Spec
    /\ WF_vars(StartCycle)
    /\ WF_vars(ApplyChanges)
    /\ WF_vars(Work)
    /\ WF_vars(\E g \in Goals : Evaluate(g) \/ Defer(g) \/ Abandon(g))
    /\ WF_vars(Review \/ ReviewFails \/ NoReviewDue)
    /\ SF_vars(Review)
    /\ \A g \in Goals : SF_vars(Evaluate(g))

-----------------------------------------------------------------------------
(* Properties.                                                             *)

\* Type correctness; goals await evaluation only in the escalation stage, and
\* the clock of an entry is a count of snapshots.
TypeOK ==
    /\ status \in [SubGoals -> Statuses]
    /\ active \subseteq Goals
    /\ pc \in {"idle", "escalate", "review", "work"}
    /\ todo \subseteq Goals
    /\ todo # {} => pc = "escalate"
    /\ \E S \in SUBSET SubGoals : changes \in [S -> {"open", "blocked"}]
    /\ snaps \in 0..MaxSnapshots
    /\ recent \in Seq([Goals -> Nat \cup {Absent}])
    /\ Len(recent) <= StallThreshold
    /\ esc \in [Goals -> [level : Diagnosis..Shelving, diagnoses : 0..MaxDiagnoses,
                          redecompositions : 0..MaxRedecompositions, last : -1..MaxSnapshots]]
    /\ since \in [Goals -> 0..Cooldown]

(***************************************************************************)
(* The budget of the ladder is spent rung by rung, however cycles fail:    *)
(* a goal is redecomposed only after all its diagnoses, reprioritized or   *)
(* shelved only after its redecompositions.                                *)
(***************************************************************************)
LadderInOrder ==
    \A g \in Goals :
        /\ esc[g].redecompositions > 0 => esc[g].diagnoses = MaxDiagnoses
        /\ esc[g].level >= Reprioritization => esc[g].redecompositions = MaxRedecompositions

(***************************************************************************)
(* No review can make a goal climb the ladder twice in a row: between two  *)
(* escalations of a goal at least Cooldown snapshots have been recorded,   *)
(* even when the list of snapshots is full.                                *)
(***************************************************************************)
CooldownKept == [][\A g \in Goals : Evaluate(g) => since[g] = Cooldown]_vars

\* The completion of g stays what it is while g goes on being selected.
Stuck(g) ==
    /\ []<>(g \in active)
    /\ \E c \in 0..NSubGoals : <>[](Completion(g) = c)

(***************************************************************************)
(* A goal that goes on being selected without a sub-goal being finished is *)
(* diagnosed, although snapshots may have been taken while it was not      *)
(* active.                                                                 *)
(***************************************************************************)
StallNoticed == \A g \in Goals : Stuck(g) => <>(esc[g].diagnoses > 0)

=============================================================================
