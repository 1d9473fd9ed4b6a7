----------------------------- MODULE Graduation -----------------------------
(***************************************************************************)
(* Auto-graduation (goal_scheduler.py and the goal part of                 *)
(* watcher._run_cycle): in every cycle the level of each goal, which sets  *)
(* whether its tasks need approval and the tools they run with, is judged  *)
(* anew by its trust score.                                                *)
(*                                                                         *)
(* What a cycle adds to the logs is free: the evidence about a goal is any *)
(* member of Evidence.  Cycle numbers are kept as ages.  A cycle that      *)
(* crashes before the state is saved never was.                            *)
(***************************************************************************)
EXTENDS Trust, SequencesExt, FiniteSets

CONSTANTS Goals,         \* in the order of goals.yaml: a sequence
          Evidence,      \* bodies of evidence the logs can hold
          BandOf,        \* the level that each of them suggests
          DefaultLevel,  \* get_current_level_from_config
          Cooldown,      \* GRADUATION_COOLDOWN_CYCLES
          MaxHistory     \* MAX_GRADUATION_HISTORY

GoalSet == Range(Goals)
None == -1
MinStable == 2           \* MIN_STABLE_SNAPSHOTS

\* Assumed by the module that composes this one.
GraduationAssumption ==
    /\ DefaultLevel \in Levels /\ {Cooldown, MaxHistory} \subseteq Nat \ {0}
    /\ Evidence \subseteq Evidences

VARIABLES evidence,   \* what the logs hold about each goal
          level,      \* graduation_overrides, None without one
          events,     \* graduation_history: goal, age in cycles
          snapshots,  \* the newest trust_snapshots, as levels
          idle        \* history variable: cycles since the level changed, capped

vars == <<evidence, level, events, snapshots, idle>>

Init ==
    /\ evidence \in [GoalSet -> {e \in Evidence : Samples(e) = 0}]
    /\ level = [g \in GoalSet |-> None] /\ events = <<>> /\ snapshots = <<>>
    /\ idle = [g \in GoalSet |-> Cooldown]

LevelOf(lv, g) == IF lv[g] = None THEN DefaultLevel ELSE lv[g]

----------------------------------------------------------------------------
(* Judging the levels.  The state that the goals of one cycle are judged   *)
(* in, one after the other, is a record of levels and events.              *)

Newest(s, n) == IF Len(s) > n THEN SubSeq(s, Len(s) - n + 1, Len(s)) ELSE s

\* Mutant: a full history takes no more events.
TrimOldest(s) == IF Len(s) > MaxHistory THEN SubSeq(s, 1, MaxHistory) ELSE s
Trim(s) == Newest(s, MaxHistory)

\* apply_auto_graduation
Apply(st, g, l) ==
    [levels |-> [st.levels EXCEPT ![g] = l],
     log |-> Trim(Append(st.log, [goal |-> g, age |-> 0]))]

IsLatest(log, i) == \A j \in i + 1..Len(log) : log[j].goal # log[i].goal
CoolingDown(st, g) ==
    \E i \in DOMAIN st.log :
        st.log[i].goal = g /\ IsLatest(st.log, i) /\ st.log[i].age < Cooldown

Stable(snaps, g, l) ==
    \A i \in Len(snaps) - MinStable + 1..Len(snaps) : snaps[i][g] >= l

\* check_graduation_eligibility, of one step up or any number down.
Eligible(st, snaps, g, target) ==
    /\ Len(snaps) >= MinStable
    /\ target > LevelOf(st.levels, g) => ~CoolingDown(st, g) /\ Stable(snaps, g, target)

Target(now, band) == IF band > now THEN now + 1 ELSE band

\* Mutant: a goal without an override is never taken down.
JudgeOverrides(st, snaps, ev, g) ==
    LET now == LevelOf(st.levels, g) band == BandOf[ev[g]] IN
    IF Samples(ev[g]) < MinSamples THEN st
    ELSE IF st.levels[g] > 0 /\ band < now THEN Apply(st, g, now - 1)
    ELSE IF band > now /\ Eligible(st, snaps, g, now + 1) THEN Apply(st, g, now + 1)
    ELSE st
\* A goal with too few samples is left alone.  A graduated goal whose trust has
\* dropped goes one step down at once (check_goal_graduation_rollback).
Judge(st, snaps, ev, g) ==
    LET now == LevelOf(st.levels, g) band == BandOf[ev[g]] IN
    IF Samples(ev[g]) < MinSamples THEN st
    ELSE IF st.levels[g] > 0 /\ band < now THEN Apply(st, g, now - 1)
    ELSE IF band # now /\ Eligible(st, snaps, g, Target(now, band))
         THEN Apply(st, g, Target(now, band))
    ELSE st

Older(n) == IF n < Cooldown THEN n + 1 ELSE n

\* The state after the first goals have been judged.
JudgedUpTo(st, snaps, ev) ==
    LET upTo[i \in 0..Len(Goals)] ==
            IF i = 0 THEN st ELSE Judge(upTo[i - 1], snaps, ev, Goals[i])
    IN  upTo

JudgeAll ==
    /\ evidence' \in [GoalSet -> Evidence]
    /\ snapshots' = Newest(Append(snapshots, [g \in GoalSet |-> BandOf[evidence'[g]]]), MinStable)
    /\ LET aged == [i \in DOMAIN events |-> [events[i] EXCEPT !.age = Older(@)]]
           end == JudgedUpTo([levels |-> level, log |-> aged], snapshots', evidence')[Len(Goals)] IN
       /\ level' = end.levels /\ events' = end.log
    /\ idle' = [g \in GoalSet |-> IF level'[g] # level[g] THEN 0 ELSE Older(idle[g])]

----------------------------------------------------------------------------
(* What the properties of the composed module are made of.                 *)

TypeOK ==
    /\ evidence \in [GoalSet -> Evidence] /\ level \in [GoalSet -> Levels \cup {None}]
    /\ events \in Seq([goal : GoalSet, age : 0..Cooldown]) /\ Len(events) <= MaxHistory
    /\ snapshots \in Seq([GoalSet -> Levels]) /\ Len(snapshots) <= MinStable

Rises(g) == level'[g] > LevelOf(level, g)
FullRise(g) == Rises(g) /\ level'[g] = 3
Spaced == \A g \in GoalSet : Rises(g) => idle[g] >= Cooldown - 1
SettledOn(g, l) == Samples(evidence[g]) >= MinSamples /\ BandOf[evidence[g]] = l
============================================================================
