------------------------------ MODULE Learning ------------------------------
(***************************************************************************)
(* What the watcher learns from its tasks over the cycles (watcher.run):   *)
(* the levels of the goals, the strategies and the memory, with the        *)
(* consolidation of the last two every few cycles.  The three share no     *)
(* state, so each behaviour follows one of them.                           *)
(***************************************************************************)
EXTENDS Trust, Sequences

CONSTANTS Goals, Evidence, DefaultLevel, Cooldown, MaxHistory,
          Categories, Texts, PerCategory, MaxTotal, Injected,
          Kinds, NoKind, ShortMax, LongMax, MinCount,
          Every,       \* _consolidate_every
          Restarts     \* bound: restarts of the watcher

VARIABLES part,        \* what this behaviour follows
          due,         \* cycles to the next consolidation
          restarts,
          evidence, level, events, snapshots, idle,
          strategies, recent, boosted,
          short, long, saved

levelVars    == <<evidence, level, events, snapshots, idle>>
strategyVars == <<strategies, recent, boosted>>
memoryVars   == <<short, long, saved>>
vars         == <<part, due, restarts, levelVars, strategyVars, memoryVars>>

\* A table of the suggested levels, for TLC to compute once.
Bands == [e \in Evidence |-> Band(e)]

GoalLevels == INSTANCE Graduation WITH BandOf <- Bands
Strategies == INSTANCE StrategyLibrary
Memory     == INSTANCE MemoryStore

ASSUME LearningAssumption ==
    /\ Every \in Nat \ {0} /\ Restarts \in Nat
    /\ GoalLevels!GraduationAssumption /\ Strategies!LibraryAssumption
    /\ Memory!MemoryAssumption

Init ==
    /\ part \in {"levels", "strategies", "memory"} /\ due = Every /\ restarts = 0
    /\ (IF part = "levels" THEN GoalLevels!Init
        ELSE /\ evidence = <<>> /\ level = <<>> /\ events = <<>> /\ snapshots = <<>> /\ idle = <<>>)
    /\ Strategies!Init /\ Memory!Init

JudgeLevels ==
    /\ part = "levels" /\ GoalLevels!JudgeAll
    /\ UNCHANGED <<part, due, restarts, strategyVars, memoryVars>>

\* A task ends.  The agent matches the prompt with keywords of its own, so that
\* its category may be another, or none of those of the library.
TaskEnds ==
    /\ \/ /\ part = "strategies" /\ UNCHANGED memoryVars
          /\ \E c \in Categories, asked \in Categories \cup {NoKind}, passed \in BOOLEAN :
                 Strategies!TaskEnds(c, asked, passed)
       \/ /\ part = "memory" /\ UNCHANGED strategyVars
          /\ \E k \in Kinds, failed \in BOOLEAN : Memory!NoteTask(k, failed)
    /\ UNCHANGED <<part, due, restarts, levelVars>>

\* The housekeeping after a cycle consolidates now and then, and saves the memory.
EndCycle ==
    /\ part # "levels"
    /\ due' = (IF due = 1 THEN Every ELSE due - 1)
    /\ IF due > 1 THEN UNCHANGED <<strategyVars, short, long>>
       ELSE IF part = "strategies" THEN Strategies!Consolidate /\ UNCHANGED <<short, long>>
       ELSE UNCHANGED strategyVars /\ Memory!Consolidate
    /\ Memory!Save /\ UNCHANGED <<part, restarts, levelVars>>

TimePasses ==
    /\ part = "memory" /\ Memory!Age
    /\ UNCHANGED <<part, due, restarts, levelVars, strategyVars>>
ClearMemory ==
    /\ part = "memory" /\ Memory!Clear
    /\ UNCHANGED <<part, due, restarts, levelVars, strategyVars>>

\* A new process counts the cycles anew.
Restart ==
    /\ part # "levels" /\ restarts < Restarts
    /\ restarts' = restarts + 1 /\ due' = Every
    /\ Strategies!Load /\ Memory!Load /\ UNCHANGED <<part, levelVars>>

Next == JudgeLevels \/ TaskEnds \/ EndCycle \/ TimePasses \/ ClearMemory \/ Restart

\* The watcher goes on from cycle to cycle.
Spec == Init /\ [][Next]_vars /\ WF_vars(JudgeLevels) /\ WF_vars(EndCycle)

-----------------------------------------------------------------------------
(* Properties.                                                             *)

\* "Cooldown: GRADUATION_COOLDOWN_CYCLES between upgrades": a goal is promoted
\* only a full cooldown after its level last changed, whatever the other goals
\* put into the history they share (goal_scheduler.py:650-700).
CooldownKept ==
    [][part = "levels" => GoalLevels!Spaced]_vars

\* Full autonomy is never granted to a goal of which nothing went well, though
\* signals without data count as three quarters and steps not yet run as samples
\* (goal_scheduler.py:198-360).
AutonomyEarned ==
    [][part = "levels" =>
          \A g \in GoalLevels!GoalSet :
              GoalLevels!FullRise(g) => Successes(evidence'[g]) > 0]_vars

\* A goal whose trust settles on a level, with enough samples, gets that level
\* (goal_scheduler.py:785-860).
LevelFollowsTrust ==
    \A g \in GoalLevels!GoalSet, l \in Levels :
        <>[](part = "levels" /\ GoalLevels!SettledOn(g, l)) =>
            <>[](part = "levels" /\ GoalLevels!LevelOf(level, g) = l)

\* A strategy that nothing speaks for any more is forgotten, however full or
\* empty the library is and whatever it was worth (strategy_library.py:146-215).
Forgotten ==
    \A k \in Categories \X Texts :
        []<>(k \notin Strategies!Keys(strategies) \/ k \in boosted)

\* A kind of task that keeps recurring is remembered again and again, although
\* its pattern decays, and is then not renewed by the task that recurs
\* (memory.py:104-165).
Recalled ==
    \A k \in Kinds :
        <>[](Len(SelectSeq(short, LAMBDA e : e = k)) >= MinCount) => []<>Memory!Remembered(k)
=============================================================================
