------------------------------- MODULE Oracle -------------------------------
(***************************************************************************)
(* One run of oracle_run: free models propose tool calls for a turn, the   *)
(* calls that enough of them agree on are executed, and an expensive model *)
(* reviews the work every few turns, when the workers stall, or when they  *)
(* disagree.                                                               *)
(*                                                                         *)
(* The messages are left out: they are only ever appended, calls and       *)
(* results together.                                                       *)
(***************************************************************************)
EXTENDS Integers, FiniteSets

CONSTANTS Workers,         \* worker_models
          Decisions,       \* what a turn of the workers can come to (OracleVote)
          MaxTurns,        \* oracle_config.max_turns
          Interval,        \* checkpoint_interval, adjusted and clamped
          MaxCheckpoints,  \* max_checkpoints
          Cooldown,        \* escalation_cooldown
          Price            \* premium cost of a checkpoint

\* Assumed by the module that composes this one.
OracleAssumption ==
    /\ IsFiniteSet(Workers)
    /\ {MaxTurns, MaxCheckpoints, Cooldown, Price} \subseteq Nat
    /\ Interval \in Nat \ {0}

VARIABLES running, over,   \* whether the run goes on, whether it has ended
          failed,          \* result.error is set
          turn, workTurns, checkpoints, lastCheckpoint,
          stalls,          \* consecutive_stalls
          premium,         \* total_premium
          shown,           \* premium in the progress tracker
          backers,         \* history variable: who decided on the latest calls
          support          \* history variable: the fewest workers behind one
                           \* of their names

vars == <<running, over, failed, turn, workTurns, checkpoints, lastCheckpoint,
          stalls, premium, shown, backers, support>>

Init ==
    /\ running = FALSE /\ over = FALSE /\ failed = FALSE
    /\ turn = 0 /\ workTurns = 0 /\ checkpoints = 0 /\ lastCheckpoint = 0
    /\ stalls = 0 /\ premium = 0 /\ shown = 0
    /\ backers = "none" /\ support = 0
Fresh(goes) ==
    /\ running' = goes /\ over' = FALSE /\ failed' = FALSE
    /\ turn' = 0 /\ workTurns' = 0 /\ checkpoints' = 0 /\ lastCheckpoint' = 0
    /\ stalls' = 0 /\ premium' = 0 /\ shown' = 0
    /\ backers' = "none" /\ support' = 0
Start == Fresh(TRUE)
Leave == Fresh(FALSE)   \* the run and its result are gone

----------------------------------------------------------------------------
(* The turns.                                                              *)

\* is_checkpoint_turn
Due ==
    /\ workTurns > 0 /\ checkpoints < MaxCheckpoints
    /\ workTurns - lastCheckpoint >= (IF stalls >= 2 THEN 1 ELSE Interval)

Stop == running' = FALSE /\ over' = TRUE
NextTurn == turn' = turn + 1 /\ UNCHANGED <<running, over>>

Reviewed ==
    /\ checkpoints' = checkpoints + 1 /\ premium' = premium + Price
    /\ lastCheckpoint' = workTurns

\* The reviewer ends the task, lets the workers go on, or calls tools itself.
Checkpoint ==
    /\ running /\ turn < MaxTurns /\ Due /\ Reviewed
    /\ \/ Stop /\ UNCHANGED <<turn, shown, backers>>
       \/ NextTurn /\ UNCHANGED <<shown, backers>>
       \/ NextTurn /\ shown' = premium' /\ backers' = "checkpoint"
    /\ UNCHANGED <<failed, workTurns, stalls, support>>

\* The workers' turn is over: without calls it is a stall, and enough workers
\* that call the task complete end it; the progress tracker is not updated then.
Stalled(ends) ==
    /\ workTurns' = workTurns + 1 /\ stalls' = stalls + 1
    /\ IF ends THEN Stop /\ UNCHANGED turn ELSE NextTurn
    /\ UNCHANGED <<shown, backers, support>>
\* Mutant: the progress tracker is left as it was.
ActUnshown(by, backing) ==
    /\ workTurns' = workTurns + 1 /\ stalls' = 0 /\ NextTurn
    /\ backers' = by /\ support' = backing /\ UNCHANGED shown
Act(by, backing) ==
    /\ workTurns' = workTurns + 1 /\ stalls' = 0 /\ NextTurn
    /\ shown' = premium' /\ backers' = by /\ support' = backing

\* Without calls and with too little agreement the reviewer decides.
Escalates(d) ==
    /\ ~d.acts /\ d.disagree /\ checkpoints < MaxCheckpoints
    /\ ~(checkpoints > 0 /\ workTurns - lastCheckpoint < Cooldown)

Work(d) ==
    /\ running /\ turn < MaxTurns /\ ~Due
    /\ IF Escalates(d)
       THEN Reviewed /\ (Stalled(d.ends) \/ Act("checkpoint", 0))
       ELSE /\ UNCHANGED <<checkpoints, premium, lastCheckpoint>>
            /\ IF d.acts THEN Act("workers", d.support) ELSE Stalled(d.ends)
    /\ UNCHANGED failed

\* All workers fail, or the reviewer cannot be reached.
Fail ==
    /\ running /\ turn < MaxTurns
    /\ Stop /\ failed' = TRUE
    /\ UNCHANGED <<turn, workTurns, checkpoints, lastCheckpoint, stalls, premium,
                   shown, backers, support>>

OutOfTurns ==
    /\ running /\ turn = MaxTurns /\ Stop
    /\ UNCHANGED <<failed, turn, workTurns, checkpoints, lastCheckpoint, stalls, premium,
                   shown, backers, support>>

Step == Checkpoint \/ Fail \/ OutOfTurns \/ \E d \in Decisions : Work(d)

\* The watcher's timeout, between two turns or within one, when the tools the
\* reviewer called are being executed.
Cancel ==
    /\ running /\ running' = FALSE
    /\ \/ UNCHANGED <<checkpoints, premium, lastCheckpoint>>
       \/ turn < MaxTurns /\ Reviewed
          /\ IF Due THEN TRUE ELSE \E d \in Decisions : Escalates(d)
    /\ UNCHANGED <<over, failed, turn, workTurns, stalls, shown, backers, support>>

----------------------------------------------------------------------------
(* Properties.                                                             *)

\* How many reviews the tracker can lack: one for each stalled turn in a row and
\* one for the turn that goes on, and without a cooldown two, a scheduled review
\* and an escalation.
Lost == IF Cooldown = 0 THEN 2 * stalls + 2 ELSE stalls + 1

TypeOK ==
    /\ {running, over, failed} \subseteq BOOLEAN
    /\ turn \in 0..MaxTurns /\ workTurns \in 0..MaxTurns
    /\ lastCheckpoint \in 0..workTurns /\ stalls \in 0..workTurns
    /\ checkpoints \in Nat /\ premium = checkpoints * Price /\ shown \in 0..premium
    /\ backers \in {"none", "workers", "checkpoint"} /\ support \in 0..Cardinality(Workers)

\* No free model acts on its own: every executed call has a name that two
\* workers of that turn agree on and arguments one of them gave, unless the
\* reviewer decided (_majority_vote with its soft fallback).
Backed == backers = "workers" => support >= 2

\* The reviewer is paid for at most MaxCheckpoints times, through scheduled
\* reviews, stalls and disagreements together.
ReviewsBounded == checkpoints <= MaxCheckpoints
=============================================================================
