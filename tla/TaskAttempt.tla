---------------------------- MODULE TaskAttempt ----------------------------
(***************************************************************************)
(* The attempts the watcher makes at one task (watcher.py, the attempt     *)
(* loop of _run_cycle): each is a run of the agent (AgentLoop) or, for the *)
(* tier "oracle", of the ensemble (Oracle), under a timeout, with a log    *)
(* entry for what it used.  A retry may be routed to a stronger model,     *)
(* which changes nothing else here.  When the task is a step of a plan,    *)
(* its outcome is verified and recorded (StepCompletion).                  *)
(***************************************************************************)
EXTENDS Integers, Sequences, OracleVote

CONSTANTS MaxAttempts,   \* 1 + max_retries
          TaskCost,      \* the estimate of one premium request
          TierTurns, Budget, Multiplier, MaxCalls, KeepPairs, SummaryAfter,
          Recent, Dense, Few, MaxBatch,
          OracleTurns, Interval, MaxCheckpoints, Cooldown, Price,
          Effects, Goals, TheGoal, Judged, MaxOpen, MaxHarness, InARow

VARIABLES pc, path, turn, tries, history, reply, calls, errors, empties, premium, outcome,
          running, over, failed, oTurn, workTurns, checkpoints, lastCheckpoint,
          stalls, oPremium, shown, backers, support,
          stage, sPassed, checks, verified, opinion, completed, open, waiting, goal, sAttempt,
          inARow, lastGood, kept, marked, proof,
          engine,    \* "agent" or "oracle"
          phase,     \* "before", "running", "result", "step" or "end"
          attempt,   \* attempts begun
          passed,    \* task_passed
          quota,     \* _quota_exhausted
          stop,      \* _stop
          logged,    \* premium of this task in the run log
          used,      \* history variable: premium the runs took
          doubtful   \* history variable: reviews that timeouts may have hidden

agentVars == <<pc, path, turn, tries, history, reply, calls, errors, empties, premium, outcome>>
oracleVars == <<running, over, failed, oTurn, workTurns, checkpoints, lastCheckpoint,
                stalls, oPremium, shown, backers, support>>
stepVars == <<stage, sPassed, checks, verified, opinion, completed, open, waiting, goal, sAttempt,
              inARow, lastGood, kept, marked, proof>>
own == <<phase, attempt, passed, quota, stop, logged, used, doubtful>>
vars == <<agentVars, oracleVars, stepVars, engine, own>>

A == INSTANCE AgentLoop
O == INSTANCE Oracle WITH turn <- oTurn, premium <- oPremium, MaxTurns <- OracleTurns
S == INSTANCE StepCompletion WITH passed <- sPassed, attempt <- sAttempt

ASSUME AttemptAssumption ==
    /\ {MaxAttempts, TaskCost} \subseteq Nat \ {0}
    /\ A!AgentAssumption /\ O!OracleAssumption /\ S!CompletionAssumption

Init ==
    /\ A!Init /\ O!Init /\ S!Init
    /\ engine \in {"agent", "oracle"} /\ phase = "before" /\ attempt = 0
    /\ passed = FALSE /\ quota = FALSE /\ stop = FALSE
    /\ logged = 0 /\ used = 0 /\ doubtful = 0

\* Another attempt begins, unless a stop was asked for.
Begin ==
    /\ phase = "before" /\ attempt < MaxAttempts /\ ~stop
    /\ phase' = "running" /\ attempt' = attempt + 1
    /\ \/ engine = "agent" /\ (\E p \in A!Paths : A!Start(p)) /\ UNCHANGED oracleVars
       \/ engine = "oracle" /\ O!Start /\ UNCHANGED agentVars
    /\ UNCHANGED <<stepVars, engine, passed, quota, stop, logged, used, doubtful>>

\* The attempts are over and the outcome of the task is recorded.
GiveUp ==
    /\ phase = "before" /\ (attempt = MaxAttempts \/ stop)
    /\ phase' = "result"
    /\ UNCHANGED <<agentVars, oracleVars, stepVars, engine, attempt, passed, quota, stop, logged, used, doubtful>>

Run ==
    /\ phase = "running"
    /\ \/ engine = "agent" /\ A!Step /\ UNCHANGED oracleVars
       \/ engine = "oracle" /\ O!Step /\ UNCHANGED agentVars
    /\ UNCHANGED <<stepVars, engine, own>>

Used == IF engine = "agent" THEN premium ELSE oPremium
Shown == IF engine = "agent" THEN premium ELSE shown
RunFailed == IF engine = "agent" THEN outcome \in A!Errors ELSE failed

\* The run returns: what it used is logged, or the estimate when it says
\* nothing; an error leads to the next attempt.
Returned ==
    /\ phase = "running"
    /\ IF engine = "agent" THEN pc = "done" ELSE over
    /\ logged' = logged + (IF Used > 0 THEN Used ELSE TaskCost) /\ used' = used + Used
    /\ passed' = ~RunFailed /\ phase' = IF RunFailed THEN "before" ELSE "result"
    /\ UNCHANGED <<agentVars, oracleVars, stepVars, engine, attempt, quota, stop, doubtful>>

\* The timeout cancels the run; what the progress tracker shows is logged.
TimedOut ==
    /\ phase = "running"
    /\ \/ engine = "agent" /\ A!Cancel /\ UNCHANGED <<oracleVars, doubtful>>
       \/ engine = "oracle" /\ O!Cancel /\ UNCHANGED agentVars
          /\ doubtful' = doubtful + O!Lost
    /\ UNCHANGED <<stepVars, engine, attempt, passed, quota, stop>>
    /\ logged' = logged + Shown /\ used' = used + Used'
    /\ phase' = "before"

\* Something raises before the turns begin, where nothing is caught: only such
\* an exception is searched for the words of a used-up quota.
Raised ==
    /\ phase = "running"
    /\ IF engine = "agent" THEN pc = "turn" /\ turn = 0 ELSE running /\ oTurn = 0
    /\ \/ phase' = "before" /\ UNCHANGED quota
       \/ phase' = "result" /\ quota' = TRUE
    /\ UNCHANGED <<agentVars, oracleVars, stepVars, engine, attempt, passed, stop, logged, used, doubtful>>

\* The outcome is known: the locals of the attempts are gone, and the outcome of
\* a step is verified and recorded.
Settle ==
    /\ phase = "result"
    /\ A!Leave /\ O!Leave /\ attempt' = 0
    /\ logged' = 0 /\ used' = 0 /\ doubtful' = 0
    /\ \/ phase' = "end" /\ UNCHANGED stepVars
       \/ phase' = "step" /\ S!Start(passed)
    /\ engine' = "agent" /\ passed' = FALSE
    /\ UNCHANGED <<quota, stop>>

RecordStep ==
    /\ phase = "step"
    /\ \/ S!Step /\ UNCHANGED phase
       \/ stage = "over" /\ phase' = "end" /\ UNCHANGED stepVars
    /\ UNCHANGED <<agentVars, oracleVars, engine, attempt, passed, quota, stop, logged, used, doubtful>>

AskStop ==
    /\ ~stop /\ phase \in {"before", "running"} /\ stop' = TRUE
    /\ UNCHANGED <<agentVars, oracleVars, stepVars, engine, phase, attempt, passed, quota, logged, used, doubtful>>

Attempts == Begin \/ GiveUp \/ Run \/ Returned \/ TimedOut \/ Raised \/ Settle \/ RecordStep
Next == Attempts \/ AskStop
Spec == Init /\ [][Next]_vars /\ WF_vars(Attempts)

----------------------------------------------------------------------------
(* Properties.                                                             *)

TypeOK ==
    /\ A!TypeOK /\ O!TypeOK /\ S!TypeOK
    /\ engine \in {"agent", "oracle"} /\ phase \in {"before", "running", "result", "step", "end"}
    /\ attempt \in 0..MaxAttempts /\ {passed, quota, stop} \subseteq BOOLEAN
    /\ {logged, used, doubtful} \subseteq Nat

\* The first call of a turn is never refused for its history.
FirstCallValid == A!FirstCallValid
\* Neither the agent nor the ensemble spends more than its limits.
BudgetsKept == A!BudgetsKept /\ O!ReviewsBounded
\* No free model acts on its own.
Backed == O!Backed
\* A step is completed, and a goal marked, only when it was seen to work.
CompletionProven == S!CompletionProven

\* The run log (which the cost monitor and the learned router read) lacks nothing
\* an agent took, over retries, timeouts and errors, and of the ensemble's reviews
\* no more than stalled turns before a timeout account for: the tracker is brought
\* up to date with every turn that executes tools, and only with those.
LogComplete == used <= logged + doubtful * Price

\* Every task comes to an end, whatever the models answer.
Ends == <>(phase = "end")

============================================================================
