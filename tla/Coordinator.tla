---------------------------- MODULE Coordinator ----------------------------
(***************************************************************************)
(* Several watcher instances share a directory (coordinator.py): a claim   *)
(* file per task, created exclusively and then filled in, and a result     *)
(* file per task.  Each instance goes through its own cycles, as           *)
(* Watcher._run_cycle dispatches them: remove stale claims, take the tasks *)
(* of its role in order of priority, claim, run and publish each, and at   *)
(* the end of the cycle delete every claim and every result.               *)
(*                                                                         *)
(* Files are removed by name, one at a time, after they were listed or     *)
(* read: the file removed may be another one than the file seen.           *)
(***************************************************************************)
EXTENDS Integers, FiniteSets

CONSTANTS
    Instances,
    NTasks,       \* the tasks are 1..NTasks, by priority
    DependsOn,    \* the prerequisite of each task, or NoTask
    TaskRoles,    \* the roles a task is meant for; none: any instance
    Role,         \* the role of each instance, or Generalist
    Generalist,
    LongRuns      \* whether a task may run for longer than a claim may be old

Tasks == 1..NTasks
NoTask == 0

ASSUME LongRunsAssumption == LongRuns \in BOOLEAN
ASSUME DependsOnAssumption == DependsOn \in [Tasks -> Tasks \cup {NoTask}]

Outcomes == {"none", "pass", "fail"}
NoClaim == [file |-> FALSE]
Claims == [file : {TRUE}, by : Instances, written : BOOLEAN]

VARIABLES
    claim,     \* the claim file of each task
    result,    \* the published result of each task
    pc,        \* where each instance is
    todo,      \* the tasks its cycle has not come to
    task,      \* the task it is at
    outcome,   \* its task_outcomes in this cycle
    doomed,    \* the claim files it is about to unlink
    valid,     \* the claim file it created for its task still has its name
    passed     \* history: tasks that have passed in some instance

files == <<claim, result>>
local == <<pc, todo, task, outcome, doomed>>
vars == <<files, local, valid, passed>>

Unknown == [t \in Tasks |-> "none"]

Init ==
    /\ claim = [t \in Tasks |-> NoClaim]
    /\ result = Unknown
    /\ pc = [i \in Instances |-> "off"]
    /\ todo = [i \in Instances |-> {}]
    /\ task = [i \in Instances |-> NoTask]
    /\ outcome = [i \in Instances |-> Unknown]
    /\ doomed = [i \in Instances |-> {}]
    /\ valid = [i \in Instances |-> FALSE]
    /\ passed = {}

Goto(i, l) == pc' = [pc EXCEPT ![i] = l]

\* The instance has created the claim file of its task and is not done with it.
Holding(i) == pc[i] \in {"write", "run"}

Readable == {t \in Tasks : claim[t].file /\ claim[t].written}
Existing == {t \in Tasks : claim[t].file}

-----------------------------------------------------------------------------
(* Start of a cycle: stale claims, then the tasks of the role.             *)

Start(i) ==
    /\ pc[i] = "off"
    /\ Goto(i, "idle")
    /\ UNCHANGED <<files, todo, task, outcome, doomed, valid, passed>>

\* Claims that can be read and may be more than an hour old.
MayBeStale(t) == LongRuns \/ ~\E j \in Instances : Holding(j) /\ task[j] = t

StartCycle(i) ==
    /\ pc[i] = "idle"
    /\ \E S \in SUBSET {t \in Readable : MayBeStale(t)} : doomed' = [doomed EXCEPT ![i] = S]
    /\ Goto(i, "cleanup")
    /\ UNCHANGED <<files, todo, task, outcome, valid, passed>>

Unlink(i, t) ==
    /\ t \in doomed[i]
    /\ claim' = [claim EXCEPT ![t] = NoClaim]
    /\ doomed' = [doomed EXCEPT ![i] = @ \ {t}]
    /\ valid' = [j \in Instances |-> valid[j] /\ task[j] # t]
    /\ UNCHANGED <<result, pc, todo, task, outcome, passed>>

\* filter_tasks_for_role: a generalist also takes the tasks none of whose
\* specialists was seen in the last five minutes.
TaskLists(i) ==
    IF Role[i] # Generalist
    THEN {{t \in Tasks : TaskRoles[t] = {} \/ Role[i] \in TaskRoles[t]}}
    ELSE {{t \in Tasks : TaskRoles[t] \cap seen = {}} :
             seen \in SUBSET {Role[j] : j \in Instances \ {i}}}

TakeTasks(i) ==
    /\ pc[i] = "cleanup"
    /\ doomed[i] = {}
    /\ \E S \in TaskLists(i) : todo' = [todo EXCEPT ![i] = S]
    /\ Goto(i, "pick")
    /\ UNCHANGED <<files, task, outcome, doomed, valid, passed>>

-----------------------------------------------------------------------------
(* The dispatch loop.                                                      *)

Pick(i) ==
    /\ pc[i] = "pick"
    /\ \E t \in todo[i] :
         /\ \A u \in todo[i] : t <= u
         /\ task' = [task EXCEPT ![i] = t]
         /\ todo' = [todo EXCEPT ![i] = @ \ {t}]
    /\ Goto(i, "depends")
    /\ UNCHANGED <<files, outcome, doomed, valid, passed>>

\* Mutant: an outcome of another instance comes before one's own.
KnownShared(i, t) == IF result[t] # "none" THEN result[t] ELSE outcome[i][t]

\* What the instance knows of a task: its own outcome, or a published result.
Known(i, t) == IF outcome[i][t] # "none" THEN outcome[i][t] ELSE result[t]

MayRun(i) ==
    DependsOn[task[i]] # NoTask => Known(i, DependsOn[task[i]]) = "pass"

\* Trigger, schedule, duplicate, recent success or premium budget: the task is
\* passed over without an outcome.
PassOver(i) ==
    /\ pc[i] = "depends"
    /\ Goto(i, "pick")
    /\ UNCHANGED <<files, todo, task, outcome, doomed, valid, passed>>

SkipDependent(i) ==
    /\ pc[i] = "depends"
    /\ ~MayRun(i)
    /\ outcome' = [outcome EXCEPT ![i][task[i]] = "fail"]
    /\ Goto(i, "pick")
    /\ UNCHANGED <<files, todo, task, doomed, valid, passed>>

Proceed(i) ==
    /\ pc[i] = "depends"
    /\ MayRun(i)
    /\ Goto(i, "claim")
    /\ UNCHANGED <<files, todo, task, outcome, doomed, valid, passed>>

\* Mutant: the file is opened whether it exists or not.
CreateAnyway(i) ==
    /\ pc[i] = "claim"
    /\ claim' = [claim EXCEPT ![task[i]] = [file |-> TRUE, by |-> i, written |-> FALSE]]
    /\ valid' = [valid EXCEPT ![i] = TRUE]
    /\ Goto(i, "write")
    /\ UNCHANGED <<result, todo, task, outcome, doomed, passed>>

\* try_claim, first half: O_CREAT | O_EXCL.
Create(i) ==
    /\ pc[i] = "claim"
    /\ ~claim[task[i]].file
    /\ claim' = [claim EXCEPT ![task[i]] = [file |-> TRUE, by |-> i, written |-> FALSE]]
    /\ valid' = [valid EXCEPT ![i] = TRUE]
    /\ Goto(i, "write")
    /\ UNCHANGED <<result, todo, task, outcome, doomed, passed>>

LeaveToOwner(i) ==
    /\ pc[i] = "claim"
    /\ claim[task[i]].file
    /\ Goto(i, "pick")
    /\ UNCHANGED <<files, todo, task, outcome, doomed, valid, passed>>

\* try_claim, second half.  When the file was unlinked in between, the claim is
\* written to a file that has no name any more.
WriteClaim(i) ==
    /\ pc[i] = "write"
    /\ claim' = IF valid[i] THEN [claim EXCEPT ![task[i]].written = TRUE] ELSE claim
    /\ Goto(i, "run")
    /\ UNCHANGED <<result, todo, task, outcome, doomed, valid, passed>>

\* The attempts end with a result: it is published.
Finish(i) ==
    /\ pc[i] = "run"
    /\ \E o \in {"pass", "fail"} :
         /\ outcome' = [outcome EXCEPT ![i][task[i]] = o]
         /\ passed' = IF o = "pass" THEN passed \cup {task[i]} ELSE passed
    /\ valid' = [valid EXCEPT ![i] = FALSE]
    /\ Goto(i, "publish")
    /\ UNCHANGED <<files, todo, task, doomed>>

Publish(i) ==
    /\ pc[i] = "publish"
    /\ result' = [result EXCEPT ![task[i]] = outcome[i][task[i]]]
    /\ Goto(i, "pick")
    /\ UNCHANGED <<claim, todo, task, outcome, doomed, valid, passed>>

\* The attempts end with an exception or a timeout: nothing is published, and
\* when the quota is used up no further task is dispatched.
FinishSilently(i) ==
    /\ pc[i] = "run"
    /\ outcome' = [outcome EXCEPT ![i][task[i]] = "fail"]
    /\ valid' = [valid EXCEPT ![i] = FALSE]
    /\ todo' \in {todo, [todo EXCEPT ![i] = {}]}
    /\ Goto(i, "pick")
    /\ UNCHANGED <<files, task, doomed, passed>>

-----------------------------------------------------------------------------
(* End of a cycle.                                                         *)

\* Mutant: only the claims of this instance.
OwnClaims(i) == {t \in Readable : claim[t].by = i}

\* clear_cycle lists whatever claims there are.
AllClaims(i) == Existing

EndCycle(i) ==
    /\ pc[i] = "pick"
    /\ todo[i] = {}
    /\ doomed' = [doomed EXCEPT ![i] = AllClaims(i)]
    /\ task' = [task EXCEPT ![i] = NoTask]
    /\ outcome' = [outcome EXCEPT ![i] = Unknown]
    /\ Goto(i, "clear")
    /\ UNCHANGED <<files, todo, valid, passed>>

\* When the spending budget is exhausted the watcher sleeps and goes on to the
\* next cycle: nothing is cleared.
EndOverBudget(i) ==
    /\ pc[i] = "pick"
    /\ todo[i] = {}
    /\ task' = [task EXCEPT ![i] = NoTask]
    /\ outcome' = [outcome EXCEPT ![i] = Unknown]
    /\ Goto(i, "idle")
    /\ UNCHANGED <<files, todo, doomed, valid, passed>>

ClearResults(i) ==
    /\ pc[i] = "clear"
    /\ doomed[i] = {}
    /\ result' = Unknown
    /\ Goto(i, "idle")
    /\ UNCHANGED <<claim, todo, task, outcome, doomed, valid, passed>>

\* The loop ends: release_all_claims, deregister.
Stop(i) ==
    /\ pc[i] = "idle"
    /\ doomed' = [doomed EXCEPT ![i] = {t \in Readable : claim[t].by = i}]
    /\ Goto(i, "release")
    /\ UNCHANGED <<files, todo, task, outcome, valid, passed>>

Stopped(i) ==
    /\ pc[i] = "release"
    /\ doomed[i] = {}
    /\ Goto(i, "off")
    /\ UNCHANGED <<files, todo, task, outcome, doomed, valid, passed>>

Crash(i) ==
    /\ pc[i] # "off"
    /\ Goto(i, "off")
    /\ todo' = [todo EXCEPT ![i] = {}]
    /\ task' = [task EXCEPT ![i] = NoTask]
    /\ outcome' = [outcome EXCEPT ![i] = Unknown]
    /\ doomed' = [doomed EXCEPT ![i] = {}]
    /\ valid' = [valid EXCEPT ![i] = FALSE]
    /\ UNCHANGED <<files, passed>>

\* What an instance does once it is in a cycle.
Step(i) ==
    \/ StartCycle(i)
    \/ \E t \in Tasks : Unlink(i, t)
    \/ TakeTasks(i)
    \/ Pick(i)
    \/ PassOver(i)
    \/ SkipDependent(i)
    \/ Proceed(i)
    \/ Create(i)
    \/ LeaveToOwner(i)
    \/ WriteClaim(i)
    \/ Finish(i)
    \/ Publish(i)
    \/ FinishSilently(i)
    \/ EndCycle(i)
    \/ ClearResults(i)
    \/ Stopped(i)

Next ==
    \E i \in Instances :
        \/ Start(i)
        \/ Step(i)
        \/ EndOverBudget(i)
        \/ Stop(i)
        \/ Crash(i)

Spec == Init /\ [][Next]_vars

(***************************************************************************)
(* A running instance goes on with its cycles, and from some time on no    *)
(* instance is stopped, crashes or runs out of budget.                     *)
(***************************************************************************)
Fairness ==
    /\ \A i \in Instances : WF_vars(Step(i))
    /\ <>[][\A i \in Instances : ~Crash(i) /\ ~Stop(i) /\ ~EndOverBudget(i)]_vars

FairSpec == Spec /\ Fairness

-----------------------------------------------------------------------------
(* Properties.                                                             *)

\* Type correctness; an instance past picking has a task, and only one that holds
\* its task can have a valid claim.
TypeOK ==
    /\ claim \in [Tasks -> Claims \cup {NoClaim}]
    /\ result \in [Tasks -> Outcomes]
    /\ pc \in [Instances -> {"off", "idle", "cleanup", "pick", "depends", "claim",
                             "write", "run", "publish", "clear", "release"}]
    /\ todo \in [Instances -> SUBSET Tasks]
    /\ task \in [Instances -> Tasks \cup {NoTask}]
    /\ outcome \in [Instances -> [Tasks -> Outcomes]]
    /\ doomed \in [Instances -> SUBSET Tasks]
    /\ valid \in [Instances -> BOOLEAN]
    /\ passed \subseteq Tasks
    /\ \A i \in Instances :
         /\ pc[i] \in {"depends", "claim", "write", "run", "publish"} => task[i] \in Tasks
         /\ valid[i] => Holding(i)

(***************************************************************************)
(* Two instances are at the same task only if the claim of one of them was *)
(* removed under it: by exclusive creation alone a task has one owner.     *)
(***************************************************************************)
OneValidClaim ==
    \A i, j \in Instances :
        i # j /\ Holding(i) /\ Holding(j) /\ task[i] = task[j] => ~(valid[i] /\ valid[j])

(***************************************************************************)
(* A dependent task runs only when its prerequisite has passed somewhere,  *)
(* and never in an instance that has seen it fail or skipped it itself,    *)
(* whatever other instances publish, claim or clear meanwhile.             *)
(***************************************************************************)
DependencyRespected ==
    \A i \in Instances :
        Holding(i) /\ DependsOn[task[i]] # NoTask =>
            /\ DependsOn[task[i]] \in passed
            /\ outcome[i][DependsOn[task[i]]] # "fail"

(***************************************************************************)
(* A claim is a lease that anyone may revoke: with the claims that still   *)
(* have their name for leases, the instances implement TaskLease.          *)
(***************************************************************************)
Leases == [t \in Tasks |-> {i \in Instances : valid[i] /\ task[i] = t}]
Strays == [t \in Tasks |-> {i \in Instances : Holding(i) /\ ~valid[i] /\ task[i] = t}]
Lease == INSTANCE TaskLease WITH owner <- Leases, strays <- Strays
Leased == Lease!Spec

(***************************************************************************)
(* The claim of an instance that has died, even one that was created and   *)
(* never written, does not keep its task from the others forever.          *)
(***************************************************************************)
ClaimsFreed ==
    \A t \in Tasks, i \in Instances :
        claim[t].file /\ claim[t].by = i /\ pc[i] = "off" ~>
            \/ ~claim[t].file
            \/ pc[i] # "off"
            \/ \A j \in Instances : pc[j] = "off"

=============================================================================
