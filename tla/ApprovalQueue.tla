--------------------------- MODULE ApprovalQueue ---------------------------
(***************************************************************************)
(* The queue of goal tasks that await a person's approval                  *)
(* (goal_approval.py), kept in goal_state.json, and its two writers.  The  *)
(* watcher loads the file at the start of a cycle, spends minutes in model *)
(* calls, routes the tasks, saves, and saves the same copy again after     *)
(* every task it runs.  The command line loads, decides and saves.  Each   *)
(* save replaces the whole file, without a lock.                           *)
(*                                                                         *)
(* A save overwrites an entry when the file says something else of it than *)
(* the copy the writer started from.  The safety properties hold of every  *)
(* entry that was never overwritten.                                       *)
(***************************************************************************)
EXTENDS Integers, FiniteSets

CONSTANTS
    NEntries,     \* bound: how many entries are ever submitted
    AutoEntries,  \* those that auto_approve_self_improve accepts
    StaleAge,     \* auto_reject_pending_days; 0: never
    MaxAge,       \* days a decided entry is kept
    MaxEntries    \* hard cap of the queue

\* Entries are numbered in the order of submission.
Entries == 1..NEntries

ASSUME CountsAssumption ==
    NEntries \in Nat /\ StaleAge \in Nat /\ MaxAge \in Nat /\ MaxEntries \in Nat
ASSUME AutoAssumption == AutoEntries \subseteq Entries

Active == {"pending", "approved"}
Decided == {"rejected", "executed", "notified"}
Statuses == Active \cup Decided \cup {"absent"}
Queues == [Entries -> Statuses]
Empty == [e \in Entries |-> "absent"]
Ages == 0..(StaleAge + MaxAge)

VARIABLES
    file,         \* approval_queue in goal_state.json
    age,          \* days since each entry was submitted
    count,        \* entries submitted so far
    pc,           \* where the watcher's cycle is
    mine,         \* the watcher's copy
    todo,         \* queue entries among the tasks of this cycle
    reading,      \* a command has loaded the file
    theirs,       \* and this is its copy
    granted,      \* history: approved by the person, by rule or by notify mode
    refused,      \* history: rejected by the person
    overwritten,  \* history: a save replaced a status its writer had not seen
    ran, twice    \* history: entries whose task ran, and ran again

watcher == <<pc, mine, todo>>
command == <<reading, theirs>>
history == <<granted, refused, overwritten, ran, twice>>
vars == <<file, age, count, watcher, command, history>>

Init ==
    /\ file = Empty /\ mine = Empty /\ theirs = Empty
    /\ age = [e \in Entries |-> 0]
    /\ count = 0
    /\ pc = "idle" /\ todo = {} /\ reading = FALSE
    /\ granted = {} /\ refused = {} /\ overwritten = {} /\ ran = {} /\ twice = {}

\* Entries of which the file says something else than a copy does.
Unseen(copy) == {e \in Entries : file[e] # copy[e]}

-----------------------------------------------------------------------------
(* Operations on a queue.                                                  *)

\* submit_tasks, for r tasks to review and n to execute with notice.
Submitted(q, r, n) ==
    [e \in Entries |-> IF e \in (count + 1)..(count + r) THEN "pending"
                       ELSE IF e \in (count + r + 1)..(count + r + n) THEN "notified"
                       ELSE q[e]]

\* auto_approve_self_improve; rule is the set of entries it accepts.
AutoApproved(q, rule) ==
    [e \in Entries |-> IF q[e] = "pending" /\ e \in rule THEN "approved" ELSE q[e]]

\* Mutant: everything that is not decided counts as approved.
GetUndecided(q) == {e \in Entries : q[e] \in Active}

GetApproved(q) == {e \in Entries : q[e] = "approved"}

\* Mutant: the mark is left to whoever records the result.
MarkNothing(q, S) == [e \in Entries |-> q[e]]

MarkExecuted(q, S) == [e \in Entries |-> IF e \in S THEN "executed" ELSE q[e]]

IsStale(e) == StaleAge > 0 /\ age[e] >= StaleAge

\* Mutant: pending entries are kept whatever their age.
RejectNone(q) == [e \in Entries |-> q[e]]

RejectStale(q) ==
    [e \in Entries |-> IF q[e] = "pending" /\ IsStale(e) THEN "rejected" ELSE q[e]]

DropOld(q) ==
    [e \in Entries |-> IF q[e] \in Decided /\ age[e] >= MaxAge THEN "absent" ELSE q[e]]

\* Above the cap, the oldest decided entries go first; active ones stay.
Overflow(q) == Cardinality({e \in Entries : q[e] # "absent"}) - MaxEntries
OlderDecided(q, e) == {d \in Entries : d < e /\ q[d] \in Decided}
CapEntries(q) ==
    [e \in Entries |->
        IF q[e] \in Decided /\ Cardinality(OlderDecided(q, e)) < Overflow(q)
        THEN "absent" ELSE q[e]]

PruneOldEntries(q) == CapEntries(DropOld(RejectStale(q)))

-----------------------------------------------------------------------------
(* The watcher.                                                            *)

StartCycle ==
    /\ pc = "idle"
    /\ pc' = "route"
    /\ mine' = file
    /\ UNCHANGED <<file, age, count, todo, command, history>>

\* A save of the copy as it is: before routing, after an escalation, a blocked
\* step or the self-improvement analysis; after it, with each recorded result.
Save ==
    /\ pc \in {"route", "dispatch"}
    /\ file' = mine
    /\ overwritten' = overwritten \cup Unseen(mine)
    /\ UNCHANGED <<age, count, watcher, command, granted, refused, ran, twice>>

\* From submit_tasks to the save before dispatch nothing is awaited.  Whether the
\* rule applies is configured, and may differ after a restart.
Route ==
    /\ pc = "route"
    /\ \E r, n \in 0..(NEntries - count), rule \in {{}, AutoEntries} :
         LET shown == Submitted(mine, r, n)
             promoted == AutoApproved(shown, rule)
             approved == GetApproved(promoted)
             notices == (count + r + 1)..(count + r + n)
         IN  /\ r + n <= NEntries - count
             /\ count' = count + r + n
             /\ mine' = PruneOldEntries(MarkExecuted(promoted, approved))
             /\ todo' = approved \cup notices
             /\ granted' = granted \cup notices \cup {e \in rule : shown[e] = "pending"}
    /\ file' = mine'
    /\ overwritten' = overwritten \cup Unseen(mine)
    /\ pc' = "dispatch"
    /\ UNCHANGED <<age, command, refused, ran, twice>>

Run ==
    /\ pc = "dispatch"
    /\ \E e \in todo :
         /\ todo' = todo \ {e}
         /\ ran' = ran \cup {e}
         /\ twice' = IF e \in ran THEN twice \cup {e} ELSE twice
    /\ UNCHANGED <<file, age, count, pc, mine, command, granted, refused, overwritten>>

\* Quota, budget, duplicates, dependencies and claims: the task is not run.
PassOver ==
    /\ pc = "dispatch"
    /\ \E e \in todo : todo' = todo \ {e}
    /\ UNCHANGED <<file, age, count, pc, mine, command, history>>

EndCycle ==
    /\ pc = "dispatch"
    /\ todo = {}
    /\ pc' = "idle"
    /\ mine' = Empty
    /\ UNCHANGED <<file, age, count, todo, command, history>>

\* The process dies, or the cycle ends with an exception.
Crash ==
    /\ pc # "idle"
    /\ pc' = "idle"
    /\ mine' = Empty
    /\ todo' = {}
    /\ UNCHANGED <<file, age, count, command, history>>

-----------------------------------------------------------------------------
(* The command line: secretary goals --approve, --reject, --pending.       *)

Read ==
    /\ ~reading
    /\ reading' = TRUE
    /\ theirs' = file
    /\ UNCHANGED <<file, age, count, watcher, history>>

\* The command saves its copy, changed to q, and exits.
WriteBack(q) ==
    /\ reading
    /\ file' = q
    /\ overwritten' = overwritten \cup Unseen(theirs)
    /\ reading' = FALSE
    /\ theirs' = Empty
    /\ UNCHANGED <<age, count, watcher, ran, twice>>

\* Mutant: whatever has not been executed may be approved.
ApproveRejected ==
    \E e \in Entries :
        /\ theirs[e] \in {"pending", "rejected"}
        /\ WriteBack([theirs EXCEPT ![e] = "approved"])
        /\ granted' = granted \cup {e}
        /\ UNCHANGED refused

Approve ==
    \E e \in Entries :
        /\ theirs[e] = "pending"
        /\ WriteBack([theirs EXCEPT ![e] = "approved"])
        /\ granted' = granted \cup {e}
        /\ UNCHANGED refused

\* It saves even when there was nothing to approve.
ApproveAll ==
    LET pending == {e \in Entries : theirs[e] = "pending"}
    IN  /\ WriteBack([e \in Entries |-> IF e \in pending THEN "approved" ELSE theirs[e]])
        /\ granted' = granted \cup pending
        /\ UNCHANGED refused

Reject ==
    \E e \in Entries :
        /\ theirs[e] = "pending"
        /\ WriteBack([theirs EXCEPT ![e] = "rejected"])
        /\ refused' = refused \cup {e}
        /\ UNCHANGED granted

\* Not found, already decided, or only a list.
Leave ==
    /\ reading
    /\ reading' = FALSE
    /\ theirs' = Empty
    /\ UNCHANGED <<file, age, count, watcher, history>>

-----------------------------------------------------------------------------

Day ==
    /\ age' = [e \in Entries |-> IF e <= count /\ age[e] < StaleAge + MaxAge
                                 THEN age[e] + 1 ELSE age[e]]
    /\ age' # age
    /\ UNCHANGED <<file, count, watcher, command, history>>

Next ==
    \/ StartCycle \/ Save \/ Route \/ Run \/ PassOver \/ EndCycle \/ Crash
    \/ Read \/ Approve \/ ApproveAll \/ Reject \/ Leave
    \/ Day

Spec == Init /\ [][Next]_vars

\* The loop goes on; not every cycle dies before it routes; time passes.
FairSpec ==
    /\ Spec
    /\ WF_vars(StartCycle) /\ SF_vars(Route)
    /\ WF_vars(Run \/ PassOver) /\ WF_vars(EndCycle)
    /\ WF_vars(Day)

-----------------------------------------------------------------------------
(* Properties.                                                             *)

\* Type correctness; entries that were not submitted are nowhere.
TypeOK ==
    /\ file \in Queues /\ mine \in Queues /\ theirs \in Queues
    /\ age \in [Entries -> Ages]
    /\ count \in 0..NEntries
    /\ pc \in {"idle", "route", "dispatch"}
    /\ todo \subseteq Entries
    /\ pc # "dispatch" => todo = {}
    /\ reading \in BOOLEAN
    /\ granted \subseteq Entries /\ refused \subseteq Entries /\ overwritten \subseteq Entries
    /\ ran \subseteq Entries /\ twice \subseteq Entries
    /\ \A e \in Entries : e > count => /\ file[e] = "absent" /\ mine[e] = "absent"
                                       /\ theirs[e] = "absent" /\ e \notin todo \cup ran

\* "execute only after approved" (goal_approval.py): whatever is overwritten,
\* lost or restarted, a task of the queue runs only after a person, the rule for
\* scoped self-improvement or notify mode granted it.
OnlyGranted == ran \subseteq granted

\* An entry runs at most once, through crashes and slow cycles, unless the
\* command line and the watcher overwrote each other's view of it.
AtMostOnce == twice \subseteq overwritten

\* What the person rejected never runs and is not offered again, under the same
\* condition: a rule that approves cannot undo a rejection.
RefusalHolds ==
    \A e \in refused \ overwritten :
        file[e] \in {"rejected", "absent"} /\ e \notin todo \cup ran

(***************************************************************************)
(* Each entry goes through its life once and forward (EntryLife), however  *)
(* many of them one save, one crash or one command decides: a decision is  *)
(* undone, or an approval dropped unread, only by an overwriting save.     *)
(***************************************************************************)
Stage ==
    [e \in Entries |->
        IF e \in overwritten THEN "void"
        ELSE IF e \in ran THEN "ran"
        ELSE IF e \in todo THEN "taken"
        ELSE IF file[e] = "pending" THEN "waiting"
        ELSE IF file[e] = "approved" THEN "granted"
        ELSE IF e > count THEN "unseen" ELSE "over"]
Life == INSTANCE EntryLife WITH stage <- Stage
Lived == Life!Spec

\* "so the queue can't silently grow with unresolved proposals"
\* (prune_old_entries): an entry that awaits a decision, or whose approval
\* awaits execution, does not wait for ever.
Settled == \A e \in Entries : (file[e] \in Active) ~> (file[e] \notin Active)

\* approve_task and reject_task mark the entry and report so to the person: what
\* has been decided does not become undecided (it does: the finding).
DecisionStands ==
    [][\A e \in Entries : file[e] \in {"approved", "rejected"} => file'[e] # "pending"]_vars
=============================================================================
