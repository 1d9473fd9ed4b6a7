------------------------- MODULE CoordinatorProofs -------------------------
(* Proofs about the claims, for any instances, tasks, roles and crashes.   *)
EXTENDS Coordinator, TLAPS

\* The file behind a valid claim is there and is the holder's own.
Owned ==
    \A i \in Instances : valid[i] => claim[task[i]].file /\ claim[task[i]].by = i

\* Whatever says that a task has passed is right.
Truthful ==
    /\ \A t \in Tasks : result[t] = "pass" => t \in passed
    /\ \A i \in Instances, t \in Tasks : outcome[i][t] = "pass" => t \in passed

\* What was found before claiming stays true until the task is over.
Cleared ==
    \A i \in Instances :
        pc[i] \in {"claim", "write", "run"} /\ DependsOn[task[i]] # NoTask =>
            /\ DependsOn[task[i]] \in passed
            /\ outcome[i][DependsOn[task[i]]] # "fail"

IInv == TypeOK /\ Owned /\ Truthful /\ Cleared

\* The initial state has no files and no instances at work.
LEMMA InitIInv == Init => IInv
<1> SUFFICES ASSUME Init PROVE IInv
  OBVIOUS
<1>1. TypeOK
  BY DEF Init, TypeOK, Unknown, Outcomes, NoClaim, Claims, Holding
<1>2. Owned /\ Truthful /\ Cleared
  BY DEF Init, Owned, Truthful, Cleared, Unknown
<1> QED
  BY <1>1, <1>2 DEF IInv

\* What an instance does at its own place changes nothing of the others' files.
LEMMA TypeStep == TypeOK /\ Owned /\ [Next]_vars => TypeOK'
<1> SUFFICES ASSUME TypeOK, Owned, [Next]_vars PROVE TypeOK'
  OBVIOUS
<1> USE DEF TypeOK, Goto, files, Holding
<1>1. CASE UNCHANGED vars
  BY <1>1 DEF vars, local
<1>2. ASSUME NEW i \in Instances, Start(i) PROVE TypeOK'
  BY <1>2 DEF Start
<1>3. ASSUME NEW i \in Instances, StartCycle(i) PROVE TypeOK'
  BY <1>3 DEF StartCycle, Readable
<1>4. ASSUME NEW i \in Instances, NEW t \in Tasks, Unlink(i, t) PROVE TypeOK'
  BY <1>4 DEF Unlink
<1>5. ASSUME NEW i \in Instances, TakeTasks(i) PROVE TypeOK'
  <2>1. TaskLists(i) \subseteq SUBSET Tasks
    BY DEF TaskLists
  <2> QED
    BY <1>5, <2>1 DEF TakeTasks
<1>6. ASSUME NEW i \in Instances, Pick(i) PROVE TypeOK'
  BY <1>6 DEF Pick
<1>7. ASSUME NEW i \in Instances, PassOver(i) PROVE TypeOK'
  BY <1>7 DEF PassOver
<1>8. ASSUME NEW i \in Instances, SkipDependent(i) PROVE TypeOK'
  BY <1>8 DEF SkipDependent, Outcomes
<1>9. ASSUME NEW i \in Instances, Proceed(i) PROVE TypeOK'
  BY <1>9 DEF Proceed
<1>10. ASSUME NEW i \in Instances, Create(i) PROVE TypeOK'
  BY <1>10 DEF Create, Claims
<1>11. ASSUME NEW i \in Instances, LeaveToOwner(i) PROVE TypeOK'
  BY <1>11 DEF LeaveToOwner
<1>12. ASSUME NEW i \in Instances, WriteClaim(i) PROVE TypeOK'
  <2>1. task[i] \in Tasks /\ claim[task[i]] \in Claims \cup {NoClaim}
    BY <1>12 DEF WriteClaim
  <2>2. CASE valid[i]
    <3>1. claim[task[i]] \in Claims
      BY <2>1, <2>2 DEF Owned, NoClaim
    <3>2. [claim[task[i]] EXCEPT !.written = TRUE] \in Claims
      BY <3>1 DEF Claims
    <3>3. claim' = [claim EXCEPT ![task[i]] = [claim[task[i]] EXCEPT !.written = TRUE]]
      BY <1>12, <2>2 DEF WriteClaim
    <3>4. claim' \in [Tasks -> Claims \cup {NoClaim}]
      BY <2>1, <3>2, <3>3
    <3> QED
      BY <1>12, <3>4 DEF WriteClaim
  <2>3. CASE ~valid[i]
    BY <1>12, <2>3 DEF WriteClaim
  <2> QED
    BY <2>2, <2>3
<1>13. ASSUME NEW i \in Instances, Finish(i) PROVE TypeOK'
  BY <1>13 DEF Finish, Outcomes
<1>14. ASSUME NEW i \in Instances, Publish(i) PROVE TypeOK'
  BY <1>14 DEF Publish
<1>15. ASSUME NEW i \in Instances, FinishSilently(i) PROVE TypeOK'
  BY <1>15 DEF FinishSilently, Outcomes
<1>16. ASSUME NEW i \in Instances, EndCycle(i) PROVE TypeOK'
  BY <1>16 DEF EndCycle, AllClaims, Existing, Unknown, Outcomes, NoTask
<1>17. ASSUME NEW i \in Instances, ClearResults(i) PROVE TypeOK'
  BY <1>17 DEF ClearResults, Unknown, Outcomes
<1>18. ASSUME NEW i \in Instances, Stopped(i) PROVE TypeOK'
  BY <1>18 DEF Stopped
<1>19. ASSUME NEW i \in Instances, EndOverBudget(i) PROVE TypeOK'
  BY <1>19 DEF EndOverBudget, Unknown, Outcomes, NoTask
<1>20. ASSUME NEW i \in Instances, Stop(i) PROVE TypeOK'
  BY <1>20 DEF Stop, Readable
<1>21. ASSUME NEW i \in Instances, Crash(i) PROVE TypeOK'
  BY <1>21 DEF Crash, Unknown, Outcomes, NoTask
<1> QED
  BY <1>1, <1>2, <1>3, <1>4, <1>5, <1>6, <1>7, <1>8, <1>9, <1>10, <1>11, <1>12, <1>13,
     <1>14, <1>15, <1>16, <1>17, <1>18, <1>19, <1>20, <1>21 DEF Next, Step

\* A valid claim is not taken over: creation needs the name to be free, and
\* removing the file ends its validity.
LEMMA OwnedStep == IInv /\ [Next]_vars => Owned'
<1> SUFFICES ASSUME IInv, [Next]_vars, NEW j \in Instances, valid'[j]
             PROVE  claim'[task'[j]].file /\ claim'[task'[j]].by = j
  BY DEF Owned
<1>t. TypeOK /\ Owned
  BY DEF IInv
<1> USE DEF Goto, files
<1>1. ASSUME UNCHANGED <<claim, task>>, valid[j]
      PROVE claim'[task'[j]].file /\ claim'[task'[j]].by = j
  BY <1>1, <1>t DEF Owned
<1>2. ASSUME NEW i \in Instances, NEW t \in Tasks, Unlink(i, t)
      PROVE claim'[task'[j]].file /\ claim'[task'[j]].by = j
  <2>1. valid[j] /\ task[j] # t /\ task' = task
    BY <1>2 DEF Unlink
  <2>2. task[j] \in Tasks
    BY <1>t, <2>1 DEF TypeOK, Holding
  <2>3. claim'[task[j]] = claim[task[j]]
    BY <1>2, <1>t, <2>1, <2>2 DEF Unlink, TypeOK
  <2> QED
    BY <1>t, <2>1, <2>3 DEF Owned
<1>3. ASSUME NEW i \in Instances, Pick(i)
      PROVE claim'[task'[j]].file /\ claim'[task'[j]].by = j
  BY <1>3, <1>t DEF Pick, Owned, TypeOK, Holding
<1>4. ASSUME NEW i \in Instances, Create(i)
      PROVE claim'[task'[j]].file /\ claim'[task'[j]].by = j
  <2>1. CASE j = i
    BY <1>4, <1>t, <2>1 DEF Create, Owned, TypeOK
  <2>2. CASE j # i
    <3>1. valid[j] /\ task[j] # task[i]
      BY <1>4, <1>t, <2>2 DEF Create, Owned, TypeOK
    <3> QED
      BY <1>4, <1>t, <3>1 DEF Create, Owned, TypeOK
  <2> QED
    BY <2>1, <2>2
<1>5. ASSUME NEW i \in Instances, WriteClaim(i)
      PROVE claim'[task'[j]].file /\ claim'[task'[j]].by = j
  <2>1. /\ valid[j] /\ task' = task
        /\ claim[task[j]].file /\ claim[task[j]].by = j
        /\ task[i] \in Tasks /\ task[j] \in Tasks
    BY <1>5, <1>t DEF WriteClaim, Owned, TypeOK, Holding
  <2>2. CASE ~valid[i] \/ task[i] # task[j]
    BY <1>5, <1>t, <2>1, <2>2 DEF WriteClaim, TypeOK
  <2>3. CASE valid[i] /\ task[i] = task[j]
    <3>1. claim'[task[j]] = [claim[task[j]] EXCEPT !.written = TRUE]
      BY <1>5, <1>t, <2>1, <2>3 DEF WriteClaim, TypeOK
    <3>2. claim[task[j]] \in Claims
      BY <1>t, <2>1 DEF TypeOK, NoClaim
    <3> QED
      BY <2>1, <3>1, <3>2 DEF Claims
  <2> QED
    BY <2>2, <2>3
<1>6. ASSUME NEW i \in Instances, EndCycle(i) \/ EndOverBudget(i) \/ Crash(i)
      PROVE claim'[task'[j]].file /\ claim'[task'[j]].by = j
  BY <1>6, <1>t DEF EndCycle, EndOverBudget, Crash, Owned, TypeOK, Holding
<1>7. ASSUME NEW i \in Instances, Finish(i) \/ FinishSilently(i)
      PROVE claim'[task'[j]].file /\ claim'[task'[j]].by = j
  BY <1>7, <1>t DEF Finish, FinishSilently, Owned, TypeOK
<1> QED
  BY <1>1, <1>2, <1>3, <1>4, <1>5, <1>6, <1>7
  DEF Next, Step, vars, local, Start, StartCycle, TakeTasks, PassOver, SkipDependent, Proceed,
      LeaveToOwner, Publish, ClearResults, Stopped, Stop

LEMMA TruthfulStep == TypeOK /\ Truthful /\ [Next]_vars => Truthful'
<1> SUFFICES ASSUME TypeOK, Truthful, [Next]_vars PROVE Truthful'
  OBVIOUS
<1>1. ASSUME UNCHANGED <<result, outcome, passed>> PROVE Truthful'
  BY <1>1 DEF Truthful
<1>2. ASSUME NEW i \in Instances, SkipDependent(i) \/ FinishSilently(i) PROVE Truthful'
  BY <1>2 DEF SkipDependent, FinishSilently, files, Truthful, TypeOK
<1>3. ASSUME NEW i \in Instances, Finish(i) PROVE Truthful'
  BY <1>3 DEF Finish, files, Truthful, TypeOK
<1>4. ASSUME NEW i \in Instances, Publish(i) PROVE Truthful'
  BY <1>4 DEF Publish, Truthful, TypeOK
<1>5. ASSUME NEW i \in Instances, EndCycle(i) \/ EndOverBudget(i) \/ Crash(i) \/ ClearResults(i)
      PROVE Truthful'
  <2>1. /\ passed' = passed
        /\ result' = result \/ result' = Unknown
        /\ outcome' = outcome \/ outcome' = [outcome EXCEPT ![i] = Unknown]
    BY <1>5 DEF EndCycle, EndOverBudget, Crash, ClearResults, files
  <2>2. \A t \in Tasks : Unknown[t] # "pass"
    BY DEF Unknown
  <2>3. \A t \in Tasks : result'[t] = "pass" => t \in passed'
    BY <2>1, <2>2 DEF Truthful
  <2>4. \A k \in Instances, t \in Tasks : outcome'[k][t] = "pass" => t \in passed'
    BY <2>1, <2>2 DEF Truthful, TypeOK
  <2> QED
    BY <2>3, <2>4 DEF Truthful
<1> QED
  BY <1>1, <1>2, <1>3, <1>4, <1>5
  DEF Next, Step, vars, local, files, Start, StartCycle, Unlink, TakeTasks, Pick, PassOver, Proceed,
      Create, LeaveToOwner, WriteClaim, Stopped, Stop

\* Between the check of the prerequisite and the end of the task the instance
\* records no outcome.
LEMMA ClearedStep == IInv /\ [Next]_vars => Cleared'
<1> SUFFICES ASSUME IInv, [Next]_vars, NEW j \in Instances,
                    pc'[j] \in {"claim", "write", "run"}, DependsOn[task'[j]] # NoTask
             PROVE  DependsOn[task'[j]] \in passed' /\ outcome'[j][DependsOn[task'[j]]] # "fail"
  BY DEF Cleared
<1> DEFINE Goal == DependsOn[task'[j]] \in passed' /\ outcome'[j][DependsOn[task'[j]]] # "fail"
<1>t. TypeOK /\ Truthful /\ Cleared
  BY DEF IInv
<1> USE DEF Goto, files
<1>1. ASSUME pc[j] \in {"claim", "write", "run"}, task'[j] = task[j], outcome'[j] = outcome[j],
             passed \subseteq passed'
      PROVE Goal
  BY <1>1, <1>t DEF Cleared
<1>2. ASSUME NEW i \in Instances, Proceed(i) PROVE Goal
  <2>1. CASE j # i
    BY <1>1, <1>2, <2>1, <1>t DEF Proceed, TypeOK
  <2>2. CASE j = i
    <3>1. task' = task /\ passed' = passed /\ outcome' = outcome /\ pc[i] = "depends"
      BY <1>2 DEF Proceed
    <3>2. task[i] \in Tasks /\ DependsOn[task[i]] \in Tasks
      BY <1>t, <2>2, <3>1, DependsOnAssumption DEF TypeOK
    <3>3. Known(i, DependsOn[task[i]]) = "pass"
      BY <1>2, <2>2, <3>1 DEF Proceed, MayRun
    <3> QED
      BY <1>t, <2>2, <3>1, <3>2, <3>3 DEF Known, Truthful
  <2> QED
    BY <2>1, <2>2
<1>3. ASSUME NEW i \in Instances,
             \/ Start(i) \/ StartCycle(i) \/ TakeTasks(i) \/ PassOver(i)
             \/ LeaveToOwner(i) \/ Publish(i) \/ ClearResults(i) \/ Stopped(i) \/ Stop(i)
             \/ \E t \in Tasks : Unlink(i, t)
             \/ Create(i) \/ WriteClaim(i)
      PROVE Goal
  <2>1. pc[j] \in {"claim", "write", "run"}
    BY <1>3, <1>t DEF Start, StartCycle, TakeTasks, PassOver, LeaveToOwner, Publish, ClearResults,
                      Stopped, Stop, Unlink, Create, WriteClaim, TypeOK
  <2>2. task' = task /\ outcome' = outcome /\ passed' = passed
    BY <1>3 DEF Start, StartCycle, TakeTasks, PassOver, LeaveToOwner, Publish, ClearResults,
                Stopped, Stop, Unlink, Create, WriteClaim
  <2> QED
    BY <1>1, <2>1, <2>2
<1>4. ASSUME NEW i \in Instances,
             \/ Pick(i) \/ SkipDependent(i) \/ Finish(i) \/ FinishSilently(i)
             \/ EndCycle(i) \/ EndOverBudget(i) \/ Crash(i)
      PROVE Goal
  <2>1. j # i
    BY <1>4, <1>t DEF Pick, SkipDependent, Finish, FinishSilently, EndCycle, EndOverBudget, Crash, TypeOK
  <2>2. /\ pc[j] \in {"claim", "write", "run"}
        /\ task'[j] = task[j] /\ outcome'[j] = outcome[j] /\ passed \subseteq passed'
    BY <1>4, <1>t, <2>1
    DEF Pick, SkipDependent, Finish, FinishSilently, EndCycle, EndOverBudget, Crash, TypeOK
  <2> QED
    BY <1>1, <2>2
<1>5. CASE UNCHANGED vars
  BY <1>1, <1>5 DEF vars, local
<1> QED
  BY <1>2, <1>3, <1>4, <1>5 DEF Next, Step

LEMMA NextIInv == IInv /\ [Next]_vars => IInv'
  BY TypeStep, OwnedStep, TruthfulStep, ClearedStep DEF IInv

(***************************************************************************)
(* Claims, results and instances are well typed, and only an instance that *)
(* is at a task has a claim of its own to lose.                            *)
(***************************************************************************)
THEOREM TypeCorrect == Spec => []TypeOK
<1>1. IInv => TypeOK
  BY DEF IInv
<1> QED
  BY <1>1, InitIInv, NextIInv, PTL DEF Spec

(***************************************************************************)
(* Exclusive creation gives a task one owner as long as nobody removes the *)
(* claim, for any number of instances, crashes and clean-ups.              *)
(***************************************************************************)
THEOREM OwnerUnique == Spec => []OneValidClaim
<1>1. IInv => OneValidClaim
  BY DEF IInv, Owned, OneValidClaim
<1> QED
  BY <1>1, InitIInv, NextIInv, PTL DEF Spec

(***************************************************************************)
(* No dependent task is started before its prerequisite has passed, or in  *)
(* an instance that saw it fail.                                           *)
(***************************************************************************)
THEOREM PrerequisiteFirst == Spec => []DependencyRespected
<1>1. IInv => DependencyRespected
  BY DEF IInv, Cleared, DependencyRespected, Holding
<1> QED
  BY <1>1, InitIInv, NextIInv, PTL DEF Spec

-----------------------------------------------------------------------------
(* The claims implement TaskLease.                                         *)

\* Leases and strays depend on the instances that hold a task.
LEMMA SameLeases ==
    ASSUME TypeOK, TypeOK',
           \A j \in Instances : /\ valid'[j] = valid[j] /\ Holding(j)' = Holding(j)
                                /\ Holding(j) => task'[j] = task[j]
    PROVE  UNCHANGED <<Leases, Strays>>
<1>1. \A t \in Tasks : Leases'[t] = Leases[t] /\ Strays'[t] = Strays[t]
  BY DEF Leases, Strays, TypeOK
<1> QED
  BY <1>1 DEF Leases, Strays

\* An instance that creates a claim file takes the lease.
LEMMA CreateTakes ==
    ASSUME IInv, IInv', NEW i \in Instances, Create(i)
    PROVE  Lease!Take(i, task[i])
<1>1. /\ TypeOK /\ Owned /\ task[i] \in Tasks /\ pc[i] = "claim" /\ ~claim[task[i]].file
      /\ task' = task /\ valid' = [valid EXCEPT ![i] = TRUE] /\ pc' = [pc EXCEPT ![i] = "write"]
      /\ passed' = passed
  BY DEF IInv, Create, Goto, TypeOK
<1>2. ~Holding(i) /\ ~valid[i]
  BY <1>1 DEF Holding, TypeOK
<1>3. Leases[task[i]] = {}
  BY <1>1 DEF Leases, Owned
<1>4. ~Lease!AtWork(i)
  BY <1>2 DEF Lease!AtWork, Leases, Strays
<1>5. DependsOn[task[i]] # NoTask => DependsOn[task[i]] \in passed
  BY <1>1 DEF IInv, Cleared
<1>6. Leases' = [Leases EXCEPT ![task[i]] = {i}]
  <2>1. \A t \in Tasks : Leases'[t] = IF t = task[i] THEN {i} ELSE Leases[t]
    BY <1>1, <1>2, <1>3 DEF Leases, TypeOK
  <2> QED
    BY <1>1, <2>1 DEF Leases
<1>7. Strays' = Strays
  <2>1. \A t \in Tasks : Strays'[t] = Strays[t]
    BY <1>1, <1>2 DEF Strays, Holding, TypeOK
  <2> QED
    BY <2>1 DEF Strays
<1> QED
  BY <1>1, <1>3, <1>4, <1>5, <1>6, <1>7 DEF Lease!Take

\* A clean-up that unlinks the file of a holder revokes the lease.
LEMMA UnlinkRevokes ==
    ASSUME IInv, IInv', NEW i \in Instances, NEW t \in Tasks, Unlink(i, t)
    PROVE  Lease!Revoke(t) \/ UNCHANGED <<Leases, Strays, passed>>
<1>1. /\ TypeOK /\ TypeOK' /\ UNCHANGED <<pc, task, passed>>
      /\ valid' = [j \in Instances |-> valid[j] /\ task[j] # t]
  BY DEF IInv, Unlink
<1>2. CASE Leases[t] = {}
  <2>1. \A j \in Instances : ~(valid[j] /\ task[j] = t)
    BY <1>2 DEF Leases
  <2>2. \A j \in Instances : valid'[j] = valid[j]
    BY <1>1, <2>1, Zenon DEF TypeOK
  <2> QED
    BY <1>1, <2>2, SameLeases DEF Holding
<1>3. CASE Leases[t] # {}
  <2>1. \A u \in Tasks : Leases'[u] = IF u = t THEN {} ELSE Leases[u]
    BY <1>1 DEF Leases
  <2>2. \A u \in Tasks : Strays'[u] = IF u = t THEN Strays[t] \cup Leases[t] ELSE Strays[u]
    <3>1. \A j \in Instances : (valid'[j] <=> valid[j] /\ task[j] # t) /\ Holding(j)' = Holding(j)
      BY <1>1 DEF Holding
    <3>2. \A j \in Instances : valid[j] => Holding(j)
      BY <1>1 DEF TypeOK
    <3>3. Strays'[t] = Strays[t] \cup Leases[t]
      BY <1>1, <3>1, <3>2 DEF Leases, Strays
    <3>4. \A u \in Tasks : u # t => Strays'[u] = Strays[u]
      BY <1>1, <3>1 DEF Strays
    <3> QED
      BY <3>3, <3>4
  <2>3. /\ Leases' = [Leases EXCEPT ![t] = {}]
        /\ Strays' = [Strays EXCEPT ![t] = Strays[t] \cup Leases[t]]
    BY <2>1, <2>2 DEF Leases, Strays
  <2> QED
    BY <1>1, <1>3, <2>3 DEF Lease!Revoke
<1> QED
  BY <1>2, <1>3

\* Whoever is done with a task, dead or alive, quits it.
LEMMA EndQuits ==
    ASSUME IInv, IInv', NEW i \in Instances, Holding(i),
           Finish(i) \/ FinishSilently(i) \/ Crash(i)
    PROVE  Lease!Quit(i, task[i])
<1>1. /\ TypeOK /\ task[i] \in Tasks
      /\ \A j \in Instances : j # i => task'[j] = task[j] /\ pc'[j] = pc[j]
      /\ pc'[i] \notin {"write", "run"}
      /\ valid' = [valid EXCEPT ![i] = FALSE]
      /\ passed' \in {passed, passed \cup {task[i]}}
  BY DEF IInv, Finish, FinishSilently, Crash, Goto, TypeOK, Holding
<1>2. i \in Leases[task[i]] \cup Strays[task[i]]
  BY <1>1 DEF Leases, Strays
<1>3. \A t \in Tasks : Leases'[t] = IF t = task[i] THEN Leases[t] \ {i} ELSE Leases[t]
  BY <1>1 DEF Leases, TypeOK
<1>4. \A t \in Tasks : Strays'[t] = IF t = task[i] THEN Strays[t] \ {i} ELSE Strays[t]
  BY <1>1 DEF Strays, TypeOK, Holding
<1>5. /\ Leases' = [Leases EXCEPT ![task[i]] = Leases[task[i]] \ {i}]
      /\ Strays' = [Strays EXCEPT ![task[i]] = Strays[task[i]] \ {i}]
  <2>1. Leases' = [Leases EXCEPT ![task[i]] = Leases[task[i]] \ {i}]
    BY <1>1, <1>3 DEF Leases
  <2>2. Strays' = [Strays EXCEPT ![task[i]] = Strays[task[i]] \ {i}]
    BY <1>1, <1>4 DEF Strays
  <2> QED
    BY <2>1, <2>2
<1> QED
  BY <1>1, <1>2, <1>5 DEF Lease!Quit

LEMMA NextLease == IInv /\ IInv' /\ [Next]_vars => [Lease!Next]_<<Leases, Strays, passed>>
<1> SUFFICES ASSUME IInv, IInv', [Next]_vars
             PROVE  Lease!Next \/ UNCHANGED <<Leases, Strays, passed>>
  OBVIOUS
<1>t. TypeOK /\ TypeOK'
  BY DEF IInv
<1>1. ASSUME NEW i \in Instances, Create(i) PROVE Lease!Next
  <2>1. task[i] \in Tasks
    BY <1>1, <1>t DEF Create, TypeOK
  <2> QED
    BY <1>1, <2>1, CreateTakes DEF Lease!Next
<1>2. ASSUME NEW i \in Instances, NEW t \in Tasks, Unlink(i, t)
      PROVE  Lease!Next \/ UNCHANGED <<Leases, Strays, passed>>
  BY <1>2, UnlinkRevokes DEF Lease!Next
<1>3. ASSUME NEW i \in Instances, Finish(i) \/ FinishSilently(i) \/ Crash(i), Holding(i)
      PROVE Lease!Next
  <2>1. task[i] \in Tasks
    BY <1>3, <1>t DEF Holding, TypeOK
  <2> QED
    BY <1>3, <2>1, EndQuits DEF Lease!Next
<1>4. ASSUME NEW i \in Instances, ~Holding(i), Crash(i)
      PROVE  UNCHANGED <<Leases, Strays, passed>>
  <2>1. \A j \in Instances : /\ valid'[j] = valid[j] /\ Holding(j)' = Holding(j)
                             /\ Holding(j) => task'[j] = task[j]
    <3>1. /\ valid[i] = FALSE /\ valid' = [valid EXCEPT ![i] = FALSE]
          /\ pc' = [pc EXCEPT ![i] = "off"] /\ task' = [task EXCEPT ![i] = NoTask]
      BY <1>4, <1>t DEF Crash, Goto, TypeOK
    <3>2. \A j \in Instances : valid'[j] = valid[j]
      BY <3>1, <1>t DEF TypeOK
    <3>3. \A j \in Instances : Holding(j)' = Holding(j) /\ (Holding(j) => task'[j] = task[j])
      BY <1>4, <1>t, <3>1 DEF TypeOK, Holding
    <3> QED
      BY <3>2, <3>3
  <2> QED
    BY <1>4, <1>t, <2>1, SameLeases DEF Crash
<1>5. ASSUME NEW i \in Instances,
             \/ Start(i) \/ StartCycle(i) \/ TakeTasks(i) \/ Pick(i) \/ PassOver(i)
             \/ SkipDependent(i) \/ Proceed(i) \/ LeaveToOwner(i) \/ WriteClaim(i) \/ Publish(i)
             \/ EndCycle(i) \/ EndOverBudget(i) \/ ClearResults(i) \/ Stop(i) \/ Stopped(i)
      PROVE  UNCHANGED <<Leases, Strays, passed>>
  <2>1. /\ valid' = valid /\ passed' = passed
        /\ \A j \in Instances : Holding(j)' = Holding(j) /\ (Holding(j) => task'[j] = task[j])
    BY <1>5, <1>t
    DEF Start, StartCycle, TakeTasks, Pick, PassOver, SkipDependent, Proceed, LeaveToOwner, WriteClaim,
        Publish, EndCycle, EndOverBudget, ClearResults, Stop, Stopped, Goto, files, TypeOK, Holding
  <2> QED
    BY <1>t, <2>1, SameLeases
<1>6. CASE UNCHANGED vars
  BY <1>6 DEF vars, local, Leases, Strays, Holding
<1> QED
  BY <1>1, <1>2, <1>3, <1>4, <1>5, <1>6 DEF Next, Step, Finish, FinishSilently, Holding

(***************************************************************************)
(* For any number of instances, crashes and clean-ups the claim files are  *)
(* leases: given to one instance at a time, after the prerequisite, taken  *)
(* back by whoever unlinks the file, and no other instance passes a task.  *)
(***************************************************************************)
THEOREM ClaimsAreLeases == Spec => Leased
<1>1. Init => Lease!Init
  <2> SUFFICES ASSUME Init PROVE Lease!Init
    OBVIOUS
  <2>1. \A t \in Tasks : Leases[t] = {} /\ Strays[t] = {}
    BY DEF Init, Leases, Strays, Holding
  <2> QED
    BY <2>1 DEF Init, Lease!Init, Leases, Strays
<1> QED
  BY <1>1, InitIInv, NextIInv, NextLease, PTL DEF Spec, Leased, Lease!Spec, Lease!vars
=============================================================================
