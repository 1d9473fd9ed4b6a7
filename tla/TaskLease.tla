----------------------------- MODULE TaskLease -----------------------------
(***************************************************************************)
(* What the claims of several instances promise: a task is leased to one   *)
(* instance at a time, after its prerequisite has passed, and passes only  *)
(* at the hands of an instance that was given the lease.  A lease may be   *)
(* revoked at any time; the instance that had it is then a stray, which    *)
(* goes on with the task and may still finish it.                          *)
(***************************************************************************)
CONSTANTS Instances, Tasks,
          DependsOn,   \* the prerequisite of each task, or NoTask
          NoTask

VARIABLES owner,       \* the instance a task is leased to, in a set, or none
          strays,      \* the instances at work on a task after a revocation
          passed       \* the tasks that have passed

vars == <<owner, strays, passed>>

Init ==
    /\ owner = [t \in Tasks |-> {}] /\ strays = [t \in Tasks |-> {}]
    /\ passed = {}

AtWork(i) == \E t \in Tasks : i \in owner[t] \cup strays[t]

Take(i, t) ==
    /\ owner[t] = {} /\ ~AtWork(i)
    /\ DependsOn[t] # NoTask => DependsOn[t] \in passed
    /\ owner' = [owner EXCEPT ![t] = {i}]
    /\ UNCHANGED <<strays, passed>>

Revoke(t) ==
    /\ owner[t] # {}
    /\ owner' = [owner EXCEPT ![t] = {}]
    /\ strays' = [strays EXCEPT ![t] = @ \cup owner[t]]
    /\ UNCHANGED passed

\* The task is over for the instance: it has passed or failed, or the instance died.
Quit(i, t) ==
    /\ i \in owner[t] \cup strays[t]
    /\ owner' = [owner EXCEPT ![t] = @ \ {i}]
    /\ strays' = [strays EXCEPT ![t] = @ \ {i}]
    /\ passed' \in {passed, passed \cup {t}}

Next ==
    \E t \in Tasks : Revoke(t) \/ \E i \in Instances : Take(i, t) \/ Quit(i, t)

Spec == Init /\ [][Next]_vars
============================================================================
