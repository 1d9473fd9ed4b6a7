--------------------------- MODULE ProxySupervisor ---------------------------
(***************************************************************************)
(* The supervisor of the proxy (proxy_supervisor.py): before a cycle it    *)
(* checks that the proxy answers and, when it may, starts one and waits    *)
(* for it.  Only what it started itself is ever stopped.                   *)
(*                                                                         *)
(* Time passes in ticks; the cooldown between attempts is a number of      *)
(* them.                                                                   *)
(***************************************************************************)
EXTENDS Naturals

CONSTANTS Cooldown   \* restart_cooldown_s, in ticks

\* Assumed by the module that composes this one.
SupervisorAssumption == Cooldown \in Nat

VARIABLES proc,    \* the managed process: "none", "starting", "up", "hung" or "dead"
          other,   \* a proxy this supervisor did not start answers
          idle,    \* ticks since the last attempt, Cooldown when long ago
          leaked   \* history variable: processes this supervisor started and no longer stops

vars == <<proc, other, idle, leaked>>

Alive == proc \in {"starting", "up", "hung"}

Init == proc = "none" /\ other = FALSE /\ idle = Cooldown /\ leaked = 0

\* is_proxy_healthy: any answer counts, whoever gives it.
Answers == proc = "up" \/ other

Healthy == Answers /\ UNCHANGED vars

\* Nothing is done without auto_start or within the cooldown.
LeaveIt(auto) == ~Answers /\ (~auto \/ idle < Cooldown) /\ UNCHANGED vars

\* Mutant: a process that ended is kept in mind.
ReapedNothing == proc
\* What is left of the process after reaping a dead one.
Reaped == IF proc = "dead" THEN "none" ELSE proc

\* A process is started only when there is none; a hung one is waited for.
Spawns == Reaped = "none"

\* _attempt_restart, up to the wait; starting a process may fail.
AttemptRestart ==
    /\ ~Answers /\ idle >= Cooldown /\ idle' = 0
    /\ IF Spawns THEN /\ proc' \in {"starting", "none"}
                      /\ leaked' = leaked + (IF Alive THEN 1 ELSE 0)
                 ELSE proc' = Reaped /\ UNCHANGED leaked
    /\ UNCHANGED other

\* _wait_until_healthy: it answers, it ends early, or the time is over.
Waited ==
    /\ \/ Alive /\ proc' \in {"up", "dead", "hung"}
       \/ ~Alive /\ UNCHANGED proc
    /\ UNCHANGED <<other, idle, leaked>>

\* stop_managed
StopManaged == proc' = "none" /\ UNCHANGED <<other, idle, leaked>>

\* What happens by itself: the process ends, hangs or recovers, another proxy
\* comes and goes.
Environment ==
    \/ proc \in {"up", "hung"} /\ proc' = "dead" /\ UNCHANGED other
    \/ proc = "up" /\ proc' = "hung" /\ UNCHANGED other
    \/ proc = "hung" /\ proc' = "up" /\ UNCHANGED other
    \/ other' = ~other /\ UNCHANGED proc

Tick == IF idle < Cooldown THEN idle + 1 ELSE idle

\* The watcher is gone without stopping it: what it started goes on, and answers.
Abandon ==
    /\ proc' = "none" /\ other' \in {other, other \/ Alive} /\ idle' = Cooldown
    /\ leaked' = leaked + (IF Alive THEN 1 ELSE 0)
\* A new watcher's supervisor knows of none of them.
Forget == proc' = "none" /\ idle' = Cooldown /\ leaked' = 0 /\ UNCHANGED other

TypeOK ==
    /\ proc \in {"none", "starting", "up", "hung", "dead"} /\ other \in BOOLEAN
    /\ idle \in 0..Cooldown /\ leaked \in Nat
============================================================================
