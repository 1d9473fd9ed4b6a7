---------------------------- MODULE CostMonitor ----------------------------
(***************************************************************************)
(* The cost monitor (cost_monitor.py): what the run log says was spent     *)
(* today and this week, against the limits; an alert when most of a limit  *)
(* is used, at most one an hour for the day and one in four for the week.  *)
(*                                                                         *)
(* A task costs one unit.  A limit of zero is no limit.                    *)
(***************************************************************************)
EXTENDS Naturals

VARIABLES today, week,   \* cost of the successful entries of the run log
          garbled,       \* the run log holds a line that is no JSON
          quiet          \* kinds of alert sent too short a time ago to send again

vars == <<today, week, garbled, quiet>>

Init == today = 0 /\ week = 0 /\ garbled = FALSE /\ quiet = {}

\* _read_run_log: one bad line and the whole log reads as empty.
Read(spend) == IF garbled THEN 0 ELSE spend

\* is_budget_exhausted
Exhausted(limit) ==
    \/ limit.day > 0 /\ Read(today) >= limit.day
    \/ limit.week > 0 /\ Read(week) >= limit.week

\* check_and_alert: the day comes first, and hides the week.
Due(limit) ==
    LET near(spend, max) == max > 0 /\ 5 * spend >= 4 * max
        kinds == (IF near(Read(today), limit.day) THEN {"day"} ELSE {}) \cup
                 (IF near(Read(week), limit.week) THEN {"week"} ELSE {})
        sent  == kinds \ quiet
    IN  IF "day" \in sent THEN {"day"} ELSE sent
CheckAndAlert(limit) == quiet' = quiet \cup Due(limit) /\ UNCHANGED <<today, week, garbled>>

\* An entry of the run log.  Only a success counts, whatever a failure cost;
\* beyond the limits the amount makes no difference.
Log(success, limit) ==
    LET more(spend, max) == IF success /\ spend < max THEN spend + 1 ELSE spend
    IN  today' = more(today, limit.day) /\ week' = more(week, limit.week)

\* The pause of an hour, or of a cycle, between two checks.
Pass(limit) ==
    /\ quiet' \in {quiet, quiet \ {"day"}, {}}
    /\ \/ UNCHANGED <<today, week>>
       \/ limit.day > 0 /\ today' = 0 /\ week' \in {week, 0}
    /\ garbled' \in IF limit.day > 0 THEN {garbled, TRUE} ELSE {garbled}

\* A new process has sent no alert.
Forget == quiet' = {} /\ UNCHANGED <<today, week, garbled>>

TypeOK == today \in Nat /\ week \in Nat /\ garbled \in BOOLEAN /\ quiet \subseteq {"day", "week"}
============================================================================
