------------------------------ MODULE Outcomes ------------------------------
(***************************************************************************)
(* The run log (run_log.py) and what is learned from it about promoted     *)
(* proposals (proposal_outcomes.py): the tasks before a promotion are the  *)
(* baseline, the first ones after it the outcome, and failures of the      *)
(* environment count for neither.                                          *)
(*                                                                         *)
(* A task costs one unit, a failure of the environment nothing.  Times are *)
(* positions in the log.                                                   *)
(***************************************************************************)
EXTENDS Integers, Sequences, SequencesExt

CONSTANTS Window,     \* MIN_TASKS_AFTER and baseline_window
          LogLimit,   \* entries of a log of _MAX_BYTES
          MaxRecords  \* bound: promotions

\* Assumed by the module that composes this one.
OutcomesAssumption == Window \in Nat \ {0} /\ LogLimit \in Nat \ {0}

Entries == {"ok", "bad", "environment"}

VARIABLES log,       \* the current run log
          records,   \* proposal_outcomes.jsonl
          truth,     \* history variable: the first tasks after each promotion
          lost       \* history variable: records with entries in a rotated log

vars == <<log, records, truth, lost>>

Init == log = <<>> /\ records = <<>> /\ truth = <<>> /\ lost = {}

\* _snapshot_from_entries
Snapshot(entries) == [tasks |-> Len(entries), ok |-> Len(SelectSeq(entries, LAMBDA e : e = "ok"))]

\* _filter_environmental
Filtered(entries) ==
    LET upTo[n \in 0..Len(entries)] ==
            IF n = 0 THEN <<>>
            ELSE IF entries[n] = "environment" THEN upTo[n - 1] ELSE Append(upTo[n - 1], entries[n])
    IN  upTo
OfAgents(entries) == Filtered(entries)[Len(entries)]

First(n, s) == SubSeq(s, 1, n)
Recent(n, s) == SubSeq(s, IF Len(s) > n THEN Len(s) - n + 1 ELSE 1, Len(s))

\* _verdict of the change of the cost of a success; where there is no success
\* the cost of all tasks stands for it.
Verdict(before, after) ==
    LET successes(m) == IF m.ok = 0 THEN 1 ELSE m.ok
        was == before.tasks * successes(after)
        now == after.tasks * successes(before)
    IN  CASE 100 * now <= 95 * was  -> "improvement"
          [] 100 * now >= 110 * was -> "regression"
          [] OTHER                  -> "neutral"

Pending == {i \in DOMAIN records : records[i].verdict = "none"}

\* RunLog.append.  A full log is rotated first, and nothing reads the archives.
Rotated == Len(log) >= LogLimit
Note(e) ==
    /\ log' = IF Rotated THEN <<e>> ELSE Append(log, e)
    /\ lost' = IF Rotated THEN lost \cup Pending ELSE lost
    /\ truth' = [i \in DOMAIN truth |->
                    IF e # "environment" /\ Len(truth[i]) < Window THEN Append(truth[i], e) ELSE truth[i]]
    /\ records' = IF Rotated THEN [i \in DOMAIN records |-> [records[i] EXCEPT !.from = 0]] ELSE records

\* record_baseline, right after the promotion: nothing without tasks before it.
RecordBaseline ==
    LET before == Recent(Window, OfAgents(log)) IN
    /\ Len(records) < MaxRecords /\ before # <<>>
    /\ records' = Append(records, [before |-> Snapshot(before), from |-> Len(log), verdict |-> "none"])
    /\ truth' = Append(truth, <<>>)
    /\ UNCHANGED <<log, lost>>

\* The tasks after a promotion that the log still holds.
After(r) == OfAgents(SubSeq(log, r.from + 1, Len(log)))

\* Mutant: the latest tasks are taken for the first ones.
LatestOf(entries) == Recent(Window, entries)
WindowOf(entries) == First(Window, entries)

\* measure_pending_outcomes
Measure ==
    /\ records' = [i \in DOMAIN records |->
                      IF i \in Pending /\ Len(After(records[i])) >= Window
                      THEN [records[i] EXCEPT !.verdict =
                               Verdict(records[i].before, Snapshot(WindowOf(After(records[i]))))]
                      ELSE records[i]]
    /\ UNCHANGED <<log, truth, lost>>

TypeOK == Len(log) <= LogLimit /\ Len(records) <= MaxRecords /\ DOMAIN truth = DOMAIN records
=============================================================================
