----------------------------- MODULE WatchLoop -----------------------------
(***************************************************************************)
(* The watcher (watcher.run): cycle after cycle it sees to the proxy,      *)
(* polls the event sources, dispatches the tasks, keeps house and sleeps,  *)
(* until it is asked to stop or has done enough cycles.  It composes the   *)
(* supervisor of the proxy, the event bus, the dispatch loop and the cost  *)
(* monitor.                                                                *)
(*                                                                         *)
(* A stop request and Ctrl+C come at any point; the process may die at any *)
(* point and be started again.  The world changes only where the watcher   *)
(* is about to look at it.  What a goal task does is in GoalCycle.         *)
(***************************************************************************)
EXTENDS Integers, SequencesExt

CONSTANTS Feeds, Files, Cooldown, MaxBatch, None,
          Window, LogLimit, MaxRecords,
          Configs,     \* settings: auto, events, ooda, learns, limit, maxRuns and tasks, and
                       \* the bound restartBy: cycles up to which a process is replaced
          Plans,       \* lists of tasks that the planner may answer events with
          Lives        \* bound: processes started

VARIABLES phase,    \* what the watcher is at; "ended" when it returned, "cut" when
                    \* Ctrl+C cancelled it, "off" when it died
          cycle,    \* _runs_completed, counted up to restartBy + 1
          stop,     \* _stop
          pidfile,  \* secretary.pid exists
          lives,    \* processes started
          heartbeat, \* what heartbeat.json and health_status.json say
          config,
          proc, other, idle, leaked,
          remembered, differs, present, bus, pending, cause,
          batches, outcomes, seen, history, disk, quota,
          skipped, before, doing, done, loaded,
          today, week, garbled, quiet,
          log, records, truth, lost

proxyVars == <<proc, other, idle, leaked>>
busVars   == <<remembered, differs, present, bus, pending, cause>>
past      == <<skipped, before, doing, done, loaded>>
taskVars  == <<batches, outcomes, seen, history, disk, quota, past>>
costVars  == <<today, week, garbled, quiet>>
logVars   == <<log, records, truth, lost>>
run       == <<phase, cycle, stop, pidfile, lives, heartbeat, config>>
vars      == <<run, proxyVars, busVars, taskVars, costVars, logVars>>

Proxy == INSTANCE ProxySupervisor
Bus   == INSTANCE EventBus
Tasks == INSTANCE Dispatch
Cost  == INSTANCE CostMonitor
Learn == INSTANCE Outcomes

ASSUME WatchAssumption ==
    Proxy!SupervisorAssumption /\ Tasks!DispatchAssumption /\ Learn!OutcomesAssumption

\* The type of an event tells the outcome of a task from the news of a source,
\* and the planner's tasks name it as their source (event_bus.py:44-50, ooda.py:240).
ASSUME TasksAssumption ==
    /\ \A tasks \in {c.tasks : c \in Configs} \cup Plans :
           /\ tasks \in Seq(Range(tasks))
           /\ \A i \in DOMAIN tasks, ok \in BOOLEAN : <<tasks[i].id, ok>> \notin Bus!Sources
    /\ \A c \in Configs, plan \in Plans : Range(c.tasks) \cap Range(plan) = {}

Init ==
    /\ config \in Configs
    /\ phase = "top" /\ cycle = 0 /\ stop = FALSE /\ pidfile = TRUE /\ lives = 1 /\ heartbeat = "none"
    /\ Proxy!Init /\ Bus!Init /\ Tasks!Init /\ Cost!Init /\ Learn!Init

Running == phase \notin {"off", "cut", "ended"}
Goto(p) == phase' = p /\ UNCHANGED <<cycle, stop, pidfile, lives, heartbeat, config>>

Begin ==
    /\ phase = "top" /\ ~stop /\ phase' = "proxy"
    /\ cycle' = (IF cycle > config.restartBy THEN cycle ELSE cycle + 1)
    /\ Tasks!NewCycle
    /\ UNCHANGED <<stop, pidfile, lives, heartbeat, config, proxyVars, busVars, costVars, logVars>>
Leave ==
    /\ phase = "top" /\ stop /\ Goto("shutdown")
    /\ UNCHANGED <<proxyVars, busVars, taskVars, costVars, logVars>>

\* ensure_healthy; what it finds does not hold up the cycle.
CheckProxy ==
    /\ phase = "proxy"
    /\ \/ (Proxy!Healthy \/ Proxy!LeaveIt(config.auto)) /\ Goto("poll")
       \/ config.auto /\ Proxy!AttemptRestart /\ Goto("wait")
    /\ UNCHANGED <<busVars, taskVars, costVars, logVars>>
WaitForProxy ==
    /\ phase = "wait" /\ Proxy!Waited /\ Goto("poll")
    /\ UNCHANGED <<busVars, taskVars, costVars, logVars>>

\* The planner of the OODA loop is asked when a poll brought events; it may
\* fail, have nothing to propose, or answer what cannot be parsed.
AdHoc(events) == IF config.ooda /\ events # {} THEN {<<>>} \cup Plans ELSE {<<>>}
\* The events are polled and the tasks grouped, the planner's after the others.
StartCycle ==
    /\ phase = "poll" /\ Goto("tasks")
    /\ IF config.events THEN Bus!Poll ELSE UNCHANGED busVars
    /\ \E adHoc \in AdHoc(bus') : Tasks!StartTasks(config.tasks \o adHoc)
    /\ UNCHANGED <<proxyVars, costVars, logVars>>

Triggered == config.events /\ Bus!Matches(Tasks!First.trigger)
Dispatching == phase = "tasks" /\ ~stop
PassOverTask ==
    /\ Dispatching
    /\ \/ Tasks!Untriggered(Triggered) \/ Tasks!Unmet(Triggered)
       \/ Tasks!Duplicate(Triggered) \/ Tasks!SkipRecent(Triggered)
       \/ Tasks!PassOver(Triggered)
    /\ UNCHANGED <<run, proxyVars, busVars, costVars, logVars>>
\* The attempts of a task leave an entry in the run log, and an event.
RunTask(result) ==
    /\ Dispatching
    /\ Tasks!Run(Triggered, result)
    /\ Cost!Log(result = "passed", config.limit) /\ UNCHANGED <<garbled, quiet>>
    /\ IF config.events THEN Bus!Emit(<<Tasks!First.id, result = "passed">>) ELSE UNCHANGED busVars
    /\ UNCHANGED <<run, proxyVars, logVars>>
\* A task of a goal or a proposal, new every time: only its entry in the run
\* log matters here.  One of the pipeline promotes its change before that.
RunGoalTask(e) ==
    /\ (Dispatching /\ config.learns) \/ (phase = "promoted" /\ e = "ok")
    /\ Learn!Note(e) /\ Goto("tasks")
    /\ UNCHANGED <<proxyVars, busVars, taskVars, costVars>>
Promote ==
    /\ Dispatching /\ config.learns /\ Learn!RecordBaseline /\ Goto("promoted")
    /\ UNCHANGED <<proxyVars, busVars, taskVars, costVars>>
\* Nothing is left to do, or an exception, or a stop, ends the cycle.
EndTasks ==
    /\ phase \in {"poll", "tasks"} /\ Goto("house")
    /\ Tasks!Return /\ UNCHANGED <<history, disk, quota, past>>
    /\ UNCHANGED <<proxyVars, busVars, costVars, logVars>>

\* _write_heartbeat and _write_stopped_heartbeat, each with its health status.
WriteHeartbeat == heartbeat' = "running"
WriteStopped == heartbeat' = "stopped"

\* Housekeeping after every cycle, up to the pause it ends in; the heartbeat is
\* that of the cycle that is over.  The pauses for
\* the budget and the quota come before the test of max_runs, and the first
\* before the quota flag is reset.
KeepHouse ==
    /\ phase = "house"
    /\ Tasks!Save /\ UNCHANGED <<batches, outcomes, seen>>
    /\ Learn!Measure
    /\ Cost!CheckAndAlert(config.limit)
    /\ phase' = (IF Cost!Exhausted(config.limit) THEN "pause" ELSE "clear")
    /\ WriteHeartbeat
    /\ UNCHANGED <<cycle, stop, pidfile, lives, config, proxyVars, busVars>>
ClearCycle ==
    /\ phase = "clear"
    /\ Goto(IF quota THEN "pause"
            ELSE IF config.maxRuns > 0 /\ cycle >= config.maxRuns THEN "shutdown" ELSE "sleep")
    /\ quota' = FALSE
    /\ UNCHANGED <<batches, outcomes, seen, history, disk, past,
                   proxyVars, busVars, costVars, logVars>>

\* Mutant: the cycle after a pause starts without a look at the flag.
WakeOn ==
    /\ phase \in {"pause", "sleep"} /\ Goto("proxy")
    /\ Cost!Pass(config.limit) /\ idle' = Proxy!Tick
    /\ UNCHANGED <<proc, other, leaked, busVars, taskVars, logVars>>
\* Every pause is followed by the test of the flag.
Wake ==
    /\ phase \in {"pause", "sleep"} /\ Goto("top")
    /\ Cost!Pass(config.limit) /\ idle' = Proxy!Tick
    /\ UNCHANGED <<proc, other, leaked, busVars, taskVars, logVars>>

\* The stopped heartbeat, the pid file, the claims, and the managed proxy.
Shutdown ==
    /\ phase = "shutdown" /\ phase' = "ended" /\ pidfile' = FALSE /\ WriteStopped
    /\ Proxy!StopManaged
    /\ UNCHANGED <<cycle, stop, lives, config, busVars, taskVars, costVars, logVars>>

\* Ctrl+C caught: in a pause, which it ends; in a cycle only as the
\* KeyboardInterrupt that a second one raises while the first, a cancellation,
\* is not yet delivered; the record of successes is saved then.
Interrupt ==
    /\ \/ phase \in {"poll", "tasks"} /\ Tasks!Return /\ Tasks!Save
       \/ phase \in {"pause", "sleep"} /\ UNCHANGED taskVars
    /\ Goto("shutdown")
    /\ UNCHANGED <<proxyVars, busVars, costVars, logVars>>
\* A signal whose handler sets the flag; it is looked at here.
RequestStop ==
    /\ phase \in {"top", "tasks"} /\ ~stop /\ stop' = TRUE
    /\ UNCHANGED <<phase, cycle, pidfile, lives, heartbeat, config, proxyVars, busVars, taskVars, costVars, logVars>>

\* The process goes without the clean-up: its pid file stays, its heartbeat, its
\* unsaved record, and the proxy it started.
CutOff(p) ==
    /\ Goto(p) /\ Proxy!Abandon
    /\ Tasks!Return /\ UNCHANGED <<history, disk, quota, past>>
    /\ UNCHANGED <<busVars, costVars, logVars>>
\* Ctrl+C where no signal handler is set (Windows): asyncio cancels the main
\* task, and at the next await of a cycle the CancelledError passes both handlers.
Cancelled == phase \in {"poll", "tasks", "promoted"} /\ CutOff("cut")
\* Killed, or an exception of the housekeeping.
Die == Running /\ CutOff("off")
Restart ==
    /\ ~Running /\ cycle <= config.restartBy /\ lives < Lives
    /\ phase' = "top" /\ cycle' = 0 /\ stop' = FALSE /\ pidfile' = TRUE /\ lives' = lives + 1
    /\ Proxy!Forget /\ Bus!Forget /\ Tasks!Load(cycle) /\ Cost!Forget
    /\ UNCHANGED <<heartbeat, config, logVars>>

ProxyChanges ==
    /\ phase = "proxy" /\ Proxy!Environment /\ UNCHANGED <<idle, leaked>>
    /\ UNCHANGED <<run, busVars, taskVars, costVars, logVars>>
SourceChanges ==
    /\ phase = "poll" /\ config.events /\ Bus!Environment
    /\ UNCHANGED <<run, proxyVars, taskVars, costVars, logVars>>

Cycle ==
    \/ Begin \/ Leave \/ CheckProxy \/ WaitForProxy \/ StartCycle
    \/ PassOverTask \/ \E result \in {"passed", "failed", "quota"} : RunTask(result)
    \/ Promote \/ (\E e \in Learn!Entries : RunGoalTask(e)) \/ EndTasks \/ KeepHouse \/ ClearCycle \/ Wake \/ Shutdown

Next ==
    \/ Cycle
    \/ Interrupt \/ RequestStop \/ Cancelled \/ Die \/ Restart \/ ProxyChanges \/ SourceChanges

\* A process that lives goes on.
Fairness == WF_vars(Cycle)

Spec == Init /\ [][Next]_vars /\ Fairness

-----------------------------------------------------------------------------

TypeOK ==
    /\ phase \in {"top", "proxy", "wait", "poll", "tasks", "promoted", "house", "clear", "pause", "sleep",
                  "shutdown", "ended", "cut", "off"}
    /\ heartbeat \in {"none", "running", "stopped"}
    /\ Proxy!TypeOK /\ Bus!TypeOK /\ Tasks!TypeOK /\ Cost!TypeOK /\ Learn!TypeOK

Planned(batch) == \E plan \in Plans : \E i \in DOMAIN plan : plan[i] \in Range(batch)

\* An event the tasks of a cycle see comes from a change of its source since
\* the source was read last: the baseline of a new process, a feed out of reach
\* and the events of earlier cycles make none (event_bus.py, watcher.py:505).  A
\* task of the planner waits only where such a change was seen (ooda.py:114-178).
NoPhantomEvent ==
    phase \in {"tasks", "house"} =>
        /\ bus \cap Bus!Sources \subseteq cause
        /\ \A i \in DOMAIN batches : Planned(batches[i]) => cause # {}

\* A task is passed over as done only if it succeeded in the cycle before, or
\* if an earlier process recorded it, and then not twice in a row: the ages on
\* disk are counted in another process's cycles (watcher.py:1237-1244, 312-342).
SkipEarned == skipped \subseteq done \cup (loaded \ before)

\* A stop request is not lost, whichever pause, retry or trigger it meets: the
\* loop gets out, without its pid file, without a proxy process that it started and
\* no longer stops, and says that it stopped (watcher.py:1946-2110,
\* proxy_supervisor.py:226-262); excepted is a watcher that is cut off before.
StoppedClean ==
    /\ phase = "ended" /\ ~pidfile /\ heartbeat = "stopped"
    /\ proc = "none" /\ leaked = 0
StopsClean == stop ~> (StoppedClean \/ phase \in {"cut", "off"})

\* While a watcher goes on, every process it started is the one it supervises; when
\* it returned there is none, nor a pid file, and its heartbeat says stopped.  One
\* that works has said that it is running since its first cycle was over, and only
\* one that returned, it or the one before it, has said that it stopped
\* (watcher.py:2092-2110, 2151-2186, proxy_supervisor.py:226-262).
LeftClean ==
    /\ Running \/ phase = "ended" => leaked = 0
    /\ phase = "ended" => StoppedClean
    /\ Running /\ cycle > 1 => heartbeat = "running"
    /\ heartbeat = "stopped" => phase = "ended" \/ lives > 1

\* A proxy of its own that ended is not left at that: again and again there is
\* none, or another, or the proxy answers, for as long as the watcher goes on
\* (proxy_supervisor.py:150-262).
DeadReplaced ==
    config.auto => []<>(proc # "dead" \/ Proxy!Answers)

\* The verdict on a promoted proposal is that of the first tasks after it that
\* the environment let run, whenever it is measured; a rotated log may have
\* taken them away (proposal_outcomes.py:247-314).
VerdictFair ==
    \A i \in DOMAIN records :
        records[i].verdict # "none" /\ i \notin lost =>
            records[i].verdict = Learn!Verdict(records[i].before, Learn!Snapshot(truth[i]))
============================================================================
