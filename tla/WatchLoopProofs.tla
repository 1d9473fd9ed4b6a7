-------------------------- MODULE WatchLoopProofs --------------------------
(***************************************************************************)
(* For any tasks, events, settings and numbers of lives: what a watcher    *)
(* leaves behind, which events it sees, which tasks it passes over as      *)
(* done, and how it judges a promoted change.                              *)
(***************************************************************************)
EXTENDS WatchLoop, WellFoundedInduction, SequenceTheorems, TLAPS

\* The phases between the heartbeat of a cycle and the start of the next.
Beaten == {"clear", "pause", "sleep"}

\* No process was started while another one lived.
Tidy ==
    /\ Running \/ phase = "ended" => leaked = 0
    /\ phase = "ended" => ~pidfile /\ proc = "none" /\ heartbeat = "stopped"
    /\ heartbeat = "stopped" => phase = "ended" \/ lives > 1
    /\ lives \in Nat /\ lives >= 1

\* Every cycle that is over has left its heartbeat.
Reported ==
    /\ cycle \in Nat
    /\ phase \in Beaten \/ (phase = "top" /\ cycle >= 1) \/ (Running /\ cycle > 1)
          => heartbeat = "running"

IInv == Tidy /\ Reported

LEMMA InitIInv == Init => IInv
  BY DEF Init, Proxy!Init, IInv, Tidy, Reported, Beaten

LEMMA NextIInv == IInv /\ [Next]_vars => IInv'
<1> SUFFICES ASSUME IInv, [Next]_vars PROVE IInv'
  OBVIOUS
<1> USE DEF IInv, Tidy, Reported, Beaten, Running, Goto
<1>1. CASE Begin
  BY <1>1 DEF Begin, proxyVars
<1>2. CASE Leave
  BY <1>2 DEF Leave, proxyVars
<1>3. CASE CheckProxy
  <2>1. leaked' = leaked
    BY <1>3 DEF CheckProxy, Proxy!Healthy, Proxy!LeaveIt, Proxy!vars, Proxy!AttemptRestart,
       Proxy!Spawns, Proxy!Reaped, Proxy!Alive
  <2> QED
    BY <1>3, <2>1 DEF CheckProxy
<1>4. CASE WaitForProxy
  BY <1>4 DEF WaitForProxy, Proxy!Waited
<1>5. CASE StartCycle \/ EndTasks \/ Promote
  BY <1>5 DEF StartCycle, EndTasks, Promote, Dispatching, proxyVars
<1>6. CASE PassOverTask \/ (\E result \in {"passed", "failed", "quota"} : RunTask(result))
  BY <1>6 DEF PassOverTask, RunTask, proxyVars, run
<1>7. CASE \E e \in Learn!Entries : RunGoalTask(e)
  BY <1>7 DEF RunGoalTask, Dispatching, proxyVars
<1>8. CASE KeepHouse
  BY <1>8 DEF KeepHouse, WriteHeartbeat, proxyVars
<1>9. CASE ClearCycle \/ Wake
  BY <1>9 DEF ClearCycle, Wake, proxyVars
<1>10. CASE Shutdown
  BY <1>10 DEF Shutdown, WriteStopped, Proxy!StopManaged
<1>11. CASE Interrupt
  BY <1>11 DEF Interrupt, proxyVars
<1>12. CASE RequestStop
  BY <1>12 DEF RequestStop, proxyVars
<1>13. CASE Die \/ Cancelled \/ Restart
  <2>1. CASE Die \/ Cancelled
    BY <2>1 DEF Die, Cancelled, CutOff
  <2>2. CASE Restart
    BY <2>2 DEF Restart, Proxy!Forget
  <2> QED
    BY <1>13, <2>1, <2>2
<1>14. CASE ProxyChanges \/ SourceChanges
  BY <1>14 DEF ProxyChanges, SourceChanges, proxyVars, run
<1>15. CASE UNCHANGED vars
  BY <1>15 DEF vars, run, proxyVars
<1> QED
  BY <1>1, <1>2, <1>3, <1>4, <1>5, <1>6, <1>7, <1>8, <1>9, <1>10, <1>11, <1>12, <1>13,
     <1>14, <1>15 DEF Next, Cycle

(***************************************************************************)
(* A watcher that goes on supervises every process it started; one that    *)
(* returned has removed its pid file, stopped its proxy and reported that  *)
(* it stopped.  Nothing is said of what one leaves that is killed, or      *)
(* cancelled by Ctrl+C within a cycle (watcher.py:2092-2110, 2151-2186,    *)
(* proxy_supervisor.py:226-262).                                           *)
(***************************************************************************)
THEOREM LeavesClean == Spec => []LeftClean
<1>1. IInv => LeftClean
  BY DEF IInv, Tidy, Reported, LeftClean, StoppedClean
<1> QED
  BY <1>1, InitIInv, NextIInv, PTL DEF Spec

(***************************************************************************)
(* Induction over the natural numbers, for a set of them.                  *)
(***************************************************************************)
LEMMA LeastNatural ==
    ASSUME NEW T, T \subseteq Nat, T # {}
    PROVE  \E n \in T : \A m \in T : n <= m
<1> DEFINE R == OpToRel(<, Nat)
<1>1. IsWellFoundedOn(R, Nat)
  BY NatLessThanWellFounded
<1> HIDE DEF R
<1>2. PICK n \in T : \A m \in T : ~ (<<m, n>> \in R)
  BY <1>1, WFMin
<1>3. ASSUME NEW m \in T PROVE n <= m
  <2>1. m < n => <<m, n>> \in R
    BY DEF R, OpToRel
  <2> QED
    BY <1>2, <2>1
<1> QED
  BY <1>2, <1>3

LEMMA NatSetInduction ==
    ASSUME NEW T, 0 \in T, \A n \in Nat : n \in T => n + 1 \in T
    PROVE  Nat \subseteq T
<1> SUFFICES ASSUME Nat \ T # {} PROVE FALSE
  OBVIOUS
<1>1. PICK n \in Nat \ T : \A m \in Nat \ T : n <= m
  BY LeastNatural
<1>2. n - 1 \in Nat /\ n - 1 \notin Nat \ T
  BY <1>1
<1> QED
  BY <1>1, <1>2


(***************************************************************************)
(* The batches of a list of tasks.                                         *)
(***************************************************************************)
\* The recursive function that groups tasks exists.
LEMMA GroupedDef ==
    ASSUME NEW tasks, Len(tasks) \in Nat
    PROVE  Tasks!Grouped(tasks) = [i \in 0..Len(tasks) |->
               IF i = 0 THEN <<>> ELSE Tasks!Joined(Tasks!Grouped(tasks)[i - 1], tasks[i])]
<1> DEFINE Fits(f, n) == f = [i \in 0..n |-> IF i = 0 THEN <<>> ELSE Tasks!Joined(f[i - 1], tasks[i])]
           T == {n \in Nat : \E f : Fits(f, n)}
<1>1. 0 \in T
  <2>1. Fits([i \in 0..0 |-> <<>>], 0)
    OBVIOUS
  <2> QED
    BY <2>1
<1>2. ASSUME NEW n \in Nat, n \in T PROVE n + 1 \in T
  <2>1. PICK f : Fits(f, n)
    BY <1>2
  <2> DEFINE g == [i \in 0..n + 1 |-> IF i = n + 1 THEN Tasks!Joined(f[n], tasks[n + 1]) ELSE f[i]]
  <2>2. \A i \in 0..n : f[i] = IF i = 0 THEN <<>> ELSE Tasks!Joined(f[i - 1], tasks[i])
    BY <2>1, Zenon
  <2>3. ASSUME NEW i \in 0..n + 1
        PROVE  g[i] = IF i = 0 THEN <<>> ELSE Tasks!Joined(g[i - 1], tasks[i])
    <3>1. CASE i = n + 1
      BY <3>1
    <3>2. CASE i # n + 1
      <4>1. i \in 0..n /\ (i # 0 => i - 1 \in 0..n /\ i - 1 # n + 1)
        BY <3>2
      <4> QED
        BY <2>2, <4>1
    <3> QED
      BY <3>1, <3>2
  <2>4. Fits(g, n + 1)
    BY <2>3
  <2>5. \E f1 : Fits(f1, n + 1)
    BY <2>4
  <2> QED
    BY <2>5
<1>3. \E f : Fits(f, Len(tasks))
  BY <1>1, <1>2, NatSetInduction
<1>4. Tasks!Grouped(tasks) = CHOOSE f : Fits(f, Len(tasks))
  BY DEF Tasks!Grouped
<1> HIDE DEF Fits
<1>5. Fits(Tasks!Grouped(tasks), Len(tasks))
  BY <1>3, <1>4
<1> QED
  BY <1>5 DEF Fits

Batches(M) == Seq(M) \ {<<>>}

\* A task is added to the last batch or makes one of its own.
LEMMA JoinedIn ==
    ASSUME NEW M, NEW bs \in Seq(Batches(M)), NEW t \in M
    PROVE  Tasks!Joined(bs, t) \in Seq(Batches(M))
<1>1. ASSUME NEW b \in Seq(M) PROVE Append(b, t) \in Batches(M)
  <2>1. Append(b, t) \in Seq(M) /\ Len(Append(b, t)) = Len(b) + 1 /\ Len(b) \in Nat
    OBVIOUS
  <2>2. Append(b, t) # <<>>
    BY <2>1
  <2> QED
    BY <2>1, <2>2 DEF Batches
<1>2. <<t>> \in Batches(M)
  BY DEF Batches
<1>3. CASE bs # <<>>
  <2>1. Tasks!Last(bs) \in Seq(M)
    BY <1>3 DEF Tasks!Last, Batches
  <2>2. Tasks!Front(bs) \in Seq(Batches(M))
    BY <1>3 DEF Tasks!Front
  <2>3. <<Append(Tasks!Last(bs), t)>> \in Seq(Batches(M))
    BY <1>1, <2>1
  <2>4. Append(bs, <<t>>) \in Seq(Batches(M))
    BY <1>2
  <2>5. Tasks!Front(bs) \o <<Append(Tasks!Last(bs), t)>> \in Seq(Batches(M))
    BY <2>2, <2>3, ConcatProperties
  <2> QED
    BY <2>4, <2>5 DEF Tasks!Joined
<1>4. CASE bs = <<>>
  BY <1>2, <1>4 DEF Tasks!Joined
<1> QED
  BY <1>3, <1>4

\* Every batch has a task, and all its tasks are from the list.
LEMMA GroupIn ==
    ASSUME NEW M, NEW tasks \in Seq(M)
    PROVE  Tasks!Group(tasks) \in Seq(Batches(M))
<1> DEFINE f == Tasks!Grouped(tasks)
           T == {i \in Nat : i <= Len(tasks) => f[i] \in Seq(Batches(M))}
<1>1. Len(tasks) \in Nat
  OBVIOUS
<1>2. \A i \in 0..Len(tasks) : f[i] = IF i = 0 THEN <<>> ELSE Tasks!Joined(f[i - 1], tasks[i])
  BY <1>1, GroupedDef, Zenon
<1> HIDE DEF f
<1>3. 0 \in T
  <2>1. f[0] = <<>>
    BY <1>1, <1>2
  <2>2. <<>> \in Seq(Batches(M))
    OBVIOUS
  <2> QED
    BY <2>1, <2>2
<1>4. ASSUME NEW i \in Nat, i \in T PROVE i + 1 \in T
  <2> SUFFICES ASSUME i + 1 <= Len(tasks) PROVE f[i + 1] \in Seq(Batches(M))
    OBVIOUS
  <2>1. i + 1 \in 0..Len(tasks) /\ i + 1 # 0 /\ (i + 1) - 1 = i /\ tasks[i + 1] \in M
    BY <1>1
  <2>2. f[i + 1] = Tasks!Joined(f[i], tasks[i + 1])
    BY <1>2, <2>1
  <2>3. f[i] \in Seq(Batches(M))
    BY <1>1, <1>4, <2>1
  <2> QED
    BY <2>1, <2>2, <2>3, JoinedIn
<1>5. Len(tasks) \in T
  BY <1>1, <1>3, <1>4, NatSetInduction
<1> QED
  BY <1>1, <1>5 DEF Tasks!Group, f

(***************************************************************************)
(* The events of a cycle and their causes.                                 *)
(***************************************************************************)
Listed == Range(config.tasks)
Known == Listed \cup UNION {Range(plan) : plan \in Plans}

Caused ==
    /\ config \in Configs
    /\ remembered \cap differs \subseteq pending
    /\ bus \cap Bus!Sources \subseteq cause
    /\ config.events \/ bus = {}

Answering ==
    /\ batches \in Seq(Batches(Known))
    /\ cause = {} => batches \in Seq(Batches(Listed))

\* A new poll finds only news of sources that changed.
LEMMA PollCaused ==
    ASSUME Caused, config.events, config' = config, Bus!Poll
    PROVE  Caused' /\ bus' \subseteq cause'
<1>1. PICK reached \in SUBSET (Feeds \cup present) :
        /\ bus' = Bus!News(reached)
        /\ remembered' = (remembered \cap Feeds) \cup reached
        /\ differs' = differs \ reached
        /\ pending' = pending \ reached /\ cause' = pending \cap reached
  BY DEF Bus!Poll, Bus!Cleared
<1> QED
  BY <1>1 DEF Caused, Bus!News

\* What a source does shows as pending.
LEMMA ChangesPend ==
    ASSUME Caused, config' = config, Bus!Environment
    PROVE  Caused' /\ cause' = cause
<1>1. CASE \E s \in Bus!Sources : Bus!Change(s)
  BY <1>1 DEF Bus!Change, Caused
<1>2. CASE \E f \in Files : Bus!Remove(f) \/ Bus!Create(f)
  BY <1>2 DEF Bus!Remove, Bus!Create, Caused
<1> QED
  BY <1>1, <1>2 DEF Bus!Environment

\* The outcome of a task is no news of a source.
LEMMA KnownTasks ==
    ASSUME config \in Configs, NEW t \in Known, NEW ok \in BOOLEAN
    PROVE  <<t.id, ok>> \notin Bus!Sources
<1>1. PICK tasks \in {c.tasks : c \in Configs} \cup Plans : t \in Range(tasks)
  BY DEF Known, Listed
<1>2. PICK i \in DOMAIN tasks : t = tasks[i]
  BY <1>1 DEF Range
<1> QED
  BY <1>2, TasksAssumption

\* The batches of a cycle, with what the planner answered.
LEMMA StartAnswering ==
    ASSUME config \in Configs, NEW adHoc, adHoc = <<>> \/ (adHoc \in Plans /\ cause' # {}),
           config' = config, batches' = Tasks!Group(config.tasks \o adHoc)
    PROVE  Answering'
<1>1. config.tasks \in Seq(Listed)
  BY TasksAssumption DEF Listed
<1>2. CASE adHoc = <<>>
  <2>1. config.tasks \o adHoc \in Seq(Listed) /\ config.tasks \o adHoc \in Seq(Known)
    <3>1. config.tasks \o <<>> = config.tasks
      BY <1>1, ConcatEmptySeq
    <3> QED
      BY <1>1, <1>2, <3>1 DEF Known
  <2>2. /\ Tasks!Group(config.tasks \o adHoc) \in Seq(Batches(Listed))
        /\ Tasks!Group(config.tasks \o adHoc) \in Seq(Batches(Known))
    BY <2>1, GroupIn
  <2> QED
    BY <2>2 DEF Answering, Known, Listed
<1>3. CASE adHoc \in Plans /\ cause' # {}
  <2>1. adHoc \in Seq(Range(adHoc))
    BY <1>3, TasksAssumption
  <2>2. config.tasks \in Seq(Known) /\ adHoc \in Seq(Known)
    BY <1>1, <1>3, <2>1 DEF Known
  <2>3. config.tasks \o adHoc \in Seq(Known)
    BY <2>2, ConcatProperties
  <2>4. Tasks!Group(config.tasks \o adHoc) \in Seq(Batches(Known))
    BY <2>3, GroupIn
  <2> QED
    BY <1>3, <2>4 DEF Answering, Known, Listed
<1> QED
  BY <1>2, <1>3

\* The task that is looked at is from the campaign or a plan.
LEMMA FirstKnown ==
    ASSUME Answering, batches # <<>>
    PROVE  Tasks!First \in Known
<1>1. Head(batches) \in Batches(Known)
  BY DEF Answering
<1>2. Head(batches) \in Seq(Known) /\ Head(batches) # <<>>
  BY <1>1 DEF Batches
<1>3. Head(batches)[1] \in Known
  BY <1>2
<1> QED
  BY <1>3 DEF Tasks!First, Tasks!Current

\* The rest of the batches, or none, are as before.
LEMMA DropAnswering ==
    ASSUME Answering, batches # <<>>, batches' = Tail(batches), cause' = cause, config' = config
    PROVE  Answering'
<1>1. \A S : batches \in Seq(S) => Tail(batches) \in Seq(S)
  OBVIOUS
<1> QED
  BY <1>1 DEF Answering, Known, Listed

LEMMA NoneAnswering == ASSUME batches' = <<>> PROVE Answering'
<1>1. \A S : <<>> \in Seq(S)
  OBVIOUS
<1> QED
  BY <1>1 DEF Answering

EventInv == Caused /\ Answering

LEMMA InitEventInv == Init => EventInv
<1>1. \A S : <<>> \in Seq(S)
  OBVIOUS
<1> QED
  BY <1>1 DEF Init, Bus!Init, Tasks!Init, EventInv, Caused, Answering

\* One step of the watcher: only polls and outcomes make events.
LEMMA NextEventInv == EventInv /\ [Next]_vars => EventInv'
<1> SUFFICES ASSUME EventInv, [Next]_vars PROVE EventInv'
  OBVIOUS
<1> USE DEF EventInv
<1>0. config' = config
  BY DEF Next, Cycle, Begin, Leave, CheckProxy, WaitForProxy, StartCycle, PassOverTask, RunTask,
     Promote, RunGoalTask, EndTasks, KeepHouse, ClearCycle, Wake, Shutdown, Interrupt,
     RequestStop, Cancelled, Die, CutOff, Restart, ProxyChanges, SourceChanges, Goto, run, vars
<1>1. UNCHANGED busVars => Caused'
  BY <1>0 DEF busVars, Caused
<1>2. UNCHANGED busVars /\ batches' = batches => EventInv'
  BY <1>0, <1>1 DEF busVars, Answering, Known, Listed
<1>3. CASE StartCycle
  <2>1. /\ IF config.events THEN Bus!Poll ELSE UNCHANGED busVars
        /\ \E adHoc \in AdHoc(bus') : batches' = Tasks!Group(config.tasks \o adHoc)
    BY <1>3 DEF StartCycle, Tasks!StartTasks
  <2>2. Caused' /\ bus' \cap Bus!Sources \subseteq cause'
    BY <1>0, <1>1, <2>1, PollCaused DEF Caused
  <2>3. bus' # {} => cause' # {}
    BY <1>0, <1>1, <2>1, PollCaused DEF Caused, busVars
  <2>4. PICK adHoc \in AdHoc(bus') : batches' = Tasks!Group(config.tasks \o adHoc)
    BY <2>1
  <2>5. adHoc = <<>> \/ (adHoc \in Plans /\ cause' # {})
    BY <2>3, <2>4 DEF AdHoc
  <2> QED
    BY <1>0, <2>2, <2>4, <2>5, StartAnswering DEF Caused
<1>4. CASE PassOverTask
  <2>1. batches # <<>> /\ batches' = Tail(batches) /\ UNCHANGED busVars
    BY <1>4 DEF PassOverTask, Tasks!Untriggered, Tasks!Unmet, Tasks!Duplicate, Tasks!SkipRecent,
       Tasks!PassOver, Tasks!Due, Tasks!Fresh, Tasks!Wanted, Tasks!Ready, Tasks!Over, Tasks!Drop
  <2> QED
    BY <1>0, <1>1, <2>1, DropAnswering DEF busVars
<1>5. ASSUME NEW result \in {"passed", "failed", "quota"}, RunTask(result) PROVE EventInv'
  <2>1. /\ batches # <<>> /\ batches' = Tail(batches)
        /\ \/ Bus!Emit(<<Tasks!First.id, result = "passed">>) /\ config.events
           \/ UNCHANGED busVars
    BY <1>5 DEF RunTask, Tasks!Run, Tasks!Due, Tasks!Fresh, Tasks!Wanted, Tasks!Ready,
       Tasks!Over, Tasks!Drop
  <2>2. CASE Bus!Emit(<<Tasks!First.id, result = "passed">>) /\ config.events
    <3>1. <<Tasks!First.id, result = "passed">> \notin Bus!Sources
      BY <2>1, FirstKnown, KnownTasks DEF Caused
    <3>2. Caused' /\ cause' = cause
      BY <1>0, <2>2, <3>1 DEF Bus!Emit, Caused
    <3> QED
      BY <1>0, <2>1, <3>2, DropAnswering
  <2> QED
    BY <1>0, <1>1, <2>1, <2>2, DropAnswering DEF busVars
<1>6. CASE EndTasks \/ Cancelled \/ Die
  BY <1>1, <1>6, NoneAnswering DEF EndTasks, Cancelled, Die, CutOff, Tasks!Return
<1>7. CASE Interrupt
  BY <1>1, <1>2, <1>7, NoneAnswering DEF Interrupt, Tasks!Return, taskVars
<1>8. CASE Restart
  BY <1>0, <1>8, NoneAnswering DEF Restart, Bus!Forget, Tasks!Load, Tasks!Return, Caused
<1>9. CASE SourceChanges
  BY <1>0, <1>9, ChangesPend DEF SourceChanges, taskVars, Answering, Known, Listed
<1>10. CASE \/ Begin \/ Leave \/ CheckProxy \/ WaitForProxy \/ Promote \/ KeepHouse \/ ClearCycle
            \/ Wake \/ Shutdown \/ RequestStop \/ ProxyChanges \/ UNCHANGED vars
            \/ \E e \in Learn!Entries : RunGoalTask(e)
  BY <1>2, <1>10 DEF Begin, Leave, CheckProxy, WaitForProxy, Promote, KeepHouse, ClearCycle,
     Wake, Shutdown, RequestStop, ProxyChanges, RunGoalTask, Tasks!NewCycle, Tasks!Save,
     taskVars, vars
<1> QED
  BY <1>3, <1>4, <1>5, <1>6, <1>7, <1>8, <1>9, <1>10 DEF Next, Cycle

(***************************************************************************)
(* An event that the tasks of a cycle see comes from a change of its       *)
(* source since it was read last, and a task of the planner waits only     *)
(* when there was such a change: neither the first look at a source nor an *)
(* event of an earlier cycle makes one.                                    *)
(***************************************************************************)
THEOREM EventsCaused == Spec => []NoPhantomEvent
<1>1. EventInv => NoPhantomEvent
  <2> SUFFICES ASSUME EventInv, cause = {}, NEW i \in DOMAIN batches, Planned(batches[i]) PROVE FALSE
    BY DEF NoPhantomEvent, EventInv, Caused
  <2>1. batches[i] \in Seq(Listed)
    BY DEF EventInv, Answering, Batches
  <2>2. PICK plan \in Plans : \E j \in DOMAIN plan : plan[j] \in Range(batches[i])
    BY DEF Planned
  <2>3. Range(batches[i]) \subseteq Listed
    BY <2>1 DEF Range
  <2>4. PICK t \in Listed : t \in Range(plan)
    BY <2>2, <2>3 DEF Range
  <2> QED
    BY <2>2, <2>4, TasksAssumption DEF Listed, EventInv, Caused
<1> QED
  BY <1>1, InitEventInv, NextEventInv, PTL DEF Spec

(***************************************************************************)
(* The successes a process remembers, and how old they are.                *)
(***************************************************************************)
\* What is remembered succeeded here, or was loaded.
Dated ==
    \A p \in DOMAIN history :
        /\ history[p] \in Int
        /\ p \notin loaded =>
               /\ history[p] >= 0
               /\ history[p] = 0 => p \in doing
               /\ history[p] = 1 => p \in done
        /\ p \in loaded \ doing =>
               /\ p \in skipped => history[p] = 1
               /\ p \in before => history[p] = 2

AgeInv ==
    /\ cycle \in Int /\ \A p \in DOMAIN disk : disk[p] \in Int
    /\ Dated /\ \A p \in doing : p \in DOMAIN history => history[p] = 0
    /\ skipped \subseteq done \cup (loaded \ before)

LEMMA InitAgeInv == Init => AgeInv
  BY DEF Init, Tasks!Init, Tasks!Nothing, AgeInv, Dated

\* One step of the watcher: only a success makes an entry young.
LEMMA NextAgeInv == AgeInv /\ [Next]_vars => AgeInv'
<1> SUFFICES ASSUME AgeInv, [Next]_vars PROVE AgeInv'
  OBVIOUS
<1> USE DEF AgeInv
<1>1. cycle' \in Int
  BY DEF Next, Cycle, Begin, Leave, CheckProxy, WaitForProxy, StartCycle, PassOverTask, RunTask,
     Promote, RunGoalTask, EndTasks, KeepHouse, ClearCycle, Wake, Shutdown, Interrupt,
     RequestStop, Cancelled, Die, CutOff, Restart, ProxyChanges, SourceChanges, Goto, run, vars
<1>2. UNCHANGED <<history, disk, past>> => AgeInv'
  BY <1>1 DEF past, Dated
<1>3. CASE Begin
  <2>1. /\ history' = [p \in DOMAIN history |-> history[p] + 1]
        /\ disk' = [p \in DOMAIN disk |-> disk[p] + 1]
        /\ before' = skipped /\ skipped' = {} /\ done' = doing /\ doing' = {}
        /\ loaded' = loaded \ doing
    BY <1>3 DEF Begin, Tasks!NewCycle, Tasks!Aged
  <2>2. Dated'
    <3> SUFFICES ASSUME NEW p \in DOMAIN history
                 PROVE  /\ history'[p] \in Int
                        /\ p \notin loaded' =>
                               /\ history'[p] >= 0
                               /\ history'[p] = 0 => p \in doing'
                               /\ history'[p] = 1 => p \in done'
                        /\ p \in loaded' \ doing' =>
                               /\ p \in skipped' => history'[p] = 1
                               /\ p \in before' => history'[p] = 2
      BY <2>1 DEF Dated
    <3> QED
      BY <2>1 DEF Dated
  <2> QED
    BY <1>1, <2>1, <2>2
<1>4. Tasks!Save /\ UNCHANGED past => AgeInv'
  <2> SUFFICES ASSUME Tasks!Save, UNCHANGED past PROVE AgeInv'
    OBVIOUS
  <2>1. /\ history' = [p \in {q \in DOMAIN history : history[q] <= 2} |-> history[p]]
        /\ disk' = [p \in {q \in DOMAIN history : history[q] <= 2} |-> history[p]]
    BY DEF Tasks!Save, Tasks!Pruned
  <2> QED
    BY <1>1, <2>1 DEF past, Dated
<1>5. CASE PassOverTask
  <2>1. CASE Tasks!SkipRecent(Triggered)
    <3> DEFINE p == Tasks!Prompt(Tasks!Current)
    <3>1. /\ p \in DOMAIN history /\ history[p] = 1 /\ skipped' = skipped \cup {p}
          /\ UNCHANGED <<history, disk, before, doing, done, loaded>>
      BY <2>1 DEF Tasks!SkipRecent, Tasks!Recently, Tasks!Noted
    <3> HIDE DEF p
    <3>2. p \notin doing /\ (p \in done \/ (p \in loaded /\ p \notin before))
      BY <3>1 DEF Dated
    <3>3. Dated'
      BY <3>1 DEF Dated
    <3> QED
      BY <1>1, <3>1, <3>2, <3>3
  <2>2. CASE \/ Tasks!Untriggered(Triggered) \/ Tasks!Unmet(Triggered)
             \/ Tasks!Duplicate(Triggered) \/ Tasks!PassOver(Triggered)
    BY <1>2, <2>2 DEF Tasks!Untriggered, Tasks!Unmet, Tasks!Duplicate, Tasks!PassOver,
       past, Tasks!past
  <2> QED
    BY <1>5, <2>1, <2>2 DEF PassOverTask
<1>6. ASSUME NEW result \in {"passed", "failed", "quota"}, RunTask(result) PROVE AgeInv'
  <2>1. CASE result = "passed"
    <3> DEFINE new == Tasks!Recorded(Tasks!Current)
    <3>1. /\ history' = [p \in DOMAIN history \cup new |-> IF p \in new THEN 0 ELSE history[p]]
          /\ doing' = doing \cup new
          /\ UNCHANGED <<disk, skipped, before, done, loaded>>
      BY <1>6, <2>1 DEF RunTask, Tasks!Run, Tasks!Merge
    <3> HIDE DEF new
    <3>2. Dated'
      BY <3>1 DEF Dated
    <3> QED
      BY <1>1, <3>1, <3>2
  <2>2. CASE result # "passed"
    BY <1>2, <1>6, <2>2 DEF RunTask, Tasks!Run, past
  <2> QED
    BY <2>1, <2>2
<1>7. CASE KeepHouse \/ Interrupt
  BY <1>2, <1>4, <1>7 DEF KeepHouse, Interrupt, taskVars, Tasks!Save, past, Tasks!past
<1>8. CASE Restart
  <2>1. /\ history' = [p \in DOMAIN disk |-> disk[p] - cycle] /\ disk' = history'
        /\ loaded' = DOMAIN disk /\ skipped' = {} /\ before' = {} /\ doing' = {} /\ done' = {}
    BY <1>8 DEF Restart, Tasks!Load
  <2> QED
    BY <1>1, <2>1 DEF Dated
<1>9. CASE \/ Leave \/ CheckProxy \/ WaitForProxy \/ StartCycle \/ Promote \/ EndTasks \/ ClearCycle
           \/ Wake \/ Shutdown \/ RequestStop \/ Cancelled \/ Die \/ ProxyChanges \/ SourceChanges
           \/ UNCHANGED vars \/ \E e \in Learn!Entries : RunGoalTask(e)
  BY <1>2, <1>9 DEF Leave, CheckProxy, WaitForProxy, StartCycle, Promote, EndTasks, ClearCycle,
     Wake, Shutdown, RequestStop, Cancelled, Die, CutOff, ProxyChanges, SourceChanges, RunGoalTask,
     Tasks!StartTasks, taskVars, vars, past, Tasks!past
<1> QED
  BY <1>3, <1>5, <1>6, <1>7, <1>8, <1>9 DEF Next, Cycle

(***************************************************************************)
(* A task is passed over as done only when it succeeded in the cycle       *)
(* before, or when an earlier process recorded it and it was not passed    *)
(* over in the cycle before: no skip makes the next one.                   *)
(***************************************************************************)
THEOREM SkipsEarned == Spec => []SkipEarned
<1>1. AgeInv => SkipEarned
  BY DEF AgeInv, SkipEarned
<1> QED
  BY <1>1, InitAgeInv, NextAgeInv, PTL DEF Spec

(***************************************************************************)
(* The entries of agents in a log.                                         *)
(***************************************************************************)
Kept(s, e) == IF e = "environment" THEN s ELSE Append(s, e)

\* The recursive function that filters a log exists.
LEMMA FilteredDef ==
    ASSUME NEW entries, Len(entries) \in Nat
    PROVE  Learn!Filtered(entries) = [i \in 0..Len(entries) |->
               IF i = 0 THEN <<>> ELSE Kept(Learn!Filtered(entries)[i - 1], entries[i])]
<1> DEFINE Fits(f, n) == f = [i \in 0..n |-> IF i = 0 THEN <<>> ELSE Kept(f[i - 1], entries[i])]
           T == {n \in Nat : \E f : Fits(f, n)}
<1>1. 0 \in T
  <2>1. Fits([i \in 0..0 |-> <<>>], 0)
    OBVIOUS
  <2> QED
    BY <2>1
<1>2. ASSUME NEW n \in Nat, n \in T PROVE n + 1 \in T
  <2>1. PICK f : Fits(f, n)
    BY <1>2
  <2> DEFINE g == [i \in 0..n + 1 |-> IF i = n + 1 THEN Kept(f[n], entries[n + 1]) ELSE f[i]]
  <2>2. \A i \in 0..n : f[i] = IF i = 0 THEN <<>> ELSE Kept(f[i - 1], entries[i])
    BY <2>1, Zenon
  <2>3. ASSUME NEW i \in 0..n + 1
        PROVE  g[i] = IF i = 0 THEN <<>> ELSE Kept(g[i - 1], entries[i])
    <3>1. CASE i = n + 1
      BY <3>1
    <3>2. CASE i # n + 1
      <4>1. i \in 0..n /\ (i # 0 => i - 1 \in 0..n /\ i - 1 # n + 1)
        BY <3>2
      <4> QED
        BY <2>2, <4>1
    <3> QED
      BY <3>1, <3>2
  <2>4. Fits(g, n + 1)
    BY <2>3
  <2>5. \E f1 : Fits(f1, n + 1)
    BY <2>4
  <2> QED
    BY <2>5
<1>3. \E f : Fits(f, Len(entries))
  BY <1>1, <1>2, NatSetInduction
<1>4. Learn!Filtered(entries) = CHOOSE f : Fits(f, Len(entries))
  BY DEF Learn!Filtered, Kept
<1> HIDE DEF Fits
<1>5. Fits(Learn!Filtered(entries), Len(entries))
  BY <1>3, <1>4
<1> QED
  BY <1>5 DEF Fits


\* What it gives for the first entries of a log, one after the other.
LEMMA FilteredStep ==
    ASSUME NEW S, NEW entries \in Seq(S)
    PROVE  /\ Learn!Filtered(entries)[0] = <<>>
           /\ \A i \in 1..Len(entries) :
                  Learn!Filtered(entries)[i] = Kept(Learn!Filtered(entries)[i - 1], entries[i])
<1> DEFINE f == Learn!Filtered(entries)
<1>1. Len(entries) \in Nat
  OBVIOUS
<1>2. \A i \in 0..Len(entries) : f[i] = IF i = 0 THEN <<>> ELSE Kept(f[i - 1], entries[i])
  BY <1>1, FilteredDef, Zenon
<1> HIDE DEF f
<1>3. f[0] = <<>> /\ \A i \in 1..Len(entries) : f[i] = Kept(f[i - 1], entries[i])
  BY <1>1, <1>2
<1> QED
  BY <1>3 DEF f

LEMMA OfAgentsIn ==
    ASSUME NEW S, NEW entries \in Seq(S)
    PROVE  Learn!OfAgents(entries) \in Seq(S)
<1> DEFINE f == Learn!Filtered(entries)
           T == {i \in Nat : i <= Len(entries) => f[i] \in Seq(S)}
<1>1. f[0] = <<>> /\ \A i \in 1..Len(entries) : f[i] = Kept(f[i - 1], entries[i])
  BY FilteredStep
<1>2. Len(entries) \in Nat /\ <<>> \in Seq(S)
  OBVIOUS
<1> HIDE DEF f
<1>3. 0 \in T
  BY <1>1, <1>2
<1>4. ASSUME NEW i \in Nat, i \in T PROVE i + 1 \in T
  <2> SUFFICES ASSUME i + 1 <= Len(entries) PROVE f[i + 1] \in Seq(S)
    OBVIOUS
  <2>1. i + 1 \in 1..Len(entries) /\ (i + 1) - 1 = i /\ f[i] \in Seq(S) /\ entries[i + 1] \in S
    BY <1>2, <1>4
  <2>2. f[i + 1] = Kept(f[i], entries[i + 1])
    BY <1>1, <2>1
  <2> QED
    BY <2>1, <2>2 DEF Kept
<1>5. Len(entries) \in T
  BY <1>2, <1>3, <1>4, NatSetInduction
<1> QED
  BY <1>2, <1>5 DEF Learn!OfAgents, f

LEMMA OfAgentsEmpty == Learn!OfAgents(<<>>) = <<>>
<1>1. <<>> \in Seq({}) /\ Len(<<>>) = 0
  OBVIOUS
<1> QED
  BY <1>1, FilteredStep DEF Learn!OfAgents

\* A longer log has the same entries of agents, and perhaps one more.
LEMMA OfAgentsAppend ==
    ASSUME NEW S, NEW entries \in Seq(S), NEW e \in S
    PROVE  Learn!OfAgents(Append(entries, e)) = Kept(Learn!OfAgents(entries), e)
<1> DEFINE more == Append(entries, e)
           f == Learn!Filtered(entries)
           g == Learn!Filtered(more)
           n == Len(entries)
           T == {i \in Nat : i <= n => g[i] = f[i]}
<1>1. more \in Seq(S) /\ Len(more) = n + 1 /\ more[n + 1] = e /\ n \in Nat
  OBVIOUS
<1>2. \A i \in 1..n : more[i] = entries[i]
  OBVIOUS
<1>3. f[0] = <<>> /\ \A i \in 1..n : f[i] = Kept(f[i - 1], entries[i])
  BY FilteredStep
<1> HIDE DEF more
<1>4. g[0] = <<>> /\ \A i \in 1..Len(more) : g[i] = Kept(g[i - 1], more[i])
  BY <1>1, FilteredStep
<1> HIDE DEF f, g, n
<1>5. 0 \in T
  BY <1>3, <1>4
<1>6. ASSUME NEW i \in Nat, i \in T PROVE i + 1 \in T
  <2> SUFFICES ASSUME i + 1 <= n PROVE g[i + 1] = f[i + 1]
    OBVIOUS
  <2>1. i + 1 \in 1..n /\ i + 1 \in 1..Len(more) /\ (i + 1) - 1 = i /\ g[i] = f[i]
    BY <1>1, <1>6
  <2> QED
    BY <1>2, <1>3, <1>4, <2>1
<1>7. n \in T
  BY <1>1, <1>5, <1>6, NatSetInduction
<1>8. g[n + 1] = Kept(f[n], e)
  <2>1. n + 1 \in 1..Len(more) /\ (n + 1) - 1 = n
    BY <1>1
  <2>2. g[n + 1] = Kept(g[n], more[n + 1])
    BY <1>4, <2>1
  <2> QED
    BY <1>1, <1>7, <2>2
<1> QED
  BY <1>1, <1>8 DEF Learn!OfAgents, more, f, g, n

(***************************************************************************)
(* The record of a promotion and the tasks that came after it.             *)
(***************************************************************************)
Baselines == {Learn!Snapshot(s) : s \in Seq(Learn!Entries)}
Verdicts == {"none"} \cup {Learn!Verdict(b, a) : b \in Baselines, a \in Baselines}
Records == [before : Baselines, from : Nat, verdict : Verdicts]

AtMost(n, s) == IF Len(s) > n THEN SubSeq(s, 1, n) ELSE s

\* Until the verdict the log still holds all that is known of a change; then
\* the verdict is about what is known.
Told(r, t) ==
    IF r.verdict = "none" THEN r.from <= Len(log) /\ t = AtMost(Window, Learn!After(r))
    ELSE Len(t) = Window /\ r.verdict = Learn!Verdict(r.before, Learn!Snapshot(t))

FairInv ==
    /\ log \in Seq(Learn!Entries) /\ records \in Seq(Records)
    /\ truth \in Seq(Seq(Learn!Entries)) /\ Len(truth) = Len(records)
    /\ \A i \in 1..Len(records) : i \notin lost => Told(records[i], truth[i])

\* What is left of a sequence from a place on.
LEMMA Suffix ==
    ASSUME NEW S, NEW s \in Seq(S), NEW m \in 1..Len(s) + 1
    PROVE  /\ SubSeq(s, m, Len(s)) \in Seq(S) /\ Len(SubSeq(s, m, Len(s))) = Len(s) - m + 1
           /\ \A k \in 1..Len(s) - m + 1 : SubSeq(s, m, Len(s))[k] = s[k + m - 1]
  OBVIOUS

\* A function on the indices of a sequence is one of the same length.
LEMMA Indexed ==
    ASSUME NEW S, NEW n \in Nat, NEW f \in [1..n -> S]
    PROVE  f \in Seq(S) /\ Len(f) = n
<1>1. f \in Seq(S)
  BY SeqDef
<1> QED
  BY <1>1, LenProperties

\* What came after a promotion.
LEMMA AfterIn ==
    ASSUME FairInv, NEW i \in 1..Len(records)
    PROVE  Learn!After(records[i]) \in Seq(Learn!Entries)
<1>0. records[i] \in Records
  BY DEF FairInv
<1>1. records[i].from \in Nat
  BY <1>0 DEF Records
<1>2. SubSeq(log, records[i].from + 1, Len(log)) \in Seq(Learn!Entries)
  BY <1>1 DEF FairInv
<1> QED
  BY <1>2, OfAgentsIn DEF Learn!After

\* One more entry of the log.
LEMMA SuffixAppend ==
    ASSUME NEW S, NEW s \in Seq(S), NEW e \in S, NEW m \in 1..Len(s) + 1
    PROVE  SubSeq(Append(s, e), m, Len(Append(s, e))) = Append(SubSeq(s, m, Len(s)), e)
<1> DEFINE t == Append(s, e)
           a == SubSeq(s, m, Len(s))
           b == SubSeq(t, m, Len(t))
           c == Append(a, e)
<1>1. /\ t \in Seq(S) /\ Len(t) = Len(s) + 1 /\ Len(s) \in Nat /\ t[Len(s) + 1] = e
      /\ \A k \in 1..Len(s) : t[k] = s[k]
  OBVIOUS
<1>2. /\ a \in Seq(S) /\ Len(a) = Len(s) - m + 1
      /\ \A k \in 1..Len(s) - m + 1 : a[k] = s[k + m - 1]
  BY Suffix
<1> HIDE DEF t
<1>3. m \in 1..Len(t) + 1
  BY <1>1
<1>4. /\ b \in Seq(S) /\ Len(b) = Len(t) - m + 1
      /\ \A k \in 1..Len(t) - m + 1 : b[k] = t[k + m - 1]
  BY <1>1, <1>3, Suffix
<1> HIDE DEF a, b
<1>5. /\ c \in Seq(S) /\ Len(c) = Len(a) + 1 /\ c[Len(a) + 1] = e
      /\ \A k \in 1..Len(a) : c[k] = a[k]
  BY <1>2
<1> HIDE DEF c
<1>6. Len(b) = Len(c)
  BY <1>1, <1>2, <1>4, <1>5
<1>7. ASSUME NEW k \in 1..Len(b) PROVE b[k] = c[k]
  <2>1. CASE k = Len(a) + 1
    <3>1. k + m - 1 = Len(s) + 1 /\ k \in 1..Len(t) - m + 1
      BY <1>1, <1>2, <2>1
    <3> QED
      BY <1>1, <1>4, <1>5, <2>1, <3>1
  <2>2. CASE k # Len(a) + 1
    <3>1. k \in 1..Len(s) - m + 1 /\ k \in 1..Len(a) /\ k \in 1..Len(t) - m + 1
      BY <1>1, <1>2, <1>5, <1>6, <2>2
    <3>2. k + m - 1 \in 1..Len(s)
      BY <1>1, <3>1
    <3> QED
      BY <1>1, <1>2, <1>4, <1>5, <3>1, <3>2
  <2> QED
    BY <2>1, <2>2
<1>8. b = c
  BY <1>4, <1>5, <1>6, <1>7, SeqEqual
<1> QED
  BY <1>8 DEF a, b, c, t

LEMMA AfterNote ==
    ASSUME FairInv, NEW r \in Records, r.from <= Len(log), NEW e \in Learn!Entries,
           log' = Append(log, e)
    PROVE  Learn!OfAgents(SubSeq(log', r.from + 1, Len(log'))) = Kept(Learn!After(r), e)
<1>1. r.from \in Nat
  BY DEF Records
<1>2. log \in Seq(Learn!Entries) /\ Len(log) \in Nat
  BY DEF FairInv
<1>3. r.from + 1 \in 1..Len(log) + 1
  BY <1>1, <1>2
<1>4. SubSeq(log', r.from + 1, Len(log')) = Append(SubSeq(log, r.from + 1, Len(log)), e)
  BY <1>2, <1>3, SuffixAppend
<1>5. SubSeq(log, r.from + 1, Len(log)) \in Seq(Learn!Entries)
  BY <1>2, <1>3, Suffix
<1> QED
  BY <1>4, <1>5, OfAgentsAppend DEF Learn!After

\* The first entries of a longer sequence.
LEMMA AtMostMore ==
    ASSUME NEW S, NEW s \in Seq(S), NEW e \in S, NEW n \in Nat, n > 0
    PROVE  AtMost(n, Append(s, e)) =
               IF Len(AtMost(n, s)) < n THEN Append(AtMost(n, s), e) ELSE AtMost(n, s)
<1> DEFINE t == Append(s, e)
<1>1. t \in Seq(S) /\ Len(t) = Len(s) + 1 /\ Len(s) \in Nat /\ \A k \in 1..Len(s) : t[k] = s[k]
  OBVIOUS
<1>2. CASE Len(s) < n
  BY <1>1, <1>2 DEF AtMost
<1>3. CASE Len(s) >= n
  <2> HIDE DEF t
  <2>1. AtMost(n, t) = SubSeq(t, 1, n)
    BY <1>1, <1>3 DEF AtMost
  <2>2. /\ SubSeq(t, 1, n) \in Seq(S) /\ Len(SubSeq(t, 1, n)) = n
        /\ \A k \in 1..n : SubSeq(t, 1, n)[k] = t[k]
    BY <1>1, <1>3
  <2>3. /\ SubSeq(s, 1, n) \in Seq(S) /\ Len(SubSeq(s, 1, n)) = n
        /\ \A k \in 1..n : SubSeq(s, 1, n)[k] = s[k]
    BY <1>1, <1>3
  <2>4. SubSeq(t, 1, n) = SubSeq(s, 1, n)
    BY <1>1, <1>3, <2>2, <2>3, SeqEqual
  <2>5. Len(s) = n => SubSeq(s, 1, n) = s
    BY <1>1, <2>3, SeqEqual
  <2>6. AtMost(n, s) = SubSeq(s, 1, n)
    BY <1>1, <1>3, <2>5 DEF AtMost
  <2>7. AtMost(n, t) = AtMost(n, s) /\ Len(AtMost(n, s)) = n
    BY <2>1, <2>3, <2>4, <2>6
  <2> QED
    BY <2>7 DEF t
<1> QED
  BY <1>1, <1>2, <1>3

\* A rotation takes every record without a verdict out of the account.
LEMMA NoteFair ==
    ASSUME FairInv, NEW e \in Learn!Entries, Learn!Note(e)
    PROVE  FairInv'
<1>0. Len(log) \in Nat /\ Len(records) \in Nat /\ Len(truth) = Len(records) /\ Window \in Nat /\ Window > 0
  BY WatchAssumption DEF FairInv, Learn!OutcomesAssumption
<1>1. log' \in Seq(Learn!Entries)
  BY DEF Learn!Note, FairInv
<1>2. /\ truth' \in Seq(Seq(Learn!Entries)) /\ Len(truth') = Len(truth)
      /\ \A i \in 1..Len(truth) : truth'[i] =
             IF e # "environment" /\ Len(truth[i]) < Window THEN Append(truth[i], e) ELSE truth[i]
  <2> DEFINE more(i) == IF e # "environment" /\ Len(truth[i]) < Window
                        THEN Append(truth[i], e) ELSE truth[i]
  <2>1. truth \in Seq(Seq(Learn!Entries)) /\ DOMAIN truth = 1..Len(truth) /\ Len(truth) \in Nat
    BY <1>0 DEF FairInv
  <2>2. truth' = [i \in 1..Len(truth) |-> more(i)]
    BY <2>1 DEF Learn!Note
  <2>3. \A i \in 1..Len(truth) : more(i) \in Seq(Learn!Entries)
    BY <2>1
  <2> HIDE DEF more
  <2>4. truth' \in [1..Len(truth) -> Seq(Learn!Entries)]
    BY <2>2, <2>3
  <2>5. \A i \in 1..Len(truth) : truth'[i] = more(i)
    BY <2>2
  <2> QED
    BY <2>1, <2>4, <2>5, Indexed DEF more
<1>3. /\ records' \in Seq(Records) /\ Len(records') = Len(records)
      /\ \A i \in 1..Len(records) : /\ records'[i].verdict = records[i].verdict
                                    /\ records'[i].before = records[i].before
                                    /\ ~Learn!Rotated => records'[i] = records[i]
  <2>1. records \in Seq(Records) /\ DOMAIN records = 1..Len(records)
    BY DEF FairInv
  <2>2. CASE Learn!Rotated
    <3> DEFINE zero(i) == [records[i] EXCEPT !.from = 0]
    <3>1. records' = [i \in 1..Len(records) |-> zero(i)]
      BY <2>1, <2>2 DEF Learn!Note
    <3>2. ASSUME NEW i \in 1..Len(records)
          PROVE  /\ zero(i) \in Records
                 /\ zero(i).verdict = records[i].verdict /\ zero(i).before = records[i].before
      <4>1. records[i] \in Records
        BY <2>1
      <4> QED
        BY <4>1 DEF Records
    <3> HIDE DEF zero
    <3>3. records' \in [1..Len(records) -> Records]
      BY <3>1, <3>2
    <3>4. \A i \in 1..Len(records) : records'[i] = zero(i)
      BY <3>1
    <3> QED
      BY <1>0, <2>2, <3>2, <3>3, <3>4, Indexed
  <2>3. CASE ~Learn!Rotated
    BY <2>1, <2>3 DEF Learn!Note
  <2> QED
    BY <2>2, <2>3
<1>4. ASSUME NEW i \in 1..Len(records), i \notin lost' PROVE Told(records[i], truth[i])
  BY <1>4 DEF Learn!Note, FairInv
<1>5. ASSUME NEW i \in 1..Len(records), i \notin lost', records[i].verdict # "none"
      PROVE  Told(records[i], truth[i])'
  <2>1. Len(truth[i]) = Window
    BY <1>4, <1>5 DEF Told
  <2>2. truth'[i] = truth[i]
    BY <1>0, <1>2, <2>1
  <2> QED
    BY <1>3, <1>4, <1>5, <2>2 DEF Told
<1>6. ASSUME NEW i \in 1..Len(records), i \notin lost', records[i].verdict = "none"
      PROVE  Told(records[i], truth[i])'
  <2>1. ~Learn!Rotated /\ records'[i] = records[i]
    <3>1. i \in Learn!Pending
      BY <1>6 DEF Learn!Pending, FairInv
    <3> QED
      BY <1>3, <1>6, <3>1 DEF Learn!Note
  <2>2. log' = Append(log, e) /\ Len(log') = Len(log) + 1
    BY <2>1 DEF Learn!Note, FairInv
  <2> DEFINE r == records[i]
             a == Learn!After(r)
  <2>3. r.from <= Len(log) /\ truth[i] = AtMost(Window, a)
    BY <1>4, <1>6 DEF Told
  <2>a. r \in Records
    BY DEF FairInv
  <2>b. r.from \in Nat
    BY <2>a DEF Records
  <2>4. a \in Seq(Learn!Entries)
    BY AfterIn
  <2>5. Learn!After(r)' = Kept(a, e)
    BY <2>1, <2>2, <2>3, <2>a, AfterNote DEF Learn!After
  <2>6. truth'[i] = AtMost(Window, Kept(a, e))
    BY <1>0, <1>2, <2>3, <2>4, AtMostMore DEF Kept
  <2>7. r.from <= Len(log')
    BY <1>0, <2>2, <2>3, <2>b
  <2> QED
    BY <1>6, <2>1, <2>5, <2>6, <2>7 DEF Told
<1> QED
  BY <1>1, <1>2, <1>3, <1>5, <1>6, <1>0 DEF FairInv

\* A new record has nothing after it yet.
LEMMA BaselineFair ==
    ASSUME FairInv, Learn!RecordBaseline
    PROVE  FairInv'
<1> DEFINE recent == Learn!Recent(Window, Learn!OfAgents(log))
           new == [before |-> Learn!Snapshot(recent), from |-> Len(log), verdict |-> "none"]
<1>0. /\ Len(log) \in Nat /\ Len(records) \in Nat /\ Len(truth) = Len(records)
      /\ Window \in Nat /\ log \in Seq(Learn!Entries) /\ records \in Seq(Records)
      /\ truth \in Seq(Seq(Learn!Entries))
  BY WatchAssumption DEF FairInv, Learn!OutcomesAssumption
<1>1. records' = Append(records, new) /\ truth' = Append(truth, <<>>) /\ UNCHANGED <<log, lost>>
  BY DEF Learn!RecordBaseline
<1>2. new \in Records /\ new.from = Len(log) /\ new.verdict = "none"
  <2>1. Learn!OfAgents(log) \in Seq(Learn!Entries)
    BY <1>0, OfAgentsIn
  <2> DEFINE s == Learn!OfAgents(log)
             m == IF Len(s) > Window THEN Len(s) - Window + 1 ELSE 1
  <2> HIDE DEF s
  <2>2. s \in Seq(Learn!Entries) /\ m \in 1..Len(s) + 1
    BY <1>0, <2>1 DEF s
  <2> HIDE DEF m
  <2>3. SubSeq(s, m, Len(s)) \in Seq(Learn!Entries)
    BY <2>2, Suffix
  <2>4. recent \in Seq(Learn!Entries)
    BY <2>3 DEF Learn!Recent, s, m
  <2> HIDE DEF recent
  <2>5. Learn!Snapshot(recent) \in Baselines /\ "none" \in Verdicts
    BY <2>4 DEF Baselines, Verdicts
  <2> QED
    BY <1>0, <2>5 DEF Records
<1> HIDE DEF new
<1>3. Learn!After(new) = <<>>
  <2>1. SubSeq(log, Len(log) + 1, Len(log)) = <<>>
    BY <1>0
  <2> QED
    BY <1>2, <2>1, OfAgentsEmpty DEF Learn!After
<1>4. /\ new.from <= Len(log') /\ new.verdict = "none"
      /\ <<>> = AtMost(Window, Learn!OfAgents(SubSeq(log', new.from + 1, Len(log'))))
  <2>1. new.from <= Len(log) /\ <<>> = AtMost(Window, <<>>)
    BY <1>0, <1>2 DEF AtMost
  <2> QED
    BY <1>1, <1>2, <1>3, <2>1 DEF Learn!After
<1>5. /\ records' \in Seq(Records) /\ Len(records') = Len(records) + 1
      /\ records'[Len(records) + 1] = new
      /\ \A i \in 1..Len(records) : records'[i] = records[i]
  BY <1>0, <1>1, <1>2
<1>6. /\ truth' \in Seq(Seq(Learn!Entries)) /\ Len(truth') = Len(truth) + 1
      /\ truth'[Len(truth) + 1] = <<>>
      /\ \A i \in 1..Len(truth) : truth'[i] = truth[i]
  <2>1. <<>> \in Seq(Learn!Entries)
    OBVIOUS
  <2> QED
    BY <1>0, <1>1, <2>1
<1>7. ASSUME NEW i \in 1..Len(records'), i \notin lost' PROVE Told(records[i], truth[i])'
  <2>1. CASE i = Len(records) + 1
    <3>1. records'[i] = new /\ truth'[i] = <<>>
      BY <1>0, <1>5, <1>6, <2>1
    <3> QED
      BY <1>4, <3>1 DEF Told, Learn!After
  <2>2. CASE i # Len(records) + 1
    <3>1. i \in 1..Len(records)
      BY <1>0, <1>5, <2>2
    <3>2. Told(records[i], truth[i])
      BY <1>1, <1>7, <3>1 DEF FairInv
    <3> QED
      BY <1>0, <1>1, <1>5, <1>6, <3>1, <3>2 DEF Told, Learn!After
  <2> QED
    BY <2>1, <2>2
<1> QED
  BY <1>0, <1>1, <1>5, <1>6, <1>7 DEF FairInv

\* A verdict is passed on the first tasks, and there are enough of them.
LEMMA MeasureFair ==
    ASSUME FairInv, Learn!Measure
    PROVE  FairInv'
<1> DEFINE after(i) == Learn!After(records[i])
           now(i) == Learn!Verdict(records[i].before, Learn!Snapshot(Learn!WindowOf(after(i))))
           due(i) == i \in Learn!Pending /\ Len(after(i)) >= Window
           new(i) == IF due(i) THEN [records[i] EXCEPT !.verdict = now(i)] ELSE records[i]
<1>0. /\ Len(records) \in Nat /\ Len(truth) = Len(records) /\ DOMAIN records = 1..Len(records)
      /\ Window \in Nat /\ Window > 0 /\ log \in Seq(Learn!Entries) /\ records \in Seq(Records)
      /\ truth \in Seq(Seq(Learn!Entries))
  BY WatchAssumption DEF FairInv, Learn!OutcomesAssumption
<1>1. records' = [i \in 1..Len(records) |-> new(i)] /\ UNCHANGED <<log, truth, lost>>
  BY <1>0 DEF Learn!Measure
<1>2. ASSUME NEW i \in 1..Len(records)
      PROVE  /\ records[i] \in Records /\ after(i) \in Seq(Learn!Entries)
             /\ due(i) => Learn!WindowOf(after(i)) = AtMost(Window, after(i))
                          /\ Len(AtMost(Window, after(i))) = Window
                          /\ AtMost(Window, after(i)) \in Seq(Learn!Entries)
  <2>1. records[i] \in Records /\ after(i) \in Seq(Learn!Entries)
    BY <1>0, AfterIn
  <2> SUFFICES ASSUME Len(after(i)) >= Window
               PROVE  /\ SubSeq(after(i), 1, Window) = AtMost(Window, after(i))
                      /\ Len(AtMost(Window, after(i))) = Window
                      /\ AtMost(Window, after(i)) \in Seq(Learn!Entries)
    BY <2>1 DEF Learn!WindowOf, Learn!First
  <2> DEFINE s == after(i)
  <2> HIDE DEF s
  <2>2. s \in Seq(Learn!Entries) /\ Len(s) >= Window /\ Len(s) \in Nat
    BY <2>1 DEF s
  <2>3. /\ SubSeq(s, 1, Window) \in Seq(Learn!Entries) /\ Len(SubSeq(s, 1, Window)) = Window
        /\ \A k \in 1..Window : SubSeq(s, 1, Window)[k] = s[k]
    BY <1>0, <2>2
  <2>4. Len(s) = Window => SubSeq(s, 1, Window) = s
    BY <2>2, <2>3, SeqEqual
  <2>5. SubSeq(s, 1, Window) = AtMost(Window, s)
    BY <1>0, <2>2, <2>4 DEF AtMost
  <2> QED
    BY <2>3, <2>5 DEF s
<1>3. ASSUME NEW i \in 1..Len(records)
      PROVE  /\ new(i) \in Records /\ new(i).before = records[i].before
             /\ new(i).from = records[i].from
             /\ new(i).verdict = IF due(i) THEN now(i) ELSE records[i].verdict
  <2>1. due(i) => now(i) \in Verdicts
    <3>1. \A s \in Seq(Learn!Entries) : Learn!Snapshot(s) \in Baselines
      BY DEF Baselines
    <3>2. records[i].before \in Baselines
      BY <1>2 DEF Records
    <3> QED
      BY <1>2, <3>1, <3>2 DEF Verdicts
  <2>2. records[i] \in Records
    BY <1>2
  <2> HIDE DEF now, due
  <2>3. due(i) => /\ [records[i] EXCEPT !.verdict = now(i)] \in Records
                  /\ [records[i] EXCEPT !.verdict = now(i)].before = records[i].before
                  /\ [records[i] EXCEPT !.verdict = now(i)].from = records[i].from
                  /\ [records[i] EXCEPT !.verdict = now(i)].verdict = now(i)
    BY <2>1, <2>2 DEF Records
  <2> QED
    BY <2>2, <2>3
<1> HIDE DEF new
<1>4. records' \in [1..Len(records) -> Records]
  BY <1>1, <1>3
<1>5. records' \in Seq(Records) /\ Len(records') = Len(records)
  BY <1>0, <1>4, Indexed
<1>6. ASSUME NEW i \in 1..Len(records), i \notin lost PROVE Told(records[i], truth[i])'
  <2>1. Told(records[i], truth[i])
    BY <1>6 DEF FairInv
  <2>2. records'[i] = new(i)
    BY <1>1
  <2>3. CASE due(i)
    <3>1. truth[i] = AtMost(Window, after(i))
      BY <2>1, <2>3 DEF Told, Learn!Pending
    <3>2. Len(truth[i]) = Window /\ now(i) = Learn!Verdict(records[i].before, Learn!Snapshot(truth[i]))
      BY <1>2, <2>3, <3>1
    <3>3. new(i).verdict = now(i)
      BY <1>3, <2>3
    <3>4. records[i].from <= Len(log)
      BY <2>1, <2>3 DEF Told, Learn!Pending
    <3>5. Learn!After(records[i])' = after(i)
      BY <1>1, <1>3, <2>2 DEF Learn!After
    <3> HIDE DEF due, now, after
    <3> QED
      BY <1>1, <1>3, <2>2, <3>1, <3>2, <3>3, <3>4, <3>5 DEF Told
  <2>4. CASE ~due(i)
    <3>1. new(i).verdict = records[i].verdict
      BY <1>3, <2>4
    <3>2. Learn!After(records[i])' = after(i)
      BY <1>1, <1>3, <2>2 DEF Learn!After
    <3> HIDE DEF due, now
    <3> QED
      BY <1>1, <1>3, <2>1, <2>2, <3>1, <3>2 DEF Told
  <2> QED
    BY <2>3, <2>4
<1> QED
  BY <1>0, <1>1, <1>5, <1>6 DEF FairInv

LEMMA InitFairInv == Init => FairInv
<1>1. \A S : <<>> \in Seq(S) /\ Len(<<>>) = 0
  OBVIOUS
<1> QED
  BY <1>1 DEF Init, Learn!Init, FairInv

LEMMA NextFairInv == FairInv /\ [Next]_vars => FairInv'
<1> SUFFICES ASSUME FairInv, [Next]_vars PROVE FairInv'
  OBVIOUS
<1>1. CASE UNCHANGED logVars
  BY <1>1 DEF logVars, FairInv, Told, Learn!After
<1>2. CASE Promote
  BY <1>2, BaselineFair DEF Promote
<1>3. CASE \E e \in Learn!Entries : RunGoalTask(e)
  BY <1>3, NoteFair DEF RunGoalTask
<1>4. CASE KeepHouse
  BY <1>4, MeasureFair DEF KeepHouse
<1>5. UNCHANGED logVars \/ Promote \/ (\E e \in Learn!Entries : RunGoalTask(e)) \/ KeepHouse
  BY DEF Next, Cycle, Begin, Leave, CheckProxy, WaitForProxy, StartCycle, PassOverTask, RunTask,
     EndTasks, ClearCycle, Wake, Shutdown, Interrupt, RequestStop, Cancelled, Die, CutOff, Restart, ProxyChanges,
     SourceChanges, vars
<1> QED
  BY <1>1, <1>2, <1>3, <1>4, <1>5

(***************************************************************************)
(* The verdict on a promotion is about the first tasks after it that the   *)
(* environment let run, however late it is passed, unless the log was      *)
(* rotated meanwhile.                                                      *)
(***************************************************************************)
THEOREM JudgedFairly == Spec => []VerdictFair
<1>1. FairInv => VerdictFair
  <2> SUFFICES ASSUME FairInv, NEW i \in DOMAIN records, records[i].verdict # "none", i \notin lost
               PROVE  records[i].verdict = Learn!Verdict(records[i].before, Learn!Snapshot(truth[i]))
    BY DEF VerdictFair
  <2>1. i \in 1..Len(records)
    BY DEF FairInv
  <2> QED
    BY <2>1 DEF FairInv, Told
<1> QED
  BY <1>1, InitFairInv, NextFairInv, PTL DEF Spec
=============================================================================
