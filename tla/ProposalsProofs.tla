-------------------------- MODULE ProposalsProofs --------------------------
(***************************************************************************)
(* A proposal that needs no approval is promoted once and stays on record, *)
(* and none begins after a red baseline, for any numbers of proposals,     *)
(* attempts, ages and deaths.                                              *)
(***************************************************************************)
EXTENDS Proposals, FiniteSetTheorems, SequenceTheorems, WellFoundedInduction, TLAPS

LEMMA HasBest == ASSUME NEW S \in SUBSET Props, S # {}
                 PROVE  Best(S) \in S
<1> DEFINE From(p) == N - p
           T == {From(p) : p \in S}
<1>1. N \in Nat /\ \A p \in S : p \in 1..N
  BY BoundAssumption DEF Props
<1>2. T \subseteq Nat /\ T # {}
  BY <1>1
<1>3. PICK t \in T : \A u \in T : ~(<<u, t>> \in OpToRel(<, Nat))
  BY <1>2, NatLessThanWellFounded, WFMin
<1>4. \A u \in T : ~(u < t)
  BY <1>2, <1>3 DEF OpToRel
<1>5. PICK p \in S : t = From(p)
  BY <1>3
<1>6. \A q \in S : q <= p
  BY <1>1, <1>4, <1>5
<1> QED
  BY <1>6 DEF Best

LEMMA NoneInLine == SetToSeq({}) = <<>>
<1>1. Cardinality({}) = 0
  BY FS_EmptySet
<1>2. <<>> \in [1..0 -> {}] /\ \A f \in [1..0 -> {}] : f = <<>>
  OBVIOUS
<1> QED
  BY <1>1, <1>2 DEF SetToSeq, IsInjective

-----------------------------------------------------------------------------
(* The invariant.                                                          *)

Types ==
    /\ status \in [Props -> Statuses] /\ promos \in [Props -> Nat]
    /\ current \in 0..N /\ attempts \in Nat /\ crashes \in Nat

(***************************************************************************)
(* Without approvals the queue is empty, and the one proposal in the hands *)
(* of the cycle is executing, or has been returned without a commit.       *)
(***************************************************************************)
OneInHand ==
    /\ \A p \in Props : waiting[p] = 0 /\ granted[p] = 0
    /\ \/ todo = <<>>
       \/ current = 0 /\ \E p \in Props : todo = <<p>> /\ status[p] = "executing"
    /\ current # 0 => phase = "dispatch" /\ status[current] \in {"executing", "failed", "notPromoted"}
    /\ phase = "idle" => todo = <<>>
    /\ current = 0 => attempts = 0

\* A commit is on record, or its run is about to return.
CommitKnown ==
    \A p \in Props : promos[p] = 0 \/ (promos[p] = 1 /\ (status[p] = "completed" \/ (current = p /\ attempts = 0)))

Inv  == Types /\ OneInHand /\ (crashes = 0 => CommitKnown)
IInv == mode = "auto" => Inv

LEMMA InitIInv == Init => IInv
  BY BoundAssumption DEF Init, IInv, Inv, Types, OneInHand, CommitKnown, Statuses

-----------------------------------------------------------------------------
(* The analysis.                                                           *)

\* The clean-ups leave what is completed, and complete nothing.
LEMMA CleanedKeeps ==
    ASSUME status \in [Props -> Statuses]
    PROVE  /\ Pruned(Swept) \in [Props -> Statuses]
           /\ \A p \in Props : Pruned(Swept)[p] = "completed" <=> status[p] = "completed"
           /\ \A p \in Props : status[p] = "free" => Pruned(Swept)[p] = "free"
<1>1. /\ Swept \in [Props -> Statuses]
      /\ \A p \in Props : Swept[p] = "completed" <=> status[p] = "completed"
      /\ \A p \in Props : status[p] = "free" => Swept[p] = "free"
  BY DEF Swept, Statuses
<1> DEFINE st == Swept
<1> HIDE DEF st
<1>2. /\ Pruned(st) \in [Props -> Statuses]
      /\ \A p \in Props : Pruned(st)[p] = "completed" <=> st[p] = "completed"
      /\ \A p \in Props : st[p] = "free" => Pruned(st)[p] = "free"
  <2>1. st \in [Props -> Statuses]
    BY <1>1 DEF st
  <2>2. \A p \in Props : \/ Pruned(st)[p] = "free" /\ st[p] \in {"discarded", "failed"}
                         \/ Pruned(st)[p] = st[p]
    BY DEF Pruned, Prunable
  <2> QED
    BY <2>1, <2>2 DEF Pruned, Statuses
<1> QED
  BY <1>1, <1>2 DEF st

\* What is taken is executing, and neither this nor a new proposal changes
\* anything about those completed.
LEMMA TakeKeeps ==
    ASSUME NEW st \in [Props -> Statuses], NEW new \in Fresh(st),
           Take(With(st, new)) \/ TakeNone(st) \/ Take(st)
    PROVE  /\ status' \in [Props -> Statuses]
           /\ \A p \in Props : st[p] = "completed" <=> status'[p] = "completed"
           /\ todo' = <<>> \/ \E p \in Props : todo' = <<p>> /\ status'[p] = "executing"
<1>1. ASSUME NEW x \in [Props -> Statuses], \A p \in Props : st[p] = "completed" <=> x[p] = "completed",
             Take(x)
      PROVE  /\ status' \in [Props -> Statuses]
             /\ \A p \in Props : st[p] = "completed" <=> status'[p] = "completed"
             /\ todo' = <<>> \/ \E p \in Props : todo' = <<p>> /\ status'[p] = "executing"
  <2>1. CASE Pending(x) = {}
    BY <1>1, <2>1 DEF Take
  <2>2. CASE Pending(x) # {}
    <3> DEFINE b == Best(Pending(x))
    <3>1. b \in Props /\ x[b] = "pending"
      BY <2>2, HasBest DEF Pending
    <3>2. status' = [x EXCEPT ![b] = "executing"] /\ todo' = <<b>>
      BY <1>1, <2>2 DEF Take, Picked
    <3> HIDE DEF b
    <3> QED
      BY <1>1, <3>1, <3>2 DEF Statuses
  <2> QED
    BY <2>1, <2>2
<1>2. /\ With(st, new) \in [Props -> Statuses]
      /\ \A p \in Props : st[p] = "completed" <=> With(st, new)[p] = "completed"
  BY DEF With, Fresh, Statuses
<1> QED
  BY <1>1, <1>2 DEF TakeNone

LEMMA AnalyseKeeps ==
    ASSUME Inv, mode = "auto", Analyse
    PROVE  Inv' /\ \A p \in Props : status[p] = "completed" => status'[p] = "completed"
<1> DEFINE st == Pruned(Swept)
<1>1. /\ st \in [Props -> Statuses]
      /\ \A p \in Props : st[p] = "completed" <=> status[p] = "completed"
  BY CleanedKeeps DEF Inv, Types
<1>2. \E new \in Fresh(st) : /\ Take(With(st, new)) \/ TakeNone(st) \/ Take(st)
                             /\ Born(new) \/ NoneBorn
  <2>1. {} \in Fresh(st)
    BY DEF Fresh
  <2> HIDE DEF st
  <2>2. \/ TakeNone(st) /\ NoneBorn
        \/ Take(st) /\ NoneBorn
        \/ \E new \in Fresh(st) : Born(new) /\ Take(With(st, new))
    BY DEF Analyse, st
  <2> QED
    BY <2>1, <2>2
<1> HIDE DEF st
<1>3. PICK new \in Fresh(st) : /\ Take(With(st, new)) \/ TakeNone(st) \/ Take(st)
                               /\ Born(new) \/ NoneBorn
  BY <1>2
<1>4. /\ status' \in [Props -> Statuses]
      /\ \A p \in Props : status[p] = "completed" <=> status'[p] = "completed"
      /\ todo' = <<>> \/ \E p \in Props : todo' = <<p>> /\ status'[p] = "executing"
  BY <1>1, <1>3, TakeKeeps
<1>5. /\ phase = "idle" /\ phase' = "route"
      /\ UNCHANGED <<mode, waiting, granted, current, attempts, crashes>>
  BY DEF Analyse, queue
<1>6. promos' \in [Props -> Nat] /\ \A p \in Props : promos'[p] = 0 \/ promos'[p] = promos[p]
  <2>1. promos \in [Props -> Nat]
    BY DEF Inv, Types
  <2>2. CASE Born(new)
    BY <2>1, <2>2 DEF Born
  <2>3. CASE NoneBorn
    BY <2>1, <2>3 DEF NoneBorn
  <2> QED
    BY <1>3, <2>2, <2>3
<1>7. Types'
  BY <1>4, <1>5, <1>6 DEF Inv, Types
<1>8. OneInHand'
  BY <1>4, <1>5 DEF Inv, OneInHand
<1>9. crashes = 0 => CommitKnown'
  BY <1>4, <1>5, <1>6 DEF Inv, CommitKnown
<1> QED
  BY <1>4, <1>5, <1>7, <1>8, <1>9 DEF Inv

-----------------------------------------------------------------------------
(* The other steps of the cycle.                                           *)

LEMMA RouteKeeps == ASSUME Inv, mode = "auto", Route PROVE Inv'
<1>1. {p \in Props : granted[p] > 0} = {}
  BY DEF Inv, OneInHand
<1>2. todo' = todo \o <<>>
  BY <1>1, NoneInLine DEF Route
<1>3. todo \o <<>> = todo
  BY DEF Inv, OneInHand
<1>4. \A p \in Props : waiting'[p] = 0 /\ granted'[p] = 0
  BY DEF Route, Inv, OneInHand
<1> QED
  BY <1>2, <1>3, <1>4 DEF Route, pipe, Inv, Types, OneInHand, CommitKnown

\* A head of the list is the one in hand, and it is executing.
LEMMA HeadInHand ==
    ASSUME Inv, todo # <<>>, current = 0
    PROVE  /\ Head(todo) \in Props /\ Tail(todo) = <<>>
           /\ status[Head(todo)] = "executing"
<1>1. PICK p \in Props : todo = <<p>> /\ status[p] = "executing"
  BY DEF Inv, OneInHand
<1> QED
  BY <1>1

LEMMA PassKeeps == ASSUME Inv, Skip \/ Other \/ EndCycle \/ Tick PROVE Inv'
<1>1. CASE Skip
  BY <1>1, HeadInHand DEF Skip, queue, pipe, Inv, Types, OneInHand, CommitKnown
<1>2. CASE Other \/ EndCycle \/ Tick
  BY <1>2 DEF Other, EndCycle, Tick, queue, pipe, Inv, Types, OneInHand, CommitKnown
<1> QED
  BY <1>1, <1>2

LEMMA DeferKeeps ==
    ASSUME Inv, Defer
    PROVE  Inv' /\ \A p \in Props : status[p] = "completed" => status'[p] = "completed"
<1> DEFINE h == Head(todo)
<1>1. h \in Props /\ todo' = <<>> /\ status[h] = "executing"
      /\ status' = [status EXCEPT ![h] = "pending"]
  BY HeadInHand DEF Defer, Deferred
<1>2. UNCHANGED <<phase, waiting, granted, current, attempts, promos, crashes>> /\ current = 0
  BY DEF Defer, queue, pipe
<1>3. status \in [Props -> Statuses]
  BY DEF Inv, Types
<1> HIDE DEF h
<1>4. /\ status' \in [Props -> Statuses]
      /\ \A p \in Props : status[p] = "completed" => status'[p] = "completed"
  BY <1>1, <1>3 DEF Statuses
<1> QED
  BY <1>1, <1>2, <1>4 DEF Inv, Types, OneInHand, CommitKnown

LEMMA BeginKeeps == ASSUME Inv, NEW p \in Props, Begin(p) PROVE Inv'
<1>1. status[p] = "executing" /\ todo' = <<>>
  BY HeadInHand DEF Begin
<1>2. /\ current' = p /\ attempts' = MaxAttempts /\ current = 0 /\ phase = "dispatch"
      /\ UNCHANGED <<phase, status, waiting, granted, promos, crashes>>
  BY DEF Begin, queue
<1>3. MaxAttempts \in Nat \ {0} /\ p \in 0..N /\ \A q \in Props : q # 0
  BY BoundAssumption DEF Props
<1>4. Types' /\ OneInHand'
  BY <1>1, <1>2, <1>3 DEF Inv, Types, OneInHand
<1>5. crashes' = 0 => CommitKnown'
  BY <1>1, <1>2, <1>3 DEF Inv, CommitKnown
<1> QED
  BY <1>4, <1>5 DEF Inv

LEMMA PromoteKeeps == ASSUME Inv, Promote PROVE Inv'
<1>1. /\ current \in Props /\ attempts > 0 /\ attempts' = 0
      /\ promos' = [promos EXCEPT ![current] = @ + 1]
      /\ UNCHANGED <<phase, status, waiting, granted, todo, current, crashes>>
  BY DEF Promote, queue, Inv, Types, Props
<1>2. promos \in [Props -> Nat]
  BY DEF Inv, Types
<1>3. crashes = 0 => promos[current] = 0 \/ (promos[current] = 1 /\ status[current] = "completed")
  BY <1>1 DEF Inv, CommitKnown
<1>4. status[current] # "completed"
  BY <1>1 DEF Inv, OneInHand, Props
<1>5. promos' \in [Props -> Nat] /\ \A p \in Props : promos'[p] = IF p = current THEN promos[p] + 1 ELSE promos[p]
  BY <1>1, <1>2
<1> QED
  BY <1>1, <1>3, <1>4, <1>5 DEF Inv, Types, OneInHand, CommitKnown

\* The result replaces the status of one that was not completed.
LEMMA ReturnKeeps ==
    ASSUME Inv, NEW r \in Results, Return(r)
    PROVE  Inv' /\ \A p \in Props : status[p] = "completed" => status'[p] = "completed"
<1>1. /\ current \in Props /\ ((r = "promoted") <=> (attempts = 0))
      /\ status' = [status EXCEPT ![current] = Recorded(r)]
      /\ \/ current' = 0 /\ attempts' = 0
         \/ r \notin {"promoted", "kept"} /\ attempts # 1 /\ attempts' = attempts - 1 /\ current' = current
      /\ UNCHANGED <<phase, waiting, granted, todo, promos, crashes>>
  BY DEF Return, Record, queue, Inv, Types, Props
<1>2. status[current] # "completed" /\ todo = <<>> /\ phase = "dispatch" /\ status \in [Props -> Statuses]
  BY <1>1 DEF Inv, OneInHand, Types, Props
<1>3. /\ Recorded(r) \in {"completed", "notPromoted", "failed"}
      /\ (Recorded(r) = "completed") <=> (r = "promoted")
  BY DEF Recorded
<1>4. /\ status' \in [Props -> Statuses]
      /\ \A p \in Props : status'[p] = IF p = current THEN Recorded(r) ELSE status[p]
  BY <1>1, <1>2, <1>3 DEF Statuses
<1>5. Types'
  <2>1. current' \in 0..N /\ attempts' \in Nat
    BY <1>1, BoundAssumption DEF Inv, Types
  <2> QED
    BY <1>1, <1>4, <2>1 DEF Inv, Types
<1>6. OneInHand'
  BY <1>1, <1>2, <1>3, <1>4 DEF Inv, OneInHand
<1>7. crashes' = 0 => CommitKnown'
  BY <1>1, <1>2, <1>3, <1>4 DEF Inv, Types, CommitKnown
<1> QED
  BY <1>2, <1>4, <1>5, <1>6, <1>7 DEF Inv

LEMMA AroundKeeps ==
    ASSUME Inv, Crash \/ (\E p \in Props : Approve(p) \/ Reject(p))
    PROVE  Inv'
<1>1. CASE Crash
  BY <1>1, BoundAssumption DEF Crash, queue, Inv, Types, OneInHand, CommitKnown
<1>2. CASE \E p \in Props : Approve(p) \/ Reject(p)
  BY <1>2 DEF Approve, Reject, Inv, OneInHand
<1> QED
  BY <1>1, <1>2

LEMMA StepKeeps ==
    ASSUME Inv, mode = "auto", [Next]_vars
    PROVE  Inv' /\ \A p \in Props : status[p] = "completed" => status'[p] = "completed"
<1>1. CASE UNCHANGED vars
  BY <1>1 DEF vars, queue, pipe, Inv, Types, OneInHand, CommitKnown
<1>2. CASE Skip \/ Other \/ EndCycle \/ Tick
  <2>1. UNCHANGED status
    BY <1>2 DEF Skip, Other, EndCycle, Tick
  <2> QED
    BY <1>2, <2>1, PassKeeps
<1>3. CASE \E p \in Props : Begin(p)
  BY <1>3, BeginKeeps DEF Begin
<1>4. CASE Route
  BY <1>4, RouteKeeps DEF Route
<1>5. CASE Promote
  BY <1>5, PromoteKeeps DEF Promote
<1>6. CASE Crash \/ (\E p \in Props : Approve(p) \/ Reject(p))
  <2>1. UNCHANGED status
    BY <1>6 DEF Crash, Approve, Reject
  <2> QED
    BY <1>6, <2>1, AroundKeeps
<1> QED
  BY <1>1, <1>2, <1>3, <1>4, <1>5, <1>6, AnalyseKeeps, DeferKeeps, ReturnKeeps DEF Next, Cycle

LEMMA ModeKept == [Next]_vars => mode' = mode
  BY DEF vars, Next, Cycle, Analyse, Route, Defer, EndCycle, Promote, Begin, Return, Skip,
     Other, Tick, Crash, Approve, Reject

LEMMA NextIInv == IInv /\ [Next]_vars => IInv'
  BY StepKeeps, ModeKept DEF IInv

-----------------------------------------------------------------------------

(***************************************************************************)
(* No reset, retry or pruning brings back a proposal that has its commit,  *)
(* as long as the watcher does not die between the commit and its record.  *)
(***************************************************************************)
THEOREM PromotesOnce == Spec => []PromotedOnce
<1>1. IInv => PromotedOnce
  BY DEF IInv, Inv, CommitKnown, PromotedOnce
<1> QED
  BY <1>1, InitIInv, NextIInv, PTL DEF Spec

(***************************************************************************)
(* What is completed stays so, through resets, clean-ups and deaths.       *)
(***************************************************************************)
THEOREM CompletedStays == Spec => CompletedKept
<1> DEFINE Kept == mode = "auto" => \A p \in Props : status[p] = "completed" => status'[p] = "completed"
<1>1. IInv /\ [Next]_vars => [Kept]_vars
  BY StepKeeps DEF IInv
<1> QED
  BY <1>1, InitIInv, NextIInv, PTL DEF Spec, CompletedKept

-----------------------------------------------------------------------------
(* The breaker for a red baseline.                                         *)

\* Red entries come in pairs: improve() writes one and the watcher the other.
RedTwice ==
    /\ log \in Seq(BOOLEAN) /\ lastRed \in 0..2
    /\ log # <<>> /\ log[1] => Len(log) >= 2 /\ log[2]

LEMMA LogGrows ==
    ASSUME NEW h \in Seq(BOOLEAN), NEW red \in BOOLEAN, NEW n \in Nat
    PROVE  /\ [i \in 1..n |-> red] \o h \in Seq(BOOLEAN)
           /\ Len([i \in 1..n |-> red] \o h) = n + Len(h)
           /\ \A k \in 1..n : ([i \in 1..n |-> red] \o h)[k] = red
<1> DEFINE new == [i \in 1..n |-> red]
<1>1. new \in [1..n -> BOOLEAN]
  OBVIOUS
<1>2. new \in Seq(BOOLEAN)
  BY <1>1, SeqDef
<1>3. Len(new) = n
  BY <1>1, <1>2, LenProperties
<1>4. \A i \in 1..n : new[i] = red
  OBVIOUS
<1> HIDE DEF new
<1>5. /\ new \o h \in Seq(BOOLEAN) /\ Len(new \o h) = Len(new) + Len(h)
      /\ \A i \in 1..Len(new) + Len(h) :
             (new \o h)[i] = IF i <= Len(new) THEN new[i] ELSE h[i - Len(new)]
  BY <1>2, ConcatProperties
<1>6. Len(h) \in Nat
  OBVIOUS
<1>7. \A i \in 1..n : (new \o h)[i] = red
  BY <1>3, <1>4, <1>5, <1>6
<1> QED
  BY <1>3, <1>5, <1>7 DEF new

LEMMA LoggedTwice ==
    ASSUME RedTwice, NEW red \in BOOLEAN, NEW n \in Nat, Logged(red, n),
           n > 0, red => n = 2
    PROVE  RedTwice'
<1> DEFINE longer == [i \in 1..n |-> red] \o log
<1>1. longer \in Seq(BOOLEAN) /\ Len(longer) = n + Len(log) /\ \A i \in 1..n : longer[i] = red
  BY LogGrows DEF RedTwice
<1>2. log' = IF Len(longer) > RedLookback THEN SubSeq(longer, 1, RedLookback) ELSE longer
  BY DEF Logged
<1> HIDE DEF longer
<1>3. Len(log) \in Nat /\ RedLookback \in Nat /\ RedLookback >= 2
  BY BoundAssumption DEF RedTwice
<1>4. /\ log' \in Seq(BOOLEAN) /\ (red => Len(log') >= 2)
      /\ log'[1] = red /\ (red => log'[2] = red)
  <2>1. CASE Len(longer) > RedLookback
    <3>1. /\ SubSeq(longer, 1, RedLookback) \in Seq(BOOLEAN)
          /\ Len(SubSeq(longer, 1, RedLookback)) = RedLookback
          /\ \A i \in 1..RedLookback : SubSeq(longer, 1, RedLookback)[i] = longer[i]
      BY <1>1, <1>3, <2>1
    <3> QED
      BY <1>1, <1>2, <1>3, <2>1, <3>1
  <2>2. CASE ~ (Len(longer) > RedLookback)
    BY <1>1, <1>2, <1>3, <2>2
  <2> QED
    BY <2>1, <2>2
<1>5. lastRed' \in 0..2
  BY DEF RedTwice, Logged
<1> QED
  BY <1>4, <1>5 DEF RedTwice

LEMMA NextRedTwice == RedTwice /\ [Next]_vars => RedTwice'
<1> SUFFICES ASSUME RedTwice, [Next]_vars PROVE RedTwice'
  OBVIOUS
<1>1. CASE UNCHANGED log /\ (UNCHANGED lastRed \/ lastRed' = Older(lastRed, 2))
  BY <1>1 DEF RedTwice, Older
<1>2. ASSUME NEW r \in Results, Return(r) PROVE RedTwice'
  <2>1. Logged(r = "red", 2) /\ (r = "red") \in BOOLEAN
    BY <1>2 DEF Return, Entries
  <2>2. 2 \in Nat /\ 2 > 0
    OBVIOUS
  <2> QED
    BY <2>1, <2>2, LoggedTwice, Zenon
<1>3. CASE Other
  <2>1. Logged(FALSE, 1)
    BY <1>3 DEF Other
  <2>2. 1 \in Nat /\ 1 > 0
    OBVIOUS
  <2> QED
    BY <2>1, <2>2, LoggedTwice, Zenon
<1>4. \/ (\E r \in Results : Return(r)) \/ Other
      \/ UNCHANGED log /\ (UNCHANGED lastRed \/ lastRed' = Older(lastRed, 2))
  BY DEF Next, Cycle, Analyse, Route, Skip, Defer, Begin, Promote, EndCycle, Tick, Approve,
     Reject, Crash, vars, ages
<1> QED
  BY <1>1, <1>2, <1>3, <1>4

LEMMA PairSize == ASSUME NEW x, NEW y, x # y PROVE Cardinality({x, y}) = 2
<1> DEFINE one == {x}
<1>1. IsFiniteSet(one) /\ Cardinality(one) = 1
  BY FS_Singleton, Zenon
<1>2. y \notin one /\ {x, y} = one \cup {y}
  OBVIOUS
<1> HIDE DEF one
<1>3. Cardinality(one \cup {y}) = Cardinality(one) + 1
  BY <1>1, <1>2, FS_AddElement
<1> QED
  BY <1>1, <1>2, <1>3

\* Two red entries are what the breaker asks for.
LEMMA TwoAreRed ==
    ASSUME RedTwice, log # <<>>, log[1], lastRed <= 1
    PROVE  Red
<1> DEFINE S == {i \in DOMAIN log : log[i]}
<1>1. Len(log) \in Nat /\ DOMAIN log = 1..Len(log) /\ Len(log) >= 2 /\ log[2]
  BY DEF RedTwice
<1>2. {1, 2} \subseteq S /\ S \subseteq 1..Len(log)
  BY <1>1
<1>3. IsFiniteSet(S) /\ Cardinality(S) \in Nat
  <2>1. IsFiniteSet(1..Len(log))
    BY <1>1, FS_Interval
  <2>2. IsFiniteSet(S)
    BY <1>2, <2>1, FS_Subset
  <2> QED
    BY <2>2, FS_CardinalityType
<1>4. Cardinality({1, 2}) <= Cardinality(S)
  BY <1>2, <1>3, FS_Subset
<1>5. Cardinality({1, 2}) = 2
  <2>1. 1 # 2
    OBVIOUS
  <2> QED
    BY <2>1, PairSize, Zenon
<1> QED
  BY <1>3, <1>4, <1>5, BoundAssumption DEF Red

(***************************************************************************)
(* When the latest entry of the run log is a red baseline of this hour, no *)
(* proposal begins, although the breaker asks for two red entries.         *)
(***************************************************************************)
THEOREM RedIsHeeded == Spec => RedHeeded
<1> DEFINE Heeded == (current = 0 /\ current' # 0) => (log = <<>> \/ ~log[1] \/ lastRed > 1)
<1>1. Init => RedTwice
  BY DEF Init, RedTwice
<1>2. RedTwice /\ [Next]_vars => [Heeded]_vars
  <2> SUFFICES ASSUME RedTwice, Next, current = 0, current' # 0,
                      log # <<>>, log[1], ~ (lastRed > 1)
               PROVE  FALSE
    OBVIOUS
  <2>1. lastRed \in 0..2
    BY DEF RedTwice
  <2>2. ~Red
    BY DEF Next, Cycle, Analyse, Route, Skip, Defer, Begin, Promote, Return, Other, EndCycle,
       Tick, Approve, Reject, Crash, pipe
  <2> QED
    BY <2>1, <2>2, TwoAreRed
<1> QED
  BY <1>1, <1>2, NextRedTwice, PTL DEF Spec, RedHeeded
=============================================================================
