------------------------- MODULE SelfImproveProofs -------------------------
(***************************************************************************)
(* The pipeline implements its promise about the main branch (Promotion),  *)
(* for any files, sandboxes and numbers of runs and troubles.              *)
(***************************************************************************)
EXTENDS SelfImprove, TLAPS

RepoType ==
    /\ {tree, index, sandbox, approved} \subseteq Trees
    /\ commits \in Seq(Trees) /\ commits # <<>>
    /\ changes \in [Files -> Kinds]
    /\ verdict \in {"none", "pass", "fail"}

\* The phases in which changes are those of the sandbox.
Fixed == Phases \ {"idle", "agent", "detect", "baseline"}
InScope ==
    /\ Changed \subseteq Allowed
    /\ \A f \in Files : changes[f] = "DEL" => sandbox[f] = "none"

(***************************************************************************)
(* Where the tests are: the branch they have to return to exists, and they *)
(* are one branch above it from its creation to the verdict.               *)
(***************************************************************************)
Stacked ==
    /\ origin \in 1..Len(commits)
    /\ ci # "off" => pc \in TestPhases /\ verdict \in {"none", "pass", "fail"}
    /\ ci = "branch" => Len(commits) = origin
    /\ ci \in {"copy", "add", "commit", "wait"} =>
          Len(commits) = origin + 1 /\ verdict = "none"
    /\ ci \in {"branch", "copy", "add"} => verdict = "none"
    /\ ci \in {"copy", "add"} => HEAD = commits[origin]
    /\ ci = "wait" => index = HEAD
    /\ ci \in {"reset", "switch"} /\ verdict = "pass" =>
          index = HEAD /\ Len(commits) = origin + 1
    /\ ci = "off" /\ pc \in TestPhases /\ verdict = "pass" /\ Len(commits) = 1 =>
          index = commits[1]

\* Of the change, the files that git can see.
Known == Changed \ Ignored
\* The change is what the tests have passed, or it changes nothing.
Proven(base) == \A f \in Known : sandbox[f] = approved[f] \/ sandbox[f] = base[f]
InPlace(area) == \A f \in Known : area[f] = sandbox[f]

(***************************************************************************)
(* The tests of the promoted project see the change, and what is committed *)
(* afterwards on the main branch is what they saw.                         *)
(***************************************************************************)
Seen ==
    /\ pc = "real" =>
          /\ ci \in {"branch", "copy", "add"} => InPlace(tree)
          /\ ci = "commit" => InPlace(index)
          /\ ci = "wait" => InPlace(HEAD)
          /\ ci \in {"reset", "switch"} /\ verdict = "pass" => Proven(commits[origin])
          /\ ci = "off" /\ verdict = "pass" /\ Len(commits) = 1 => Proven(commits[1])
    /\ pc \in {"repromote", "commit"} =>
          /\ Len(commits) = 1 => Proven(commits[1]) /\ index = commits[1]
          /\ pc = "commit" => InPlace(tree)

\* What is backed up are files of the project.
BackedUp == backup \in Trees

\* Git never comes to know an ignored file.
Untracked ==
    \A f \in Ignored : index[f] = "none" /\ \A i \in 1..Len(commits) : commits[i][f] = "none"

IInv == RepoType /\ (pc \in Fixed => InScope) /\ Stacked /\ Seen

-----------------------------------------------------------------------------
(* Facts about the helpers.                                                *)

LEMMA HeadIsTree == RepoType => HEAD \in Trees /\ Len(commits) \in Nat \ {0}
<1> SUFFICES ASSUME RepoType PROVE HEAD \in Trees /\ Len(commits) \in Nat \ {0}
  OBVIOUS
<1> QED
  BY DEF RepoType, HEAD

LEMMA CopiedType == ASSUME RepoType, NEW S PROVE Copied(S) \in Trees
  BY DEF RepoType, Copied, Trees

LEMMA StagedType == RepoType => Staged \in Trees /\ Added \in Trees
<1> SUFFICES ASSUME RepoType PROVE Staged \in Trees /\ Added \in Trees
  OBVIOUS
<1>1. Added \in Trees
  BY DEF RepoType, Added, Trees
<1> QED
  BY <1>1 DEF Staged, Trees, Contents

\* git add -A, in the tests.
StagedAll == [f \in Files |-> IF f \in Ignored THEN index[f] ELSE tree[f]]

LEMMA StagedAllType == RepoType => StagedAll \in Trees
  BY DEF RepoType, StagedAll, Trees

LEMMA DetectedType == ASSUME NEW box PROVE Detected(box) \in [Files -> Kinds]
  BY DEF Detected, Kind, Kinds

\* What the filters leave is in the scope, and a file marked DEL is gone.
LEMMA FilteredScope ==
    ASSUME NEW box
    PROVE  /\ Filtered(box) \in [Files -> Kinds]
           /\ \A f \in Files : Filtered(box)[f] # "same" => f \in Allowed
           /\ \A f \in Files : Filtered(box)[f] = "DEL" => box[f] = "none"
<1>1. Scoped(box) = [f \in Files |-> IF f \in Allowed THEN Detected(box)[f] ELSE "same"]
  BY DEF Scoped
<1>2. Filtered(box) = [f \in Files |-> IF OnlyFlags(f, box) THEN "same" ELSE Scoped(box)[f]]
  BY DEF Filtered, Undead
<1>3. \A f \in Files : Scoped(box)[f] \in Kinds /\ (Scoped(box)[f] # "same" => f \in Allowed)
  BY <1>1, DetectedType DEF Kinds
<1>4. \A f \in Files : Scoped(box)[f] = "DEL" => box[f] = "none"
  BY <1>1 DEF Detected, Kind
<1> QED
  BY <1>2, <1>3, <1>4 DEF Kinds

LEMMA InitIInv == Init => IInv
  BY FileAssumption DEF Init, IInv, RepoType, Stacked, Seen, InScope, Fixed, Phases,
     TestPhases, Start, Trees, Contents, NoChange, Kinds, Changed, Known

\* Steps that touch neither the change nor the phase.
LEMMA SameChange ==
    ASSUME IInv, UNCHANGED <<pc, sandbox, changes>>
    PROVE  (pc \in Fixed => InScope)' /\ Changed' = Changed /\ Known' = Known
  BY DEF IInv, InScope, Changed, Known

-----------------------------------------------------------------------------
(* The steps of the tests.                                                 *)

LEMMA BranchKeeps == IInv /\ CIBranch => IInv'
<1> SUFFICES ASSUME IInv, CIBranch PROVE IInv'
  OBVIOUS
<1> DEFINE n == Len(commits)
<1>1. /\ ci = "branch" /\ ci' = "copy" /\ commits' = Append(commits, HEAD)
      /\ UNCHANGED <<pc, origin, sandbox, changes, verdict, tree, index, approved>>
  BY DEF CIBranch, InTests, work
<1>2. n \in Nat \ {0} /\ HEAD \in Trees /\ commits \in Seq(Trees) /\ n = origin
  BY <1>1, HeadIsTree DEF IInv, RepoType, Stacked
<1>3. /\ commits' \in Seq(Trees) /\ Len(commits') = n + 1
      /\ commits'[n + 1] = HEAD /\ commits'[n] = HEAD
  BY <1>1, <1>2 DEF HEAD
<1>4. RepoType'
  BY <1>1, <1>2, <1>3 DEF IInv, RepoType
<1>5. Stacked'
  BY <1>1, <1>2, <1>3 DEF IInv, Stacked, HEAD
<1>6. Seen'
  <2>1. pc = "real" => InPlace(tree')
    BY <1>1, SameChange DEF IInv, Seen, InPlace
  <2> QED
    BY <1>1, <2>1, SameChange DEF IInv, Seen, InPlace, Stacked, TestPhases
<1> QED
  BY <1>1, <1>4, <1>5, <1>6, SameChange DEF IInv

LEMMA CopyKeeps == IInv /\ CICopy => IInv'
<1> SUFFICES ASSUME IInv, CICopy PROVE IInv'
  OBVIOUS
<1>1. /\ ci = "copy" /\ ci' = "add" /\ tree' = (IF pc = "real" THEN tree ELSE sandbox)
      /\ UNCHANGED <<pc, origin, sandbox, changes, verdict, index, commits, approved>>
  BY DEF CICopy, InTests, work
<1>2. RepoType' /\ Stacked'
  BY <1>1 DEF IInv, RepoType, Stacked, HEAD
<1>3. Seen'
  BY <1>1, SameChange DEF IInv, Seen, InPlace, Stacked, TestPhases
<1> QED
  BY <1>1, <1>2, <1>3, SameChange DEF IInv

LEMMA AddKeeps == IInv /\ CIAdd => IInv'
<1> SUFFICES ASSUME IInv, CIAdd PROVE IInv'
  OBVIOUS
<1>1. /\ ci = "add" /\ index' = StagedAll
      /\ \/ index' = HEAD /\ verdict' = "pass" /\ ci' = "reset"
         \/ ci' = "commit" /\ verdict' = verdict
      /\ UNCHANGED <<pc, origin, sandbox, changes, tree, commits, approved>>
  BY DEF CIAdd, InTests, work, StagedAll
<1>2. /\ Len(commits) = origin + 1 /\ HEAD = commits[origin] /\ HEAD' = HEAD
      /\ verdict = "none" /\ pc \in TestPhases
  BY <1>1 DEF IInv, Stacked, HEAD
<1>3. RepoType' /\ Stacked'
  BY <1>1, <1>2, StagedAllType DEF IInv, RepoType, Stacked
<1>4. Seen'
  <2>1. pc = "real" => \A f \in Known : f \in Files /\ index'[f] = tree[f] /\ tree[f] = sandbox[f]
    BY <1>1 DEF IInv, Seen, InPlace, StagedAll, Known, Changed
  <2>2. pc = "real" => InPlace(index)' /\ (index' = HEAD => Proven(commits[origin])')
    BY <1>1, <1>2, <2>1, SameChange DEF InPlace, Proven
  <2> QED
    BY <1>1, <1>2, <2>2 DEF Seen, TestPhases
<1> QED
  BY <1>1, <1>3, <1>4, SameChange DEF IInv

LEMMA CommitKeeps == IInv /\ CICommit => IInv'
<1> SUFFICES ASSUME IInv, CICommit PROVE IInv'
  OBVIOUS
<1> DEFINE n == Len(commits)
<1>1. /\ ci = "commit" /\ ci' = "wait" /\ commits' = [commits EXCEPT ![n] = index]
      /\ UNCHANGED <<pc, origin, sandbox, changes, verdict, tree, index, approved>>
  BY DEF CICommit, InTests, work
<1>2. /\ n = origin + 1 /\ origin \in 1..n /\ verdict = "none" /\ pc \in TestPhases
      /\ index \in Trees /\ n \in Nat \ {0} /\ commits \in Seq(Trees)
  BY <1>1, HeadIsTree DEF IInv, Stacked, RepoType
<1>3. /\ commits' \in Seq(Trees) /\ Len(commits') = n /\ commits'[n] = index /\ HEAD' = index
  BY <1>1, <1>2 DEF HEAD
<1>4. RepoType'
  BY <1>1, <1>2, <1>3 DEF IInv, RepoType
<1>5. Stacked'
  BY <1>1, <1>2, <1>3 DEF IInv, Stacked
<1>6. Seen'
  BY <1>1, <1>2, <1>3, SameChange DEF IInv, Seen, InPlace, TestPhases
<1> QED
  BY <1>1, <1>4, <1>5, <1>6, SameChange DEF IInv

LEMMA WaitKeeps == IInv /\ CIWait => IInv'
<1> SUFFICES ASSUME IInv, CIWait PROVE IInv'
  OBVIOUS
<1>1. /\ ci = "wait" /\ ci' = "reset"
      /\ \/ verdict' = "pass" /\ approved' = HEAD
         \/ verdict' = "fail" /\ approved' = approved
      /\ UNCHANGED <<pc, origin, sandbox, changes, tree, index, commits>>
  BY DEF CIWait, InTests, work, repo
<1>2. /\ Len(commits) = origin + 1 /\ index = HEAD /\ HEAD' = HEAD /\ HEAD \in Trees
      /\ pc \in TestPhases
  BY <1>1, HeadIsTree DEF IInv, Stacked, HEAD
<1>3. RepoType' /\ Stacked'
  BY <1>1, <1>2 DEF IInv, RepoType, Stacked
<1>4. Seen'
  <2>1. pc = "real" /\ verdict' = "pass" => Proven(commits[origin])'
    BY <1>1, <1>2, SameChange DEF IInv, Seen, InPlace, Proven
  <2> QED
    BY <1>1, <1>2, <2>1 DEF Seen, TestPhases
<1> QED
  BY <1>1, <1>3, <1>4, SameChange DEF IInv

LEMMA FailKeeps == IInv /\ CIFails => IInv'
<1> SUFFICES ASSUME IInv, CIFails PROVE IInv'
  OBVIOUS
<1>1. /\ ci \in {"branch", "copy", "add", "commit"} /\ ci' = "reset" /\ verdict' = "fail"
      /\ tree' \in Trees
      /\ UNCHANGED <<pc, origin, sandbox, changes, index, commits, approved>>
  BY CopiedType DEF CIFails, work, IInv, RepoType
<1>2. RepoType' /\ Stacked'
  BY <1>1 DEF IInv, RepoType, Stacked, HEAD
<1>3. Seen'
  BY <1>1 DEF IInv, Seen, Stacked, TestPhases
<1> QED
  BY <1>1, <1>2, <1>3, SameChange DEF IInv

LEMMA ResetKeeps == IInv /\ CIReset => IInv'
<1> SUFFICES ASSUME IInv, CIReset PROVE IInv'
  OBVIOUS
<1>1. /\ ci = "reset" /\ ci' = "switch" /\ tree' \in Trees
      /\ UNCHANGED <<pc, origin, sandbox, changes, verdict, index, commits, approved>>
  <2>1. [f \in Files |-> IF index[f] # "none" THEN index[f] ELSE tree[f]] \in Trees
    BY DEF IInv, RepoType, Trees
  <2> QED
    BY <2>1 DEF CIReset, InTests, work, IInv, RepoType
<1>2. RepoType' /\ Stacked'
  BY <1>1 DEF IInv, RepoType, Stacked, HEAD
<1>3. Seen'
  BY <1>1, SameChange DEF IInv, Seen, Stacked, TestPhases, Proven
<1> QED
  BY <1>1, <1>2, <1>3, SameChange DEF IInv

LEMMA SwitchKeeps == IInv /\ CISwitch => IInv'
<1> SUFFICES ASSUME IInv, CISwitch PROVE IInv'
  OBVIOUS
<1> DEFINE to == commits[origin]
<1>1. /\ ci = "switch" /\ ci' = "off"
      /\ UNCHANGED <<pc, origin, sandbox, changes, verdict, approved>>
  BY DEF CISwitch, InTests, work
<1>2. /\ origin \in 1..Len(commits) /\ Len(commits) \in Nat \ {0} /\ HEAD \in Trees
      /\ to \in Trees /\ commits \in Seq(Trees) /\ {tree, index} \subseteq Trees
      /\ pc \in TestPhases
      /\ verdict = "pass" => index = HEAD /\ Len(commits) = origin + 1
  BY <1>1, HeadIsTree DEF IInv, RepoType, Stacked
<1>3. CASE UNCHANGED repo
  <2>1. Len(commits) = 1 => verdict # "pass"
    BY <1>2
  <2>2. RepoType' /\ Stacked'
    BY <1>1, <1>2, <1>3, <2>1 DEF IInv, RepoType, Stacked, repo
  <2>3. Seen'
    BY <1>1, <1>2, <1>3, <2>1 DEF Seen, TestPhases, repo
  <2> QED
    BY <1>1, <2>2, <2>3, SameChange DEF IInv
<1>4. CASE /\ tree' = Switched(tree, to) /\ index' = Switched(index, to)
           /\ commits' = SubSeq(commits, 1, origin)
  <2>1. commits' \in Seq(Trees) /\ Len(commits') = origin /\ commits'[1] = commits[1]
        /\ commits'[origin] = to
    BY <1>2, <1>4
  <2>2. {tree', index'} \subseteq Trees
    BY <1>2, <1>4 DEF Switched, Trees
  <2>3. verdict = "pass" => index' = to
    <3> SUFFICES ASSUME index = HEAD PROVE Switched(index, to) = to
      BY <1>2, <1>4
    <3>1. \A f \in Files : (IF HEAD[f] = to[f] \/ index[f] = to[f] THEN index[f] ELSE to[f]) = to[f]
      OBVIOUS
    <3> QED
      BY <3>1, <1>2 DEF Switched, Trees
  <2>4. RepoType'
    BY <1>1, <1>2, <2>1, <2>2 DEF IInv, RepoType
  <2>5. Stacked'
    BY <1>1, <1>2, <2>1, <2>3 DEF Stacked
  <2>6. pc = "real" /\ verdict = "pass" /\ origin = 1 => Proven(commits[1])'
    BY <1>1, <1>2, <2>1, SameChange DEF IInv, Seen, Proven
  <2>7. Seen'
    BY <1>1, <1>2, <2>1, <2>6 DEF Seen, TestPhases
  <2> QED
    BY <1>1, <2>4, <2>5, <2>7, SameChange DEF IInv
<1> QED
  BY <1>3, <1>4 DEF CISwitch, repo

-----------------------------------------------------------------------------
(* The phases.  Most of them leave the repository alone.                   *)

LEMMA PhaseKeeps ==
    ASSUME IInv, UNCHANGED <<repo, approved>>,
           sandbox' \in Trees, changes' \in [Files -> Kinds],
           \/ ci' = "off" /\ pc' \notin TestPhases /\ UNCHANGED <<verdict, origin>>
           \/ Test(pc') /\ pc' \in TestPhases,
           pc' \notin {"real", "repromote", "commit"}, pc' \in Fixed => InScope'
    PROVE  IInv'
<1>1. Len(commits) \in Nat \ {0}
  BY HeadIsTree DEF IInv
<1>2. Stacked'
  BY <1>1 DEF IInv, Stacked, Test, repo
<1>3. RepoType'
  BY DEF IInv, RepoType, Test, repo
<1> QED
  BY <1>2, <1>3 DEF IInv, Seen

\* The phases that only go on with the same change.
LEMMA SameKeeps ==
    ASSUME IInv, UNCHANGED <<repo, approved, sandbox, changes>>, ci = "off",
           \/ \E p \in Phases \ (TestPhases \cup {"repromote", "commit"}) : Goto(p)
           \/ \E p \in TestPhases \ {"real"} : Test(p),
           pc' \in Fixed => pc \in Fixed
    PROVE  IInv'
<1>1. pc' \in Fixed => InScope'
  BY DEF IInv, InScope, Changed
<1> QED
  BY <1>1, PhaseKeeps DEF Goto, NoTests, Test, IInv, RepoType, Phases, TestPhases

\* The end of a run, whatever has become of its change.
LEMMA EndKeeps ==
    ASSUME IInv, sandbox' \in Trees, changes' \in [Files -> Kinds],
           tree' \in Trees, UNCHANGED <<index, commits, verdict, origin, approved>>,
           pc' = "idle", ci' = "off"
    PROVE  IInv'
  BY DEF IInv, RepoType, Stacked, Seen, Fixed, TestPhases, HEAD

LEMMA OffOutside == IInv /\ pc \notin TestPhases => ci = "off"
  BY DEF IInv, Stacked

LEMMA EarlyKeep ==
    IInv /\ (StartRun \/ AfterBaseline \/ Agent \/ Detect) => IInv'
<1> SUFFICES ASSUME IInv PROVE StartRun \/ AfterBaseline \/ Agent \/ Detect => IInv'
  OBVIOUS
<1> USE DEF Finish, FinishTested, Goto, NoTests
<1>1. sandbox \in Trees /\ tree \in Trees /\ changes \in [Files -> Kinds] /\ NoChange \in [Files -> Kinds]
  BY DEF IInv, RepoType, NoChange, Kinds
<1>2. CASE StartRun
  <2>1. /\ UNCHANGED <<repo, approved>> /\ sandbox' = tree /\ changes' = NoChange /\ pc = "idle"
        /\ \/ pc' = "idle" /\ UNCHANGED <<ci, verdict, origin>>
           \/ pc' = "agent" /\ UNCHANGED <<ci, verdict, origin>>
           \/ pc' = "baseline" /\ Test("baseline")
    BY <1>2 DEF StartRun, Test
  <2>2. ci = "off"
    BY <2>1, OffOutside DEF TestPhases
  <2> QED
    BY <1>1, <2>1, <2>2, PhaseKeeps DEF Fixed, TestPhases
<1>3. CASE AfterBaseline
  BY <1>3, SameKeeps DEF AfterBaseline, Said, work, Fixed, Phases, TestPhases
<1>4. CASE Agent
  <2>1. /\ UNCHANGED <<repo, approved, changes, ci, verdict, origin>> /\ sandbox' \in Trees
        /\ pc = "agent" /\ pc' \in {"idle", "detect"}
    BY <1>1, <1>4, FileAssumption DEF Agent
  <2> QED
    BY <1>1, <2>1, OffOutside, PhaseKeeps DEF Fixed, TestPhases
<1>5. CASE Detect
  <2>1. /\ UNCHANGED <<repo, approved, sandbox>> /\ changes' = Filtered(sandbox)
        /\ pc = "detect"
        /\ \/ pc' = "idle" /\ UNCHANGED <<ci, verdict, origin>>
           \/ pc' \in {"focused", "full"} /\ Test(pc')
    BY <1>5 DEF Detect, TestChanged, Test
  <2>2. InScope' /\ changes' \in [Files -> Kinds]
    BY <2>1, FilteredScope DEF InScope, Changed
  <2> QED
    BY <1>1, <2>1, <2>2, OffOutside, PhaseKeeps DEF Fixed, TestPhases
<1> QED
  BY <1>2, <1>3, <1>4, <1>5

\* What a retry leaves is filtered as the first change was.
LEMMA ReworkKeeps ==
    ASSUME IInv, NEW next, Reworked(next), pc \in {"retry", "refix"},
           next => \E p \in TestPhases \ {"real", "baseline"} : Test(p),
           UNCHANGED <<repo, approved>>
    PROVE  IInv'
<1>1. ci = "off" /\ sandbox \in Trees /\ changes \in [Files -> Kinds] /\ sandbox' \in Trees
  BY OffOutside, FileAssumption DEF IInv, RepoType, TestPhases, Reworked
<1>2. CASE UNCHANGED changes /\ Finish("rejected")
  BY <1>1, <1>2, PhaseKeeps DEF Finish, Goto, NoTests, Fixed, TestPhases
<1>3. CASE changes' = Filtered(sandbox') /\ next
  <2>1. InScope' /\ changes' \in [Files -> Kinds]
    BY <1>3, FilteredScope DEF InScope, Changed
  <2>2. PICK p \in TestPhases \ {"real", "baseline"} : Test(p)
    BY <1>3
  <2> QED
    BY <1>1, <2>1, <2>2, PhaseKeeps DEF Test, TestPhases
<1> QED
  BY <1>2, <1>3 DEF Reworked

LEMMA TestedKeep ==
    IInv /\ (AfterFocused \/ Retry \/ AfterFull \/ Refix \/ AfterRefull) => IInv'
<1> SUFFICES ASSUME IInv PROVE AfterFocused \/ Retry \/ AfterFull \/ Refix \/ AfterRefull => IInv'
  OBVIOUS
<1>1. CASE AfterFocused
  BY <1>1, SameKeeps DEF AfterFocused, Said, work, Fixed, Phases, TestPhases, Finish
<1>2. CASE Retry
  BY <1>2, ReworkKeeps DEF Retry, TestChanged, TestPhases
<1>3. CASE AfterFull
  BY <1>3, SameKeeps DEF AfterFull, Said, work, Fixed, Phases, TestPhases, FinishTested
<1>4. CASE Refix
  BY <1>4, ReworkKeeps DEF Refix, TestPhases
<1>5. CASE AfterRefull
  BY <1>5, SameKeeps DEF AfterRefull, Said, work, Fixed, Phases, TestPhases, Finish, FinishTested
<1> QED
  BY <1>1, <1>2, <1>3, <1>4, <1>5

-----------------------------------------------------------------------------
(* From the backup to the commit.                                          *)

LEMMA CopiedInPlace == InPlace(Copied(Changed))
  BY DEF Copied, InPlace, Known, Changed

LEMMA BackupKeeps == IInv /\ Backup => IInv'
<1> SUFFICES ASSUME IInv, Backup PROVE IInv'
  OBVIOUS
<1>1. ci = "off"
  BY OffOutside DEF Backup, TestPhases
<1> QED
  BY <1>1, SameKeeps DEF Backup, FinishTested, Fixed, Phases, TestPhases

LEMMA PromoteKeeps == IInv /\ Promote => IInv'
<1> SUFFICES ASSUME IInv, Promote PROVE IInv'
  OBVIOUS
<1>1. /\ pc = "promote" /\ pc' = "real" /\ ci' = "branch" /\ verdict' = "none"
      /\ origin' = Len(commits) /\ tree' = Copied(Changed)
      /\ UNCHANGED <<index, commits, sandbox, changes, approved>>
  BY DEF Promote, Test, work
<1>2. RepoType'
  BY <1>1, CopiedType DEF IInv, RepoType
<1>3. Stacked'
  BY <1>1, HeadIsTree DEF IInv, Stacked, TestPhases
<1>4. InScope' /\ Seen'
  BY <1>1, CopiedInPlace DEF IInv, InScope, Known, Changed, Fixed, Phases, TestPhases, Seen, InPlace
<1> QED
  BY <1>2, <1>3, <1>4 DEF IInv

LEMMA BreakKeeps == IInv /\ PromoteBreaks => IInv'
<1> SUFFICES ASSUME IInv, PromoteBreaks PROVE IInv'
  OBVIOUS
<1>1. /\ pc \in {"promote", "repromote"} /\ pc' = "idle" /\ tree' \in Trees
      /\ UNCHANGED <<ci, verdict, origin, index, commits, sandbox, changes, approved>>
  BY CopiedType DEF PromoteBreaks, FinishTested, Goto, NoTests, work, IInv
<1> QED
  BY <1>1, EndKeeps, OffOutside DEF IInv, RepoType, TestPhases

LEMMA RealKeeps == IInv /\ AfterReal => IInv'
<1> SUFFICES ASSUME IInv, AfterReal PROVE IInv'
  OBVIOUS
<1>1. /\ pc = "real" /\ ci = "off" /\ UNCHANGED <<repo, work, approved, ci, verdict, origin>>
      /\ \/ verdict = "pass" /\ pc' = "repromote"
         \/ pc' = "rollback"
  BY DEF AfterReal, Said, Goto, NoTests
<1>2. RepoType' /\ InScope' /\ Stacked'
  BY <1>1 DEF IInv, RepoType, InScope, Changed, Stacked, repo, work, HEAD, TestPhases, Fixed, Phases
<1>3. Seen'
  BY <1>1 DEF IInv, Seen, Stacked, Proven, Known, Changed, repo, work, TestPhases
<1> QED
  BY <1>2, <1>3 DEF IInv

LEMMA RepromoteKeeps == IInv /\ Repromote => IInv'
<1> SUFFICES ASSUME IInv, Repromote PROVE IInv'
  OBVIOUS
<1>1. /\ pc = "repromote" /\ pc' = "commit" /\ tree' = Copied(Changed)
      /\ UNCHANGED <<ci, verdict, origin, index, commits, sandbox, changes, approved>>
  BY DEF Repromote, Goto, NoTests, work
<1>2. RepoType'
  BY <1>1, CopiedType DEF IInv, RepoType
<1>3. InScope' /\ Stacked'
  BY <1>1 DEF IInv, InScope, Changed, Stacked, HEAD, TestPhases, Fixed, Phases
<1>4. Seen'
  BY <1>1, CopiedInPlace DEF IInv, Seen, Proven, InPlace, Known, Changed
<1> QED
  BY <1>2, <1>3, <1>4 DEF IInv

LEMMA GitCommitKeeps == IInv /\ GitCommit => IInv'
<1> SUFFICES ASSUME IInv, GitCommit PROVE IInv'
  OBVIOUS
<1>1. /\ pc = "commit" /\ ci = "off" /\ UNCHANGED <<ci, verdict, origin, tree, sandbox, changes, approved>>
      /\ index' \in Trees
      /\ \/ commits' = [commits EXCEPT ![Len(commits)] = Staged] /\ pc' = "idle"
         \/ commits' = commits /\ pc' = "restore"
  BY OffOutside, StagedType DEF GitCommit, FinishTested, Goto, NoTests, work, IInv, RepoType, TestPhases
<1>2. commits' \in Seq(Trees) /\ Len(commits') = Len(commits) /\ commits' # <<>>
  BY <1>1, HeadIsTree, StagedType DEF IInv, RepoType
<1> QED
  BY <1>1, <1>2 DEF IInv, RepoType, Stacked, Seen, InScope, Changed, Fixed, Phases, TestPhases

LEMMA RollbackKeeps == IInv /\ backup \in Trees /\ Rollback => IInv'
<1> SUFFICES ASSUME IInv, backup \in Trees, Rollback PROVE IInv'
  OBVIOUS
<1>1. /\ pc \in {"rollback", "restore"} /\ pc' = "idle"
      /\ tree' = Restored(Files) \/ \E S \in SUBSET Files : tree' = Restored(S)
      /\ UNCHANGED <<ci, verdict, origin, index, commits, sandbox, changes, approved>>
  BY DEF Rollback, FinishTested, Goto, NoTests, work
<1>2. \A S : Restored(S) \in Trees
  BY DEF Restored, IInv, RepoType, Trees
<1>3. tree' \in Trees
  BY <1>1, <1>2
<1> QED
  BY <1>1, <1>3, EndKeeps, OffOutside DEF IInv, RepoType, TestPhases

-----------------------------------------------------------------------------
(* Around the pipeline.                                                    *)

LEMMA CrashKeeps == IInv /\ Crash => IInv'
  BY EndKeeps DEF Crash, repo, work, IInv, RepoType

LEMMA EditKeeps == IInv /\ (\E f \in Files : Edit(f)) => IInv'
<1> SUFFICES ASSUME IInv, NEW f \in Files, Edit(f) PROVE IInv'
  OBVIOUS
<1>1. /\ pc \in {"idle", "agent"} \/ ci = "wait"
      /\ tree' = [tree EXCEPT ![f] = "edit"]
      /\ UNCHANGED <<pc, ci, verdict, origin, index, commits, sandbox, changes, approved>>
  BY DEF Edit, work
<1>2. tree' \in Trees
  BY <1>1 DEF IInv, RepoType, Trees, Contents
<1>3. RepoType' /\ Stacked'
  BY <1>1, <1>2 DEF IInv, RepoType, Stacked, HEAD
<1>4. Seen'
  BY <1>1, SameChange DEF IInv, Seen, InPlace, HEAD, Stacked, TestPhases
<1> QED
  BY <1>1, <1>3, <1>4, SameChange DEF IInv

LEMMA NextBackup == IInv /\ BackedUp /\ [Next]_vars => BackedUp'
<1> SUFFICES ASSUME IInv, backup \in Trees, [Next]_vars PROVE backup' \in Trees
  BY DEF BackedUp
<1>1. CASE Backup
  BY <1>1 DEF Backup, IInv, RepoType, Trees, Contents
<1>2. ~Backup => UNCHANGED backup
  BY DEF vars, work, Next, Step, CI, InTests, CIBranch, CICopy, CIAdd, CICommit, CIWait,
     CIFails, CIReset, CISwitch, StartRun, AfterBaseline, Agent, Detect, AfterFocused,
     Retry, AfterFull, Refix, AfterRefull, Promote, PromoteBreaks, AfterReal, Repromote,
     GitCommit, Rollback, Crash, Edit
<1> QED
  BY <1>1, <1>2

LEMMA NextIInv == IInv /\ BackedUp /\ [Next]_vars => IInv'
<1> SUFFICES ASSUME IInv, backup \in Trees, [Next]_vars PROVE IInv'
  BY DEF BackedUp
<1>1. CASE CI
  BY <1>1, BranchKeeps, CopyKeeps, AddKeeps, CommitKeeps, WaitKeeps, FailKeeps,
     ResetKeeps, SwitchKeeps DEF CI
<1>2. CASE Step /\ ~CI
  BY <1>2, EarlyKeep, TestedKeep, BackupKeeps, PromoteKeeps, BreakKeeps, RealKeeps,
     RepromoteKeeps, GitCommitKeeps, RollbackKeeps DEF Step
<1>3. CASE UNCHANGED vars
  <2>1. UNCHANGED <<pc, ci, verdict, origin, tree, index, commits, sandbox, changes, approved>>
    BY <1>3 DEF vars, repo, work
  <2> QED
    BY <2>1 DEF IInv, RepoType, InScope, Known, Changed, Stacked, HEAD, Seen, InPlace, Proven
<1> QED
  BY <1>1, <1>2, <1>3, EarlyKeep, CrashKeeps, EditKeeps DEF Next

\* What git is told to stage is never an ignored file.
LEMMA NextUntracked == IInv /\ Untracked /\ [Next]_vars => Untracked'
<1> SUFFICES ASSUME IInv, Untracked, [Next]_vars PROVE Untracked'
  OBVIOUS
<1> DEFINE n == Len(commits)
<1>1. /\ n \in Nat \ {0} /\ commits \in Seq(Trees) /\ {tree, index} \subseteq Trees
      /\ Ignored \subseteq Files /\ origin \in 1..n /\ HEAD \in Trees
      /\ Staged \in Trees /\ Added \in Trees
  BY HeadIsTree, StagedType, FileAssumption DEF IInv, RepoType, Stacked
<1>2. \A f \in Ignored : HEAD[f] = "none" /\ index[f] = "none"
  BY <1>1 DEF Untracked, HEAD
<1>3. CASE CIBranch
  <2>1. commits' = Append(commits, HEAD) /\ index' = index
    BY <1>3 DEF CIBranch
  <2>2. Len(commits') = n + 1 /\ \A i \in 1..n + 1 : commits'[i] = IF i = n + 1 THEN HEAD ELSE commits[i]
    BY <1>1, <2>1
  <2>3. \A i \in 1..n + 1 : i = n + 1 \/ i \in 1..n
    BY <1>1
  <2> QED
    BY <1>2, <2>1, <2>2, <2>3 DEF Untracked
<1>4. ASSUME UNCHANGED commits, \A f \in Ignored : index'[f] = "none" PROVE Untracked'
  BY <1>4 DEF Untracked
<1>5. CASE CIAdd
  BY <1>1, <1>2, <1>4, <1>5 DEF CIAdd
<1>6. ASSUME NEW area \in Trees, \A f \in Ignored : area[f] = "none" /\ index'[f] = "none",
             commits' = [commits EXCEPT ![n] = area]
      PROVE  Untracked'
  <2>1. Len(commits') = n /\ \A i \in 1..n : commits'[i] = area \/ commits'[i] = commits[i]
    BY <1>1, <1>6
  <2> QED
    BY <1>6, <2>1 DEF Untracked
<1>7. CASE CICommit
  BY <1>1, <1>2, <1>6, <1>7 DEF CICommit
<1>8. CASE CISwitch
  <2>1. CASE UNCHANGED repo
    BY <1>2, <1>4, <2>1 DEF repo
  <2>2. CASE /\ index' = Switched(index, commits[origin])
             /\ commits' = SubSeq(commits, 1, origin)
    <3>1. Len(commits') = origin /\ \A i \in 1..origin : i \in 1..n /\ commits'[i] = commits[i]
      BY <1>1, <2>2
    <3>2. \A f \in Ignored : index'[f] = "none"
      BY <1>1, <1>2, <2>2 DEF Switched, Untracked
    <3> QED
      BY <3>1, <3>2 DEF Untracked
  <2> QED
    BY <1>8, <2>1, <2>2 DEF CISwitch, repo
<1>9. CASE GitCommit
  <2>1. \A f \in Ignored : Added[f] = "none" /\ Staged[f] = "none"
    BY <1>1, <1>2 DEF Added, Staged
  <2>2. /\ index' \in {index, Added, Staged}
        /\ \/ UNCHANGED commits
           \/ commits' = [commits EXCEPT ![n] = Staged]
    BY <1>9 DEF GitCommit
  <2> QED
    BY <1>1, <1>2, <1>4, <1>6, <2>1, <2>2
<1>10. ~CIBranch /\ ~CIAdd /\ ~CICommit /\ ~CISwitch /\ ~GitCommit => UNCHANGED <<index, commits>>
  BY DEF Next, Step, CI, CICopy, CIWait, CIFails, CIReset, StartRun, AfterBaseline,
     Agent, Detect, AfterFocused, Retry, AfterFull, Refix, AfterRefull, Backup, Promote,
     PromoteBreaks, AfterReal, Repromote, Rollback, Crash, Edit, repo, vars
<1> QED
  BY <1>2, <1>3, <1>4, <1>5, <1>7, <1>8, <1>9, <1>10

\* A commit that git does not refuse is one of files it knows.
LEMMA AllKnown ==
    ASSUME RepoType, Untracked, ~Refused
    PROVE  Known = Changed
<1>1. \A f \in Changed : f \notin Ignored
  BY DEF Refused, Untracked
<1> QED
  BY <1>1 DEF Known

-----------------------------------------------------------------------------
(* The refinement.                                                         *)

LEMMA InitGit == Init => BackedUp /\ Untracked
  BY FileAssumption DEF BackedUp, Untracked, Init, Start, Trees, Contents

LEMMA InitPromo == Init => Promo!Init
  BY DEF Init, Promo!Init

\* Only the commit of a promotion touches the main branch.
LEMMA OthersLeaveMain ==
    ASSUME IInv, Next, ~GitCommit
    PROVE  commits'[1] = commits[1]
<1>1. /\ Len(commits) \in Nat \ {0} /\ commits \in Seq(Trees) /\ origin \in 1..Len(commits)
      /\ HEAD \in Trees
  BY HeadIsTree DEF IInv, RepoType, Stacked
<1>2. CASE CIBranch
  BY <1>1, <1>2 DEF CIBranch
<1>3. CASE CICommit
  BY <1>1, <1>3 DEF CICommit, InTests, IInv, Stacked
<1>4. CASE CISwitch
  BY <1>1, <1>4 DEF CISwitch, repo
<1>5. CASE UNCHANGED commits
  BY <1>5
<1>6. ~CIBranch /\ ~CICommit /\ ~CISwitch => UNCHANGED commits
  BY DEF Next, Step, CI, CICopy, CIAdd, CIWait, CIFails, CIReset, StartRun, AfterBaseline,
     Agent, Detect, AfterFocused, Retry, AfterFull, Refix, AfterRefull, Backup, Promote,
     PromoteBreaks, AfterReal, Repromote, Rollback, Crash, Edit, repo
<1> QED
  BY <1>2, <1>3, <1>4, <1>5, <1>6

\* Only CI's verdict changes what the tests have passed, to a tree.
LEMMA OthersApproveNothing ==
    ASSUME IInv, Next
    PROVE  approved' = approved \/ (CIWait /\ approved' \in Trees /\ UNCHANGED commits)
<1>1. CASE CIWait
  BY <1>1, HeadIsTree DEF CIWait, IInv, repo
<1>2. ~CIWait => UNCHANGED approved
  BY DEF Next, Step, CI, CIBranch, CICopy, CIAdd, CICommit, CIFails, CIReset, CISwitch,
     StartRun, AfterBaseline,
     Agent, Detect, AfterFocused, Retry, AfterFull, Refix, AfterRefull, Backup, Promote,
     PromoteBreaks, AfterReal, Repromote, GitCommit, Rollback, Crash, Edit
<1> QED
  BY <1>1, <1>2

\* What is committed on the main branch comes from the approved tree.
LEMMA CommitIsPromotion ==
    ASSUME IInv, Untracked, GitCommit
    PROVE  Promo!Commit \/ commits'[1] = commits[1]
<1>1. /\ Len(commits) \in Nat \ {0} /\ commits \in Seq(Trees) /\ Staged \in Trees
      /\ commits[1] \in Trees /\ approved \in Trees
  BY HeadIsTree, StagedType DEF IInv, RepoType
<1>2. CASE commits' = commits
  BY <1>2
<1>3. CASE commits' = [commits EXCEPT ![Len(commits)] = Staged] /\ Len(commits) > 1
  BY <1>1, <1>3
<1>4. CASE commits' = [commits EXCEPT ![Len(commits)] = Staged] /\ Len(commits) = 1 /\ ~Refused
  <2>0. Known = Changed
    BY <1>4, AllKnown DEF IInv
  <2>1. /\ index = commits[1] /\ Proven(commits[1]) /\ InPlace(tree) /\ InScope
        /\ approved' = approved
    BY <1>4 DEF GitCommit, IInv, Seen, Fixed, Phases, TestPhases
  <2> DEFINE S == {f \in Changed : sandbox[f] = approved[f]}
             T == [f \in Files |-> IF f \in S THEN approved[f] ELSE commits[1][f]]
  <2>2. S \in SUBSET Allowed
    BY <2>1 DEF InScope
  <2>3. \A f \in Files : Staged[f] = T[f]
    <3> SUFFICES ASSUME NEW f \in Files PROVE Staged[f] = T[f]
      OBVIOUS
    <3>1. CASE f \notin Changed
      BY <2>1, <3>1 DEF Staged, Added, Changed
    <3>2. CASE f \in Changed
      <4>1. Staged[f] = sandbox[f]
        BY <2>0, <2>1, <3>2 DEF Staged, Added, Known, Changed, InPlace, InScope, IInv, RepoType, Kinds
      <4> QED
        BY <2>0, <2>1, <3>2, <4>1 DEF Proven
    <3> QED
      BY <3>1, <3>2
  <2>4. Staged = T
    BY <2>3 DEF Staged
  <2>5. commits'[1] = T
    BY <1>1, <1>4, <2>4
  <2> HIDE DEF S
  <2> QED
    BY <2>1, <2>2, <2>5 DEF Promo!Commit
<1>5. commits' = commits \/ (commits' = [commits EXCEPT ![Len(commits)] = Staged] /\ ~Refused)
  BY DEF GitCommit
<1>6. Len(commits) = 1 \/ Len(commits) > 1
  <2>1. \A n \in Nat \ {0} : n = 1 \/ n > 1
    OBVIOUS
  <2> QED
    BY <1>1, <2>1
<1> QED
  BY <1>2, <1>3, <1>4, <1>5, <1>6

(***************************************************************************)
(* Whatever the agent writes, whichever command fails and whenever the     *)
(* process dies, the main branch changes only by files of the allowed      *)
(* scope, all taken from one tree that the tests have passed.              *)
(***************************************************************************)
THEOREM PipelinePromotes == Spec => Promoted
<1>1. IInv /\ Untracked /\ [Next]_vars => [Promo!Next]_<<commits[1], approved>>
  <2> SUFFICES ASSUME IInv, Untracked, [Next]_vars PROVE [Promo!Next]_<<commits[1], approved>>
    OBVIOUS
  <2>1. CASE UNCHANGED vars
    BY <2>1 DEF vars, repo
  <2>2. CASE Next /\ ~GitCommit
    <3>1. commits'[1] = commits[1]
      BY <2>2, OthersLeaveMain
    <3>2. approved' = approved \/ approved' \in Promo!Trees
      BY <2>2, OthersApproveNothing DEF Promo!Trees, Trees
    <3> QED
      BY <3>1, <3>2 DEF Promo!Next, Promo!Pass
  <2>3. CASE GitCommit
    <3>1. approved' = approved
      BY <2>3 DEF GitCommit
    <3> QED
      BY <2>3, <3>1, CommitIsPromotion DEF Promo!Next
  <2> QED
    BY <2>1, <2>2, <2>3
<1> QED
  BY <1>1, InitIInv, InitGit, NextIInv, NextBackup, NextUntracked, InitPromo, PTL DEF Spec, Promoted, Promo!Spec

-----------------------------------------------------------------------------
(* A run that nothing disturbs.                                            *)

\* Nothing has failed or died, and nobody has edited a file.
Undisturbed == Troubles = 0
Counted == {faults, crashes, edits} \subseteq Nat

\* The same to git, which does not look at ignored files.
Seeable == Files \ Ignored
Same(area, base) == \A f \in Seeable : area[f] = base[f]

Clean == Same(tree, HEAD) /\ index = HEAD /\ Len(commits) = 1

\* There is a change, and all of it that git sees differs from the main branch.
Different == Changed # {} /\ \A f \in Known : sandbox[f] # commits[1][f]

\* The roll-back can restore what the promotion replaces.
Restorable == \A f \in Seeable : changes[f] = "MOD" => backup[f] = commits[1][f]

\* The project with the change in it.
WithChange == [f \in Files |-> IF f \in Changed THEN sandbox[f] ELSE commits[1][f]]

(***************************************************************************)
(* The project is as git knows it but for the time of the tests, and then  *)
(* every step of the tests knows what the next one has to undo.            *)
(***************************************************************************)
Traced ==
    /\ pc # "restore"
    /\ ci = "off" /\ pc # "commit" => Clean
    /\ pc = "commit" => Same(tree, WithChange) /\ index = HEAD /\ Len(commits) = 1
    /\ ci # "off" => origin = 1
    /\ ci \in {"branch", "copy"} =>
          index = HEAD /\ Same(tree, IF pc = "real" THEN WithChange ELSE HEAD)
    /\ ci = "branch" => Len(commits) = 1
    /\ ci \notin {"off", "branch"} => Len(commits) = 2
    /\ ci \in {"copy", "add"} => HEAD = commits[1]
    /\ ci = "commit" => Same(tree, index)
    /\ ci \in {"wait", "reset", "switch"} => Same(tree, HEAD) /\ index = HEAD

Calm ==
    /\ pc \in Fixed => Different
    /\ pc \in {"promote", "real", "rollback", "repromote", "commit"} => Restorable
    /\ Traced

UInv == Counted /\ (Undisturbed => Calm)

Still == UNCHANGED <<faults, crashes, edits>>

LEMMA FaultCounts == ASSUME Counted, Fault PROVE ~Still
  BY DEF Counted, Fault, Still

LEMMA CountsGrow ==
    ASSUME Counted, [Next]_vars
    PROVE  Counted' /\ (Undisturbed' => Undisturbed /\ Still)
<1>1. \/ Still
      \/ faults' = faults + 1 /\ UNCHANGED <<crashes, edits>>
      \/ crashes' = crashes + 1 /\ UNCHANGED <<faults, edits>>
      \/ edits' = edits + 1 /\ UNCHANGED <<faults, crashes>>
  <2>1. CASE UNCHANGED vars
    BY <2>1 DEF vars, counts, Still
  <2>2. CASE CI
    BY <2>2 DEF CI, CIBranch, CICopy, CIAdd, CICommit, CIWait, CIFails, CIReset, CISwitch,
       counts, Fault, Still
  <2>3. CASE Step /\ ~CI
    BY <2>3 DEF Step, AfterBaseline, Agent, Detect, AfterFocused, Retry, AfterFull, Refix,
       AfterRefull, Backup, Promote, PromoteBreaks, AfterReal, Repromote, GitCommit,
       Rollback, counts, Fault, Still
  <2>4. CASE StartRun \/ Crash \/ \E f \in Files : Edit(f)
    BY <2>4 DEF StartRun, Crash, Edit, Still
  <2> QED
    BY <2>1, <2>2, <2>3, <2>4 DEF Next
<1> QED
  BY <1>1 DEF Counted, Undisturbed, Troubles, Still

LEMMA InitUInv == Init => UInv
  BY DEF Init, UInv, Counted, Calm, Traced, Clean, Same, Seeable, Fixed, HEAD

\* The steps of the tests put back what they replace.
LEMMA TestsTrace ==
    ASSUME IInv, Untracked, Counted, Calm, CI, Still
    PROVE  Calm'
<1>1. /\ Len(commits) \in Nat \ {0} /\ commits \in Seq(Trees) /\ HEAD \in Trees
      /\ {tree, index} \subseteq Trees /\ ci # "off" /\ pc \in TestPhases
  BY HeadIsTree DEF IInv, RepoType, Stacked, CI, CIBranch, CICopy, CIAdd, CICommit, CIWait,
     CIFails, CIReset, CISwitch, InTests
<1>2. ASSUME commits'[1] = commits[1], UNCHANGED <<pc, sandbox, changes, backup>>
      PROVE  /\ pc' \in Fixed => Different'
             /\ pc' \in {"promote", "real", "rollback", "repromote", "commit"} => Restorable'
             /\ WithChange' = WithChange
  BY <1>2 DEF Calm, Different, Restorable, WithChange, Changed, Known
<1>3. CASE CIBranch
  <2>1. /\ ci = "branch" /\ ci' = "copy" /\ commits' = Append(commits, HEAD) /\ Len(commits) = 1
        /\ UNCHANGED <<pc, origin, tree, index, sandbox, changes, backup>>
    BY <1>3 DEF CIBranch, InTests, work, Calm, Traced
  <2> DEFINE n == Len(commits)
  <2>2. /\ commits' \in Seq(Trees) /\ Len(commits') = n + 1
        /\ commits'[n + 1] = HEAD /\ commits'[n] = HEAD
    <3>1. n \in Nat \ {0} /\ HEAD \in Trees /\ commits \in Seq(Trees)
          /\ commits' = Append(commits, HEAD)
      BY <1>1, <2>1
    <3> QED
      BY <3>1 DEF HEAD
  <2>3. Len(commits') = 2 /\ commits'[1] = commits[1] /\ HEAD' = HEAD /\ HEAD = commits[1]
    BY <2>1, <2>2 DEF HEAD
  <2> QED
    BY <1>1, <1>2, <2>1, <2>3 DEF Calm, Traced, Same, TestPhases
<1>4. CASE CICopy
  <2>1. /\ ci = "copy" /\ ci' = "add"
        /\ UNCHANGED <<pc, origin, commits, index, sandbox, changes, backup>>
    BY <1>4 DEF CICopy, InTests, work
  <2> QED
    BY <1>1, <1>2, <2>1 DEF Calm, Traced, TestPhases, HEAD
<1>5. CASE CIAdd
  <2>1. /\ ci = "add" /\ index' = StagedAll
        /\ \/ index' = HEAD /\ ci' = "reset"
           \/ ci' = "commit"
        /\ UNCHANGED <<pc, origin, tree, commits, sandbox, changes, backup>>
    BY <1>5 DEF CIAdd, InTests, work, StagedAll
  <2>2. Same(tree, StagedAll)
    BY DEF Same, Seeable, StagedAll
  <2>3. Len(commits) = 2 /\ origin = 1 /\ HEAD' = HEAD /\ Same(tree', index')
    BY <1>1, <2>1, <2>2 DEF Calm, Traced, Same, HEAD
  <2> QED
    BY <1>1, <1>2, <2>1, <2>3 DEF Calm, Traced, Same, TestPhases
<1>6. CASE CICommit
  <2>1. /\ ci = "commit" /\ ci' = "wait" /\ commits' = [commits EXCEPT ![Len(commits)] = index]
        /\ Len(commits) = 2 /\ Same(tree, index)
        /\ UNCHANGED <<pc, origin, tree, index, sandbox, changes, backup>>
    BY <1>6 DEF CICommit, InTests, work, Calm, Traced
  <2>2. Len(commits') = 2 /\ commits'[1] = commits[1] /\ HEAD' = index
    BY <1>1, <2>1 DEF HEAD
  <2> QED
    BY <1>1, <1>2, <2>1, <2>2 DEF Calm, Traced, Same, TestPhases
<1>7. CASE CIWait
  <2>1. /\ ci = "wait" /\ ci' = "reset"
        /\ UNCHANGED <<pc, origin, tree, index, commits, sandbox, changes, backup>>
    BY <1>7 DEF CIWait, InTests, work, repo
  <2> QED
    BY <1>1, <1>2, <2>1 DEF Calm, Traced, Same, TestPhases, HEAD
<1>8. CASE CIFails
  BY <1>8, FaultCounts DEF CIFails
<1>9. CASE CIReset
  <2>1. /\ ci = "reset" /\ ci' = "switch"
        /\ tree' = [f \in Files |-> IF index[f] # "none" THEN index[f] ELSE tree[f]]
        /\ UNCHANGED <<pc, origin, index, commits, sandbox, changes, backup>>
    BY <1>9, FaultCounts DEF CIReset, InTests, work
  <2>2. Same(tree', HEAD)
    BY <1>1, <2>1 DEF Calm, Traced, Same, Seeable, Trees
  <2> QED
    BY <1>1, <1>2, <2>1, <2>2 DEF Calm, Traced, Same, TestPhases, HEAD
<1>10. CASE CISwitch
  <2> DEFINE to == commits[1]
  <2>1. /\ ci = "switch" /\ ci' = "off" /\ origin = 1 /\ Len(commits) = 2
        /\ Same(tree, HEAD) /\ index = HEAD /\ to \in Trees
        /\ UNCHANGED <<pc, sandbox, changes, backup>>
    BY <1>1, <1>10 DEF CISwitch, InTests, work, Calm, Traced
  <2>2. MaySwitch(to)
    <3>1. \A f \in Ignored : HEAD[f] = to[f]
      BY <2>1 DEF Untracked, HEAD
    <3> QED
      BY <2>1, <3>1 DEF MaySwitch, Same, Seeable
  <2>3. /\ tree' = Switched(tree, to) /\ index' = Switched(index, to)
        /\ commits' = SubSeq(commits, 1, 1)
    BY <1>10, <2>1, <2>2, FaultCounts DEF CISwitch
  <2>4. Switched(index, to) = to /\ Same(Switched(tree, to), to)
    <3>1. \A f \in Files : (IF HEAD[f] = to[f] \/ index[f] = to[f] THEN index[f] ELSE to[f]) = to[f]
      BY <2>1
    <3>2. Switched(index, to) = to
      BY <2>1, <3>1 DEF Switched, Trees
    <3>3. Same(Switched(tree, to), to)
      BY <2>1 DEF Switched, Same, Seeable
    <3> QED
      BY <3>2, <3>3
  <2>5. Len(commits') = 1 /\ commits'[1] = to /\ HEAD' = to
    BY <1>1, <2>1, <2>3 DEF HEAD
  <2> QED
    BY <1>1, <1>2, <2>1, <2>3, <2>4, <2>5 DEF Calm, Traced, Clean, Same, TestPhases
<1> QED
  BY <1>3, <1>4, <1>5, <1>6, <1>7, <1>8, <1>9, <1>10 DEF CI

\* A change that the filters leave differs from the project as it is.
LEMMA FilteredDiffers ==
    ASSUME NEW box, NEW f \in Files, Filtered(box)[f] # "same"
    PROVE  box[f] # tree[f]
<1>1. Scoped(box)[f] # "same"
  BY DEF Filtered, Undead
<1> QED
  BY <1>1 DEF Scoped, Detected, Kind

\* A phase that leaves the repository alone and is not one of the promotion.
LEMMA CalmKept ==
    ASSUME IInv, Clean, UNCHANGED repo, pc \in Phases,
           \/ pc' \notin TestPhases /\ ci' = "off"
           \/ Test(pc') /\ pc' \in TestPhases,
           pc' \notin {"real", "commit", "restore"},
           pc' \in {"promote", "rollback", "repromote"} => Restorable',
           pc' \in Fixed => Different'
    PROVE  Calm'
<1>1. Clean' /\ HEAD' = HEAD
  BY DEF Clean, Same, HEAD, repo
<1> QED
  BY <1>1 DEF Calm, Traced, Clean, Same, Test, TestPhases

LEMMA EarlyCalm ==
    ASSUME IInv, Counted, Calm, Still,
           StartRun \/ AfterBaseline \/ Agent \/ Detect \/ AfterFocused \/ AfterFull \/ AfterRefull
    PROVE  Calm'
<1> USE DEF Finish, FinishTested, Goto, NoTests
<1>1. pc \in Phases /\ ci = "off" /\ pc \notin {"commit", "restore", "real"} /\ Clean
  BY OffOutside DEF StartRun, AfterBaseline, Agent, Detect, AfterFocused, AfterFull, AfterRefull,
     Said, Phases, TestPhases, Calm, Traced
<1>2. CASE StartRun \/ AfterBaseline \/ Agent
  BY <1>1, <1>2, CalmKept DEF StartRun, AfterBaseline, Agent, Said, Fixed, Phases, TestPhases, Test
<1>3. CASE Detect
  <2>1. /\ UNCHANGED repo /\ changes' = Filtered(sandbox) /\ UNCHANGED sandbox
        /\ \/ pc' = "idle" /\ ci' = "off"
           \/ pc' \in {"focused", "full"} /\ Test(pc') /\ changes' # NoChange
    BY <1>1, <1>3 DEF Detect, TestChanged, Test
  <2>2. changes' # NoChange => Different'
    <3> SUFFICES ASSUME changes' # NoChange PROVE Different'
      OBVIOUS
    <3>1. \E f \in Files : changes'[f] # "same"
      BY <2>1, FilteredScope DEF NoChange
    <3>2. \A f \in Seeable : changes'[f] # "same" => sandbox'[f] # commits'[1][f]
      BY <1>1, <2>1, FilteredDiffers DEF Clean, Same, Seeable, HEAD, repo
    <3> QED
      BY <3>1, <3>2 DEF Different, Known, Changed, Seeable
  <2> QED
    BY <1>1, <2>1, <2>2, CalmKept DEF Fixed, TestPhases
<1>4. CASE AfterFocused \/ AfterFull \/ AfterRefull
  <2>1. /\ UNCHANGED <<repo, work>> /\ pc \in Fixed
        /\ \/ pc' \in {"idle", "retry", "refix", "backup"} /\ ci' = "off"
           \/ pc' = "full" /\ Test(pc')
    BY <1>1, <1>4 DEF AfterFocused, AfterFull, AfterRefull, Said, Fixed, Phases, TestPhases, Test
  <2>2. Different'
    BY <2>1 DEF Calm, Different, Known, Changed, work, repo
  <2> QED
    BY <1>1, <2>1, <2>2, CalmKept DEF TestPhases
<1> QED
  BY <1>2, <1>3, <1>4

LEMMA ReworkCalm ==
    ASSUME IInv, Calm, Retry \/ Refix
    PROVE  Calm'
<1>1. pc \in Phases /\ ci = "off" /\ Clean /\ UNCHANGED repo
  BY OffOutside DEF Retry, Refix, Phases, TestPhases, Calm, Traced
<1>2. \/ pc' = "idle" /\ ci' = "off"
      \/ /\ pc' \in {"focused", "full", "refull"} /\ Test(pc')
         /\ changes' = Filtered(sandbox') /\ changes' # NoChange
  BY <1>1 DEF Retry, Refix, Reworked, Finish, Goto, NoTests, TestChanged, Test
<1>3. changes' = Filtered(sandbox') /\ changes' # NoChange => Different'
  <2> SUFFICES ASSUME changes' = Filtered(sandbox'), changes' # NoChange PROVE Different'
    OBVIOUS
  <2>1. \E f \in Files : changes'[f] # "same"
    BY FilteredScope DEF NoChange
  <2>2. \A f \in Seeable : changes'[f] # "same" => sandbox'[f] # commits'[1][f]
    BY <1>1, FilteredDiffers DEF Clean, Same, Seeable, HEAD, repo
  <2> QED
    BY <2>1, <2>2 DEF Different, Known, Changed, Seeable
<1> QED
  BY <1>1, <1>2, <1>3, CalmKept DEF Fixed, TestPhases

\* What the promotion copies into a clean project.
LEMMA PromotedTree ==
    ASSUME Clean, RepoType
    PROVE  Same(Copied(Changed), WithChange)
  BY DEF Clean, Same, Seeable, Copied, WithChange, HEAD

\* The promotion can be undone, and its commit is never empty.
LEMMA PromoteCalm ==
    ASSUME IInv, Counted, Calm, Still,
           Backup \/ Promote \/ PromoteBreaks \/ AfterReal \/ Repromote
    PROVE  Calm'
<1> USE DEF Finish, FinishTested, Goto, NoTests
<1>1. pc \in Fixed /\ pc # "commit" /\ ci = "off" /\ Clean
  BY OffOutside DEF Backup, Promote, PromoteBreaks, AfterReal, Repromote, Said, Fixed, Phases,
     TestPhases, Calm, Traced
<1>2. Different
  BY <1>1 DEF Calm
<1>3. CASE Backup
  <2>1. /\ UNCHANGED <<repo, sandbox, changes>> /\ ci' = "off" /\ pc' \in {"idle", "promote"}
        /\ backup' = [f \in Files |-> IF changes[f] = "MOD" THEN tree[f] ELSE "none"]
    BY <1>1, <1>3 DEF Backup
  <2>2. Restorable' /\ Different'
    BY <1>1, <1>2, <2>1 DEF Restorable, Different, Known, Changed, Clean, Same, Seeable, HEAD, repo
  <2> QED
    BY <1>1, <2>1, <2>2, CalmKept DEF TestPhases, Fixed
<1>4. CASE Promote
  <2>1. /\ pc = "promote" /\ pc' = "real" /\ ci' = "branch" /\ origin' = Len(commits)
        /\ Same(tree', WithChange) /\ UNCHANGED <<index, commits, sandbox, changes, backup>>
    BY <1>1, <1>4, PromotedTree DEF Promote, Test, work, IInv
  <2>2. Restorable' /\ Different' /\ WithChange' = WithChange
    BY <1>2, <2>1 DEF Calm, Restorable, Different, Known, Changed, WithChange
  <2> QED
    BY <1>1, <2>1, <2>2 DEF Calm, Traced, Clean, Same, HEAD
<1>5. CASE PromoteBreaks
  BY <1>5, FaultCounts DEF PromoteBreaks
<1>6. CASE AfterReal
  <2>1. /\ UNCHANGED <<repo, sandbox, changes, backup>> /\ pc = "real"
        /\ pc' \in {"repromote", "rollback"} /\ ci' = "off"
    BY <1>1, <1>6 DEF AfterReal, Said, work
  <2>2. Restorable' /\ Different'
    BY <1>2, <2>1 DEF Calm, Restorable, Different, Known, Changed, repo
  <2> QED
    BY <1>1, <2>1, <2>2, CalmKept DEF TestPhases, Fixed
<1>7. CASE Repromote
  <2>1. /\ pc = "repromote" /\ pc' = "commit" /\ ci' = "off"
        /\ Same(tree', WithChange) /\ UNCHANGED <<index, commits, sandbox, changes, backup>>
    BY <1>1, <1>7, PromotedTree DEF Repromote, work, IInv
  <2>2. Restorable' /\ Different' /\ WithChange' = WithChange
    BY <1>2, <2>1 DEF Calm, Restorable, Different, Known, Changed, WithChange
  <2> QED
    BY <1>1, <2>1, <2>2 DEF Calm, Traced, Clean, Same, HEAD
<1> QED
  BY <1>3, <1>4, <1>5, <1>6, <1>7

\* What is staged is the project with the change in it, which differs.
LEMMA StagedDiffers ==
    ASSUME IInv, Untracked, Calm, pc = "commit", ~Refused
    PROVE  Staged = WithChange /\ Staged # HEAD
<1>1. /\ Same(tree, WithChange) /\ index = HEAD /\ HEAD = commits[1] /\ Different /\ InScope
      /\ commits[1] \in Trees /\ changes \in [Files -> Kinds]
  BY HeadIsTree DEF Calm, Traced, IInv, RepoType, Fixed, Phases, TestPhases, HEAD
<1>2. Known = Changed
  BY AllKnown DEF IInv
<1>3. \A f \in Files : Staged[f] = WithChange[f]
  <2> SUFFICES ASSUME NEW f \in Files PROVE Staged[f] = WithChange[f]
    OBVIOUS
  <2>1. CASE f \notin Changed
    BY <1>1, <2>1 DEF Staged, Added, WithChange, Changed
  <2>2. CASE f \in Changed
    <3>1. tree[f] = sandbox[f] /\ f \notin Ignored
      BY <1>1, <1>2, <2>2 DEF Same, Seeable, WithChange, Known
    <3> QED
      BY <1>1, <2>2, <3>1 DEF Staged, Added, WithChange, Changed, InScope, Kinds
  <2> QED
    BY <2>1, <2>2
<1>4. Staged = WithChange
  BY <1>3 DEF Staged, WithChange
<1>5. \E f \in Files : WithChange[f] # commits[1][f]
  BY <1>1, <1>2 DEF Different, WithChange, Changed
<1> QED
  BY <1>1, <1>4, <1>5

\* A commit leaves the change on the main branch, a roll-back leaves nothing.
LEMMA EndCalm ==
    ASSUME IInv, Untracked, Counted, Calm, Still, GitCommit \/ Rollback
    PROVE  Calm'
<1> USE DEF FinishTested, Goto, NoTests
<1>1. ci = "off" /\ pc # "restore"
  BY OffOutside DEF GitCommit, Rollback, TestPhases, Calm, Traced
<1>2. CASE GitCommit
  <2>1. pc = "commit" /\ ~Refused
    <3>1. faults' # faults + 1
      BY DEF Still, Counted
    <3> QED
      BY <1>2, <3>1, FaultCounts DEF GitCommit
  <2>2. Staged = WithChange /\ Staged # HEAD
    BY <2>1, StagedDiffers
  <2>3. /\ pc' = "idle" /\ ci' = "off" /\ index' = WithChange /\ tree' = tree
        /\ Same(tree, WithChange)
        /\ commits' = [commits EXCEPT ![Len(commits)] = WithChange] /\ Len(commits) = 1
    BY <1>1, <1>2, <2>1, <2>2, FaultCounts DEF GitCommit, Calm, Traced
  <2>4. Len(commits') = 1 /\ HEAD' = WithChange
    BY <2>3 DEF HEAD, IInv, RepoType
  <2> QED
    BY <2>3, <2>4 DEF Calm, Traced, Clean, Same, Fixed
<1>3. CASE Rollback
  <2>1. /\ pc = "rollback" /\ pc' = "idle" /\ ci' = "off" /\ tree' = Restored(Files)
        /\ UNCHANGED <<index, commits>>
    BY <1>1, <1>3, FaultCounts DEF Rollback
  <2>2. Clean /\ Restorable
    BY <1>1, <2>1 DEF Calm, Traced
  <2>3. Same(Restored(Files), HEAD)
    BY <2>2 DEF Restored, Restorable, Clean, Same, Seeable, HEAD
  <2> QED
    BY <2>1, <2>2, <2>3 DEF Calm, Traced, Clean, Same, Fixed, HEAD
<1> QED
  BY <1>2, <1>3

LEMMA NextUInv == IInv /\ Untracked /\ UInv /\ [Next]_vars => UInv'
<1> SUFFICES ASSUME IInv, Untracked, UInv, [Next]_vars PROVE UInv'
  OBVIOUS
<1>1. Counted' /\ (Undisturbed' => Undisturbed /\ Still)
  BY CountsGrow DEF UInv
<1>2. ASSUME Undisturbed' PROVE Calm'
  <2>1. Counted /\ Calm /\ Still
    BY <1>1, <1>2 DEF UInv
  <2>2. CASE UNCHANGED vars
    BY <2>1, <2>2 DEF vars, repo, work, Calm, Different, Restorable, Traced, Clean, Same,
       WithChange, Known, Changed, HEAD
  <2>3. CASE StartRun \/ AfterBaseline \/ Agent \/ Detect \/ AfterFocused \/ AfterFull
             \/ AfterRefull
    BY <2>1, <2>3, EarlyCalm
  <2>4. CASE CI
    BY <2>1, <2>4, TestsTrace
  <2>5. CASE Retry \/ Refix
    BY <2>1, <2>5, ReworkCalm
  <2>6. CASE Backup \/ Promote \/ PromoteBreaks \/ AfterReal \/ Repromote
    BY <2>1, <2>6, PromoteCalm
  <2>7. CASE GitCommit \/ Rollback
    BY <2>1, <2>7, EndCalm
  <2>8. CASE Crash \/ \E f \in Files : Edit(f)
    BY <2>1, <2>8 DEF Crash, Edit, Still, Counted
  <2> QED
    BY <2>2, <2>3, <2>4, <2>5, <2>6, <2>7, <2>8 DEF Next, Step
<1> QED
  BY <1>1, <1>2 DEF UInv

LEMMA SpecUInv == Spec => []IInv /\ []UInv
<1>1. Spec => [](IInv /\ Untracked)
  BY InitIInv, InitGit, NextIInv, NextBackup, NextUntracked, PTL DEF Spec
<1>2. Spec => []UInv
  BY <1>1, InitUInv, NextUInv, PTL DEF Spec
<1> QED
  BY <1>1, <1>2, PTL

(***************************************************************************)
(* A run that does not promote leaves the branch, the index and every file *)
(* git does not ignore as it found them, whatever the agent wrote and the  *)
(* tests said, unless a command failed, the process died or a person       *)
(* edited a file.                                                          *)
(***************************************************************************)
THEOREM LeavesNoTrace == Spec => []NoTrace
<1>1. IInv /\ UInv => NoTrace
  <2> SUFFICES ASSUME IInv, UInv, pc = "idle", Troubles = 0 PROVE Clean
    BY DEF NoTrace, Clean, Same, Seeable
  <2> QED
    BY OffOutside DEF UInv, Undisturbed, Calm, Traced, TestPhases
<1> QED
  BY <1>1, SpecUInv, PTL

(***************************************************************************)
(* Nor is git ever asked to commit nothing, unless one of those happened.  *)
(***************************************************************************)
THEOREM CommitsContent == Spec => []CommitHasContent
<1>1. UInv => CommitHasContent
  <2> SUFFICES ASSUME UInv, pc = "restore" PROVE Troubles > 0
    BY DEF CommitHasContent
  <2>1. Troubles \in Nat /\ Troubles # 0
    BY DEF UInv, Undisturbed, Calm, Traced, Counted, Troubles
  <2> QED
    BY <2>1
<1> QED
  BY <1>1, SpecUInv, PTL

=============================================================================
