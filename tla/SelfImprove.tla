---------------------------- MODULE SelfImprove ----------------------------
(***************************************************************************)
(* The self-improvement pipeline of self_improve.py: an agent changes a    *)
(* copy of the project (the sandbox), the change is filtered and tested,   *)
(* copied into the project, tested again and committed, or rolled back.    *)
(*                                                                         *)
(* The tests run in the project's own git repository: _run_tests_ci makes  *)
(* a branch there, copies the sandbox over the working tree, commits,      *)
(* waits for the verdict of the CI service and switches back.  So the      *)
(* model keeps the working tree, the index and the stack of branches that  *)
(* the repository is on, and a git command, a copy or the whole process    *)
(* may fail between any two steps.                                         *)
(***************************************************************************)
EXTENDS Naturals, Sequences, FiniteSets

CONSTANTS Files,       \* the files of the project
          Tracked,     \* those committed at the start
          Ignored,     \* those .gitignore names, which git does not know
          Allowed,     \* those inside the scope of _filter_allowed_changes
          Tested,      \* those with test files of their name
          Drafts,      \* the sandboxes an agent may leave behind
          MaxRetries,  \* _MAX_FOCUSED_RETRIES
          MaxRuns,     \* bound: runs of the pipeline
          MaxTroubles  \* bound: commands and copies that fail of themselves,
                       \* deaths of the process and files a person edits, together

\* A file is absent, as committed, changed by the agent ("new"), changed so
\* that a public name in use is gone ("gut"), changed only by adding unused
\* constants ("flag"), or edited by a person ("edit").
Contents == {"none", "base", "new", "gut", "flag", "edit"}
Trees == [Files -> Contents]
Start == [f \in Files |-> IF f \in Tracked THEN "base" ELSE "none"]

ASSUME FileAssumption ==
    /\ UNION {Tracked, Ignored, Allowed, Tested} \subseteq Files
    /\ Tracked \cap Ignored = {}
    /\ Drafts \subseteq Trees
    /\ MaxRetries \in Nat

Kinds == {"same", "NEW", "MOD", "DEL"}
NoChange == [f \in Files |-> "same"]
NoResult == [passed |-> FALSE, outcome |-> "none"]

\* The phases of improve(); in the first five it waits for the tests.
TestPhases == {"baseline", "focused", "full", "refull", "real"}
Phases == TestPhases \cup
    {"idle", "agent", "detect", "retry", "refix", "backup", "promote",
     "repromote", "commit", "rollback", "restore"}
CISteps == {"off", "branch", "copy", "add", "commit", "wait", "reset", "switch"}

VARIABLES pc,        \* the phase of improve()
          ci,        \* the step of _run_tests_ci, "off" outside it
          verdict,   \* what the tests of this phase said
          origin,    \* the branch _run_tests_ci has to return to
          tree,      \* the working tree of the project
          index,     \* what git has staged
          commits,   \* the tip of every branch the repository is stacked on
          sandbox,   \* the copy the agent works in
          changes,   \* result.changed_files
          backup,    \* the originals of the files marked MOD
          retries,   \* retries of the focused tests in this run
          result,    \* the ImprovementResult of the last finished run
          approved,  \* the last tree the tests really passed
          runs, faults, crashes, edits

repo == <<tree, index, commits>>
work == <<sandbox, changes, backup, retries>>
counts == <<runs, faults, crashes, edits>>
vars == <<pc, ci, verdict, origin, repo, work, result, approved, counts>>

HEAD == commits[Len(commits)]

\* A clean clone, in which ignored files may lie.
Init ==
    /\ pc = "idle" /\ ci = "off" /\ verdict = "none" /\ origin = 1
    /\ \E present \in SUBSET Ignored :
           tree = [f \in Files |-> IF f \in present THEN "base" ELSE Start[f]]
    /\ index = Start /\ commits = <<Start>>
    /\ sandbox = Start /\ changes = NoChange /\ backup = Start /\ retries = 0
    /\ result = NoResult /\ approved = Start
    /\ runs = 0 /\ faults = 0 /\ crashes = 0 /\ edits = 0

Troubles == faults + crashes + edits
Fault == Troubles < MaxTroubles /\ faults' = faults + 1 /\ UNCHANGED <<runs, crashes, edits>>

----------------------------------------------------------------------------
(* Helpers: which files changed, and which of them may be promoted.        *)

\* _detect_changes: the sandbox against the project.
Kind(from, to) ==
    IF from = to THEN "same"
    ELSE CASE from = "none" -> "NEW"
           [] to = "none" -> "DEL"
           [] OTHER -> "MOD"
Detected(box) == [f \in Files |-> Kind(tree[f], box[f])]

\* Mutant: the scope of a change is not looked at.
ScopedAnyFile(box) == Detected(box)
\* _filter_allowed_changes
Scoped(box) == [f \in Files |-> IF f \in Allowed THEN Detected(box)[f] ELSE "same"]

\* _find_dead_literal_bindings: a file that gains little but unused constants.
OnlyFlags(f, box) == box[f] = "flag"
\* _reject_dead_binding_changes; a file with other additions as well stays.
Undead(ch, box) == [f \in Files |-> IF OnlyFlags(f, box) THEN "same" ELSE ch[f]]

Filtered(box) == Undead(Scoped(box), box)

\* _sandbox_collect_only: importing the tests of the sandbox may fail or take
\* too long, whatever was changed.
Collects == BOOLEAN

\* _map_changed_to_tests, by the names of the changed files.
MappedTests(ch) == {f \in Tested : ch[f] # "same"}

\* _check_public_symbols_preserved: a modified file lost a name in use.
Gutted(ch, box) == \E f \in Files : ch[f] = "MOD" /\ box[f] = "gut"

\* _promote_changes, of the files of S only when the copying breaks off.
Copied(S) == [f \in Files |-> IF f \in S THEN sandbox[f] ELSE tree[f]]
Changed == {f \in Files : changes[f] # "same"}

----------------------------------------------------------------------------
(* The run of the tests in the project's repository, _run_tests_ci.        *)

\* Enter a phase that waits for the tests.
Test(phase) ==
    /\ pc' = phase /\ ci' = "branch" /\ verdict' = "none"
    /\ origin' = Len(commits)

\* What every step of the tests leaves alone.
InTests(step) == ci = step /\ UNCHANGED <<pc, origin, work, result>>

\* git checkout -b
CIBranch ==
    /\ InTests("branch")
    /\ commits' = Append(commits, HEAD) /\ ci' = "copy"
    /\ UNCHANGED <<verdict, tree, index, approved, counts>>

\* The sandbox is copied over the working tree, with no filter; after the
\* promotion the project is compared with itself and nothing is copied.
CICopy ==
    /\ InTests("copy")
    /\ tree' = (IF pc = "real" THEN tree ELSE sandbox) /\ ci' = "add"
    /\ UNCHANGED <<verdict, index, commits, approved, counts>>

\* git add -A passes over ignored files; with nothing to commit the tests pass
\* by default.
CIAdd ==
    /\ InTests("add")
    /\ index' = [f \in Files |-> IF f \in Ignored THEN index[f] ELSE tree[f]]
    /\ IF index' = HEAD THEN verdict' = "pass" /\ ci' = "reset"
                      ELSE ci' = "commit" /\ UNCHANGED verdict
    /\ UNCHANGED <<tree, commits, approved, counts>>

\* git commit
CICommit ==
    /\ InTests("commit")
    /\ commits' = [commits EXCEPT ![Len(commits)] = index] /\ ci' = "wait"
    /\ UNCHANGED <<verdict, tree, index, approved, counts>>

\* The branch is pushed and CI answers, fails to start or times out.
CIWait ==
    /\ InTests("wait")
    /\ \/ verdict' = "pass" /\ approved' = HEAD
       \/ verdict' = "fail" /\ UNCHANGED approved
    /\ ci' = "reset"
    /\ UNCHANGED <<repo, counts>>

\* A step up to the commit fails: the tests count as failed.
CIFails ==
    /\ ci \in {"branch", "copy", "add", "commit"} /\ Fault
    /\ \/ ci # "copy" /\ UNCHANGED tree
       \/ ci = "copy" /\ pc # "real" /\ \E S \in SUBSET Files : tree' = Copied(S)
    /\ verdict' = "fail" /\ ci' = "reset"
    /\ UNCHANGED <<pc, origin, index, commits, work, result, approved>>

\* finally: git checkout -- . restores what the index knows, untracked files
\* stay, ignored ones among them.  Its failure is ignored.
CIReset ==
    /\ InTests("reset")
    /\ \/ /\ tree' = [f \in Files |-> IF index[f] # "none" THEN index[f] ELSE tree[f]]
          /\ UNCHANGED counts
       \/ Fault /\ UNCHANGED tree
    /\ ci' = "switch"
    /\ UNCHANGED <<verdict, index, commits, approved>>

\* git checkout of the original branch refuses to overwrite local changes.
MaySwitch(to) ==
    \A f \in Files : \/ HEAD[f] = to[f] \/ index[f] = to[f]
                     \/ index[f] = HEAD[f] /\ tree[f] = HEAD[f]
\* Mutant: the working tree stays as the tests left it.
SwitchedInName(area, to) == area
\* A file that differs between the branches is replaced.
Switched(area, to) ==
    [f \in Files |-> IF HEAD[f] = to[f] \/ index[f] = to[f] THEN area[f] ELSE to[f]]

\* git checkout of the original branch and git branch -D of the temporary
\* one; when either fails the repository stays on the temporary branch.
CISwitch ==
    /\ InTests("switch")
    /\ IF Len(commits) > origin
       THEN LET to == commits[origin] IN
            \/ /\ MaySwitch(to)
               /\ tree' = Switched(tree, to) /\ index' = Switched(index, to)
               /\ commits' = SubSeq(commits, 1, origin) /\ UNCHANGED counts
            \/ ~MaySwitch(to) /\ UNCHANGED <<repo, counts>>
            \/ Fault /\ UNCHANGED repo
       ELSE UNCHANGED <<repo, counts>>
    /\ ci' = "off"
    /\ UNCHANGED <<verdict, approved>>

CI == CIBranch \/ CICopy \/ CIAdd \/ CICommit \/ CIWait \/ CIFails \/ CIReset \/ CISwitch

----------------------------------------------------------------------------
(* The phases of improve().                                                *)

NoTests == UNCHANGED <<ci, verdict, origin>>
Goto(phase) == pc' = phase /\ NoTests
\* The run is over: the sandbox is removed, the result returned.
Finish(how) == Goto("idle") /\ result' = [passed |-> FALSE, outcome |-> how]
\* The same after the tests of the sandbox have passed.
FinishTested(how) == Goto("idle") /\ result' = [passed |-> TRUE, outcome |-> how]
Said(phase, v) == pc = phase /\ ci = "off" /\ verdict = v

\* _copy_to_sandbox, which may fail on locked files, then the tests of the
\* baseline when the targets have tests.
StartRun ==
    /\ pc = "idle" /\ runs < MaxRuns
    /\ runs' = runs + 1 /\ UNCHANGED <<faults, crashes, edits>>
    /\ sandbox' = tree /\ changes' = NoChange /\ retries' = 0
    /\ \/ Finish("rejected")
       \/ (Test("baseline") \/ Goto("agent")) /\ result' = NoResult
    /\ UNCHANGED <<repo, backup, approved>>

AfterBaseline ==
    /\ \/ Said("baseline", "pass") /\ Goto("agent") /\ UNCHANGED result
       \/ Said("baseline", "fail") /\ Finish("rejected")
    /\ UNCHANGED <<repo, work, approved, counts>>

\* direct_agent.run in the sandbox: an error ends the run.
Agent ==
    /\ pc = "agent"
    /\ \/ Finish("rejected") /\ UNCHANGED sandbox
       \/ sandbox' \in Drafts /\ Goto("detect") /\ UNCHANGED result
    /\ UNCHANGED <<repo, changes, backup, retries, approved, counts>>

\* The tests of the changed files, or the full suite when they have none.
TestChanged(ch) == IF MappedTests(ch) # {} THEN Test("focused") ELSE Test("full")

\* The filters and the two guards before any CI minute is spent.
Detect ==
    /\ pc = "detect"
    /\ changes' = Filtered(sandbox)
    /\ \E collects \in Collects :
          IF changes' = NoChange \/ Gutted(changes', sandbox) \/ ~collects
          THEN Finish("rejected")
          ELSE TestChanged(changes') /\ UNCHANGED result
    /\ UNCHANGED <<repo, sandbox, backup, retries, approved, counts>>

AfterFocused ==
    /\ \/ Said("focused", "pass") /\ Test("full") /\ UNCHANGED result
       \/ Said("focused", "fail") /\ retries < MaxRetries /\ Goto("retry") /\ UNCHANGED result
       \/ Said("focused", "fail") /\ retries >= MaxRetries /\ Finish("rejected")
    /\ UNCHANGED <<repo, work, approved, counts>>

\* _retry_with_failure_context: the agent works on in the same sandbox; the
\* filters are applied again, the guards of Detect are not.
Reworked(next) ==
    \/ sandbox' \in Drafts \cup {sandbox} /\ UNCHANGED changes /\ Finish("rejected")
    \/ /\ sandbox' \in Drafts
       /\ Filtered(sandbox') # NoChange /\ changes' = Filtered(sandbox')
       /\ next /\ UNCHANGED result

Retry ==
    /\ pc = "retry" /\ retries' = retries + 1
    /\ Reworked(TestChanged(changes'))
    /\ UNCHANGED <<repo, backup, approved, counts>>

\* The full suite: auto_promote decides what a pass is good for.
AfterFull ==
    /\ \/ Said("full", "pass") /\ Goto("backup") /\ UNCHANGED result
       \/ Said("full", "pass") /\ FinishTested("kept")
       \/ Said("full", "fail") /\ Goto("refix") /\ UNCHANGED result
    /\ UNCHANGED <<repo, work, approved, counts>>

\* One more retry, with the full suite after it.
Refix ==
    /\ pc = "refix" /\ Reworked(Test("refull"))
    /\ UNCHANGED <<repo, backup, retries, approved, counts>>

AfterRefull ==
    /\ \/ Said("refull", "pass") /\ Goto("backup") /\ UNCHANGED result
       \/ Said("refull", "pass") /\ FinishTested("kept")
       \/ Said("refull", "fail") /\ Finish("rejected")
    /\ UNCHANGED <<repo, work, approved, counts>>

\* _backup_originals keeps the files marked MOD, no others.  A file that is
\* gone by now raises, as any copy may.
Backup ==
    /\ pc = "backup"
    /\ backup' = [f \in Files |-> IF changes[f] = "MOD" THEN tree[f] ELSE "none"]
    /\ IF \E f \in Files : changes[f] = "MOD" /\ tree[f] = "none"
       THEN FinishTested("broken") ELSE Goto("promote") /\ UNCHANGED result
    /\ UNCHANGED <<repo, sandbox, changes, retries, approved, counts>>

\* _promote_changes, then the tests of the project itself.
Promote ==
    /\ pc = "promote"
    /\ tree' = Copied(Changed) /\ Test("real")
    /\ UNCHANGED <<index, commits, work, result, approved, counts>>

\* A copy raises: the files copied so far stay, the exception ends the run.
PromoteBreaks ==
    /\ pc \in {"promote", "repromote"} /\ Fault
    /\ \E S \in SUBSET Changed : tree' = Copied(S)
    /\ FinishTested("broken")
    /\ UNCHANGED <<index, commits, work, approved>>

AfterReal ==
    /\ \/ Said("real", "pass") /\ Goto("repromote")
       \/ Said("real", "fail") /\ Goto("rollback")
    /\ UNCHANGED <<repo, work, result, approved, counts>>

\* Mutant: the change is taken to be in the tree still.
RepromoteNothing ==
    /\ pc = "repromote" /\ Goto("commit")
    /\ UNCHANGED <<repo, work, result, approved, counts>>
\* The tests have put the old tree back: the change is copied once more.
Repromote ==
    /\ pc = "repromote" /\ tree' = Copied(Changed) /\ Goto("commit")
    /\ UNCHANGED <<index, commits, work, result, approved, counts>>

\* _git_commit_promoted: git add -- stages the changed files, git rm --cached
\* the deleted ones, the index is committed.
Added == [f \in Files |-> IF changes[f] \in {"NEW", "MOD"} /\ f \notin Ignored
                          THEN tree[f] ELSE index[f]]
Staged == [f \in Files |-> IF changes[f] = "DEL" THEN "none" ELSE Added[f]]
\* git add exits with an error for an ignored file, after staging the others,
\* and git rm for a file the index does not know, doing nothing.
Refused ==
    \E f \in Changed : IF changes[f] = "DEL" THEN index[f] = "none" ELSE f \in Ignored
GitCommit ==
    /\ pc = "commit"
    /\ \/ /\ ~Refused /\ Staged # HEAD
          /\ index' = Staged /\ commits' = [commits EXCEPT ![Len(commits)] = Staged]
          /\ FinishTested("promoted") /\ UNCHANGED counts
       \/ /\ ~Refused /\ Staged = HEAD
          /\ index' = Staged
          /\ Goto("restore") /\ UNCHANGED <<commits, result, counts>>
       \/ /\ Refused /\ faults' = faults + 1 /\ UNCHANGED <<runs, crashes, edits>>
          /\ index' = Added
          /\ Goto("restore") /\ UNCHANGED <<commits, result>>
       \/ /\ Fault
          /\ index' \in {index, Added} \cup (IF Refused THEN {} ELSE {Staged})
          /\ Goto("restore") /\ UNCHANGED <<commits, result>>
    /\ UNCHANGED <<tree, work, approved>>

\* rollback: the files in the backup are copied back, nothing else is undone.
Restored(S) == [f \in Files |-> IF f \in S /\ changes[f] = "MOD" THEN backup[f] ELSE tree[f]]
Rollback ==
    /\ pc \in {"rollback", "restore"}
    /\ \/ tree' = Restored(Files) /\ UNCHANGED counts
          /\ FinishTested(IF pc = "restore" THEN "restored" ELSE "rolledBack")
       \/ Fault /\ (\E S \in SUBSET Files : tree' = Restored(S)) /\ FinishTested("broken")
    /\ UNCHANGED <<index, commits, work, approved>>

Step ==
    \/ CI \/ AfterBaseline \/ Agent \/ Detect \/ AfterFocused \/ Retry
    \/ AfterFull \/ Refix \/ AfterRefull \/ Backup \/ Promote \/ PromoteBreaks
    \/ AfterReal \/ Repromote \/ GitCommit \/ Rollback

----------------------------------------------------------------------------
(* What happens around the pipeline.                                       *)

\* The process dies; what is on disk stays, the result is lost.
Crash ==
    /\ pc # "idle" /\ Troubles < MaxTroubles
    /\ crashes' = crashes + 1 /\ UNCHANGED <<runs, faults, edits>>
    /\ pc' = "idle" /\ ci' = "off" /\ UNCHANGED <<verdict, origin>>
    /\ result' = NoResult
    /\ UNCHANGED <<repo, work, approved>>

\* A person edits a file of the project between two runs, or while the
\* pipeline waits for the agent or for CI.
Edit(f) ==
    /\ pc \in {"idle", "agent"} \/ ci = "wait"
    /\ Troubles < MaxTroubles
    /\ edits' = edits + 1 /\ UNCHANGED <<runs, faults, crashes>>
    /\ tree[f] # "none" /\ tree' = [tree EXCEPT ![f] = "edit"]
    /\ UNCHANGED <<pc, ci, verdict, origin, index, commits, work, result, approved>>

Next == StartRun \/ Step \/ Crash \/ \E f \in Files : Edit(f)

Spec == Init /\ [][Next]_vars

----------------------------------------------------------------------------
(* Properties.                                                             *)

TypeOK ==
    /\ pc \in Phases /\ ci \in CISteps /\ verdict \in {"none", "pass", "fail"}
    /\ ci # "off" => pc \in TestPhases
    /\ commits # <<>> /\ commits \in Seq(Trees) /\ origin \in 1..Len(commits)
    /\ {tree, index, sandbox, backup, approved} \subseteq Trees
    /\ changes \in [Files -> Kinds] /\ retries \in 0..MaxRetries
    /\ result \in [passed : BOOLEAN,
                   outcome : {"none", "rejected", "kept", "broken", "promoted", "rolledBack", "restored"}]
    /\ {runs, faults, crashes, edits} \subseteq Nat

\* The main branch changes only by files of the allowed scope, all taken from
\* one tree that CI has passed (improve: promote, test, promote again, commit;
\* whatever fails or dies on the way).
Promo == INSTANCE Promotion WITH main <- commits[1]
Promoted == Promo!Spec

\* A run that neither promotes nor meets a failing command or a person at work
\* leaves the project as it found it: the branch, the index and every file that
\* git does not ignore, although the tests were run in the project itself
\* (finally of _run_tests_ci).  Ignored files keep what the agent wrote, and a
\* promotion of one ends in a git add that fails.
NoTrace ==
    (pc = "idle" /\ result.outcome # "promoted" /\ Troubles = 0)
    => /\ index = HEAD /\ Len(commits) = 1
       /\ \A f \in Files \ Ignored : tree[f] = HEAD[f]

\* Tests that pass on the promoted project end in a commit: git is never asked
\* to commit nothing unless a command failed, the process died or a
\* person edited the project before.
CommitHasContent ==
    pc = "restore" => Troubles > 0

============================================================================
