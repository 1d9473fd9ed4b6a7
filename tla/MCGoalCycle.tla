---- MODULE MCGoalCycle ----
(* Instances of GoalCycle for TLC. *)
EXTENDS GoalCycle

D(w, g, t) == [writes |-> w, guarded |-> g, tier |-> t]

\* One kind of step; a write step and a guarded reading one.
OneDraft == {D(TRUE, FALSE, 1)}
TwoDrafts == {D(TRUE, FALSE, 1), D(FALSE, TRUE, 2)}

\* Two goals of one sub-goal each, or one goal of two.
GoalOne == <<1>>
GoalChain == <<1, 2>>
GoalPair == <<1, 1>>
NoDeps == <<{}>>
ChainDeps == <<{}, {1}>>
TwoFree == <<{}, {}>>
====
