---- MODULE MCGoalEscalation ----
(* Instances of GoalEscalation for TLC. *)
EXTENDS GoalEscalation

\* Two sub-goals of the first goal, one of the second.
TwoAndOne == <<1, 1, 2>>
====
