---- MODULE MCCoordinator ----
(* Instances of Coordinator for TLC. *)
EXTENDS Coordinator, TLC

\* Task 2 needs task 1; task 1 is meant for a specialist.
Chain == <<0, 1>>
Roled == <<{"builder"}, {}>>
Builder == "a" :> "builder" @@ "b" :> "any"
NoRoles == <<{}>>
Free == <<0>>
Anyone == "a" :> "any" @@ "b" :> "any"
====
