---------------------------- MODULE Promotion ----------------------------
(***************************************************************************)
(* What the self-improvement pipeline promises about the main branch: its  *)
(* contents change only by taking files, all of them inside the allowed    *)
(* scope, from a tree that the test suite has passed, in one atomic step.  *)
(***************************************************************************)

CONSTANTS Files,      \* the files of the project
          Allowed,    \* the files the pipeline may change
          Contents,   \* the contents a file can have, absence included
          Start       \* the main branch at the start

VARIABLES main,       \* the tree committed on the main branch
          approved    \* the last tree the test suite passed

Trees == [Files -> Contents]

Init == main = Start /\ approved = Start

\* The suite passes some tree.
Pass == approved' \in Trees /\ UNCHANGED main

\* Some allowed files are taken from the approved tree, together.
Commit ==
    /\ \E S \in SUBSET Allowed :
           main' = [f \in Files |-> IF f \in S THEN approved[f] ELSE main[f]]
    /\ UNCHANGED approved

Next == Pass \/ Commit

Spec == Init /\ [][Next]_<<main, approved>>
==========================================================================
