----------------------------- MODULE EntryLife -----------------------------
(***************************************************************************)
(* What the approval queue promises of an entry: it is offered once,       *)
(* granted at most once, taken from the queue once, and what it has left   *)
(* behind does not come back.  An entry may end unread or refused, and one *)
(* that was taken may end without having run, but what is granted stays so *)
(* until it is taken.  Of an entry whose status one writer has replaced    *)
(* without having seen it nothing is promised.                             *)
(***************************************************************************)
CONSTANT Entries

VARIABLE stage   \* where each entry is in its life

Stages == {"unseen", "waiting", "granted", "taken", "ran", "over", "void"}

Moves ==
    {<<"unseen", "waiting">>,    \* submitted for review
     <<"waiting", "granted">>,   \* approved by the person
     <<"unseen", "taken">>,      \* executed with notice, or granted at once by rule
     <<"waiting", "taken">>,     \* granted by rule
     <<"granted", "taken">>,
     <<"taken", "ran">>,
     <<"taken", "over">>,        \* passed over, or lost with the process
     <<"waiting", "over">>}      \* rejected, by the person or for its age
    \cup (Stages \X {"void"})

Init == stage = [e \in Entries |-> "unseen"]

\* One save of the file may take several entries further.
Next ==
    /\ stage' \in [Entries -> Stages]
    /\ \A e \in Entries : stage'[e] # stage[e] => <<stage[e], stage'[e]>> \in Moves

Spec == Init /\ [][Next]_stage
============================================================================
