---------------------------- MODULE MemoryStore ----------------------------
(***************************************************************************)
(* The memory of the watcher (memory.py): the last tasks, and patterns     *)
(* that recurred among them, which decay when they are old and were seldom *)
(* put into a prompt.                                                      *)
(*                                                                         *)
(* Tasks and patterns are named by their kind; all patterns are shown to   *)
(* every task.  An entry of a failed task's error is of kind NoKind.         *)
(***************************************************************************)
EXTENDS Integers, Sequences, SequencesExt

CONSTANTS Kinds,      \* kinds of tasks that are similar
          NoKind,
          ShortMax,   \* short_max
          LongMax,    \* long_max
          MinCount    \* _PATTERN_MIN_COUNT

MinAccesses == 2      \* _DECAY_MIN_ACCESSES

\* Assumed by the module that composes this one.
MemoryAssumption == {ShortMax, LongMax, MinCount} \subseteq Nat \ {0} /\ NoKind \notin Kinds

VARIABLES short,      \* the kinds of the last entries, the newest last
          long,       \* patterns: kind, old, accesses up to MinAccesses
          saved       \* the file: short and long

vars == <<short, long, saved>>

Init == short = <<>> /\ long = <<>> /\ saved = [short |-> <<>>, long |-> <<>>]

Newest(n, s) == SubSeq(s, IF Len(s) > n THEN Len(s) - n + 1 ELSE 1, Len(s))
Save == saved' = [short |-> short', long |-> long']

\* run of the direct agent: the prompt shows the patterns, the task is noted.
NoteTask(k, failed) ==
    /\ long' = [i \in DOMAIN long |->
                   [long[i] EXCEPT !.accesses = IF @ < MinAccesses THEN @ + 1 ELSE @]]
    /\ short' = Newest(ShortMax, short \o IF failed THEN <<k, NoKind>> ELSE <<k>>)
    /\ Save

\* Mutant: more than the least number is needed.
RecurringMore(s) == {k \in Kinds : Len(SelectSeq(s, LAMBDA e : e = k)) > MinCount}
Recurring(s) == {k \in Kinds : Len(SelectSeq(s, LAMBDA e : e = k)) >= MinCount}

\* add_long, of several patterns: those that are there already are left alone.
WithPatterns(l, K) ==
    LET new == SetToSeq({k \in K : \A i \in DOMAIN l : l[i].kind # k}) IN
    Newest(LongMax, l \o [i \in DOMAIN new |-> [kind |-> new[i], old |-> FALSE, accesses |-> 0]])

\* consolidate: an old pattern that is added again is not made new by it.
Consolidate ==
    /\ long' = SelectSeq(WithPatterns(long, Recurring(short)),
                         LAMBDA e : e.old => e.accesses >= MinAccesses)
    /\ UNCHANGED short

\* Two weeks go by.
Age == long' = [i \in DOMAIN long |-> [long[i] EXCEPT !.old = TRUE]] /\ UNCHANGED <<short, saved>>

\* The memory command clears one part of the file, or both; the watcher does not read it.
Clear ==
    /\ \E part \in SUBSET {"short", "long"} :
          saved' = [p \in {"short", "long"} |-> IF p \in part THEN <<>> ELSE saved[p]]
    /\ UNCHANGED <<short, long>>
Load == short' = saved.short /\ long' = saved.long /\ UNCHANGED saved

Remembered(k) == \E i \in DOMAIN long : long[i].kind = k
============================================================================
