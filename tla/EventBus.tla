------------------------------ MODULE EventBus ------------------------------
(***************************************************************************)
(* The event bus (event_bus.py): at the start of a cycle every source is   *)
(* polled, and tasks with a trigger run only when an event of this cycle   *)
(* matches.  A feed (mail, calendar) is compared with a hash of what it    *)
(* said last; a file by its time of modification.                          *)
(*                                                                         *)
(* Contents and times are left out: what counts is whether a source        *)
(* differs from what is remembered of it.                                  *)
(***************************************************************************)
EXTENDS FiniteSets

CONSTANTS Feeds, Files

Sources == Feeds \cup Files

VARIABLES remembered,   \* sources with a _prev_hash or an entry in _mtimes
          differs,      \* sources that differ from what is remembered
          present,      \* files that exist
          bus,          \* events of this cycle: sources, and tasks with their outcome
          pending,      \* history variable: sources changed since they were read last
          cause         \* history variable: the changes the last poll could see

vars == <<remembered, differs, present, bus, pending, cause>>

Init ==
    /\ remembered = {} /\ differs = {} /\ present \in SUBSET Files
    /\ bus = {} /\ pending = {} /\ cause = {}

\* A source changes; a feed may be back at what it said, a file at an older time.
Change(s) ==
    /\ s \in Feeds \cup present /\ pending' = pending \cup {s}
    /\ differs' \in {differs \cup {s}, differs \ {s}}
    /\ UNCHANGED <<remembered, present, bus, cause>>
\* A file is removed, or written anew.
Remove(f) ==
    /\ f \in present /\ present' = present \ {f}
    /\ UNCHANGED <<remembered, differs, bus, pending, cause>>
Create(f) ==
    /\ f \in Files \ present /\ present' = present \cup {f}
    /\ pending' = pending \cup {f} /\ differs' = differs \cup {f}
    /\ UNCHANGED <<remembered, bus, cause>>

Environment == \/ \E s \in Sources : Change(s)
               \/ \E f \in Files : Remove(f) \/ Create(f)

\* The first look at a source only remembers it.
News(reached) == {s \in reached : s \in remembered /\ s \in differs}

\* Mutant: the events of the last cycle stay.
ClearedNothing == bus
Cleared == {}

\* poll_all: a feed that cannot be reached changes nothing; a file that is gone
\* or cannot be read is forgotten.
Poll ==
    \E reached \in SUBSET (Feeds \cup present) :
        /\ bus' = Cleared \cup News(reached)
        /\ remembered' = (remembered \cap Feeds) \cup reached
        /\ differs' = differs \ reached
        /\ pending' = pending \ reached /\ cause' = pending \cap reached
        /\ UNCHANGED present

\* The outcome of a task is an event for the tasks after it.
Emit(e) == bus' = bus \cup {e} /\ UNCHANGED <<remembered, differs, present, pending, cause>>
Matches(trigger) == trigger \in bus

\* A new process remembers nothing.
Forget == /\ remembered' = {} /\ differs' = {} /\ bus' = {} /\ cause' = {}
          /\ UNCHANGED <<present, pending>>

TypeOK == remembered \cup differs \cup pending \cup cause \subseteq Sources /\ present \subseteq Files
============================================================================
