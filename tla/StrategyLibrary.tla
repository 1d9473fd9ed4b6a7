-------------------------- MODULE StrategyLibrary --------------------------
(***************************************************************************)
(* The strategy library (strategy_library.py): strategies learned from     *)
(* tasks that succeeded are put into the prompts of later tasks, gain or   *)
(* lose quality by how tasks of their category end, and are pruned when    *)
(* little of it is left.                                                   *)
(*                                                                         *)
(* Quality is counted in twentieths, rounded down, so that a boost is two  *)
(* or one and a loss two.  Two descriptions are similar when they are the  *)
(* same here.  Every operation saves the file, so memory and disk are one. *)
(***************************************************************************)
EXTENDS Integers, Sequences, SequencesExt, FiniteSets

CONSTANTS Categories,   \* what extract_category and the agent make of the tasks
          Texts,        \* descriptions the extraction may come up with
          PerCategory,  \* MAX_STRATEGIES_PER_CATEGORY
          MaxTotal,     \* MAX_TOTAL_STRATEGIES
          Injected      \* max_results of format_for_prompt

\* Assumed by the module that composes this one.
LibraryAssumption == {PerCategory, MaxTotal, Injected} \subseteq Nat \ {0}

VARIABLES strategies,   \* _strategies
          recent,       \* those that have been injected, the latest first
          boosted       \* history variable: what gained quality since the last consolidation

vars == <<strategies, recent, boosted>>

New == 20          \* quality_score of a new strategy
Best == 40         \* the most a boost leads to
Least == 6         \* MIN_QUALITY_SCORE
Enough == 16       \* quality above which a full category takes no more

Key(s) == <<s.category, s.text>>
Keys(lib) == {Key(lib[i]) : i \in DOMAIN lib}

Init == strategies = <<>> /\ recent = <<>> /\ boosted = {}

----------------------------------------------------------------------------
(* Operators on libraries, lists of strategies.                            *)

\* The order of list.sort by quality: of equals the earlier one comes first.
ByQuality(lib) ==
    LET Before(i, j) == lib[i].quality > lib[j].quality \/ (lib[i].quality = lib[j].quality /\ i < j) IN
    [n \in DOMAIN lib |-> lib[CHOOSE i \in DOMAIN lib :
                                Cardinality({j \in DOMAIN lib : Before(j, i)}) = n - 1]]
Top(n, s) == SubSeq(s, 1, IF n < Len(s) THEN n ELSE Len(s))

\* retrieve
Retrieved(lib, c, n) == Top(n, ByQuality(SelectSeq(lib, LAMBDA s : s.category = c)))

Improved(lib, K, by) ==
    [i \in DOMAIN lib |->
        IF Key(lib[i]) \notin K THEN lib[i]
        ELSE [lib[i] EXCEPT !.quality = IF @ + by < Best THEN @ + by ELSE Best]]
Worsened(lib, K) ==
    [i \in DOMAIN lib |->
        IF Key(lib[i]) \notin K THEN lib[i]
        ELSE [lib[i] EXCEPT !.quality = IF @ > 2 THEN @ - 2 ELSE 0]]

\* Mutant: what has lost its quality stays while there is room for it.
PrunedByNumber(lib) ==
    Top(MaxTotal, ByQuality(SelectSeq(lib, LAMBDA s : Contains(Retrieved(lib, s.category, PerCategory), s))))
\* _prune: too little quality, too many of a category, too many in all.
Pruned(lib) ==
    LET good == SelectSeq(lib, LAMBDA s : s.quality >= Least) IN
    Top(MaxTotal, ByQuality(SelectSeq(good, LAMBDA s : Contains(Retrieved(good, s.category, PerCategory), s))))
Decayed(lib) == [i \in DOMAIN lib |-> [lib[i] EXCEPT !.quality = (19 * @) \div 20]]

\* add_strategy: one that is known already is boosted.
Added(lib, s) ==
    IF Key(s) \in Keys(lib) THEN Improved(lib, {Key(s)}, 2)
    ELSE IF Len(lib) < MaxTotal THEN Append(lib, s) ELSE Pruned(Append(lib, s))

\* maybe_extract_strategy: a category full of good strategies takes no more;
\* the extraction may fail, or the task have used fewer than two tools.
TakesMore(lib, c) ==
    LET known == Retrieved(lib, c, PerCategory) IN
    Len(known) < PerCategory \/ \E i \in DOMAIN known : known[i].quality <= Enough
Learned(lib, c) ==
    {lib} \cup {Added(lib, [category |-> c, text |-> t, quality |-> New]) :
                   t \in IF TakesMore(lib, c) THEN Texts ELSE {}}

\* format_for_prompt
AfterUse(lib, used, c) ==
    LET top == Retrieved(lib, c, Injected)
        now == [i \in DOMAIN top |-> Key(top[Len(top) + 1 - i])] IN
    now \o SelectSeq(used, LAMBDA k : ~Contains(now, k))
\* record_outcome: the strategies of the category that were injected last, be
\* it for another task.
Credited(lib, used, c) ==
    ToSet(Top(PerCategory, SelectSeq(used, LAMBDA k : k[1] = c /\ k \in Keys(lib))))

Kept(used, lib) == SelectSeq(used, LAMBDA k : k \in Keys(lib))
Quality(lib, k) == lib[CHOOSE i \in DOMAIN lib : Key(lib[i]) = k].quality
Gained(old, lib) ==
    {k \in Keys(lib) : k \notin Keys(old) \/ Quality(lib, k) > Quality(old, k)}

----------------------------------------------------------------------------

\* A task of category c ends: its prompt was of category asked for the agent; a
\* success may teach something; the outcome is recorded.
TaskEnds(c, asked, passed) ==
    LET used == AfterUse(strategies, recent, asked) IN
    /\ \/ passed /\ \E lib \in Learned(strategies, c) :
             strategies' = Improved(lib, Credited(lib, used, c), 1)
       \/ ~passed /\ strategies' = Worsened(strategies, Credited(strategies, used, c))
    /\ boosted' = boosted \cup Gained(strategies, strategies')
    /\ recent' = Kept(used, strategies')

\* consolidate
Consolidate ==
    /\ strategies' = Pruned(Decayed(strategies))
    /\ recent' = Kept(recent, strategies') /\ boosted' = {}

\* A new process reads the file; one that was written in part reads as empty.
Load ==
    /\ strategies' \in {strategies, <<>>} /\ recent' = Kept(recent, strategies')
    /\ UNCHANGED boosted
============================================================================
