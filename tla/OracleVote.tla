----------------------------- MODULE OracleVote -----------------------------
(***************************************************************************)
(* The vote on the tool calls of one turn (oracle.py, _majority_vote): the *)
(* answers of the free models and what a turn can come to.  A tool call is *)
(* a pair of a name and arguments.                                         *)
(***************************************************************************)
EXTENDS Naturals, FiniteSets

CONSTANTS Workers,         \* worker_models
          CallNames,       \* names of tools
          CallArgs,        \* arguments of a call
          MaxAnswer        \* bound: tool calls in one answer

Threshold == 2             \* MAJORITY_THRESHOLD

ASSUME VoteAssumption ==
    IsFiniteSet(Workers) /\ Workers # {} /\ MaxAnswer \in Nat

ToolCalls == CallNames \X CallArgs
\* What a worker can answer: nothing usable, or calls, or text; ends tells
\* whether it says that the task is complete.
NoAnswer == [ok |-> FALSE, calls |-> {}, ends |-> FALSE]
SomeCalls == {S \in SUBSET ToolCalls : Cardinality(S) <= MaxAnswer}
Answers == {NoAnswer} \cup [ok : {TRUE}, calls : SomeCalls, ends : BOOLEAN]

Good(a) == {w \in Workers : a[w].ok}
Voters(a, c) == {w \in Good(a) : c \in a[w].calls}
Namers(a, n) == {w \in Good(a) : \E c \in a[w].calls : c[1] = n}

Majority(a) == {c \in ToolCalls : Cardinality(Voters(a, c)) >= Threshold}

\* Mutant: the most frequent names win, however few named them.
SoftPlurality(a) ==
    {{c} : c \in UNION {a[w].calls : w \in Good(a)}}
\* Without a majority, the names enough workers agree on, each with the
\* arguments of the first worker that has them (all such calls have one vote).
Soft(a) ==
    LET names == {n \in CallNames : Cardinality(Namers(a, n)) >= Threshold} IN
    {S \in SUBSET (names \X CallArgs) :
        /\ \A n \in names : Cardinality({c \in S : c[1] = n}) = 1
        /\ \A c \in S : Voters(a, c) # {}}

\* The calls of a turn.
Elected(a) ==
    IF Majority(a) # {} THEN {Majority(a)}
    ELSE IF Soft(a) = {} THEN {{}} ELSE Soft(a)

\* How many workers name the least supported of some calls; 0 when nobody asked
\* for one of them with its arguments.
Support(a, S) ==
    IF \E c \in S : Voters(a, c) = {} THEN 0
    ELSE CHOOSE k \in 0..Cardinality(Workers) :
            /\ \E c \in S : Cardinality(Namers(a, c[1])) = k
            /\ \A c \in S : Cardinality(Namers(a, c[1])) >= k

\* agreement < 0.5: the most popular call has less than half of the workers;
\* without any call all agree.
Disagree(a) ==
    /\ \E w \in Good(a) : a[w].calls # {}
    /\ \A c \in ToolCalls : 2 * Cardinality(Voters(a, c)) < Cardinality(Good(a))

EndVotes(a) == Cardinality({w \in Good(a) : a[w].ends})

\* All that a turn of the workers can come to.
Decisions ==
    UNION {{[acts |-> S # {}, support |-> IF S = {} THEN 0 ELSE Support(a, S),
             disagree |-> Disagree(a), ends |-> EndVotes(a) >= Threshold] : S \in Elected(a)} :
           a \in {b \in [Workers -> Answers] : Good(b) # {}}}
============================================================================
