----------------------------- MODULE MCLearning -----------------------------
EXTENDS Learning

Counts(v, p, d, x, r, w, s, k) ==
    [verified |-> v, passes |-> p, decided |-> d, refused |-> x,
     runs |-> r, wins |-> w, steps |-> s, completed |-> k]

\* Nothing; a plan that was only drafted; runs that all fail; half of them;
\* approvals that are mostly refused; good work.
MCEvidence ==
    {Counts(0, 0, 0, 0, 0, 0, 0, 0), Counts(0, 0, 0, 0, 0, 0, 3, 0),
     Counts(2, 0, 0, 0, 2, 0, 2, 0), Counts(2, 1, 0, 0, 2, 1, 2, 1),
     Counts(1, 0, 2, 2, 1, 1, 0, 0), Counts(2, 2, 1, 0, 2, 2, 2, 2)}
MCGoals == <<"g1", "g2">>
=============================================================================
