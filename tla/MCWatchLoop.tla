--------------------------- MODULE MCWatchLoop ---------------------------
(* Two campaigns: one of a triggered task and one that depends on it,       *)
(* with a planner; one with a merged batch and its member on its own.      *)
EXTENDS WatchLoop

CONSTANTS mail, notes

Task(id, prompt, trigger, dep, batchable) ==
    [id |-> id, prompt |-> prompt, trigger |-> trigger, dep |-> dep,
     skip |-> TRUE, batchable |-> batchable, tier |-> "medium"]

Chain == <<Task("a", "p", mail, None, FALSE), Task("b", "q", None, "a", FALSE)>>
Merged == <<Task("c", "q", None, None, FALSE), Task("a", "p", None, None, TRUE),
            Task("b", "q", None, None, TRUE)>>
NoLimit == [day |-> 0, week |-> 0]

Once == <<Task("a", "p", None, None, FALSE)>>
Settings(auto, events, ooda, learns, limit, maxRuns, restartBy, tasks) ==
    [auto |-> auto, events |-> events, ooda |-> ooda, learns |-> learns, limit |-> limit,
     maxRuns |-> maxRuns, restartBy |-> restartBy, tasks |-> tasks]

MCPlans == {<<Task("ooda-1", "r", None, None, FALSE)>>}
MCConfigs ==
    {Settings(TRUE, FALSE, FALSE, FALSE, NoLimit, 0, 2, <<>>),
     Settings(FALSE, TRUE, TRUE, FALSE, NoLimit, 0, 1, Chain),
     Settings(FALSE, FALSE, FALSE, FALSE, NoLimit, 2, 2, Merged),
     Settings(FALSE, FALSE, FALSE, FALSE, [day |-> 1, week |-> 2], 2, 2, Once),
     Settings(FALSE, FALSE, FALSE, TRUE, NoLimit, 0, -1, <<>>)}
==========================================================================
