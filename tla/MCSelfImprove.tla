--------------------------- MODULE MCSelfImprove ---------------------------
EXTENDS SelfImprove

\* One file to modify, one to create, one outside the scope, and one
\* inside it that git ignores.
MCFiles == {"module", "extra", "setup", "local"}
MCTracked == {"module", "setup"}
MCIgnored == {"local"}
MCAllowed == {"module", "extra", "local"}
MCTested == {"module"}
MCDrafts == {d \in Trees : /\ d["module"] \in {"new", "gut", "none"}
                           /\ d["extra"] \in {"new", "flag"}
                           /\ d["setup"] \in {"base", "new"}
                           /\ d["setup"] = "new" => d["extra"] = "new"
                           /\ d["local"] \in {"none", "base", "new"}
                           /\ d["local"] = "new" => d["module"] = "new" /\ d["setup"] = "base"}
============================================================================
