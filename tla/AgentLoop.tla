----------------------------- MODULE AgentLoop -----------------------------
(***************************************************************************)
(* One run of direct_agent.run: turns of a call to the model, the tools it *)
(* asks for, and their results, within budgets of turns, premium requests  *)
(* and tool calls.                                                         *)
(*                                                                         *)
(* The API refuses a message history in which a tool_use and its           *)
(* tool_result do not follow each other.  Pruning, summarising and the     *)
(* recovery from that very refusal all cut the history, so the model keeps *)
(* it, message by message, without the texts: "use" and "result" with the  *)
(* turn whose tools they are about, "say" for an assistant message without *)
(* tools, "user" for a user message without results.                       *)
(***************************************************************************)
EXTENDS Integers, SequencesExt

CONSTANTS TierTurns,   \* max_turns of the tier, after the caps of the options
          Budget,      \* task_premium_budget of the tier, 0 for none
          Multiplier,  \* premium multiplier of the model
          MaxCalls,    \* max_tool_calls
          KeepPairs,   \* _CONTEXT_KEEP_PAIRS
          SummaryAfter, \* summary_after_turn
          Recent,      \* messages a summary leaves as they are
          Dense,       \* fewer tools than this in a turn bring a nudge
          Few,         \* turns left that bring a warning
          MaxBatch     \* bound: tools in one response

\* Assumed by the module that composes this one.
AgentAssumption ==
    /\ {TierTurns, MaxCalls, KeepPairs, SummaryAfter, Recent, Dense, MaxBatch} \subseteq Nat \ {0}
    /\ {Budget, Multiplier, Few} \subseteq Nat

ApiRetries == 3        \* _max_api_retries
MaxErrors == 3         \* _MAX_CONSECUTIVE_ERRORS
MaxEmpty == 2          \* _MAX_CONSECUTIVE_EMPTY

\* Mutant: every turn is counted as one premium request.
TurnsPerRequest == IF Budget > 0 /\ Budget < TierTurns THEN Budget ELSE TierTurns
\* The turn limit after the premium budget: a budget below one request is none.
EffectiveTurns ==
    LET turns == IF Budget > 0 /\ Multiplier > 0 THEN Budget \div Multiplier ELSE 0 IN
    IF turns > 0 /\ turns < TierTurns THEN turns ELSE TierTurns

VARIABLES pc,        \* "off", "turn", "call", "tools" or "done"
          path,      \* "openai" or "anthropic"
          turn,
          tries,     \* API attempts of this turn that failed
          history,   \* the messages after the anchor
          reply,     \* tools asked for, and the redundant reads among them
          calls,     \* _total_tool_calls
          errors,    \* _consecutive_tool_errors
          empties,   \* _consecutive_empty
          premium,   \* result.premium_requests, as in the progress tracker
          outcome    \* "none", an error, or one of the ends without an error

vars == <<pc, path, turn, tries, history, reply, calls, errors, empties, premium, outcome>>

Paths == {"openai", "anthropic"}
NoReply == [tools |-> 0, redundant |-> 0]
Errors == {"apiError", "quota", "tooManyCalls", "tooManyErrors"}
Ends == {"finished", "gaveUp", "outOfTurns"}

Fresh(where, p) ==
    /\ pc' = where /\ path' = p /\ turn' = 0 /\ tries' = 0 /\ history' = <<>>
    /\ reply' = NoReply /\ calls' = 0 /\ errors' = 0 /\ empties' = 0
    /\ premium' = 0 /\ outcome' = "none"
Start(p) == Fresh("turn", p)
Leave == Fresh("off", "openai")   \* the run and its result are gone

Init ==
    /\ pc = "off" /\ path = "openai" /\ turn = 0 /\ tries = 0 /\ history = <<>>
    /\ reply = NoReply /\ calls = 0 /\ errors = 0 /\ empties = 0
    /\ premium = 0 /\ outcome = "none"

Done(how) == pc' = "done" /\ outcome' = how
Goto(where) == pc' = where /\ UNCHANGED outcome

----------------------------------------------------------------------------
(* The message history.                                                    *)

Message(kind) == [kind |-> kind, turn |-> -1]
Use(t) == [kind |-> "use", turn |-> t]
Results(t) == [kind |-> "result", turn |-> t]

\* What the API accepts.
WellFormed(h) ==
    /\ \A i \in 1..Len(h) : h[i].kind = "use" =>
           i < Len(h) /\ h[i + 1] = Results(h[i].turn)
    /\ \A i \in 1..Len(h) : h[i].kind = "result" => i > 1 /\ h[i - 1] = Use(h[i].turn)

Newest(h, n) == IF Len(h) > n THEN SubSeq(h, Len(h) - n + 1, Len(h)) ELSE h

\* What stays of a message: a use without results becomes a placeholder, a
\* result without its use goes.
Mended(h, m) ==
    IF m.kind = "use" /\ ~Contains(h, Results(m.turn)) THEN <<Message("say")>>
    ELSE IF m.kind = "result" /\ ~Contains(h, Use(m.turn)) THEN <<>> ELSE <<m>>

\* Mutant: the orphans stay.
SanitizedNothing(h) == h
\* _sanitize_tool_pairs, as what stays of the first messages of a history.
MendedUpTo(h) ==
    LET upTo[i \in 0..Len(h)] ==
            IF i = 0 THEN <<>> ELSE upTo[i - 1] \o Mended(h, h[i])
    IN  upTo
Sanitized(h) == MendedUpTo(h)[Len(h)]

\* Too long a history keeps its newest messages.
Pruned(h) == IF Len(h) > KeepPairs * 2 THEN Sanitized(Newest(h, KeepPairs * 2)) ELSE h

\* Every so many turns the older messages become a summary.
Summarized(h) ==
    IF turn > 0 /\ turn % SummaryAfter = 0 /\ Len(h) > Recent
    THEN Sanitized(<<Message("user"), Message("say")>> \o Newest(h, Recent)) ELSE h

\* After a refusal the two oldest messages go, whatever they are.
Shifted(h) ==
    LET s == Sanitized(h) IN IF Len(s) > 2 THEN SubSeq(s, 3, Len(s)) ELSE s

----------------------------------------------------------------------------
(* A turn.                                                                 *)

BeginTurn ==
    /\ pc = "turn"
    /\ IF turn < EffectiveTurns
       THEN history' = Summarized(Pruned(history)) /\ tries' = 0 /\ Goto("call")
       ELSE Done("outOfTurns") /\ UNCHANGED <<history, tries>>
    /\ UNCHANGED <<path, turn, reply, calls, errors, empties, premium>>

\* A transient failure is retried.
Transient ==
    /\ pc = "call" /\ WellFormed(history)
    /\ IF tries < ApiRetries - 1 THEN tries' = tries + 1 /\ Goto("call")
                                 ELSE Done("apiError") /\ UNCHANGED tries
    /\ UNCHANGED <<path, turn, history, reply, calls, errors, empties, premium>>

\* Any other failure ends the run with an error: the exception is caught here,
\* also when it says that the quota is used up.
Failed(how) ==
    /\ pc = "call" /\ WellFormed(history) /\ how \in {"apiError", "quota"} /\ Done(how)
    /\ UNCHANGED <<path, turn, tries, history, reply, calls, errors, empties, premium>>

\* A refusal of the history, which the proxy also makes up now and then, is
\* answered by shifting it; the SDK path has no such recovery.
Refused ==
    /\ pc = "call"
    /\ IF path = "openai" /\ tries < ApiRetries - 1 /\ Len(history) > 2
       THEN history' = Shifted(history) /\ tries' = tries + 1 /\ Goto("call")
       ELSE Done("apiError") /\ UNCHANGED <<history, tries>>
    /\ UNCHANGED <<path, turn, reply, calls, errors, empties, premium>>

\* The model answers: the turn and its premium are counted.
Answered ==
    /\ pc = "call" /\ WellFormed(history)
    /\ premium' = (turn + 1) * Multiplier

\* Mutant: asking again takes no turn.
EmptyUncounted ==
    /\ Answered
    /\ history' = history \o <<Message("say"), Message("user")>> /\ Goto("turn")
    /\ UNCHANGED <<path, turn, tries, reply, calls, errors, empties>>
\* Nothing in the response: ask again, or give up without an error.
Empty ==
    /\ Answered
    /\ empties' = empties + 1
    /\ IF empties' <= MaxEmpty /\ turn < EffectiveTurns - 1
       THEN /\ history' = history \o <<Message("say"), Message("user")>>
            /\ turn' = turn + 1 /\ Goto("turn")
       ELSE Done("gaveUp") /\ UNCHANGED <<history, turn>>
    /\ UNCHANGED <<path, tries, reply, calls, errors>>

\* Text without tools ends the run.
Text ==
    /\ Answered /\ Done("finished")
    /\ history' = Append(history, Message("say"))
    /\ UNCHANGED <<path, turn, tries, reply, calls, errors, empties>>

\* The budget counts every tool asked for, the redundant reads too.
Fits(n) == calls + n <= MaxCalls
Tools(n, r) ==
    /\ Answered /\ r <= n
    /\ history' = Append(history, Use(turn)) /\ empties' = 0
    /\ reply' = [tools |-> n, redundant |-> r]
    /\ IF Fits(n) THEN Goto("tools") ELSE Done("tooManyCalls")
    /\ UNCHANGED <<path, turn, tries, calls, errors>>

\* The nudge and the warning are a user message of their own.
Signalled(n) ==
    \/ turn < EffectiveTurns - 2 /\ n < Dense
    \/ turn >= 1 /\ EffectiveTurns - turn - 1 <= Few

\* The tools have run, in parallel; reads of preloaded files are intercepted
\* and not counted.
RunTools(failed) ==
    /\ pc = "tools"
    /\ calls' = calls + reply.tools - reply.redundant
    /\ failed => reply.tools > reply.redundant
    /\ errors' = IF failed THEN errors + 1 ELSE 0
    /\ IF errors' >= MaxErrors THEN Done("tooManyErrors") /\ UNCHANGED <<history, turn>>
       ELSE /\ history' = Append(history, Results(turn))
                          \o (IF Signalled(reply.tools) THEN <<Message("user")>> ELSE <<>>)
            /\ turn' = turn + 1 /\ Goto("turn")
    /\ UNCHANGED <<path, tries, reply, empties, premium>>

Step ==
    \/ BeginTurn \/ Transient \/ Refused \/ Empty \/ Text
    \/ \E how \in {"apiError", "quota"} : Failed(how)
    \/ \E n \in 1..MaxBatch, r \in 0..MaxBatch : Tools(n, r)
    \/ \E failed \in BOOLEAN : RunTools(failed)

\* The watcher's timeout cancels the run at a call or while the tools run; the
\* progress tracker keeps the premium.
Cancel == pc \in {"call", "tools"} /\ pc' = "off" /\ UNCHANGED
    <<path, turn, tries, history, reply, calls, errors, empties, premium, outcome>>

----------------------------------------------------------------------------
(* Properties.                                                             *)

TypeOK ==
    /\ pc \in {"off", "turn", "call", "tools", "done"} /\ path \in Paths
    /\ turn \in 0..TierTurns /\ tries \in 0..ApiRetries - 1
    /\ history \in Seq([kind : {"use", "result", "say", "user"}, turn : -1..TierTurns])
    /\ calls \in Nat /\ errors \in 0..MaxErrors /\ empties \in 0..MaxEmpty + 1
    /\ premium \in Nat /\ outcome \in {"none"} \cup Errors \cup Ends
    /\ pc = "done" => outcome # "none"

\* The first call of a turn is never refused for its history: pruning and
\* summarising leave no orphan behind, even when a recovery cut a pair in an
\* earlier turn ("removes orphaned blocks so the message array is always
\* valid", _sanitize_tool_pairs).
FirstCallValid == (pc = "call" /\ tries = 0) => WellFormed(history)

\* No run executes more tools than its budget, nor takes more premium requests
\* than its tier is given, as long as the budget pays for one.
BudgetsKept ==
    /\ calls <= MaxCalls
    /\ (Budget >= Multiplier /\ Multiplier > 0 /\ Budget > 0) => premium <= Budget
============================================================================
