----------------------------- MODULE AgentTurn -----------------------------
(***************************************************************************)
(* The agent loop, Handlers.run_agent of agent/core/agent_loop.py: calls   *)
(* of the model with their retries, the hints given to a response that     *)
(* cannot be used, the gates every tool call passes, automatic approval    *)
(* against the cost cap of the session, the batch of tools that run in     *)
(* parallel, compaction, and the event that ends the turn.                 *)
(*                                                                         *)
(* A response is what the loop tells apart: its finish reason, whether it  *)
(* has text, and its tool calls, each with the kind that decides its fate. *)
(* Every billable call costs 1.  How a decision on a pending batch is      *)
(* executed is in ApprovalFlow; here it is one step.                       *)
(***************************************************************************)
EXTENDS Naturals, Sequences, FiniteSets

CONSTANTS
    Calls,          \* tool calls
    MaxBatch,       \* bound: calls in one response
    MaxIterations,  \* config.max_iterations
    RetryLimit,     \* the three _..._RETRY_LIMITs for hints without progress
    MaxAttempts,    \* _MAX_LLM_RETRIES
    MaxCap,         \* bound: the largest cost cap
    MaxTurns,       \* bound: operations
    Smoke           \* bounded_vertex_smoke_for_turn

ASSUME AgentTurnAssumption ==
    /\ {MaxBatch, MaxIterations, RetryLimit, MaxAttempts, MaxTurns} \subseteq Nat \ {0}
    /\ MaxCap \in Nat
    /\ IsFiniteSet(Calls)
    /\ Smoke \in BOOLEAN

\* bad: arguments that are no JSON; barred: against the provider policy; run:
\* free; plan: training_planner; paid: a billable job; launch: one on Vertex.
Kinds == {"bad", "barred", "run", "plan", "paid", "launch"}
Billable == {"paid", "launch"}
Rungs == {"empty", "plan", "smoke"}

VARIABLES
    pc, turns,
    iteration, retries,     \* of the loop, and hints given in a row
    attempt, healed,        \* of the current call of the model
    full,                   \* running_context_usage is above the threshold
    running,                \* session.is_running
    cancelled,              \* session._cancelled
    context,                \* ContextManager.items: the calls the model has made
    results,                \* and how many tool results each has
    response, kind,         \* what the model said, and the kinds of its calls
    todo, autos, asked,     \* calls to classify, to run, to ask for
    reserved,               \* reserved_auto_spend_usd
    phase,                  \* of the coroutines of the batch
    pending, waiting,       \* session.pending_approval, waiting_for_tool_approval
    preflight, launched,    \* latest_training_preflight; a launch was run or asked for
    blocked, errored,
    ends,                   \* events of this operation that end a stream
    yolo, cap, spent,       \* session.auto_approval_*
    autoSpent, topCap       \* history: spent without being asked; largest cap

loopVars == <<turns, iteration, retries>>
llmVars == <<attempt, healed, full, running>>
ctxVars == <<context, results>>
batchVars == <<response, kind, todo, autos, asked, reserved, phase>>
gateVars == <<pending, waiting, preflight, launched, blocked>>
budgetVars == <<yolo, cap, spent, autoSpent, topCap>>
vars == <<pc, loopVars, llmVars, cancelled, ctxVars, batchVars, gateVars, errored,
          ends, budgetVars>>

NoResponse == [finish |-> "stop", text |-> FALSE, calls |-> {}]
OfKind(cs, ks) == {c \in cs : kind[c] \in ks}

\* The variables of one iteration are forgotten with it.
ForgetBatch ==
    /\ response' = NoResponse
    /\ kind' = [c \in Calls |-> "none"]
    /\ todo' = {} /\ autos' = {} /\ asked' = {} /\ reserved' = 0
    /\ phase' = [c \in Calls |-> "none"]

AddResults(cs) == [c \in Calls |-> IF c \in cs THEN results[c] + 1 ELSE results[c]]

LoopTypes ==
    /\ pc \in {"idle", "top", "llm", "said", "gate", "tools", "results", "end"}
    /\ turns \in 0 .. MaxTurns
    /\ iteration \in 0 .. MaxIterations
    /\ retries \in [Rungs -> 0 .. RetryLimit]
    /\ running \in BOOLEAN /\ cancelled \in BOOLEAN /\ errored \in BOOLEAN
    /\ ends \in Seq({"turn_complete", "approval_required", "error", "interrupted"})

ModelTypes ==
    /\ attempt \in 1 .. MaxAttempts
    /\ healed \subseteq {"effort", "thinking"}
    /\ full \in BOOLEAN
    /\ context \subseteq Calls
    /\ results \in [Calls -> Nat]
    /\ response \in [finish: {"stop", "length"}, text: BOOLEAN, calls: SUBSET Calls]

BatchTypes ==
    /\ kind \in [Calls -> Kinds \cup {"none"}]
    /\ todo \subseteq Calls /\ autos \subseteq Calls /\ asked \subseteq Calls
    /\ reserved \in Nat
    /\ phase \in [Calls -> {"none", "running", "done"}]

GateTypes ==
    /\ pending \subseteq Calls
    /\ waiting \in BOOLEAN /\ launched \in BOOLEAN /\ blocked \in BOOLEAN
    /\ preflight \in {"none", "failed", "blocking", "passed"}

BudgetTypes ==
    /\ yolo \in BOOLEAN
    /\ cap \in 0 .. MaxCap /\ topCap \in 0 .. MaxCap
    /\ spent \in Nat /\ autoSpent \in Nat

(* The types of what the loop and the session keep.                        *)
TypeOK == LoopTypes /\ ModelTypes /\ BatchTypes /\ GateTypes /\ BudgetTypes

Init ==
    /\ pc = "idle" /\ turns = 0
    /\ iteration = 0 /\ retries = [r \in Rungs |-> 0]
    /\ attempt = 1 /\ healed = {}
    /\ full = FALSE /\ running = TRUE /\ cancelled = FALSE
    /\ kind = [c \in Calls |-> "none"]
    /\ context = {} /\ launched = FALSE
    /\ results = [c \in Calls |-> 0]
    /\ response = NoResponse
    /\ todo = {} /\ autos = {} /\ asked = {} /\ reserved = 0
    /\ phase = [c \in Calls |-> "none"]
    /\ pending = {} /\ waiting = FALSE /\ preflight = "none"
    /\ blocked = FALSE /\ errored = FALSE /\ ends = <<>>
    /\ yolo = FALSE /\ cap = 0 /\ spent = 0 /\ autoSpent = 0 /\ topCap = 0

-----------------------------------------------------------------------------
(***************************************************************************)
(* Around the loop: a message of the user, a decision on what is pending,  *)
(* and the routes that interrupt or change the policy at any time.         *)
(***************************************************************************)
Begin ==
    /\ pc = "idle"
    /\ running
    /\ turns < MaxTurns
    /\ turns' = turns + 1
    /\ cancelled' = FALSE
    /\ iteration' = 0
    /\ retries' = [r \in Rungs |-> 0]
    /\ errored' = FALSE
    /\ ends' = <<>>
    /\ pc' = "top"

UserSays ==
    /\ Begin
    /\ pending = {}
    /\ UNCHANGED <<llmVars, ctxVars, batchVars, gateVars, budgetVars>>

\* exec_approval; what is approved is counted when a cap is in force.
UserDecides(yes) ==
    /\ Begin
    /\ pending # {}
    /\ results' = AddResults(pending)
    /\ pending' = {}
    /\ waiting' = FALSE
    /\ spent' = IF yolo THEN spent + Cardinality(yes) ELSE spent
    /\ UNCHANGED <<llmVars, context, batchVars, preflight, launched, blocked, yolo, cap,
                   autoSpent, topCap>>

Interrupt ==
    /\ ~cancelled
    /\ pc # "idle"
    /\ cancelled' = TRUE
    /\ UNCHANGED <<pc, loopVars, llmVars, ctxVars, batchVars, gateVars, errored, ends,
                   budgetVars>>

\* update_session_auto_approval.
SetPolicy(on, c) ==
    /\ yolo' = on
    /\ cap' = c
    /\ topCap' = IF c > topCap THEN c ELSE topCap
    /\ UNCHANGED <<pc, loopVars, llmVars, cancelled, ctxVars, batchVars, gateVars,
                   errored, ends, spent, autoSpent>>

-----------------------------------------------------------------------------
(***************************************************************************)
(* The top of the loop, and compaction.                                    *)
(***************************************************************************)
LeaveLoop ==
    /\ pc = "top"
    /\ cancelled \/ iteration = MaxIterations
    /\ pc' = "end"
    /\ UNCHANGED <<loopVars, llmVars, cancelled, ctxVars, batchVars, gateVars, errored,
                   ends, budgetVars>>

\* _compact_and_notify ends the session: what compact() keeps is too large.
Terminate ==
    /\ running' = FALSE
    /\ pc' = "end"

CompactionFails ==
    /\ pc = "top"
    /\ ~cancelled /\ iteration < MaxIterations
    /\ full
    /\ Terminate
    /\ UNCHANGED <<loopVars, attempt, healed, full, cancelled, ctxVars, batchVars,
                   gateVars, errored, ends, budgetVars>>

\* Mutant: get_messages does not patch the history.
PatchDanglingNot == UNCHANGED results

\* Every call in the history gets a result before the provider sees it.
PatchDangling == results' = AddResults({c \in context : results[c] = 0})

CallModel ==
    /\ pc = "top"
    /\ ~cancelled /\ iteration < MaxIterations
    /\ full' = FALSE
    /\ PatchDangling
    /\ pc' = "llm"
    /\ UNCHANGED <<loopVars, attempt, healed, running, cancelled, context, batchVars, gateVars,
                   errored, ends, budgetVars>>

-----------------------------------------------------------------------------
(***************************************************************************)
(* _call_llm_streaming and _call_llm_non_streaming.                        *)
(***************************************************************************)
LLMFrame == <<loopVars, cancelled, ctxVars, batchVars, gateVars, budgetVars>>

Fail ==
    /\ attempt' = 1 /\ healed' = {}
    /\ errored' = TRUE
    /\ ends' = Append(ends, "error")
    /\ pc' = "end"

\* A transient or rate-limit error is retried after a delay.
\* Mutant: the last attempt is retried like the others.
TransientOnceMore ==
    /\ pc = "llm"
    /\ attempt <= MaxAttempts
    /\ attempt' = attempt + 1
    /\ UNCHANGED <<LLMFrame, pc, healed, full, running, errored, ends>>

Transient ==
    /\ pc = "llm"
    /\ attempt < MaxAttempts
    /\ attempt' = attempt + 1
    /\ UNCHANGED <<LLMFrame, pc, healed, full, running, errored, ends>>

\* The provider rejects the reasoning effort, or replayed thinking: the request
\* is changed, once, and uses up an attempt.  After the last there is none: the
\* loop ends without a response, and that is an error like any other.
Heal(what) ==
    /\ pc = "llm"
    /\ what \notin healed
    /\ IF attempt < MaxAttempts
       THEN /\ attempt' = attempt + 1
            /\ healed' = healed \cup {what}
            /\ UNCHANGED <<pc, errored, ends>>
       ELSE Fail
    /\ UNCHANGED <<LLMFrame, full, running>>

ModelFails ==
    /\ pc = "llm"
    /\ Fail
    /\ UNCHANGED <<LLMFrame, full, running>>

\* ContextWindowExceededError: compaction is forced, and the loop goes on with
\* the same iteration.
Overflow ==
    /\ pc = "llm"
    /\ \/ /\ full' = FALSE
          /\ pc' = "top"
          /\ UNCHANGED running
       \/ /\ full' = TRUE
          /\ Terminate
    /\ attempt' = 1 /\ healed' = {}
    /\ UNCHANGED <<LLMFrame, errored, ends>>

\* A stream that is interrupted keeps its text and loses its calls.  The usage
\* reported for a message that is kept may be above the threshold.
Answer(r) ==
    /\ pc = "llm"
    /\ response' = r
    /\ full' \in {FALSE, r.text \/ (r.calls # {} /\ r.finish = "stop")}
    /\ pc' = "said"
    /\ attempt' = 1 /\ healed' = {}
    /\ UNCHANGED <<loopVars, running, cancelled, ctxVars, kind, todo, autos, asked,
                   reserved, phase, gateVars, errored, ends, budgetVars>>

Responses ==
    LET Fresh == Calls \ context
    IN  {r \in [finish: {"stop", "length"}, text: BOOLEAN, calls: SUBSET Fresh] :
            Cardinality(r.calls) <= MaxBatch}

-----------------------------------------------------------------------------
(***************************************************************************)
(* What the loop makes of a response.                                      *)
(***************************************************************************)
SaidFrame == <<turns, llmVars, cancelled, ctxVars, gateVars, budgetVars>>

Again ==
    /\ iteration' = iteration + 1
    /\ pc' = "top"
    /\ ForgetBatch

\* break
Leave ==
    /\ pc' = "end"
    /\ ForgetBatch

\* Mutant: a hint is for free.
HintForFree(rung) ==
    /\ retries[rung] < RetryLimit
    /\ pc' = "top"
    /\ ForgetBatch
    /\ UNCHANGED <<iteration, retries>>

\* A hint, as long as the others before it were few.
Hint(rung) ==
    /\ retries[rung] < RetryLimit
    /\ retries' = [retries EXCEPT ![rung] = @ + 1]
    /\ Again

\* Cut off by the output limit: the calls are lost.
Truncated ==
    /\ pc = "said"
    /\ response.finish = "length" /\ response.calls # {}
    /\ Again
    /\ UNCHANGED <<SaidFrame, retries, errored, ends>>

\* No text and no call: a nudge if the limit was hit, else a fallback or an error.
SaidNothing ==
    /\ pc = "said"
    /\ response.calls = {} /\ ~response.text
    /\ \/ /\ response.finish = "length"
          /\ Hint("empty")
          /\ UNCHANGED <<errored, ends>>
       \/ /\ response.finish = "length" => retries["empty"] = RetryLimit
          /\ Leave
          /\ \/ errored' = TRUE /\ ends' = Append(ends, "error")
             \/ UNCHANGED <<errored, ends>>
          /\ UNCHANGED <<iteration, retries>>
    /\ UNCHANGED SaidFrame

\* _should_continue_vertex_smoke_launch; a job that was launched may be active.
LaunchIsDue == Smoke /\ preflight = "passed"

\* Text only: the answer, unless the plan has unfinished items or the smoke
\* launch is due, and hints are left.
SaidText ==
    /\ pc = "said"
    /\ response.calls = {} /\ response.text
    /\ \/ Hint("plan")
       \/ LaunchIsDue /\ Hint("smoke")
       \/ /\ LaunchIsDue => retries["smoke"] = RetryLimit \/ launched
          /\ Leave
          /\ UNCHANGED <<iteration, retries>>
    /\ UNCHANGED <<SaidFrame, errored, ends>>

\* Mutant: the policy of the provider is not asked.
GoodWithBarred(ks) == {c \in DOMAIN ks : ks[c] # "bad"}

\* Calls that are malformed, or that _provider_tool_policy_violation bars, get an
\* error for a result.
Good(ks) == {c \in DOMAIN ks : ks[c] \notin {"bad", "barred"}}

SaidCalls(ks) ==
    /\ pc = "said"
    /\ response.calls # {} /\ response.finish = "stop"
    /\ retries' = [retries EXCEPT !["plan"] = 0, !["smoke"] = 0]
    /\ context' = context \cup response.calls
    /\ results' = AddResults(response.calls \ Good(ks))
    /\ IF cancelled
       THEN Leave
       ELSE /\ pc' = "gate"
            /\ kind' = [c \in Calls |-> IF c \in response.calls THEN ks[c] ELSE "none"]
            /\ todo' = Good(ks)
            /\ response' = NoResponse
            /\ UNCHANGED <<autos, asked, reserved, phase>>
    /\ UNCHANGED <<turns, iteration, llmVars, cancelled, gateVars, errored,
                   ends, budgetVars>>

-----------------------------------------------------------------------------
(***************************************************************************)
(* The gates, one call after the other, with awaits in between.            *)
(***************************************************************************)
GateFrame == <<pc, loopVars, llmVars, cancelled, context, kind, response, phase, pending,
               waiting, preflight, launched, errored, ends, budgetVars>>

\* Mutant: nothing has to be checked before a launch.
NoPreflightNeeded(c) == FALSE

\* _provider_launch_missing_live_preflight.
NoPreflight(c) == kind[c] = "launch" /\ Smoke /\ preflight = "none"

GateBlocks(c) ==
    /\ pc = "gate"
    /\ c \in todo
    /\ NoPreflight(c)
    /\ todo' = todo \ {c}
    /\ results' = AddResults({c})
    /\ blocked' = TRUE
    /\ UNCHANGED <<GateFrame, autos, asked, reserved>>

\* Mutant: each call is measured against what was spent before the batch.
RemainingUnreserved == IF cap > spent THEN cap - spent ELSE 0

\* _remaining_budget_after_reservations.
Remaining == IF cap > spent + reserved THEN cap - spent - reserved ELSE 0

\* _approval_decision.
Approved(c) == kind[c] \in Billable => (yolo /\ 1 <= Remaining)

GateDecides(c) ==
    /\ pc = "gate"
    /\ c \in todo
    /\ ~NoPreflight(c)
    /\ todo' = todo \ {c}
    /\ IF Approved(c)
       THEN /\ autos' = autos \cup {c}
            /\ reserved' = reserved + Cardinality(OfKind({c}, Billable))
            /\ UNCHANGED asked
       ELSE /\ asked' = asked \cup {c}
            /\ UNCHANGED <<autos, reserved>>
    /\ UNCHANGED <<GateFrame, results, blocked>>

\* The coroutines of the batch start together; each records its estimate first.
StartTools ==
    /\ pc = "gate"
    /\ todo = {} /\ autos # {}
    /\ phase' = [c \in Calls |-> IF c \in autos THEN "running" ELSE "none"]
    /\ spent' = spent + Cardinality(OfKind(autos, Billable))
    /\ autoSpent' = autoSpent + Cardinality(OfKind(autos, Billable))
    /\ launched' = (launched \/ OfKind(autos, {"launch"}) # {})
    /\ pc' = "tools"
    /\ UNCHANGED <<loopVars, llmVars, cancelled, ctxVars, response, kind, todo, autos,
                   asked, reserved, pending, waiting, preflight, blocked, errored,
                   ends, yolo, cap, topCap>>

-----------------------------------------------------------------------------
(***************************************************************************)
(* The batch runs until all of it is done, or until the interrupt.         *)
(***************************************************************************)
ToolsFrame == <<llmVars, cancelled, context, errored, budgetVars>>
Running == {c \in Calls : phase[c] = "running"}

\* A tool that raises is done as well.
ToolEnds(c) ==
    /\ pc = "tools"
    /\ phase[c] = "running"
    /\ phase' = [phase EXCEPT ![c] = "done"]
    /\ UNCHANGED <<ToolsFrame, pc, loopVars, results, response, kind, todo, autos,
                   asked, reserved, gateVars, ends>>

\* No call of the batch gets its result, those that were done neither.
ToolsCancelled ==
    /\ pc = "tools"
    /\ cancelled
    /\ Leave
    /\ UNCHANGED <<ToolsFrame, loopVars, results, gateVars, ends>>

ToolsDone ==
    /\ pc = "tools"
    /\ Running = {}
    /\ results' = AddResults(autos)
    /\ pc' = "results"
    /\ UNCHANGED <<ToolsFrame, loopVars, batchVars, gateVars, ends>>

\* A Vertex job that is over, or was refused, is the last word.
ProviderHasEnded ==
    /\ pc = "results"
    /\ OfKind(autos, {"launch"}) # {}
    /\ Leave
    /\ UNCHANGED <<ToolsFrame, loopVars, results, gateVars, ends>>

\* _auto_run_bounded_vertex_preflight; its result, which answers no call, is left out.
AutoPreflight(outcome) ==
    /\ pc = "results"
    /\ Smoke /\ preflight = "none"
    /\ OfKind(autos, {"plan"}) # {}
    /\ preflight' = outcome
    /\ blocked' = (blocked \/ outcome = "failed")
    /\ IF outcome = "blocking"
       THEN Leave /\ UNCHANGED iteration
       ELSE Again
    /\ UNCHANGED <<ToolsFrame, turns, retries, results, pending, waiting, launched,
                   ends>>

\* The planner has the loop go on towards a launch, or end with a summary of the
\* planning; what the same batch would have asked for is forgotten.
PlannerGoesOn ==
    /\ pc = "results"
    /\ Smoke
    /\ OfKind(autos, {"plan"}) # {}
    /\ Again
    /\ UNCHANGED <<ToolsFrame, turns, retries, results, gateVars, ends>>

PlanningIsAll ==
    /\ pc = "results"
    /\ Leave
    /\ UNCHANGED <<ToolsFrame, loopVars, results, gateVars, ends>>

\* The rest of the iteration: the approval request of the batch, if any.
AfterTools == pc = "results" \/ (pc = "gate" /\ todo = {} /\ autos = {})

AskApproval ==
    /\ AfterTools
    /\ asked # {}
    /\ pending' = asked
    /\ waiting' = TRUE
    /\ launched' = (launched \/ OfKind(asked, {"launch"}) # {})
    /\ ends' = Append(ends, "approval_required")
    /\ ForgetBatch
    /\ pc' = "idle"
    /\ UNCHANGED <<ToolsFrame, loopVars, results, preflight, blocked>>

\* Nothing to run, nothing to ask, and a launch was blocked.
LaunchBlocked ==
    /\ AfterTools
    /\ blocked /\ asked = {} /\ autos = {}
    /\ Leave
    /\ UNCHANGED <<ToolsFrame, loopVars, results, gateVars, ends>>

NextIteration ==
    /\ AfterTools
    /\ asked = {}
    /\ ~(blocked /\ autos = {})
    /\ Again
    /\ UNCHANGED <<ToolsFrame, turns, retries, results, gateVars, ends>>

\* Mutant: a turn that failed is also complete.
EndTwice ==
    /\ pc = "end"
    /\ ends' = IF cancelled THEN Append(ends, "interrupted")
               ELSE IF ~waiting THEN Append(ends, "turn_complete")
               ELSE ends
    /\ blocked' = FALSE
    /\ pc' = "idle"
    /\ UNCHANGED <<loopVars, llmVars, cancelled, ctxVars, batchVars, pending, waiting,
                   preflight, launched, errored, budgetVars>>

\* The event that ends the stream, after the loop.
End ==
    /\ pc = "end"
    /\ ends' = IF cancelled THEN Append(ends, "interrupted")
               ELSE IF ~errored /\ ~waiting THEN Append(ends, "turn_complete")
               ELSE ends
    /\ blocked' = (blocked /\ (cancelled \/ errored \/ waiting))
    /\ pc' = "idle"
    /\ UNCHANGED <<loopVars, llmVars, cancelled, ctxVars, batchVars, pending, waiting,
                   preflight, launched, errored, budgetVars>>

-----------------------------------------------------------------------------
AnswerStep == \E r \in Responses :
                  (cancelled => r.calls = {} \/ r.finish = "stop") /\ Answer(r)

LoopStep ==
    \/ LeaveLoop \/ CompactionFails \/ CallModel
    \/ Transient \/ (\E w \in {"effort", "thinking"} : Heal(w)) \/ ModelFails
    \/ Overflow \/ AnswerStep
    \/ Truncated \/ SaidNothing \/ SaidText
    \/ \E ks \in [response.calls -> Kinds] : SaidCalls(ks)
    \/ \E c \in Calls : GateBlocks(c) \/ GateDecides(c) \/ ToolEnds(c)
    \/ StartTools \/ ToolsCancelled \/ ToolsDone \/ ProviderHasEnded
    \/ \E o \in {"failed", "blocking", "passed"} : AutoPreflight(o)
    \/ PlannerGoesOn \/ PlanningIsAll \/ AskApproval \/ LaunchBlocked
    \/ NextIteration \/ End

Next ==
    \/ LoopStep
    \/ UserSays \/ (\E yes \in SUBSET pending : UserDecides(yes))
    \/ Interrupt
    \/ \E on \in BOOLEAN, c \in 0 .. MaxCap : SetPolicy(on, c)

Spec == Init /\ [][Next]_vars

(***************************************************************************)
(* The event loop resumes the task; calls of the model and tools have      *)
(* timeouts.                                                               *)
(***************************************************************************)
FairSpec == Spec /\ WF_vars(LoopStep)

(* A provider that is asked again and again answers at some point.         *)
ProviderSpec == FairSpec /\ SF_vars(AnswerStep)

-----------------------------------------------------------------------------
(***************************************************************************)
(* Properties.                                                             *)
(***************************************************************************)
(* get_messages: when the provider is called, every call of the history    *)
(* has exactly one result, after interrupts, failures and blocked calls.   *)
ProviderSeesPairs == pc = "llm" => \A c \in context : results[c] = 1

(* run_agent, "two auto-approved jobs in one model response cannot jointly *)
(* exceed the remaining session cap": what is spent without asking the     *)
(* user stays within the largest cap he has set, whenever he sets it.      *)
AutoSpendWithinCap == autoSpent <= topCap

(* No call gets past a gate that should have held it: neither one that is  *)
(* malformed or barred, nor a Vertex launch without its preflight, is run  *)
(* or kept to be shown to the user for approval.                           *)
GatesHold ==
    \A c \in Calls : phase[c] = "running" \/ c \in asked =>
        /\ kind[c] \notin {"bad", "barred"}
        /\ Smoke /\ kind[c] = "launch" => preflight # "none"

(* A turn ends its stream with one event; an interrupted one may end with  *)
(* another before it.                                                      *)
OneEnd ==
    pc = "idle" /\ turns > 0 =>
        IF cancelled
        THEN ends # <<>> /\ ends[Len(ends)] \in {"interrupted", "approval_required"}
        ELSE Len(ends) = 1

(* Whatever the responses, retries and failures, a turn ends.              *)
TurnsEnd == pc # "idle" ~> pc = "idle"
=============================================================================
