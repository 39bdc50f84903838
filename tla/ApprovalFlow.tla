---------------------------- MODULE ApprovalFlow ----------------------------
(***************************************************************************)
(* Human approval of billable tools (agent/core/agent_loop.py, with        *)
(* submit_approval of backend/session_manager.py) in one session.  The     *)
(* model asks for a batch of tool calls; the session remembers it as       *)
(* pending, in a snapshot, and, after each operation, in the durable       *)
(* store.  The user decides on the batch he was shown, and the session's   *)
(* task takes the decision from its queue and runs what was approved.      *)
(*                                                                         *)
(* Decisions may be sent again, come from a second tab, come late, or race *)
(* the task; the user may write on without deciding, interrupt, or let the *)
(* approval expire; the process may die and be started again.              *)
(***************************************************************************)
EXTENDS Naturals, Sequences, FiniteSets

CONSTANTS
    Calls,          \* tool calls that require approval
    MaxBatch,       \* bound: calls in one response of the model
    MaxIterations,  \* config.max_iterations
    MaxSubs,        \* bound: submissions to the session
    MaxCrashes,     \* bound: restarts of the process
    Faults          \* what users and environment may do in this instance

FaultNames == {"abandon", "resend", "interrupt", "storefail"}

ASSUME ApprovalAssumption ==
    /\ Faults \subseteq FaultNames
    /\ MaxBatch \in Nat \ {0}
    /\ MaxIterations \in Nat \ {0}
    /\ MaxSubs \in Nat
    /\ MaxCrashes \in Nat

VARIABLES
    asked,      \* the batches approval_required has shown to the user
    expired,    \* calls whose expires_at has passed
    willed,     \* calls the user has approved in some decision
    decided,    \* batches the user has decided on
    context,    \* ContextManager.items: calls in it
    results,    \* ... and how many tool results each of them has
    pending,    \* session.pending_approval
    snapshot,   \* session.pending_approval_snapshot
    waiting,    \* session.waiting_for_tool_approval
    consumed,   \* session.consumed_approval_tool_call_ids
    interrupted,\* session._cancelled
    queue,      \* submission_queue
    subs,       \* submissions so far
    pc,         \* where the task of the session is
    iteration,  \* of the agent loop
    reply,      \* the event that ended the operation, for the stream
    phase,      \* of the coroutine that executes an approved call
    refused,    \* rejected_tasks
    launches,   \* how often this process has called the tool for a call
    route,      \* the request in submit_approval
    stored,     \* the session document
    crashes

userVars == <<asked, expired, willed, decided>>
memVars == <<context, results, pending, snapshot, waiting, consumed, interrupted>>
taskVars == <<pc, iteration, reply, phase, refused, launches>>
vars == <<userVars, memVars, taskVars, queue, subs, route, stored, crashes>>

Batches == SUBSET Calls
Decision == [op: {"approve"}, ids: Batches, yes: Batches]
Input == [op: {"text", "typed"}]
NoRoute == [at |-> "idle", ids |-> {}, yes |-> {}, read |-> {}]

(* The types of the session's approval state, in memory and in the store.  *)
TypeOK ==
    /\ asked \in SUBSET Batches
    /\ expired \in Batches
    /\ willed \in Batches
    /\ decided \in SUBSET Batches
    /\ context \in Batches
    /\ results \in [Calls -> Nat]
    /\ pending \in Batches
    /\ snapshot \in Batches
    /\ waiting \in BOOLEAN
    /\ consumed \in Batches
    /\ interrupted \in BOOLEAN
    /\ queue \in Seq(Decision \cup Input)
    /\ subs \in Nat
    /\ pc \in {"idle", "exec", "turn", "model", "saving"}
    /\ iteration \in 0 .. MaxIterations
    /\ reply \in {"none", "turn_complete", "approval_required", "error",
                  "interrupted"}
    /\ phase \in [Calls -> {"none", "starting", "running", "done", "failed"}]
    /\ refused \in Batches
    /\ launches \in [Calls -> Nat]
    /\ route \in [at: {"idle", "load", "assign"}, ids: Batches, yes: Batches,
                  read: Batches]
    /\ stored \in [pending: Batches, context: Batches, results: [Calls -> Nat]]
    /\ crashes \in Nat

\* add_message of one tool result for each of the calls.
Answered(cs) == [c \in Calls |-> IF c \in cs THEN results[c] + 1 ELSE results[c]]

Fresh == {c \in Calls : \A B \in asked : c \notin B}
InPhase(p) == {c \in Calls : phase[c] = p}

Init ==
    /\ asked = {} /\ expired = {} /\ willed = {} /\ decided = {}
    /\ context = {} /\ results = [c \in Calls |-> 0]
    /\ pending = {} /\ snapshot = {} /\ waiting = FALSE /\ consumed = {}
    /\ interrupted = FALSE
    /\ queue = <<>> /\ subs = 0
    /\ pc = "idle" /\ iteration = 0 /\ reply = "none"
    /\ phase = [c \in Calls |-> "none"] /\ refused = {}
    /\ launches = [c \in Calls |-> 0]
    /\ route = NoRoute
    /\ stored = [pending |-> {}, context |-> {}, results |-> results]
    /\ crashes = 0

-----------------------------------------------------------------------------
(***************************************************************************)
(* The user, and the routes.                                               *)
(***************************************************************************)
Enqueue(o) ==
    /\ queue' = Append(queue, o)
    /\ subs' = subs + 1

\* A message; without "abandon", only when nothing is under way or undecided.
SubmitInput(kind) ==
    /\ subs < MaxSubs
    /\ "abandon" \in Faults \/ kind = "typed"
          \/ (pc = "idle" /\ queue = <<>> /\ pending = {})
    /\ Enqueue([op |-> kind])
    /\ UNCHANGED <<userVars, memVars, taskVars, route, stored, crashes>>

\* Without "resend", one decision, on the batch that is now pending, and on
\* all of it; with "resend", what a second tab or a client of the API sends.
InQueue(B) ==
    \E n \in DOMAIN queue : queue[n].op = "approve" /\ queue[n].ids \subseteq B

MayDecide(B, ids) ==
    /\ B \in asked
    /\ ids \in (SUBSET B) \ {{}}
    /\ "resend" \in Faults \/ (B = pending /\ ids = B /\ ~InQueue(B))

\* submit_approval, with nothing to restore or about to ask the store.
SubmitDecision(B, ids, yes) ==
    /\ subs < MaxSubs
    /\ route.at = "idle"
    /\ MayDecide(B, ids)
    /\ willed' = willed \cup yes
    /\ decided' = decided \cup {B}
    /\ IF pending # {}
       THEN /\ Enqueue([op |-> "approve", ids |-> ids, yes |-> yes])
            /\ UNCHANGED route
       ELSE /\ route' = [at |-> "load", ids |-> ids, yes |-> yes, read |-> {}]
            /\ UNCHANGED <<queue, subs>>
    /\ UNCHANGED <<asked, expired, memVars, taskVars, stored, crashes>>

\* _restore_pending_approval_if_missing: load_session reads the document,
RouteLoads ==
    /\ route.at = "load"
    /\ route' = [route EXCEPT !.at = "assign", !.read = stored.pending]
    /\ UNCHANGED <<userVars, memVars, taskVars, queue, subs, stored, crashes>>

\* and what it read replaces pending_approval, whatever that is by now.
RouteRestores ==
    /\ route.at = "assign"
    /\ subs < MaxSubs
    /\ pending' = route.read
    /\ Enqueue([op |-> "approve", ids |-> route.ids, yes |-> route.yes])
    /\ route' = NoRoute
    /\ UNCHANGED <<userVars, context, results, snapshot, waiting, consumed,
                   interrupted, taskVars, stored, crashes>>

Interrupt ==
    /\ "interrupt" \in Faults
    /\ interrupted' = TRUE
    /\ UNCHANGED <<userVars, context, results, pending, snapshot, waiting,
                   consumed, taskVars, queue, subs, route, stored, crashes>>

\* The records of a batch are made at one time, and expire together.
Expire(B) ==
    /\ B \in asked
    /\ expired' = expired \cup B
    /\ UNCHANGED <<asked, willed, decided, memVars, taskVars, queue, subs, route,
                   stored, crashes>>

-----------------------------------------------------------------------------
(***************************************************************************)
(* The task: run_agent up to its loop.  A typed "yes" launches nothing; any *)
(* other message abandons what is pending.                                 *)
(***************************************************************************)
TakeInput ==
    /\ pc = "idle"
    /\ queue # <<>>
    /\ Head(queue).op \in {"text", "typed"}
    /\ queue' = Tail(queue)
    /\ interrupted' = FALSE
    /\ iteration' = 0
    /\ IF Head(queue).op = "typed" /\ pending # {}
       THEN /\ reply' = "error"
            /\ pc' = "saving"
            /\ UNCHANGED <<results, pending>>
       ELSE /\ reply' = "none"
            /\ pc' = "turn"
            /\ results' = Answered(pending)
            /\ pending' = {}
    /\ UNCHANGED <<userVars, context, snapshot, waiting, consumed, phase, refused,
                   launches, subs, route, stored, crashes>>

(***************************************************************************)
(* exec_approval.  What the decision does not approve is rejected, whether *)
(* it names it or not, and so is what has expired.                         *)
(***************************************************************************)
Duplicate(o) == o.ids \subseteq consumed
Held == IF pending # {} THEN pending ELSE snapshot

\* Mutant: the record of the approval is not looked at.
GrantedForever(o) == Held \cap o.yes

Granted(o) == {c \in Held \cap o.yes : c \notin expired}

\* Mutant: nothing remembers what was approved.
ConsumeNothing(o) == UNCHANGED consumed

Consume(o) == consumed' = consumed \cup Granted(o)

\* Mutant: the flag of the approval request survives the decision.
ForgetPendingStillWaiting ==
    /\ pending' = {}
    /\ snapshot' = {}
    /\ UNCHANGED waiting

\* Mutant: the pending approval survives the decision.
ForgetPendingNot ==
    /\ UNCHANGED <<pending, snapshot>>
    /\ waiting' = FALSE

\* Before anything is executed, so that a reload does not ask again.
ForgetPending ==
    /\ pending' = {}
    /\ snapshot' = {}
    /\ waiting' = FALSE

\* Nothing to do: a duplicate is dropped in silence, the rest is an error.
IgnoreDecision ==
    /\ pc = "idle"
    /\ queue # <<>>
    /\ Head(queue).op = "approve"
    /\ Duplicate(Head(queue)) \/ Held = {}
    /\ queue' = Tail(queue)
    /\ reply' = IF Duplicate(Head(queue)) THEN "none" ELSE "error"
    /\ pc' = "saving"
    /\ UNCHANGED <<userVars, memVars, iteration, phase, refused, launches, subs,
                   route, stored, crashes>>

TakeDecision ==
    LET o == Head(queue) IN
    /\ pc = "idle"
    /\ queue # <<>>
    /\ o.op = "approve"
    /\ ~Duplicate(o)
    /\ Held # {}
    /\ queue' = Tail(queue)
    /\ phase' = [c \in Calls |-> IF c \in Granted(o) THEN "starting" ELSE "none"]
    /\ refused' = Held \ Granted(o)
    /\ Consume(o)
    /\ ForgetPending
    /\ reply' = "none"
    /\ pc' = "exec"
    /\ UNCHANGED <<userVars, context, results, interrupted, iteration, launches,
                   subs, route, stored, crashes>>

\* execute_tool, one coroutine for each approved call.
ToolStarts(c) ==
    /\ pc = "exec"
    /\ phase[c] = "starting"
    /\ phase' = [phase EXCEPT ![c] = "running"]
    /\ launches' = [launches EXCEPT ![c] = @ + 1]
    /\ UNCHANGED <<userVars, memVars, pc, iteration, reply, refused, queue, subs,
                   route, stored, crashes>>

\* It returns, or raises here or before the tool was called.
ToolEnds(c) ==
    /\ pc = "exec"
    /\ \/ phase[c] = "running" /\ phase' = [phase EXCEPT ![c] = "done"]
       \/ /\ phase[c] \in {"starting", "running"}
          /\ phase' = [phase EXCEPT ![c] = "failed"]
    /\ UNCHANGED <<userVars, memVars, pc, iteration, reply, refused, launches,
                   queue, subs, route, stored, crashes>>

\* The interrupt ends the wait: no call gets a result, the rejected neither.
ExecInterrupted ==
    /\ pc = "exec"
    /\ interrupted
    /\ InPhase("none") # Calls
    /\ phase' = [c \in Calls |-> "none"]
    /\ refused' = {}
    /\ reply' = "interrupted"
    /\ pc' = "saving"
    /\ UNCHANGED <<userVars, memVars, iteration, launches, queue, subs, route,
                   stored, crashes>>

\* Results of the tools that did not raise, refusals, and run_agent("").
ExecResults ==
    /\ pc = "exec"
    /\ InPhase("starting") \cup InPhase("running") = {}
    /\ results' = Answered(InPhase("done") \cup refused)
    /\ phase' = [c \in Calls |-> "none"]
    /\ refused' = {}
    /\ interrupted' = FALSE
    /\ iteration' = 0
    /\ pc' = "turn"
    /\ UNCHANGED <<userVars, context, pending, snapshot, waiting, consumed, reply,
                   launches, queue, subs, route, stored, crashes>>

-----------------------------------------------------------------------------
(***************************************************************************)
(* The agent loop.                                                         *)
(***************************************************************************)
EndOp(r) ==
    /\ reply' = r
    /\ pc' = "saving"
    /\ UNCHANGED <<userVars, phase, refused, launches, queue, subs, route, stored,
                   crashes>>

\* Mutant: dangling calls are not told from answered ones.
DanglingOrNot == context

Dangling == {c \in context : results[c] = 0}

\* Mutant: an iteration too many.
CallModelOnceMore ==
    /\ pc = "turn"
    /\ ~interrupted
    /\ iteration <= MaxIterations
    /\ results' = Answered(Dangling)
    /\ iteration' = iteration + 1
    /\ pc' = "model"
    /\ UNCHANGED <<userVars, context, pending, snapshot, waiting, consumed,
                   interrupted, reply, phase, refused, launches, queue, subs,
                   route, stored, crashes>>

\* get_messages gives every dangling call a stub result.
CallModel ==
    /\ pc = "turn"
    /\ ~interrupted
    /\ iteration < MaxIterations
    /\ results' = Answered(Dangling)
    /\ iteration' = iteration + 1
    /\ pc' = "model"
    /\ UNCHANGED <<userVars, context, pending, snapshot, waiting, consumed,
                   interrupted, reply, phase, refused, launches, queue, subs,
                   route, stored, crashes>>

\* The response asks for calls that need approval.
ModelAsks(S) ==
    /\ pc = "model"
    /\ S # {}
    /\ asked' = asked \cup {S}
    /\ context' = context \cup S
    /\ pending' = S
    /\ snapshot' = S
    /\ waiting' = TRUE
    /\ reply' = "approval_required"
    /\ pc' = "saving"
    /\ UNCHANGED <<expired, willed, decided, results, consumed, interrupted,
                   iteration, phase, refused, launches, queue, subs, route,
                   stored, crashes>>

\* It asks for other tools: they are run, and the loop goes on.
ModelGoesOn ==
    /\ pc = "model"
    /\ pc' = "turn"
    /\ UNCHANGED <<userVars, memVars, iteration, reply, phase, refused, launches,
                   queue, subs, route, stored, crashes>>

\* The last words of the model, or of the iteration limit.
TurnEnds ==
    /\ pc = "model" \/ (pc = "turn" /\ iteration = MaxIterations)
    /\ ~interrupted
    /\ EndOp(IF waiting THEN reply ELSE "turn_complete")
    /\ UNCHANGED <<memVars, iteration>>

TurnFails ==
    /\ pc = "model"
    /\ ~interrupted
    /\ EndOp("error")
    /\ UNCHANGED <<memVars, iteration>>

TurnInterrupted ==
    /\ pc \in {"turn", "model"}
    /\ interrupted
    /\ EndOp("interrupted")
    /\ UNCHANGED <<memVars, iteration>>

\* Mutant: what is pending stays out of the snapshot.
SnapshotNowConversation ==
    [stored EXCEPT !.context = context, !.results = results]

SnapshotNow == [pending |-> pending, context |-> context, results |-> results]

\* persist_session_snapshot after every operation.
Save ==
    /\ pc = "saving"
    /\ stored' = SnapshotNow \/ ("storefail" \in Faults /\ UNCHANGED stored)
    /\ pc' = "idle"
    /\ UNCHANGED <<userVars, memVars, iteration, reply, phase, refused, launches,
                   queue, subs, route, crashes>>

\* The process dies; ensure_session_loaded restores from the store.
Crash ==
    /\ crashes < MaxCrashes
    /\ crashes' = crashes + 1
    /\ context' = stored.context
    /\ results' = stored.results
    /\ pending' = stored.pending
    /\ snapshot' = {}
    /\ waiting' = FALSE
    /\ consumed' = {}
    /\ interrupted' = FALSE
    /\ queue' = <<>>
    /\ pc' = "idle"
    /\ iteration' = 0
    /\ reply' = "none"
    /\ phase' = [c \in Calls |-> "none"]
    /\ refused' = {}
    /\ launches' = [c \in Calls |-> 0]
    /\ route' = NoRoute
    /\ UNCHANGED <<userVars, subs, stored>>

-----------------------------------------------------------------------------
AskStep == \E S \in SUBSET Fresh : Cardinality(S) <= MaxBatch /\ ModelAsks(S)

TaskStep ==
    \/ TakeInput \/ IgnoreDecision \/ TakeDecision
    \/ ExecInterrupted \/ ExecResults
    \/ CallModel \/ AskStep \/ ModelGoesOn
    \/ TurnEnds \/ TurnFails \/ TurnInterrupted
    \/ Save

ToolStep(c) == ToolStarts(c) \/ ToolEnds(c)

UserStep ==
    \/ \E k \in {"text", "typed"} : SubmitInput(k)
    \/ \E B \in asked :
        \/ Expire(B)
        \/ \E ids \in SUBSET B : \E yes \in SUBSET ids : SubmitDecision(B, ids, yes)
    \/ RouteLoads \/ RouteRestores
    \/ Interrupt

Next == UserStep \/ TaskStep \/ (\E c \in Calls : ToolStep(c)) \/ Crash

Spec == Init /\ [][Next]_vars

(***************************************************************************)
(* The event loop resumes the task and the tools it waits for, the store   *)
(* answers, and tools and model calls have timeouts.  No user is obliged   *)
(* to do anything.                                                         *)
(***************************************************************************)
FairSpec ==
    /\ Spec
    /\ WF_vars(TaskStep)
    /\ \A c \in Calls : WF_vars(ToolStep(c))

-----------------------------------------------------------------------------
(***************************************************************************)
(* Properties.                                                             *)
(***************************************************************************)
\* The rest of the batch a call was asked for in.
Alone(c) == {c} \in asked

(* No tool is launched on anybody's behalf: exec_approval starts a call    *)
(* only if the user approved that very call, and not once its approval has *)
(* expired, through restores, stale decisions and restarts.                *)
OnlyApprovedStarts ==
    [][\A c \in Calls : phase[c] # "starting" /\ phase'[c] = "starting"
                            => c \in willed /\ c \notin expired]_vars

(* A call that was asked for on its own is launched at most once by one    *)
(* process, however often, late or concurrently its approval is sent.      *)
AloneLaunchedOnce == \A c \in Calls : Alone(c) => launches[c] <= 1

(* The same for every call: the name of                                    *)
(* test_duplicate_exec_approval_is_idempotent.                             *)
LaunchedOnce == \A c \in Calls : launches[c] <= 1

(* What the docstring of _abandon_pending_approval says: a call the user   *)
(* moved on from, and that has its result, is cancelled.                   *)
AnsweredIsNotStarted ==
    \A c \in Calls : phase[c] = "starting" => results[c] = 0

(* The provider accepts one result for each call of the conversation.      *)
OneResultPerCall == \A c \in Calls : results[c] <= 1

(* What the docstring of chat_sse says: an operation ends with an event    *)
(* that ends its stream.                                                   *)
EveryOperationAnswers == pc = "saving" => reply # "none"

(* A batch the user has not decided on stays pending, and is pending again *)
(* after a restart, for as long as its calls are part of the conversation. *)
UndecidedStaysPending ==
    pc = "idle" =>
        \A B \in asked \ decided : B \subseteq context => pending = B

(* A decision on the batch that is pending is taken up, unless the process *)
(* dies first.                                                             *)
DecisionsAreTaken ==
    \A B \in Batches, n \in 0 .. MaxCrashes :
        (pending = B /\ InQueue(B) /\ crashes = n) ~> (pending # B \/ crashes # n)
=============================================================================
