# A TLA+ verification of Liga ML

Liga ML is an agent that plans, launches and follows machine-learning training
jobs for a user. A web backend (FastAPI, one asyncio event loop) keeps many
sessions alive at once; each session has an *agent loop* that calls a language
model, runs the tools it asks for, and stops for a human decision before
anything billable is launched. Sessions outlive the process: a document store
(MongoDB, optional) holds their messages, pending approvals, runs and events.

This directory holds models of the parts where an ordering nobody wrote a test
for can go wrong, the TLC configurations that check them on small instances,
and proofs of what matters most for every size. Paths below are relative to the
repository, which the modules' `map` in `PROJECT.json` also names line by line.

    tlc -workers 2 -config SessionFaults.cfg MCSessionManager
    tlc -workers 2 -config Services.cfg MCServices
    tlapm SessionSafetyProofs.tla
    tlapm ServicesProofs.tla

## 1. The system

### Components, their state and operations

| Component | State it keeps | Operations | Who calls it |
|---|---|---|---|
| Session registry (`backend/session_manager.py`) | `sessions` (id to `AgentSession`), one `asyncio.Lock`, `is_active`, a submission queue and a task per session | create, ensure loaded, submit, interrupt, truncate, sandbox teardown, stale cleanup, shutdown, delete | HTTP routes; the tasks themselves, at their end |
| Durable store (`agent/core/session_persistence.py`) | session documents, messages, event log with counters, runs, quotas | save snapshot, soft delete, append event, update run, increment quota | registry, sessions, routes |
| Agent loop (`agent/core/agent_loop.py`) | context, plan, cancellation event, iteration | `run_agent`, `exec_approval`, undo, compact, new, resume, shutdown | the session's task, one operation at a time |
| Tool approval (same file, `session.py`, `submit_approval`) | `pending_approval`, its snapshot, `waiting_for_tool_approval`, consumed ids; the document's `pending_approval` | ask, decide, abandon, expire, execute, restore | agent loop, routes |
| Automatic approval (`approval_policy.py`, `cost_estimation.py`) | cap, estimated spend | decide, reserve, record | agent loop |
| Event streams (`EventBroadcaster`, `routes/agent.py`, the frontend's transport) | subscriber queues, sequence numbers | publish, subscribe, replay from a number | sessions, browsers |
| Background runs (`background_runs.py`, the store) | status of a run, last event | append run event, derive status | sessions, routes |
| Premium quota (`user_quotas.py`, `_enforce_premium_model_quota`) | a counter per user and day, `claude_counted` | charge (a refund that nobody calls) | routes |
| Sandboxes (`tools/sandbox_tool.py`, `sandbox_client.py`) | a Space per session, a preload task, worker threads, a lock per owner, the record in the document | preload, use, create, replace, teardown, cleanup at a restore | tools, registry, routes |
| Notifications (`agent/messaging/`) | a queue and a worker | enqueue, retry, flush | sessions, a tool |
| Cloud jobs (`tools/jobs_tool.py`) | `_running_job_ids`, a thread per launch | launch, follow the logs, cancel | agent loop, provider |
| Trajectory (`session.py`, `session_uploader.py`, `telemetry.py`) | a JSON file with its upload status, a `.tmp` file, detached processes | save, upload, mark, retry | agent loop, heartbeat thread |
| Command line (`agent/main.py`, `submission_loop`) | `turn_complete_event`, two queues, one terminal, `interrupt_state` | prompt, listen, approve, Ctrl+C, quit, run headless | the user |
| Context (`context_manager/manager.py`, `doom_loop.py`) | the message list | patch dangling calls, undo, truncate, compact | agent loop, registry |
| The rest | | model selection and effort probe, Vertex and SageMaker tools, planner and preflights, datasets, usage and audit, hub artifacts, read-only and local tools, research and plan tools, authentication, frontend, scripts | |

`PROJECT.json` lists them all, with what is modelled of each.

### How they interact

A request finds its session in the registry (or has it restored from the
store), puts an operation into its queue and streams events. The session's task
takes one operation at a time, runs the agent loop for it, and writes a snapshot
after it. Interrupts go past the queue through an event. Cleanup and deletion
take a session out of the registry and cancel its task, whose `finally` block
writes to the registry itself. A decision on a pending approval is an operation
like another, but the route that submits it may first reload the pending batch
from the store.

### What is hard

Everything is one event loop, so the hazards are at the awaits: what was read
before one and used after it, who holds the lock across one, at which of them a
cancellation arrives, and which object a session id means by then. The store
may fail, and is always behind the memory; the process may restart; users send
things twice, late, or from two tabs. Threads and detached processes outlive
the coroutines that started them. `PROJECT.json` lists these hazards at
their lines, with the property that covers each, or why none does.

What makes each component correct: the registry never serves a session nobody
works for, never loses a running task, gives every request an answer and every
accepted submission a task; an approved call runs once, an unapproved one never,
and every call of the conversation has exactly one result; a stream shows every
event once and in order; a run that is over stays over; a user pays for a
session once and never more than the cap; a sandbox has one owner and is taken
down.

## 2. The modules

| Module | What it is |
|---|---|
| `SessionManager` | the registry, its requests and its tasks |
| `RuntimeLifecycle` | what the registry promises about runtimes: the abstract specification |
| `MCSessionManager` | its instances for TLC |
| `SessionManagerProofs` | type correctness and the base invariant |
| `SessionSafetyProofs` | no zombie, no orphan, limits exceeded by no more than concurrent requests, deletion is final; the registry implements the safety part of `RuntimeLifecycle` |
| `ApprovalFlow` | approvals in one session: memory, document, decisions, execution |
| `MCApprovalFlow` | its instances for TLC |
| `ApprovalFlowProofs` | only approved calls start, and a lone one once; with an orderly user, one result per call and an answer to every operation |
| `AgentTurn` | one operation of the agent loop after another: model, gates, budget, batch, endings |
| `AgentTurnProofs` | the results the provider sees, the cap, the gates and the ending of a turn |
| `ContextWindow` | the history: its writers, its repair, compaction, undo and edit |
| `ContextWindowProofs` | shown calls are answered, the history stays in order, stray results are explained |
| `EventStream` | the events of a run: numbers, log, status, streams, reconnects |
| `EventStreamProofs` | whole streams show all, runs settle, and what a reconnected stream drops is explained |
| `Sandbox` | the Space of a session, its threads and its teardowns |
| `SandboxProofs` | the held sandbox is up, none is replaced, every Space is followed |
| `PremiumQuota` | the gate of premium models and its counter |
| `Notifications` | the gateway: queue, worker, retries, close |
| `CloudJobs` | jobs on the Hub and what an interrupt cancels |
| `SessionUpload` | the trajectory file, two savers and the uploaders |
| `CommandLine` | the command-line agent: prompt, listener, Ctrl+C, `submission_loop`, headless mode |
| `ServicesProofs` | one inductive invariant for each of the five modules above, and the eight services together |
| `MCServices` | the eight services for one run of TLC |

### SessionManager

*Ids and objects.* `Sids` are session ids, `Insts` the `AgentSession` objects
(*runtimes*) with their tasks. A restore makes a new runtime for an old id;
several hazards are about code that holds one and means the other.

*Atomicity.* An action is the code between two awaits that really suspend.
`asyncio.Lock` blocks are part of the action that contains them when nothing
suspends inside; the variable `lock` is for the two places that hold it across
an await: `shutdown_session` (which waits for the task) and the `finally` block
of `_run_session` (which writes the final snapshot).

*Requests.* `req[c]` is the coroutine of request `c`: where it is suspended and
the locals it keeps. `CreateBegin`, `CreateRecheck` and `CreateInsert` are
`create_session` around its worker thread; `EnsureLoad` and `RestoreInsert` are
`ensure_session_loaded` around its awaits; `CleanupBegin`, `CleanupCheck`,
`CleanupPop`, `CleanupMark` and `CleanupEnd` are `cleanup_stale_sessions`;
`Shutdown*` and `Delete*` are the two ways out; `SnapshotLands` is the snapshot
several of them end with. `Submit` and `Interrupt` do not suspend.

*Tasks.* `tpc[i]` is where `_run_session` is: `new`, `idle` (at `queue.get`),
`busy` (in `process_submission`), `saving`, then the `finally` block: `fin`
(broadcaster, sandbox, trajectory), `locking`, `marking`, `done`. `cancelled[i]`
is a cancellation not yet delivered; `TaskCancelled` delivers it, wherever the
task is suspended, with what the handlers at that await do. Two of them swallow
it: the one around the cancelled broadcaster, and the one around the tools that a
user's interrupt has just cancelled (`agent_loop.py` 3298 and 3822).

*Abstractions.* Time: any session may be old enough for the cleanup, any wait
may time out. `held` stands for everything that makes the cleanup spare a
session (approval, upload, sandbox, provider job). A document is absent, live or
soft-deleted, with its status. An operation is an input or a shutdown.

*Left out:* the field setters (title, model, provider, auto approval, dataset
uploads), `seed_from_summary`, listing, and the whole-process `close`.

### RuntimeLifecycle

A runtime is unborn, serving, retired or over. It serves one id, alone; it takes
submissions only while it serves; it is retired before its task is over, and does
not serve again. That a retired runtime does end is the liveness property
`OrphansEnd` of `SessionManager`. `SessionManager` maps to it by `LifeOf`: a runtime
serves when it is registered and active and its task is not done.

### ApprovalFlow

One session. The model of the language model is `ModelAsks(S)`: a response that
asks for any batch of calls that need approval. `pending`, `snapshot`,
`waiting` and `consumed` are the four places in memory that know about it,
`stored` the document, written by `Save` after each operation (or not, when the
store fails). A decision `[ids, yes]` travels through the queue; when nothing is
pending, `submit_approval` first reads the document (`RouteLoads`) and later
replaces what is pending by what it read (`RouteRestores`). `TakeDecision` is
`exec_approval` up to the execution, `ToolStarts` and `ToolEnds` the coroutine of
one approved call, `ExecInterrupted` and `ExecResults` the two ways on. The agent
loop is `CallModel` (with `get_messages`, which gives dangling calls a stub
result), `ModelAsks`, `ModelGoesOn`, `TurnEnds`, `TurnFails`, `TurnInterrupted`.
`Crash` is a restart of the process and the restore from the document.
`asked`, `willed`, `decided` and `expired` record what the user saw and did and
which approvals are past their time: only guards about the user and properties
read the first three.

The constant `Faults` says what an instance lets users and environment do:
`abandon` (write on without deciding), `resend` (any decision on any batch seen,
at any time, of any part of it), `interrupt`, `storefail`.

*Left out:* edited scripts, malformed arguments, approval ids that do not match,
a new conversation or a resume while a batch is pending. Undo and compaction
are in `ContextWindow`, the automatic budget and the overflow in `AgentTurn`.

### AgentTurn

`run_agent`, `pc` being where the loop is: `top` (its head), `llm` (a call of
the model), `said` (a response), `gate` (the calls are classified), `tools`, `results`, `end`.
A response is its finish reason, whether it has text, and its calls; `SaidCalls`
gives each call a kind, chosen freely: malformed, barred by the provider policy,
free, the planner, billable, or a launch on Vertex. `Transient`, `Heal`,
`ModelFails` and `Overflow` are what a call of the model may raise;
`Truncated`, `SaidNothing`, `SaidText` and `Hint` are the responses the loop
answers with a hint, each rung with its limit. `GateBlocks` and `GateDecides`
classify the calls one by one, in any order: `Approved` is `_approval_decision` with `Remaining`,
the cap less what was spent less what this batch has reserved. `StartTools`,
`ToolEnds`, `ToolsCancelled`, `ToolsDone` are the gathered batch;
`ProviderHasEnded`, `AutoPreflight`, `PlannerGoesOn`, `PlanningIsAll`,
`AskApproval`, `LaunchBlocked` and `NextIteration` what follows it. `SetPolicy` changes the
session's policy at any moment, and `Interrupt` comes at any moment. Every
billable call costs 1; `UserDecides` executes a decision in one step
(`ApprovalFlow` has it in detail).

### ContextWindow

`items` is a sequence of messages, each a number, a role and, for calls and
results, the ids of the calls. All writers of the history are actions: `UserMessage` (with
the note `process_submission` puts before it, and the results that abandon what
is pending), `TypedApproval`, `Decision`, `GetMessages` (doom-loop note and
stubs), `ModelSpeaks`, `ModelCalls`, `ToolsReturn`, `ToolsInterrupted`,
`UndoLastTurn`, `EditMessage` and `Compact`/`Summarised`, with the await of the
summary between them. `visible` is what the browser shows and counts.

### EventStream

`send_event` is four steps: a number from the counter (`Number`), the insert
(`Inserts`), the update of the run and the queue (`UpdatesAndPuts`), by the loop,
by a tool that runs beside it, and by the route of an interrupt, which only logs. `Broadcast`
copies the queue to whoever is subscribed. The browser submits and subscribes
(`SendMessage`, `SendDecision`; `Submit` is `chat_sse`), may lose the connection
(`Drop`), loads what it missed after its `last` event (`ReplayLoads`) and then subscribes
(`ReplaySubscribes`). `RunStatusFromEvent` is the status a kind of event gives.

### Sandbox

`thread[s]` is the worker thread that creates Space `s`, `at[m]` the coroutine
(the preload task, or the tool) that waits for one, `td[x]` a teardown of the
tool, the route or the end of the task. `FindExisting`, `StartThread`, `Register`, `RecordIt`,
`DropCancelled` and `DeleteCancelled` are `_ensure_sandbox`; `ThreadCopies`,
`ThreadSetsUp`, `ThreadCancels`, `ThreadReturns` are `Sandbox.create`, which looks at
its cancel flag between the calls of the Hub; `Teardown*` is
`teardown_session_sandbox`. `Crash` loses the memory and `Restore` deletes what
the document records.

### PremiumQuota, Notifications, CloudJobs, SessionUpload

*PremiumQuota.* A message goes through `Gate`, `TryIncrement` (the atomic update of the
store), `MarkCounted`, `PersistCounted` and `SubmitPost`, each an await of the
route; `SwitchModel`, `NextDay` and `RestartServer` come in between.
*Notifications.* `Notify` queues one note for each destination, the worker is
`WorkerGets`, `Delivers`, `TriesLater`, `TriesAgain`, `GivesUp`, `Finished`, and
`Flush`, `CancelWorker`, `WorkerCancelled`, `GatewayCloses` are `close()`.
*CloudJobs.* `RunBatch` puts calls into `asyncio.to_thread(run_job)`: the launch of
the job (`ProviderLaunches`) and the end of the wait (`TrackJob`) are apart, which
is what an interrupt falls between (`InterruptBatch`, `CancelRequest`,
`CleanupEnds`).
*SessionUpload.* `StageSave` and `RenameSave` write the trajectory through a `.tmp` file, by the
loop or by the heartbeat's thread; `UploaderReads`, `UploadFile`,
`OpenForStatus`, `WriteStatus` are one detached process.

### CommandLine

One process with three coroutines. `terminal` is `main`: it waits for
`turn_complete_event` (`turnDone`), prompts (`MainWakes`, then `UserTypes`,
`UserTypesCommand`, `UserQuits` or `PressAtPrompt`), and at the end queues a
shutdown and waits at most ten seconds (`MainEnds`). `listener` is
`event_listener`, which takes events from `feed` and sets `turnDone` at those in
`PromptEvents`, and which asks for approvals at the same terminal
(`ListenerAsks`, `UserApproves`). `loopAt` is `submission_loop` with one
operation in its hands; a turn is only its ending (`AgentReturns`; `AgentTurn` has
the rest). The three ways to say that an operation succeeded (`undo_complete`,
`new_complete`, `resume_complete`) are one event, `done`. `PressWhileWaiting` is
`_on_sigint`, `armed` whether that handler is installed, `recent` the window of two presses.
With `terminal = "headless"`, `HeadlessTakes` is the whole of `headless_main`.

### MCServices

The eight services share nothing but the session they serve, so composing them
freely would only multiply their states. The variable `part`, chosen at the
start, says which of them moves: one run checks all their properties, each
over the behaviours of its own service, and `ServicesAnswer` states the three
liveness properties (`SandboxToolReturns`, `StreamsClose`, `PromptReturns`) as
one formula.

## 3. The runs

| Run | Instance | What it shows |
|---|---|---|
| `SessionFaults` | 1 id, 2 runtimes, 2 requests; all but touch and shutdown; failing store | `NoZombie`, `DeletedStaysDeleted`, `ImplementsLife`, types |
| `SessionStop` | the same sizes; shutdown and touch, no interrupt, sound store | `NoOrphan` |
| `SessionCapacity` | 3 ids, 3 runtimes, 2 requests, an ordinary user and `dev`, both limits 1 | `CapacityOvershootBounded` |
| `SessionLive` | 1 id, 2 runtimes, 2 requests; create, restore, submit, delete; `FairSpec` | `RequestsReturn`, `AcceptedIsHandled`, `OrphansEnd`, `LockIsReleased` |
| `ApprovalFaults` | 2 calls, batches of up to 2, 2 iterations, 3 submissions, 1 restart; every fault | `OnlyApprovedStarts`, `AloneLaunchedOnce`, types |
| `ApprovalTurns` | the same, 4 submissions; interrupts; `FairSpec` | `OneResultPerCall`, `EveryOperationAnswers`, `UndecidedStaysPending`, `DecisionsAreTaken` |
| `AgentTurn` | 2 calls, 3 iterations, 2 hints in a row, 3 attempts, cap up to 1, 2 operations; `ProviderSpec` | `ProviderSeesPairs`, `AutoSpendWithinCap`, `GatesHold`, `OneEnd`, `TurnsEnd`, types |
| `Services` | the eight services, below; `ServicesSpec` | for the sandbox `HeldIsUp`, `NeverReplaced`, `OrphansAreExplained`; for streams `ChatStreamComplete`, `DropsAreExplained`, `SettledRunIsOver`; for the terminal `PromptMeansIdle`; for the three `ServicesAnswer`; for the history `CallsAreAnswered`, `StraysAreExplained`, `HistoryInOrder`; for the quota `ChargedOnce`, `PremiumIsCharged`; `LossesAreLate`, `RunningJobsAreExplained`, `UploadedIsInDataset`; types |

Four more runs find disagreements between the code and what it says of itself,
each a finding in `PROJECT.json`:

| Run | What happens |
|---|---|
| `ShutdownDeadlock` | `shutdown_session` waits for the task under the lock the end of the task needs; after a timeout that meets a busy task nobody ever gets the lock again |
| `DuplicateRelaunches` | a repeated decision on two calls, one rejected, launches the approved one twice |
| `HistoryInvalid` | a message written while calls wait for an approval: the provider note comes between the calls and the results that abandon them, which then follow no call |
| `EditCutsEarlier` | the backend counts the notes when it looks for the message to edit, the browser does not: editing the second message removes the first |

### What the properties of the services say

Several of these services do lose things, by design or not. Their properties
are of the form *nothing is lost but*: history variables (`excused`, `gap`,
`overtaken`, `parted`, `raced`, `afterFlush`, `late`, `spared`, `unfollowed`,
`disturbed`) are set by the few steps at which the code loses something, and the
invariant says that no other interleaving does. No guard reads them. Section 5 lists
these losses.

### Bounds, and why they are enough

Registry: every hazard involves one session id, at most two runtimes of it (the
old and the restored one) and two concurrent requests; a third id is needed only
where sessions are counted. `MaxSubs` bounds the submissions of a runtime: one
is enough to make a task busy, two for a shutdown behind an input. A runtime
is used once, so the number of `Insts` also bounds restores. Ids, runtimes and
requests are symmetric; symmetry is not used where liveness is checked.

Approvals: two calls give a batch of two and two batches of one, so a decision
can be partial, or stale with another batch pending. Three submissions are
enough for ask, decide, decide again, four for a second round. `MaxIterations`
is the configuration of the agent, bounded at two: a call to the model that
asks, and one after it. One restart loses the memory at any point once.

Agent turns: two calls of unit cost and a cap of one make the second of a batch
exceed what the first reserved; three iterations are a response, the hint or the
results it leads to, and one more; the limits of hints and attempts are two and three, so that a
limit is reached by a path shorter than the iterations; a second operation finds
what the first left pending, blocked or spent.

Services: two Spaces are a sandbox and its successor, with one tool call and
one restart. Three events and two turns let a number be overtaken by the event
of a tool or an interrupt and a run be continued by a decision; one drop is one reconnect. Nine messages
are two turns with notes and results, or one turn with a compaction in its
middle, with two messages left untouched rather than five. Two chats, two
messages under way, a cap of one and one change of day or restart make two charges race, and a
session meet an exhausted cap. Two destinations, five notes and all three delays
fill the queue behind a failing note. Two calls and three jobs are a batch and
what is launched after its interrupt; two uploaders and three saves
with two contents are a save, a later save while the first is uploaded, and a retry.
Two things typed, two approvals and two presses of Ctrl+C are an operation that
follows another, an approval after an interrupt, and the double press that quits.
Each constant is named, and appears in the guards.

The proofs have none of these bounds.

Deadlock is not checked: an idle server with no request, or one that has used
its bounds, may stop.

### Fairness

`SessionManager`: weak fairness of every request that has begun and of every
task. The event loop resumes whatever is ready, awaits of the store return or
raise, `wait_for` fires, and an operation ends because model calls have timeouts
and the loop an iteration limit. Nothing obliges a request to come, a user to
interrupt or submit. `ApprovalFlow`: weak fairness of the task and of each tool,
for the same reasons (tools have timeouts); none of users, routes, expiry
or restarts.

`AgentTurn`: weak fairness of the loop, and strong fairness of `AnswerStep`. The
strong one is needed because a context overflow is answered by a compaction and
another call in the same iteration, with no limit (`agent_loop.py` 3511-3530):
without it, a provider that reports an overflow for ever keeps the turn open for
ever. Everything else that goes round is limited by the code, which is what
`TurnsEnd` shows. `Services`: weak fairness of every coroutine, thread and
teardown of the sandbox (calls of the Hub return or raise), of the loop that
sends events, of every `send_event` under way, of the broadcaster and of the browser's
reading, of the loop, the listener and the main coroutine of the command line;
none of users, drops, interrupts or restarts. Of the other five
services only safety is stated.

## 4. What is proved

All eight proof modules are checked by TLAPS from the assumptions on the
constants that the modules declare (`ConstantsAssumption`, `ApprovalAssumption`,
`AgentTurnAssumption` and the like: limits are natural numbers, "no runtime" is no
runtime). Where nothing is said the sets of sessions, runtimes, requests, users,
calls, Spaces, chats, jobs and processes are any sets, finite or not, and every
fault the model has is there. `AgentTurn` assumes a finite set of calls, because
it counts what a batch has reserved; a history is finite. Hypotheses of a
theorem are written in it, and exclude no more than the run that checks it.

Every module has the same shape: an invariant that is a conjunction of named
parts, a lemma for each group of actions, a theorem that the invariant holds, and
the properties as its consequences.

### Registry

* `TypeCorrect`: `TypeOK` of the registry. Inductive only together with
  `FrameOK`, what the frame of a request holds at each of its awaits.
* `BaseInvariance`: what everything else rests on. A registered runtime was made
  for that very id and is started, and what is reserved by a request in its frame
  is not yet started and not reserved by another.
* `NoZombieWithoutShutdown`: without `shutdown_session`, a registered active
  runtime has a live task, whatever fails. The invariant (`ZombieInv`) says that
  only inputs are queued, that whoever cancels has popped first, and that what
  serves is still in its loop.
* `NoOrphanWithoutFaults`: with a sound store and without interrupts, a popped
  runtime's task is on its way out or in the hands of the request that
  popped it.
* `CapacityWithoutRestores`: with finitely many requests and no restores, the
  overshoot of `CapacityOvershootBounded`. That bound is not inductive: a create that finds
  its user at the limit returns, but it had passed the check of the server
  before. `CapacityInv` counts it from there on: what is active and whoever is past the
  check of the server stay below the limit plus the number of requests, because
  the request that passes the check has seen less than the limit, and the others are
  fewer than all.
* `DeletionIsFinal`: a soft-deleted document stays so, with no assumption.
* `ImplementsLifeWithoutShutdown`: every step of the registry is a step of
  `RuntimeLifecycle` or a stutter, under the same invariant.

### Approvals

* `ApprovalInvariance`, `ApprovalTypeCorrect`, `AloneIsLaunchedOnce`,
  `OnlyApprovedIsStarted`: with every fault. The invariant says that every decision in the queue or in a route
  was sent by the user on a batch he was shown, that batches are disjoint, that
  what was started is consumed, and that a lone call that was consumed is not
  started again. The duplicate test of `exec_approval` is what the last part
  needs; it does not extend to batches with a rejected call, which is
  `DuplicateRelaunches`.
* `OrderlyInvariance`, `OneResultWhenOrderly`, `AnswersWhenOrderly`,
  `UndecidedIsKept`: for a user who answers what he is asked, once, and says
  nothing else until then (`Orderly`: neither `abandon` nor `resend`). Interrupts,
  restarts and writes that fail remain, which is more than the run `ApprovalTurns`
  allows. `OrderlyInv` says that at most one decision is queued, on exactly what is
  pending; that what is pending was not consumed and has no results, in memory and in the
  document; that a call which is executed has none yet; and that a batch without a
  decision is pending wherever its calls are in the history. The last part is stated of the
  document too, since a restart makes it the memory.

### Agent turns

* `TurnInvariance`, with `TurnTypeCorrect`. `PairsInv` says who owes a
  call its result: no call has two, and those that are to be classified, that run, or that wait
  for the user have none yet. `BudgetInv`: while a batch is classified, what it
  reserved is the cost of the calls it lets run, and together with what was spent
  it stays within the largest cap, whenever the policy changes. `BatchInv` and `PassedInv` say
  what a call that passed the gates is, and `EndsInv` which events a turn has sent at
  each place.
* `ProviderSeesOneResult`, `SpendIsCapped`, `GatesAreKept`, `TurnsEndOnce` follow.

### Sandbox

* `SandboxInvariance`, with `SandboxTypeCorrect`. `MakersInv`: a coroutine that makes a sandbox
  has a Space of its own, and from its second look on, under the lock of the
  owner, nobody else registers one. `SpacesInv`: a Space that was registered is
  not being made any more, and one that is held, by the session or by a teardown, by
  nobody else. `CallersInv`: how the tool call and the end of the
  session go with their teardowns, and that nothing is being made behind the last one.
  `OwnersInv`: every Space on the Hub is held, recorded, being made or excused.
* `HeldSandboxIsUp`, `OrphansExplained`, and the action property
  `SandboxIsNeverReplaced`, for any number of Spaces and restarts.

### Events

* `StreamInvariance`. `SendersInv` and `RunInv`: after a turn only the last
  event of the loop and the event of an interrupt are under way, so that the status
  of the run is settled by the former. `EndingsInv`: an event that ends a stream
  is the last on its way to it. `WholeInv`: a stream that was open from the
  submission on has, shown or on the way, all that was queued since.
* `WholeStreamsShowAll` and `RunsSettle` follow.
* `ReplayInvariance`, with `StreamTypeCorrect`, and `DroppedEventsAreExplained`. A number is
  *due* when it is in the log, the stream is to show it, and nothing explains its absence.
  `DueInv`: what is due is higher than `last` and than all that was loaded unless it was loaded
  itself, and as long as a stream is open, it is to be replayed or on the way once it is
  queued; `OrderInv`: the replay ascends, and so do the queues behind it but for the
  numbers that are known to have been overtaken. The filter of
  the browser (`last`) then passes whatever is due, across any number of lost
  connections. Of the replay the proof needs only that it is a sequence of the events after
  `last`, each once, in the order of their numbers.

### History

* `ContextInvariance`, with `ContextTypeCorrect`. `HistorySound`: numbers grow along the
  history, every result has its call before it with nothing but other results
  between, or its call was parted from it by a message that came while it was
  waiting or by a cut, and whatever is still to be answered belongs to the last
  call. `SummarySound`: the history that a compaction in flight will leave is
  sound too, because the pieces it keeps were chosen before the summary was asked for
  and the history may be cut meanwhile. `ModelIsAnswered`: while the model answers, every call
  is followed by its results.
* `ShownCallsAreAnswered`, `StrayResultsAreExplained`, `HistoryStaysInOrder` follow.
* `StraysAreExplained` is not inductive, as the owner of a result is found by walking
  back from it, and every operation moves messages. The lemmas say what an operation does to places:
  messages `Drawn` from a history in their order, with stubs and summaries between them, are
  in order; a history that is cut is sound when the calls cut off from their results count
  as parted (`CutShort`: undo, edit), and so are a head of other messages `Joined` to the messages from a boundary
  on (compaction), and a history in which stubs are inserted (`PatchedSound`).
* The repair of `get_messages` concatenates one piece for each message (`FlattenSeq`). Where a place
  of the result comes from is proved without induction over sequences: the
  places where it would fail are a set of numbers, which has a least one (`Least`), and the
  piece before that one is in order.

### Quota, notifications, jobs, trajectories, command line

Each has, besides what follows, its types as a theorem (`QuotaTypeCorrect`, `NoteTypeCorrect`,
`JobTypeCorrect`, `UploadTypeCorrect`, `CliTypeCorrect`), with the bounds of its
counters: the cap, the delays of a note, `max_retries`.

* `QuotaInvariance`, `PremiumIsPaid`, `SessionsPayOnce`: what is behind the
  gate was charged or switched there; where nothing raced, a session has one message
  at the gate, which finds the flag or writes it, and a restart finds the snapshot.
* `NotesInvariance`, `NotesAreNotLost`: every note is queued, carried by the worker,
  sent, given up, or late, and `unfinished`, which `close()` waits for, counts the first two.
* `JobsInvariance`, `JobsAreExplained`: a running job is recorded, about to be
  recorded by the call that launched it, or excepted; and an id that the cleanup has
  come to is over or spared.
* `UploadInvariance`, `UploadedIsThere`: as long as nothing disturbed the file, one
  saver is at work and every uploader holds what is in it.
* `CliInvariance`, `PromptIsIdle`: one thing is owed to the user at a time, an operation
  that is queued, handled, ended in the feed, or asking; at the prompt, none.

### The services together

* `ServicesKeepApart`: the composition that TLC runs implements the specification of each
  of the eight services, as a step of one leaves the variables of the others
  alone. All that is proved of a service holds in the run `Services`.
* `ServicesTypeCorrect` puts their types together.

### Only model-checked

* All liveness, and with it `RequestsReturn`, `AcceptedIsHandled`, `OrphansEnd`,
  `LockIsReleased`, `DecisionsAreTaken`, `TurnsEnd`, `ServicesAnswer`: fairness and
  `ENABLED` are out of the prover's reach.
* That a replay is never stuck: that a finite log has an order of its numbers is an
  induction over sets. The proofs hold for whatever the order is, and `ServicesAnswer`
  finds one in the run.
* The properties outside the hypotheses of their theorems, where they fail: section 5.

## 5. Known disagreements the passing runs leave out

The passing runs exclude what breaks their properties, and only that. The texts
quoted are the code's own.

Registry:

* `shutdown_session` is not in `SessionFaults` and `SessionLive`: besides the
  deadlock, its timeout may end a task before the `finally` block deactivates
  the session, which stays registered with a dead task (against `NoZombie`).
* `SessionLive` has no cleanup, for the size of the instance, and no
  interrupts: a cancellation that meets the task while it awaits interrupted
  tools is swallowed, and the deletion waits for a task that goes on.
* `SessionStop` has a store that does not fail: when the soft delete raises, the
  popped task is not cancelled and runs on, in no registry; and no interrupts,
  for the same swallowed cancellation.
* `SessionCapacity` has no restores: they look at no limit. With creations alone
  the limit is exceeded too, by one session for each concurrent request, which is
  the bound that is checked.
* A restore that read its document before a deletion registers its runtime after
  it, and the deleted session is served.
* `cleanup_stale_sessions` tests a session, awaits `list_runs` and then pops it
  looking only at identity and `is_active`: a submission accepted in between is
  discarded ("skipped so user-visible work is never silently discarded",
  `session_manager.py` 256). `CleanupSparesWork` states it.
* The end of a popped runtime's task deactivates whatever runtime is registered
  under its id by then (`session_manager.py` 1791), a restored one included, which every
  later `ensure_session_loaded` returns inactive. `RegisteredIsActive` states it.
* `update_session_model` persists the state `idle` of a busy session.

Approvals:

* `ApprovalTurns` has no `abandon`, `resend` or `storefail`: see the findings. The
  safety properties hold with failing writes too (section 4); but then a batch the document
  never saw is lost in a restart, together with the part of the conversation that asked for it.
* `_abandon_pending_approval` leaves the snapshot, and does not count the calls as
  consumed: an approval that arrives afterwards is restored from it and the tools the user
  moved on from are run. `AnsweredIsNotStarted` states the opposite.
* After an abandoned approval `waiting_for_tool_approval` stays set: the turn
  that answers the user's message ends without an event that ends its stream.
* A launch that is under way when the process restarts is pending again in
  the document, so it can be approved and launched once more: `launches` counts
  what one process does, and nothing is claimed across restarts.

Agent loop:

* An interrupt while a response streams, before any of its text has come, ends
  the turn with two ending events: the exception of the half-read response and
  `interrupted`. `OneEnd` therefore says only that the last one is an ending of
  an interrupted turn; and an interrupt during an approval request is not
  answered by an event of its own.
* Calls of a batch that need an approval are dropped, unanswered, when a
  sibling that ran automatically ends or continues the loop; the next call of the model gives them stubs.
* An interrupt that comes before `run_agent` begins is forgotten by its
  `reset_cancel`.
* When the effort is healed at the last attempt, the retry loop ends with no
  response. The model takes that as a failed call of the model.
* The result of an automatic preflight (1906-1957) answers no call of the model.

History:

* A truncation that comes while a compaction awaits its summary is undone by it.
* `compact` without a user message takes the first message after the system's for it.
* Undo and edit do not know of pending or running calls: results of what they
  cut follow no call. Undo removes only back to the last message of role user,
  which may be a note or a hint. `StraysAreExplained` excepts these calls.
* The note against repetition is added again before every call while the repetition lasts.

Sandbox:

* An interrupt or a deletion while a thread waits for the API of its Space, or
  while the agent's own `sandbox_create` runs, leaves the Space on the Hub: nobody
  waits for the thread any more (the docstring of the cleanup, `session_manager.py`
  1645-1650, promises otherwise). So does a failure after the copy. `_cleanup_user_orphan_sandboxes`, which would
  find such Spaces, has no caller.
* A teardown that is late in clearing the record clears that of the successor.
* A cancelled coroutine releases the lock of the owner while its thread goes on.
* An interrupt in the first minute of a session ends the preload for good.

Events:

* `subscribe_events` says "Returns 404 if the session isn't active or isn't
  processing", and looks at `is_active` only. A browser that reconnects to a
  run that has ended, having seen all of it, waits for ever: `StreamsClose` speaks of streams that are live
  when the end is broadcast.
* Events broadcast between the load of the log and the subscription are lost to
  that stream (`gap`), and an event whose number was overtaken by a higher one may be (`overtaken`); events may be shown twice.
* A message sent while a turn runs gets the event that ends that turn; in the
  model a message waits until the turn has settled.
* A failed tool marks its run as failed until the next event revives it.
* `/events` counts by the number of the session, the browser keeps the one of the run.

Quota, notifications, jobs, trajectories:

* A session whose model becomes premium after its message has passed the gate
  is not charged (`switched`), two messages sent together, or a restart before the
  flag is stored, charge twice (`raced`). A cap of zero would grant one session a
  day. Nothing refunds a charge.
* Notes queued after `close()` has been satisfied that the queue is empty are
  accepted and never sent.
* An interrupt cannot cancel a job whose launch is under way ("Track job ID for
  cancellation on interrupt", `jobs_tool.py` 712): its id arrives where nobody waits
  (`late`). The ids of jobs whose cancellation failed are forgotten
  (`spared`); the request names no namespace. A job whose logs end while it runs is untracked after a few polls
  (`unfollowed`). The deletion of a session cancels no job.
* A save made while an uploader is at work is marked as uploaded and skipped by
  the retry; uploads may land out of order; loop and heartbeat share one `.tmp`
  file, so a save may fail or leave a file that does not parse (`disturbed`).

Command line:

* `/compact` sends `compacted`, or nothing, and neither sets
  `turn_complete_event` (`main.py` 487): the prompt does not come back, and two presses of
  Ctrl+C, which end the program, are the only way on (`silent`). So it is with a
  turn that ends while `waiting_for_tool_approval` is still set.
* A compaction that fails ends `submission_loop`; what is typed afterwards is
  queued for nobody. Its `finally` saves only `if session.is_running`, so the
  trajectory is not saved then, although the comment of `_compact_and_notify` counts
  on a finally block to do it: that one is in the backend's `_run_session`.
* When the prompt of an approval returns it has removed the handler of SIGINT, which
  is installed again only by the next wait of `main`: in the rest of that turn
  the first press does not cancel it ("a single press cancels the in-flight turn",
  `main.py` 1235). What it does instead is left to the library.
* An operation with two endings (the error of a half-read response, then
  `interrupted`) lets the prompt appear while the next operation runs
  (`doubled`); an approval asked for meanwhile cannot be shown and is lost, and a prompt
  that meets an approval being asked ends the program with an exception.

## 6. What is not modelled, and why

* Session fields set by one request (title, model, provider, dataset uploads),
  `seed_from_summary`, listing, the process-wide close: one assignment each.
* The resume of an earlier trajectory, and a new conversation, while calls are
  pending, but for what they do to the pending approval (`CommandLine`).
* The research tool, an agent loop of its own with a limit of iterations, and
  the plan tool, a list.
* The effort probe and the choice of a model: request parameters. That a probe may fail
  or heal is a choice in `AgentTurn`.
* The planner, the preflights, cost estimates, output policy and dataset
  discovery: deterministic rule tables over one request, thousands of lines of
  wording. Their verdicts are free choices in `AgentTurn`, which is stronger
  than any table.
* Vertex and SageMaker tools: they submit a job, return, and keep nothing.
* The doom-loop detector: a pure function; that its note may come is modelled.
* Pure I/O (hub artifacts, read-only tools, local tools, files and shell inside
  a sandbox), rendering (of the command-line agent, most of the frontend),
  authentication glue, offline scripts.

Every safety invariant that a passing run checks is now a theorem, under the
hypotheses written in it. Proofs still worth having, in this order: `AnsweredIsNotStarted` for a user who abandons batches but sends no
decision twice; `CapacityOvershootBounded` with restores, in the form in which it
holds; and an abstract specification of a stream (every event once, in the order of its
numbers) that `EventStream` implements as long as no connection drops.
