------------------------------ MODULE Sandbox ------------------------------
(***************************************************************************)
(* The sandbox of one session, a private Space on the Hub                  *)
(* (agent/tools/sandbox_tool.py, sandbox_client.py): the preload task, the *)
(* tool call that uses, creates or replaces it, the worker threads that    *)
(* create a Space and outlive the coroutine that waits for them, and the   *)
(* teardowns of the tool, of the HTTP route and of the end of the session, *)
(* with restarts of the process and the cleanup of a restore.              *)
(***************************************************************************)
EXTENDS Naturals, FiniteSets

CONSTANTS
    Spaces,         \* ids of Spaces, each created at most once
    NoSpace,
    MaxTools,       \* bound: tool calls
    MaxCrashes      \* bound: restarts of the process

ASSUME SandboxAssumption ==
    /\ NoSpace \notin Spaces
    /\ {MaxTools, MaxCrashes} \subseteq Nat

Hardware == {"cpu", "gpu"}          \* DEFAULT_CPU_SANDBOX_HARDWARE, or paid
Makers == {"preload", "tool"}       \* coroutines that run _ensure_sandbox
Teardowns == {"tool", "route", "exit"}

VARIABLES
    hub, hw,            \* the Spaces, and the hardware of each
    thread, flag,       \* Sandbox.create for a Space, and its cancel event
    at, job,            \* where a maker is suspended, and its Space
    lock,               \* _SANDBOX_CREATE_LOCKS of the owner
    tool, toolsLeft,    \* the tool call of the agent, and how many may come
    sandbox,            \* session.sandbox
    record,             \* sandbox_space_id of the session's document
    td, held,           \* teardowns, and the sandbox each has taken
    interrupted,        \* session._cancelled
    exit,               \* how far delete_session is
    crashes,
    excused             \* history: Spaces lost by a failed call, a crash or an
                        \* abandoned thread

hubVars == <<hub, hw, thread, flag, excused>>
makerVars == <<at, job, lock>>
toolVars == <<tool, toolsLeft, interrupted>>
tdVars == <<td, held>>
sandboxVars == <<hubVars, makerVars, toolVars, sandbox, record, tdVars, exit, crashes>>

Busy(m) == at[m] \notin {"none", "done"}
Fresh == {s \in Spaces : thread[s] = "none" /\ \A m \in Makers : job[m] # s}
Awaited(s) == \E m \in Makers : at[m] = "make" /\ job[m] = s

(* The types of the Spaces, the coroutines and the session's fields.       *)
SandboxTypeOK ==
    /\ hub \in [Spaces -> {"none", "up", "down"}]
    /\ hw \in [Spaces -> Hardware]
    /\ thread \in [Spaces -> {"none", "copy", "setup", "api", "made", "failed", "over"}]
    /\ flag \in [Spaces -> BOOLEAN]
    /\ at \in [Makers -> {"none", "lock", "make", "delete", "record", "done"}]
    /\ job \in [Makers -> Spaces \cup {NoSpace}]
    /\ lock \in Makers \cup {"free"}
    /\ tool \in {"idle", "waiting", "cancelling", "replacing", "tearing", "making", "aborting"}
    /\ {sandbox, record} \subseteq Spaces \cup {NoSpace}
    /\ td \in [Teardowns -> {"idle", "waiting", "deleting", "clearing"}]
    /\ held \in [Teardowns -> Spaces \cup {NoSpace}]
    /\ exit \in {"no", "teardown", "cancel", "finally", "over", "down"}

SandboxInit ==
    /\ hub = [s \in Spaces |-> "none"] /\ hw = [s \in Spaces |-> "cpu"]
    /\ thread = [s \in Spaces |-> "none"] /\ flag = [s \in Spaces |-> FALSE]
    /\ at = [m \in Makers |-> "none"] /\ job = [m \in Makers |-> NoSpace]
    /\ lock = "free"
    /\ tool = "idle" /\ toolsLeft = MaxTools
    /\ interrupted = FALSE
    /\ sandbox = NoSpace /\ record = NoSpace
    /\ td = [x \in Teardowns |-> "idle"] /\ held = [x \in Teardowns |-> NoSpace]
    /\ exit = "no" /\ crashes = 0 /\ excused = {}

-----------------------------------------------------------------------------
(***************************************************************************)
(* _ensure_sandbox and _create_sandbox_locked, in the preload task or in   *)
(* the tool call.                                                          *)
(***************************************************************************)
\* A new uuid.
Reserve(m, h) ==
    /\ Fresh # {}                          \* bound
    /\ LET s == CHOOSE s \in Fresh : TRUE IN
        /\ job' = [job EXCEPT ![m] = s]
        /\ at' = [at EXCEPT ![m] = "lock"]
        /\ hw' = [hw EXCEPT ![s] = h]
        /\ flag' = [flag EXCEPT ![s] = FALSE]

\* With the session, or later if the token was missing then
\* (_restart_cpu_preload_if_token_recovered).
StartPreload ==
    /\ at["preload"] = "none" /\ exit = "no"
    /\ sandbox = NoSpace
    /\ Reserve("preload", "cpu")
    /\ UNCHANGED <<hub, thread, excused, lock, toolVars, sandbox, record, tdVars, exit, crashes>>

\* A maker is through: a tool call returns with it.
Through(m) ==
    /\ at' = [at EXCEPT ![m] = "done"]
    /\ job' = [job EXCEPT ![m] = NoSpace]
    /\ thread' = [s \in Spaces |-> IF s = job[m] /\ thread[s] # "none" THEN "over" ELSE thread[s]]
    /\ lock' = IF lock = m THEN "free" ELSE lock
    /\ tool' = IF m = "tool" THEN "idle" ELSE tool
    /\ UNCHANGED <<toolsLeft, interrupted, tdVars, exit, crashes>>

FindExisting(m) ==
    /\ at[m] = "lock" /\ lock = "free" /\ sandbox # NoSpace
    /\ Through(m)
    /\ UNCHANGED <<hub, hw, flag, excused, sandbox, record>>

NobodyMadeItUnchecked == TRUE

NobodyMadeIt == sandbox = NoSpace

\* The watcher copies session._cancelled to the cancel event.
StartThread(m) ==
    /\ at[m] = "lock" /\ lock = "free" /\ NobodyMadeIt
    /\ lock' = m
    /\ at' = [at EXCEPT ![m] = "make"]
    /\ thread' = [thread EXCEPT ![job[m]] = "copy"]
    /\ flag' = [flag EXCEPT ![job[m]] = @ \/ interrupted]
    /\ UNCHANGED <<hub, hw, excused, job, toolVars, sandbox, record, tdVars, exit, crashes>>

\* The result of a thread that nobody awaits any more is dropped.
Ends(s, result) ==
    thread' = [thread EXCEPT ![s] = IF Awaited(s) THEN result ELSE "over"]

Threads == UNCHANGED <<hw, flag, makerVars, toolVars, sandbox, record, tdVars, exit, crashes>>

\* duplicate_repo
ThreadCopies(s) ==
    /\ thread[s] = "copy"
    /\ \/ hub' = [hub EXCEPT ![s] = "up"] /\ thread' = [thread EXCEPT ![s] = "setup"]
       \/ Ends(s, "failed") /\ UNCHANGED hub
    /\ UNCHANGED excused
    /\ Threads

\* Secrets, server files and the wait for RUNNING; an error leaves the Space.
ThreadSetsUp(s) ==
    /\ thread[s] = "setup" /\ ~flag[s]
    /\ \/ thread' = [thread EXCEPT ![s] = "api"] /\ UNCHANGED excused
       \/ Ends(s, "failed") /\ excused' = excused \cup {s}
    /\ UNCHANGED hub
    /\ Threads

DeleteSpace(s) ==
    \/ hub' = [hub EXCEPT ![s] = "down"] /\ excused' = excused \ {s}
    \/ excused' = excused \cup {s} /\ UNCHANGED hub

\* _check_cancel
ThreadCancels(s) ==
    /\ thread[s] = "setup" /\ flag[s]
    /\ Ends(s, "failed")
    /\ DeleteSpace(s)
    /\ Threads

\* _wait_for_api does not look at the cancel event; when nobody waits for the
\* thread any more, nobody takes the Space it returns.
ThreadReturns(s) ==
    /\ thread[s] = "api"
    /\ Ends(s, "made")
    /\ excused' = IF Awaited(s) THEN excused ELSE excused \cup {s}
    /\ UNCHANGED hub
    /\ Threads

NotCancelled(m) == ~flag[job[m]]

Register(m) ==
    /\ at[m] = "make" /\ thread[job[m]] = "made" /\ NotCancelled(m)
    /\ sandbox' = job[m]
    /\ at' = [at EXCEPT ![m] = "record"]
    /\ UNCHANGED <<hubVars, job, lock, toolVars, record, tdVars, exit, crashes>>

\* _persist_active_sandbox, which swallows an error of the store.
RecordIt(m) ==
    /\ at[m] = "record"
    /\ \/ record' = job[m] /\ UNCHANGED excused
       \/ excused' = excused \cup {job[m]} /\ UNCHANGED record
    /\ Through(m)
    /\ UNCHANGED <<hub, hw, flag, sandbox>>

DropCancelledUndeleted(m) ==
    /\ at[m] = "make" /\ thread[job[m]] = "made" /\ flag[job[m]]
    /\ Through(m)
    /\ UNCHANGED <<hub, hw, flag, excused, sandbox, record>>

DropCancelled(m) ==
    /\ at[m] = "make" /\ thread[job[m]] = "made" /\ flag[job[m]]
    /\ at' = [at EXCEPT ![m] = "delete"]
    /\ UNCHANGED <<hubVars, job, lock, toolVars, sandbox, record, tdVars, exit, crashes>>

DeleteCancelled(m) ==
    /\ at[m] = "delete"
    /\ DeleteSpace(job[m])
    /\ Through(m)
    /\ UNCHANGED <<hw, flag, sandbox, record>>

MakeFails(m) ==
    /\ at[m] = "make" /\ thread[job[m]] = "failed"
    /\ Through(m)
    /\ UNCHANGED <<hub, hw, flag, excused, sandbox, record>>

MakerCancelledHoldingLock(m) ==
    /\ at' = [at EXCEPT ![m] = IF Busy(m) THEN "done" ELSE @]
    /\ job' = [job EXCEPT ![m] = NoSpace]
    /\ UNCHANGED <<lock, hub, excused>>

\* The coroutine is cancelled; the thread it waits for is not.
MakerCancelled(m) ==
    /\ at' = [at EXCEPT ![m] = IF Busy(m) THEN "done" ELSE @]
    /\ job' = [job EXCEPT ![m] = NoSpace]
    /\ lock' = IF lock = m THEN "free" ELSE lock
    /\ CASE at[m] = "delete" -> DeleteSpace(job[m])
         [] at[m] = "record" \/ (at[m] = "make" /\ thread[job[m]] = "made") ->
                excused' = excused \cup {job[m]} /\ UNCHANGED hub
         [] OTHER -> UNCHANGED <<hub, excused>>

-----------------------------------------------------------------------------
(***************************************************************************)
(* teardown_session_sandbox, by whichever caller x, with the wait of       *)
(* cancel_sandbox_preload.                                                 *)
(***************************************************************************)
CancelPreload ==
    flag' = IF job["preload"] = NoSpace THEN flag
            ELSE [flag EXCEPT ![job["preload"]] = TRUE]

\* wait_for(shield(task), 30): the preload is over, or it is cancelled.
PreloadAwaited ==
    \/ ~Busy("preload") /\ UNCHANGED <<hub, excused, at, job, lock>>
    \/ Busy("preload") /\ MakerCancelled("preload")

TeardownBegins(x) ==
    /\ td' = [td EXCEPT ![x] = "waiting"]
    /\ CancelPreload

TeardownTakesLater(x) ==
    /\ td[x] = "waiting"
    /\ PreloadAwaited
    /\ held' = [held EXCEPT ![x] = sandbox]
    /\ td' = [td EXCEPT ![x] = IF sandbox = NoSpace THEN "idle" ELSE "deleting"]
    /\ UNCHANGED <<hw, thread, flag, toolVars, sandbox, record, exit, crashes>>

TeardownTakes(x) ==
    /\ td[x] = "waiting"
    /\ PreloadAwaited
    /\ held' = [held EXCEPT ![x] = sandbox]
    /\ sandbox' = NoSpace
    /\ td' = [td EXCEPT ![x] = IF sandbox = NoSpace THEN "idle" ELSE "deleting"]
    /\ UNCHANGED <<hw, thread, flag, toolVars, record, exit, crashes>>

\* Three attempts.
TeardownDeletes(x) ==
    /\ td[x] = "deleting"
    /\ DeleteSpace(held[x])
    /\ td' = [td EXCEPT ![x] = "clearing"]
    /\ UNCHANGED <<hw, thread, flag, makerVars, toolVars, sandbox, record, held, exit, crashes>>

\* Whatever Space the document names by then is forgotten.
TeardownClears(x) ==
    /\ td[x] = "clearing"
    /\ \/ /\ record' = NoSpace
          /\ excused' = excused \cup ({record} \ {held[x], NoSpace})
       \/ UNCHANGED <<record, excused>>
    /\ td' = [td EXCEPT ![x] = "idle"]
    /\ held' = [held EXCEPT ![x] = NoSpace]
    /\ UNCHANGED <<hub, hw, thread, flag, makerVars, toolVars, sandbox, exit, crashes>>

RouteTeardown ==
    /\ td["route"] = "idle" /\ exit = "no"
    /\ TeardownBegins("route")
    /\ UNCHANGED <<hub, hw, thread, excused, makerVars, toolVars, sandbox, record, held,
                   exit, crashes>>

-----------------------------------------------------------------------------
(***************************************************************************)
(* Tool calls: bash and the others take what is there or wait for the      *)
(* preload; sandbox_create may replace it.                                 *)
(***************************************************************************)
Agent == UNCHANGED <<sandbox, record, exit, crashes>>

ToolCalled ==
    /\ tool = "idle" /\ exit \in {"no", "teardown"}
    /\ toolsLeft > 0 /\ Fresh # {}        \* bounds
    /\ toolsLeft' = toolsLeft - 1
    /\ interrupted' = FALSE

UseSandbox ==
    /\ ToolCalled
    /\ sandbox = NoSpace /\ Busy("preload")
    /\ tool' = "waiting"
    /\ UNCHANGED <<hubVars, makerVars, tdVars>>
    /\ Agent

\* What it does depends on what is there: the sandbox asked for, or a paid one
\* that stays; a preload that may serve or is in the way; the free one, which
\* is replaced; or nothing.
CreateSandbox(h) ==
    /\ ToolCalled
    /\ UNCHANGED <<hub, thread, excused, lock, held>>
    /\ \/ /\ sandbox = NoSpace /\ Busy("preload") /\ h = "cpu"
          /\ tool' = "waiting"
          /\ UNCHANGED <<flag, hw, at, job, td>>
       \/ /\ sandbox = NoSpace /\ Busy("preload") /\ h = "gpu"
          /\ tool' = "cancelling"
          /\ CancelPreload
          /\ UNCHANGED <<hw, at, job, td>>
       \/ /\ sandbox # NoSpace /\ hw[sandbox] = "cpu" /\ h = "gpu"
          /\ tool' = "tearing"
          /\ TeardownBegins("tool")
          /\ UNCHANGED <<hw, at, job>>
       \/ /\ sandbox = NoSpace /\ ~Busy("preload")
          /\ tool' = "making"
          /\ Reserve("tool", h)
          /\ UNCHANGED td
    /\ Agent

PreloadServes ==
    /\ tool = "waiting" /\ ~Busy("preload")
    /\ tool' = "idle"
    /\ UNCHANGED <<hubVars, makerVars, toolsLeft, interrupted, tdVars>>
    /\ Agent

\* Then it looks again: the preload may have ended with a sandbox. Only paid hardware
\* is in the way of another sandbox, so that is what is made in its place.
PreloadCancelled ==
    /\ tool = "cancelling"
    /\ PreloadAwaited
    /\ tool' = "replacing"
    /\ UNCHANGED <<hw, thread, flag, toolsLeft, interrupted, tdVars>>
    /\ Agent

Replace ==
    /\ tool = "replacing"
    /\ UNCHANGED <<hub, thread, excused, lock, toolsLeft, interrupted, held>>
    /\ \/ /\ sandbox = NoSpace
          /\ tool' = "making"
          /\ Reserve("tool", "gpu")
          /\ UNCHANGED td
       \/ /\ sandbox # NoSpace
          /\ tool' = "tearing"
          /\ TeardownBegins("tool")
          /\ UNCHANGED <<hw, at, job>>
    /\ Agent

Replaced ==
    /\ tool = "tearing" /\ td["tool"] = "idle"
    /\ tool' = "making"
    /\ Reserve("tool", "gpu")
    /\ UNCHANGED <<hub, thread, excused, lock, toolsLeft, interrupted, tdVars>>
    /\ Agent

\* The task of the session, or the batch of tools in it, is cancelled.  A
\* teardown that has begun to delete still clears the document.
CancelTool ==
    /\ tool' = IF td["tool"] \in {"deleting", "clearing"} THEN "aborting" ELSE "idle"
    /\ td' = [td EXCEPT !["tool"] = CASE @ = "waiting" -> "idle"
                                      [] @ = "deleting" -> "clearing"
                                      [] OTHER -> @]
    /\ IF td["tool"] = "deleting"
       THEN DeleteSpace(held["tool"]) /\ UNCHANGED <<at, job, lock>>
       ELSE MakerCancelled("tool")

ToolAborted ==
    /\ tool = "aborting" /\ td["tool"] = "idle"
    /\ tool' = "idle"
    /\ UNCHANGED <<hubVars, makerVars, toolsLeft, interrupted, tdVars>>
    /\ Agent

Interrupt ==
    /\ ~interrupted /\ exit = "no"
    /\ interrupted' = TRUE
    /\ flag' = [s \in Spaces |-> flag[s] \/ \E m \in Makers : at[m] = "make" /\ job[m] = s]
    /\ UNCHANGED <<hub, hw, thread, excused, makerVars, tool, toolsLeft, tdVars>>
    /\ Agent

ToolInterrupted ==
    /\ interrupted /\ tool \notin {"idle", "aborting"}
    /\ CancelTool
    /\ UNCHANGED <<hw, thread, flag, toolsLeft, interrupted, held>>
    /\ Agent

-----------------------------------------------------------------------------
(***************************************************************************)
(* The end of the session: delete_session tears down, cancels the task,    *)
(* and the task tears down again; a shutdown only does the last two.       *)
(***************************************************************************)
SessionDeleted ==
    /\ exit = "no"
    /\ exit' = "teardown"
    /\ td["exit"] = "idle"
    /\ TeardownBegins("exit")
    /\ UNCHANGED <<hub, hw, thread, excused, makerVars, toolVars, sandbox, record, held, crashes>>

TaskCancelled ==
    /\ \/ exit = "no"
       \/ exit = "teardown" /\ td["exit"] = "idle"
    /\ exit' = "cancel"
    /\ IF tool \in {"idle", "aborting"}
       THEN UNCHANGED <<hub, excused, at, job, lock, tool, td>>
       ELSE CancelTool
    /\ UNCHANGED <<hw, thread, flag, toolsLeft, interrupted, sandbox, record,
                   held, crashes>>

FinalTeardown ==
    /\ exit = "cancel" /\ tool = "idle"
    /\ exit' = "finally"
    /\ TeardownBegins("exit")
    /\ UNCHANGED <<hub, hw, thread, excused, makerVars, toolVars, sandbox, record, held, crashes>>

SessionOver ==
    /\ exit = "finally" /\ td["exit"] = "idle"
    /\ exit' = "over"
    /\ UNCHANGED <<hubVars, makerVars, toolVars, sandbox, record, tdVars, crashes>>

\* The process is gone, with its threads; a session that was not being ended
\* can be restored.
Crash ==
    /\ crashes < MaxCrashes /\ exit # "down"
    /\ crashes' = crashes + 1
    /\ exit' = IF exit = "no" THEN "down" ELSE "over"
    /\ excused' = excused \cup {s \in Spaces : hub[s] = "up" /\
                                    \/ s # sandbox \/ exit # "no"
                                    \/ \E m \in Makers : at[m] = "record" /\ job[m] = s}
    /\ thread' = [s \in Spaces |-> IF thread[s] = "none" THEN "none" ELSE "over"]
    /\ at' = [m \in Makers |-> "none"] /\ job' = [m \in Makers |-> NoSpace]
    /\ lock' = "free" /\ tool' = "idle" /\ interrupted' = FALSE
    /\ sandbox' = NoSpace
    /\ td' = [x \in Teardowns |-> "idle"] /\ held' = [x \in Teardowns |-> NoSpace]
    /\ UNCHANGED <<hub, hw, flag, toolsLeft, record>>

\* _cleanup_persisted_sandbox, in ensure_session_loaded.
Restore ==
    /\ exit = "down"
    /\ exit' = "no"
    /\ \/ record = NoSpace /\ UNCHANGED <<hub, record, excused>>
       \/ /\ record # NoSpace
          /\ hub' = [hub EXCEPT ![record] = "down"]
          /\ record' \in {record, NoSpace}
          /\ UNCHANGED excused
       \/ record # NoSpace /\ excused' = excused \cup {record} /\ UNCHANGED <<hub, record>>
    /\ UNCHANGED <<hw, thread, flag, makerVars, toolVars, sandbox, tdVars, crashes>>

MakerStep(m) ==
    \/ FindExisting(m) \/ StartThread(m) \/ Register(m) \/ RecordIt(m)
    \/ DropCancelled(m) \/ DeleteCancelled(m) \/ MakeFails(m)

ThreadStep(s) == ThreadCopies(s) \/ ThreadSetsUp(s) \/ ThreadCancels(s) \/ ThreadReturns(s)

TeardownStep(x) == TeardownTakes(x) \/ TeardownDeletes(x) \/ TeardownClears(x)

ToolStep ==
    \/ PreloadServes \/ PreloadCancelled \/ Replace \/ Replaced
    \/ ToolAborted \/ ToolInterrupted

SandboxNext ==
    \/ StartPreload \/ UseSandbox \/ \E h \in Hardware : CreateSandbox(h)
    \/ \E m \in Makers : MakerStep(m)
    \/ \E s \in Spaces : ThreadStep(s)
    \/ \E x \in Teardowns : TeardownStep(x)
    \/ ToolStep \/ RouteTeardown \/ Interrupt
    \/ SessionDeleted \/ TaskCancelled \/ FinalTeardown \/ SessionOver
    \/ Crash \/ Restore

SandboxSpec == SandboxInit /\ [][SandboxNext]_sandboxVars

\* Calls of the Hub return or fail, and the event loop resumes what is ready.
SandboxFairness ==
    /\ \A m \in Makers : WF_sandboxVars(MakerStep(m))
    /\ \A s \in Spaces : WF_sandboxVars(ThreadStep(s))
    /\ \A x \in Teardowns : WF_sandboxVars(TeardownStep(x))
    /\ WF_sandboxVars(ToolStep)

SandboxFairSpec == SandboxSpec /\ SandboxFairness

-----------------------------------------------------------------------------
(* The session never holds a sandbox that is already deleted, whatever is  *)
(* torn down, cancelled or restored meanwhile (teardown_session_sandbox).  *)
HeldIsUp == sandbox # NoSpace => hub[sandbox] = "up"

(* A sandbox is never registered over another, which nobody would delete   *)
(* (the second look of _ensure_sandbox, under the owner's lock).           *)
NeverReplaced ==
    [][sandbox # NoSpace => sandbox' \in {sandbox, NoSpace}]_sandboxVars

(* A Space on the Hub is in somebody's hands, or recorded for the cleanup  *)
(* of the next restore, unless a call failed, a crash or an abandoned      *)
(* thread lost it, or a teardown cleared the record of its successor.      *)
OrphansAreExplained ==
    \A s \in Spaces : hub[s] = "up" =>
        \/ s \in excused
        \/ s = sandbox
        \/ s = record /\ exit \in {"no", "down"}
        \/ \E x \in Teardowns : held[x] = s
        \/ \E m \in Makers : Busy(m) /\ job[m] = s
        \/ thread[s] \in {"copy", "setup", "api"}

(* A call of a sandbox tool returns, however the preload, other teardowns  *)
(* and interrupts interfere (get_active_or_preloaded_sandbox).             *)
SandboxToolReturns == tool # "idle" ~> tool = "idle"
=============================================================================
