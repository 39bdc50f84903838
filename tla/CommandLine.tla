----------------------------- MODULE CommandLine -----------------------------
(***************************************************************************)
(* The command-line agent (agent/main.py) around submission_loop: the main *)
(* coroutine that prompts and waits for turn_complete_event, the listener  *)
(* that shows events and asks for approvals at the same terminal, Ctrl+C,  *)
(* the end of the process, and the headless mode. A turn is its ending.    *)
(***************************************************************************)
EXTENDS Naturals, Sequences, SequencesExt

CONSTANTS
    MaxTyped,       \* bound: operations the user types
    MaxAsks,        \* bound: requests for an approval
    MaxPresses      \* bound: Ctrl+C

ASSUME CommandLineAssumption == {MaxTyped, MaxAsks, MaxPresses} \subseteq Nat

Typed == {"input", "compact", "undo", "new", "resume"}
PromptEvents == {"turn_complete", "interrupted", "error", "done"}

VARIABLES
    terminal,       \* the main coroutine: wait, asked, closing, ended; or headless
    turnDone,       \* turn_complete_event
    listener,       \* get, asking or over
    submissions,    \* submission_queue
    feed,           \* event_queue
    loopAt,         \* submission_loop: ready, tools, turn or over
    isRunning,      \* session.is_running
    abort,          \* session._cancelled
    approval,       \* pending_approval: none, held, or only its snapshot
    awaiting,       \* waiting_for_tool_approval
    yolo,           \* config.yolo_mode
    armed,          \* the SIGINT handler is installed
    recent,         \* the last press is within CTRL_C_QUIT_WINDOW
    quitting,       \* interrupt_state["exit"]
    typed, asks, presses,
    \* history
    silent,         \* the last operation has no event that ends it
    doubled         \* an operation had two

loopVars == <<loopAt, isRunning, abort, approval, awaiting, asks, silent, doubled>>
keyVars == <<armed, recent, quitting, typed, presses>>
cliVars == <<terminal, turnDone, listener, submissions, feed, yolo, loopVars, keyVars>>

CommandLineInit ==
    /\ \/ terminal = "wait" /\ submissions = <<>> /\ yolo = FALSE
       \/ terminal = "headless" /\ submissions = <<"input">> /\ yolo = TRUE
    /\ turnDone = TRUE /\ listener = "get" /\ feed = <<>>
    /\ loopAt = "ready" /\ isRunning = TRUE /\ abort = FALSE
    /\ approval = "none" /\ awaiting = FALSE
    /\ armed = TRUE /\ recent = FALSE /\ quitting = FALSE
    /\ typed = 0 /\ asks = 0 /\ presses = 0
    /\ silent = FALSE /\ doubled = FALSE

-----------------------------------------------------------------------------
(***************************************************************************)
(* submission_loop and process_submission.                                 *)
(***************************************************************************)
Emits(es) == feed' = feed \o es
Takes(op) ==
    /\ loopAt = "ready" /\ submissions # <<>> /\ Head(submissions) = op
    /\ submissions' = Tail(submissions)
\* "while session.is_running".
NextOp == loopAt' = IF isRunning' THEN "ready" ELSE "over"
MainFrame == UNCHANGED <<terminal, turnDone, listener, yolo, keyVars>>

\* A message: what is pending is abandoned, unless the text is a typed approval.
TakesInput ==
    /\ Takes("input")
    /\ abort' = FALSE
    /\ \/ /\ loopAt' = "turn"
          /\ approval' = IF approval = "held" THEN "snapshot" ELSE approval
          /\ UNCHANGED feed
       \/ approval = "held" /\ Emits(<<"error">>) /\ UNCHANGED <<loopAt, approval>>
    /\ UNCHANGED <<isRunning, awaiting, asks, silent, doubled>> /\ MainFrame

TakesApproval ==
    /\ Takes("approval")
    /\ IF approval = "none"
       THEN Emits(<<"error">>) /\ UNCHANGED <<loopAt, abort, approval, awaiting>>
       ELSE /\ \/ loopAt' = "tools" /\ UNCHANGED abort
               \/ loopAt' = "turn" /\ abort' = FALSE
            /\ approval' = "none" /\ awaiting' = FALSE
            /\ UNCHANGED feed
    /\ UNCHANGED <<isRunning, asks, silent, doubled>> /\ MainFrame

\* exec_approval: the approved tools, and the turn that goes on; an interrupt that
\* comes after the tools is cleared by run_agent.
ApprovedToolsEnd ==
    /\ loopAt = "tools"
    /\ \/ abort /\ Emits(<<"interrupted">>) /\ loopAt' = "ready" /\ UNCHANGED abort
       \/ loopAt' = "turn" /\ abort' = FALSE /\ UNCHANGED feed
    /\ UNCHANGED <<submissions, isRunning, approval, awaiting, asks, silent, doubled>>
    /\ MainFrame

\* run_agent returns: AgentTurn says with which events. With failed, a compaction has
\* failed on the way.
AgentReturns(failed) ==
    LET first == IF failed THEN <<"session_terminated">> ELSE <<>>
    IN  /\ loopAt = "turn"
        /\ isRunning' = ~failed /\ NextOp
        /\ \/ abort /\ Emits(first \o <<"interrupted">>) /\ UNCHANGED <<silent, doubled>>
           \/ /\ abort /\ ~failed
              /\ Emits(<<"error", "interrupted">>) /\ doubled' = TRUE /\ UNCHANGED silent
           \/ ~abort /\ ~failed /\ Emits(<<"error">>) /\ UNCHANGED <<silent, doubled>>
           \/ /\ ~abort
              /\ Emits(IF awaiting THEN first ELSE Append(first, "turn_complete"))
              /\ silent' = awaiting /\ UNCHANGED doubled
        /\ UNCHANGED <<submissions, abort, approval, awaiting, asks>> /\ MainFrame

AgentAsksApproval ==
    /\ loopAt = "turn" /\ asks < MaxAsks
    /\ asks' = asks + 1
    /\ Emits(<<"approval_required">>)
    /\ approval' = "held" /\ awaiting' = TRUE
    /\ loopAt' = "ready"
    /\ UNCHANGED <<submissions, isRunning, abort, silent, doubled>> /\ MainFrame

\* _compact_and_notify sends "compacted" when the usage has changed, nothing else does.
TakesCompact ==
    /\ Takes("compact")
    /\ \/ \E es \in {<<>>, <<"compacted">>} : Emits(es) /\ silent' = TRUE /\ UNCHANGED isRunning
       \/ Emits(<<"session_terminated">>) /\ silent' = TRUE /\ isRunning' = FALSE
       \/ Emits(<<"error">>) /\ UNCHANGED <<silent, isRunning>>
    /\ NextOp
    /\ UNCHANGED <<abort, approval, awaiting, asks, doubled>> /\ MainFrame

TakesUndo ==
    /\ Takes("undo") /\ Emits(<<"done">>)
    /\ UNCHANGED loopVars /\ MainFrame

TakesNew ==
    /\ Takes("new")
    /\ \/ Emits(<<"error">>) /\ UNCHANGED <<approval, awaiting, abort>>
       \/ Emits(<<"done">>) /\ approval' = "none" /\ awaiting' = FALSE /\ abort' = FALSE
    /\ UNCHANGED <<loopAt, isRunning, asks, silent, doubled>> /\ MainFrame

\* restore_session_from_log forgets what is pending, not its snapshot nor the flag.
TakesResume ==
    /\ Takes("resume")
    /\ \/ Emits(<<"error">>) /\ UNCHANGED approval
       \/ Emits(<<"done">>) /\ approval' = IF approval = "held" THEN "snapshot" ELSE approval
    /\ UNCHANGED <<loopAt, isRunning, abort, awaiting, asks, silent, doubled>> /\ MainFrame

TakesShutdown ==
    /\ Takes("shutdown") /\ Emits(<<"shutdown">>)
    /\ isRunning' = FALSE /\ NextOp
    /\ UNCHANGED <<abort, approval, awaiting, asks, silent, doubled>> /\ MainFrame

CliLoop ==
    \/ TakesInput \/ TakesApproval \/ ApprovedToolsEnd
    \/ \E failed \in BOOLEAN : AgentReturns(failed)
    \/ AgentAsksApproval \/ TakesCompact \/ TakesUndo \/ TakesNew \/ TakesResume
    \/ TakesShutdown

-----------------------------------------------------------------------------
(***************************************************************************)
(* event_listener. A scheduled job is asked for even in yolo mode. Two     *)
(* prompts exclude each other: the second one raises.                      *)
(***************************************************************************)
ListenerTakes ==
    /\ listener = "get" /\ terminal \notin {"headless", "ended"}
    /\ feed # <<>> /\ feed' = Tail(feed)
    /\ turnDone' = (turnDone \/ Head(feed) \in PromptEvents)
    /\ listener' = IF Head(feed) = "shutdown" THEN "over" ELSE "get"
    /\ Head(feed) # "approval_required"
    /\ UNCHANGED <<terminal, submissions, yolo, loopVars, keyVars>>

Approves == submissions' = Append(submissions, "approval")

ListenerAsks ==
    /\ listener = "get" /\ terminal \notin {"headless", "ended"}
    /\ feed # <<>> /\ feed' = Tail(feed)
    /\ Head(feed) = "approval_required"
    /\ \/ yolo /\ Approves /\ UNCHANGED listener
       \/ /\ listener' = IF terminal = "asked" THEN "get" ELSE "asking"
          /\ UNCHANGED submissions
    /\ UNCHANGED <<terminal, turnDone, yolo, loopVars, keyVars>>

\* y, n, yolo or Ctrl+C; the prompt, when it ends, takes the SIGINT handler with it.
UserApproves ==
    /\ listener = "asking" /\ terminal # "ended"
    /\ listener' = "get"
    /\ Approves
    /\ yolo' \in {yolo, TRUE}
    /\ armed' = FALSE
    /\ UNCHANGED <<terminal, turnDone, feed, loopVars, recent, quitting, typed, presses>>

-----------------------------------------------------------------------------
(***************************************************************************)
(* main.                                                                   *)
(***************************************************************************)
Leaves == terminal' = "closing" /\ submissions' = Append(submissions, "shutdown")
\* The top of the loop installs the handler again.
Waits == terminal' = "wait" /\ armed' = TRUE

\* Mutant: the event stays set.
MainWakesUncleared ==
    /\ terminal = "wait" /\ turnDone
    /\ IF quitting THEN Leaves /\ UNCHANGED loopAt
       ELSE IF listener = "asking" THEN terminal' = "ended" /\ loopAt' = "over" /\ UNCHANGED submissions
       ELSE terminal' = "asked" /\ UNCHANGED <<submissions, loopAt>>
    /\ silent' = FALSE
    /\ UNCHANGED <<turnDone, listener, feed, yolo, isRunning, abort, approval, awaiting, asks,
                   doubled, keyVars>>

\* A prompt beside the listener's raises, and the process ends.
MainWakes ==
    /\ terminal = "wait" /\ turnDone
    /\ turnDone' = FALSE
    /\ IF quitting THEN Leaves /\ UNCHANGED loopAt
       ELSE IF listener = "asking" THEN terminal' = "ended" /\ loopAt' = "over" /\ UNCHANGED submissions
       ELSE terminal' = "asked" /\ UNCHANGED <<submissions, loopAt>>
    /\ silent' = FALSE
    /\ UNCHANGED <<listener, feed, yolo, isRunning, abort, approval, awaiting, asks, doubled,
                   keyVars>>

\* A message, or a slash command that is an operation.
UserTypes(op) ==
    /\ terminal = "asked" /\ typed < MaxTyped
    /\ typed' = typed + 1
    /\ submissions' = Append(submissions, op)
    /\ Waits /\ recent' = FALSE
    /\ UNCHANGED <<turnDone, listener, feed, yolo, loopVars, quitting, presses>>

\* Nothing, or a command handled on the spot: /yolo toggles.
UserTypesCommand ==
    /\ terminal = "asked"
    /\ yolo' \in BOOLEAN
    /\ turnDone' = TRUE
    /\ Waits /\ recent' = FALSE
    /\ UNCHANGED <<listener, submissions, feed, loopVars, quitting, typed, presses>>

UserQuits ==
    /\ terminal = "asked" /\ Leaves
    /\ UNCHANGED <<turnDone, listener, feed, yolo, loopVars, keyVars>>

PressAtPrompt ==
    /\ terminal = "asked" /\ presses < MaxPresses
    /\ presses' = presses + 1
    /\ IF recent
       THEN Leaves /\ UNCHANGED <<turnDone, recent, armed>>
       ELSE recent' = TRUE /\ turnDone' = TRUE /\ Waits /\ UNCHANGED submissions
    /\ UNCHANGED <<listener, feed, yolo, loopVars, quitting, typed>>

\* _on_sigint: the first press cancels the turn, the second within the window quits.
PressWhileWaiting ==
    /\ terminal = "wait" /\ listener # "asking" /\ armed /\ presses < MaxPresses
    /\ presses' = presses + 1
    /\ recent' = TRUE /\ quitting' = (quitting \/ recent) /\ turnDone' = (turnDone \/ recent)
    /\ abort' = TRUE
    /\ UNCHANGED <<terminal, listener, submissions, feed, yolo, loopAt, isRunning, approval,
                   awaiting, asks, silent, doubled, armed, typed>>

WindowPasses ==
    /\ recent /\ recent' = FALSE
    /\ UNCHANGED <<terminal, turnDone, listener, submissions, feed, yolo, loopVars, armed,
                   quitting, typed, presses>>

\* wait_for(agent_task, timeout=10.0); a task that takes longer is cancelled.
MainEnds ==
    /\ terminal = "closing"
    /\ terminal' = "ended" /\ loopAt' = "over"
    /\ UNCHANGED <<turnDone, listener, submissions, feed, yolo, isRunning, abort, approval,
                   awaiting, asks, silent, doubled, keyVars>>

\* headless_main takes the events itself, and approves all but scheduled jobs.
HeadlessTakes ==
    /\ terminal = "headless" /\ feed # <<>>
    /\ feed' = Tail(feed)
    /\ IF Head(feed) \in PromptEvents THEN Leaves
       ELSE /\ IF Head(feed) = "approval_required" THEN Approves ELSE UNCHANGED submissions
            /\ UNCHANGED terminal
    /\ UNCHANGED <<turnDone, listener, yolo, loopVars, keyVars>>

CommandLineNext ==
    \/ CliLoop \/ ListenerTakes \/ ListenerAsks \/ UserApproves
    \/ MainWakes \/ (\E op \in Typed : UserTypes(op)) \/ UserTypesCommand \/ UserQuits
    \/ PressAtPrompt \/ PressWhileWaiting \/ WindowPasses \/ MainEnds \/ HeadlessTakes

CommandLineSpec == CommandLineInit /\ [][CommandLineNext]_cliVars

\* The event loop resumes what is ready, and a turn ends (TurnsEnd of AgentTurn).
CommandLineFairness ==
    /\ WF_cliVars(CliLoop)
    /\ WF_cliVars(ListenerTakes \/ ListenerAsks)
    /\ WF_cliVars(MainWakes \/ MainEnds \/ HeadlessTakes)

CommandLineFairSpec == CommandLineSpec /\ CommandLineFairness

-----------------------------------------------------------------------------
CommandLineTypeOK ==
    /\ terminal \in {"wait", "asked", "closing", "ended", "headless"}
    /\ listener \in {"get", "asking", "over"}
    /\ Range(submissions) \subseteq Typed \cup {"approval", "shutdown"}
    /\ loopAt \in {"ready", "tools", "turn", "over"}
    /\ approval \in {"none", "held", "snapshot"}
    /\ typed <= MaxTyped /\ asks <= MaxAsks /\ presses <= MaxPresses

(* While the user is prompted, nothing is queued or handled and no ending  *)
(* is left to be shown, whatever he pressed or approved before: the next   *)
(* wait is for what he types (turn_complete_event). Unless an operation    *)
(* had two endings, of which the second counted for the next.              *)
PromptMeansIdle ==
    terminal = "asked" /\ ~doubled =>
        /\ submissions = <<>> /\ loopAt \in {"ready", "over"}
        /\ Range(feed) \cap PromptEvents = {}

\* The program owes the user the next prompt, or its end.
CliAwaits ==
    \/ /\ terminal = "wait" /\ listener # "asking" /\ ~silent
       /\ loopAt = "over" => Range(feed) \cap PromptEvents # {}
    \/ terminal \in {"closing", "headless"}

(* The prompt comes back after whatever was typed, and the program ends    *)
(* when it is told to, unless the operation ended without an event or the  *)
(* loop it went to is gone.                                                *)
PromptReturns == CliAwaits ~> ~CliAwaits
=============================================================================
