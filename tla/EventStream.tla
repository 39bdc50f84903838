---------------------------- MODULE EventStream ----------------------------
(***************************************************************************)
(* The events of one session on their way to the browser: send_event,      *)
(* which numbers an event in the log of its run, stores it and queues it;  *)
(* EventBroadcaster, which copies the queue to the subscribers; the        *)
(* streams of chat_sse and stream_session_run; and the status of the run,  *)
(* derived from its events (background_runs.py, session_persistence.py).   *)
(*                                                                         *)
(* There is one browser: streams do not act on one another.                *)
(***************************************************************************)
EXTENDS Naturals, Sequences, SequencesExt

CONSTANTS
    MaxEvents,      \* bound: events sent, the last one of each turn included
    MaxTurns,       \* bound: messages and decisions
    MaxDrops        \* bound: connections lost

ASSUME EventStreamAssumption ==
    {MaxEvents, MaxTurns, MaxDrops} \subseteq Nat

\* The loop, a tool that runs beside it, and the route of an interrupt.
Senders == {"loop", "tool", "route"}
\* The events that end a stream; "ended" is turn_complete, error or interrupted.
Endings == {"ended", "approval_required", "interrupted"}
Quiet == [at |-> "idle"]

VARIABLES
    turn, busy,         \* of the agent: the operation, and that it is handled
    run,                \* session.current_run_id
    sent,               \* events sent
    send,               \* where a send_event is suspended, and its event
    number,             \* the counter run_event:<run>
    log,                \* run_events of the current run
    events,             \* session.event_queue
    status,             \* of the current run
    stream,             \* of the browser: none, loading, live or closed
    replay,             \* what was loaded
    inbox,              \* its queue at the broadcaster
    last,               \* hf-agent-last-event in its local storage
    shown, drops,
    whole, begun,       \* history: this stream was open from its submission on;
                        \* the counter at the submission
    gap, overtaken      \* history: numbers broadcast between a load and its
                        \* subscription; stored or queued after a higher one

agentVars == <<turn, busy, run, sent, send, number, log, status>>
wireVars == <<events, inbox, replay>>
browserVars == <<stream, last, shown, drops, whole, begun>>
historyVars == <<gap, overtaken>>
streamVars == <<agentVars, wireVars, browserVars, historyVars>>

EventStreamInit ==
    /\ turn = 0 /\ busy = FALSE /\ run = 0 /\ sent = 0
    /\ send = [p \in Senders |-> Quiet]
    /\ number = 0 /\ log = {} /\ events = <<>> /\ status = "none"
    /\ stream = "none" /\ replay = <<>> /\ inbox = <<>>
    /\ last = 0 /\ shown = {} /\ drops = 0 /\ whole = FALSE /\ begun = 0
    /\ gap = {} /\ overtaken = {}

-----------------------------------------------------------------------------
(***************************************************************************)
(* send_event and append_run_event: a number, the document, the status of  *)
(* the run, each an await of the store, and then the queue.                *)
(***************************************************************************)
\* succeeded, failed, cancelled and interrupted are over; queued, running and
\* waiting_provider are active.  A tool's state may be any of both.
RunStatusFromEvent(kind) ==
    CASE kind \in {"ended", "interrupted"} -> {"over"}
      [] kind = "approval_required" -> {"waiting_approval"}
      [] kind = "progress" -> {"active", "over"}

Number(p, kind) ==
    /\ send[p] = Quiet
    /\ number' = number + 1
    /\ send' = [send EXCEPT ![p] = [at |-> "insert", kind |-> kind, seq |-> number + 1]]
    /\ UNCHANGED <<turn, run, log, status, wireVars, browserVars, historyVars>>

ToolEvent ==
    /\ busy /\ send["loop"] = Quiet
    /\ sent + 1 < MaxEvents
    /\ sent' = sent + 1
    /\ Number("tool", "progress")
    /\ UNCHANGED busy

LoopEventBesideTools ==
    /\ busy
    /\ sent < MaxEvents
    /\ sent' = sent + 1
    /\ \/ sent + 1 < MaxEvents /\ Number("loop", "progress") /\ UNCHANGED busy
       \/ busy' = FALSE /\ \E kind \in {"ended", "approval_required"} : Number("loop", kind)

\* The loop may send beside a tool, but its last event follows the tools.
LoopEvent ==
    /\ busy
    /\ sent < MaxEvents
    /\ sent' = sent + 1
    /\ \/ sent + 1 < MaxEvents /\ Number("loop", "progress") /\ UNCHANGED busy
       \/ /\ send["tool"] = Quiet
          /\ busy' = FALSE
          /\ \E kind \in {"ended", "approval_required"} : Number("loop", kind)

\* SessionManager.interrupt writes to the log only.
InterruptLogged ==
    /\ busy /\ \A e \in log : e.kind # "interrupted"
    /\ Number("route", "interrupted")
    /\ UNCHANGED <<busy, sent>>

Overtakes(p, others) ==
    IF \E e \in others : e.seq > send[p].seq THEN {send[p].seq} ELSE {}

Inserts(p) ==
    /\ send[p].at = "insert"
    /\ log' = log \cup {[seq |-> send[p].seq, kind |-> send[p].kind, queued |-> FALSE]}
    /\ overtaken' = overtaken \cup Overtakes(p, log)
    /\ send' = [send EXCEPT ![p].at = "update"]
    /\ UNCHANGED <<turn, busy, run, sent, number, status, wireVars, browserVars, gap>>

Queued(p) == IF p = "route" THEN events
             ELSE Append(events, [seq |-> send[p].seq, kind |-> send[p].kind])

\* The status is written, and the event goes to the broadcaster.
UpdatesAndPuts(p) ==
    /\ send[p].at = "update"
    /\ status' \in RunStatusFromEvent(send[p].kind)
    /\ events' = Queued(p)
    /\ send' = [send EXCEPT ![p] = Quiet]
    /\ overtaken' = overtaken \cup Overtakes(p, {e \in log : e.queued})
    /\ log' = {IF e.seq = send[p].seq THEN [e EXCEPT !.queued = p # "route"] ELSE e : e \in log}
    /\ UNCHANGED <<turn, busy, run, sent, number, inbox, replay, browserVars, gap>>

Subscribed == stream \in {"replaying", "live"}

\* EventBroadcaster.run: with no subscriber the event is dropped.
Broadcast ==
    /\ events # <<>>
    /\ events' = Tail(events)
    /\ inbox' = IF Subscribed THEN Append(inbox, Head(events)) ELSE inbox
    /\ gap' = IF stream = "loading" THEN gap \cup {Head(events).seq} ELSE gap
    /\ UNCHANGED <<agentVars, replay, browserVars, overtaken>>

-----------------------------------------------------------------------------
(***************************************************************************)
(* The browser: it sends a message or a decision and reads the stream that *)
(* answers; after a lost connection it asks for the stream of the run.     *)
(***************************************************************************)
SettledTurn ==
    /\ ~busy /\ events = <<>>
    /\ \A p \in Senders : send[p] = Quiet

SubmitTurn ==
    /\ SettledTurn
    /\ stream \in {"none", "closed"}
    /\ turn < MaxTurns /\ sent < MaxEvents
    /\ turn' = turn + 1
    /\ busy' = TRUE
    /\ whole' = TRUE
    /\ inbox' = <<>> /\ replay' = <<>>

SubmitThenSubscribe == SubmitTurn /\ stream' = "loading"

\* Subscribe BEFORE submitting.
Submit == SubmitTurn /\ stream' = "live"

LastEventKept == last

LastEventForgotten == 0

\* A message begins a run; the browser forgets the number it has seen.
SendMessage ==
    /\ Submit
    /\ run' = run + 1 /\ number' = 0 /\ log' = {} /\ status' = "active"
    /\ last' = LastEventForgotten /\ begun' = 0
    /\ shown' = {} /\ gap' = {} /\ overtaken' = {}
    /\ UNCHANGED <<send, sent, events, drops>>

\* A decision goes on with the run it belongs to.
SendDecision ==
    /\ Submit
    /\ status = "waiting_approval"
    /\ begun' = number
    /\ UNCHANGED <<run, number, log, status, last, shown, historyVars, send, sent, events, drops>>

ClosesUnlessAsked(e) == e.kind \in Endings \ {"approval_required"}

Closes(e) == e.kind \in Endings

\* event_generator: the stream is unsubscribed where it ends.
Shows(e, replayed, received) ==
    /\ shown' = shown \cup {e.seq}
    /\ last' = e.seq
    /\ IF Closes(e)
       THEN stream' = "closed" /\ replay' = <<>> /\ inbox' = <<>>
       ELSE /\ stream' = IF replayed = <<>> THEN "live" ELSE "replaying"
            /\ replay' = replayed /\ inbox' = received
    /\ UNCHANGED <<agentVars, events, drops, whole, begun, historyVars>>

ReadLive ==
    /\ stream = "live" /\ inbox # <<>>
    /\ Shows(Head(inbox), <<>>, Tail(inbox))

ReadReplay ==
    /\ stream = "replaying"
    /\ Shows(Head(replay), Tail(replay), inbox)

Drop ==
    /\ Subscribed /\ drops < MaxDrops
    /\ drops' = drops + 1
    /\ stream' = "none" /\ whole' = FALSE
    /\ inbox' = <<>> /\ replay' = <<>>
    /\ UNCHANGED <<agentVars, events, last, shown, begun, historyVars>>

\* The events after number n, in the order of their numbers: a set of one sequence.
Since(n) ==
    {s \in SetToSeqs({e \in log : e.seq > n}) :
        \A i, j \in DOMAIN s : i < j => s[i].seq < s[j].seq}

\* load_run_events_after, and the subscription once it has answered.
ReplayLoads ==
    /\ stream = "none" /\ turn > 0
    /\ replay' \in Since(last)
    /\ stream' = "loading"
    /\ UNCHANGED <<agentVars, events, inbox, last, shown, drops, whole, begun, historyVars>>

ReplaySubscribes ==
    /\ stream = "loading"
    /\ stream' = IF replay = <<>> THEN "live" ELSE "replaying"
    /\ UNCHANGED <<agentVars, wireVars, last, shown, drops, whole, begun, historyVars>>

Browser == ReadLive \/ ReadReplay \/ ReplayLoads \/ ReplaySubscribes

EventStreamNext ==
    \/ ToolEvent \/ LoopEvent \/ InterruptLogged
    \/ \E p \in Senders : Inserts(p) \/ UpdatesAndPuts(p)
    \/ Broadcast
    \/ SendMessage \/ SendDecision \/ Drop \/ Browser

EventStreamFairness ==
    /\ WF_streamVars(LoopEvent)
    /\ \A p \in Senders : WF_streamVars(Inserts(p) \/ UpdatesAndPuts(p))
    /\ WF_streamVars(Broadcast)
    /\ WF_streamVars(Browser)

EventStreamSpec == EventStreamInit /\ [][EventStreamNext]_streamVars
EventStreamFairSpec == EventStreamSpec /\ EventStreamFairness

-----------------------------------------------------------------------------
EventStreamTypeOK ==
    /\ turn \in 0 .. MaxTurns /\ run \in 0 .. turn
    /\ sent \in 0 .. MaxEvents /\ drops \in 0 .. MaxDrops
    /\ status \in {"none", "active", "over", "waiting_approval"}
    /\ stream \in {"none", "loading", "replaying", "live", "closed"}
    /\ \A e \in log : e.seq \in 1 .. number
    /\ shown \cup gap \cup overtaken \subseteq 1 .. number /\ last \in 0 .. number

(* The stream that answers a submission shows every event of its turn when *)
(* the connection holds (chat_sse subscribes before it submits).           *)
ChatStreamComplete ==
    stream = "closed" /\ whole =>
        \A e \in log : e.queued /\ e.seq > begun => e.seq \in shown

(* A stream that ends has shown, across reconnections, every event up to   *)
(* the one it ends with: what is missing was broadcast while the log was   *)
(* read, or stored or queued later than a higher number.                   *)
DropsAreExplained ==
    stream = "closed" =>
        \A e \in log : e.queued /\ e.seq > begun /\ e.seq <= last
                           => e.seq \in shown \cup gap \cup overtaken

(* When a turn is over and its events are stored, so is its run, or it     *)
(* waits for a decision: no write of a tool or of an interrupt comes last  *)
(* and revives it (_apply_persisted_run_event_update).                     *)
SettledRunIsOver ==
    SettledTurn /\ turn > 0 => status \in {"over", "waiting_approval"}

(* A stream, once it is live, ends, unless what would have ended it was    *)
(* broadcast while its log was read (_TERMINAL_EVENTS).                    *)
StreamsClose == stream = "live" ~> (stream # "live" \/ gap # {})
=============================================================================
