------------------------- MODULE EventStreamProofs -------------------------
(***************************************************************************)
(* Proofs about the events of a session: a stream that stays connected     *)
(* shows every event of its turn, and a turn whose events are stored is    *)
(* over, or waits for a decision. They hold for every number of events,    *)
(* turns and lost connections.                                             *)
(*                                                                         *)
(* Both rest on who may still send: once the loop has its last event       *)
(* underway, no tool sends any more, and an interrupt does not use the     *)
(* queue, so an event that ends a stream is the last one on the way to it. *)
(*                                                                         *)
(* A stream that lost its connection replays the log from the last number  *)
(* it has shown. That what it drops is explained rests on what is due: the *)
(* numbers it must still show are in the replay or on the way, in the      *)
(* order in which they will pass the filter (ReplayInv).                   *)
(***************************************************************************)
EXTENDS EventStream, SequenceTheorems, FunctionTheorems, FiniteSetTheorems, TLAPS

Kinds == {"progress", "ended", "approval_required", "interrupted"}
EventType == [seq: Nat, kind: Kinds]
LogType == [seq: Nat, kind: Kinds, queued: BOOLEAN]
SendType == {Quiet} \cup [at: {"insert", "update"}, kind: Kinds, seq: Nat]

StreamTypes ==
    /\ turn \in Nat /\ number \in Nat /\ begun \in Nat
    /\ send \in [Senders -> SendType]
    /\ log \subseteq LogType
    /\ events \in Seq(EventType) /\ inbox \in Seq(EventType)

\* Numbers are given out from 1 to number.
Numbered ==
    /\ \A e \in log : e.seq <= number
    /\ \A p \in Senders : send[p] # Quiet => send[p].seq <= number

\* Who may send what: after the turn only the last event of the loop is underway, and
\* the event of an interrupt, which is not queued.
SendersInv ==
    /\ send["tool"] # Quiet => send["tool"].kind = "progress"
    /\ send["route"] # Quiet => send["route"].kind = "interrupted"
    /\ send["loop"] # Quiet =>
           send["loop"].kind \in IF busy THEN {"progress"} ELSE {"ended", "approval_required"}
    /\ ~busy => send["tool"] = Quiet

LoopQuiet == ~busy /\ send["loop"] = Quiet

\* When the loop is done with a turn, so is the run.
RunInv == turn > 0 /\ LoopQuiet => status \in {"over", "waiting_approval"}

Has(s, n) == \E i \in 1 .. Len(s) : s[i].seq = n
HasEnding(s) == \E i \in 1 .. Len(s) : s[i].kind \in Endings
EndsAtMost(s) == \A i \in 1 .. Len(s) : s[i].kind \in Endings => i = Len(s)

\* An event that ends a stream is the last one on the way.
EndingsInv ==
    /\ EndsAtMost(events) /\ EndsAtMost(inbox)
    /\ HasEnding(events) \/ HasEnding(inbox) => LoopQuiet
    /\ HasEnding(inbox) => events = <<>>

\* A stream that was open from the submission on has, shown or on the way to it, all that
\* was queued since.
WholeInv ==
    /\ whole => stream \in {"live", "closed"}
    /\ whole => \A e \in log : e.queued /\ e.seq > begun =>
                    e.seq \in shown \/ Has(inbox, e.seq) \/ Has(events, e.seq)
    /\ whole /\ stream = "closed" => LoopQuiet /\ events = <<>> /\ inbox = <<>>

StreamInv ==
    StreamTypes /\ Numbered /\ SendersInv /\ RunInv /\ EndingsInv /\ WholeInv

-----------------------------------------------------------------------------
(***************************************************************************)
(* The queue of the session and the subscriber's are sequences of events.  *)
(***************************************************************************)

\* Nothing is in an empty queue.
LEMMA EmptyQueue ==
    /\ <<>> \in Seq(EventType)
    /\ \A n : ~Has(<<>>, n)
    /\ ~HasEnding(<<>>) /\ EndsAtMost(<<>>)
  BY EmptySeq DEF Has, HasEnding, EndsAtMost

\* The new event is in the queue with all the others; where no other ends a stream, an
\* ending is the last.
LEMMA Appended ==
    ASSUME NEW s \in Seq(EventType), NEW e \in EventType
    PROVE  /\ Append(s, e) \in Seq(EventType)
           /\ \A n : Has(Append(s, e), n) <=> Has(s, n) \/ e.seq = n
           /\ HasEnding(Append(s, e)) <=> HasEnding(s) \/ e.kind \in Endings
           /\ ~HasEnding(s) => EndsAtMost(Append(s, e))
<1> DEFINE t == Append(s, e)
<1>1. /\ t \in Seq(EventType) /\ Len(s) \in Nat /\ Len(t) = Len(s) + 1
      /\ \A i \in 1 .. Len(s) : t[i] = s[i]
      /\ t[Len(s) + 1] = e
  BY AppendProperties, LenProperties
<1>2. 1 .. Len(t) = 1 .. Len(s) \cup {Len(t)}
  BY <1>1
<1> HIDE DEF t
<1>3. \A n : Has(t, n) <=> Has(s, n) \/ e.seq = n
  BY <1>1, <1>2 DEF Has
<1>4. HasEnding(t) <=> HasEnding(s) \/ e.kind \in Endings
  BY <1>1, <1>2 DEF HasEnding
<1>5. ~HasEnding(s) => EndsAtMost(t)
  BY <1>1, <1>2 DEF HasEnding, EndsAtMost
<1> QED  BY <1>1, <1>3, <1>4, <1>5 DEF t

\* What is taken from a queue is its head; an ending leaves nothing behind it.
LEMMA Taken ==
    ASSUME NEW s \in Seq(EventType), s # <<>>
    PROVE  /\ Head(s) \in EventType /\ Tail(s) \in Seq(EventType)
           /\ \A n : Has(s, n) <=> Has(Tail(s), n) \/ Head(s).seq = n
           /\ HasEnding(s) <=> HasEnding(Tail(s)) \/ Head(s).kind \in Endings
           /\ EndsAtMost(s) => /\ EndsAtMost(Tail(s))
                               /\ Head(s).kind \in Endings => Tail(s) = <<>>
<1> DEFINE t == Tail(s)
<1>1. /\ Head(s) \in EventType /\ Head(s) = s[1] /\ t \in Seq(EventType)
      /\ Len(t) \in Nat /\ Len(s) = Len(t) + 1
      /\ \A i \in 1 .. Len(t) : t[i] = s[i + 1]
  BY HeadTailProperties, LenProperties, EmptySeq
<1>2. /\ 1 \in 1 .. Len(s)
      /\ \A i \in 1 .. Len(t) : i + 1 \in 1 .. Len(s)
      /\ \A i \in 1 .. Len(s) : i # 1 => i - 1 \in 1 .. Len(t) /\ s[i] = t[i - 1]
  BY <1>1
<1>3. t # <<>> => Len(s) # 1
  BY <1>1, EmptySeq
<1> HIDE DEF t
<1>4. \A n : Has(s, n) <=> Has(t, n) \/ Head(s).seq = n
  BY <1>1, <1>2 DEF Has
<1>5. HasEnding(s) <=> HasEnding(t) \/ Head(s).kind \in Endings
  BY <1>1, <1>2 DEF HasEnding
<1>6. EndsAtMost(s) => EndsAtMost(t) /\ (Head(s).kind \in Endings => t = <<>>)
  BY <1>1, <1>2, <1>3 DEF EndsAtMost
<1> QED  BY <1>1, <1>4, <1>5, <1>6 DEF t

-----------------------------------------------------------------------------
(***************************************************************************)
(* The initial state, and the steps.                                       *)
(***************************************************************************)
\* Nothing was sent.
LEMMA StreamStarts == EventStreamInit => StreamInv
  BY EmptyQueue DEF EventStreamInit, StreamInv, StreamTypes, Numbered, SendersInv, RunInv,
     EndingsInv, WholeInv, LoopQuiet, Quiet, SendType, Senders

\* An event is numbered while its turn is underway, the last one of the loop when no tool
\* sends any more.
LEMMA NumberKeeps ==
    ASSUME StreamInv, busy,
           NEW p \in Senders, NEW kind \in Kinds, Number(p, kind),
           p = "loop" /\ ~busy' => send["tool"] = Quiet,
           p # "loop" => busy',
           kind \in CASE p = "tool" -> {"progress"}
                     [] p = "route" -> {"interrupted"}
                     [] p = "loop" -> IF busy' THEN {"progress"}
                                      ELSE {"ended", "approval_required"}
    PROVE  StreamInv'
<1> USE DEF StreamInv
<1>1. StreamTypes'
  BY DEF Number, StreamTypes, Senders, Quiet, SendType, wireVars, browserVars
<1>2. Numbered'
  BY DEF Number, Numbered, StreamTypes, Senders, Quiet, SendType, Endings, Kinds, EventType,
     LogType
<1>3. SendersInv'
  BY DEF Number, SendersInv
<1>4. RunInv'
  BY DEF Number, RunInv, LoopQuiet, StreamTypes, Senders, Quiet, SendType
<1>5. EndingsInv'
  BY DEF Number, EndingsInv, LoopQuiet, wireVars
<1>6. WholeInv'
  BY DEF Number, WholeInv, LoopQuiet, wireVars, browserVars
<1> QED  BY <1>1, <1>2, <1>3, <1>4, <1>5, <1>6

\* The loop, a tool beside it and an interrupt number an event of theirs.
LEMMA SendersKeep ==
    ASSUME StreamInv, ToolEvent \/ LoopEvent \/ InterruptLogged
    PROVE  StreamInv'
<1>1. CASE ToolEvent
  BY <1>1, NumberKeeps DEF ToolEvent, Senders, Kinds
<1>2. CASE LoopEvent
  <2>1. CASE Number("loop", "progress") /\ UNCHANGED busy
    BY <1>2, <2>1, NumberKeeps DEF LoopEvent, Senders, Kinds
  <2>2. ASSUME NEW kind \in {"ended", "approval_required"}, send["tool"] = Quiet,
               busy' = FALSE, Number("loop", kind)
        PROVE  StreamInv'
    BY <1>2, <2>2, NumberKeeps DEF LoopEvent, Senders, Kinds
  <2> QED  BY <1>2, <2>1, <2>2 DEF LoopEvent
<1>3. CASE InterruptLogged
  BY <1>3, NumberKeeps DEF InterruptLogged, Senders, Kinds
<1> QED  BY <1>1, <1>2, <1>3

\* The document of the event does not count as queued.
LEMMA InsertsKeeps ==
    ASSUME StreamInv, NEW p \in Senders, Inserts(p)
    PROVE  StreamInv'
<1> USE DEF StreamInv
<1>1. send[p] \in [at: {"insert", "update"}, kind: Kinds, seq: Nat]
  BY DEF StreamTypes, Inserts, SendType, Quiet
<1>2. /\ [send[p] EXCEPT !.at = "update"] \in SendType
      /\ [seq |-> send[p].seq, kind |-> send[p].kind, queued |-> FALSE] \in LogType
  BY <1>1 DEF SendType, LogType
<1>3. StreamTypes'
  <2>1. send' \in [Senders -> SendType]
    BY <1>1, <1>2 DEF Inserts, StreamTypes, SendType, Quiet
  <2>2. log' \subseteq LogType
    BY <1>2 DEF Inserts, StreamTypes
  <2>3. events' \in Seq(EventType) /\ inbox' \in Seq(EventType)
    BY DEF Inserts, StreamTypes, wireVars
  <2> QED  BY <2>1, <2>2, <2>3 DEF Inserts, StreamTypes, agentVars, browserVars
<1>4. Numbered'
  BY DEF Inserts, Numbered, StreamTypes, Senders, Quiet, SendType
<1>5. SendersInv'
  BY DEF Inserts, SendersInv, StreamTypes, Senders, Quiet, SendType
<1>6. RunInv'
  BY DEF Inserts, RunInv, LoopQuiet, StreamTypes, Senders, Quiet, SendType
<1>7. EndingsInv'
  BY <1>1, <1>2 DEF Inserts, EndingsInv, LoopQuiet, StreamTypes, Senders, Quiet, SendType, wireVars
<1>8. WholeInv'
  BY <1>1, <1>2 DEF Inserts, WholeInv, LoopQuiet, StreamTypes, Senders, Quiet, SendType, wireVars,
     browserVars
<1> QED  BY <1>3, <1>4, <1>5, <1>6, <1>7, <1>8

\* The event is the last of the queue: the loop is done with it, or it ends no stream.
LEMMA UpdatesAndPutsKeeps ==
    ASSUME StreamInv, NEW p \in Senders, UpdatesAndPuts(p)
    PROVE  StreamInv'
<1> USE DEF StreamInv
<1> DEFINE new == [seq |-> send[p].seq, kind |-> send[p].kind]
<1>1. send[p].kind \in Kinds /\ send[p].seq \in Nat /\ new \in EventType
  BY DEF StreamTypes, UpdatesAndPuts, EventType, SendType, Quiet
<1>2. /\ Append(events, new) \in Seq(EventType)
      /\ \A n : Has(Append(events, new), n) <=> Has(events, n) \/ new.seq = n
      /\ HasEnding(Append(events, new)) <=> HasEnding(events) \/ new.kind \in Endings
      /\ ~HasEnding(events) => EndsAtMost(Append(events, new))
  BY <1>1, Appended DEF StreamTypes
<1>3. ASSUME NEW e \in log'
      PROVE  /\ e \in LogType
             /\ e.queued /\ e.seq # send[p].seq => e \in log
             /\ e.queued /\ e.seq = send[p].seq => p # "route"
             /\ e.seq <= number
  <2>1. PICK d \in log : e = IF d.seq = send[p].seq THEN [d EXCEPT !.queued = p # "route"] ELSE d
    BY DEF UpdatesAndPuts
  <2>2. d \in LogType /\ d.seq <= number
    BY DEF StreamTypes, Numbered
  <2>3. e \in LogType /\ e.seq = d.seq
    BY <2>1, <2>2 DEF LogType, Kinds
  <2>4. e.seq = send[p].seq => e.queued = (p # "route")
    BY <2>1, <2>2 DEF LogType
  <2> QED  BY <2>1, <2>2, <2>3, <2>4
<1>4. StreamTypes'
  <2>1. send' \in [Senders -> SendType]
    BY <1>1, <1>2, <1>3 DEF UpdatesAndPuts, Queued, RunStatusFromEvent, StreamTypes, SendType,
       Quiet
  <2>2. log' \subseteq LogType
    BY <1>3
  <2>3. events' \in Seq(EventType) /\ inbox' \in Seq(EventType)
    BY <1>2 DEF UpdatesAndPuts, Queued, StreamTypes, wireVars
  <2> QED  BY <2>1, <2>2, <2>3 DEF UpdatesAndPuts, StreamTypes, agentVars, browserVars
<1>5. Numbered'
  BY <1>3 DEF UpdatesAndPuts, Numbered
<1>6. SendersInv'
  BY DEF UpdatesAndPuts, Queued, SendersInv
<1>7. RunInv'
  BY DEF UpdatesAndPuts, Queued, RunStatusFromEvent, RunInv, LoopQuiet, StreamTypes, Senders,
     Quiet, SendType, Endings, Kinds, EventType, LogType, SendersInv
<1>8. EndingsInv'
  BY <1>1, <1>2, <1>3 DEF UpdatesAndPuts, Queued, RunStatusFromEvent, EndingsInv, LoopQuiet,
     StreamTypes, Senders, Quiet, SendType, Endings, Kinds, EventType, LogType, SendersInv
<1>9. WholeInv'
  BY <1>1, <1>2, <1>3 DEF UpdatesAndPuts, Queued, RunStatusFromEvent, WholeInv, LoopQuiet,
     StreamTypes, Senders, Quiet, SendType, Endings, Kinds, EventType, LogType, SendersInv,
     Numbered, EndingsInv, browserVars
<1> QED  BY <1>4, <1>5, <1>6, <1>7, <1>8, <1>9

\* The head of the queue goes to the subscriber; an ending leaves the queue empty.
LEMMA BroadcastKeeps ==
    ASSUME StreamInv, Broadcast
    PROVE  StreamInv'
<1> USE DEF StreamInv
<1>1. /\ Head(events) \in EventType /\ Tail(events) \in Seq(EventType)
      /\ \A n : Has(events, n) <=> Has(Tail(events), n) \/ Head(events).seq = n
      /\ HasEnding(events) <=> HasEnding(Tail(events)) \/ Head(events).kind \in Endings
      /\ EndsAtMost(events) => /\ EndsAtMost(Tail(events))
                               /\ Head(events).kind \in Endings => Tail(events) = <<>>
  BY Taken DEF StreamTypes, Broadcast
<1> DEFINE received == Append(inbox, Head(events))
<1>2. /\ received \in Seq(EventType)
      /\ \A n : Has(received, n) <=> Has(inbox, n) \/ Head(events).seq = n
      /\ HasEnding(received) <=> HasEnding(inbox) \/ Head(events).kind \in Endings
      /\ ~HasEnding(inbox) => EndsAtMost(received)
  BY <1>1, Appended DEF StreamTypes
<1> HIDE DEF received
<1>3. StreamTypes'
  BY <1>1, <1>2 DEF Broadcast, Subscribed, StreamTypes, agentVars, browserVars, received
<1>4. Numbered'
  BY DEF Broadcast, Subscribed, Numbered, agentVars, received
<1>5. SendersInv'
  BY DEF Broadcast, Subscribed, SendersInv, agentVars, received
<1>6. RunInv'
  BY DEF Broadcast, Subscribed, RunInv, LoopQuiet, agentVars, received
<1>7. EndingsInv'
  BY <1>1, <1>2 DEF Broadcast, Subscribed, EndingsInv, LoopQuiet, agentVars, received
<1>8. WholeInv'
  BY <1>1, <1>2 DEF Broadcast, Subscribed, WholeInv, LoopQuiet, agentVars, browserVars, received
<1> QED  BY <1>3, <1>4, <1>5, <1>6, <1>7, <1>8

\* Every queue is empty, and so is the log of the new run.
LEMMA SendMessageKeeps ==
    ASSUME StreamInv, SendMessage
    PROVE  StreamInv'
<1> USE DEF StreamInv
<1>1. StreamTypes'
  BY EmptyQueue DEF SendMessage, Submit, SubmitTurn, SettledTurn, StreamTypes
<1>2. Numbered'
  BY DEF SendMessage, Submit, SubmitTurn, SettledTurn, Numbered
<1>3. SendersInv'
  BY DEF SendMessage, Submit, SubmitTurn, SettledTurn, SendersInv, StreamTypes, Senders, Quiet,
     SendType
<1>4. RunInv'
  BY DEF SendMessage, Submit, SubmitTurn, SettledTurn, RunInv, LoopQuiet
<1>5. EndingsInv'
  BY EmptyQueue DEF SendMessage, Submit, SubmitTurn, SettledTurn, EndingsInv, LoopQuiet
<1>6. WholeInv'
  BY EmptyQueue DEF SendMessage, Submit, SubmitTurn, SettledTurn, WholeInv, LoopQuiet
<1> QED  BY <1>1, <1>2, <1>3, <1>4, <1>5, <1>6

\* Every queue is empty, and what is logged is not after the submission.
LEMMA SendDecisionKeeps ==
    ASSUME StreamInv, SendDecision
    PROVE  StreamInv'
<1> USE DEF StreamInv
<1>1. StreamTypes'
  BY EmptyQueue DEF SendDecision, Submit, SubmitTurn, SettledTurn, StreamTypes
<1>2. Numbered'
  BY DEF SendDecision, Submit, SubmitTurn, SettledTurn, Numbered
<1>3. SendersInv'
  BY DEF SendDecision, Submit, SubmitTurn, SettledTurn, SendersInv, StreamTypes, Senders, Quiet,
     SendType
<1>4. RunInv'
  BY DEF SendDecision, Submit, SubmitTurn, SettledTurn, RunInv, LoopQuiet
<1>5. EndingsInv'
  BY EmptyQueue DEF SendDecision, Submit, SubmitTurn, SettledTurn, EndingsInv, LoopQuiet
<1>6. WholeInv'
  BY EmptyQueue DEF SendDecision, Submit, SubmitTurn, SettledTurn, WholeInv, LoopQuiet,
     StreamTypes, Senders, Quiet, SendType, Endings, Kinds, EventType, LogType, SendersInv,
     Numbered, EndingsInv
<1> QED  BY <1>1, <1>2, <1>3, <1>4, <1>5, <1>6

\* What is shown leaves the queue; an ending was the only event in it.
LEMMA ReadLiveKeeps ==
    ASSUME StreamInv, ReadLive
    PROVE  StreamInv'
<1> USE DEF StreamInv
<1>1. /\ Head(inbox) \in EventType /\ Tail(inbox) \in Seq(EventType)
      /\ \A n : Has(inbox, n) <=> Has(Tail(inbox), n) \/ Head(inbox).seq = n
      /\ HasEnding(inbox) <=> HasEnding(Tail(inbox)) \/ Head(inbox).kind \in Endings
      /\ EndsAtMost(inbox) => /\ EndsAtMost(Tail(inbox))
                              /\ Head(inbox).kind \in Endings => Tail(inbox) = <<>>
  BY Taken DEF StreamTypes, ReadLive
<1>2. StreamTypes'
  BY <1>1, EmptyQueue DEF ReadLive, Shows, Closes, StreamTypes, agentVars
<1>3. Numbered'
  BY DEF ReadLive, Shows, Closes, Numbered, agentVars
<1>4. SendersInv'
  BY DEF ReadLive, Shows, Closes, SendersInv, agentVars
<1>5. RunInv'
  BY DEF ReadLive, Shows, Closes, RunInv, LoopQuiet, agentVars
<1>6. EndingsInv'
  BY <1>1, EmptyQueue DEF ReadLive, Shows, Closes, EndingsInv, LoopQuiet, agentVars
<1>7. WholeInv'
  <2>1. /\ shown' = shown \cup {Head(inbox).seq}
        /\ UNCHANGED <<log, events, whole, begun>> /\ (LoopQuiet' <=> LoopQuiet)
        /\ stream = "live"
    BY DEF ReadLive, Shows, LoopQuiet, agentVars
  <2>2. CASE Closes(Head(inbox))
    <3>1. stream' = "closed" /\ inbox' = <<>>
      BY <2>2 DEF ReadLive, Shows
    <3>2. HasEnding(inbox) /\ Tail(inbox) = <<>>
      BY <1>1, <2>2 DEF Closes, EndingsInv
    <3>3. LoopQuiet /\ events = <<>>
      BY <3>2 DEF EndingsInv
    <3>4. \A n : Has(inbox, n) => n = Head(inbox).seq
      BY <1>1, <3>2, EmptyQueue
    <3>5. whole => \A e \in log : e.queued /\ e.seq > begun => e.seq \in shown'
      BY <2>1, <3>3, <3>4, EmptyQueue DEF WholeInv
    <3> QED  BY <2>1, <3>1, <3>3, <3>5 DEF WholeInv
  <2>3. CASE ~ Closes(Head(inbox))
    <3>1. stream' = "live" /\ inbox' = Tail(inbox)
      BY <2>3 DEF ReadLive, Shows
    <3>2. whole => \A e \in log : e.queued /\ e.seq > begun =>
                       e.seq \in shown' \/ Has(inbox', e.seq) \/ Has(events, e.seq)
      BY <1>1, <2>1, <3>1 DEF WholeInv
    <3> QED  BY <2>1, <3>1, <3>2 DEF WholeInv
  <2> QED  BY <2>2, <2>3
<1> QED  BY <1>2, <1>3, <1>4, <1>5, <1>6, <1>7

\* A stream with a replay was not open from the submission on.
LEMMA ReadReplayKeeps ==
    ASSUME StreamInv, ReadReplay
    PROVE  StreamInv'
<1> USE DEF StreamInv
<1>1. StreamTypes'
  BY EmptyQueue DEF ReadReplay, Shows, Closes, StreamTypes, agentVars
<1>2. Numbered'
  BY DEF ReadReplay, Shows, Closes, Numbered, agentVars
<1>3. SendersInv'
  BY DEF ReadReplay, Shows, Closes, SendersInv, agentVars
<1>4. RunInv'
  BY DEF ReadReplay, Shows, Closes, RunInv, LoopQuiet, agentVars
<1>5. EndingsInv'
  BY EmptyQueue DEF ReadReplay, Shows, Closes, EndingsInv, LoopQuiet, agentVars
<1>6. WholeInv'
  BY EmptyQueue DEF ReadReplay, Shows, Closes, WholeInv, LoopQuiet, agentVars
<1> QED  BY <1>1, <1>2, <1>3, <1>4, <1>5, <1>6

\* The queue of the subscriber is gone, and the next stream is not whole.
LEMMA DropKeeps ==
    ASSUME StreamInv, Drop
    PROVE  StreamInv'
<1> USE DEF StreamInv
<1>1. StreamTypes'
  BY EmptyQueue DEF Drop, Subscribed, StreamTypes, agentVars
<1>2. Numbered'
  BY DEF Drop, Subscribed, Numbered, agentVars
<1>3. SendersInv'
  BY DEF Drop, Subscribed, SendersInv, agentVars
<1>4. RunInv'
  BY DEF Drop, Subscribed, RunInv, LoopQuiet, agentVars
<1>5. EndingsInv'
  BY EmptyQueue DEF Drop, Subscribed, EndingsInv, LoopQuiet, agentVars
<1>6. WholeInv'
  BY EmptyQueue DEF Drop, Subscribed, WholeInv, LoopQuiet, agentVars
<1> QED  BY <1>1, <1>2, <1>3, <1>4, <1>5, <1>6

\* Nothing but the replay changes.
LEMMA ReplayLoadsKeeps ==
    ASSUME StreamInv, ReplayLoads
    PROVE  StreamInv'
<1> USE DEF StreamInv
<1>1. StreamTypes'
  BY DEF ReplayLoads, StreamTypes, agentVars
<1>2. Numbered'
  BY DEF ReplayLoads, Numbered, agentVars
<1>3. SendersInv'
  BY DEF ReplayLoads, SendersInv, agentVars
<1>4. RunInv'
  BY DEF ReplayLoads, RunInv, LoopQuiet, agentVars
<1>5. EndingsInv'
  BY DEF ReplayLoads, EndingsInv, LoopQuiet, agentVars
<1>6. WholeInv'
  BY DEF ReplayLoads, WholeInv, LoopQuiet, agentVars
<1> QED  BY <1>1, <1>2, <1>3, <1>4, <1>5, <1>6

\* Nothing but the stream changes.
LEMMA ReplaySubscribesKeeps ==
    ASSUME StreamInv, ReplaySubscribes
    PROVE  StreamInv'
<1> USE DEF StreamInv
<1>1. StreamTypes'
  BY DEF ReplaySubscribes, StreamTypes, agentVars, wireVars
<1>2. Numbered'
  BY DEF ReplaySubscribes, Numbered, agentVars
<1>3. SendersInv'
  BY DEF ReplaySubscribes, SendersInv, agentVars
<1>4. RunInv'
  BY DEF ReplaySubscribes, RunInv, LoopQuiet, agentVars
<1>5. EndingsInv'
  BY DEF ReplaySubscribes, EndingsInv, LoopQuiet, agentVars, wireVars
<1>6. WholeInv'
  BY DEF ReplaySubscribes, WholeInv, LoopQuiet, agentVars, wireVars
<1> QED  BY <1>1, <1>2, <1>3, <1>4, <1>5, <1>6

\* Nothing happens.
LEMMA StreamStutters ==
    ASSUME StreamInv, UNCHANGED streamVars
    PROVE  StreamInv'
  BY DEF StreamInv, StreamTypes, Numbered, SendersInv, RunInv, EndingsInv, WholeInv, LoopQuiet,
     Has,
     HasEnding, EndsAtMost, streamVars, agentVars, wireVars, browserVars, historyVars

-----------------------------------------------------------------------------
(* The invariant of the events holds in every state.                       *)
THEOREM StreamInvariance == EventStreamSpec => []StreamInv
<1>1. ASSUME StreamInv, EventStreamNext PROVE StreamInv'
  BY <1>1, SendersKeep, InsertsKeeps, UpdatesAndPutsKeeps, BroadcastKeeps, SendMessageKeeps,
     SendDecisionKeeps, DropKeeps, ReadLiveKeeps, ReadReplayKeeps, ReplayLoadsKeeps,
     ReplaySubscribesKeeps DEF EventStreamNext, Browser
<1> QED  BY <1>1, StreamStarts, StreamStutters, PTL DEF EventStreamSpec

(* The stream that answers a submission shows every event of its turn when *)
(* the connection holds (chat_sse subscribes before it submits): it closes *)
(* on an event that ends it, and nothing is on its way behind that one.    *)
THEOREM WholeStreamsShowAll == EventStreamSpec => []ChatStreamComplete
<1>1. StreamInv => ChatStreamComplete
  BY EmptyQueue DEF StreamInv, WholeInv, ChatStreamComplete, Has
<1> QED  BY <1>1, StreamInvariance, PTL

(* When a turn is over and its events are stored, so is its run, or it     *)
(* waits for a decision (_apply_persisted_run_event_update): the last      *)
(* status is that of the loop's last event or of an interrupt.             *)
THEOREM RunsSettle == EventStreamSpec => []SettledRunIsOver
<1>1. StreamInv => SettledRunIsOver
  BY DEF StreamInv, RunInv, LoopQuiet, SettledTurn, Senders, SettledRunIsOver
<1> QED  BY <1>1, StreamInvariance, PTL

-----------------------------------------------------------------------------
(***************************************************************************)
(* What a stream has missed.  A number is due when the stream must still   *)
(* show it: it is in the log, after the submission, and nothing explains   *)
(* its absence; an event that is not queued yet is due unless a higher one *)
(* is, for then it will have been overtaken.                               *)
(***************************************************************************)
Logged(n) == \E e \in log : e.seq = n
IsQueued(n) == \E e \in log : e.seq = n /\ e.queued
Due(n) ==
    /\ Logged(n) /\ n > begun /\ n \notin shown \cup gap \cup overtaken
    /\ IsQueued(n) \/ \A e \in log : e.queued => e.seq < n

\* Each number is higher than those before it, but for some late ones.
Ascending(s, late) ==
    \A i, j \in 1 .. Len(s) : i < j => s[i].seq < s[j].seq \/ s[j].seq \in late

LoggedInv ==
    /\ IsFiniteSet(log)
    /\ replay \in Seq(LogType)
    /\ \A e \in log : e.seq \in 1 .. number
    /\ last \in Nat /\ (last = 0 \/ Logged(last))

\* An event is stored once and queued once.
UnderwayInv ==
    /\ \A p \in Senders : send[p] # Quiet =>
           /\ send[p].at = "insert" => ~ Logged(send[p].seq)
           /\ send[p].at = "update" => Logged(send[p].seq) /\ ~ IsQueued(send[p].seq)
    /\ \A p, q \in Senders : send[p] # Quiet /\ send[q] # Quiet /\ p # q =>
           send[p].seq # send[q].seq
    /\ \A p \in Senders : send[p] # Quiet => send[p].seq > 0

OnTheWay ==
    /\ \A n : Has(events, n) \/ Has(inbox, n) => IsQueued(n)
    /\ \A n : Has(replay, n) => Logged(n)
    /\ stream \notin {"replaying", "live"} => inbox = <<>>
    /\ stream \notin {"loading", "replaying"} => replay = <<>>
    /\ stream = "replaying" => replay # <<>>

\* Events are queued, broadcast and loaded in the order of their numbers, but for those
\* that were overtaken.
OrderInv ==
    /\ Ascending(events, overtaken) /\ Ascending(inbox, overtaken)
    /\ \A m, n : Has(inbox, m) /\ Has(events, n) => m < n \/ n \in overtaken
    /\ Ascending(replay, {})

\* What is due is higher than all that was shown, was loaded or is logged after what was,
\* and is on the way to the stream once it is queued.
DueInv ==
    /\ \A n : Due(n) => last < n
    /\ \A n : Due(n) => Has(replay, n) \/ \A m : Has(replay, m) => m < n
    /\ stream \in {"loading", "replaying", "live"} =>
           \A n : Due(n) /\ IsQueued(n) => Has(replay, n) \/ Has(inbox, n) \/ Has(events, n)

ReplayInv ==
    LoggedInv /\ UnderwayInv /\ OnTheWay /\ OrderInv /\ DueInv /\ EventStreamTypeOK

-----------------------------------------------------------------------------
\* An empty queue is in order.
LEMMA EmptyAscends == \A late : Ascending(<<>>, late)
  BY EmptySeq DEF Ascending

\* An event goes to the end of a queue in order: it is higher than the others, or late.
LEMMA AppendAscends ==
    ASSUME NEW T, NEW s \in Seq(T), NEW e \in T, NEW late, NEW later,
           Ascending(s, late), late \subseteq later,
           \A n : Has(s, n) => n < e.seq \/ e.seq \in later
    PROVE  Ascending(Append(s, e), later)
<1> DEFINE t == Append(s, e)
<1>1. /\ t \in Seq(T) /\ Len(s) \in Nat /\ Len(t) = Len(s) + 1
      /\ \A i \in 1 .. Len(s) : t[i] = s[i]
      /\ t[Len(s) + 1] = e
  BY AppendProperties, LenProperties
<1> HIDE DEF t
<1> SUFFICES ASSUME NEW i \in 1 .. Len(t), NEW j \in 1 .. Len(t), i < j
             PROVE  t[i].seq < t[j].seq \/ t[j].seq \in later
  BY DEF Ascending, t
<1>2. i \in 1 .. Len(s)
  BY <1>1
<1>3. CASE j \in 1 .. Len(s)
  BY <1>1, <1>2, <1>3 DEF Ascending
<1>4. CASE j = Len(s) + 1
  BY <1>1, <1>2, <1>4 DEF Has
<1> QED  BY <1>1, <1>3, <1>4

\* The head of a queue in order is lower than the others, or they are late.
LEMMA TailAscends ==
    ASSUME NEW T, NEW s \in Seq(T), s # <<>>, NEW late, Ascending(s, late)
    PROVE  /\ Head(s) \in T /\ Tail(s) \in Seq(T)
           /\ Ascending(Tail(s), late)
           /\ \A n : Has(s, n) <=> Has(Tail(s), n) \/ Head(s).seq = n
           /\ \A n : Has(Tail(s), n) => Head(s).seq < n \/ n \in late
<1> DEFINE t == Tail(s)
<1>1. /\ Head(s) \in T /\ Head(s) = s[1] /\ t \in Seq(T)
      /\ Len(t) \in Nat /\ Len(s) = Len(t) + 1
      /\ \A i \in 1 .. Len(t) : t[i] = s[i + 1]
  BY HeadTailProperties, LenProperties, EmptySeq
<1>2. /\ 1 \in 1 .. Len(s)
      /\ \A i \in 1 .. Len(t) : i + 1 \in 1 .. Len(s) /\ 1 < i + 1
      /\ \A i \in 1 .. Len(s) : i # 1 => i - 1 \in 1 .. Len(t) /\ s[i] = t[i - 1]
      /\ \A i, j \in 1 .. Len(t) : i < j => i + 1 < j + 1
  BY <1>1
<1> HIDE DEF t
<1>3. Ascending(t, late)
  BY <1>1, <1>2 DEF Ascending
<1>4. \A n : Has(s, n) <=> Has(t, n) \/ Head(s).seq = n
  BY <1>1, <1>2 DEF Has
<1>5. \A n : Has(t, n) => Head(s).seq < n \/ n \in late
  BY <1>1, <1>2 DEF Ascending, Has
<1> QED  BY <1>1, <1>3, <1>4, <1>5 DEF t

\* A sequence of a finite set, as load_run_events_after answers it, holds all of it.
LEMMA LoadedHoldsAll ==
    ASSUME IsFiniteSet(log), log \subseteq LogType, NEW k \in Nat, NEW s \in Since(k)
    PROVE  /\ s \in Seq(LogType)
           /\ Ascending(s, {})
           /\ \A n : Has(s, n) <=> Logged(n) /\ n > k
<1> DEFINE S == {e \in log : e.seq > k}
<1> DEFINE c == Cardinality(S)
<1>1. IsFiniteSet(S)
  BY FS_Subset
<1>2. c \in Nat
  BY <1>1, FS_CardinalityType
<1>3. s \in [1 .. c -> S] /\ \A i, j \in 1 .. c : i # j => s[i] # s[j]
  BY DEF Since, SetToSeqs
<1>4. \A i, j \in DOMAIN s : i < j => s[i].seq < s[j].seq
  BY DEF Since
<1> HIDE DEF c
<1>5. s \in Seq(LogType) /\ Len(s) = c /\ DOMAIN s = 1 .. c
  <2>1. S \subseteq LogType
    OBVIOUS
  <2>2. s \in Seq(S)
    BY <1>2, <1>3
  <2> HIDE DEF S
  <2> QED  BY <1>2, <1>3, <2>1, <2>2, LenProperties
<1>6. s \in Injection(1 .. c, S)
  BY <1>3, <1>5, Fun_IsInj DEF S
<1>7. IsFiniteSet(1 .. c) /\ Cardinality(1 .. c) = c
  BY <1>2, FS_Interval
<1>8. s \in Surjection(1 .. c, S)
  BY <1>1, <1>6, <1>7, FS_Injection DEF c
<1>9. \A e \in S : \E i \in 1 .. c : s[i] = e
  BY <1>8 DEF Surjection
<1> QED  BY <1>3, <1>4, <1>5, <1>9 DEF Ascending, Has, Logged

-----------------------------------------------------------------------------
(***************************************************************************)
(* The initial state, and the steps.                                       *)
(***************************************************************************)
\* What is shown or explained is no longer due, and nothing becomes due.
LEMMA DueShrinks ==
    ASSUME log' = log, begun' = begun,
           shown \subseteq shown', gap \subseteq gap', overtaken \subseteq overtaken'
    PROVE  \A n : /\ Logged(n)' <=> Logged(n)
                  /\ IsQueued(n)' <=> IsQueued(n)
                  /\ Due(n)' => Due(n) /\ n \notin shown' \cup gap'
  BY DEF Due, Logged, IsQueued

\* Nothing was sent.
LEMMA ReplayStarts == EventStreamInit => ReplayInv
<1> SUFFICES ASSUME EventStreamInit PROVE ReplayInv
  OBVIOUS
<1> USE DEF EventStreamInit
<1>1. LoggedInv
  BY EmptySeq, FS_EmptySet DEF LoggedInv
<1>2. UnderwayInv
  BY DEF UnderwayInv, Senders
<1>3. OnTheWay
  BY EmptyQueue DEF OnTheWay
<1>4. OrderInv
  BY EmptyQueue, EmptyAscends DEF OrderInv
<1>5. DueInv
  BY DEF DueInv, Due, Logged
<1>6. EventStreamTypeOK
  BY EventStreamAssumption DEF EventStreamTypeOK
<1> QED  BY <1>1, <1>2, <1>3, <1>4, <1>5, <1>6 DEF ReplayInv

\* A number is given out once.
LEMMA NumberReplays ==
    ASSUME StreamInv, ReplayInv, NEW p \in Senders, NEW kind \in Kinds, Number(p, kind),
           sent' \in 0 .. MaxEvents
    PROVE  ReplayInv'
<1> USE DEF ReplayInv
<1>0. UNCHANGED <<turn, run, log, status, wireVars, browserVars, historyVars>>
  BY DEF Number
<1>1. \A n : (Logged(n)' <=> Logged(n)) /\ (IsQueued(n)' <=> IsQueued(n)) /\ (Due(n)' => Due(n))
  BY <1>0, DueShrinks DEF browserVars, historyVars
<1>2. LoggedInv'
  BY <1>0, <1>1 DEF Number, LoggedInv, StreamInv, StreamTypes, wireVars, browserVars
<1>3. UnderwayInv'
  <2>1. /\ send' = [send EXCEPT ![p] = [at |-> "insert", kind |-> kind, seq |-> number + 1]]
        /\ send[p] = Quiet /\ number \in Nat /\ send \in [Senders -> SendType]
    BY DEF Number, StreamInv, StreamTypes
  <2>2. /\ send'[p].at = "insert" /\ send'[p].seq = number + 1 /\ number + 1 > 0
        /\ \A q \in Senders : q # p => send'[q] = send[q]
    BY <2>1
  <2>3. ~ Logged(number + 1) /\ \A q \in Senders : send[q] # Quiet => send[q].seq # number + 1
    BY <2>1 DEF Logged, LoggedInv, StreamInv, StreamTypes, Numbered, SendType, Quiet
  <2> QED  BY <1>1, <2>2, <2>3 DEF UnderwayInv
<1>4. OnTheWay'
  BY <1>0, <1>1 DEF OnTheWay, Has, wireVars, browserVars
<1>5. OrderInv'
  BY <1>0 DEF OrderInv, Has, Ascending, wireVars, historyVars
<1>6. DueInv'
  BY <1>0, <1>1 DEF DueInv, Has, wireVars, browserVars
<1>7. EventStreamTypeOK'
  BY <1>0 DEF EventStreamTypeOK, Number, StreamInv, StreamTypes, wireVars, browserVars, historyVars
<1> QED  BY <1>2, <1>3, <1>4, <1>5, <1>6, <1>7

\* The events of the loop, of a tool beside it and of an interrupt.
LEMMA SendersReplay ==
    ASSUME StreamInv, ReplayInv, ToolEvent \/ LoopEvent \/ InterruptLogged
    PROVE  ReplayInv'
<1>1. sent \in 0 .. MaxEvents
  BY DEF ReplayInv, EventStreamTypeOK
<1>2. sent' \in 0 .. MaxEvents
  BY <1>1, EventStreamAssumption DEF ToolEvent, LoopEvent, InterruptLogged
<1>3. \E p \in Senders, kind \in Kinds : Number(p, kind)
  BY DEF ToolEvent, LoopEvent, InterruptLogged, Senders, Kinds
<1> QED  BY <1>2, <1>3, NumberReplays

\* An event that is stored after a higher one is overtaken; any other is higher than what
\* was shown and loaded.
LEMMA InsertsReplays ==
    ASSUME StreamInv, ReplayInv, NEW p \in Senders, Inserts(p)
    PROVE  ReplayInv'
<1> USE DEF ReplayInv
<1> PICK k : k = send[p].seq
  OBVIOUS
<1> DEFINE new == [seq |-> k, kind |-> send[p].kind, queued |-> FALSE]
<1>0. UNCHANGED <<turn, busy, run, sent, number, status, wireVars, browserVars, gap>>
  BY DEF Inserts
<1>1. /\ send[p] # Quiet /\ send[p].at = "insert"
      /\ send[p] \in [at: {"insert", "update"}, kind: Kinds, seq: Nat]
  BY DEF Inserts, StreamInv, StreamTypes, SendType, Quiet
<1>2. k \in 1 .. number /\ ~ Logged(k)
  BY <1>1 DEF UnderwayInv, StreamInv, StreamTypes, Numbered, SendType, Quiet
<1>3. log' = log \cup {new} /\ new.seq = k /\ new.queued = FALSE
  BY DEF Inserts
<1>4. /\ \A n : Logged(n)' <=> Logged(n) \/ n = k
      /\ \A n : IsQueued(n)' <=> IsQueued(n)
  BY <1>3 DEF Logged, IsQueued
<1>5. overtaken' = overtaken \cup Overtakes(p, log)
  BY DEF Inserts
<1>6. /\ \A n : Due(n)' /\ n # k => Due(n)
      /\ Due(k)' => \A n : Logged(n) => n < k
  <2>1. Due(k)' => \A e \in log : e.seq < k
    BY <1>2, <1>5 DEF Due, Overtakes, Logged, StreamInv, StreamTypes, LogType
  <2>2. ASSUME NEW n, Due(n)', n # k PROVE Due(n)
    BY <1>0, <1>3, <1>4, <1>5, <2>2 DEF Due, browserVars
  <2> QED  BY <2>1, <2>2 DEF Logged
<1> HIDE DEF new
<1>7. LoggedInv'
  BY <1>0, <1>2, <1>3, <1>4, FS_AddElement DEF LoggedInv, wireVars, browserVars
<1>8. UnderwayInv'
  <2>1. send' = [send EXCEPT ![p].at = "update"] /\ send \in [Senders -> SendType]
    BY DEF Inserts, StreamInv, StreamTypes
  <2>2. /\ send'[p].at = "update" /\ send'[p].seq = k
        /\ \A q \in Senders : q # p => send'[q] = send[q]
    BY <1>1, <2>1
  <2>3. ~ IsQueued(k)
    BY <1>2 DEF Logged, IsQueued
  <2> QED  BY <1>1, <1>4, <2>2, <2>3 DEF UnderwayInv
<1>9. OnTheWay'
  BY <1>0, <1>4 DEF OnTheWay, Has, wireVars, browserVars
<1>10. OrderInv'
  BY <1>0, <1>5 DEF OrderInv, Has, Ascending, wireVars
<1>11. DueInv'
  <2>1. \A n : Due(n)' => last' < n
    BY <1>0, <1>2, <1>6 DEF DueInv, LoggedInv, browserVars
  <2>2. \A n : Due(n)' => Has(replay', n) \/ \A m : Has(replay', m) => m < n
    BY <1>0, <1>6 DEF DueInv, OnTheWay, wireVars
  <2>3. ~ IsQueued(k)
    BY <1>2 DEF Logged, IsQueued
  <2>4. stream' \in {"loading", "replaying", "live"} =>
            \A n : Due(n)' /\ IsQueued(n)' => Has(replay', n) \/ Has(inbox', n) \/ Has(events', n)
    BY <1>0, <1>4, <1>6, <2>3 DEF DueInv, wireVars, browserVars
  <2> QED  BY <2>1, <2>2, <2>4 DEF DueInv, Has
<1>12. EventStreamTypeOK'
  BY <1>0, <1>2, <1>3, <1>5 DEF EventStreamTypeOK, Overtakes, browserVars
<1> QED  BY <1>7, <1>8, <1>9, <1>10, <1>11, <1>12

\* An event is queued behind the lower ones, or it was overtaken.
LEMMA UpdatesAndPutsReplays ==
    ASSUME StreamInv, ReplayInv, NEW p \in Senders, UpdatesAndPuts(p)
    PROVE  ReplayInv'
<1> USE DEF ReplayInv
<1> PICK k : k = send[p].seq
  OBVIOUS
<1> DEFINE new == [seq |-> k, kind |-> send[p].kind]
<1> DEFINE F == [e \in log |-> IF e.seq = k THEN [e EXCEPT !.queued = p # "route"] ELSE e]
<1>0. UNCHANGED <<turn, busy, run, sent, number, inbox, replay, browserVars, gap>>
  BY DEF UpdatesAndPuts
<1>1. /\ send[p] # Quiet /\ send[p].at = "update" /\ send \in [Senders -> SendType]
      /\ k \in Nat /\ new \in EventType
  BY DEF UpdatesAndPuts, StreamInv, StreamTypes, SendType, Quiet, EventType
<1>2. Logged(k) /\ ~ IsQueued(k)
  BY <1>1 DEF UnderwayInv
<1>3. log' = {F[e] : e \in log} /\ \A e \in log : F[e].seq = e.seq
  BY DEF UpdatesAndPuts, StreamInv, StreamTypes, LogType
<1>4. /\ \A e \in log : e.seq # k => F[e] = e
      /\ \A e \in log : e.seq = k /\ p = "route" => F[e].queued = FALSE
      /\ \A e \in log : e.seq = k /\ p # "route" => F[e].queued = TRUE
  BY DEF StreamInv, StreamTypes, LogType
<1>5. IsFiniteSet(log')
  <2>1. F \in Surjection(log, log')
    BY <1>3 DEF Surjection
  <2> QED  BY <2>1, FS_Surjection DEF LoggedInv
<1> HIDE DEF F, new
<1>6. \A n : Logged(n)' <=> Logged(n)
  BY <1>3 DEF Logged
<1>7. \A n : IsQueued(n)' <=> IsQueued(n) \/ (n = k /\ p # "route")
  <2>1. ASSUME NEW n, n # k PROVE IsQueued(n)' <=> IsQueued(n)
    BY <1>3, <1>4, <2>1 DEF IsQueued
  <2>2. p = "route" => ~ IsQueued(k)'
    BY <1>3, <1>4 DEF IsQueued
  <2>3. p # "route" => IsQueued(k)'
    BY <1>2, <1>3, <1>4 DEF IsQueued, Logged
  <2> QED  BY <1>2, <2>1, <2>2, <2>3
<1>8. overtaken' = overtaken \cup IF \E e \in log : e.queued /\ e.seq > k THEN {k} ELSE {}
  BY DEF UpdatesAndPuts, Overtakes
<1>9. \A n : Due(n)' => Due(n)
  <2>1. ASSUME NEW n, Due(n)', n # k PROVE Due(n)
    <3>1. (\A e \in log' : e.queued => e.seq < n) => \A e \in log : e.queued => e.seq < n
      <4>1. \A e \in log : e.queued => F[e] = e
        BY <1>2, <1>4 DEF IsQueued
      <4> QED  BY <1>3, <4>1
    <3> QED  BY <1>0, <1>6, <1>7, <1>8, <2>1, <3>1 DEF Due, browserVars
  <2>2. ASSUME Due(k)' PROVE Due(k)
    <3>1. k > begun /\ k \notin shown \cup gap \cup overtaken /\ k \notin overtaken'
      BY <1>0, <1>8, <2>2 DEF Due, browserVars
    <3>2. \A e \in log : e.queued => ~ (e.seq > k)
      BY <1>8, <3>1
    <3>3. \A e \in log : e.queued => e.seq # k /\ e.seq \in Nat
      BY <1>2 DEF IsQueued, StreamInv, StreamTypes, LogType
    <3> QED  BY <1>1, <1>2, <3>1, <3>2, <3>3 DEF Due
  <2> QED  BY <2>1, <2>2
<1>10. \A n : IsQueued(n) => n < k \/ k \in overtaken'
  <2>1. \A e \in log : e.queued => e.seq # k /\ e.seq \in Nat
    BY <1>2 DEF IsQueued, StreamInv, StreamTypes, LogType
  <2> QED  BY <1>1, <1>8, <2>1 DEF IsQueued
<1>11. events' = IF p = "route" THEN events ELSE Append(events, new)
  BY DEF UpdatesAndPuts, Queued, new
<1>12. /\ events' \in Seq(EventType)
       /\ \A n : Has(events', n) <=> Has(events, n) \/ (n = k /\ p # "route")
       /\ Ascending(events', overtaken')
  <2>1. CASE p = "route"
    BY <1>8, <1>11, <2>1 DEF OrderInv, Ascending, StreamInv, StreamTypes
  <2>2. CASE p # "route"
    <3>1. new.seq = k /\ events \in Seq(EventType) /\ new \in EventType
      BY <1>1 DEF new, StreamInv, StreamTypes
    <3>2. \A n : Has(events, n) => n < k \/ k \in overtaken'
      BY <1>10 DEF OnTheWay
    <3>3. Ascending(Append(events, new), overtaken')
      BY <1>8, <3>1, <3>2, AppendAscends DEF OrderInv
    <3>4. /\ Append(events, new) \in Seq(EventType)
          /\ \A n : Has(Append(events, new), n) <=> Has(events, n) \/ n = k
      BY <3>1, Appended
    <3> QED  BY <1>11, <2>2, <3>3, <3>4
  <2> QED  BY <2>1, <2>2
<1>13. LoggedInv'
  BY <1>0, <1>3, <1>5, <1>6 DEF LoggedInv, browserVars
<1>14. UnderwayInv'
  <2>1. send' = [send EXCEPT ![p] = Quiet]
    BY DEF UpdatesAndPuts
  <2>2. send'[p] = Quiet /\ \A q \in Senders : q # p => send'[q] = send[q]
    BY <1>1, <2>1
  <2> QED  BY <1>1, <1>6, <1>7, <2>2 DEF UnderwayInv
<1>15. OnTheWay'
  BY <1>0, <1>6, <1>7, <1>12 DEF OnTheWay, Has, browserVars
<1>16. OrderInv'
  <2>1. /\ Ascending(inbox', overtaken') /\ Ascending(replay', {})
    BY <1>0, <1>8 DEF OrderInv, Ascending
  <2>2. \A m, n : Has(inbox, m) /\ Has(events', n) => m < n \/ n \in overtaken'
    BY <1>8, <1>10, <1>12 DEF OrderInv, OnTheWay
  <2>3. \A m : Has(inbox, m)' <=> Has(inbox, m)
    BY <1>0 DEF Has
  <2> QED  BY <1>12, <2>1, <2>2, <2>3 DEF OrderInv
<1>17. DueInv'
  <2>1. \A m : (Has(inbox, m)' <=> Has(inbox, m)) /\ (Has(replay, m)' <=> Has(replay, m))
    BY <1>0 DEF Has
  <2>2. \A n : Has(events, n)' <=> Has(events, n) \/ (n = k /\ p # "route")
    BY <1>12 DEF Has
  <2> QED  BY <1>0, <1>7, <1>9, <2>1, <2>2 DEF DueInv, browserVars
<1>18. EventStreamTypeOK'
  <2>1. k \in 1 .. number
    BY <1>2 DEF Logged, LoggedInv
  <2>2. \A e \in log' : e.seq \in 1 .. number'
    BY <1>0, <1>3 DEF LoggedInv
  <2>3. status' \in {"none", "active", "over", "waiting_approval"}
    <3>1. RunStatusFromEvent(send[p].kind) \subseteq {"none", "active", "over", "waiting_approval"}
      BY <1>1 DEF RunStatusFromEvent, EventType, Kinds, new
    <3> QED  BY <3>1 DEF UpdatesAndPuts
  <2> QED  BY <1>0, <1>8, <2>1, <2>2, <2>3 DEF EventStreamTypeOK, browserVars
<1> QED  BY <1>13, <1>14, <1>15, <1>16, <1>17, <1>18

\* The head of the queue goes to the subscriber, or is one of those that the stream misses.
LEMMA BroadcastReplays ==
    ASSUME StreamInv, ReplayInv, Broadcast
    PROVE  ReplayInv'
<1> USE DEF ReplayInv
<1> PICK k : k = Head(events).seq
  OBVIOUS
<1>0. UNCHANGED <<agentVars, replay, browserVars, overtaken>> /\ events # <<>>
  BY DEF Broadcast
<1>1. /\ Head(events) \in EventType /\ Tail(events) \in Seq(EventType)
      /\ Ascending(Tail(events), overtaken)
      /\ \A n : Has(events, n) <=> Has(Tail(events), n) \/ n = k
      /\ \A n : Has(Tail(events), n) => k < n \/ n \in overtaken
  BY <1>0, TailAscends DEF StreamInv, StreamTypes, OrderInv
<1>2. k \in 1 .. number /\ IsQueued(k)
  BY <1>1 DEF OnTheWay, IsQueued, LoggedInv
<1>3. events' = Tail(events)
  BY DEF Broadcast
<1>4. gap' = gap \cup IF stream = "loading" THEN {k} ELSE {}
  BY DEF Broadcast
<1>5. \A n : /\ Logged(n)' <=> Logged(n)
             /\ IsQueued(n)' <=> IsQueued(n)
             /\ Due(n)' => Due(n) /\ n \notin shown' \cup gap'
  BY <1>0, <1>4, DueShrinks DEF agentVars, browserVars
<1>6. /\ \A n : Has(inbox', n) <=> Has(inbox, n) \/ (n = k /\ Subscribed)
      /\ Ascending(inbox', overtaken)
  <2>1. CASE ~ Subscribed
    BY <2>1 DEF Broadcast, OrderInv
  <2>2. CASE Subscribed
    <3>1. inbox' = Append(inbox, Head(events)) /\ inbox \in Seq(EventType)
      BY <2>2 DEF Broadcast, StreamInv, StreamTypes
    <3>2. \A n : Has(inbox, n) => n < k \/ k \in overtaken
      BY <1>1 DEF OrderInv
    <3>3. Ascending(Append(inbox, Head(events)), overtaken)
      BY <1>1, <3>1, <3>2, AppendAscends DEF OrderInv
    <3>4. \A n : Has(Append(inbox, Head(events)), n) <=> Has(inbox, n) \/ n = k
      BY <1>1, <3>1, Appended
    <3> QED  BY <2>2, <3>1, <3>3, <3>4
  <2> QED  BY <2>1, <2>2
<1>7. \A n : /\ Has(inbox, n)' <=> Has(inbox, n) \/ (n = k /\ Subscribed)
             /\ Has(events, n) <=> Has(events, n)' \/ n = k
             /\ Has(replay, n)' <=> Has(replay, n)
  BY <1>0, <1>1, <1>3, <1>6 DEF Has
<1>8. LoggedInv'
  BY <1>0, <1>5 DEF LoggedInv, agentVars, browserVars
<1>9. UnderwayInv'
  BY <1>0, <1>5 DEF UnderwayInv, agentVars
<1>10. OnTheWay'
  <2>1. stream' \notin {"replaying", "live"} => inbox' = <<>>
    BY <1>0 DEF Broadcast, Subscribed, OnTheWay, browserVars
  <2> QED  BY <1>0, <1>2, <1>5, <1>7, <2>1 DEF OnTheWay, browserVars
<1>11. OrderInv'
  BY <1>0, <1>1, <1>3, <1>6, <1>7 DEF OrderInv
<1>12. DueInv'
  <2>1. \A n : Due(n)' => last' < n
    BY <1>0, <1>5 DEF DueInv, browserVars
  <2>2. stream \in {"loading", "replaying", "live"} => Subscribed \/ k \in gap'
    BY <1>4 DEF Subscribed
  <2> QED  BY <1>0, <1>5, <1>7, <2>1, <2>2 DEF DueInv, browserVars
<1>13. EventStreamTypeOK'
  BY <1>0, <1>2, <1>4 DEF EventStreamTypeOK, agentVars, browserVars
<1> QED  BY <1>8, <1>9, <1>10, <1>11, <1>12, <1>13

\* Nothing is due of a run that begins.
LEMMA SendMessageReplays ==
    ASSUME StreamInv, ReplayInv, SendMessage
    PROVE  ReplayInv'
<1> USE DEF ReplayInv, SendMessage, Submit, SubmitTurn, SettledTurn
<1>1. \A n : ~ Logged(n)' /\ ~ Due(n)'
  BY DEF Logged, Due
<1>2. LoggedInv'
  BY EmptySeq, FS_EmptySet DEF LoggedInv, LastEventForgotten
<1>3. UnderwayInv'
  BY DEF UnderwayInv
<1>4. OnTheWay'
  BY EmptyQueue DEF OnTheWay
<1>5. OrderInv'
  BY EmptyQueue, EmptyAscends DEF OrderInv
<1>6. DueInv'
  BY <1>1 DEF DueInv
<1>7. EventStreamTypeOK'
  BY EventStreamAssumption DEF EventStreamTypeOK, LastEventForgotten
<1> QED  BY <1>2, <1>3, <1>4, <1>5, <1>6, <1>7

\* Nothing is due that was logged before the submission.
LEMMA SendDecisionReplays ==
    ASSUME StreamInv, ReplayInv, SendDecision
    PROVE  ReplayInv'
<1> USE DEF ReplayInv, SendDecision, Submit, SubmitTurn, SettledTurn
<1>1. \A n : Logged(n)' <=> Logged(n)
  BY DEF Logged
<1>2. \A n : ~ Due(n)'
  BY DEF Logged, Due, LoggedInv, StreamInv, StreamTypes
<1>3. LoggedInv'
  BY <1>1, EmptySeq DEF LoggedInv
<1>4. UnderwayInv'
  BY DEF UnderwayInv
<1>5. OnTheWay'
  BY EmptyQueue DEF OnTheWay
<1>6. OrderInv'
  BY EmptyQueue, EmptyAscends DEF OrderInv, historyVars
<1>7. DueInv'
  BY <1>2 DEF DueInv
<1>8. EventStreamTypeOK'
  BY EventStreamAssumption DEF EventStreamTypeOK, historyVars
<1> QED  BY <1>3, <1>4, <1>5, <1>6, <1>7, <1>8

\* A stream that shows an event of the log, with nothing due below it, keeps the invariant.
LEMMA ShowsReplays ==
    ASSUME StreamInv, ReplayInv, Subscribed, NEW e, NEW replayed, NEW received,
           Shows(e, replayed, received), Logged(e.seq),
           \A n : Due(n) => n = e.seq \/ e.seq < n,
           replayed \in Seq(LogType), Ascending(replayed, {}), Ascending(received, overtaken),
           \A n : Has(replayed, n) => Has(replay, n),
           \A n : Has(replay, n) => Has(replayed, n) \/ n = e.seq,
           \A n : Has(received, n) => Has(inbox, n),
           \A n : Has(inbox, n) => Has(received, n) \/ n = e.seq
    PROVE  ReplayInv'
<1> USE DEF ReplayInv
<1> PICK k : k = e.seq
  OBVIOUS
<1>0. /\ UNCHANGED <<agentVars, events, drops, whole, begun, historyVars>>
      /\ shown' = shown \cup {k} /\ last' = k
  BY DEF Shows
<1>1. /\ Closes(e) => stream' = "closed" /\ replay' = <<>> /\ inbox' = <<>>
      /\ ~ Closes(e) => /\ stream' = IF replayed = <<>> THEN "live" ELSE "replaying"
                        /\ replay' = replayed /\ inbox' = received
  BY DEF Shows
<1>2. \A n : /\ Logged(n)' <=> Logged(n)
             /\ IsQueued(n)' <=> IsQueued(n)
             /\ Due(n)' => Due(n) /\ n \notin shown' \cup gap'
  BY <1>0, DueShrinks DEF agentVars, historyVars
<1>3. \A n : Due(n)' => Due(n) /\ n # k /\ k < n
  BY <1>0, <1>2
<1>4. k \in 1 .. number
  BY DEF Logged, LoggedInv
<1>5. LoggedInv'
  <2>1. replay' \in Seq(LogType)
    BY <1>1, EmptySeq
  <2>2. log' = log /\ number' = number /\ number \in Nat
    BY <1>0 DEF agentVars, StreamInv, StreamTypes
  <2> QED  BY <1>0, <1>4, <2>1, <2>2 DEF LoggedInv, Logged
<1>6. UnderwayInv'
  BY <1>0, <1>2 DEF UnderwayInv, agentVars
<1>7. EventStreamTypeOK'
  BY <1>0, <1>1, <1>4 DEF EventStreamTypeOK, agentVars, historyVars
<1>8. CASE Closes(e)
  <2>1. OnTheWay' /\ OrderInv'
    BY <1>0, <1>1, <1>2, <1>8, EmptyQueue, EmptyAscends DEF OnTheWay, OrderInv, historyVars, Has
  <2>2. DueInv'
    BY <1>0, <1>1, <1>3, <1>8, EmptyQueue DEF DueInv
  <2> QED  BY <1>5, <1>6, <1>7, <2>1, <2>2
<1>9. CASE ~ Closes(e)
  <2>1. \A n : /\ Has(replay, n)' <=> Has(replayed, n)
               /\ Has(inbox, n)' <=> Has(received, n)
               /\ Has(events, n)' <=> Has(events, n)
    BY <1>0, <1>1, <1>9 DEF Has
  <2>2. OnTheWay'
    BY <1>1, <1>2, <1>9, <2>1 DEF OnTheWay
  <2>3. OrderInv'
    BY <1>0, <1>1, <1>9, <2>1 DEF OrderInv, historyVars
  <2>4. DueInv'
    <3>1. \A n : Due(n)' => Has(replay', n) \/ \A m : Has(replay', m) => m < n
      BY <1>1, <1>3, <1>9 DEF DueInv
    <3>2. \A n : Due(n)' /\ IsQueued(n)' => Has(replay', n) \/ Has(inbox', n) \/ Has(events', n)
      BY <1>0, <1>1, <1>2, <1>3, <1>9 DEF DueInv, Subscribed
    <3> QED  BY <1>0, <1>3, <3>1, <3>2 DEF DueInv
  <2> QED  BY <1>5, <1>6, <1>7, <2>2, <2>3, <2>4
<1> QED  BY <1>8, <1>9

\* What is due is queued behind the event that is read from the queue.
LEMMA ReadLiveReplays ==
    ASSUME StreamInv, ReplayInv, ReadLive
    PROVE  ReplayInv'
<1> USE DEF ReplayInv
<1> DEFINE e == Head(inbox)
<1>1. /\ stream = "live" /\ inbox # <<>> /\ replay = <<>>
      /\ Shows(e, <<>>, Tail(inbox))
  BY DEF ReadLive, OnTheWay
<1>2. /\ e \in EventType
      /\ Ascending(Tail(inbox), overtaken)
      /\ \A n : Has(inbox, n) <=> Has(Tail(inbox), n) \/ e.seq = n
      /\ \A n : Has(Tail(inbox), n) => e.seq < n \/ n \in overtaken
  BY <1>1, TailAscends DEF OrderInv, StreamInv, StreamTypes
<1>3. IsQueued(e.seq)
  BY <1>2 DEF OnTheWay
<1>4. ASSUME NEW n, Due(n) PROVE n = e.seq \/ e.seq < n
  <2>1. CASE IsQueued(n)
    <3>1. Has(inbox, n) \/ Has(events, n)
      BY <1>1, <1>4, <2>1, EmptyQueue DEF DueInv
    <3>2. n \notin overtaken
      BY <1>4 DEF Due
    <3> QED  BY <1>2, <3>1, <3>2 DEF OrderInv
  <2>2. CASE ~ IsQueued(n)
    BY <1>3, <1>4, <2>2 DEF Due, IsQueued
  <2> QED  BY <2>1, <2>2
<1>5. Logged(e.seq)
  BY <1>3 DEF Logged, IsQueued
<1>6. /\ <<>> \in Seq(LogType) /\ Ascending(<<>>, {})
      /\ \A n : ~ Has(<<>>, n) /\ ~ Has(replay, n)
  BY <1>1, EmptySeq, EmptyQueue, EmptyAscends
<1>7. Subscribed
  BY <1>1 DEF Subscribed
<1> HIDE DEF e
<1> QED  BY <1>1, <1>2, <1>4, <1>5, <1>6, <1>7, ShowsReplays

\* What is due was loaded behind the event that is read from the replay, or logged later.
LEMMA ReadReplayReplays ==
    ASSUME StreamInv, ReplayInv, ReadReplay
    PROVE  ReplayInv'
<1> USE DEF ReplayInv
<1> DEFINE e == Head(replay)
<1>1. /\ stream = "replaying" /\ replay # <<>> /\ replay \in Seq(LogType)
      /\ Shows(e, Tail(replay), inbox)
  BY DEF ReadReplay, OnTheWay, LoggedInv
<1>2. /\ e \in LogType /\ Tail(replay) \in Seq(LogType)
      /\ Ascending(Tail(replay), {})
      /\ \A n : Has(replay, n) <=> Has(Tail(replay), n) \/ e.seq = n
      /\ \A n : Has(Tail(replay), n) => e.seq < n
  BY <1>1, TailAscends DEF OrderInv
<1>3. Logged(e.seq)
  BY <1>2 DEF OnTheWay
<1>4. ASSUME NEW n, Due(n) PROVE n = e.seq \/ e.seq < n
  BY <1>2, <1>4 DEF DueInv
<1>5. Ascending(inbox, overtaken)
  BY DEF OrderInv
<1> HIDE DEF e
<1> QED  BY <1>1, <1>2, <1>3, <1>4, <1>5, ShowsReplays DEF Subscribed

\* A connection that is lost has lost its queue: nothing is on the way to it.
LEMMA DropReplays ==
    ASSUME StreamInv, ReplayInv, Drop
    PROVE  ReplayInv'
<1> USE DEF ReplayInv
<1>0. /\ UNCHANGED <<agentVars, events, last, shown, begun, historyVars>>
      /\ stream' = "none" /\ inbox' = <<>> /\ replay' = <<>>
  BY DEF Drop
<1>1. \A n : /\ Logged(n)' <=> Logged(n)
             /\ IsQueued(n)' <=> IsQueued(n)
             /\ Due(n)' => Due(n) /\ n \notin shown' \cup gap'
  BY <1>0, DueShrinks DEF agentVars, historyVars
<1>2. LoggedInv'
  BY <1>0, <1>1, EmptySeq DEF LoggedInv, agentVars
<1>3. UnderwayInv'
  BY <1>0, <1>1 DEF UnderwayInv, agentVars
<1>4. OnTheWay'
  BY <1>0, <1>1, EmptyQueue DEF OnTheWay, Has
<1>5. OrderInv'
  BY <1>0, EmptyQueue, EmptyAscends DEF OrderInv, historyVars
<1>6. DueInv'
  BY <1>0, <1>1, EmptyQueue DEF DueInv
<1>7. EventStreamTypeOK'
  BY <1>0, EventStreamAssumption DEF EventStreamTypeOK, Drop, agentVars, historyVars
<1> QED  BY <1>2, <1>3, <1>4, <1>5, <1>6, <1>7

\* All that is due is loaded: it is higher than the last number that was shown.
LEMMA ReplayLoadsReplays ==
    ASSUME StreamInv, ReplayInv, ReplayLoads
    PROVE  ReplayInv'
<1> USE DEF ReplayInv
<1>0. /\ UNCHANGED <<agentVars, events, inbox, last, shown, drops, whole, begun, historyVars>>
      /\ stream = "none" /\ stream' = "loading" /\ replay' \in Since(last)
  BY DEF ReplayLoads
<1>1. \A n : /\ Logged(n)' <=> Logged(n)
             /\ IsQueued(n)' <=> IsQueued(n)
             /\ Due(n)' => Due(n) /\ n \notin shown' \cup gap'
  BY <1>0, DueShrinks DEF agentVars, historyVars
<1>2. /\ replay' \in Seq(LogType) /\ Ascending(replay', {})
      /\ \A n : Has(replay', n) <=> Logged(n) /\ n > last
  BY <1>0, LoadedHoldsAll DEF LoggedInv, StreamInv, StreamTypes
<1>3. \A n : Due(n)' => Has(replay', n)
  <2>1. \A n : Due(n) => Logged(n) /\ last < n
    BY DEF Due, DueInv
  <2>2. \A n : Logged(n) => n \in Nat
    BY DEF Logged, StreamInv, StreamTypes, LogType
  <2>3. last \in Nat
    BY DEF LoggedInv
  <2> QED  BY <1>1, <1>2, <2>1, <2>2, <2>3
<1>4. LoggedInv'
  BY <1>0, <1>1, <1>2 DEF LoggedInv, agentVars
<1>5. UnderwayInv'
  BY <1>0, <1>1 DEF UnderwayInv, agentVars
<1>6. OnTheWay'
  BY <1>0, <1>1, <1>2 DEF OnTheWay, Has
<1>7. OrderInv'
  BY <1>0, <1>2 DEF OrderInv, Has, historyVars
<1>8. DueInv'
  BY <1>0, <1>1, <1>3 DEF DueInv
<1>9. EventStreamTypeOK'
  BY <1>0 DEF EventStreamTypeOK, agentVars, historyVars
<1> QED  BY <1>4, <1>5, <1>6, <1>7, <1>8, <1>9

\* Nothing but the stream changes.
LEMMA ReplaySubscribesReplays ==
    ASSUME StreamInv, ReplayInv, ReplaySubscribes
    PROVE  ReplayInv'
<1> USE DEF ReplayInv
<1>0. /\ UNCHANGED <<agentVars, wireVars, last, shown, drops, whole, begun, historyVars>>
      /\ stream = "loading" /\ stream' = IF replay = <<>> THEN "live" ELSE "replaying"
  BY DEF ReplaySubscribes
<1>1. \A n : /\ Logged(n)' <=> Logged(n)
             /\ IsQueued(n)' <=> IsQueued(n)
             /\ Due(n)' => Due(n) /\ n \notin shown' \cup gap'
  BY <1>0, DueShrinks DEF agentVars, historyVars
<1>2. LoggedInv'
  BY <1>0, <1>1 DEF LoggedInv, agentVars, wireVars
<1>3. UnderwayInv'
  BY <1>0, <1>1 DEF UnderwayInv, agentVars
<1>4. OnTheWay'
  BY <1>0, <1>1 DEF OnTheWay, Has, wireVars
<1>5. OrderInv'
  BY <1>0 DEF OrderInv, Has, wireVars, historyVars
<1>6. DueInv'
  BY <1>0, <1>1 DEF DueInv, Has, wireVars
<1>7. EventStreamTypeOK'
  BY <1>0 DEF EventStreamTypeOK, agentVars, historyVars
<1> QED  BY <1>2, <1>3, <1>4, <1>5, <1>6, <1>7

\* Nothing happens.
LEMMA ReplayStutters ==
    ASSUME ReplayInv, UNCHANGED streamVars
    PROVE  ReplayInv'
<1> USE DEF ReplayInv, streamVars, agentVars, wireVars, browserVars, historyVars
<1>1. LoggedInv' /\ UnderwayInv'
  BY DEF LoggedInv, UnderwayInv, Logged, IsQueued
<1>2. OnTheWay' /\ OrderInv'
  BY DEF OnTheWay, OrderInv, Logged, IsQueued, Has, Ascending
<1>3. DueInv' /\ EventStreamTypeOK'
  BY DEF DueInv, Due, Logged, IsQueued, Has, EventStreamTypeOK
<1> QED  BY <1>1, <1>2, <1>3

-----------------------------------------------------------------------------
(* What is due of a stream is above what it has shown, and on its way.     *)
THEOREM ReplayInvariance == EventStreamSpec => []ReplayInv
<1>1. ASSUME StreamInv, ReplayInv, EventStreamNext PROVE ReplayInv'
  BY <1>1, SendersReplay, InsertsReplays, UpdatesAndPutsReplays, BroadcastReplays,
     SendMessageReplays, SendDecisionReplays, DropReplays, ReadLiveReplays, ReadReplayReplays,
     ReplayLoadsReplays, ReplaySubscribesReplays DEF EventStreamNext, Browser
<1> QED  BY <1>1, ReplayStarts, ReplayStutters, StreamInvariance, PTL DEF EventStreamSpec

(* The counters of a stream stay within their bounds, and it shows no      *)
(* number that its run has not given out.                                  *)
THEOREM StreamTypeCorrect == EventStreamSpec => []EventStreamTypeOK
<1>1. ReplayInv => EventStreamTypeOK
  BY DEF ReplayInv
<1> QED  BY <1>1, ReplayInvariance, PTL

(* A stream that ends has shown, across reconnections, every event up to   *)
(* the one it ends with (load_run_events_after): what is missing was       *)
(* broadcast while the log was read, or stored or queued later than a      *)
(* higher number.                                                          *)
THEOREM DroppedEventsAreExplained == EventStreamSpec => []DropsAreExplained
<1>1. StreamInv /\ ReplayInv => DropsAreExplained
  <2> SUFFICES ASSUME StreamInv, ReplayInv, NEW e \in log, e.queued, e.seq > begun,
                      e.seq <= last, e.seq \notin shown \cup gap \cup overtaken
               PROVE  FALSE
    BY DEF DropsAreExplained
  <2>1. Due(e.seq)
    BY DEF Due, Logged, IsQueued
  <2>2. last < e.seq /\ last \in Nat /\ e.seq \in Nat
    BY <2>1 DEF ReplayInv, DueInv, LoggedInv, StreamInv, StreamTypes, LogType
  <2> QED  BY <2>2
<1> QED  BY <1>1, StreamInvariance, ReplayInvariance, PTL
=============================================================================
