------------------------- MODULE ApprovalFlowProofs -------------------------
(***************************************************************************)
(* Theorems of ApprovalFlow for every set of calls and every bound.        *)
(*                                                                         *)
(* With all of its faults: decisions under way are about a batch that was  *)
(* shown and grant only what the user willed, batches are disjoint, and    *)
(* whatever was started is remembered as consumed.                         *)
(*                                                                         *)
(* Where the user decides on a batch once and on all of it, whatever is    *)
(* interrupted, expires, is not written or restarted meanwhile: the queue  *)
(* holds at most the decision of the pending batch, and a result belongs   *)
(* to a call that is decided.                                              *)
(***************************************************************************)
EXTENDS ApprovalFlow, SequenceTheorems, TLAPS

\* A decision a user can have sent: on calls of one batch that he was shown.
Sent(ids, yes) ==
    /\ \E B \in asked : ids \subseteq B
    /\ yes \subseteq ids
    /\ yes \subseteq willed

QueueInv ==
    \A n \in 1 .. Len(queue) :
        queue[n].op = "approve" => Sent(queue[n].ids, queue[n].yes)
RouteInv == route.at # "idle" => Sent(route.ids, route.yes)
AskedOnce == \A B, C \in asked : \A c \in Calls : c \in B /\ c \in C => B = C
WilledAsked == \A c \in willed : \E B \in asked : c \in B
StartedInv ==
    /\ consumed \subseteq willed
    /\ \A c \in Calls : phase[c] # "none" \/ launches[c] # 0 => c \in consumed
    /\ \A c \in Calls : Alone(c) /\ phase[c] = "starting" => launches[c] = 0
    /\ AloneLaunchedOnce

Inv == TypeOK /\ QueueInv /\ RouteInv /\ AskedOnce /\ WilledAsked /\ StartedInv

\* Where the submissions are once the first is taken,
LEMMA TailShifts ==
    ASSUME TypeOK, queue # <<>>, queue' = Tail(queue)
    PROVE  /\ queue' \in Seq(Decision \cup Input)
           /\ \A n \in 1 .. Len(queue') :
                  n + 1 \in 1 .. Len(queue) /\ queue'[n] = queue[n + 1] /\ n + 1 # 1
<1> DEFINE S == Decision \cup Input
<1>1. queue \in Seq(S)
  BY DEF TypeOK
<1>2. /\ Tail(queue) \in Seq(S)
      /\ Len(Tail(queue)) = Len(queue) - 1
      /\ \A n \in 1 .. Len(Tail(queue)) : Tail(queue)[n] = queue[n + 1]
  BY <1>1, HeadTailProperties
<1>3. Len(queue) \in Nat
  BY <1>1
<1> QED BY <1>2, <1>3

\* and once another is submitted.
LEMMA AppendShifts ==
    ASSUME TypeOK, NEW o \in Decision \cup Input, Enqueue(o)
    PROVE  /\ queue' \in Seq(Decision \cup Input)
           /\ subs' \in Nat
           /\ \A n \in 1 .. Len(queue') :
                  \/ n \in 1 .. Len(queue) /\ queue'[n] = queue[n]
                  \/ n = Len(queue) + 1 /\ queue'[n] = o
<1> DEFINE S == Decision \cup Input
<1>1. queue \in Seq(S) /\ subs \in Nat
  BY DEF TypeOK
<1>2. queue' = Append(queue, o) /\ subs' = subs + 1
  BY DEF Enqueue
<1>3. /\ queue' \in Seq(S)
      /\ Len(queue') = Len(queue) + 1
      /\ queue'[Len(queue) + 1] = o
      /\ \A n \in 1 .. Len(queue) : queue'[n] = queue[n]
  BY <1>1, <1>2, AppendProperties
<1>4. Len(queue) \in Nat
  BY <1>1
<1>5. \A n \in 1 .. Len(queue') : n = Len(queue) + 1 \/ n \in 1 .. Len(queue)
  BY <1>3, <1>4
<1> QED BY <1>1, <1>2, <1>3, <1>5

\* Taking the first submission leaves decisions that were sent.
LEMMA TailInv ==
    ASSUME TypeOK, QueueInv, queue # <<>>, queue' = Tail(queue),
           asked \subseteq asked', willed \subseteq willed'
    PROVE  /\ queue' \in Seq(Decision \cup Input)
           /\ QueueInv'
BY TailShifts DEF QueueInv, Sent

\* The first submission, when it is a decision, was sent by the user.
LEMMA HeadInv ==
    ASSUME TypeOK, QueueInv, queue # <<>>, Head(queue).op = "approve"
    PROVE  Sent(Head(queue).ids, Head(queue).yes)
<1>1. queue \in Seq(Decision \cup Input)
  BY DEF TypeOK
<1>2. Head(queue) = queue[1] /\ 1 \in 1 .. Len(queue)
  BY <1>1
<1> QED BY <1>2 DEF QueueInv

\* submit appends an input, or a decision that was sent.
LEMMA AppendInv ==
    ASSUME TypeOK, QueueInv, NEW o \in Decision \cup Input, Enqueue(o),
           o.op = "approve" => Sent(o.ids, o.yes)',
           asked \subseteq asked', willed \subseteq willed'
    PROVE  /\ queue' \in Seq(Decision \cup Input)
           /\ subs' \in Nat
           /\ QueueInv'
BY AppendShifts DEF QueueInv, Sent

\* The queue and what the user did are kept, and so is what was sent.
LEMMA KeepQueue ==
    ASSUME QueueInv, UNCHANGED queue, asked \subseteq asked', willed \subseteq willed'
    PROVE  QueueInv'
BY DEF QueueInv, Sent

\* What adds results keeps their type.
LEMMA AnsweredType ==
    ASSUME TypeOK, NEW S
    PROVE  Answered(S) \in [Calls -> Nat]
BY DEF TypeOK, Answered

\* The steps of the user and of the routes.
LEMMA UserInv ==
    ASSUME Inv, UserStep
    PROVE  Inv'
<1> USE DEF Batches
<1>1. ASSUME NEW k \in {"text", "typed"}, SubmitInput(k) PROVE Inv'
  <2>1. [op |-> k] \in Decision \cup Input /\ [op |-> k].op # "approve"
    BY DEF Input
  <2>2. Enqueue([op |-> k]) /\ UNCHANGED <<userVars, memVars, taskVars, route,
                                           stored, crashes>>
    BY <1>1 DEF SubmitInput
  <2>3. queue' \in Seq(Decision \cup Input) /\ subs' \in Nat /\ QueueInv'
    BY <2>1, <2>2, AppendInv DEF Inv, userVars
  <2> QED BY <2>2, <2>3 DEF Inv, TypeOK, RouteInv, Sent, AskedOnce, WilledAsked,
             StartedInv, AloneLaunchedOnce, Alone, userVars, memVars, taskVars
<1>2. ASSUME NEW B \in asked, Expire(B) PROVE Inv'
  <2>1. QueueInv'
    BY <1>2, KeepQueue DEF Inv, Expire
  <2> QED BY <1>2, <2>1 DEF Expire, Inv, TypeOK, RouteInv, Sent, AskedOnce,
             WilledAsked, StartedInv, AloneLaunchedOnce, Alone, memVars, taskVars
<1>3. ASSUME NEW B \in asked, NEW ids \in SUBSET B, NEW Y \in SUBSET ids,
             SubmitDecision(B, ids, Y)
      PROVE  Inv'
  <2>1. /\ willed' = willed \cup Y
        /\ decided' = decided \cup {B}
        /\ UNCHANGED <<asked, expired, memVars, taskVars, stored, crashes>>
    BY <1>3 DEF SubmitDecision
  <2>2. ids \in Batches /\ Y \in Batches /\ Sent(ids, Y)'
    BY <2>1 DEF Inv, TypeOK, Sent
  <2>3. WilledAsked'
    BY <2>1 DEF Inv, WilledAsked
  <2>4. CASE pending # {}
    <3>1. Enqueue([op |-> "approve", ids |-> ids, yes |-> Y]) /\ UNCHANGED route
      BY <1>3, <2>4 DEF SubmitDecision
    <3>2. [op |-> "approve", ids |-> ids, yes |-> Y] \in Decision \cup Input
      BY <2>2 DEF Decision
    <3>3. queue' \in Seq(Decision \cup Input) /\ subs' \in Nat /\ QueueInv'
      BY <2>1, <2>2, <3>1, <3>2, AppendInv DEF Inv
    <3> QED BY <2>1, <2>2, <2>3, <3>1, <3>3
            DEF Inv, TypeOK, RouteInv, Sent, AskedOnce, StartedInv,
                AloneLaunchedOnce, Alone, memVars, taskVars
  <2>5. CASE pending = {}
    <3>1. /\ route' = [at |-> "load", ids |-> ids, yes |-> Y, read |-> {}]
          /\ UNCHANGED <<queue, subs>>
      BY <1>3, <2>5 DEF SubmitDecision
    <3>2. QueueInv'
      BY <2>1, <3>1, KeepQueue DEF Inv
    <3> QED BY <2>1, <2>2, <2>3, <3>1, <3>2
            DEF Inv, TypeOK, RouteInv, AskedOnce, StartedInv,
                AloneLaunchedOnce, Alone, memVars, taskVars
  <2> QED BY <2>4, <2>5
<1>4. CASE RouteLoads
  <2>1. QueueInv'
    BY <1>4, KeepQueue DEF Inv, RouteLoads, userVars
  <2> QED BY <1>4, <2>1 DEF RouteLoads, Inv, TypeOK, RouteInv, Sent, AskedOnce,
             WilledAsked, StartedInv, AloneLaunchedOnce, Alone, userVars, memVars,
             taskVars
<1>5. CASE RouteRestores
  <2>0. PICK o : o = [op |-> "approve", ids |-> route.ids, yes |-> route.yes]
    OBVIOUS
  <2>1. /\ Enqueue(o)
        /\ pending' = route.read /\ route' = NoRoute
        /\ UNCHANGED <<userVars, context, results, snapshot, waiting, consumed,
                       interrupted, taskVars, stored, crashes>>
    BY <1>5, <2>0 DEF RouteRestores
  <2>2. o \in Decision \cup Input
    BY <2>0 DEF Inv, TypeOK, Decision
  <2>3. Sent(o.ids, o.yes)'
    BY <1>5, <2>0, <2>1 DEF RouteRestores, Inv, RouteInv, Sent, userVars
  <2>4. queue' \in Seq(Decision \cup Input) /\ subs' \in Nat /\ QueueInv'
    BY <2>1, <2>2, <2>3, AppendInv DEF Inv, userVars
  <2> QED BY <2>1, <2>4 DEF Inv, TypeOK, RouteInv, NoRoute, AskedOnce, WilledAsked,
             StartedInv, AloneLaunchedOnce, Alone, userVars, taskVars
<1>6. CASE Interrupt
  <2>1. QueueInv'
    BY <1>6, KeepQueue DEF Inv, Interrupt, userVars
  <2> QED BY <1>6, <2>1 DEF Interrupt, Inv, TypeOK, RouteInv, Sent, AskedOnce,
             WilledAsked, StartedInv, AloneLaunchedOnce, Alone, userVars, taskVars
<1> QED BY <1>1, <1>2, <1>3, <1>4, <1>5, <1>6 DEF UserStep

\* What starts when a decision is taken was willed, and, asked for alone,
\* was not consumed before.
LEMMA GrantedFacts ==
    ASSUME Inv, TakeDecision
    PROVE  LET o == Head(queue) IN
           /\ Granted(o) \subseteq Calls
           /\ Granted(o) \subseteq willed
           /\ Granted(o) \cap expired = {}
           /\ Held \subseteq Calls
           /\ \A c \in Granted(o) : Alone(c) => c \notin consumed
<1> DEFINE o == Head(queue)
<1>1. queue # <<>> /\ o.op = "approve" /\ ~Duplicate(o)
  BY DEF TakeDecision
<1>2. Sent(o.ids, o.yes)
  BY <1>1, HeadInv DEF Inv
<1>3. Held \subseteq Calls
  BY DEF Held, Inv, TypeOK, Batches
<1>4. /\ Granted(o) \subseteq Calls
      /\ Granted(o) \subseteq willed
      /\ Granted(o) \cap expired = {}
  BY <1>2, <1>3 DEF Granted, Sent
<1>5. ASSUME NEW c \in Granted(o), Alone(c) PROVE c \notin consumed
  <2>1. PICK B \in asked : o.ids \subseteq B
    BY <1>2 DEF Sent
  <2>2. c \in o.ids /\ c \in Calls /\ {c} \in asked
    BY <1>2, <1>4, <1>5 DEF Granted, Sent, Alone
  <2>3. B = {c}
    BY <2>1, <2>2 DEF Inv, AskedOnce
  <2>4. o.ids \subseteq {c}
    BY <2>1, <2>3
  <2> QED BY <1>1, <1>5, <2>2, <2>4 DEF Duplicate
<1> QED BY <1>3, <1>4, <1>5

\* Operations on approvals.
LEMMA ExecInv ==
    ASSUME Inv, TakeDecision \/ IgnoreDecision \/ ExecInterrupted \/ ExecResults
                \/ \E c \in Calls : ToolStep(c)
    PROVE  Inv'
<1> USE DEF Batches
<1>1. CASE TakeDecision
  <2>0. PICK o : o = Head(queue)
    OBVIOUS
  <2>1. PICK G : G = Granted(o)
    OBVIOUS
  <2>2. /\ G \subseteq Calls /\ G \subseteq willed /\ Held \subseteq Calls
        /\ \A c \in G : Alone(c) => c \notin consumed
    BY <1>1, <2>0, <2>1, GrantedFacts
  <2>3. /\ queue # <<>> /\ queue' = Tail(queue)
        /\ phase' = [c \in Calls |-> IF c \in G THEN "starting" ELSE "none"]
        /\ refused' = Held \ G
        /\ consumed' = consumed \cup G
        /\ pending' = {} /\ snapshot' = {} /\ waiting' = FALSE
        /\ reply' = "none" /\ pc' = "exec"
        /\ UNCHANGED <<userVars, context, results, interrupted, iteration,
                       launches, subs, route, stored, crashes>>
    BY <1>1, <2>0, <2>1 DEF TakeDecision, Consume, ForgetPending
  <2>4. queue' \in Seq(Decision \cup Input) /\ QueueInv'
    BY <2>3, TailInv DEF Inv, userVars
  <2>5. TypeOK'
    BY <2>2, <2>3, <2>4 DEF Inv, TypeOK, userVars
  <2>6. StartedInv'
    BY <2>2, <2>3 DEF Inv, StartedInv, AloneLaunchedOnce, Alone, TypeOK, userVars
  <2> QED BY <2>3, <2>4, <2>5, <2>6
          DEF Inv, RouteInv, Sent, AskedOnce, WilledAsked, userVars
<1>2. CASE IgnoreDecision
  <2>1. queue # <<>> /\ queue' = Tail(queue) /\ UNCHANGED userVars
    BY <1>2 DEF IgnoreDecision
  <2>2. queue' \in Seq(Decision \cup Input) /\ QueueInv'
    BY <2>1, TailInv DEF Inv, userVars
  <2> QED BY <1>2, <2>2 DEF IgnoreDecision, Inv, TypeOK, RouteInv, Sent, AskedOnce,
             WilledAsked, StartedInv, AloneLaunchedOnce, Alone, userVars, memVars
<1>3. CASE ExecInterrupted
  <2>1. QueueInv'
    BY <1>3, KeepQueue DEF Inv, ExecInterrupted, userVars
  <2> QED BY <1>3, <2>1 DEF ExecInterrupted, Inv, TypeOK, RouteInv, Sent, AskedOnce,
             WilledAsked, StartedInv, AloneLaunchedOnce, Alone, userVars, memVars
<1>4. CASE ExecResults
  <2>1. QueueInv'
    BY <1>4, KeepQueue DEF Inv, ExecResults, userVars
  <2>2. results' \in [Calls -> Nat]
    BY <1>4, AnsweredType DEF Inv, ExecResults
  <2>3. 0 \in 0 .. MaxIterations
    BY ApprovalAssumption
  <2> QED BY <1>4, <2>1, <2>2, <2>3 DEF ExecResults, Inv, TypeOK, RouteInv, Sent,
             AskedOnce, WilledAsked, StartedInv, AloneLaunchedOnce, Alone, userVars
<1>5. ASSUME NEW c \in Calls, ToolStarts(c) PROVE Inv'
  <2>1. QueueInv'
    BY <1>5, KeepQueue DEF Inv, ToolStarts, userVars
  <2>2. /\ phase[c] = "starting"
        /\ phase' = [phase EXCEPT ![c] = "running"]
        /\ launches' = [launches EXCEPT ![c] = @ + 1]
        /\ UNCHANGED <<asked, willed, consumed>>
    BY <1>5 DEF ToolStarts, userVars, memVars
  <2>3. StartedInv'
    <3>1. c \in consumed /\ (Alone(c) => launches[c] = 0)
      BY <2>2 DEF Inv, StartedInv
    <3>2. /\ phase'[c] = "running" /\ launches'[c] = launches[c] + 1
          /\ \A d \in Calls : d # c => phase'[d] = phase[d] /\ launches'[d] = launches[d]
      BY <2>2 DEF Inv, TypeOK
    <3>3. \A d \in Calls : Alone(d)' = Alone(d)
      BY <2>2 DEF Alone
    <3>4. AloneLaunchedOnce'
      BY <3>1, <3>2, <3>3 DEF AloneLaunchedOnce, Inv, StartedInv
    <3>5. \A d \in Calls : Alone(d)' /\ phase'[d] = "starting" => launches'[d] = 0
      BY <3>2, <3>3 DEF Inv, StartedInv
    <3>6. \A d \in Calls : phase'[d] # "none" \/ launches'[d] # 0 => d \in consumed'
      BY <2>2, <3>1, <3>2 DEF Inv, StartedInv
    <3> QED BY <2>2, <3>4, <3>5, <3>6 DEF Inv, StartedInv
  <2> QED BY <1>5, <2>1, <2>3 DEF ToolStarts, Inv, TypeOK, RouteInv, Sent,
             AskedOnce, WilledAsked, userVars, memVars
<1>6. ASSUME NEW c \in Calls, ToolEnds(c) PROVE Inv'
  <2>1. QueueInv'
    BY <1>6, KeepQueue DEF Inv, ToolEnds, userVars
  <2>2. \E p \in {"done", "failed"} : phase' = [phase EXCEPT ![c] = p]
    BY <1>6 DEF ToolEnds
  <2>3. phase[c] # "none" /\ UNCHANGED <<asked, willed, consumed, launches>>
    BY <1>6 DEF ToolEnds, userVars, memVars
  <2>4. StartedInv'
    BY <2>2, <2>3 DEF Inv, StartedInv, AloneLaunchedOnce, Alone, TypeOK
  <2> QED BY <1>6, <2>1, <2>2, <2>4 DEF ToolEnds, Inv, TypeOK, RouteInv, Sent,
             AskedOnce, WilledAsked, userVars, memVars
<1> QED BY <1>1, <1>2, <1>3, <1>4, <1>5, <1>6 DEF ToolStep

\* The agent loop, the snapshot and the restart of the process.
LEMMA TurnInv ==
    ASSUME Inv, TakeInput \/ CallModel \/ AskStep \/ ModelGoesOn \/ TurnEnds
                \/ TurnFails \/ TurnInterrupted \/ Save \/ Crash
    PROVE  Inv'
<1> USE DEF Batches
<1>1. CASE TakeInput
  <2>1. queue # <<>> /\ queue' = Tail(queue) /\ UNCHANGED userVars
    BY <1>1 DEF TakeInput
  <2>2. queue' \in Seq(Decision \cup Input) /\ QueueInv'
    BY <2>1, TailInv DEF Inv, userVars
  <2>3. /\ results' \in [Calls -> Nat]
        /\ pending' \subseteq Calls
        /\ reply' \in {"none", "error"}
        /\ pc' \in {"turn", "saving"}
    BY <1>1, AnsweredType DEF TakeInput, Inv, TypeOK
  <2>4. /\ interrupted' = FALSE /\ iteration' = 0
        /\ UNCHANGED <<userVars, context, snapshot, waiting, consumed, phase,
                       refused, launches, subs, route, stored, crashes>>
    BY <1>1 DEF TakeInput
  <2>5. 0 \in 0 .. MaxIterations
    BY ApprovalAssumption
  <2>6. TypeOK'
    BY <2>2, <2>3, <2>4, <2>5 DEF Inv, TypeOK, userVars
  <2> QED BY <2>2, <2>4, <2>6
          DEF Inv, RouteInv, Sent, AskedOnce, WilledAsked, StartedInv,
              AloneLaunchedOnce, Alone, userVars
<1>2. CASE CallModel
  <2>1. QueueInv'
    BY <1>2, KeepQueue DEF Inv, CallModel, userVars
  <2>2. results' \in [Calls -> Nat]
    BY <1>2, AnsweredType DEF Inv, CallModel
  <2>3. iteration' \in 0 .. MaxIterations
    BY <1>2, ApprovalAssumption DEF CallModel, Inv, TypeOK
  <2> QED BY <1>2, <2>1, <2>2, <2>3 DEF CallModel, Inv, TypeOK, RouteInv, Sent,
             AskedOnce, WilledAsked, StartedInv, AloneLaunchedOnce, Alone, userVars
<1>3. ASSUME NEW S \in SUBSET Fresh, ModelAsks(S) PROVE Inv'
  <2>1. /\ S # {} /\ S \subseteq Calls
        /\ \A c \in S : \A B \in asked : c \notin B
    BY <1>3 DEF Fresh, ModelAsks
  <2>2. /\ asked' = asked \cup {S} /\ context' = context \cup S
        /\ pending' = S /\ snapshot' = S /\ waiting' = TRUE
        /\ reply' = "approval_required" /\ pc' = "saving"
        /\ UNCHANGED <<expired, willed, decided, results, consumed, interrupted,
                       iteration, phase, refused, launches, queue, subs, route,
                       stored, crashes>>
    BY <1>3 DEF ModelAsks
  <2>3. QueueInv' /\ RouteInv'
    BY <2>2, KeepQueue DEF Inv, RouteInv, Sent
  <2>4. TypeOK'
    BY <2>1, <2>2 DEF Inv, TypeOK
  <2>5. AskedOnce' /\ WilledAsked'
    BY <2>1, <2>2 DEF Inv, AskedOnce, WilledAsked
  <2>6. \A c \in S : c \notin consumed
    BY <2>1 DEF Inv, StartedInv, WilledAsked
  <2>7. \A c \in Calls : Alone(c)' => Alone(c) \/ c \in S
    BY <2>2 DEF Alone
  <2>8. StartedInv'
    BY <2>2, <2>6, <2>7 DEF Inv, StartedInv, AloneLaunchedOnce, TypeOK
  <2> QED BY <2>3, <2>4, <2>5, <2>8 DEF Inv
<1>4. CASE ModelGoesOn
  <2>1. QueueInv'
    BY <1>4, KeepQueue DEF Inv, ModelGoesOn, userVars
  <2> QED BY <1>4, <2>1 DEF ModelGoesOn, Inv, TypeOK, RouteInv, Sent, AskedOnce,
             WilledAsked, StartedInv, AloneLaunchedOnce, Alone, userVars, memVars
<1>5. CASE TurnEnds \/ TurnFails \/ TurnInterrupted
  <2>1. PICK r \in {"none", "turn_complete", "approval_required", "error",
                    "interrupted"} : EndOp(r)
    BY <1>5 DEF TurnEnds, TurnFails, TurnInterrupted, Inv, TypeOK
  <2>2. UNCHANGED <<memVars, iteration>>
    BY <1>5 DEF TurnEnds, TurnFails, TurnInterrupted
  <2>3. QueueInv'
    BY <2>1, KeepQueue DEF Inv, EndOp, userVars
  <2> QED BY <2>1, <2>2, <2>3 DEF EndOp, Inv, TypeOK, RouteInv, Sent, AskedOnce,
             WilledAsked, StartedInv, AloneLaunchedOnce, Alone, userVars, memVars
<1>6. CASE Save
  <2>1. QueueInv'
    BY <1>6, KeepQueue DEF Inv, Save, userVars
  <2>2. stored' \in [pending: Batches, context: Batches, results: [Calls -> Nat]]
    BY <1>6 DEF Save, SnapshotNow, Inv, TypeOK
  <2> QED BY <1>6, <2>1, <2>2 DEF Save, Inv, TypeOK, RouteInv, Sent, AskedOnce,
             WilledAsked, StartedInv, AloneLaunchedOnce, Alone, userVars, memVars
<1>7. CASE Crash
  <2>1. queue' = <<>> /\ queue' \in Seq(Decision \cup Input) /\ QueueInv'
    BY <1>7 DEF Crash, QueueInv
  <2>2. /\ 0 \in 0 .. MaxIterations
        /\ stored.pending \in Batches /\ stored.context \in Batches
        /\ stored.results \in [Calls -> Nat]
        /\ NoRoute \in [at: {"idle", "load", "assign"}, ids: Batches, yes: Batches,
                        read: Batches]
    BY ApprovalAssumption DEF Inv, TypeOK, NoRoute
  <2>3. TypeOK'
    <3>1. /\ context' \in Batches /\ results' \in [Calls -> Nat]
          /\ pending' \in Batches /\ snapshot' \in Batches
          /\ waiting' \in BOOLEAN /\ consumed' \in Batches
          /\ interrupted' \in BOOLEAN /\ refused' \in Batches
      BY <1>7, <2>2 DEF Crash
    <3>2. /\ pc' = "idle" /\ iteration' \in 0 .. MaxIterations /\ reply' = "none"
          /\ phase' \in [Calls -> {"none", "starting", "running", "done", "failed"}]
          /\ launches' \in [Calls -> Nat]
      BY <1>7, <2>2 DEF Crash
    <3>3. /\ crashes' \in Nat
          /\ route' \in [at: {"idle", "load", "assign"}, ids: Batches,
                         yes: Batches, read: Batches]
          /\ UNCHANGED <<userVars, subs, stored>>
      BY <1>7, <2>2 DEF Crash, Inv, TypeOK
    <3> QED BY <2>1, <3>1, <3>2, <3>3 DEF Inv, TypeOK, userVars
  <2> QED BY <1>7, <2>1, <2>3 DEF Crash, Inv, RouteInv, NoRoute, AskedOnce,
             WilledAsked, StartedInv, AloneLaunchedOnce, Alone, userVars
<1> QED BY <1>1, <1>2, <1>3, <1>4, <1>5, <1>6, <1>7 DEF AskStep

\* The invariant holds at first, and every step keeps it.
THEOREM ApprovalInvariance == Spec => []Inv
<1>1. Init => Inv
  <2> SUFFICES ASSUME Init PROVE Inv
    OBVIOUS
  <2>1. /\ 0 \in 0 .. MaxIterations
        /\ queue \in Seq(Decision \cup Input)
        /\ NoRoute \in [at: {"idle", "load", "assign"}, ids: Batches, yes: Batches,
                        read: Batches]
    BY ApprovalAssumption DEF Init, NoRoute, Batches
  <2>2. results \in [Calls -> Nat] /\ launches \in [Calls -> Nat]
    BY DEF Init
  <2>3. TypeOK
    BY <2>1, <2>2 DEF Init, TypeOK, Batches
  <2> QED BY <2>3 DEF Init, Inv, NoRoute, QueueInv, RouteInv, AskedOnce,
             WilledAsked, StartedInv, AloneLaunchedOnce, Alone
<1>2. Inv /\ [Next]_vars => Inv'
  <2> SUFFICES ASSUME Inv, [Next]_vars PROVE Inv'
    OBVIOUS
  <2>1. CASE UNCHANGED vars
    BY <2>1, KeepQueue DEF vars, userVars, memVars, taskVars, Inv, TypeOK, RouteInv,
       Sent, AskedOnce, WilledAsked, StartedInv, AloneLaunchedOnce, Alone
  <2>2. CASE Next
    BY <2>2, UserInv, ExecInv, TurnInv DEF Next, TaskStep
  <2> QED BY <2>1, <2>2
<1> QED BY <1>1, <1>2, PTL DEF Spec

(* The types of the memory, the task, the route and the store.             *)
THEOREM ApprovalTypeCorrect == Spec => []TypeOK
<1>1. Inv => TypeOK  BY DEF Inv
<1> QED BY <1>1, ApprovalInvariance, PTL

(* Whatever users, routes, store and restarts do, a call asked for on its  *)
(* own is launched at most once by one process, for every number of calls, *)
(* submissions and restarts (exec_approval, submit_approval).              *)
THEOREM AloneIsLaunchedOnce == Spec => []AloneLaunchedOnce
<1>1. Inv => AloneLaunchedOnce
  BY DEF Inv, StartedInv
<1> QED BY <1>1, ApprovalInvariance, PTL

(* exec_approval starts nothing that the user has not approved himself, or *)
(* whose approval has expired when the decision is taken.                  *)
THEOREM OnlyApprovedIsStarted == Spec => OnlyApprovedStarts
<1> DEFINE A == \A c \in Calls :
                   phase[c] # "starting" /\ phase'[c] = "starting"
                       => c \in willed /\ c \notin expired
<1>1. Inv /\ [Next]_vars => A
  <2> SUFFICES ASSUME Inv, [Next]_vars, NEW c \in Calls,
                      phase[c] # "starting", phase'[c] = "starting"
               PROVE  c \in willed /\ c \notin expired
    OBVIOUS
  <2>1. CASE TakeDecision
    <3>1. phase'[c] = IF c \in Granted(Head(queue)) THEN "starting" ELSE "none"
      BY <2>1 DEF TakeDecision
    <3>2. c \in Granted(Head(queue))
      BY <3>1
    <3> QED BY <2>1, <3>2, GrantedFacts
  <2>2. CASE UNCHANGED phase
    BY <2>2
  <2>3. CASE ExecInterrupted \/ ExecResults \/ Crash
    BY <2>3 DEF ExecInterrupted, ExecResults, Crash
  <2>4. CASE \E d \in Calls : ToolStep(d)
    BY <2>4 DEF ToolStep, ToolStarts, ToolEnds, Inv, TypeOK
  <2>5. CASE UserStep
    BY <2>2, <2>5 DEF UserStep, SubmitInput, SubmitDecision, RouteLoads,
       RouteRestores, Interrupt, Expire, taskVars
  <2>6. CASE TakeInput \/ IgnoreDecision \/ CallModel \/ AskStep \/ ModelGoesOn
             \/ TurnEnds \/ TurnFails \/ TurnInterrupted \/ Save
    BY <2>2, <2>6 DEF TakeInput, IgnoreDecision, CallModel, AskStep, ModelAsks,
       ModelGoesOn, TurnEnds, TurnFails, TurnInterrupted, EndOp, Save
  <2> QED BY <2>1, <2>2, <2>3, <2>4, <2>5, <2>6 DEF Next, TaskStep, vars, taskVars
<1>2. Spec => [][A]_vars
  BY <1>1, ApprovalInvariance, PTL DEF Spec
<1> QED BY <1>2 DEF OnlyApprovedStarts

-----------------------------------------------------------------------------
(***************************************************************************)
(* A user who answers what he is asked, once, and says nothing else until  *)
(* then.  Interrupts, writes that fail and restarts remain.                *)
(***************************************************************************)
Orderly == "abandon" \notin Faults /\ "resend" \notin Faults

\* One decision is queued at most, on what is pending; a message is alone.
QueueOrderly ==
    /\ \A n \in 1 .. Len(queue) :
           /\ queue[n].op = "approve" =>
                  pending # {} /\ queue[n].ids = pending /\ pending \in decided
           /\ queue[n].op = "text" => n = 1 /\ pending = {} /\ pc = "idle"
    /\ \A m, n \in 1 .. Len(queue) :
           queue[m].op = "approve" /\ queue[n].op = "approve" => m = n

\* What is pending is all that is held, was not consumed and has no results.
PendingOrderly ==
    /\ route.at = "idle"
    /\ {} \notin asked
    /\ pending # {} => pc \in {"idle", "saving"} /\ pending \in asked
    /\ snapshot \in {{}, pending}
    /\ waiting => pending # {}
    /\ \A c \in pending : c \notin consumed /\ results[c] = 0
    /\ stored.pending # {} => stored.pending \in asked
    /\ \A c \in stored.pending : stored.results[c] = 0

\* Nothing has a result before it was asked for, or while it is executed.
ResultsOrderly ==
    /\ \A c \in Calls : results[c] <= 1 /\ stored.results[c] <= 1
    /\ \A c \in Fresh : /\ c \notin context /\ results[c] = 0
                        /\ c \notin stored.context /\ stored.results[c] = 0
    /\ \A c \in Calls : phase[c] # "none" \/ c \in refused =>
           pc = "exec" /\ c \notin Fresh /\ results[c] = 0

\* What is undecided is pending, in memory and in the document.
UndecidedOrderly ==
    \A B \in asked \ decided :
        /\ B \subseteq context => pending = B
        /\ B \subseteq stored.context => stored.pending = B

OrderlyInv ==
    /\ QueueOrderly /\ PendingOrderly /\ ResultsOrderly /\ UndecidedOrderly
    /\ EveryOperationAnswers

\* The first submission is taken, and a decision with what is pending.
LEMMA TailOrderly ==
    ASSUME TypeOK, QueueOrderly, queue # <<>>, queue' = Tail(queue), UNCHANGED decided,
           Head(queue).op # "approve" => UNCHANGED pending
    PROVE  QueueOrderly'
<1>1. \A n \in 1 .. Len(queue') :
          n + 1 \in 1 .. Len(queue) /\ queue'[n] = queue[n + 1] /\ n + 1 # 1
  BY TailShifts
<1>2. 1 \in 1 .. Len(queue) /\ Head(queue) = queue[1]
  BY DEF TypeOK
<1>3. \A n \in 1 .. Len(queue') : queue'[n].op # "text"
  BY <1>1 DEF QueueOrderly
<1>4. ASSUME NEW n \in 1 .. Len(queue'), queue'[n].op = "approve"
      PROVE  pending' # {} /\ queue'[n].ids = pending' /\ pending' \in decided'
  <2>1. n + 1 \in 1 .. Len(queue) /\ queue[n + 1].op = "approve" /\ n + 1 # 1
    BY <1>1, <1>4
  <2>2. queue[1].op # "approve"
    BY <1>2, <2>1 DEF QueueOrderly
  <2> QED BY <1>1, <1>2, <2>1, <2>2 DEF QueueOrderly
<1>5. ASSUME NEW m \in 1 .. Len(queue'), NEW n \in 1 .. Len(queue'),
             queue'[m].op = "approve", queue'[n].op = "approve"
      PROVE  m = n
  <2>1. m + 1 = n + 1
    BY <1>1, <1>5 DEF QueueOrderly
  <2> QED BY <2>1
<1> QED BY <1>3, <1>4, <1>5 DEF QueueOrderly

\* The user and the routes.
LEMMA UserOrderly ==
    ASSUME Orderly, Inv, OrderlyInv, UserStep
    PROVE  OrderlyInv'
<1> USE DEF Inv, OrderlyInv
<1>1. ASSUME NEW k \in {"text", "typed"}, SubmitInput(k) PROVE OrderlyInv'
  <2>1. /\ Enqueue([op |-> k])
        /\ k = "typed" \/ (pc = "idle" /\ queue = <<>> /\ pending = {})
        /\ UNCHANGED <<userVars, memVars, taskVars, route, stored, crashes>>
    BY <1>1 DEF SubmitInput, Orderly
  <2>2. \A n \in 1 .. Len(queue') :
            \/ n \in 1 .. Len(queue) /\ queue'[n] = queue[n]
            \/ n = Len(queue) + 1 /\ queue'[n] = [op |-> k]
    BY <2>1, AppendShifts DEF Input
  <2>3. QueueOrderly'
    <3>1. CASE k = "typed"
      BY <2>1, <2>2, <3>1 DEF QueueOrderly, userVars, memVars, taskVars
    <3>2. CASE k = "text" /\ queue = <<>> /\ pc = "idle" /\ pending = {}
      <4>1. Len(queue) = 0
        BY <3>2
      <4> QED BY <2>1, <2>2, <3>2, <4>1 DEF QueueOrderly, userVars, memVars, taskVars
    <3> QED BY <2>1, <3>1, <3>2
  <2> QED BY <2>1, <2>3 DEF PendingOrderly, ResultsOrderly, UndecidedOrderly, Fresh,
             EveryOperationAnswers, userVars, memVars, taskVars
<1>2. ASSUME NEW B \in asked, Expire(B) PROVE OrderlyInv'
  BY <1>2 DEF Expire, QueueOrderly, PendingOrderly, ResultsOrderly, UndecidedOrderly,
     Fresh, EveryOperationAnswers, memVars, taskVars
<1>3. ASSUME NEW B \in asked, NEW ids \in SUBSET B, NEW Y \in SUBSET ids,
             SubmitDecision(B, ids, Y)
      PROVE  OrderlyInv'
  <2>1. B = pending /\ ids = B /\ ids # {} /\ ~InQueue(B)
    <3>1. MayDecide(B, ids)
      BY <1>3 DEF SubmitDecision
    <3> QED BY <3>1 DEF MayDecide, Orderly
  <2>2. /\ Enqueue([op |-> "approve", ids |-> ids, yes |-> Y])
        /\ decided' = decided \cup {B}
        /\ UNCHANGED <<asked, expired, memVars, taskVars, stored, crashes, route>>
    BY <1>3, <2>1 DEF SubmitDecision
  <2>3. [op |-> "approve", ids |-> ids, yes |-> Y] \in Decision
    BY DEF Decision, TypeOK, Batches
  <2>4. \A n \in 1 .. Len(queue') :
            \/ n \in 1 .. Len(queue) /\ queue'[n] = queue[n]
            \/ n = Len(queue) + 1 /\ queue'[n] = [op |-> "approve", ids |-> ids, yes |-> Y]
    BY <2>2, <2>3, AppendShifts
  <2>5. \A n \in 1 .. Len(queue) : queue[n].op # "approve"
    <3>1. DOMAIN queue = 1 .. Len(queue)
      BY DEF TypeOK
    <3> QED BY <2>1, <3>1 DEF InQueue, QueueOrderly
  <2>6. QueueOrderly'
    BY <2>1, <2>2, <2>4, <2>5 DEF QueueOrderly, memVars, taskVars
  <2> QED BY <2>2, <2>6 DEF PendingOrderly, ResultsOrderly, UndecidedOrderly, Fresh,
             EveryOperationAnswers, memVars, taskVars
<1>4. CASE RouteLoads \/ RouteRestores
  BY <1>4 DEF RouteLoads, RouteRestores, PendingOrderly
<1>5. CASE Interrupt
  BY <1>5 DEF Interrupt, QueueOrderly, PendingOrderly, ResultsOrderly, UndecidedOrderly,
     Fresh, EveryOperationAnswers, userVars, taskVars
<1> QED BY <1>1, <1>2, <1>3, <1>4, <1>5 DEF UserStep

\* What the task takes from its queue.
LEMMA TakeOrderly ==
    ASSUME Inv, OrderlyInv, TakeInput \/ IgnoreDecision \/ TakeDecision
    PROVE  OrderlyInv'
<1> USE DEF Inv, OrderlyInv
<1>1. queue # <<>> /\ 1 \in 1 .. Len(queue) /\ Head(queue) = queue[1] /\ queue' = Tail(queue)
  BY DEF TypeOK, TakeInput, IgnoreDecision, TakeDecision
<1>2. CASE TakeInput
  <2>1. CASE Head(queue).op = "typed" /\ pending # {}
    <3>1. QueueOrderly'
      BY <1>1, <1>2, <2>1, TailOrderly DEF TakeInput, userVars
    <3> QED BY <1>2, <2>1, <3>1 DEF TakeInput, PendingOrderly, ResultsOrderly,
               UndecidedOrderly, Fresh, EveryOperationAnswers, userVars
  <2>2. CASE ~(Head(queue).op = "typed" /\ pending # {})
    <3>1. pending = {} /\ pending' = {} /\ pc' = "turn" /\ results' = Answered({})
      BY <1>1, <1>2, <2>2 DEF TakeInput, QueueOrderly
    <3>2. results' = results
      BY <3>1 DEF Answered, TypeOK
    <3>3. QueueOrderly'
      BY <1>1, <1>2, <3>1, TailOrderly DEF TakeInput, userVars
    <3> QED BY <1>2, <3>1, <3>2, <3>3 DEF TakeInput, PendingOrderly, ResultsOrderly,
               UndecidedOrderly, Fresh, EveryOperationAnswers, userVars
  <2> QED BY <2>1, <2>2
<1>3. Head(queue).op = "approve" => Head(queue).ids = pending /\ pending # {}
  BY <1>1 DEF QueueOrderly
<1>4. CASE IgnoreDecision
  BY <1>3, <1>4 DEF IgnoreDecision, Duplicate, Held, PendingOrderly
<1>5. CASE TakeDecision
  <2>1. pending # {} /\ pending \in decided /\ Held = pending
    BY <1>1, <1>5 DEF TakeDecision, QueueOrderly, Held
  <2>2. /\ pending' = {} /\ snapshot' = {} /\ waiting' = FALSE
        /\ refused' = pending \ Granted(Head(queue))
        /\ Granted(Head(queue)) \subseteq pending
        /\ phase' = [c \in Calls |-> IF c \in Granted(Head(queue)) THEN "starting" ELSE "none"]
        /\ pc = "idle" /\ pc' = "exec"
        /\ UNCHANGED <<userVars, context, results, route, stored>>
    BY <1>5, <2>1 DEF TakeDecision, ForgetPending, Granted
  <2>3. QueueOrderly'
    BY <1>1, <1>5, <2>2, TailOrderly DEF TakeDecision, userVars
  <2>4. PendingOrderly'
    BY <2>2 DEF PendingOrderly, userVars
  <2>5. ResultsOrderly'
    BY <2>2 DEF PendingOrderly, ResultsOrderly, Fresh, userVars
  <2>6. UndecidedOrderly' /\ EveryOperationAnswers'
    BY <2>1, <2>2 DEF UndecidedOrderly, EveryOperationAnswers, userVars
  <2> QED BY <2>3, <2>4, <2>5, <2>6
<1> QED BY <1>2, <1>4, <1>5

\* What the task does with what it took.
LEMMA TaskOrderly ==
    ASSUME Inv, OrderlyInv,
           \/ ExecInterrupted \/ ExecResults \/ CallModel \/ AskStep \/ ModelGoesOn
           \/ TurnEnds \/ TurnFails \/ TurnInterrupted \/ Save
           \/ \E c \in Calls : ToolStep(c)
    PROVE  OrderlyInv'
<1> USE DEF Inv, OrderlyInv, userVars, memVars, taskVars
<1>1. CASE ExecInterrupted
  BY <1>1 DEF ExecInterrupted, QueueOrderly, PendingOrderly, ResultsOrderly,
     UndecidedOrderly, Fresh, EveryOperationAnswers
<1>2. CASE ExecResults
  <2>1. results' = Answered(InPhase("done") \cup refused)
    BY <1>2 DEF ExecResults
  <2>2. \A c \in Calls : c \in InPhase("done") \cup refused => results[c] = 0
    BY DEF InPhase, ResultsOrderly
  <2>3. \A c \in Calls : c \in InPhase("done") \cup refused => c \notin Fresh
    BY DEF InPhase, ResultsOrderly
  <2>4. /\ \A c \in Calls : results'[c] <= 1
        /\ \A c \in Fresh : results'[c] = results[c]
    BY <2>1, <2>2, <2>3 DEF Answered, ResultsOrderly, TypeOK, Fresh
  <2>5. ResultsOrderly'
    BY <1>2, <2>4 DEF ExecResults, ResultsOrderly, Fresh
  <2>6. pc = "exec" /\ pending = {} /\ pending' = {}
    BY <1>2 DEF ExecResults, PendingOrderly
  <2>7. QueueOrderly' /\ PendingOrderly'
    BY <1>2, <2>6 DEF ExecResults, QueueOrderly, PendingOrderly
  <2> QED BY <1>2, <2>5, <2>7 DEF ExecResults, UndecidedOrderly, EveryOperationAnswers
<1>3. CASE CallModel
  <2>1. results' = Answered(Dangling) /\ pending = {}
    BY <1>3 DEF CallModel, PendingOrderly
  <2>2. \A c \in Calls : c \in Dangling => results[c] = 0 /\ c \notin Fresh
    BY DEF Dangling, ResultsOrderly
  <2>3. /\ \A c \in Calls : results'[c] <= 1
        /\ \A c \in Fresh : results'[c] = results[c]
    BY <2>1, <2>2 DEF Answered, ResultsOrderly, TypeOK, Fresh
  <2>4. \A c \in Calls : phase[c] = "none" /\ c \notin refused
    BY <1>3 DEF CallModel, ResultsOrderly
  <2>5. ResultsOrderly'
    BY <1>3, <2>3, <2>4 DEF CallModel, ResultsOrderly, Fresh
  <2>6. QueueOrderly' /\ PendingOrderly'
    BY <1>3, <2>1 DEF CallModel, QueueOrderly, PendingOrderly
  <2> QED BY <1>3, <2>5, <2>6 DEF CallModel, UndecidedOrderly, EveryOperationAnswers
<1>4. ASSUME NEW S \in SUBSET Fresh, ModelAsks(S) PROVE OrderlyInv'
  <2>1. /\ S # {} /\ pc = "model" /\ pending = {} /\ S \cap consumed = {}
        /\ asked' = asked \cup {S} /\ pending' = S /\ snapshot' = S
        /\ context' = context \cup S /\ pc' = "saving"
        /\ UNCHANGED <<decided, results, consumed, queue, stored, phase, refused, route>>
    BY <1>4 DEF ModelAsks, PendingOrderly, StartedInv, WilledAsked, Fresh, TypeOK, Batches
  <2>2. Fresh' \subseteq Fresh /\ Fresh' \cap S = {}
    BY <2>1 DEF Fresh
  <2>3. QueueOrderly'
    BY <2>1 DEF QueueOrderly
  <2>4. PendingOrderly'
    BY <1>4, <2>1 DEF PendingOrderly, ResultsOrderly, ModelAsks, Fresh
  <2>5. ResultsOrderly'
    BY <2>1, <2>2 DEF ResultsOrderly
  <2>6. UndecidedOrderly'
    <3>1. PICK s : s \in S
      BY <2>1
    <3>2. s \notin context /\ s \notin stored.context
      BY <3>1 DEF Fresh, ResultsOrderly
    <3>3. ASSUME NEW B \in asked \ decided, B \subseteq context' PROVE FALSE
      <4>1. B \cap S = {} /\ B \subseteq context
        BY <2>1, <3>3 DEF Fresh
      <4>2. B = {}
        BY <2>1, <4>1 DEF UndecidedOrderly
      <4> QED BY <4>2 DEF PendingOrderly
    <3> QED BY <2>1, <3>1, <3>2, <3>3 DEF UndecidedOrderly
  <2>7. EveryOperationAnswers'
    BY <1>4 DEF ModelAsks, EveryOperationAnswers
  <2> QED BY <2>3, <2>4, <2>5, <2>6, <2>7
<1>5. CASE ModelGoesOn \/ TurnEnds \/ TurnFails \/ TurnInterrupted
  BY <1>5 DEF ModelGoesOn, TurnEnds, TurnFails, TurnInterrupted, EndOp, QueueOrderly,
     PendingOrderly, ResultsOrderly, UndecidedOrderly, Fresh, EveryOperationAnswers
<1>6. CASE Save
  <2>1. UNCHANGED <<userVars, memVars, phase, refused, queue, route>> /\ pc' = "idle"
    BY <1>6 DEF Save
  <2>2. CASE UNCHANGED stored
    BY <1>6, <2>1, <2>2 DEF Save, QueueOrderly, PendingOrderly, ResultsOrderly,
       UndecidedOrderly, Fresh, EveryOperationAnswers
  <2>3. CASE stored' = SnapshotNow
    BY <1>6, <2>1, <2>3 DEF Save, SnapshotNow, QueueOrderly, PendingOrderly,
       ResultsOrderly, UndecidedOrderly, Fresh, EveryOperationAnswers
  <2> QED BY <1>6, <2>2, <2>3 DEF Save
<1>7. ASSUME NEW c \in Calls, ToolStep(c) PROVE OrderlyInv'
  BY <1>7 DEF ToolStep, ToolStarts, ToolEnds, QueueOrderly, PendingOrderly,
     ResultsOrderly, UndecidedOrderly, Fresh, EveryOperationAnswers, TypeOK
<1> QED BY <1>1, <1>2, <1>3, <1>4, <1>5, <1>6, <1>7 DEF AskStep

\* A restart goes back to a document that was as orderly.
LEMMA CrashOrderly ==
    ASSUME Inv, OrderlyInv, Crash
    PROVE  OrderlyInv'
<1> USE DEF Inv, OrderlyInv, Crash, userVars
<1>1. QueueOrderly' /\ EveryOperationAnswers'
  BY DEF QueueOrderly, EveryOperationAnswers
<1>2. PendingOrderly'
  BY DEF PendingOrderly, NoRoute
<1>3. ResultsOrderly' /\ UndecidedOrderly'
  BY DEF ResultsOrderly, UndecidedOrderly, Fresh
<1> QED BY <1>1, <1>2, <1>3

(* Together with the invariant of all users, what holds of orderly ones is *)
(* inductive, whatever interrupts, failed writes and restarts there are.   *)
THEOREM OrderlyInvariance ==
    ASSUME Orderly
    PROVE  Spec => []OrderlyInv
<1>1. Init => OrderlyInv
  <2> SUFFICES ASSUME Init PROVE OrderlyInv
    OBVIOUS
  <2>1. QueueOrderly
    BY DEF Init, QueueOrderly
  <2>2. PendingOrderly /\ ResultsOrderly
    BY DEF Init, NoRoute, PendingOrderly, ResultsOrderly, Fresh
  <2>3. UndecidedOrderly /\ EveryOperationAnswers
    BY DEF Init, UndecidedOrderly, EveryOperationAnswers
  <2> QED BY <2>1, <2>2, <2>3 DEF OrderlyInv
<1>2. Inv /\ OrderlyInv /\ [Next]_vars => OrderlyInv'
  <2> SUFFICES ASSUME Inv, OrderlyInv, [Next]_vars PROVE OrderlyInv'
    OBVIOUS
  <2>1. CASE UNCHANGED vars
    BY <2>1 DEF vars, userVars, memVars, taskVars, OrderlyInv, QueueOrderly,
       PendingOrderly, ResultsOrderly, UndecidedOrderly, Fresh, EveryOperationAnswers
  <2>2. CASE Next
    BY <2>2, UserOrderly, TakeOrderly, TaskOrderly, CrashOrderly DEF Next, TaskStep
  <2> QED BY <2>1, <2>2
<1> QED BY <1>1, <1>2, ApprovalInvariance, PTL DEF Spec

(* Nothing the history has is answered twice: exec_approval, the abandoned *)
(* approval and get_messages never meet on one call.                       *)
THEOREM OneResultWhenOrderly ==
    ASSUME Orderly
    PROVE  Spec => []OneResultPerCall
<1>1. OrderlyInv => OneResultPerCall
  BY DEF OrderlyInv, ResultsOrderly, OneResultPerCall
<1> QED BY <1>1, OrderlyInvariance, PTL

(* Every operation ends with the event its stream waits for (chat_sse).    *)
THEOREM AnswersWhenOrderly ==
    ASSUME Orderly
    PROVE  Spec => []EveryOperationAnswers
<1>1. OrderlyInv => EveryOperationAnswers
  BY DEF OrderlyInv
<1> QED BY <1>1, OrderlyInvariance, PTL

(* What the user has not decided on stays pending, or is again after a     *)
(* restart (_restore_pending_approval, persist_session_snapshot).          *)
THEOREM UndecidedIsKept ==
    ASSUME Orderly
    PROVE  Spec => []UndecidedStaysPending
<1>1. OrderlyInv => UndecidedStaysPending
  BY DEF OrderlyInv, UndecidedOrderly, UndecidedStaysPending
<1> QED BY <1>1, OrderlyInvariance, PTL
=============================================================================
