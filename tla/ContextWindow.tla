--------------------------- MODULE ContextWindow ---------------------------
(***************************************************************************)
(* The history of a session, ContextManager.items: what a turn appends to  *)
(* it, the stubs of _patch_dangling_tool_calls, compaction, undo and       *)
(* truncation, and the browser that asks for them (useAgentChat.ts).       *)
(*                                                                         *)
(* Every message of a user is preceded by a note, a message of role user   *)
(* that carries the instructions for the training provider and that the    *)
(* browser does not show (process_submission).                             *)
(***************************************************************************)
EXTENDS Naturals, Sequences, SequencesExt, FiniteSets, FiniteSetsExt

CONSTANTS
    Untouched,      \* messages that compaction leaves alone, 5 in the code
    MaxMessages,    \* bound: messages made
    MaxSent,        \* bound: messages of the user
    Edits           \* the user undoes and edits in this instance

ASSUME ContextAssumption ==
    /\ {Untouched, MaxMessages, MaxSent} \subseteq Nat
    /\ Edits \in BOOLEAN

NoSummary == <<>>

VARIABLES
    items,      \* ContextManager.items
    made,       \* messages made: the number of the last one
    agent,      \* idle, loop, compact, compact_op, ready, model, tools or over
    batch,      \* the calls being executed
    toApprove,  \* calls of the same answer that wait for an approval
    pendingApproval, \* session.pending_approval
    kept,       \* compact(): the head and the tail, while the rest is summarised
    visible,    \* the user's messages that the browser shows, by number
    parted      \* history: calls that were held or running when a message
                \* followed them or they were cut, or that a compaction lost

contextVars == <<items, made, agent, batch, toApprove, pendingApproval, kept, visible, parted>>

ContextInit ==
    /\ items = <<[n |-> 0, role |-> "system", ids |-> {}]>>
    /\ made = 0 /\ agent = "idle"
    /\ batch = {} /\ toApprove = {} /\ pendingApproval = {} /\ kept = NoSummary
    /\ visible = <<>> /\ parted = {}

-----------------------------------------------------------------------------
\* A message of each role of roles, numbered from made + 1 on.
Made(roles) ==
    [i \in DOMAIN roles |-> [n |-> made + i, role |-> roles[i], ids |-> {}]]
\* The results of some calls, numbered n: 0 for a stub.
Results(ids, n) == SetToSeq({[n |-> n, role |-> "tool", ids |-> {id}] : id \in ids})
UserRole(m) == m.role \in {"user", "note"}

Adds(ms) == items' = items \o ms
Makes(k) == made + k <= MaxMessages /\ made' = made + k

\* The assistant message whose block of tool results position i belongs to.
Owner(s, i) ==
    LET before == {j \in 1 .. i : s[j].role # "tool"}
    IN IF before = {} THEN 0 ELSE Max(before)

Answers(s, j) == {i \in DOMAIN s : s[i].role = "tool" /\ Owner(s, i) = j}
EndOfBlock(s, i) == i = Len(s) \/ s[i + 1].role # "tool"

\* Mutant: only the last assistant message is looked at.
PatchedAtTheEnd(s) ==
    LET last == Max({j \in DOMAIN s : s[j].role # "tool"})
        missing == s[last].ids \ UNION {s[i].ids : i \in Answers(s, last)}
    IN s \o Results(missing, 0)

\* _patch_dangling_tool_calls: the results that a block lacks, at its end.
Patched(s) ==
    LET Missing(j) == s[j].ids \ UNION {s[i].ids : i \in Answers(s, j)}
        Patch(i) == IF EndOfBlock(s, i) /\ Owner(s, i) # 0
                    THEN <<s[i]>> \o Results(Missing(Owner(s, i)), 0) ELSE <<s[i]>>
    IN FlattenSeq([i \in DOMAIN s |-> Patch(i)])

-----------------------------------------------------------------------------
(***************************************************************************)
(* Operations of the queue, which the agent takes when it is idle.         *)
(***************************************************************************)
\* The note comes first, then the results of abandoned calls, then the text.
UserMessage ==
    /\ agent = "idle"
    /\ Len(visible) < MaxSent
    /\ Makes(3)
    /\ Adds(Made(<<"note">>) \o Results(pendingApproval, made + 2) \o <<Made(<<"note", "tool", "user">>)[3]>>)
    /\ visible' = Append(visible, made + 3)
    /\ parted' = parted \cup pendingApproval
    /\ pendingApproval' = {}
    /\ agent' = "loop"
    /\ UNCHANGED <<batch, toApprove, kept>>

\* A text that looks like an approval is answered, and not kept.
TypedApproval ==
    /\ agent = "idle"
    /\ pendingApproval # {}
    /\ Len(visible) < MaxSent
    /\ Makes(3)
    /\ Adds(Made(<<"note", "assistant">>))
    /\ visible' = Append(visible, made + 3)
    /\ parted' = parted \cup pendingApproval
    /\ UNCHANGED <<agent, batch, toApprove, pendingApproval, kept>>

\* exec_approval, up to the execution of what is approved.
Decision ==
    /\ agent = "idle"
    /\ pendingApproval # {}
    /\ batch' = pendingApproval
    /\ pendingApproval' = {}
    /\ agent' = "tools"
    /\ UNCHANGED <<items, made, toApprove, kept, visible, parted>>

\* The calls that are pending, or executed, and no longer in a history.
Cut(s) == (pendingApproval \cup batch \cup toApprove) \ UNION {s[i].ids : i \in {j \in DOMAIN s : s[j].role # "tool"}}

\* undo_last_turn, from the last message of role user on; the browser removes
\* the last message it shows.
UndoLastTurn ==
    /\ Edits
    /\ agent = "idle"
    /\ Len(items) > 1
    /\ LET users == {i \in 2 .. Len(items) : UserRole(items[i])}
       IN items' = SubSeq(items, 1, IF users = {} THEN 1 ELSE Max(users) - 1)
    /\ visible' = IF visible = <<>> THEN <<>> ELSE Front(visible)
    /\ parted' = parted \cup Cut(items')
    /\ UNCHANGED <<made, agent, batch, toApprove, pendingApproval, kept>>

(***************************************************************************)
(* The route that truncates bypasses the queue.  The browser counts the    *)
(* messages it shows before the edited one; truncate_to_user_message       *)
(* counts every message of role user.                                      *)
(***************************************************************************)
EditMessage(k) ==
    /\ Edits
    /\ k \in DOMAIN visible
    /\ LET users == {i \in 2 .. Len(items) : UserRole(items[i])}
       IN \E i \in users :
            /\ Cardinality({j \in users : j < i}) = k - 1
            /\ items' = SubSeq(items, 1, i - 1)
    /\ visible' = SubSeq(visible, 1, k - 1)
    /\ parted' = parted \cup Cut(items')
    /\ UNCHANGED <<made, agent, batch, toApprove, pendingApproval, kept>>

-----------------------------------------------------------------------------
(***************************************************************************)
(* compact(), of the loop or of an operation.                              *)
(***************************************************************************)
FirstUser ==
    LET users == {i \in 2 .. Len(items) : UserRole(items[i])}
    IN IF users = {} THEN 0 ELSE Min(users)

\* Mutant: the tail may begin at the first message of the user, or before.
BoundaryUnclamped ==
    Max({1} \cup {i \in 2 .. Len(items) : i <= Len(items) + 1 - Untouched /\ UserRole(items[i])})

\* Mutant: the tail begins at any message.
BoundaryAnywhere ==
    LET tail == Len(items) + 1 - Untouched
        least == IF FirstUser = 0 THEN 3 ELSE FirstUser + 1
    IN IF tail < least THEN least ELSE tail

\* The tail begins at a message of role user that leaves at least Untouched
\* messages, but after the first message of the user, which is in the head.
Boundary ==
    LET least == IF FirstUser = 0 THEN 3 ELSE FirstUser + 1
        walked == {i \in 2 .. Len(items) : i <= Len(items) + 1 - Untouched /\ UserRole(items[i])}
    IN IF walked = {} \/ Max(walked) < least THEN least ELSE Max(walked)

\* Without a message of role user, what follows the system message is lost.
Compact ==
    /\ agent \in {"loop", "idle"}
    /\ LET least == IF FirstUser = 0 THEN 3 ELSE FirstUser + 1
           head == <<items[1]>> \o (IF FirstUser = 0 THEN <<>> ELSE <<items[FirstUser]>>)
           tail == SubSeq(items, Boundary, Len(items))
       IN IF Boundary = least
          THEN /\ items' = head \o tail
               /\ agent' \in {IF agent = "loop" THEN "ready" ELSE "idle", "over"}
               /\ UNCHANGED kept
          ELSE /\ kept' = <<head, tail>>
               /\ agent' = IF agent = "loop" THEN "compact" ELSE "compact_op"
               /\ UNCHANGED items
    /\ parted' = parted \cup IF FirstUser = 0 /\ Len(items) > 1 THEN items[2].ids ELSE {}
    /\ UNCHANGED <<made, batch, toApprove, pendingApproval, visible>>

\* The summary arrives; what is kept may still be too large, and that is the end
\* of the session.  An error of the model ends the operation.
Summarised ==
    /\ agent \in {"compact", "compact_op"}
    /\ \/ /\ items' = kept[1] \o <<[n |-> 0, role |-> "assistant", ids |-> {}]>> \o kept[2]
          /\ agent' \in {IF agent = "compact" THEN "ready" ELSE "idle", "over"}
       \/ /\ agent' = "idle"
          /\ UNCHANGED items
    /\ kept' = NoSummary
    /\ UNCHANGED <<made, batch, toApprove, pendingApproval, visible, parted>>

-----------------------------------------------------------------------------
(***************************************************************************)
(* An iteration of the loop, as far as it changes the history.             *)
(***************************************************************************)
\* check_for_doom_loop and _detect_repeated_malformed may add a note.
GetMessages ==
    /\ agent \in {"loop", "ready"}
    /\ \E note \in {<<>>, <<"note">>} :
         /\ Makes(Len(note))
         /\ items' = Patched(items \o Made(note))
    /\ agent' = "model"
    /\ UNCHANGED <<batch, toApprove, pendingApproval, kept, visible, parted>>

\* An answer, or an error that is shown, ends the turn; a hint goes on.
ModelSpeaks ==
    /\ agent = "model"
    /\ \/ Makes(1) /\ Adds(Made(<<"assistant">>)) /\ agent' = "idle"
       \/ Makes(2) /\ Adds(Made(<<"assistant", "note">>)) /\ agent' = "loop"
    /\ UNCHANGED <<batch, toApprove, pendingApproval, kept, visible, parted>>

ModelCalls(k, autos) ==
    /\ agent = "model"
    /\ Makes(1)
    /\ LET ids == {<<made + 1, c>> : c \in 1 .. k}
           now == {<<made + 1, c>> : c \in autos}
       IN /\ Adds(<<[n |-> made + 1, role |-> "assistant", ids |-> ids]>>)
          /\ batch' = now
          /\ IF now = {} THEN pendingApproval' = ids /\ toApprove' = {} /\ agent' = "idle"
                         ELSE toApprove' = ids \ now /\ agent' = "tools" /\ UNCHANGED pendingApproval
    /\ UNCHANGED <<kept, visible, parted>>

\* The calls that wait for an approval are pending, unless the loop goes on at once.
ToolsReturn ==
    /\ agent = "tools"
    /\ Makes(1)
    /\ Adds(Results(batch, made + 1))
    /\ batch' = {} /\ toApprove' = {}
    /\ \/ toApprove # {} /\ pendingApproval' = toApprove /\ agent' = "idle"
       \/ agent' = "loop" /\ UNCHANGED pendingApproval
    /\ UNCHANGED <<kept, visible, parted>>

\* An interrupt: no results.
ToolsInterrupted ==
    /\ agent = "tools"
    /\ batch' = {} /\ toApprove' = {}
    /\ agent' = "idle"
    /\ UNCHANGED <<items, made, pendingApproval, kept, visible, parted>>

ContextNext ==
    \/ UserMessage \/ TypedApproval \/ Decision \/ UndoLastTurn
    \/ \E k \in 1 .. MaxSent : EditMessage(k)
    \/ Compact \/ Summarised
    \/ GetMessages \/ ModelSpeaks
    \/ \E k \in 1 .. 2 : \E autos \in SUBSET (1 .. k) : ModelCalls(k, autos)
    \/ ToolsReturn \/ ToolsInterrupted

ContextSpec == ContextInit /\ [][ContextNext]_contextVars

-----------------------------------------------------------------------------
ContextTypeOK ==
    /\ items[1].role = "system"
    /\ made \in 0 .. MaxMessages
    /\ agent \in {"idle", "loop", "compact", "compact_op", "ready", "model", "tools", "over"}
    /\ Range(visible) \subseteq 1 .. MaxMessages

(* Every call the provider is shown is followed at once by its result, a   *)
(* stub if it has none, wherever in the history a turn was cut short       *)
(* (_patch_dangling_tool_calls).                                           *)
CallsAreAnswered ==
    agent = "model" =>
        \A j \in DOMAIN items : items[j].role = "assistant" =>
            items[j].ids \subseteq UNION {items[i].ids : i \in Answers(items, j)}

Stray(i) == items[i].role = "tool"
            /\ (Owner(items, i) = 0 \/ ~ items[i].ids \subseteq items[Owner(items, i)].ids)

(* A result that does not follow its call, which the provider refuses,     *)
(* belongs to a call that was waiting when a message came between or when  *)
(* it was cut; compaction never parts a call from its result.              *)
StraysAreExplained ==
    agent = "model" =>
        \A i \in DOMAIN items : Stray(i) => items[i].ids \subseteq parted

(* The history stays in the order in which it was made and holds nothing   *)
(* twice, through compaction, undo and truncation.                         *)
HistoryInOrder ==
    \A i, j \in DOMAIN items :
        i < j /\ items[i].n # 0 /\ items[j].n # 0 =>
            items[i].n < items[j].n \/ (items[i].n = items[j].n /\ items[i].role = "tool"
                                          /\ items[i].ids # items[j].ids)

(* What _abandon_pending_approval and its caller say: "so the LLM context  *)
(* stays valid".  The provider is shown no result that follows no call, as *)
(* long as nobody undoes or edits.                                         *)
HistoryIsValid ==
    agent = "model" => \A i \in DOMAIN items : ~ Stray(i)

(* What the route says: "Truncate conversation to before a specific user   *)
(* message".  An edit leaves the earlier messages of the user alone, when  *)
(* the agent is idle.                                                      *)
EditSparesEarlier ==
    [][\A k \in 1 .. MaxSent : EditMessage(k) /\ agent = "idle" =>
         \A j \in 1 .. k - 1 :
            (\E i \in DOMAIN items : items[i].n = visible[j])
              => \E i \in DOMAIN items' : items'[i].n = visible[j]]_contextVars
=============================================================================
