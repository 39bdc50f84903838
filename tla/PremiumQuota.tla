---------------------------- MODULE PremiumQuota ----------------------------
(***************************************************************************)
(* The daily quota of premium sessions of one user: the gate that every    *)
(* message passes before it is queued (_enforce_premium_model_quota), the  *)
(* counter of the store (user_quotas.py, try_increment_quota), the switch  *)
(* of the model and the restart of the server.                             *)
(***************************************************************************)
EXTENDS Naturals, FiniteSets

CONSTANTS
    Chats,      \* sessions of the user
    Posts,      \* messages on their way
    NoChat,
    Cap,        \* daily_cap_for(plan)
    MaxPosts,   \* bound: messages
    MaxDays     \* bound: days and restarts

\* With a cap of 0 the first increment of a day would still be granted.
ASSUME QuotaAssumption ==
    /\ NoChat \notin Chats
    /\ {Cap, MaxPosts, MaxDays} \subseteq Nat \ {0}

VARIABLES
    model,      \* of a session: premium or free
    counted,    \* AgentSession.claude_counted
    snapshot,   \* claude_counted in the store
    count,      \* of claude_quotas, today
    post,       \* where a message is, and its session
    queued,     \* messages in the queue of a session
    posts, days,
    charges,    \* history: charges of a session
    uncharged,  \* history: it called a premium model without a charge
    switched,   \* history: its model became premium behind the gate
    raced       \* history: messages overlapped, or a restart forgot the charge

quotaVars == <<model, counted, snapshot, count, post, queued, posts, days,
               charges, uncharged, switched, raced>>

Waiting == [at |-> "none", chat |-> NoChat]
Underway(c) == {p \in Posts : post[p].chat = c}

QuotaInit ==
    /\ model \in [Chats -> {"premium", "free"}]
    /\ counted = [c \in Chats |-> FALSE] /\ snapshot = counted
    /\ count = 0
    /\ post = [p \in Posts |-> Waiting]
    /\ queued = [c \in Chats |-> 0]
    /\ posts = 0 /\ days = 0
    /\ charges = [c \in Chats |-> 0]
    /\ uncharged = {} /\ switched = {} /\ raced = {}

At(p, where) == post' = [post EXCEPT ![p].at = where]

-----------------------------------------------------------------------------
\* A message arrives: a session that was charged, or whose model is free, passes.
Gate(p, c) ==
    /\ post[p] = Waiting
    /\ posts < MaxPosts
    /\ posts' = posts + 1
    /\ post' = [post EXCEPT ![p] =
           [at |-> IF counted[c] \/ model[c] = "free" THEN "submit" ELSE "charge",
            chat |-> c]]
    /\ raced' = IF Underway(c) # {} THEN raced \cup {c} ELSE raced
    /\ UNCHANGED <<model, counted, snapshot, count, queued, days, charges, uncharged,
                   switched>>

\* Mutant: the counter is read and written without the condition.
BelowCapUnchecked == TRUE

BelowCap == count < Cap

\* Mutant: a message over the cap is not turned away.
TryIncrementGoesOn(p) ==
    /\ post[p].at = "charge"
    /\ IF BelowCap
       THEN /\ count' = count + 1
            /\ charges' = [charges EXCEPT ![post[p].chat] = @ + 1]
            /\ At(p, "flag")
       ELSE At(p, "submit") /\ UNCHANGED <<count, charges>>
    /\ UNCHANGED <<model, counted, snapshot, queued, posts, days, uncharged, switched, raced>>

\* try_increment_quota: one conditional update; without it the answer is a 429.
TryIncrement(p) ==
    /\ post[p].at = "charge"
    /\ IF BelowCap
       THEN /\ count' = count + 1
            /\ charges' = [charges EXCEPT ![post[p].chat] = @ + 1]
            /\ At(p, "flag")
       ELSE /\ post' = [post EXCEPT ![p] = Waiting]
            /\ UNCHANGED <<count, charges>>
    /\ UNCHANGED <<model, counted, snapshot, queued, posts, days, uncharged, switched, raced>>

\* Mutant: the session is not marked.
MarkCountedNot(p) ==
    /\ post[p].at = "flag"
    /\ At(p, "persist")
    /\ UNCHANGED <<model, counted, snapshot, count, queued, posts, days, charges, uncharged,
                   switched, raced>>

MarkCounted(p) ==
    /\ post[p].at = "flag"
    /\ counted' = [counted EXCEPT ![post[p].chat] = TRUE]
    /\ At(p, "persist")
    /\ UNCHANGED <<model, snapshot, count, queued, posts, days, charges, uncharged,
                   switched, raced>>

\* persist_session_snapshot, which may fail unnoticed.
PersistCounted(p) ==
    /\ post[p].at = "persist"
    /\ snapshot' \in {snapshot, [snapshot EXCEPT ![post[p].chat] = TRUE]}
    /\ At(p, "submit")
    /\ UNCHANGED <<model, counted, count, queued, posts, days, charges, uncharged,
                   switched, raced>>

\* submit_user_input; a session that ended in the meantime keeps its charge.
SubmitPost(p) ==
    /\ post[p].at = "submit"
    /\ \/ queued' = [queued EXCEPT ![post[p].chat] = @ + 1]
       \/ UNCHANGED queued
    /\ post' = [post EXCEPT ![p] = Waiting]
    /\ UNCHANGED <<model, counted, snapshot, count, posts, days, charges, uncharged,
                   switched, raced>>

\* The session calls the model it has now.
CallOfTurn(c) ==
    /\ queued[c] > 0
    /\ queued' = [queued EXCEPT ![c] = @ - 1]
    /\ uncharged' = IF model[c] = "premium" /\ charges[c] = 0
                    THEN uncharged \cup {c} ELSE uncharged
    /\ UNCHANGED <<model, counted, snapshot, count, post, posts, days, charges,
                   switched, raced>>

\* set_session_model does not charge.
SwitchModel(c, m) ==
    /\ m # model[c]
    /\ model' = [model EXCEPT ![c] = m]
    /\ switched' = IF m = "premium" /\ (queued[c] > 0 \/ Underway(c) # {})
                   THEN switched \cup {c} ELSE switched
    /\ UNCHANGED <<counted, snapshot, count, post, queued, posts, days, charges, uncharged,
                   raced>>

NextDay ==
    /\ days < MaxDays
    /\ days' = days + 1
    /\ count' = 0
    /\ UNCHANGED <<model, counted, snapshot, post, queued, posts, charges, uncharged,
                   switched, raced>>

\* What is not in the store is gone; the sessions are restored from their snapshots.
RestartServer ==
    /\ days < MaxDays
    /\ days' = days + 1
    /\ counted' = snapshot
    /\ post' = [p \in Posts |-> Waiting]
    /\ queued' = [c \in Chats |-> 0]
    /\ raced' = raced \cup {c \in Chats : charges[c] > 0 /\ ~snapshot[c]}
    /\ UNCHANGED <<model, snapshot, count, posts, charges, uncharged, switched>>

QuotaNext ==
    \/ \E p \in Posts : \/ \E c \in Chats : Gate(p, c)
                        \/ TryIncrement(p) \/ MarkCounted(p) \/ PersistCounted(p)
                        \/ SubmitPost(p)
    \/ \E c \in Chats : CallOfTurn(c) \/ \E m \in {"premium", "free"} : SwitchModel(c, m)
    \/ NextDay \/ RestartServer

QuotaSpec == QuotaInit /\ [][QuotaNext]_quotaVars

-----------------------------------------------------------------------------
QuotaTypeOK ==
    /\ model \in [Chats -> {"premium", "free"}]
    /\ {counted, snapshot} \subseteq [Chats -> BOOLEAN]
    /\ count \in 0 .. Cap
    /\ \A p \in Posts : (post[p] = Waiting) <=> (post[p].chat = NoChat)

(* A session is charged once, although the flag that says so is written    *)
(* after an await: twice only when two of its messages were before the     *)
(* gate together, or a restart forgot the flag.                            *)
ChargedOnce == \A c \in Chats : charges[c] > 1 => c \in raced

(* A session that calls a premium model was charged, within the cap of the *)
(* day, unless its model was switched behind the gate: "Model switches     *)
(* don't charge quota" (set_session_model).                                *)
PremiumIsCharged == uncharged \subseteq switched
=============================================================================
