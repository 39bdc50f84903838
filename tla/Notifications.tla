---------------------------- MODULE Notifications ----------------------------
(***************************************************************************)
(* The notification gateway: sessions queue notes for the destinations     *)
(* they opted in to, one worker sends them with retries, and close()       *)
(* flushes the queue while the sessions go on.                             *)
(***************************************************************************)
EXTENDS Naturals, Sequences, FiniteSets

CONSTANTS
    MaxNotes,       \* bound: notes queued
    MaxOpted,       \* bound: destinations of a session
    RetryDelays     \* Len(_RETRY_DELAYS), 3 in the code

ASSUME NotificationAssumption == {MaxNotes, MaxOpted, RetryDelays} \subseteq Nat

VARIABLES
    gateway,    \* new, open, or how far close() is
    opted,      \* how many destinations the session opted in to
    waiting,    \* the queue
    unfinished, \* _unfinished_tasks of the queue
    courier,    \* the worker, the note it sends and the attempt
    notes,      \* notes queued so far; a note is a number
    delivered, refused,
    afterFlush  \* history: queued when the flush had been satisfied

noteVars == <<gateway, opted, waiting, unfinished, courier, notes, delivered, refused,
              afterFlush>>

Resting == [at |-> "get", note |-> 0, attempt |-> 0]

NotificationInit ==
    /\ gateway = "new" /\ opted = 0
    /\ waiting = <<>> /\ unfinished = 0
    /\ courier = [Resting EXCEPT !.at = "none"]
    /\ notes = 0 /\ delivered = {} /\ refused = {} /\ afterFlush = {}

-----------------------------------------------------------------------------
StartGateway ==
    /\ gateway = "new"
    /\ gateway' = "open"
    /\ courier' = Resting
    /\ UNCHANGED <<opted, waiting, unfinished, notes, delivered, refused, afterFlush>>

SetDestinations(n) ==
    /\ n # opted
    /\ opted' = n
    /\ UNCHANGED <<gateway, waiting, unfinished, courier, notes, delivered, refused,
                   afterFlush>>

\* An event of an automatic type: one note for each destination. enqueue answers
\* False only while there is no worker task.
Notify ==
    /\ gateway \notin {"new", "closed"}
    /\ opted > 0 /\ notes + opted <= MaxNotes
    /\ LET new == [i \in 1 .. opted |-> notes + i]
       IN  /\ waiting' = waiting \o new
           /\ afterFlush' = IF gateway \in {"flushed", "cancelling"}
                            THEN afterFlush \cup {new[i] : i \in 1 .. opted}
                            ELSE afterFlush
    /\ notes' = notes + opted
    /\ unfinished' = unfinished + opted
    /\ UNCHANGED <<gateway, opted, courier, delivered, refused>>

WorkerGets ==
    /\ courier.at = "get" /\ waiting # <<>> /\ gateway # "cancelling"
    /\ courier' = [at |-> "send", note |-> Head(waiting), attempt |-> 0]
    /\ waiting' = Tail(waiting)
    /\ UNCHANGED <<gateway, opted, unfinished, notes, delivered, refused, afterFlush>>

\* task_done, in the finally block; the last one satisfies the flush.
Finished ==
    /\ unfinished' = unfinished - 1
    /\ gateway' = IF gateway = "flush" /\ unfinished = 1 THEN "flushed" ELSE gateway

\* The provider takes the note.
Delivers ==
    /\ courier.at = "send" /\ gateway # "cancelling"
    /\ delivered' = delivered \cup {courier.note}
    /\ courier' = Resting
    /\ Finished
    /\ UNCHANGED <<opted, waiting, notes, refused, afterFlush>>

\* An error that is not worth a retry, an unexpected one, or the last attempt.
GivesUp ==
    /\ courier.at = "send" /\ gateway # "cancelling"
    /\ refused' = refused \cup {courier.note}
    /\ courier' = Resting
    /\ Finished
    /\ UNCHANGED <<opted, waiting, notes, delivered, afterFlush>>

TriesLater ==
    /\ courier.at = "send" /\ courier.attempt < RetryDelays /\ gateway # "cancelling"
    /\ courier' = [courier EXCEPT !.at = "sleep"]
    /\ UNCHANGED <<gateway, opted, waiting, unfinished, notes, delivered, refused, afterFlush>>

TriesAgain ==
    /\ courier.at = "sleep" /\ gateway # "cancelling"
    /\ courier' = [courier EXCEPT !.at = "send", !.attempt = @ + 1]
    /\ UNCHANGED <<gateway, opted, waiting, unfinished, notes, delivered, refused, afterFlush>>

-----------------------------------------------------------------------------
\* Mutant: close() waits for an empty queue, not for the notes taken from it.
FlushEmptyQueue ==
    /\ gateway = "open"
    /\ gateway' = IF waiting = <<>> THEN "flushed" ELSE "flush"
    /\ UNCHANGED <<opted, waiting, unfinished, courier, notes, delivered, refused, afterFlush>>

\* close() of the server: the tasks of the sessions are not stopped before.
Flush ==
    /\ gateway = "open"
    /\ gateway' = IF unfinished = 0 THEN "flushed" ELSE "flush"
    /\ UNCHANGED <<opted, waiting, unfinished, courier, notes, delivered, refused, afterFlush>>

\* join() has returned, whatever was queued since.
CancelWorker ==
    /\ gateway = "flushed"
    /\ gateway' = "cancelling"
    /\ UNCHANGED <<opted, waiting, unfinished, courier, notes, delivered, refused, afterFlush>>

\* The cancellation reaches the worker at its await; a send may have got through.
WorkerCancelled ==
    /\ gateway = "cancelling" /\ courier.at # "none"
    /\ courier' = [Resting EXCEPT !.at = "none"]
    /\ IF courier.at = "get"
       THEN UNCHANGED <<unfinished, delivered>>
       ELSE /\ unfinished' = unfinished - 1
            /\ \/ UNCHANGED delivered
               \/ courier.at = "send" /\ delivered' = delivered \cup {courier.note}
    /\ UNCHANGED <<gateway, opted, waiting, notes, refused, afterFlush>>

\* The worker's task is forgotten and the client closed: later notes are declined.
GatewayCloses ==
    /\ gateway = "cancelling" /\ courier.at = "none"
    /\ gateway' = "closed"
    /\ UNCHANGED <<opted, waiting, unfinished, courier, notes, delivered, refused, afterFlush>>

NotificationNext ==
    \/ StartGateway \/ Notify \/ (\E n \in 0 .. MaxOpted : SetDestinations(n))
    \/ WorkerGets \/ Delivers \/ GivesUp \/ TriesLater \/ TriesAgain
    \/ Flush \/ CancelWorker \/ WorkerCancelled \/ GatewayCloses

NotificationSpec == NotificationInit /\ [][NotificationNext]_noteVars

-----------------------------------------------------------------------------
NotificationTypeOK ==
    /\ opted \in 0 .. MaxOpted /\ notes \in 0 .. MaxNotes
    /\ unfinished = Len(waiting) + IF courier.at \in {"send", "sleep"} THEN 1 ELSE 0
    /\ courier.attempt \in 0 .. RetryDelays

(* "Flush and close shared background resources" (SessionManager.close):   *)
(* a note that enqueue accepted was sent or given up when the gateway is   *)
(* closed, retries included, unless it was queued after the flush had been *)
(* satisfied, while the gateway still accepted.                            *)
LossesAreLate ==
    gateway = "closed" => 1 .. notes \subseteq delivered \cup refused \cup afterFlush
=============================================================================
