--------------------------- MODULE SessionManager ---------------------------
(***************************************************************************)
(* The session registry of the web backend (backend/session_manager.py):   *)
(* HTTP requests create, restore, submit to, clean up, shut down and       *)
(* delete sessions, while every session has a task of its own that drains  *)
(* its submission queue.  All of them are coroutines of one event loop, so *)
(* an action is the code between two awaits that really suspend, and the   *)
(* manager's asyncio.Lock is a variable because two pieces of code hold it *)
(* across an await.                                                        *)
(*                                                                         *)
(* A session id (Sids) names the durable document; a runtime (Insts) is    *)
(* one AgentSession object together with its task.  Restoring a session    *)
(* makes a new runtime for an old id, which is where the identity of the   *)
(* object and the identity of the session part company.                    *)
(***************************************************************************)
EXTENDS Naturals, Sequences, FiniteSets

CONSTANTS
    Sids,           \* session ids
    Insts,          \* runtimes: AgentSession objects with their task
    Callers,        \* concurrent HTTP requests
    Users, Dev,     \* users, and the one no per-user limit applies to
    MaxSessions,    \* MAX_SESSIONS
    MaxPerUser,     \* MAX_SESSIONS_PER_USER
    MaxSubs,        \* bound: submissions one runtime ever accepts
    Ops,            \* what the requests of this instance call
    StoreFails,     \* may a write to the durable store raise?
    NoSid, NoInst, NoUser, Free

OpNames == {"create", "ensure", "submit", "touch", "interrupt", "cleanup",
            "shutdown", "delete"}

ASSUME ConstantsAssumption ==
    /\ Ops \subseteq OpNames
    /\ StoreFails \in BOOLEAN
    /\ MaxSessions \in Nat \ {0}
    /\ MaxPerUser \in Nat \ {0}
    /\ MaxSubs \in Nat
    /\ NoUser \notin Users
    /\ NoSid \notin Sids
    /\ NoInst \notin Insts
    /\ Free \notin Callers \cup Insts
    /\ Callers \cap Insts = {}

VARIABLES
    lock,       \* SessionManager._lock: who holds it across an await
    sessions,   \* SessionManager.sessions: id -> registered runtime
    sidOf,      \* AgentSession.session_id
    owner,      \* the user a session belongs to
    active,     \* AgentSession.is_active
    held,       \* an approval, upload, sandbox or provider job the cleanup spares
    queue,      \* AgentSession.submission_queue
    accepted,   \* how many submissions it has taken
    cur,        \* the operation the task has dequeued
    tpc,        \* where the coroutine _run_session of the runtime is
    cancelled,  \* task.cancel() was called, the exception is not delivered yet
    interrupted,\* Session._cancelled, the user's interrupt
    doc,        \* the durable document: absent, live or soft-deleted
    status,     \* its status field
    req         \* the coroutine of each request

regVars == <<sessions, sidOf, owner>>
rtVars == <<active, held, queue, accepted, cur, tpc, cancelled, interrupted>>
storeVars == <<doc, status>>
vars == <<lock, regVars, rtVars, storeVars, req>>

TaskPcs == {"none", "new", "idle", "busy", "saving", "fin", "locking",
            "marking", "done"}
ReqPcs == {"idle", "create_insert", "create_recheck", "restore_insert",
           "touch", "snapshot", "clean", "clean_pop", "clean_mark",
           "shut_lock", "shut_wait", "shut_cancelled", "del_store",
           "del_cancel", "del_wait"}

Request == [pc: ReqPcs, op: OpNames \cup {"none", "create_user"},
            user: Users \cup {NoUser}, sid: Sids \cup {NoSid},
            inst: Insts \cup {NoInst}, cand: Insts \cup {NoInst},
            todo: SUBSET Insts]

IdleReq == [pc |-> "idle", op |-> "none", user |-> NoUser, sid |-> NoSid,
            inst |-> NoInst, cand |-> NoInst, todo |-> {}]

Frame(pc, op) == [IdleReq EXCEPT !.pc = pc, !.op = op]

(* The types of the state, and of the frames the request coroutines of     *)
(* session_manager.py keep across their awaits.                            *)
TypeOK ==
    /\ lock \in Callers \cup Insts \cup {Free}
    /\ sessions \in [Sids -> Insts \cup {NoInst}]
    /\ sidOf \in [Insts -> Sids \cup {NoSid}]
    /\ owner \in [Sids -> Users \cup {NoUser}]
    /\ active \in [Insts -> BOOLEAN]
    /\ held \in [Insts -> BOOLEAN]
    /\ queue \in [Insts -> Seq({"input", "shutdown"})]
    /\ accepted \in [Insts -> 0 .. MaxSubs]
    /\ cur \in [Insts -> {"none", "input", "shutdown", "cancel"}]
    /\ tpc \in [Insts -> TaskPcs]
    /\ cancelled \in [Insts -> BOOLEAN]
    /\ interrupted \in [Insts -> BOOLEAN]
    /\ doc \in [Sids -> {"none", "live", "deleted"}]
    /\ status \in [Sids -> {"active", "ended"}]
    /\ req \in [Callers -> Request]

(***************************************************************************)
(* Helpers.                                                                *)
(***************************************************************************)
Registered(i) == sidOf[i] # NoSid /\ sessions[sidOf[i]] = i

\* active_session_count and _count_user_sessions
ActiveSessions == {i \in Insts : Registered(i) /\ active[i]}
UserSessions(u) == {i \in ActiveSessions : owner[sidOf[i]] = u}

\* The coroutine of request c goes on at p; the rest of its frame is kept.
Goto(c, p) == req' = [req EXCEPT ![c] = [@ EXCEPT !.pc = p]]
Return(c) == req' = [req EXCEPT ![c] = IdleReq]

\* task.done(), or there is no task yet.
Done(i) == tpc[i] \in {"none", "done"}

\* Objects nobody refers to: a uuid4 and an AgentSession yet to be built.
FreshSid(s) == owner[s] = NoUser /\ \A c \in Callers : req[c].sid # s
FreshInst(i) == tpc[i] = "none" /\ \A c \in Callers : req[c].inst # i

\* Mutant: the visibility in the $set of the upsert, not in $setOnInsert.
SnapshotRevives(s, st) ==
    \/ /\ doc' = [doc EXCEPT ![s] = "live"]
       /\ status' = [status EXCEPT ![s] = st]
    \/ StoreFails /\ UNCHANGED storeVars

\* save_snapshot: an upsert that never touches the visibility of an
\* existing document; persist_session_snapshot swallows its failure.
Snapshot(s, st) ==
    \/ /\ doc' = [doc EXCEPT ![s] = IF @ = "none" THEN "live" ELSE @]
       /\ status' = [status EXCEPT ![s] = st]
    \/ StoreFails /\ UNCHANGED storeVars

\* _start_agent_session once the id is known to be free: asyncio.create_task
\* follows the registration with no await between.
StartRuntime(i, s, h) ==
    /\ sessions' = [sessions EXCEPT ![s] = i]
    /\ sidOf' = [sidOf EXCEPT ![i] = s]
    /\ active' = [active EXCEPT ![i] = TRUE]
    /\ held' = [held EXCEPT ![i] = h]
    /\ tpc' = [tpc EXCEPT ![i] = "new"]
    /\ UNCHANGED <<queue, accepted, cur, cancelled, interrupted>>

Init ==
    /\ lock = Free
    /\ sessions = [s \in Sids |-> NoInst]
    /\ sidOf = [i \in Insts |-> NoSid]
    /\ owner = [s \in Sids |-> NoUser]
    /\ active = [i \in Insts |-> FALSE]
    /\ held = [i \in Insts |-> FALSE]
    /\ queue = [i \in Insts |-> <<>>]
    /\ accepted = [i \in Insts |-> 0]
    /\ cur = [i \in Insts |-> "none"]
    /\ tpc = [i \in Insts |-> "none"]
    /\ cancelled = [i \in Insts |-> FALSE]
    /\ interrupted = [i \in Insts |-> FALSE]
    /\ doc = [s \in Sids |-> "none"]
    /\ status = [s \in Sids |-> "active"]
    /\ req = [c \in Callers |-> IdleReq]

-----------------------------------------------------------------------------
(***************************************************************************)
(* create_session: check the two limits, then build the blocking           *)
(* constructors in a worker thread, and only then register.  At a limit it *)
(* runs the stale cleanup and counts once more.  The id and the object are *)
(* reserved when the request begins: nobody else can hold them.            *)
(***************************************************************************)
ServerFull == Cardinality(ActiveSessions) >= MaxSessions
UserFull(u) == u # Dev /\ Cardinality(UserSessions(u)) >= MaxPerUser

\* The sessions a cleanup looks at: all, or those of one user.
Candidates(u) == {i \in Insts : Registered(i) /\ (u = Dev \/ owner[sidOf[i]] = u)}

PassServerCheck(f) ==
    IF UserFull(f.user)
    THEN [f EXCEPT !.pc = "clean", !.op = "create_user",
                   !.todo = Candidates(f.user)]
    ELSE [f EXCEPT !.pc = "create_insert"]

CreateBegin(c, u) ==
    /\ "create" \in Ops
    /\ req[c].pc = "idle"
    /\ lock = Free
    /\ \E s \in Sids, i \in Insts :
        LET f == [Frame("clean", "create") EXCEPT !.user = u, !.sid = s,
                                                  !.inst = i] IN
        /\ FreshSid(s) /\ FreshInst(i)
        /\ req' = [req EXCEPT ![c] =
                      IF ServerFull THEN [f EXCEPT !.todo = Candidates(Dev)]
                                    ELSE PassServerCheck(f)]
    /\ UNCHANGED <<lock, regVars, rtVars, storeVars>>

\* Mutant: the limits are not counted again after the cleanup.
CreateRecheckTrusting(c) ==
    /\ req[c].pc = "create_recheck"
    /\ lock = Free
    /\ IF req[c].op = "create"
       THEN req' = [req EXCEPT ![c] = PassServerCheck(@)]
       ELSE Goto(c, "create_insert")
    /\ UNCHANGED <<lock, regVars, rtVars, storeVars>>

\* SessionCapacityError, unless the cleanup made room.
CreateRecheck(c) ==
    /\ req[c].pc = "create_recheck"
    /\ lock = Free
    /\ CASE req[c].op = "create" /\ ~ServerFull ->
              req' = [req EXCEPT ![c] = PassServerCheck(@)]
         [] req[c].op = "create_user" /\ ~UserFull(req[c].user) ->
              Goto(c, "create_insert")
         [] OTHER -> Return(c)
    /\ UNCHANGED <<lock, regVars, rtVars, storeVars>>

CreateInsert(c) ==
    /\ req[c].pc = "create_insert"
    /\ lock = Free
    /\ StartRuntime(req[c].inst, req[c].sid, FALSE)
    /\ owner' = [owner EXCEPT ![req[c].sid] = req[c].user]
    /\ Goto(c, "snapshot")
    /\ UNCHANGED <<lock, storeVars>>

\* Mutant: the runtime state where the status belongs.
SnapshotLandsIdle(c) ==
    /\ req[c].pc = "snapshot"
    /\ Snapshot(req[c].sid, "idle")
    /\ Return(c)
    /\ UNCHANGED <<lock, regVars, rtVars>>

\* The snapshot a create, a restore, a truncate or a teardown ends with.
SnapshotLands(c) ==
    /\ req[c].pc = "snapshot"
    /\ Snapshot(req[c].sid, "active")
    /\ Return(c)
    /\ UNCHANGED <<lock, regVars, rtVars>>

(***************************************************************************)
(* ensure_session_loaded.  An already registered runtime is returned as it *)
(* is; a live document of an unregistered id is loaded, a runtime is built *)
(* from it over several awaits, and registered unless somebody was faster. *)
(***************************************************************************)
EnsureLoad(c, s) ==
    /\ "ensure" \in Ops
    /\ req[c].pc = "idle"
    /\ lock = Free
    /\ sessions[s] = NoInst
    /\ doc[s] = "live"
    /\ \E i \in Insts :
        /\ FreshInst(i)
        /\ req' = [req EXCEPT ![c] = [Frame("restore_insert", "ensure") EXCEPT
                                          !.sid = s, !.inst = i]]
    /\ UNCHANGED <<lock, regVars, rtVars, storeVars>>

\* What the document holds for the user is restored with it.  A task takes
\* its first step in the next round of the event loop, long before the many
\* awaits of a restore are over.
RestoreInsert(c) ==
    LET s == req[c].sid IN
    /\ req[c].pc = "restore_insert"
    /\ lock = Free
    /\ \A j \in Insts : sidOf[j] = s => tpc[j] # "new"
    /\ IF sessions[s] = NoInst
       THEN /\ \E h \in BOOLEAN : StartRuntime(req[c].inst, s, h)
            /\ Goto(c, "snapshot")
       ELSE Return(c) /\ UNCHANGED <<sessions, sidOf, rtVars>>
    /\ UNCHANGED <<lock, owner, storeVars>>

\* Mutant: is_active is not looked at.
EnqueueAnyway(s, op) ==
    LET i == sessions[s] IN
    /\ lock = Free
    /\ i # NoInst
    /\ accepted[i] < MaxSubs
    /\ queue' = [queue EXCEPT ![i] = Append(@, op)]
    /\ accepted' = [accepted EXCEPT ![i] = @ + 1]

(***************************************************************************)
(* submit: look the runtime up under the lock, then put without an await.  *)
(***************************************************************************)
Enqueue(s, op) ==
    LET i == sessions[s] IN
    /\ lock = Free
    /\ i # NoInst
    /\ active[i]
    /\ accepted[i] < MaxSubs
    /\ queue' = [queue EXCEPT ![i] = Append(@, op)]
    /\ accepted' = [accepted EXCEPT ![i] = @ + 1]

Submit(s) ==
    /\ "submit" \in Ops
    /\ Enqueue(s, "input")
    /\ UNCHANGED <<lock, regVars, active, held, cur, tpc, cancelled,
                   interrupted, storeVars, req>>

\* interrupt goes past the queue and the lock.
Interrupt(s) ==
    LET i == sessions[s] IN
    /\ "interrupt" \in Ops
    /\ i # NoInst
    /\ active[i]
    /\ interrupted' = [interrupted EXCEPT ![i] = TRUE]
    /\ UNCHANGED <<lock, regVars, active, held, queue, accepted, cur, tpc,
                   cancelled, storeVars, req>>

\* truncate and teardown_sandbox work on the runtime directly, and save it.
TouchBegin(c, s) ==
    LET i == sessions[s] IN
    /\ "touch" \in Ops
    /\ req[c].pc = "idle"
    /\ lock = Free
    /\ i # NoInst
    /\ active[i]
    /\ req' = [req EXCEPT ![c] = [Frame("touch", "touch") EXCEPT !.sid = s,
                                                                 !.inst = i]]
    /\ UNCHANGED <<lock, regVars, rtVars, storeVars>>

TouchDone(c) ==
    /\ req[c].pc = "touch"
    /\ \/ held' = [held EXCEPT ![req[c].inst] = FALSE]
       \/ UNCHANGED held
    /\ Goto(c, "snapshot")
    /\ UNCHANGED <<lock, regVars, active, queue, accepted, cur, tpc, cancelled,
                   interrupted, storeVars>>

(***************************************************************************)
(* cleanup_stale_sessions.  Candidates are listed under the lock, tested   *)
(* without it (the test awaits list_runs), and popped under the lock with  *)
(* only identity and is_active looked at again.  The clock is abstracted:  *)
(* any listed session may be old enough, or not, when its turn comes.      *)
(***************************************************************************)
CleanupBegin(c, u) ==
    /\ "cleanup" \in Ops
    /\ req[c].pc = "idle"
    /\ lock = Free
    /\ req' = [req EXCEPT ![c] = [Frame("clean", "cleanup") EXCEPT
                                      !.user = u, !.todo = Candidates(u)]]
    /\ UNCHANGED <<lock, regVars, rtVars, storeVars>>

\* _stale_cleanup_skip_reason found none, and is now awaiting list_runs.
CleanupCheck(c) ==
    /\ req[c].pc = "clean"
    /\ \E i \in req[c].todo :
        /\ active[i]
        /\ tpc[i] # "busy"
        /\ ~held[i]
        /\ req' = [req EXCEPT ![c] = [@ EXCEPT !.pc = "clean_pop", !.cand = i,
                                               !.todo = req[c].todo \ {i}]]
    /\ UNCHANGED <<lock, regVars, rtVars, storeVars>>

\* Mutant: the task is cancelled before its session is popped.
CleanupPopLater(c) ==
    LET i == req[c].cand IN
    /\ req[c].pc = "clean_pop"
    /\ lock = Free
    /\ IF Registered(i) /\ active[i] THEN Goto(c, "clean_mark")
                                     ELSE Goto(c, "clean")
    /\ UNCHANGED <<lock, regVars, rtVars, storeVars>>

CleanupPop(c) ==
    LET i == req[c].cand IN
    /\ req[c].pc = "clean_pop"
    /\ lock = Free
    /\ IF Registered(i) /\ active[i]
       THEN /\ active' = [active EXCEPT ![i] = FALSE]
            /\ sessions' = [sessions EXCEPT ![sidOf[i]] = NoInst]
            /\ Goto(c, "clean_mark")
       ELSE /\ Goto(c, "clean")
            /\ UNCHANGED <<active, sessions>>
    /\ UNCHANGED <<lock, sidOf, owner, held, queue, accepted, cur, tpc,
                   cancelled, interrupted, storeVars>>

\* Mutant: only a task that is busy is cancelled.
CleanupMarkBusyOnly(c) ==
    LET i == req[c].cand IN
    /\ req[c].pc = "clean_mark"
    /\ cancelled' = [cancelled EXCEPT ![i] = tpc[i] = "busy"]
    /\ req' = [req EXCEPT ![c] = [@ EXCEPT !.pc = "clean", !.cand = NoInst]]
    /\ UNCHANGED <<lock, regVars, active, held, queue, accepted, cur, tpc,
                   interrupted, storeVars>>

\* update_session_fields(status="ended"), whose failure is swallowed, and
\* task.cancel() right after it.
CleanupMark(c) ==
    LET i == req[c].cand
        s == sidOf[i] IN
    /\ req[c].pc = "clean_mark"
    /\ \/ status' = [status EXCEPT ![s] = IF doc[s] = "none" THEN @ ELSE "ended"]
       \/ StoreFails /\ UNCHANGED status
    /\ cancelled' = [cancelled EXCEPT ![i] = ~Done(i)]
    /\ req' = [req EXCEPT ![c] = [@ EXCEPT !.pc = "clean", !.cand = NoInst]]
    /\ UNCHANGED <<lock, regVars, active, held, queue, accepted, cur, tpc,
                   interrupted, doc>>

\* The candidates that are left are young or skipped.
CleanupEnd(c) ==
    /\ req[c].pc = "clean"
    /\ IF req[c].op = "cleanup"
       THEN Return(c)
       ELSE req' = [req EXCEPT ![c] = [@ EXCEPT !.pc = "create_recheck",
                                                !.todo = {}, !.cand = NoInst]]
    /\ UNCHANGED <<lock, regVars, rtVars, storeVars>>

(***************************************************************************)
(* shutdown_session: put a SHUTDOWN, take the lock (a wait when others are *)
(* queued for it), and wait for the task with the lock held.  After five   *)
(* seconds wait_for cancels the task once and goes on waiting until it is  *)
(* really over.                                                            *)
(***************************************************************************)
ShutdownSubmit(c, s) ==
    /\ "shutdown" \in Ops
    /\ req[c].pc = "idle"
    /\ Enqueue(s, "shutdown")
    /\ req' = [req EXCEPT ![c] = [Frame("shut_lock", "shutdown") EXCEPT
                                      !.sid = s]]
    /\ UNCHANGED <<lock, regVars, active, held, cur, tpc, cancelled,
                   interrupted, storeVars>>

ShutdownLock(c) ==
    LET i == sessions[req[c].sid] IN
    /\ req[c].pc = "shut_lock"
    /\ lock = Free
    /\ IF i = NoInst
       THEN Return(c) /\ UNCHANGED lock
       ELSE /\ lock' = c
            /\ req' = [req EXCEPT ![c] = [@ EXCEPT !.pc = "shut_wait",
                                                   !.inst = i]]
    /\ UNCHANGED <<regVars, rtVars, storeVars>>

ShutdownTimeout(c) ==
    /\ req[c].pc = "shut_wait"
    /\ ~Done(req[c].inst)
    /\ cancelled' = [cancelled EXCEPT ![req[c].inst] = TRUE]
    /\ Goto(c, "shut_cancelled")
    /\ UNCHANGED <<lock, regVars, active, held, queue, accepted, cur, tpc,
                   interrupted, storeVars>>

ShutdownReturn(c) ==
    /\ req[c].pc \in {"shut_wait", "shut_cancelled"}
    /\ Done(req[c].inst)
    /\ lock' = Free
    /\ Return(c)
    /\ UNCHANGED <<regVars, rtVars, storeVars>>

(***************************************************************************)
(* delete_session: pop under the lock; then, without it, soft-delete the   *)
(* document, tear the sandbox down, cancel the task and await it.          *)
(***************************************************************************)
DeletePop(c, s) ==
    /\ "delete" \in Ops
    /\ req[c].pc = "idle"
    /\ lock = Free
    /\ doc[s] # "none" \/ sessions[s] # NoInst
    /\ sessions' = [sessions EXCEPT ![s] = NoInst]
    /\ req' = [req EXCEPT ![c] = [Frame("del_store", "delete") EXCEPT
                                      !.sid = s, !.inst = sessions[s]]]
    /\ UNCHANGED <<lock, sidOf, owner, rtVars, storeVars>>

\* soft_delete_session is an update without upsert.
DeleteStore(c) ==
    /\ req[c].pc = "del_store"
    /\ doc' = [doc EXCEPT ![req[c].sid] = IF @ = "none" THEN @ ELSE "deleted"]
    /\ IF req[c].inst = NoInst THEN Return(c) ELSE Goto(c, "del_cancel")
    /\ UNCHANGED <<lock, regVars, rtVars, status>>

\* ... and an error of it leaves delete_session at once.
DeleteStoreFails(c) ==
    /\ StoreFails
    /\ req[c].pc = "del_store"
    /\ Return(c)
    /\ UNCHANGED <<lock, regVars, rtVars, storeVars>>

\* Mutant: the task is awaited without being cancelled.
DeleteCancelForgotten(c) ==
    /\ req[c].pc = "del_cancel"
    /\ IF Done(req[c].inst) THEN Return(c) ELSE Goto(c, "del_wait")
    /\ UNCHANGED <<lock, regVars, rtVars, storeVars>>

DeleteCancel(c) ==
    LET i == req[c].inst IN
    /\ req[c].pc = "del_cancel"
    /\ IF Done(i)
       THEN Return(c) /\ UNCHANGED cancelled
       ELSE /\ cancelled' = [cancelled EXCEPT ![i] = TRUE]
            /\ Goto(c, "del_wait")
    /\ UNCHANGED <<lock, regVars, active, held, queue, accepted, cur, tpc,
                   interrupted, storeVars>>

DeleteReturn(c) ==
    /\ req[c].pc = "del_wait"
    /\ Done(req[c].inst)
    /\ Return(c)
    /\ UNCHANGED <<lock, regVars, rtVars, storeVars>>

-----------------------------------------------------------------------------
(***************************************************************************)
(* _run_session, the task of runtime i.                                    *)
(***************************************************************************)
TaskGoto(i, p) == tpc' = [tpc EXCEPT ![i] = p]

\* The first step of the task finds its id registered, or gives up.
TaskStart(i) ==
    /\ tpc[i] = "new"
    /\ ~cancelled[i]
    /\ TaskGoto(i, IF sessions[sidOf[i]] = NoInst THEN "done" ELSE "idle")
    /\ UNCHANGED <<lock, regVars, active, held, queue, accepted, cur,
                   cancelled, interrupted, storeVars, req>>

\* run_agent forgets an earlier interrupt, exec_approval does not.
Dequeue(i) ==
    /\ tpc[i] = "idle"
    /\ ~cancelled[i]
    /\ queue[i] # <<>>
    /\ cur' = [cur EXCEPT ![i] = Head(queue[i])]
    /\ queue' = [queue EXCEPT ![i] = Tail(@)]
    /\ \/ interrupted' = [interrupted EXCEPT ![i] = FALSE]
       \/ UNCHANGED interrupted
    /\ TaskGoto(i, "busy")
    /\ UNCHANGED <<lock, regVars, active, held, accepted, cancelled, storeVars,
                   req>>

\* process_submission returned or raised; what it leaves behind for the
\* user (an approval, a sandbox, a job) is its own affair.
FinishOp(i) ==
    /\ tpc[i] = "busy"
    /\ ~cancelled[i]
    /\ \E h \in BOOLEAN : held' = [held EXCEPT ![i] = h]
    /\ TaskGoto(i, "saving")
    /\ UNCHANGED <<lock, regVars, active, queue, accepted, cur, cancelled,
                   interrupted, storeVars, req>>

\* Mutant: one operation, and the loop is left.
SaveAfterOneOp(i) ==
    /\ tpc[i] = "saving"
    /\ ~cancelled[i]
    /\ Snapshot(sidOf[i], "active")
    /\ TaskGoto(i, "fin")
    /\ cur' = [cur EXCEPT ![i] = "none"]
    /\ UNCHANGED <<lock, regVars, active, held, queue, accepted, cancelled,
                   interrupted, req>>

\* The snapshot after every operation; a SHUTDOWN leaves the loop.
SaveAfterOp(i) ==
    /\ tpc[i] = "saving"
    /\ ~cancelled[i]
    /\ Snapshot(sidOf[i], "active")
    /\ TaskGoto(i, IF cur[i] = "input" THEN "idle" ELSE "fin")
    /\ cur' = [cur EXCEPT ![i] = "none"]
    /\ UNCHANGED <<lock, regVars, active, held, queue, accepted, cancelled,
                   interrupted, req>>

\* Mutant: the loop goes on after CancelledError.
TaskCancelledGoesOn(i) ==
    /\ cancelled[i]
    /\ ~Done(i)
    /\ cancelled' = [cancelled EXCEPT ![i] = FALSE]
    /\ TaskGoto(i, IF tpc[i] \in {"busy", "saving"} THEN "idle" ELSE tpc[i])
    /\ UNCHANGED <<lock, regVars, active, held, queue, accepted, cur,
                   interrupted, storeVars, req>>

\* CancelledError arrives at the await the task is suspended in.  It leaves
\* the loop, but the snapshot of a running operation is still saved; two
\* awaits swallow it: the one on the broadcaster in the finally block, and
\* the one on the tools that an interrupt has just cancelled.
TaskCancelled(i) ==
    /\ cancelled[i]
    /\ ~Done(i)
    /\ cancelled' = [cancelled EXCEPT ![i] = FALSE]
    /\ \/ /\ tpc[i] \in {"new", "fin", "locking", "marking"}
          /\ TaskGoto(i, "done")
          /\ UNCHANGED cur
       \/ /\ tpc[i] \in {"idle", "saving"}
          /\ TaskGoto(i, "fin")
          /\ cur' = [cur EXCEPT ![i] = "none"]
       \/ /\ tpc[i] = "busy"
          /\ TaskGoto(i, "saving")
          /\ cur' = [cur EXCEPT ![i] = "cancel"]
       \/ /\ tpc[i] = "fin" \/ (tpc[i] = "busy" /\ interrupted[i])
          /\ UNCHANGED <<tpc, cur>>
    /\ lock' = IF tpc[i] = "marking" THEN Free ELSE lock
    /\ UNCHANGED <<regVars, active, held, queue, accepted, interrupted,
                   storeVars, req>>

\* The finally block: the broadcaster is stopped, the sandbox torn down and
\* the trajectory flushed, ...
FinCleanup(i) ==
    /\ tpc[i] = "fin"
    /\ ~cancelled[i]
    /\ TaskGoto(i, "locking")
    /\ UNCHANGED <<lock, regVars, active, held, queue, accepted, cur, cancelled,
                   interrupted, storeVars, req>>

\* ... then, under the lock, whatever runtime has the id now is deactivated,
FinLock(i) ==
    LET j == sessions[sidOf[i]] IN
    /\ tpc[i] = "locking"
    /\ ~cancelled[i]
    /\ lock = Free
    /\ IF j = NoInst
       THEN TaskGoto(i, "done") /\ UNCHANGED <<lock, active>>
       ELSE /\ active' = [active EXCEPT ![j] = FALSE]
            /\ lock' = i
            /\ TaskGoto(i, "marking")
    /\ UNCHANGED <<regVars, held, queue, accepted, cur, cancelled, interrupted,
                   storeVars, req>>

\* Mutant: the lock is not released.
FinMarkKeepsLock(i) ==
    /\ tpc[i] = "marking"
    /\ ~cancelled[i]
    /\ Snapshot(sidOf[i], "ended")
    /\ TaskGoto(i, "done")
    /\ UNCHANGED <<lock, regVars, active, held, queue, accepted, cur, cancelled,
                   interrupted, req>>

\* and its end persisted, with the lock held.
FinMark(i) ==
    /\ tpc[i] = "marking"
    /\ ~cancelled[i]
    /\ Snapshot(sidOf[i], "ended")
    /\ lock' = Free
    /\ TaskGoto(i, "done")
    /\ UNCHANGED <<regVars, active, held, queue, accepted, cur, cancelled,
                   interrupted, req>>

-----------------------------------------------------------------------------
RequestBegin(c) ==
    \/ \E u \in Users : CreateBegin(c, u) \/ CleanupBegin(c, u)
    \/ \E s \in Sids : \/ EnsureLoad(c, s)
                       \/ TouchBegin(c, s)
                       \/ ShutdownSubmit(c, s)
                       \/ DeletePop(c, s)

RequestStep(c) ==
    \/ CreateRecheck(c) \/ CreateInsert(c) \/ SnapshotLands(c)
    \/ RestoreInsert(c) \/ TouchDone(c)
    \/ CleanupCheck(c) \/ CleanupPop(c) \/ CleanupMark(c) \/ CleanupEnd(c)
    \/ ShutdownLock(c) \/ ShutdownTimeout(c) \/ ShutdownReturn(c)
    \/ DeleteStore(c) \/ DeleteStoreFails(c) \/ DeleteCancel(c)
    \/ DeleteReturn(c)

TaskStep(i) ==
    \/ TaskStart(i) \/ Dequeue(i) \/ FinishOp(i) \/ SaveAfterOp(i)
    \/ TaskCancelled(i) \/ FinCleanup(i) \/ FinLock(i) \/ FinMark(i)

Next ==
    \/ \E s \in Sids : Submit(s) \/ Interrupt(s)
    \/ \E c \in Callers : RequestBegin(c) \/ RequestStep(c)
    \/ \E i \in Insts : TaskStep(i)

Spec == Init /\ [][Next]_vars

(***************************************************************************)
(* The event loop runs every ready coroutine, awaits of the store return,  *)
(* timers fire, and process_submission comes back: the model calls have    *)
(* timeouts and the agent loop an iteration limit.  No request is obliged  *)
(* to arrive.                                                              *)
(***************************************************************************)
Fairness ==
    /\ \A c \in Callers : WF_vars(RequestStep(c))
    /\ \A i \in Insts : WF_vars(TaskStep(i))

FairSpec == Spec /\ Fairness

-----------------------------------------------------------------------------
(***************************************************************************)
(* Properties.                                                             *)
(***************************************************************************)
Serving(i) == Registered(i) /\ active[i]

(* A session the registry still counts as active has a task that can take  *)
(* its submissions: no path through cleanup, deletion, restore and the     *)
(* finally block of _run_session ends the task of a runtime that stays     *)
(* registered with is_active set.                                          *)
NoZombie == \A i \in Insts : Serving(i) => ~Done(i)

(* A runtime that cleanup_stale_sessions or delete_session has popped is   *)
(* not forgotten: until its task leaves its loop, the cancellation is      *)
(* pending, being delivered, or still the next job of the request that     *)
(* popped it.                                                              *)
Stopper(c, i) ==
    \/ req[c].pc = "clean_mark" /\ req[c].cand = i
    \/ req[c].pc \in {"del_store", "del_cancel"} /\ req[c].inst = i

NoOrphan ==
    \A i \in Insts : tpc[i] \in {"idle", "busy", "saving"} /\ ~Registered(i) =>
        \/ cancelled[i]
        \/ cur[i] = "cancel"
        \/ \E c \in Callers : Stopper(c, i)

(* The limits of create_session are checked before the constructors run in *)
(* a thread and not again at the registration, so concurrent creates can   *)
(* exceed them; by no more than one session for every other request.       *)
Inserting == {c \in Callers : req[c].pc = "create_insert"}

CapacityOvershootBounded ==
    /\ Cardinality(ActiveSessions) + Cardinality(Inserting)
           < MaxSessions + Cardinality(Callers)
    /\ \A u \in Users \ {Dev} :
           Cardinality(UserSessions(u))
             + Cardinality({c \in Inserting : req[c].user = u})
               < MaxPerUser + Cardinality(Callers)

(* What the docstring of cleanup_stale_sessions says: the session it ends  *)
(* has nothing queued and nothing running when it is popped.               *)
CleanupSparesWork ==
    \A c \in Callers : req[c].pc = "clean_mark" =>
        LET i == req[c].cand IN queue[i] = <<>> /\ tpc[i] \notin {"busy", "saving"}

(* A registered runtime accepts submissions: only its own end, or a pop,   *)
(* deactivates it (ensure_session_loaded returns whatever is registered).  *)
RegisteredIsActive == \A i \in Insts : Registered(i) => active[i]

(* No snapshot, however late, brings a soft-deleted session back.          *)
DeletedStaysDeleted ==
    [][\A s \in Sids : doc[s] = "deleted" => doc'[s] = "deleted"]_vars

(* Every request gets its answer, whatever the others and the tasks do.    *)
RequestsReturn == \A c \in Callers : (req[c].pc # "idle") ~> (req[c].pc = "idle")

(* What submit accepted is taken up by the task, or the session has been   *)
(* cleaned up or deleted in the meantime.                                  *)
AcceptedIsHandled ==
    \A i \in Insts : (queue[i] # <<>>) ~> (queue[i] = <<>> \/ ~Registered(i))

(* The task of a popped runtime ends.                                      *)
OrphansEnd == \A i \in Insts : (~Registered(i) /\ ~Done(i)) ~> Done(i)

(* SessionManager._lock is never kept for good.                            *)
LockIsReleased == []<>(lock = Free)

-----------------------------------------------------------------------------
(***************************************************************************)
(* The manager implements RuntimeLifecycle.                                *)
(***************************************************************************)
LifeOf(i) == CASE tpc[i] = "none" -> "unborn"
               [] tpc[i] # "none" /\ Done(i) -> "over"
               [] ~Done(i) /\ Serving(i) -> "serving"
               [] ~Done(i) /\ ~Serving(i) -> "retired"

Life == INSTANCE RuntimeLifecycle
            WITH life <- [i \in Insts |-> LifeOf(i)],
                 sid <- sidOf, taken <- accepted

(* Every step of the registry, its requests and its tasks is a step of the *)
(* life of one runtime or none: without shutdown_session.                  *)
ImplementsLife == Life!LSafe

=============================================================================
