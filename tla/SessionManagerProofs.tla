------------------------ MODULE SessionManagerProofs ------------------------
(***************************************************************************)
(* Theorems about SessionManager, for every set of ids, runtimes, requests *)
(* and users and all limits.                                               *)
(***************************************************************************)
EXTENDS SessionManager, TLAPS

-----------------------------------------------------------------------------
(***************************************************************************)
(* Type correctness.                                                       *)
(***************************************************************************)
\* What the frame of a suspended request is sure to hold.
SidPcs == {"create_insert", "restore_insert", "touch", "snapshot", "shut_lock",
           "shut_wait", "shut_cancelled", "del_store", "del_cancel", "del_wait"}
InstPcs == {"create_insert", "restore_insert", "touch", "shut_wait",
            "shut_cancelled", "del_cancel", "del_wait"}
CreateOps == {"create", "create_user"}

FrameFact(r) ==
    /\ r.pc \in SidPcs => r.sid \in Sids
    /\ r.pc \in InstPcs => r.inst \in Insts
    /\ r.pc \in {"clean_pop", "clean_mark"} => r.cand \in Insts
    /\ r.pc \in {"create_insert", "create_recheck"} => r.op \in CreateOps
    /\ r.pc \in {"clean", "clean_pop", "clean_mark"}
           => r.op \in CreateOps \cup {"cleanup"}
    /\ r.op \in CreateOps
           => r.sid \in Sids /\ r.inst \in Insts /\ r.user \in Users

FrameOK == \A c \in Callers : FrameFact(req[c])

\* submit keeps the types, and takes no more than MaxSubs.
LEMMA EnqueueType ==
    ASSUME TypeOK, NEW s \in Sids, NEW op \in {"input", "shutdown"},
           Enqueue(s, op)
    PROVE  /\ queue' \in [Insts -> Seq({"input", "shutdown"})]
           /\ accepted' \in [Insts -> 0 .. MaxSubs]
<1> USE ConstantsAssumption
<1> DEFINE i == sessions[s]
<1>1. i \in Insts /\ accepted[i] \in Nat /\ accepted[i] < MaxSubs
      /\ queue[i] \in Seq({"input", "shutdown"})
  BY DEF TypeOK, Enqueue
<1>2. Append(queue[i], op) \in Seq({"input", "shutdown"})
  BY <1>1
<1>3. accepted[i] + 1 \in 0 .. MaxSubs
  BY <1>1
<1> QED BY <1>1, <1>2, <1>3 DEF TypeOK, Enqueue

\* The updates requests make to their frames yield frames.
LEMMA RequestUpdate ==
    ASSUME NEW r \in Request, NEW p \in ReqPcs,
           NEW k \in Insts \cup {NoInst}, NEW T \in SUBSET Insts
    PROVE  /\ [r EXCEPT !.pc = p] \in Request
           /\ [r EXCEPT !.pc = p, !.inst = k] \in Request
           /\ [r EXCEPT !.pc = p, !.cand = k] \in Request
           /\ [r EXCEPT !.pc = p, !.cand = k, !.todo = T] \in Request
           /\ [r EXCEPT !.pc = p, !.todo = T, !.cand = k] \in Request
BY DEF Request

\* A snapshot, landing or failing, leaves the store well typed.
LEMMA SnapshotType ==
    ASSUME TypeOK, NEW s, NEW st \in {"active", "ended"}, Snapshot(s, st)
    PROVE  /\ doc' \in [Sids -> {"none", "live", "deleted"}]
           /\ status' \in [Sids -> {"active", "ended"}]
<1>1. CASE UNCHANGED storeVars
  BY <1>1 DEF TypeOK, storeVars
<1>2. CASE doc' = [doc EXCEPT ![s] = IF @ = "none" THEN "live" ELSE @]
           /\ status' = [status EXCEPT ![s] = st]
  <2>1. CASE s \in Sids
    BY <1>2, <2>1 DEF TypeOK
  <2>2. CASE s \notin Sids
    BY <1>2, <2>2 DEF TypeOK
  <2> QED BY <2>1, <2>2
<1> QED BY <1>1, <1>2 DEF Snapshot

\* The first step of a request keeps the types.
LEMMA RequestBeginType ==
    ASSUME TypeOK, NEW c \in Callers, RequestBegin(c)
    PROVE  TypeOK'
<1> USE ConstantsAssumption
<1>1. ASSUME NEW u \in Users, CreateBegin(c, u) PROVE TypeOK'
  <2>1. PICK s \in Sids, i \in Insts : CreateBegin(c, u)!4!(s, i)
    BY <1>1 DEF CreateBegin
  <2>2. req' \in [Callers -> Request]
    BY <2>1 DEF TypeOK, Request, IdleReq, Frame, PassServerCheck, Candidates,
                ReqPcs, OpNames
  <2> QED BY <1>1, <2>2 DEF CreateBegin, TypeOK, regVars, rtVars, storeVars
<1>2. ASSUME NEW u \in Users, CleanupBegin(c, u) PROVE TypeOK'
  BY <1>2 DEF CleanupBegin, TypeOK, Request, IdleReq, Frame, Candidates,
              ReqPcs, OpNames, regVars, rtVars, storeVars
<1>3. ASSUME NEW s \in Sids, EnsureLoad(c, s) PROVE TypeOK'
  <2>1. PICK i \in Insts : EnsureLoad(c, s)!6!(i)
    BY <1>3 DEF EnsureLoad
  <2>2. req' \in [Callers -> Request]
    BY <2>1 DEF TypeOK, Request, IdleReq, Frame, ReqPcs, OpNames
  <2> QED BY <1>3, <2>2 DEF EnsureLoad, TypeOK, regVars, rtVars, storeVars
<1>4. ASSUME NEW s \in Sids, TouchBegin(c, s) PROVE TypeOK'
  BY <1>4 DEF TouchBegin, TypeOK, Request, IdleReq, Frame, ReqPcs, OpNames,
              regVars, rtVars, storeVars
<1>5. ASSUME NEW s \in Sids, ShutdownSubmit(c, s) PROVE TypeOK'
  <2>1. req' \in [Callers -> Request]
    BY <1>5 DEF ShutdownSubmit, TypeOK, Request, IdleReq, Frame, ReqPcs, OpNames
  <2>2. queue' \in [Insts -> Seq({"input", "shutdown"})]
        /\ accepted' \in [Insts -> 0 .. MaxSubs]
    BY <1>5, EnqueueType DEF ShutdownSubmit
  <2> QED BY <1>5, <2>1, <2>2 DEF ShutdownSubmit, TypeOK, regVars, storeVars
<1>6. ASSUME NEW s \in Sids, DeletePop(c, s) PROVE TypeOK'
  BY <1>6 DEF DeletePop, TypeOK, Request, IdleReq, Frame, ReqPcs, OpNames,
              rtVars, storeVars
<1> QED BY <1>1, <1>2, <1>3, <1>4, <1>5, <1>6 DEF RequestBegin

\* Every later step of a request keeps the types.
LEMMA RequestStepType ==
    ASSUME TypeOK, FrameOK, NEW c \in Callers, RequestStep(c)
    PROVE  TypeOK'
<1> USE ConstantsAssumption
<1>a. req \in [Callers -> Request] /\ req[c] \in Request
  BY DEF TypeOK
<1>0. ASSUME NEW p \in ReqPcs
      PROVE  [req EXCEPT ![c] = [@ EXCEPT !.pc = p]] \in [Callers -> Request]
  BY <1>a, RequestUpdate
<1>r. [req EXCEPT ![c] = IdleReq] \in [Callers -> Request]
  BY DEF TypeOK, Request, IdleReq, ReqPcs
<1>1. CASE CreateRecheck(c)
  <2>1. req' \in [Callers -> Request]
    <3>1. PassServerCheck(req[c]) \in Request
      BY <1>a DEF PassServerCheck, Candidates, Request, ReqPcs, OpNames
    <3> QED BY <1>1, <1>0, <1>a, <1>r, <3>1 DEF CreateRecheck, ReqPcs, Goto,
                                               Return
  <2> QED BY <1>1, <2>1 DEF CreateRecheck, TypeOK, regVars, rtVars, storeVars
<1>2. CASE CreateInsert(c)
  <2>1. req' \in [Callers -> Request]
    BY <1>2, <1>0 DEF CreateInsert, Goto, ReqPcs
  <2>2. req[c] \in Request
    BY DEF TypeOK
  <2> QED BY <1>2, <2>1, <2>2 DEF CreateInsert, StartRuntime, TypeOK, TaskPcs,
                                  Request, storeVars
<1>3. CASE SnapshotLands(c)
  <2>1. req' \in [Callers -> Request]
    BY <1>3, <1>r DEF SnapshotLands, Return
  <2> QED BY <1>3, <2>1, SnapshotType DEF SnapshotLands, TypeOK, regVars, rtVars
<1>4. CASE RestoreInsert(c)
  <2>1. req' \in [Callers -> Request]
    BY <1>4, <1>0, <1>r DEF RestoreInsert, Goto, Return, ReqPcs
  <2>2. req[c] \in Request
    BY DEF TypeOK
  <2>3. CASE sessions[req[c].sid] = NoInst
    <3>1. PICK h \in BOOLEAN : StartRuntime(req[c].inst, req[c].sid, h)
      BY <1>4, <2>3 DEF RestoreInsert
    <3> QED BY <1>4, <2>1, <2>2, <3>1 DEF RestoreInsert, StartRuntime, TypeOK,
                                          TaskPcs, Request, storeVars
  <2>4. CASE sessions[req[c].sid] # NoInst
    BY <1>4, <2>1, <2>4 DEF RestoreInsert, TypeOK, rtVars, storeVars
  <2> QED BY <2>3, <2>4
<1>5. CASE TouchDone(c)
  <2>1. req' \in [Callers -> Request]
    BY <1>5, <1>0 DEF TouchDone, Goto, ReqPcs
  <2> QED BY <1>5, <2>1 DEF TouchDone, TypeOK, regVars, storeVars
<1>6. CASE CleanupCheck(c)
  <2>1. PICK i \in req[c].todo : CleanupCheck(c)!2!(i)
    BY <1>6 DEF CleanupCheck
  <2>2. req' \in [Callers -> Request]
    <3>1. i \in Insts /\ req[c].todo \ {i} \in SUBSET Insts
      BY <1>a DEF Request
    <3> DEFINE r == [req[c] EXCEPT !.pc = "clean_pop", !.cand = i,
                                   !.todo = req[c].todo \ {i}]
    <3>2. r \in Request
      BY <1>a, <3>1 DEF Request, ReqPcs
    <3>3. req' = [req EXCEPT ![c] = r]
      BY <2>1
    <3> HIDE DEF r
    <3> QED BY <1>a, <3>2, <3>3
  <2> QED BY <1>6, <2>2 DEF CleanupCheck, TypeOK, regVars, rtVars, storeVars
<1>7. CASE CleanupPop(c)
  <2>1. req' \in [Callers -> Request]
    BY <1>7, <1>0 DEF CleanupPop, Goto, ReqPcs
  <2> QED BY <1>7, <2>1 DEF CleanupPop, TypeOK, storeVars
<1>8. CASE CleanupMark(c)
  <2>1. req' \in [Callers -> Request]
    <3>1. [req[c] EXCEPT !.pc = "clean", !.cand = NoInst] \in Request
      BY <1>a DEF Request, ReqPcs
    <3> QED BY <1>8, <1>a, <3>1 DEF CleanupMark
  <2>2. status' \in [Sids -> {"active", "ended"}]
    <3> DEFINE s == sidOf[req[c].cand]
    <3>1. CASE s \in Sids
      BY <1>8, <3>1 DEF CleanupMark, TypeOK
    <3>2. CASE s \notin Sids
      BY <1>8, <3>2 DEF CleanupMark, TypeOK
    <3> QED BY <3>1, <3>2
  <2>3. cancelled' \in [Insts -> BOOLEAN]
    BY <1>8 DEF CleanupMark, TypeOK, Done
  <2> QED BY <1>8, <2>1, <2>2, <2>3 DEF CleanupMark, TypeOK, regVars
<1>9. CASE CleanupEnd(c)
  <2>1. req' \in [Callers -> Request]
    <3>1. [req[c] EXCEPT !.pc = "create_recheck", !.todo = {}, !.cand = NoInst]
            \in Request
      BY <1>a DEF Request, ReqPcs
    <3> QED BY <1>9, <1>r, <1>a, <3>1 DEF CleanupEnd, Return
  <2> QED BY <1>9, <2>1 DEF CleanupEnd, TypeOK, regVars, rtVars, storeVars
<1>10. CASE ShutdownLock(c)
  <2>1. req' \in [Callers -> Request]
    <3> DEFINE i == sessions[req[c].sid]
    <3>1. i \in Insts \cup {NoInst}
      BY <1>10 DEF ShutdownLock, FrameOK, FrameFact, SidPcs, TypeOK
    <3>2. [req[c] EXCEPT !.pc = "shut_wait", !.inst = i] \in Request
      BY <1>a, <3>1 DEF Request, ReqPcs
    <3> QED BY <1>10, <1>r, <1>a, <3>2 DEF ShutdownLock, Return
  <2> QED BY <1>10, <2>1 DEF ShutdownLock, TypeOK, regVars, rtVars, storeVars
<1>11. CASE ShutdownTimeout(c)
  <2>1. req' \in [Callers -> Request]
    BY <1>11, <1>0 DEF ShutdownTimeout, Goto, ReqPcs
  <2> QED BY <1>11, <2>1 DEF ShutdownTimeout, TypeOK, regVars, storeVars
<1>12. CASE ShutdownReturn(c)
  <2>1. req' \in [Callers -> Request]
    BY <1>12, <1>r DEF ShutdownReturn, Return
  <2> QED BY <1>12, <2>1 DEF ShutdownReturn, TypeOK, regVars, rtVars, storeVars
<1>13. CASE DeleteStore(c) \/ DeleteStoreFails(c)
  <2>1. req' \in [Callers -> Request]
    BY <1>13, <1>0, <1>r DEF DeleteStore, DeleteStoreFails, Goto, Return, ReqPcs
  <2>2. doc' \in [Sids -> {"none", "live", "deleted"}]
    <3>1. CASE UNCHANGED doc
      BY <3>1 DEF TypeOK
    <3>2. CASE DeleteStore(c)
      <4>1. req[c].sid \in Sids
        BY <3>2 DEF DeleteStore, FrameOK, FrameFact, SidPcs
      <4> QED BY <3>2, <4>1 DEF DeleteStore, TypeOK
    <3> QED BY <1>13, <3>1, <3>2 DEF DeleteStoreFails, storeVars
  <2> QED BY <1>13, <2>1, <2>2 DEF DeleteStore, DeleteStoreFails, TypeOK,
                                   regVars, rtVars, storeVars
<1>14. CASE DeleteCancel(c)
  <2>1. req' \in [Callers -> Request]
    BY <1>14, <1>0, <1>r DEF DeleteCancel, Goto, Return, ReqPcs
  <2> QED BY <1>14, <2>1 DEF DeleteCancel, TypeOK, regVars, storeVars
<1>15. CASE DeleteReturn(c)
  <2>1. req' \in [Callers -> Request]
    BY <1>15, <1>r DEF DeleteReturn, Return
  <2> QED BY <1>15, <2>1 DEF DeleteReturn, TypeOK, regVars, rtVars, storeVars
<1> QED BY <1>1, <1>2, <1>3, <1>4, <1>5, <1>6, <1>7, <1>8, <1>9, <1>10, <1>11,
           <1>12, <1>13, <1>14, <1>15 DEF RequestStep

\* Every step of a session's task keeps the types.
LEMMA TaskStepType ==
    ASSUME TypeOK, NEW i \in Insts, TaskStep(i)
    PROVE  TypeOK'
<1> USE ConstantsAssumption DEF TaskGoto, TaskPcs
<1>1. CASE TaskStart(i)
  BY <1>1 DEF TaskStart, TypeOK, regVars, storeVars
<1>2. CASE Dequeue(i)
  <2>1. /\ queue[i] \in Seq({"input", "shutdown"})
        /\ queue[i] # <<>>
    BY <1>2 DEF Dequeue, TypeOK
  <2>2. /\ Head(queue[i]) \in {"input", "shutdown"}
        /\ Tail(queue[i]) \in Seq({"input", "shutdown"})
    BY <2>1
  <2> QED BY <1>2, <2>2 DEF Dequeue, TypeOK, regVars, storeVars
<1>3. CASE FinishOp(i)
  BY <1>3 DEF FinishOp, TypeOK, regVars, storeVars
<1>4. CASE SaveAfterOp(i)
  BY <1>4, SnapshotType DEF SaveAfterOp, TypeOK, regVars
<1>5. CASE TaskCancelled(i)
  BY <1>5 DEF TaskCancelled, TypeOK, regVars, storeVars
<1>6. CASE FinCleanup(i)
  BY <1>6 DEF FinCleanup, TypeOK, regVars, storeVars
<1>7. CASE FinLock(i)
  BY <1>7 DEF FinLock, TypeOK, regVars, storeVars
<1>8. CASE FinMark(i)
  BY <1>8, SnapshotType DEF FinMark, TypeOK, regVars
<1> QED BY <1>1, <1>2, <1>3, <1>4, <1>5, <1>6, <1>7, <1>8 DEF TaskStep

\* Every step keeps the frames meaningful: a waiting request knows the
\* session and the runtime it waits for.
LEMMA FrameStep ==
    ASSUME TypeOK, FrameOK, [Next]_vars
    PROVE  FrameOK'
<1> USE ConstantsAssumption DEF SidPcs, InstPcs, CreateOps
<1>0. ASSUME UNCHANGED req PROVE FrameOK'
  BY <1>0 DEF FrameOK
<1>u. ASSUME NEW c \in Callers, NEW r, FrameFact(r),
             req' = [req EXCEPT ![c] = r]
      PROVE  FrameOK'
  BY <1>u DEF FrameOK, TypeOK
<1>i. ASSUME NEW c \in Callers, req' = [req EXCEPT ![c] = IdleReq] PROVE FrameOK'
  BY <1>i, <1>u DEF FrameFact, IdleReq
<1>1. ASSUME NEW c \in Callers, RequestBegin(c) PROVE FrameOK'
  <2>1. ASSUME NEW u \in Users, CreateBegin(c, u) PROVE FrameOK'
    <3>1. PICK s \in Sids, i \in Insts : CreateBegin(c, u)!4!(s, i)
      BY <2>1 DEF CreateBegin
    <3> QED BY <3>1 DEF FrameOK, FrameFact, TypeOK, Frame, IdleReq, PassServerCheck
  <2>2. ASSUME NEW u \in Users, CleanupBegin(c, u) PROVE FrameOK'
    BY <2>2 DEF CleanupBegin, FrameOK, FrameFact, TypeOK, Frame, IdleReq
  <2>3. ASSUME NEW s \in Sids, EnsureLoad(c, s) PROVE FrameOK'
    <3>1. PICK i \in Insts : EnsureLoad(c, s)!6!(i)
      BY <2>3 DEF EnsureLoad
    <3> QED BY <3>1 DEF FrameOK, FrameFact, TypeOK, Frame, IdleReq
  <2>4. ASSUME NEW s \in Sids, TouchBegin(c, s) PROVE FrameOK'
    BY <2>4 DEF TouchBegin, FrameOK, FrameFact, TypeOK, Frame, IdleReq
  <2>5. ASSUME NEW s \in Sids, ShutdownSubmit(c, s) PROVE FrameOK'
    BY <2>5 DEF ShutdownSubmit, FrameOK, FrameFact, TypeOK, Frame, IdleReq
  <2>6. ASSUME NEW s \in Sids, DeletePop(c, s) PROVE FrameOK'
    BY <2>6 DEF DeletePop, FrameOK, FrameFact, TypeOK, Frame, IdleReq
  <2> QED BY <1>1, <2>1, <2>2, <2>3, <2>4, <2>5, <2>6 DEF RequestBegin
<1>2. ASSUME NEW c \in Callers, RequestStep(c) PROVE FrameOK'
  <2>0. req[c] \in Request /\ FrameFact(req[c])
    BY DEF TypeOK, FrameOK
  <2>p. ASSUME NEW p \in {"snapshot", "create_insert", "clean_mark", "clean",
                          "shut_cancelled", "del_cancel", "del_wait"},
               p # "snapshot" => req[c].pc \in {"create_recheck", "clean_pop",
                                     "shut_wait", "del_store", "del_cancel"},
               p = "snapshot" => req[c].pc \in {"create_insert", "restore_insert",
                                                "touch"},
               p = "create_insert" => req[c].pc = "create_recheck",
               p \in {"clean_mark", "clean"} => req[c].pc = "clean_pop",
               p = "shut_cancelled" => req[c].pc = "shut_wait",
               p = "del_cancel" => req[c].inst \in Insts /\ req[c].pc = "del_store",
               p = "del_wait" => req[c].pc = "del_cancel",
               Goto(c, p)
        PROVE  FrameOK'
    <3> DEFINE r == [req[c] EXCEPT !.pc = p]
    <3>1. FrameFact(r)
      BY <2>0, <2>p DEF FrameFact, Request
    <3>2. req' = [req EXCEPT ![c] = r]
      BY <2>p DEF Goto
    <3> HIDE DEF r
    <3> QED BY <3>1, <3>2, <1>u
  <2>1. CASE CreateRecheck(c)
    <3>1. FrameFact(PassServerCheck(req[c])) \/ req[c].pc # "create_recheck"
      BY <2>0 DEF FrameFact, PassServerCheck, Request
    <3> QED BY <1>u, <1>i, <2>p, <2>1, <3>1 DEF CreateRecheck, Return
  <2>2. CASE CreateInsert(c) \/ TouchDone(c) \/ ShutdownTimeout(c)
    BY <2>2, <2>p DEF CreateInsert, TouchDone, ShutdownTimeout
  <2>3. CASE SnapshotLands(c) \/ ShutdownReturn(c) \/ DeleteStoreFails(c)
             \/ DeleteReturn(c)
    BY <1>i, <2>3 DEF SnapshotLands, ShutdownReturn, DeleteStoreFails,
                      DeleteReturn, Return
  <2>4. CASE RestoreInsert(c)
    BY <1>i, <2>4, <2>p DEF RestoreInsert, Return
  <2>5. CASE CleanupCheck(c)
    <3>1. PICK i \in req[c].todo : CleanupCheck(c)!2!(i)
      BY <2>5 DEF CleanupCheck
    <3> DEFINE r == [req[c] EXCEPT !.pc = "clean_pop", !.cand = i,
                                   !.todo = req[c].todo \ {i}]
    <3>2. FrameFact(r)
      BY <2>0, <2>5 DEF FrameFact, Request, CleanupCheck
    <3>3. req' = [req EXCEPT ![c] = r]
      BY <3>1
    <3> HIDE DEF r
    <3> QED BY <3>2, <3>3, <1>u
  <2>6. CASE CleanupPop(c)
    BY <2>6, <2>p DEF CleanupPop
  <2>7. CASE CleanupMark(c)
    <3>1. FrameFact([req[c] EXCEPT !.pc = "clean", !.cand = NoInst])
      BY <2>0, <2>7 DEF FrameFact, Request, CleanupMark
    <3> QED BY <1>u, <2>7, <3>1 DEF CleanupMark
  <2>8. CASE CleanupEnd(c)
    <3>1. CASE req[c].op = "cleanup"
      BY <1>i, <2>8, <3>1 DEF CleanupEnd, Return
    <3>2. CASE req[c].op # "cleanup"
      <4>1. FrameFact([req[c] EXCEPT !.pc = "create_recheck", !.todo = {},
                                     !.cand = NoInst])
        BY <2>0, <2>8, <3>2 DEF FrameFact, Request, CleanupEnd
      <4> QED BY <1>u, <2>8, <3>2, <4>1 DEF CleanupEnd
    <3> QED BY <3>1, <3>2
  <2>9. CASE ShutdownLock(c)
    <3> DEFINE i == sessions[req[c].sid]
    <3>1. CASE i = NoInst
      BY <1>i, <2>9, <3>1 DEF ShutdownLock, Return
    <3>2. CASE i # NoInst
      <4>1. i \in Insts
        BY <2>0, <2>9, <3>2 DEF ShutdownLock, FrameFact, TypeOK
      <4>2. FrameFact([req[c] EXCEPT !.pc = "shut_wait", !.inst = i])
        BY <2>0, <2>9, <4>1 DEF FrameFact, Request, ShutdownLock
      <4> QED BY <1>u, <2>9, <3>2, <4>2 DEF ShutdownLock
    <3> QED BY <3>1, <3>2
  <2>10. CASE DeleteStore(c)
    BY <1>i, <2>0, <2>10, <2>p DEF DeleteStore, Return, Request
  <2>11. CASE DeleteCancel(c)
    BY <1>i, <2>11, <2>p DEF DeleteCancel, Return
  <2> QED BY <1>2, <2>1, <2>2, <2>3, <2>4, <2>5, <2>6, <2>7, <2>8, <2>9, <2>10,
             <2>11 DEF RequestStep
<1>3. ASSUME NEW i \in Insts, TaskStep(i) PROVE FrameOK'
  BY <1>0, <1>3 DEF TaskStep, TaskStart, Dequeue, FinishOp, SaveAfterOp,
                    TaskCancelled, FinCleanup, FinLock, FinMark
<1>4. ASSUME NEW s \in Sids, Submit(s) \/ Interrupt(s) PROVE FrameOK'
  BY <1>0, <1>4 DEF Submit, Interrupt
<1>5. CASE UNCHANGED vars
  BY <1>0, <1>5 DEF vars
<1> QED BY <1>1, <1>2, <1>3, <1>4, <1>5 DEF Next

TypeInv == TypeOK /\ FrameOK

\* The types, with what each frame of session_manager.py holds at its
\* awaits, are inductive.
THEOREM TypeInvariance == Spec => []TypeInv
<1> USE ConstantsAssumption DEF TypeInv
<1>1. Init => TypeInv
  BY DEF Init, TypeOK, FrameOK, FrameFact, IdleReq, Request, ReqPcs, OpNames, TaskPcs,
         SidPcs, InstPcs, CreateOps
<1>2. TypeInv /\ [Next]_vars => TypeInv'
  <2> SUFFICES ASSUME TypeOK, FrameOK, [Next]_vars PROVE TypeOK'
    BY FrameStep
  <2>1. ASSUME NEW s \in Sids, Submit(s) PROVE TypeOK'
    <3>1. queue' \in [Insts -> Seq({"input", "shutdown"})]
          /\ accepted' \in [Insts -> 0 .. MaxSubs]
      BY <2>1, EnqueueType DEF Submit
    <3> QED BY <2>1, <3>1 DEF Submit, TypeOK, regVars, storeVars
  <2>2. ASSUME NEW s \in Sids, Interrupt(s) PROVE TypeOK'
    BY <2>2 DEF Interrupt, TypeOK, regVars, storeVars
  <2>3. CASE UNCHANGED vars
    BY <2>3 DEF vars, TypeOK, regVars, rtVars, storeVars
  <2> QED BY <2>1, <2>2, <2>3, RequestBeginType, RequestStepType, TaskStepType
          DEF Next
<1> QED BY <1>1, <1>2, PTL DEF Spec

(* Every variable keeps its type, whatever requests, tasks and faults do. *)
THEOREM TypeCorrect == Spec => []TypeOK
BY TypeInvariance, PTL DEF TypeInv

-----------------------------------------------------------------------------
(***************************************************************************)
(* What registry, runtimes and requests know of each other.  A request     *)
(* that is still building a runtime holds its object, and a create also    *)
(* its id, alone; whatever else a request refers to has been started.      *)
(***************************************************************************)
Started(i) == tpc[i] # "none"

RegistryInv ==
    /\ \A s \in Sids : sessions[s] # NoInst => sidOf[sessions[s]] = s
    /\ \A i \in Insts : Started(i) => sidOf[i] \in Sids /\ owner[sidOf[i]] # NoUser
    /\ \A i \in Insts : ~Started(i) =>
           sidOf[i] = NoSid /\ queue[i] = <<>> /\ cur[i] = "none" /\ ~cancelled[i]
    /\ \A s \in Sids : doc[s] # "none" => owner[s] # NoUser

Creating(r) ==
    /\ r.pc \in {"clean", "clean_pop", "clean_mark", "create_recheck",
                 "create_insert"}
    /\ r.op \in CreateOps
Reserving(r) == Creating(r) \/ r.pc = "restore_insert"

ReservedInv ==
    \A c \in Callers :
        /\ Reserving(req[c]) =>
               /\ ~Started(req[c].inst)
               /\ \A d \in Callers \ {c} : req[d].inst # req[c].inst
        /\ Creating(req[c]) =>
               /\ owner[req[c].sid] = NoUser
               /\ \A d \in Callers \ {c} : req[d].sid # req[c].sid
        /\ ~Creating(req[c]) /\ req[c].sid # NoSid => owner[req[c].sid] # NoUser
        /\ ~Reserving(req[c]) /\ req[c].inst # NoInst => Started(req[c].inst)
        /\ req[c].cand # NoInst => Started(req[c].cand)
        /\ \A i \in req[c].todo : Started(i)

BaseInv == TypeInv /\ RegistryInv /\ ReservedInv

regVarsAll == <<sessions, sidOf, owner, tpc, queue, cur, cancelled, doc>>

\* Starting a reserved runtime keeps the registry consistent.
LEMMA StartRegistry ==
    ASSUME TypeOK, RegistryInv, NEW s \in Sids, NEW i \in Insts, NEW h \in BOOLEAN,
           NEW u \in Users,
           ~Started(i), sessions[s] = NoInst, StartRuntime(i, s, h),
           owner' = [owner EXCEPT ![s] = u] \/ (UNCHANGED owner /\ owner[s] # NoUser),
           UNCHANGED doc
    PROVE  RegistryInv'
<1> USE ConstantsAssumption DEF Started
<1>1. /\ sessions' = [sessions EXCEPT ![s] = i]
      /\ sidOf' = [sidOf EXCEPT ![i] = s]
      /\ tpc' = [tpc EXCEPT ![i] = "new"]
      /\ UNCHANGED <<queue, cur, cancelled>>
  BY DEF StartRuntime
<1>2. \A t \in Sids : owner'[t] # NoUser <=> (t = s \/ owner[t] # NoUser)
  BY DEF TypeOK
<1>3. \A t \in Sids : sessions'[t] # NoInst => sidOf'[sessions'[t]] = t
  <2> SUFFICES ASSUME NEW t \in Sids, sessions'[t] # NoInst
               PROVE  sidOf'[sessions'[t]] = t
    OBVIOUS
  <2>1. CASE t = s
    BY <1>1, <2>1 DEF TypeOK
  <2>2. CASE t # s
    <3>1. sessions'[t] = sessions[t] /\ sessions[t] \in Insts /\ sidOf[sessions[t]] = t
      BY <1>1, <2>2 DEF TypeOK, RegistryInv
    <3>2. sessions[t] # i
      BY <3>1 DEF RegistryInv
    <3> QED BY <1>1, <3>1, <3>2 DEF TypeOK
  <2> QED BY <2>1, <2>2
<1>4. \A j \in Insts : Started(j)' => sidOf'[j] \in Sids /\ owner'[sidOf'[j]] # NoUser
  BY <1>1, <1>2 DEF TypeOK, RegistryInv
<1>5. \A j \in Insts : ~Started(j)' =>
          sidOf'[j] = NoSid /\ queue'[j] = <<>> /\ cur'[j] = "none" /\ ~cancelled'[j]
  BY <1>1 DEF TypeOK, RegistryInv
<1>6. \A t \in Sids : doc'[t] # "none" => owner'[t] # NoUser
  BY <1>2 DEF RegistryInv
<1> QED BY <1>3, <1>4, <1>5, <1>6 DEF RegistryInv

\* Every step keeps the registry consistent.
LEMMA RegistryStep ==
    ASSUME BaseInv, [Next]_vars
    PROVE  RegistryInv'
<1> USE ConstantsAssumption DEF Started, BaseInv, TypeInv
<1>0. ASSUME UNCHANGED regVarsAll PROVE RegistryInv'
  BY <1>0 DEF RegistryInv, regVarsAll
<1>d. ASSUME NEW s \in Sids, owner[s] # NoUser,
             \A t \in Sids \ {s} : doc'[t] = doc[t],
             UNCHANGED <<sessions, sidOf, owner, queue, cancelled>>,
             \A i \in Insts : Started(i)' <=> Started(i),
             \A i \in Insts : ~Started(i) => cur'[i] = cur[i]
      PROVE  RegistryInv'
  BY <1>d DEF RegistryInv
<1>q. ASSUME NEW s \in Sids, NEW op, Enqueue(s, op),
             UNCHANGED <<regVars, cur, tpc, cancelled, storeVars>>
      PROVE  RegistryInv'
  <2>1. sessions[s] \in Insts /\ Started(sessions[s])
    BY <1>q DEF Enqueue, RegistryInv, TypeOK
  <2> QED BY <1>q, <2>1 DEF Enqueue, RegistryInv, TypeOK, regVars, storeVars
<1>c. ASSUME NEW i \in Insts, Started(i), NEW b \in BOOLEAN,
             cancelled' = [cancelled EXCEPT ![i] = b] \/ UNCHANGED cancelled,
             UNCHANGED <<regVars, cur, tpc, queue, doc>>
      PROVE  RegistryInv'
  <2>1. \A j \in Insts \ {i} : cancelled'[j] = cancelled[j]
    BY <1>c DEF TypeOK
  <2>2. /\ UNCHANGED <<sessions, sidOf, owner, cur, tpc, queue, doc>>
        /\ tpc[i] # "none"
    BY <1>c DEF regVars
  <2> QED BY <2>1, <2>2 DEF RegistryInv
<1>s. ASSUME NEW s \in Sids, owner[s] # NoUser, NEW st, Snapshot(s, st)
      PROVE  \A t \in Sids \ {s} : doc'[t] = doc[t]
  BY <1>s DEF Snapshot, TypeOK, storeVars
<1>1. ASSUME NEW c \in Callers, RequestBegin(c) PROVE RegistryInv'
  <2>1. ASSUME NEW s \in Sids, DeletePop(c, s) PROVE RegistryInv'
    BY <2>1 DEF DeletePop, RegistryInv, TypeOK, rtVars, storeVars
  <2> QED BY <1>0, <1>1, <1>q, <2>1
          DEF RequestBegin, CreateBegin, CleanupBegin, EnsureLoad, TouchBegin,
              ShutdownSubmit, regVarsAll, regVars, rtVars, storeVars
<1>2. ASSUME NEW c \in Callers, RequestStep(c) PROVE RegistryInv'
  <2>0. FrameFact(req[c])
    BY DEF FrameOK
  <2>1. CASE CreateInsert(c)
    <3>1. /\ req[c].sid \in Sids /\ req[c].inst \in Insts /\ req[c].user \in Users
          /\ ~Started(req[c].inst) /\ owner[req[c].sid] = NoUser
      BY <2>0, <2>1 DEF FrameFact, CreateInsert, ReservedInv, Reserving, Creating
    <3>2. sessions[req[c].sid] = NoInst
      BY <3>1 DEF RegistryInv, TypeOK
    <3> QED BY <2>1, <3>1, <3>2, StartRegistry DEF CreateInsert, storeVars
  <2>2. CASE RestoreInsert(c)
    <3> DEFINE s == req[c].sid
    <3>1. /\ s \in Sids /\ req[c].inst \in Insts
          /\ ~Started(req[c].inst) /\ owner[s] # NoUser
      BY <2>0, <2>2 DEF FrameFact, RestoreInsert, ReservedInv, Reserving,
                        Creating, SidPcs, InstPcs
    <3>2. CASE sessions[s] = NoInst
      <4>1. PICK h \in BOOLEAN : StartRuntime(req[c].inst, s, h)
        BY <2>2, <3>2 DEF RestoreInsert
      <4>2. owner[s] \in Users
        BY <3>1 DEF TypeOK
      <4> QED BY <2>2, <3>1, <3>2, <4>1, <4>2, StartRegistry
              DEF RestoreInsert, storeVars
    <3>3. CASE sessions[s] # NoInst
      BY <1>0, <2>2, <3>3 DEF RestoreInsert, regVarsAll, rtVars, storeVars
    <3> QED BY <3>2, <3>3
  <2>3. CASE CleanupPop(c)
    <3>1. UNCHANGED <<sidOf, owner, tpc, queue, cur, cancelled, doc>>
      BY <2>3 DEF CleanupPop, storeVars
    <3>2. \A s \in Sids : sessions'[s] # NoInst => sessions'[s] = sessions[s]
      BY <2>3 DEF CleanupPop, TypeOK
    <3> QED BY <3>1, <3>2 DEF RegistryInv
  <2>4. CASE CleanupMark(c)
    <3>1. req[c].cand \in Insts /\ Started(req[c].cand)
      BY <2>0, <2>4 DEF FrameFact, CleanupMark, ReservedInv
    <3>2. (~Done(req[c].cand)) \in BOOLEAN
      BY DEF Done
    <3> QED BY <1>c, <2>4, <3>1, <3>2 DEF CleanupMark
  <2>5. CASE ShutdownTimeout(c)
    <3>1. req[c].inst \in Insts /\ Started(req[c].inst)
      BY <2>0, <2>5 DEF FrameFact, ShutdownTimeout, ReservedInv, Reserving,
                        Creating, InstPcs
    <3> QED BY <1>c, <2>5, <3>1 DEF ShutdownTimeout, storeVars
  <2>6. CASE DeleteCancel(c)
    <3>1. req[c].inst \in Insts /\ Started(req[c].inst)
      BY <2>0, <2>6 DEF FrameFact, DeleteCancel, ReservedInv, Reserving,
                        Creating, InstPcs
    <3> QED BY <1>c, <2>6, <3>1 DEF DeleteCancel, storeVars
  <2>7. CASE SnapshotLands(c)
    <3>1. req[c].sid \in Sids /\ owner[req[c].sid] # NoUser
      BY <2>0, <2>7 DEF FrameFact, SnapshotLands, ReservedInv, Creating, SidPcs
    <3> QED BY <1>d, <1>s, <2>7, <3>1 DEF SnapshotLands, regVars, rtVars
  <2>8. CASE DeleteStore(c)
    <3>1. req[c].sid \in Sids /\ owner[req[c].sid] # NoUser
      BY <2>0, <2>8 DEF FrameFact, DeleteStore, ReservedInv, Creating, SidPcs
    <3>2. \A t \in Sids \ {req[c].sid} : doc'[t] = doc[t]
      BY <2>8, <3>1 DEF DeleteStore, TypeOK
    <3> QED BY <1>d, <2>8, <3>1, <3>2 DEF DeleteStore, regVars, rtVars
  <2> QED BY <1>0, <1>2, <2>1, <2>2, <2>3, <2>4, <2>5, <2>6, <2>7, <2>8
          DEF RequestStep, CreateRecheck, TouchDone, CleanupCheck, CleanupEnd,
              ShutdownLock, ShutdownReturn, DeleteStoreFails, DeleteReturn,
              regVarsAll, regVars, rtVars, storeVars
<1>3. ASSUME NEW i \in Insts, TaskStep(i) PROVE RegistryInv'
  <2>0. Started(i) /\ sidOf[i] \in Sids /\ owner[sidOf[i]] # NoUser
    BY <1>3 DEF TaskStep, TaskStart, Dequeue, FinishOp, SaveAfterOp,
                TaskCancelled, FinCleanup, FinLock, FinMark, Done, RegistryInv
  <2>1. CASE TaskStart(i) \/ FinishOp(i) \/ FinCleanup(i) \/ FinLock(i)
    BY <2>0, <2>1 DEF TaskStart, FinishOp, FinCleanup, FinLock, TaskGoto,
                      RegistryInv, TypeOK, regVars, storeVars
  <2>2. CASE Dequeue(i)
    BY <2>0, <2>2 DEF Dequeue, TaskGoto, RegistryInv, TypeOK, regVars, storeVars
  <2>3. CASE TaskCancelled(i)
    BY <2>0, <2>3 DEF TaskCancelled, TaskGoto, RegistryInv, TypeOK, regVars,
                      storeVars
  <2>4. CASE SaveAfterOp(i)
    <3>1. \A j \in Insts : Started(j)' <=> Started(j)
      BY <2>0, <2>4 DEF SaveAfterOp, TaskGoto, TypeOK
    <3>2. \A j \in Insts : ~Started(j) => cur'[j] = cur[j]
      BY <2>0, <2>4 DEF SaveAfterOp, TypeOK
    <3> QED BY <1>d, <1>s, <2>0, <2>4, <3>1, <3>2 DEF SaveAfterOp, regVars
  <2>5. CASE FinMark(i)
    <3>1. \A j \in Insts : Started(j)' <=> Started(j)
      BY <2>0, <2>5 DEF FinMark, TaskGoto, TypeOK
    <3> QED BY <1>d, <1>s, <2>0, <2>5, <3>1 DEF FinMark, regVars
  <2> QED BY <1>3, <2>1, <2>2, <2>3, <2>4, <2>5 DEF TaskStep
<1>4. ASSUME NEW s \in Sids, Submit(s) PROVE RegistryInv'
  BY <1>q, <1>4 DEF Submit
<1>5. ASSUME NEW s \in Sids, Interrupt(s) PROVE RegistryInv'
  BY <1>0, <1>5 DEF Interrupt, regVarsAll, regVars, storeVars
<1>6. CASE UNCHANGED vars
  BY <1>0, <1>6 DEF vars, regVarsAll, regVars, rtVars, storeVars
<1> QED BY <1>1, <1>2, <1>3, <1>4, <1>5, <1>6 DEF Next

\* What ReservedInv says of one frame alone, of tasks tp and owners ow.
OwnFact(r, tp, ow) ==
    /\ r.sid \in Sids \cup {NoSid}
    /\ Reserving(r) => r.inst \in Insts /\ tp[r.inst] = "none"
    /\ Creating(r) => r.sid \in Sids /\ ow[r.sid] = NoUser
    /\ ~Creating(r) /\ r.sid # NoSid => ow[r.sid] # NoUser
    /\ ~Reserving(r) /\ r.inst # NoInst => r.inst \in Insts /\ tp[r.inst] # "none"
    /\ r.cand # NoInst => r.cand \in Insts /\ tp[r.cand] # "none"
    /\ \A i \in r.todo : i \in Insts /\ tp[i] # "none"

\* A request that reserves nothing may change its frame freely.
LEMMA ReservedOwn ==
    ASSUME TypeOK, FrameOK, NEW c \in Callers, ReservedInv
    PROVE  OwnFact(req[c], tpc, owner)
BY DEF OwnFact, ReservedInv, TypeOK, FrameOK, FrameFact, Request, Started,
       Reserving, Creating, CreateOps, InstPcs

\* A request moves on, alone or starting its runtime.
LEMMA ReservedUpdate ==
    ASSUME TypeOK, FrameOK, ReservedInv, NEW c \in Callers, NEW r,
           req' = [req EXCEPT ![c] = r],
           OwnFact(r, tpc', owner'),
           Reserving(r) => \/ Reserving(req[c]) /\ r.inst = req[c].inst
                           \/ \A d \in Callers : req[d].inst # r.inst,
           Creating(r) => \/ Creating(req[c]) /\ r.sid = req[c].sid
                          \/ \A d \in Callers : req[d].sid # r.sid,
           \A i \in Insts : tpc[i] # "none" => tpc'[i] # "none",
           \A s \in Sids : owner[s] # NoUser => owner'[s] # NoUser,
           \A d \in Callers \ {c} : Reserving(req[d]) =>
               tpc'[req[d].inst] = "none" /\ r.inst # req[d].inst,
           \A d \in Callers \ {c} : Creating(req[d]) =>
               owner'[req[d].sid] = NoUser /\ r.sid # req[d].sid
    PROVE  ReservedInv'
<1> USE ConstantsAssumption
<1>1. req'[c] = r /\ \A d \in Callers \ {c} : req'[d] = req[d]
  BY DEF TypeOK
<1>2. \A d \in Callers : OwnFact(req'[d], tpc', owner')
  <2> SUFFICES ASSUME NEW d \in Callers \ {c} PROVE OwnFact(req[d], tpc', owner')
    BY <1>1
  <2>1. OwnFact(req[d], tpc, owner)
    BY ReservedOwn
  <2> QED BY <2>1 DEF OwnFact
<1>3. \A d \in Callers : Reserving(req'[d]) =>
          \A e \in Callers \ {d} : req'[e].inst # req'[d].inst
  BY <1>1 DEF ReservedInv
<1>4. \A d \in Callers : Creating(req'[d]) =>
          \A e \in Callers \ {d} : req'[e].sid # req'[d].sid
  BY <1>1 DEF ReservedInv
<1> HIDE DEF Reserving, Creating
<1>5. \A d \in Callers :
        /\ Reserving(req'[d]) =>
               /\ tpc'[req'[d].inst] = "none"
               /\ \A e \in Callers \ {d} : req'[e].inst # req'[d].inst
        /\ Creating(req'[d]) =>
               /\ owner'[req'[d].sid] = NoUser
               /\ \A e \in Callers \ {d} : req'[e].sid # req'[d].sid
        /\ ~Creating(req'[d]) /\ req'[d].sid # NoSid => owner'[req'[d].sid] # NoUser
        /\ ~Reserving(req'[d]) /\ req'[d].inst # NoInst => tpc'[req'[d].inst] # "none"
        /\ req'[d].cand # NoInst => tpc'[req'[d].cand] # "none"
        /\ \A i \in req'[d].todo : tpc'[i] # "none"
  BY <1>2, <1>3, <1>4 DEF OwnFact
<1> QED BY <1>5 DEF ReservedInv, Reserving, Creating, Started

\* The same when no runtime starts.
LEMMA ReservedMove ==
    ASSUME BaseInv, NEW c \in Callers, NEW r,
           req' = [req EXCEPT ![c] = r], UNCHANGED <<tpc, owner>>,
           OwnFact(r, tpc, owner),
           Reserving(r) => \/ Reserving(req[c]) /\ r.inst = req[c].inst
                           \/ \A d \in Callers : req[d].inst # r.inst,
           Creating(r) => \/ Creating(req[c]) /\ r.sid = req[c].sid
                          \/ \A d \in Callers : req[d].sid # r.sid
    PROVE  ReservedInv'
<1> USE ConstantsAssumption DEF BaseInv, TypeInv
<1>1. \A d \in Callers \ {c} : OwnFact(req[d], tpc, owner)
  BY ReservedOwn
<1>2. ASSUME NEW d \in Callers \ {c}, Reserving(req[d])
      PROVE  tpc'[req[d].inst] = "none" /\ r.inst # req[d].inst
  <2>1. req[d].inst \in Insts /\ tpc[req[d].inst] = "none"
    BY <1>1, <1>2 DEF OwnFact
  <2>2. CASE Reserving(r)
    BY <1>2, <2>1, <2>2 DEF ReservedInv
  <2>3. CASE ~Reserving(r)
    BY <2>1, <2>3 DEF OwnFact
  <2> QED BY <2>1, <2>2, <2>3
<1>3. ASSUME NEW d \in Callers \ {c}, Creating(req[d])
      PROVE  owner'[req[d].sid] = NoUser /\ r.sid # req[d].sid
  <2>1. req[d].sid \in Sids /\ owner[req[d].sid] = NoUser
    BY <1>1, <1>3 DEF OwnFact
  <2>2. CASE Creating(r)
    BY <1>3, <2>1, <2>2 DEF ReservedInv
  <2>3. CASE ~Creating(r)
    BY <2>1, <2>3 DEF OwnFact
  <2> QED BY <2>1, <2>2, <2>3
<1> HIDE DEF Reserving, Creating
<1> QED BY <1>2, <1>3, ReservedUpdate

\* A cleanup only looks at runtimes that were started.
LEMMA CandidatesStarted ==
    ASSUME BaseInv, NEW u
    PROVE  \A i \in Candidates(u) : i \in Insts /\ tpc[i] # "none"
BY ConstantsAssumption
   DEF Candidates, Registered, BaseInv, RegistryInv, Started

\* Reservations are disjoint when a request begins.
LEMMA ReservedBegin ==
    ASSUME BaseInv, NEW c \in Callers, RequestBegin(c)
    PROVE  ReservedInv'
<1> USE ConstantsAssumption DEF BaseInv, TypeInv
<1>1. ASSUME NEW u \in Users, CreateBegin(c, u) PROVE ReservedInv'
  <2>1. PICK s \in Sids, i \in Insts : CreateBegin(c, u)!4!(s, i)
    BY <1>1 DEF CreateBegin
  <2> DEFINE f == [Frame("clean", "create") EXCEPT !.user = u, !.sid = s,
                                                   !.inst = i]
             r == IF ServerFull THEN [f EXCEPT !.todo = Candidates(Dev)]
                                ELSE PassServerCheck(f)
  <2>2. req' = [req EXCEPT ![c] = r]
    BY <2>1
  <2>3. /\ \A d \in Callers : req[d].inst # i /\ req[d].sid # s
        /\ tpc[i] = "none" /\ owner[s] = NoUser
    BY <2>1 DEF FreshSid, FreshInst
  <2>4. r.sid = s /\ r.inst = i /\ r.cand = NoInst /\ Creating(r)
        /\ r.todo \in {{}, Candidates(Dev), Candidates(u)}
    BY DEF Frame, IdleReq, PassServerCheck, Creating, CreateOps
  <2> HIDE DEF r
  <2>5. OwnFact(r, tpc, owner)
    BY <2>3, <2>4, CandidatesStarted DEF OwnFact, Reserving
  <2> QED BY <1>1, <2>2, <2>3, <2>4, <2>5, ReservedMove
          DEF CreateBegin, regVars, rtVars
<1>2. ASSUME NEW u \in Users, CleanupBegin(c, u) PROVE ReservedInv'
  <2> DEFINE r == [Frame("clean", "cleanup") EXCEPT !.user = u,
                                                    !.todo = Candidates(u)]
  <2>1. ~Reserving(r) /\ ~Creating(r) /\ OwnFact(r, tpc, owner)
    BY CandidatesStarted DEF OwnFact, Frame, IdleReq, Creating, Reserving,
                             CreateOps
  <2>2. req' = [req EXCEPT ![c] = r]
    BY <1>2 DEF CleanupBegin
  <2> HIDE DEF r
  <2> QED BY <1>2, <2>1, <2>2, ReservedMove DEF CleanupBegin, regVars, rtVars
<1>3. ASSUME NEW s \in Sids, EnsureLoad(c, s) PROVE ReservedInv'
  <2>1. PICK i \in Insts : EnsureLoad(c, s)!6!(i)
    BY <1>3 DEF EnsureLoad
  <2> DEFINE r == [Frame("restore_insert", "ensure") EXCEPT !.sid = s, !.inst = i]
  <2>2. /\ \A d \in Callers : req[d].inst # i
        /\ tpc[i] = "none" /\ owner[s] # NoUser
    BY <1>3, <2>1 DEF FreshInst, EnsureLoad, RegistryInv
  <2>3. r.inst = i /\ ~Creating(r) /\ OwnFact(r, tpc, owner)
    BY <2>2 DEF OwnFact, Frame, IdleReq, Creating, Reserving, CreateOps
  <2>4. req' = [req EXCEPT ![c] = r]
    BY <2>1
  <2> HIDE DEF r
  <2> QED BY <1>3, <2>2, <2>3, <2>4, ReservedMove DEF EnsureLoad, regVars, rtVars
<1>4. ASSUME NEW s \in Sids, TouchBegin(c, s) PROVE ReservedInv'
  <2> DEFINE r == [Frame("touch", "touch") EXCEPT !.sid = s, !.inst = sessions[s]]
  <2>1. sessions[s] \in Insts /\ sidOf[sessions[s]] = s
    BY <1>4 DEF TouchBegin, TypeOK, RegistryInv
  <2>2. ~Reserving(r) /\ ~Creating(r) /\ OwnFact(r, tpc, owner)
    BY <2>1 DEF OwnFact, Frame, IdleReq, Creating, Reserving, CreateOps,
                RegistryInv, Started
  <2>3. req' = [req EXCEPT ![c] = r]
    BY <1>4 DEF TouchBegin
  <2> HIDE DEF r
  <2> QED BY <1>4, <2>2, <2>3, ReservedMove DEF TouchBegin, regVars, rtVars
<1>5. ASSUME NEW s \in Sids, ShutdownSubmit(c, s) PROVE ReservedInv'
  <2> DEFINE r == [Frame("shut_lock", "shutdown") EXCEPT !.sid = s]
  <2>1. sessions[s] \in Insts /\ sidOf[sessions[s]] = s
    BY <1>5 DEF ShutdownSubmit, Enqueue, TypeOK, RegistryInv
  <2>2. ~Reserving(r) /\ ~Creating(r) /\ OwnFact(r, tpc, owner)
    BY <2>1 DEF OwnFact, Frame, IdleReq, Creating, Reserving, CreateOps,
                RegistryInv, Started
  <2>3. req' = [req EXCEPT ![c] = r]
    BY <1>5 DEF ShutdownSubmit
  <2> HIDE DEF r
  <2> QED BY <1>5, <2>2, <2>3, ReservedMove DEF ShutdownSubmit, regVars
<1>6. ASSUME NEW s \in Sids, DeletePop(c, s) PROVE ReservedInv'
  <2> DEFINE r == [Frame("del_store", "delete") EXCEPT !.sid = s,
                                                       !.inst = sessions[s]]
  <2>1. /\ sessions[s] \in Insts \cup {NoInst}
        /\ sessions[s] # NoInst => tpc[sessions[s]] # "none"
        /\ owner[s] # NoUser
    BY <1>6 DEF DeletePop, TypeOK, RegistryInv, Started
  <2>2. ~Reserving(r) /\ ~Creating(r) /\ OwnFact(r, tpc, owner)
    BY <2>1 DEF OwnFact, Frame, IdleReq, Creating, Reserving, CreateOps
  <2>3. req' = [req EXCEPT ![c] = r]
    BY <1>6 DEF DeletePop
  <2> HIDE DEF r
  <2> QED BY <1>6, <2>2, <2>3, ReservedMove DEF DeletePop, rtVars
<1> QED BY <1>1, <1>2, <1>3, <1>4, <1>5, <1>6 DEF RequestBegin

\* They stay so when a reserved runtime is started.
LEMMA ReservedStart ==
    ASSUME BaseInv, NEW c \in Callers, NEW h \in BOOLEAN,
           req[c].pc \in {"create_insert", "restore_insert"},
           StartRuntime(req[c].inst, req[c].sid, h), Goto(c, "snapshot"),
           \/ /\ req[c].pc = "create_insert"
              /\ owner' = [owner EXCEPT ![req[c].sid] = req[c].user]
           \/ req[c].pc = "restore_insert" /\ UNCHANGED owner
    PROVE  ReservedInv'
<1> USE ConstantsAssumption DEF BaseInv, TypeInv
<1> DEFINE r == [req[c] EXCEPT !.pc = "snapshot"]
           i == req[c].inst
           s == req[c].sid
<1>0. /\ req[c] \in Request /\ OwnFact(req[c], tpc, owner)
      /\ Reserving(req[c]) /\ i \in Insts /\ s \in Sids
      /\ req[c].pc = "create_insert" => Creating(req[c]) /\ req[c].user \in Users
  BY ReservedOwn DEF TypeOK, FrameOK, FrameFact, Reserving, Creating, InstPcs,
                     SidPcs
<1>1. req' = [req EXCEPT ![c] = r]
  BY DEF Goto
<1>2. tpc' = [tpc EXCEPT ![i] = "new"] /\ tpc'[i] = "new"
  BY <1>0 DEF StartRuntime, TypeOK
<1>3. /\ \A t \in Sids : owner[t] # NoUser => owner'[t] # NoUser
      /\ owner'[s] # NoUser
  BY <1>0 DEF TypeOK, OwnFact, Reserving, Creating
<1>4. \A t \in Sids \ {s} : owner'[t] = owner[t]
  BY <1>0 DEF TypeOK
<1>5. /\ ~Reserving(r) /\ ~Creating(r)
      /\ r.inst = i /\ r.sid = s /\ r.cand = req[c].cand /\ r.todo = req[c].todo
  BY <1>0 DEF Reserving, Creating, Request
<1>6. OwnFact(r, tpc', owner')
  BY <1>0, <1>2, <1>3, <1>5 DEF OwnFact, TypeOK
<1>7. ASSUME NEW d \in Callers \ {c}, Reserving(req[d])
      PROVE  tpc'[req[d].inst] = "none" /\ r.inst # req[d].inst
  <2>1. req[d].inst \in Insts /\ tpc[req[d].inst] = "none"
    BY <1>7, ReservedOwn DEF OwnFact
  <2>2. req[d].inst # i
    BY <1>0, <1>7 DEF ReservedInv
  <2> QED BY <1>2, <1>5, <2>1, <2>2 DEF TypeOK
<1>8. ASSUME NEW d \in Callers \ {c}, Creating(req[d])
      PROVE  owner'[req[d].sid] = NoUser /\ r.sid # req[d].sid
  <2>1. req[d].sid \in Sids /\ owner[req[d].sid] = NoUser
    BY <1>8, ReservedOwn DEF OwnFact
  <2>2. req[d].sid # s
    BY <1>8 DEF ReservedInv
  <2> QED BY <1>4, <1>5, <2>1, <2>2
<1>9. \A j \in Insts : tpc[j] # "none" => tpc'[j] # "none"
  BY <1>2 DEF TypeOK
<1> HIDE DEF r, Reserving, Creating
<1> QED BY <1>1, <1>3, <1>5, <1>6, <1>7, <1>8, <1>9, ReservedUpdate

\* They stay so at every later step of a request.
LEMMA ReservedRequest ==
    ASSUME BaseInv, NEW c \in Callers, RequestStep(c)
    PROVE  ReservedInv'
<1> USE ConstantsAssumption DEF BaseInv, TypeInv
<1>0. /\ req[c] \in Request /\ FrameFact(req[c]) /\ OwnFact(req[c], tpc, owner)
      /\ req \in [Callers -> Request]
  BY ReservedOwn DEF TypeOK, FrameOK
<1>i. ASSUME req' = [req EXCEPT ![c] = IdleReq], UNCHANGED <<tpc, owner>>
      PROVE  ReservedInv'
  <2>1. ~Reserving(IdleReq) /\ ~Creating(IdleReq)
    BY DEF Reserving, Creating, IdleReq
  <2>2. OwnFact(IdleReq, tpc, owner)
    BY <2>1 DEF OwnFact, IdleReq
  <2> HIDE DEF Reserving, Creating
  <2> QED BY <1>i, <2>1, <2>2, ReservedMove
\* A new place, and perhaps a new candidate, in the same frame.
<1>m. ASSUME NEW p, NEW k \in Insts \cup {NoInst}, NEW T \in SUBSET Insts,
             k = NoInst \/ tpc[k] # "none", \A i \in T : tpc[i] # "none",
             NEW r, r = [req[c] EXCEPT !.pc = p, !.cand = k, !.todo = T],
             Reserving(r) <=> Reserving(req[c]), Creating(r) <=> Creating(req[c]),
             req' = [req EXCEPT ![c] = r], UNCHANGED <<tpc, owner>>
      PROVE  ReservedInv'
  <2>1. r.inst = req[c].inst /\ r.sid = req[c].sid /\ r.cand = k /\ r.todo = T
    BY <1>0, <1>m DEF Request
  <2> HIDE DEF Reserving, Creating
  <2>2. OwnFact(r, tpc, owner)
    BY <1>0, <1>m, <2>1 DEF OwnFact
  <2> QED BY <1>m, <2>1, <2>2, ReservedMove
<1>g. ASSUME NEW p, Goto(c, p), UNCHANGED <<tpc, owner>>,
             NEW r, r = [req[c] EXCEPT !.pc = p],
             Reserving(r) <=> Reserving(req[c]), Creating(r) <=> Creating(req[c])
      PROVE  ReservedInv'
  <2>1. /\ r.inst = req[c].inst /\ r.sid = req[c].sid /\ r.cand = req[c].cand
        /\ r.todo = req[c].todo
    BY <1>0, <1>g DEF Request
  <2>2. req' = [req EXCEPT ![c] = r]
    BY <1>g DEF Goto
  <2> HIDE DEF Reserving, Creating
  <2>3. OwnFact(r, tpc, owner)
    BY <1>0, <1>g, <2>1 DEF OwnFact
  <2> QED BY <1>g, <2>1, <2>2, <2>3, ReservedMove
<1>1. CASE CreateRecheck(c)
  <2>0. req[c].op \in CreateOps /\ UNCHANGED <<tpc, owner>>
    BY <1>0, <1>1 DEF CreateRecheck, FrameFact, regVars, rtVars
  <2>1. CASE req' = [req EXCEPT ![c] = PassServerCheck(@)]
    <3> DEFINE r == PassServerCheck(req[c])
    <3>1. /\ Creating(r) /\ Creating(req[c])
          /\ r.inst = req[c].inst /\ r.sid = req[c].sid /\ r.cand = req[c].cand
          /\ r.todo \in {req[c].todo, Candidates(req[c].user)}
      BY <1>0, <1>1, <2>0 DEF PassServerCheck, Creating, Request, CreateOps,
                              CreateRecheck
    <3>2. req' = [req EXCEPT ![c] = r]
      BY <2>1
    <3> HIDE DEF r
    <3>3. OwnFact(r, tpc, owner)
      BY <1>0, <3>1, CandidatesStarted DEF OwnFact, Reserving
    <3> QED BY <2>0, <3>1, <3>2, <3>3, ReservedMove DEF Reserving
  <2>2. CASE Goto(c, "create_insert")
    <3> DEFINE r == [req[c] EXCEPT !.pc = "create_insert"]
    <3>1. Reserving(r) /\ Creating(r) /\ Reserving(req[c]) /\ Creating(req[c])
      BY <1>0, <1>1, <2>0 DEF Reserving, Creating, Request, CreateRecheck
    <3> QED BY <1>g, <2>0, <2>2, <3>1
  <2>3. CASE Return(c)
    BY <1>i, <2>0, <2>3 DEF Return
  <2> QED BY <1>1, <2>1, <2>2, <2>3 DEF CreateRecheck
<1>2. CASE CreateInsert(c)
  BY <1>2, ReservedStart DEF CreateInsert
<1>3. CASE SnapshotLands(c) \/ ShutdownReturn(c) \/ DeleteStoreFails(c)
           \/ DeleteReturn(c)
  BY <1>i, <1>3 DEF SnapshotLands, ShutdownReturn, DeleteStoreFails,
                    DeleteReturn, Return, regVars, rtVars
<1>4. CASE RestoreInsert(c)
  <2>1. CASE sessions[req[c].sid] = NoInst
    BY <1>4, <2>1, ReservedStart DEF RestoreInsert
  <2>2. CASE sessions[req[c].sid] # NoInst
    BY <1>i, <1>4, <2>2 DEF RestoreInsert, Return, rtVars
  <2> QED BY <2>1, <2>2
<1>5. CASE TouchDone(c)
  <2>1. /\ ~Reserving(req[c]) /\ ~Creating(req[c])
        /\ ~Reserving([req[c] EXCEPT !.pc = "snapshot"])
        /\ ~Creating([req[c] EXCEPT !.pc = "snapshot"])
    BY <1>0, <1>5 DEF TouchDone, Reserving, Creating, Request
  <2> QED BY <1>g, <1>5, <2>1 DEF TouchDone, regVars
<1>6. CASE CleanupCheck(c)
  <2>1. PICK i \in req[c].todo : CleanupCheck(c)!2!(i)
    BY <1>6 DEF CleanupCheck
  <2> DEFINE r == [req[c] EXCEPT !.pc = "clean_pop", !.cand = i,
                                 !.todo = req[c].todo \ {i}]
  <2>2. i \in Insts /\ tpc[i] # "none"
        /\ req[c].todo \ {i} \in SUBSET Insts
        /\ \A j \in req[c].todo \ {i} : tpc[j] # "none"
    BY <1>0 DEF OwnFact
  <2>3. (Reserving(r) <=> Reserving(req[c])) /\ (Creating(r) <=> Creating(req[c]))
    BY <1>0, <1>6 DEF Reserving, Creating, Request, CleanupCheck
  <2>4. req' = [req EXCEPT ![c] = r]
    BY <2>1
  <2> HIDE DEF Reserving, Creating
  <2> QED BY <1>m, <1>6, <2>2, <2>3, <2>4 DEF CleanupCheck, regVars, rtVars
<1>7. CASE CleanupPop(c)
  <2>1. ASSUME NEW p \in {"clean_mark", "clean"}, NEW r,
               r = [req[c] EXCEPT !.pc = p]
        PROVE  (Reserving(r) <=> Reserving(req[c])) /\ (Creating(r) <=> Creating(req[c]))
    BY <1>0, <1>7, <2>1 DEF Reserving, Creating, Request, CleanupPop
  <2> HIDE DEF Reserving, Creating
  <2>2. UNCHANGED <<tpc, owner>> /\ (Goto(c, "clean_mark") \/ Goto(c, "clean"))
    BY <1>7 DEF CleanupPop
  <2> QED BY <1>g, <2>1, <2>2
<1>8. CASE CleanupMark(c)
  <2> DEFINE r == [req[c] EXCEPT !.pc = "clean", !.cand = NoInst,
                                 !.todo = req[c].todo]
  <2>1. (Reserving(r) <=> Reserving(req[c])) /\ (Creating(r) <=> Creating(req[c]))
    BY <1>0, <1>8 DEF Reserving, Creating, Request, CleanupMark
  <2>2. r = [req[c] EXCEPT !.pc = "clean", !.cand = NoInst]
        /\ req[c].todo \in SUBSET Insts /\ \A j \in req[c].todo : tpc[j] # "none"
    BY <1>0 DEF Request, OwnFact
  <2>3. req' = [req EXCEPT ![c] = r]
    BY <1>8, <2>2 DEF CleanupMark
  <2>4. UNCHANGED <<tpc, owner>>
    BY <1>8 DEF CleanupMark, regVars
  <2>5. /\ "clean" \in ReqPcs /\ req[c].todo \in SUBSET Insts
        /\ \A j \in req[c].todo : tpc[j] # "none"
    BY <2>2 DEF ReqPcs
  <2> HIDE DEF Reserving, Creating
  <2> QED BY <1>m, <2>1, <2>3, <2>4, <2>5
<1>9. CASE CleanupEnd(c)
  <2>0. UNCHANGED <<tpc, owner>>
    BY <1>9 DEF CleanupEnd, regVars, rtVars
  <2>1. CASE req[c].op = "cleanup"
    BY <1>i, <1>9, <2>0, <2>1 DEF CleanupEnd, Return
  <2>2. CASE req[c].op # "cleanup"
    <3> DEFINE r == [req[c] EXCEPT !.pc = "create_recheck", !.cand = NoInst,
                                   !.todo = {}]
    <3>1. (Reserving(r) <=> Reserving(req[c])) /\ (Creating(r) <=> Creating(req[c]))
      BY <1>0, <1>9, <2>2 DEF Reserving, Creating, Request, CleanupEnd
    <3>2. r = [req[c] EXCEPT !.pc = "create_recheck", !.todo = {}, !.cand = NoInst]
      BY <1>0 DEF Request
    <3>3. req' = [req EXCEPT ![c] = r]
      BY <1>9, <2>2, <3>2 DEF CleanupEnd
    <3> HIDE DEF Reserving, Creating
    <3> QED BY <1>m, <2>0, <3>1, <3>3
  <2> QED BY <2>1, <2>2
<1>10. CASE ShutdownLock(c)
  <2>0. UNCHANGED <<tpc, owner>> /\ req[c].sid \in Sids
    BY <1>0, <1>10 DEF ShutdownLock, regVars, rtVars, FrameFact, SidPcs
  <2> DEFINE k == sessions[req[c].sid]
             r == [req[c] EXCEPT !.pc = "shut_wait", !.inst = k]
  <2>1. CASE k = NoInst
    BY <1>i, <1>10, <2>0, <2>1 DEF ShutdownLock, Return
  <2>2. CASE k # NoInst
    <3>1. k \in Insts /\ tpc[k] # "none"
      BY <2>0, <2>2 DEF TypeOK, RegistryInv, Started
    <3>2. /\ ~Reserving(r) /\ ~Creating(r) /\ ~Creating(req[c])
          /\ r.inst = k /\ r.sid = req[c].sid
          /\ r.cand = req[c].cand /\ r.todo = req[c].todo
      BY <1>0, <1>10 DEF Reserving, Creating, Request, ShutdownLock
    <3>3. req' = [req EXCEPT ![c] = r]
      BY <1>10, <2>2 DEF ShutdownLock
    <3> HIDE DEF r, k, Reserving, Creating
    <3>4. OwnFact(r, tpc, owner)
      BY <1>0, <3>1, <3>2 DEF OwnFact
    <3> QED BY <2>0, <3>2, <3>3, <3>4, ReservedMove
  <2> QED BY <2>1, <2>2
<1>11. CASE ShutdownTimeout(c)
  <2>1. /\ ~Reserving(req[c]) /\ ~Creating(req[c])
        /\ ~Reserving([req[c] EXCEPT !.pc = "shut_cancelled"])
        /\ ~Creating([req[c] EXCEPT !.pc = "shut_cancelled"])
    BY <1>0, <1>11 DEF ShutdownTimeout, Reserving, Creating, Request
  <2> QED BY <1>g, <1>11, <2>1 DEF ShutdownTimeout, regVars
<1>12. CASE DeleteStore(c)
  <2>1. /\ ~Reserving(req[c]) /\ ~Creating(req[c])
        /\ ~Reserving([req[c] EXCEPT !.pc = "del_cancel"])
        /\ ~Creating([req[c] EXCEPT !.pc = "del_cancel"])
    BY <1>0, <1>12 DEF DeleteStore, Reserving, Creating, Request
  <2> QED BY <1>g, <1>i, <1>12, <2>1 DEF DeleteStore, Return, regVars, rtVars
<1>13. CASE DeleteCancel(c)
  <2>1. /\ ~Reserving(req[c]) /\ ~Creating(req[c])
        /\ ~Reserving([req[c] EXCEPT !.pc = "del_wait"])
        /\ ~Creating([req[c] EXCEPT !.pc = "del_wait"])
    BY <1>0, <1>13 DEF DeleteCancel, Reserving, Creating, Request
  <2> QED BY <1>g, <1>i, <1>13, <2>1 DEF DeleteCancel, Return, regVars
<1> QED BY <1>1, <1>2, <1>3, <1>4, <1>5, <1>6, <1>7, <1>8, <1>9, <1>10, <1>11,
           <1>12, <1>13 DEF RequestStep

\* They stay so at every step.
LEMMA ReservedStep ==
    ASSUME BaseInv, [Next]_vars
    PROVE  ReservedInv'
<1> USE ConstantsAssumption DEF BaseInv, TypeInv
<1>1. ASSUME UNCHANGED <<req, owner>>, \A i \in Insts : Started(i)' <=> Started(i)
      PROVE  ReservedInv'
  <2>1. \A c \in Callers : OwnFact(req[c], tpc, owner)
    BY ReservedOwn
  <2> QED BY <1>1, <2>1 DEF ReservedInv, OwnFact, Started
<1>2. ASSUME NEW i \in Insts, TaskStep(i) PROVE ReservedInv'
  <2>1. UNCHANGED <<req, owner>>
    BY <1>2 DEF TaskStep, TaskStart, Dequeue, FinishOp, SaveAfterOp,
                TaskCancelled, FinCleanup, FinLock, FinMark, regVars
  <2>2. tpc[i] # "none"
        /\ \/ UNCHANGED tpc
           \/ \E p \in TaskPcs \ {"none"} : tpc' = [tpc EXCEPT ![i] = p]
    BY <1>2 DEF TaskStep, TaskStart, Dequeue, FinishOp, SaveAfterOp, TaskPcs,
                TaskCancelled, FinCleanup, FinLock, FinMark, TaskGoto, Done
  <2> QED BY <1>1, <2>1, <2>2 DEF Started, TypeOK
<1>3. ASSUME NEW s \in Sids, Submit(s) \/ Interrupt(s) PROVE ReservedInv'
  BY <1>1, <1>3 DEF Submit, Interrupt, regVars, Started
<1>4. CASE UNCHANGED vars
  BY <1>1, <1>4 DEF vars, regVars, rtVars, Started
<1> QED BY <1>2, <1>3, <1>4, ReservedBegin, ReservedRequest DEF Next

\* Types, registry and reservations together are invariant: a runtime is
\* registered for its own session only, and create_session and
\* ensure_session_loaded never start the same runtime twice.
THEOREM BaseInvariance == Spec => []BaseInv
<1> USE ConstantsAssumption DEF BaseInv
<1>1. Init => RegistryInv /\ ReservedInv
  BY DEF Init, RegistryInv, ReservedInv, Started, Reserving, Creating, IdleReq
<1>2. BaseInv /\ TypeInv' /\ [Next]_vars => BaseInv'
  BY RegistryStep, ReservedStep
<1> QED BY <1>1, <1>2, TypeInvariance, PTL DEF Spec
=============================================================================
