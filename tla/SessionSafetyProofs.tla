------------------------- MODULE SessionSafetyProofs -------------------------
(***************************************************************************)
(* The safety properties of SessionManager, from the invariants proved in  *)
(* SessionManagerProofs.                                                   *)
(***************************************************************************)
EXTENDS SessionManagerProofs, FiniteSetTheorems

-----------------------------------------------------------------------------
(***************************************************************************)
(* How registrations change in one step.                                   *)
(***************************************************************************)
\* The only runtimes that a step registers are those it starts.
NoReturn ==
    \A i \in Insts :
        /\ Started(i) => Started(i)' /\ sidOf'[i] = sidOf[i]
        /\ Started(i) /\ Registered(i)' => Registered(i)
        /\ Started(i) /\ Serving(i)' => Serving(i)
        /\ ~Started(i) /\ Started(i)' =>
               Serving(i)' /\ tpc'[i] = "new" /\ ~cancelled'[i]

\* Starting a runtime makes no other runtime serve again.
LEMMA StartNoReturn ==
    ASSUME BaseInv, NEW i \in Insts, NEW s \in Sids, NEW h,
           StartRuntime(i, s, h), ~Started(i), sessions[s] = NoInst
    PROVE  NoReturn
<1> USE ConstantsAssumption DEF BaseInv, TypeInv
<1>1. /\ sessions' = [sessions EXCEPT ![s] = i]
      /\ sidOf' = [sidOf EXCEPT ![i] = s]
      /\ active' = [active EXCEPT ![i] = TRUE]
      /\ tpc' = [tpc EXCEPT ![i] = "new"]
      /\ cancelled' = cancelled
  BY DEF StartRuntime
<1>2. Serving(i)' /\ tpc'[i] = "new" /\ ~cancelled'[i]
  BY <1>1 DEF TypeOK, Serving, Registered, RegistryInv
<1>3. ASSUME NEW j \in Insts \ {i}
      PROVE  /\ (Started(j)' <=> Started(j)) /\ sidOf'[j] = sidOf[j]
             /\ Registered(j)' => Registered(j)
             /\ Serving(j)' => Serving(j)
  BY <1>1, <1>3 DEF TypeOK, Serving, Registered, Started
<1> QED BY <1>2, <1>3 DEF NoReturn

\* No step makes a runtime that stopped serving serve again.
LEMMA NoReturnStep ==
    ASSUME BaseInv, [Next]_vars
    PROVE  NoReturn
<1> USE ConstantsAssumption DEF BaseInv, TypeInv
<1>0. ASSUME UNCHANGED <<sessions, sidOf, active>>,
             \A i \in Insts : Started(i)' <=> Started(i)
      PROVE  NoReturn
  BY <1>0 DEF NoReturn, Serving, Registered
\* Unregistering and deactivating are harmless.
<1>d. ASSUME UNCHANGED <<sidOf, tpc>>,
             \A s \in Sids : sessions'[s] = sessions[s] \/ sessions'[s] = NoInst,
             \A i \in Insts : active'[i] => active[i]
      PROVE  NoReturn
  <2>1. ASSUME NEW i \in Insts, Started(i)
        PROVE  Registered(i)' => Registered(i)
    BY <1>d, <2>1 DEF RegistryInv, TypeOK, Registered
  <2> QED BY <1>d, <2>1 DEF NoReturn, Serving, Started
<1>1. ASSUME NEW c \in Callers, RequestBegin(c) PROVE NoReturn
  <2>1. ASSUME NEW s \in Sids, DeletePop(c, s) PROVE NoReturn
    BY <1>d, <2>1 DEF DeletePop, TypeOK, rtVars
  <2> QED BY <1>0, <1>1, <2>1
          DEF RequestBegin, CreateBegin, CleanupBegin, EnsureLoad, TouchBegin,
              ShutdownSubmit, regVars, rtVars, Started
<1>2. ASSUME NEW c \in Callers, RequestStep(c) PROVE NoReturn
  <2>0. FrameFact(req[c])
    BY DEF FrameOK
  <2>1. CASE CreateInsert(c)
    <3>1. /\ req[c].sid \in Sids /\ req[c].inst \in Insts
          /\ ~Started(req[c].inst) /\ owner[req[c].sid] = NoUser
      BY <2>0, <2>1 DEF FrameFact, CreateInsert, ReservedInv, Reserving, Creating
    <3>2. sessions[req[c].sid] = NoInst
      BY <3>1 DEF RegistryInv, TypeOK
    <3> QED BY <2>1, <3>1, <3>2, StartNoReturn DEF CreateInsert
  <2>2. CASE RestoreInsert(c)
    <3>1. /\ req[c].sid \in Sids /\ req[c].inst \in Insts /\ ~Started(req[c].inst)
      BY <2>0, <2>2 DEF FrameFact, RestoreInsert, ReservedInv, Reserving,
                        Creating, SidPcs, InstPcs
    <3>2. CASE sessions[req[c].sid] = NoInst
      BY <2>2, <3>1, <3>2, StartNoReturn DEF RestoreInsert
    <3>3. CASE sessions[req[c].sid] # NoInst
      BY <1>0, <2>2, <3>3 DEF RestoreInsert, rtVars, Started
    <3> QED BY <3>2, <3>3
  <2>3. CASE CleanupPop(c)
    BY <1>d, <2>3 DEF CleanupPop, TypeOK
  <2> QED BY <1>0, <1>2, <2>1, <2>2, <2>3
          DEF RequestStep, CreateRecheck, SnapshotLands, TouchDone, CleanupCheck,
              CleanupMark, CleanupEnd, ShutdownLock, ShutdownTimeout,
              ShutdownReturn, DeleteStore, DeleteStoreFails, DeleteCancel,
              DeleteReturn, regVars, rtVars, Started
<1>3. ASSUME NEW i \in Insts, TaskStep(i) PROVE NoReturn
  <2>1. tpc[i] # "none" /\ UNCHANGED <<sessions, sidOf>>
        /\ \/ UNCHANGED tpc
           \/ \E p \in TaskPcs \ {"none"} : tpc' = [tpc EXCEPT ![i] = p]
    BY <1>3 DEF TaskStep, TaskStart, Dequeue, FinishOp, SaveAfterOp, TaskPcs,
                TaskCancelled, FinCleanup, FinLock, FinMark, TaskGoto, Done,
                regVars
  <2>2. \A j \in Insts : Started(j)' <=> Started(j)
    BY <2>1 DEF Started, TypeOK
  <2>3. \A j \in Insts : active'[j] => active[j]
    BY <1>3 DEF TaskStep, TaskStart, Dequeue, FinishOp, SaveAfterOp,
                TaskCancelled, FinCleanup, FinLock, FinMark, TypeOK
  <2> QED BY <2>1, <2>2, <2>3 DEF NoReturn, Serving, Registered
<1>4. ASSUME NEW s \in Sids, Submit(s) \/ Interrupt(s) PROVE NoReturn
  BY <1>0, <1>4 DEF Submit, Interrupt, regVars, Started
<1>5. CASE UNCHANGED vars
  BY <1>0, <1>5 DEF vars, regVars, rtVars, Started
<1> QED BY <1>1, <1>2, <1>3, <1>4, <1>5 DEF Next

\* A request changes no frame but its own.
LEMMA OthersKept ==
    ASSUME TypeOK, NEW c \in Callers, RequestBegin(c) \/ RequestStep(c)
    PROVE  \A d \in Callers \ {c} : req'[d] = req[d]
<1>1. CASE RequestBegin(c)
  BY <1>1 DEF RequestBegin, CreateBegin, CleanupBegin, EnsureLoad, TouchBegin,
              ShutdownSubmit, DeletePop, TypeOK
<1>2. CASE RequestStep(c)
  BY <1>2 DEF RequestStep, CreateRecheck, CreateInsert, SnapshotLands,
              RestoreInsert, TouchDone, CleanupCheck, CleanupPop, CleanupMark,
              CleanupEnd, ShutdownLock, ShutdownTimeout, ShutdownReturn,
              DeleteStore, DeleteStoreFails, DeleteCancel, DeleteReturn,
              Goto, Return, TypeOK
<1> QED BY <1>1, <1>2

-----------------------------------------------------------------------------
(***************************************************************************)
(* NoZombie.  It is not inductive: nothing in it keeps a cancellation away *)
(* from a serving runtime.  What does is that whoever cancels has popped   *)
(* the runtime before, and that, without shutdown_session, a task in its   *)
(* loop leaves it only when it is cancelled.                               *)
(***************************************************************************)
ShutPcs == {"shut_lock", "shut_wait", "shut_cancelled"}

InLoop(i) ==
    /\ ~cancelled[i]
    /\ tpc[i] \in {"new", "idle", "busy", "saving"}
    /\ tpc[i] \in {"busy", "saving"} => cur[i] = "input"

\* Whom a request is about to cancel is no longer registered.
Popped(r) ==
    /\ r.pc \notin ShutPcs
    /\ r.pc = "clean_mark" => ~Registered(r.cand)
    /\ r.pc \in {"del_store", "del_cancel", "del_wait"} /\ r.inst # NoInst
           => ~Registered(r.inst)

OnlyInputs == \A i \in Insts : queue[i] \in Seq({"input"})
PoppedFirst == \A c \in Callers : Popped(req[c])
ServingInLoop == \A i \in Insts : Serving(i) => InLoop(i)

ZombieInv == OnlyInputs /\ PoppedFirst /\ ServingInLoop

\* Without shutdown_session nothing but inputs is ever dequeued.
LEMMA OnlyInputsStep ==
    ASSUME TypeOK, OnlyInputs, "shutdown" \notin Ops, [Next]_vars
    PROVE  OnlyInputs'
<1>1. ASSUME UNCHANGED queue PROVE OnlyInputs'
  BY <1>1 DEF OnlyInputs
<1>2. ASSUME NEW c \in Callers, RequestBegin(c) PROVE OnlyInputs'
  BY <1>1, <1>2 DEF RequestBegin, CreateBegin, CleanupBegin, EnsureLoad,
                    TouchBegin, ShutdownSubmit, DeletePop, rtVars
<1>3. ASSUME NEW c \in Callers, RequestStep(c) PROVE OnlyInputs'
  BY <1>1, <1>3 DEF RequestStep, CreateRecheck, CreateInsert, SnapshotLands,
              RestoreInsert, TouchDone, CleanupCheck, CleanupPop, CleanupMark,
              CleanupEnd, ShutdownLock, ShutdownTimeout, ShutdownReturn,
              DeleteStore, DeleteStoreFails, DeleteCancel, DeleteReturn,
              StartRuntime, rtVars
<1>4. ASSUME NEW i \in Insts, TaskStep(i) PROVE OnlyInputs'
  <2>1. CASE Dequeue(i)
    <3>1. Tail(queue[i]) \in Seq({"input"})
      BY <2>1 DEF Dequeue, OnlyInputs
    <3> QED BY <2>1, <3>1 DEF Dequeue, OnlyInputs, TypeOK
  <2> QED BY <1>1, <1>4, <2>1
          DEF TaskStep, TaskStart, FinishOp, SaveAfterOp, TaskCancelled,
              FinCleanup, FinLock, FinMark
<1>5. ASSUME NEW s \in Sids, Submit(s) PROVE OnlyInputs'
  <2> DEFINE k == sessions[s]
  <2>1. queue' = [queue EXCEPT ![k] = Append(queue[k], "input")] /\ k # NoInst
    BY <1>5 DEF Submit, Enqueue
  <2>2. ASSUME NEW i \in Insts PROVE queue'[i] \in Seq({"input"})
    <3>1. queue[i] \in Seq({"input"})
      BY DEF OnlyInputs
    <3>2. Append(queue[i], "input") \in Seq({"input"})
      BY <3>1
    <3> QED BY <2>1, <3>1, <3>2 DEF TypeOK
  <2> QED BY <2>2 DEF OnlyInputs
<1>6. ASSUME NEW s \in Sids, Interrupt(s) PROVE OnlyInputs'
  BY <1>1, <1>6 DEF Interrupt
<1>7. CASE UNCHANGED vars
  BY <1>1, <1>7 DEF vars, rtVars
<1> QED BY <1>2, <1>3, <1>4, <1>5, <1>6, <1>7 DEF Next

\* The runtime a cleanup or deletion is about to cancel was popped first.
LEMMA PoppedStep ==
    ASSUME BaseInv, PoppedFirst, "shutdown" \notin Ops, [Next]_vars
    PROVE  PoppedFirst'
<1> USE ConstantsAssumption DEF BaseInv, TypeInv
<1>1. \A i \in Insts : Started(i) /\ Registered(i)' => Registered(i)
  BY NoReturnStep DEF NoReturn
<1>2. ASSUME NEW c \in Callers, req'[c] = req[c] PROVE Popped(req[c])'
  <2>1. /\ req[c].cand # NoInst => req[c].cand \in Insts /\ Started(req[c].cand)
        /\ ~Reserving(req[c]) /\ req[c].inst # NoInst
               => req[c].inst \in Insts /\ Started(req[c].inst)
        /\ req[c].pc = "clean_mark" => req[c].cand \in Insts
    BY ReservedOwn DEF OwnFact, Started, FrameOK, FrameFact
  <2>2. Popped(req[c])
    BY DEF PoppedFirst
  <2> QED BY <1>1, <1>2, <2>1, <2>2 DEF Popped, Reserving, Creating
\* A frame at any other place owes nothing.
<1>3. ASSUME NEW c \in Callers,
             req'[c].pc \notin ShutPcs \cup {"clean_mark", "del_store",
                                           "del_cancel", "del_wait"}
      PROVE  Popped(req[c])'
  BY <1>3 DEF Popped
<1>4. ASSUME NEW c \in Callers, RequestBegin(c) PROVE Popped(req[c])'
  <2>1. ASSUME NEW s \in Sids, DeletePop(c, s) PROVE Popped(req[c])'
    <3>0. PICK k \in Insts \cup {NoInst} : k = sessions[s]
      BY DEF TypeOK
    <3>1. req'[c].pc = "del_store" /\ req'[c].inst = k
      BY <2>1, <3>0 DEF DeletePop, TypeOK, Frame, IdleReq
    <3>2. k # NoInst => ~Registered(k)'
      BY <2>1, <3>0 DEF DeletePop, RegistryInv, Registered, TypeOK
    <3> QED BY <3>1, <3>2 DEF Popped, ShutPcs
  <2>2. ASSUME NEW u \in Users, CreateBegin(c, u) PROVE Popped(req[c])'
    <3>1. req'[c].pc \in {"clean", "create_insert"}
      BY <2>2 DEF CreateBegin, TypeOK, Frame, IdleReq, PassServerCheck
    <3> QED BY <1>3, <3>1 DEF ShutPcs
  <2>3. ASSUME NEW u \in Users, CleanupBegin(c, u) PROVE Popped(req[c])'
    BY <1>3, <2>3 DEF CleanupBegin, TypeOK, Frame, IdleReq, ShutPcs
  <2>4. ASSUME NEW s \in Sids, EnsureLoad(c, s) \/ TouchBegin(c, s)
        PROVE  Popped(req[c])'
    <3>1. CASE TouchBegin(c, s)
      BY <1>3, <3>1 DEF TouchBegin, TypeOK, Frame, IdleReq, ShutPcs
    <3>2. CASE EnsureLoad(c, s)
      <4>1. PICK i \in Insts :
                req' = [req EXCEPT ![c] = [Frame("restore_insert", "ensure")
                                               EXCEPT !.sid = s, !.inst = i]]
        BY <3>2 DEF EnsureLoad
      <4> QED BY <1>3, <4>1 DEF TypeOK, Frame, IdleReq, ShutPcs
    <3> QED BY <2>4, <3>1, <3>2
  <2> QED BY <1>4, <2>1, <2>2, <2>3, <2>4 DEF RequestBegin, ShutdownSubmit
<1>5. ASSUME NEW c \in Callers, RequestStep(c) PROVE Popped(req[c])'
  <2>0. req \in [Callers -> Request] /\ req[c] \in Request /\ Popped(req[c])
        /\ FrameFact(req[c])
    BY DEF TypeOK, PoppedFirst, FrameOK
  <2>r. ASSUME Return(c) PROVE Popped(req[c])'
    BY <1>3, <2>0, <2>r DEF Return, IdleReq, ShutPcs
  <2>1. CASE CleanupPop(c)
    <3>0. PICK i \in Insts : i = req[c].cand
      BY <2>0, <2>1 DEF CleanupPop, FrameFact
    <3>1. CASE Registered(i) /\ active[i]
      <4>1. req'[c].pc = "clean_mark" /\ req'[c].cand = i
        BY <2>0, <2>1, <3>0, <3>1 DEF CleanupPop, Goto, Request
      <4>2. ~Registered(i)'
        BY <2>0, <2>1, <3>0, <3>1 DEF CleanupPop, Registered, TypeOK
      <4> QED BY <4>1, <4>2 DEF Popped, ShutPcs
    <3>2. CASE ~(Registered(i) /\ active[i])
      BY <1>3, <2>0, <2>1, <3>0, <3>2 DEF CleanupPop, Goto, Request, ShutPcs
    <3> QED BY <3>1, <3>2
  <2>2. CASE DeleteStore(c) \/ DeleteCancel(c)
    <3>1. CASE Return(c)
      BY <2>r, <3>1
    <3>2. CASE Goto(c, "del_cancel") \/ Goto(c, "del_wait")
      <4>1. req'[c].pc \in {"del_cancel", "del_wait"} /\ req'[c].inst = req[c].inst
        BY <2>0, <3>2 DEF Goto, Request
      <4>2. \A k \in Insts : Registered(k)' <=> Registered(k)
        BY <2>2 DEF DeleteStore, DeleteCancel, regVars, Registered
      <4>3. req[c].pc \in {"del_store", "del_cancel"}
        BY <2>2 DEF DeleteStore, DeleteCancel
      <4>4. req[c].inst \in Insts \cup {NoInst}
        BY <2>0 DEF Request
      <4> QED BY <2>0, <4>1, <4>2, <4>3, <4>4 DEF Popped, ShutPcs
    <3> QED BY <2>2, <3>1, <3>2 DEF DeleteStore, DeleteCancel
  <2>3. CASE CreateRecheck(c)
    <3>1. PassServerCheck(req[c]).pc \in {"clean", "create_insert"}
      BY <2>0 DEF PassServerCheck, Request
    <3>2. CASE req' = [req EXCEPT ![c] = PassServerCheck(req[c])]
      BY <1>3, <2>0, <3>1, <3>2 DEF ShutPcs
    <3>3. CASE Goto(c, "create_insert")
      BY <1>3, <2>0, <3>3 DEF Goto, Request, ShutPcs
    <3> QED BY <2>3, <2>r, <3>2, <3>3 DEF CreateRecheck
  <2>4. CASE \/ CreateInsert(c) \/ RestoreInsert(c) \/ TouchDone(c)
             \/ CleanupCheck(c) \/ CleanupMark(c) \/ CleanupEnd(c)
    <3>1. ASSUME Goto(c, "snapshot") PROVE Popped(req[c])'
      BY <1>3, <2>0, <3>1 DEF Goto, Request, ShutPcs
    <3>2. CASE CleanupCheck(c)
      <4>1. PICK i \in req[c].todo : CleanupCheck(c)!2!(i)
        BY <3>2 DEF CleanupCheck
      <4>2. req'[c] = [req[c] EXCEPT !.pc = "clean_pop", !.cand = i,
                                     !.todo = req[c].todo \ {i}]
        BY <2>0, <4>1
      <4>3. req'[c].pc = "clean_pop"
        BY <2>0, <4>2 DEF Request
      <4> QED BY <1>3, <4>3 DEF ShutPcs
    <3>3. CASE CleanupMark(c)
      <4>1. req'[c] = [req[c] EXCEPT !.pc = "clean", !.cand = NoInst]
        BY <2>0, <3>3 DEF CleanupMark
      <4>2. req'[c].pc = "clean"
        BY <2>0, <4>1 DEF Request
      <4> QED BY <1>3, <4>2 DEF ShutPcs
    <3>4. CASE CleanupEnd(c) /\ ~Return(c)
      <4>1. req'[c] = [req[c] EXCEPT !.pc = "create_recheck", !.todo = {},
                                     !.cand = NoInst]
        BY <2>0, <3>4 DEF CleanupEnd
      <4>2. req'[c].pc = "create_recheck"
        BY <2>0, <4>1 DEF Request
      <4> QED BY <1>3, <4>2 DEF ShutPcs
    <3> QED BY <2>r, <2>4, <3>1, <3>2, <3>3, <3>4
            DEF CreateInsert, RestoreInsert, TouchDone
  <2>5. CASE ShutdownLock(c) \/ ShutdownTimeout(c) \/ ShutdownReturn(c)
    BY <2>0, <2>5 DEF ShutdownLock, ShutdownTimeout, ShutdownReturn, Popped,
                      ShutPcs
  <2>6. CASE SnapshotLands(c) \/ DeleteStoreFails(c) \/ DeleteReturn(c)
    BY <2>r, <2>6 DEF SnapshotLands, DeleteStoreFails, DeleteReturn
  <2> QED BY <1>5, <2>1, <2>2, <2>3, <2>4, <2>5, <2>6 DEF RequestStep
<1>6. ASSUME NEW c \in Callers, RequestBegin(c) \/ RequestStep(c)
      PROVE  PoppedFirst'
  <2>1. \A d \in Callers \ {c} : Popped(req[d])'
    BY <1>2, <1>6, OthersKept
  <2>2. Popped(req[c])'
    BY <1>4, <1>5, <1>6
  <2> QED BY <2>1, <2>2 DEF PoppedFirst
<1>7. ASSUME UNCHANGED req PROVE PoppedFirst'
  BY <1>2, <1>7 DEF PoppedFirst
<1>8. ASSUME NEW i \in Insts, TaskStep(i) PROVE UNCHANGED req
  BY <1>8 DEF TaskStep, TaskStart, Dequeue, FinishOp, SaveAfterOp,
              TaskCancelled, FinCleanup, FinLock, FinMark
<1> QED BY <1>6, <1>7, <1>8 DEF Next, Submit, Interrupt, vars

\* A serving runtime stays in the loop of its task.
LEMMA ServingStep ==
    ASSUME BaseInv, ZombieInv, "shutdown" \notin Ops, [Next]_vars
    PROVE  ServingInLoop'
<1> USE ConstantsAssumption DEF BaseInv, TypeInv, ZombieInv
<1>0. NoReturn
  BY NoReturnStep
<1>n. ASSUME NEW i \in Insts, Serving(i)', ~Started(i) PROVE InLoop(i)'
  <2>1. Started(i)'
    BY <1>n, RegistryStep DEF Serving, Registered, RegistryInv
  <2> QED BY <1>0, <1>n, <2>1 DEF NoReturn, InLoop
\* A step that leaves a runtime's task alone leaves it in its loop.
<1>s. ASSUME NEW i \in Insts, Serving(i)', tpc'[i] = tpc[i], cur'[i] = cur[i],
             cancelled'[i] => cancelled[i]
      PROVE  InLoop(i)'
  <2>1. CASE Started(i)
    <3>1. InLoop(i)
      BY <1>0, <1>s, <2>1 DEF NoReturn, ServingInLoop
    <3> QED BY <1>s, <3>1 DEF InLoop
  <2> QED BY <1>n, <1>s, <2>1
<1>1. ASSUME UNCHANGED <<tpc, cur, cancelled>> PROVE ServingInLoop'
  BY <1>s, <1>1 DEF ServingInLoop
\* Only popped runtimes are cancelled by a request.
<1>c. ASSUME NEW k \in Insts, ~Registered(k), Started(k), UNCHANGED <<tpc, cur>>,
             \A i \in Insts \ {k} : cancelled'[i] = cancelled[i]
      PROVE  ServingInLoop'
  <2>1. ~Serving(k)'
    BY <1>0, <1>c DEF NoReturn, Serving
  <2> QED BY <1>s, <1>c, <2>1 DEF ServingInLoop
<1>2. ASSUME NEW c \in Callers, RequestBegin(c) PROVE ServingInLoop'
  BY <1>1, <1>2 DEF RequestBegin, CreateBegin, CleanupBegin, EnsureLoad,
                    TouchBegin, ShutdownSubmit, DeletePop, rtVars
<1>3. ASSUME NEW c \in Callers, RequestStep(c) PROVE ServingInLoop'
  <2>0. FrameFact(req[c]) /\ Popped(req[c]) /\ OwnFact(req[c], tpc, owner)
    BY ReservedOwn DEF FrameOK, PoppedFirst
  <2>1. ASSUME NEW i \in Insts, NEW s, NEW h, StartRuntime(i, s, h),
               ~Started(i)
        PROVE  ServingInLoop'
    <3>1. \A j \in Insts \ {i} : tpc'[j] = tpc[j]
          /\ UNCHANGED <<cur, cancelled>>
      BY <2>1 DEF StartRuntime, TypeOK
    <3> QED BY <1>s, <1>n, <2>1, <3>1 DEF ServingInLoop
  <2>2. CASE CreateInsert(c)
    <3>1. req[c].inst \in Insts /\ ~Started(req[c].inst)
      BY <2>0, <2>2 DEF CreateInsert, FrameFact, OwnFact, Reserving, Creating,
                        Started
    <3> QED BY <2>1, <2>2, <3>1 DEF CreateInsert
  <2>3. CASE RestoreInsert(c)
    <3>1. req[c].inst \in Insts /\ ~Started(req[c].inst)
      BY <2>0, <2>3 DEF RestoreInsert, FrameFact, OwnFact, Reserving, InstPcs,
                        Started
    <3> QED BY <1>1, <2>1, <2>3, <3>1 DEF RestoreInsert, rtVars
  <2>4. CASE CleanupMark(c)
    <3>1. req[c].cand \in Insts /\ ~Registered(req[c].cand) /\ Started(req[c].cand)
      BY <2>0, <2>4 DEF CleanupMark, FrameFact, Popped, OwnFact, Started
    <3>2. /\ UNCHANGED <<tpc, cur>>
          /\ \A i \in Insts \ {req[c].cand} : cancelled'[i] = cancelled[i]
      BY <2>4, <3>1 DEF CleanupMark, TypeOK
    <3> QED BY <1>c, <3>1, <3>2
  <2>5. CASE DeleteCancel(c)
    <3>1. /\ req[c].inst \in Insts /\ ~Registered(req[c].inst)
          /\ Started(req[c].inst)
      BY <2>0, <2>5 DEF DeleteCancel, FrameFact, InstPcs, Popped, OwnFact,
                        Reserving, Creating, Started
    <3>2. /\ UNCHANGED <<tpc, cur>>
          /\ \A i \in Insts \ {req[c].inst} : cancelled'[i] = cancelled[i]
      BY <2>5, <3>1 DEF DeleteCancel, TypeOK
    <3> QED BY <1>c, <3>1, <3>2
  <2>6. ~ShutdownTimeout(c)
    BY <2>0 DEF ShutdownTimeout, Popped, ShutPcs
  <2> QED BY <1>1, <1>3, <2>2, <2>3, <2>4, <2>5, <2>6
          DEF RequestStep, CreateRecheck, SnapshotLands, TouchDone, CleanupCheck,
              CleanupPop, CleanupEnd, ShutdownLock, ShutdownReturn, DeleteStore,
              DeleteStoreFails, DeleteReturn, rtVars
<1>4. ASSUME NEW i \in Insts, TaskStep(i) PROVE ServingInLoop'
  <2>1. /\ Started(i)
        /\ \A j \in Insts \ {i} :
               /\ tpc'[j] = tpc[j] /\ cur'[j] = cur[j]
               /\ cancelled'[j] = cancelled[j]
    BY <1>4 DEF TaskStep, TaskStart, Dequeue, FinishOp, SaveAfterOp, Started,
                TaskCancelled, FinCleanup, FinLock, FinMark, TaskGoto, TypeOK,
                Done
  <2>2. ASSUME Serving(i)' PROVE InLoop(i)'
    <3>1. Serving(i) /\ InLoop(i)
      BY <1>0, <2>1, <2>2 DEF NoReturn, ServingInLoop
    <3>2. CASE TaskStart(i)
      BY <3>1, <3>2 DEF TaskStart, TaskGoto, InLoop, Serving, Registered, TypeOK
    <3>3. CASE Dequeue(i)
      <4>1. Head(queue[i]) = "input"
        BY <3>3 DEF Dequeue, OnlyInputs
      <4> QED BY <3>1, <3>3, <4>1 DEF Dequeue, TaskGoto, InLoop, TypeOK
    <3>4. CASE FinishOp(i) \/ SaveAfterOp(i)
      BY <3>1, <3>4 DEF FinishOp, SaveAfterOp, TaskGoto, InLoop, TypeOK
    <3> QED BY <1>4, <3>1, <3>2, <3>3, <3>4
            DEF TaskStep, TaskCancelled, FinCleanup, FinLock, FinMark, InLoop
  <2> QED BY <1>s, <2>1, <2>2 DEF ServingInLoop
<1>5. ASSUME NEW s \in Sids, Submit(s) \/ Interrupt(s) PROVE ServingInLoop'
  BY <1>1, <1>5 DEF Submit, Interrupt
<1>6. CASE UNCHANGED vars
  BY <1>1, <1>6 DEF vars, rtVars
<1> QED BY <1>2, <1>3, <1>4, <1>5, <1>6 DEF Next

(* Without shutdown_session, no path through cleanup_stale_sessions,       *)
(* delete_session, ensure_session_loaded and the finally block of          *)
(* _run_session ends the task of a runtime that stays registered and       *)
(* active, whatever the limits and however many requests run at once.      *)
THEOREM NoZombieWithoutShutdown ==
    ASSUME "shutdown" \notin Ops
    PROVE  Spec => []NoZombie
<1> USE ConstantsAssumption
<1>1. Init => ZombieInv
  BY DEF Init, ZombieInv, OnlyInputs, PoppedFirst, ServingInLoop, Popped,
         Serving, IdleReq, ShutPcs
<1>2. BaseInv /\ ZombieInv /\ [Next]_vars => ZombieInv'
  BY OnlyInputsStep, PoppedStep, ServingStep DEF ZombieInv, BaseInv, TypeInv
<1>3. ZombieInv => NoZombie
  BY DEF ZombieInv, ServingInLoop, InLoop, NoZombie, Done
<1> QED BY <1>1, <1>2, <1>3, BaseInvariance, PTL DEF Spec

-----------------------------------------------------------------------------
(***************************************************************************)
(* NoOrphan.                                                               *)
(***************************************************************************)
\* Who unregisters a runtime is the one to stop it.
LEMMA LossStep ==
    ASSUME BaseInv, [Next]_vars, NEW i \in Insts, Registered(i), ~Registered(i)'
    PROVE  sessions'[sidOf'[i]] = NoInst /\ \E c \in Callers : Stopper(c, i)'
<1> USE ConstantsAssumption DEF BaseInv, TypeInv
<1>0. ASSUME UNCHANGED <<sessions, sidOf>> PROVE FALSE
  BY <1>0 DEF Registered
<1>1. ASSUME NEW k \in Insts, NEW s \in Sids, NEW h, StartRuntime(k, s, h),
             ~Started(k), sessions[s] = NoInst
      PROVE  FALSE
  <2>1. sidOf[i] \in Sids /\ i # k /\ sidOf[i] # s
    BY <1>1 DEF Registered, RegistryInv, TypeOK
  <2> QED BY <1>1, <2>1 DEF StartRuntime, Registered, TypeOK
<1>2. ASSUME NEW c \in Callers, NEW s \in Sids, DeletePop(c, s)
      PROVE  sessions'[sidOf'[i]] = NoInst /\ Stopper(c, i)'
  <2>1. sessions[s] = i /\ sidOf[i] = s
    BY <1>2 DEF DeletePop, Registered, TypeOK
  <2>2. req'[c].pc = "del_store" /\ req'[c].inst = sessions[s]
    BY <1>2 DEF DeletePop, TypeOK, Frame, IdleReq
  <2> QED BY <1>2, <2>1, <2>2 DEF DeletePop, Stopper, TypeOK
<1>3. ASSUME NEW c \in Callers, CleanupPop(c)
      PROVE  sessions'[sidOf'[i]] = NoInst /\ Stopper(c, i)'
  <2>1. Registered(req[c].cand) /\ active[req[c].cand] /\ req[c].cand \in Insts
    BY <1>0, <1>3 DEF CleanupPop, FrameOK, FrameFact
  <2>2. req[c].cand = i
    BY <1>3, <2>1 DEF CleanupPop, Registered, TypeOK
  <2>3. req'[c].pc = "clean_mark" /\ req'[c].cand = i
    BY <1>3, <2>1, <2>2 DEF CleanupPop, Goto, TypeOK, Request
  <2> QED BY <1>3, <2>1, <2>2, <2>3 DEF CleanupPop, Stopper, TypeOK, Registered
<1>4. ASSUME NEW c \in Callers, RequestBegin(c)
      PROVE  sessions'[sidOf'[i]] = NoInst /\ Stopper(c, i)'
  BY <1>0, <1>2, <1>4
     DEF RequestBegin, CreateBegin, CleanupBegin, EnsureLoad, TouchBegin,
         ShutdownSubmit, regVars
<1>5. ASSUME NEW c \in Callers, RequestStep(c)
      PROVE  sessions'[sidOf'[i]] = NoInst /\ Stopper(c, i)'
  <2>0. FrameFact(req[c]) /\ OwnFact(req[c], tpc, owner)
    BY ReservedOwn DEF FrameOK
  <2>1. CASE CreateInsert(c)
    <3>1. /\ req[c].sid \in Sids /\ req[c].inst \in Insts
          /\ ~Started(req[c].inst) /\ owner[req[c].sid] = NoUser
      BY <2>0, <2>1 DEF FrameFact, CreateInsert, OwnFact, Reserving, Creating,
                        Started
    <3>2. sessions[req[c].sid] = NoInst
      BY <3>1 DEF RegistryInv, TypeOK
    <3> QED BY <1>1, <2>1, <3>1, <3>2 DEF CreateInsert
  <2>2. CASE RestoreInsert(c)
    <3>1. /\ req[c].sid \in Sids /\ req[c].inst \in Insts /\ ~Started(req[c].inst)
      BY <2>0, <2>2 DEF FrameFact, RestoreInsert, OwnFact, Reserving, Started,
                        SidPcs, InstPcs
    <3> QED BY <1>0, <1>1, <2>2, <3>1 DEF RestoreInsert
  <2> QED BY <1>0, <1>3, <1>5, <2>1, <2>2
          DEF RequestStep, CreateRecheck, SnapshotLands, TouchDone, CleanupCheck,
              CleanupMark, CleanupEnd, ShutdownLock, ShutdownTimeout,
              ShutdownReturn, DeleteStore, DeleteStoreFails, DeleteCancel,
              DeleteReturn, regVars
<1>6. ASSUME NEW j \in Insts, TaskStep(j) PROVE FALSE
  BY <1>0, <1>6 DEF TaskStep, TaskStart, Dequeue, FinishOp, SaveAfterOp,
              TaskCancelled, FinCleanup, FinLock, FinMark, regVars
<1> QED BY <1>0, <1>4, <1>5, <1>6 DEF Next, Submit, Interrupt, regVars, vars

\* A task that has not begun finds its id free when it was popped; an
\* operation that is being cancelled goes from its snapshot to the end.
NeverInterrupted == \A i \in Insts : ~interrupted[i]
NewFindsNothing ==
    \A i \in Insts : tpc[i] = "new" /\ ~Registered(i)
                         => sessions[sidOf[i]] = NoInst
CancelLeaves ==
    \A i \in Insts : cur[i] = "cancel" => tpc[i] \notin {"new", "idle", "busy"}

OrphanInv == NeverInterrupted /\ NewFindsNothing /\ CancelLeaves /\ NoOrphan

\* A task step changes the place of its own task only.
LEMMA TaskOfOne ==
    ASSUME TypeOK, NEW i \in Insts, TaskStep(i)
    PROVE  /\ tpc[i] # "none" /\ tpc'[i] # "new"
           /\ UNCHANGED <<sessions, sidOf, req>>
           /\ \A j \in Insts \ {i} :
                  /\ tpc'[j] = tpc[j] /\ cur'[j] = cur[j]
                  /\ cancelled'[j] = cancelled[j]
BY DEF TaskStep, TaskStart, Dequeue, FinishOp, SaveAfterOp, TaskCancelled,
       FinCleanup, FinLock, FinMark, TaskGoto, TypeOK, Done, regVars

\* Without the interrupt route no runtime is ever interrupted.
LEMMA NeverInterruptedStep ==
    ASSUME TypeOK, NeverInterrupted, "interrupt" \notin Ops, [Next]_vars
    PROVE  NeverInterrupted'
<1>1. ASSUME UNCHANGED interrupted PROVE NeverInterrupted'
  BY <1>1 DEF NeverInterrupted
<1>2. ASSUME NEW c \in Callers, RequestBegin(c) PROVE NeverInterrupted'
  BY <1>1, <1>2 DEF RequestBegin, CreateBegin, CleanupBegin, EnsureLoad,
                    TouchBegin, ShutdownSubmit, DeletePop, rtVars
<1>3. ASSUME NEW c \in Callers, RequestStep(c) PROVE NeverInterrupted'
  BY <1>1, <1>3 DEF RequestStep, CreateRecheck, CreateInsert, SnapshotLands,
              RestoreInsert, TouchDone, CleanupCheck, CleanupPop, CleanupMark,
              CleanupEnd, ShutdownLock, ShutdownTimeout, ShutdownReturn,
              DeleteStore, DeleteStoreFails, DeleteCancel, DeleteReturn,
              StartRuntime, rtVars
<1>4. ASSUME NEW i \in Insts, TaskStep(i) PROVE NeverInterrupted'
  BY <1>1, <1>4 DEF TaskStep, TaskStart, Dequeue, FinishOp, SaveAfterOp,
              TaskCancelled, FinCleanup, FinLock, FinMark, NeverInterrupted,
              TypeOK
<1> QED BY <1>1, <1>2, <1>3, <1>4 DEF Next, Submit, Interrupt, vars, rtVars

\* Starting a runtime takes the id from no task that is about to start.
LEMMA StartFindsNothing ==
    ASSUME BaseInv, NewFindsNothing, NEW k \in Insts, NEW s \in Sids, NEW h,
           StartRuntime(k, s, h), ~Started(k),
           \A j \in Insts : sidOf[j] = s => tpc[j] # "new"
    PROVE  NewFindsNothing'
<1> USE ConstantsAssumption DEF BaseInv, TypeInv
<1> SUFFICES ASSUME NEW j \in Insts, tpc'[j] = "new", ~Registered(j)'
             PROVE  sessions'[sidOf'[j]] = NoInst
  BY DEF NewFindsNothing
<1>1. j # k
  BY DEF StartRuntime, Registered, TypeOK
<1>2. tpc[j] = "new" /\ sidOf'[j] = sidOf[j] /\ sidOf[j] # s /\ sidOf[j] \in Sids
  BY <1>1 DEF StartRuntime, TypeOK, RegistryInv, Started
<1>3. ~Registered(j)
  BY <1>1, <1>2 DEF StartRuntime, Registered, TypeOK
<1> QED BY <1>2, <1>3 DEF StartRuntime, NewFindsNothing, TypeOK

\* A task that gives up at its first step was popped before.
LEMMA NewFindsNothingStep ==
    ASSUME BaseInv, NewFindsNothing, [Next]_vars
    PROVE  NewFindsNothing'
<1> USE ConstantsAssumption DEF BaseInv, TypeInv
\* Nothing is started.
<1>1. ASSUME \A i \in Insts : tpc'[i] = "new" => tpc[i] = "new",
             UNCHANGED sidOf,
             \A s \in Sids : sessions'[s] = sessions[s] \/ sessions'[s] = NoInst
      PROVE  NewFindsNothing'
  <2> SUFFICES ASSUME NEW i \in Insts, tpc'[i] = "new", ~Registered(i)'
               PROVE  sessions'[sidOf'[i]] = NoInst
    BY DEF NewFindsNothing
  <2>1. CASE Registered(i)
    BY <2>1, LossStep
  <2>2. CASE ~Registered(i)
    BY <1>1, <2>2 DEF NewFindsNothing, RegistryInv, Started
  <2> QED BY <2>1, <2>2
<1>2. ASSUME NEW c \in Callers, RequestBegin(c) PROVE NewFindsNothing'
  <2>1. UNCHANGED <<tpc, sidOf>>
        /\ \A s \in Sids : sessions'[s] = sessions[s] \/ sessions'[s] = NoInst
    BY <1>2 DEF RequestBegin, CreateBegin, CleanupBegin, EnsureLoad, TouchBegin,
                ShutdownSubmit, DeletePop, regVars, rtVars, TypeOK
  <2> QED BY <1>1, <2>1
<1>3. ASSUME NEW c \in Callers, RequestStep(c) PROVE NewFindsNothing'
  <2>0. FrameFact(req[c]) /\ OwnFact(req[c], tpc, owner)
    BY ReservedOwn DEF FrameOK
  <2>1. CASE CreateInsert(c)
    <3>1. /\ req[c].sid \in Sids /\ req[c].inst \in Insts
          /\ ~Started(req[c].inst) /\ owner[req[c].sid] = NoUser
      BY <2>0, <2>1 DEF FrameFact, CreateInsert, OwnFact, Reserving, Creating,
                        Started
    <3>2. \A j \in Insts : sidOf[j] = req[c].sid => tpc[j] # "new"
      BY <3>1 DEF RegistryInv, Started
    <3> QED BY <2>1, <3>1, <3>2, StartFindsNothing DEF CreateInsert
  <2>2. CASE RestoreInsert(c)
    <3>1. /\ req[c].sid \in Sids /\ req[c].inst \in Insts /\ ~Started(req[c].inst)
      BY <2>0, <2>2 DEF FrameFact, RestoreInsert, OwnFact, Reserving, Started,
                        SidPcs, InstPcs
    <3>2. CASE sessions[req[c].sid] = NoInst
      BY <2>2, <3>1, <3>2, StartFindsNothing DEF RestoreInsert
    <3>3. CASE sessions[req[c].sid] # NoInst
      BY <1>1, <2>2, <3>3 DEF RestoreInsert, rtVars
    <3> QED BY <3>2, <3>3
  <2>3. CASE CleanupPop(c)
    BY <1>1, <2>3 DEF CleanupPop, TypeOK
  <2> QED BY <1>1, <1>3, <2>1, <2>2, <2>3
          DEF RequestStep, CreateRecheck, SnapshotLands, TouchDone, CleanupCheck,
              CleanupMark, CleanupEnd, ShutdownLock, ShutdownTimeout,
              ShutdownReturn, DeleteStore, DeleteStoreFails, DeleteCancel,
              DeleteReturn, regVars, rtVars
<1>4. ASSUME NEW i \in Insts, TaskStep(i) PROVE NewFindsNothing'
  <2>1. \A j \in Insts : tpc'[j] = "new" => tpc[j] = "new"
    BY <1>4, TaskOfOne
  <2> QED BY <1>1, <1>4, <2>1, TaskOfOne
<1> QED BY <1>1, <1>2, <1>3, <1>4 DEF Next, Submit, Interrupt, regVars, rtVars, vars

\* A dequeued cancellation always leaves the loop.
LEMMA CancelLeavesStep ==
    ASSUME BaseInv, CancelLeaves, [Next]_vars
    PROVE  CancelLeaves'
<1> USE ConstantsAssumption DEF BaseInv, TypeInv
<1>1. ASSUME UNCHANGED cur, \A i \in Insts : tpc'[i] = tpc[i] \/ ~Started(i)
      PROVE  CancelLeaves'
  BY <1>1 DEF CancelLeaves, RegistryInv
<1>2. ASSUME NEW c \in Callers, RequestBegin(c) PROVE CancelLeaves'
  BY <1>1, <1>2 DEF RequestBegin, CreateBegin, CleanupBegin, EnsureLoad,
                    TouchBegin, ShutdownSubmit, DeletePop, rtVars
<1>3. ASSUME NEW c \in Callers, RequestStep(c) PROVE CancelLeaves'
  <2>0. Reserving(req[c]) => ~Started(req[c].inst)
    BY DEF ReservedInv
  <2>1. CASE CreateInsert(c) \/ RestoreInsert(c)
    BY <1>1, <2>0, <2>1 DEF CreateInsert, RestoreInsert, StartRuntime, TypeOK,
                            Reserving, Creating, FrameOK, FrameFact, rtVars
  <2> QED BY <1>1, <1>3, <2>1
          DEF RequestStep, CreateRecheck, CreateInsert, SnapshotLands,
              RestoreInsert, TouchDone, CleanupCheck, CleanupPop, CleanupMark,
              CleanupEnd, ShutdownLock, ShutdownTimeout, ShutdownReturn,
              DeleteStore, DeleteStoreFails, DeleteCancel, DeleteReturn, rtVars
<1>4. ASSUME NEW i \in Insts, TaskStep(i) PROVE CancelLeaves'
  <2>1. cur'[i] = "cancel" => tpc'[i] \notin {"new", "idle", "busy"}
    <3>1. CASE Dequeue(i)
      <4>1. Head(queue[i]) \in {"input", "shutdown"}
        BY <3>1 DEF Dequeue, TypeOK
      <4> QED BY <3>1, <4>1 DEF Dequeue, TypeOK
    <3>2. CASE TaskStart(i) \/ FinishOp(i) \/ SaveAfterOp(i) \/ TaskCancelled(i)
      BY <3>2 DEF TaskStart, FinishOp, SaveAfterOp, TaskCancelled, TaskGoto,
                  CancelLeaves, TypeOK
    <3>3. CASE FinCleanup(i) \/ FinLock(i) \/ FinMark(i)
      BY <3>3 DEF FinCleanup, FinLock, FinMark, TaskGoto, TypeOK
    <3> QED BY <1>4, <3>1, <3>2, <3>3 DEF TaskStep
  <2> QED BY <1>4, <2>1, TaskOfOne DEF CancelLeaves
<1> QED BY <1>1, <1>2, <1>3, <1>4 DEF Next, Submit, Interrupt, vars, rtVars

Unstopped(i) == tpc[i] \in {"idle", "busy", "saving"} /\ ~Registered(i)
BeingStopped(i) ==
    cancelled[i] \/ cur[i] = "cancel" \/ \E c \in Callers : Stopper(c, i)

\* Every step keeps a popped runtime in somebody's hands.
LEMMA NoOrphanStep ==
    ASSUME BaseInv, OrphanInv, StoreFails = FALSE, [Next]_vars
    PROVE  NoOrphan'
<1> USE ConstantsAssumption DEF BaseInv, TypeInv, OrphanInv
<1> SUFFICES ASSUME NEW i \in Insts, Unstopped(i)' PROVE BeingStopped(i)'
  BY DEF NoOrphan, Unstopped, BeingStopped
<1>0. CASE Registered(i)
  BY <1>0, LossStep DEF Unstopped, BeingStopped
<1> SUFFICES ASSUME ~Registered(i) PROVE BeingStopped(i)'
  BY <1>0
<1>k. Unstopped(i) => BeingStopped(i)
  BY DEF NoOrphan, Unstopped, BeingStopped
<1>1. CASE UNCHANGED <<tpc, cur, cancelled, req>>
  BY <1>1, <1>k DEF Unstopped, BeingStopped, Stopper
<1>s. ASSUME NEW d \in Callers, Stopper(d, i), req'[d] = req[d] PROVE BeingStopped(i)'
  BY <1>s DEF Stopper, BeingStopped
<1>2. ASSUME NEW c \in Callers, RequestBegin(c) PROVE BeingStopped(i)'
  <2>1. UNCHANGED <<tpc, cur, cancelled>> /\ req[c].pc = "idle"
    BY <1>2 DEF RequestBegin, CreateBegin, CleanupBegin, EnsureLoad, TouchBegin,
                ShutdownSubmit, DeletePop, rtVars
  <2>2. Unstopped(i) /\ ~Stopper(c, i)
    BY <2>1 DEF Unstopped, Stopper
  <2> QED BY <1>2, <1>k, <1>s, <2>1, <2>2, OthersKept DEF BeingStopped
<1>3. ASSUME NEW c \in Callers, RequestStep(c) PROVE BeingStopped(i)'
  <2>0. /\ req[c] \in Request /\ req \in [Callers -> Request] /\ FrameFact(req[c])
        /\ OwnFact(req[c], tpc, owner)
    BY ReservedOwn DEF TypeOK, FrameOK
  <2>1. CASE CreateInsert(c) \/ RestoreInsert(c)
    <3>1. Reserving(req[c]) /\ ~Stopper(c, i)
      BY <2>0, <2>1 DEF CreateInsert, RestoreInsert, Reserving, Creating,
                        FrameFact, Stopper
    <3>2. UNCHANGED <<cur, cancelled>> /\ tpc'[i] \in {tpc[i], "new"}
      BY <2>1 DEF CreateInsert, RestoreInsert, StartRuntime, TypeOK, rtVars
    <3>3. Unstopped(i)
      BY <3>2 DEF Unstopped
    <3> QED BY <1>3, <1>k, <1>s, <3>1, <3>2, <3>3, OthersKept DEF BeingStopped
  <2>2. CASE CleanupMark(c)
    <3>1. UNCHANGED <<tpc, cur>>
          /\ cancelled' = [cancelled EXCEPT ![req[c].cand] = ~Done(req[c].cand)]
      BY <2>2 DEF CleanupMark
    <3>2. Unstopped(i)
      BY <3>1 DEF Unstopped
    <3>3. CASE req[c].cand = i
      BY <3>1, <3>2, <3>3 DEF Unstopped, BeingStopped, Done, TypeOK
    <3>4. CASE req[c].cand # i
      <4>1. ~Stopper(c, i) /\ cancelled'[i] = cancelled[i]
        BY <2>2, <3>1, <3>4 DEF CleanupMark, Stopper, TypeOK
      <4> QED BY <1>3, <1>k, <1>s, <3>1, <3>2, <4>1, OthersKept DEF BeingStopped
    <3> QED BY <3>3, <3>4
  <2>3. CASE DeleteStore(c)
    <3>1. UNCHANGED <<tpc, cur, cancelled>>
      BY <2>3 DEF DeleteStore, rtVars
    <3>2. Unstopped(i)
      BY <3>1 DEF Unstopped
    <3>3. CASE req[c].inst = i
      <4>1. Goto(c, "del_cancel")
        BY <2>3, <3>3 DEF DeleteStore
      <4>2. req'[c].pc = "del_cancel" /\ req'[c].inst = i
        BY <2>0, <3>3, <4>1 DEF Goto, Request
      <4> QED BY <4>2 DEF BeingStopped, Stopper
    <3>4. CASE req[c].inst # i
      <4>1. ~Stopper(c, i)
        BY <2>3, <3>4 DEF DeleteStore, Stopper
      <4> QED BY <1>3, <1>k, <1>s, <3>1, <3>2, <4>1, OthersKept DEF BeingStopped
    <3> QED BY <3>3, <3>4
  <2>4. CASE DeleteCancel(c)
    <3>1. UNCHANGED <<tpc, cur>>
      BY <2>4 DEF DeleteCancel
    <3>2. Unstopped(i)
      BY <3>1 DEF Unstopped
    <3>3. CASE req[c].inst = i
      BY <2>4, <3>1, <3>2, <3>3 DEF DeleteCancel, Unstopped, Done, BeingStopped,
                                    TypeOK
    <3>4. CASE req[c].inst # i
      <4>1. ~Stopper(c, i) /\ cancelled'[i] = cancelled[i]
        BY <2>0, <2>4, <3>4 DEF DeleteCancel, Stopper, TypeOK
      <4> QED BY <1>3, <1>k, <1>s, <3>1, <3>2, <4>1, OthersKept DEF BeingStopped
    <3> QED BY <3>3, <3>4
  <2>5. CASE ShutdownTimeout(c)
    <3>1. UNCHANGED <<tpc, cur>> /\ ~Stopper(c, i)
          /\ (cancelled[i] => cancelled'[i])
      BY <2>5 DEF ShutdownTimeout, Stopper, TypeOK
    <3>2. Unstopped(i)
      BY <3>1 DEF Unstopped
    <3> QED BY <1>3, <1>k, <1>s, <3>1, <3>2, OthersKept DEF BeingStopped
  <2>6. CASE \/ CreateRecheck(c) \/ SnapshotLands(c) \/ TouchDone(c)
             \/ CleanupCheck(c) \/ CleanupPop(c) \/ CleanupEnd(c)
             \/ ShutdownLock(c) \/ ShutdownReturn(c) \/ DeleteReturn(c)
    <3>1. UNCHANGED <<tpc, cur, cancelled>> /\ ~Stopper(c, i)
      BY <2>6 DEF CreateRecheck, SnapshotLands, TouchDone, CleanupCheck,
                  CleanupPop, CleanupEnd, ShutdownLock, ShutdownReturn,
                  DeleteReturn, rtVars, Stopper
    <3>2. Unstopped(i)
      BY <3>1 DEF Unstopped
    <3> QED BY <1>3, <1>k, <1>s, <3>1, <3>2, OthersKept DEF BeingStopped
  <2> QED BY <1>3, <2>1, <2>2, <2>3, <2>4, <2>5, <2>6
          DEF RequestStep, DeleteStoreFails
<1>4. ASSUME NEW j \in Insts, TaskStep(j) PROVE BeingStopped(i)'
  <2>0. UNCHANGED req
    BY <1>4, TaskOfOne
  <2>1. CASE i # j
    BY <1>4, <1>k, <2>0, <2>1, TaskOfOne DEF Unstopped, BeingStopped, Stopper
  <2>2. CASE i = j
    <3>1. CASE TaskStart(i)
      BY <3>1 DEF TaskStart, TaskGoto, NewFindsNothing, Unstopped, TypeOK
    <3>2. CASE Dequeue(i) \/ FinishOp(i)
      <4>1. Unstopped(i) /\ ~cancelled[i] /\ cur[i] # "cancel"
        BY <3>2 DEF Dequeue, FinishOp, Unstopped, CancelLeaves
      <4> QED BY <1>k, <2>0, <4>1 DEF BeingStopped, Stopper
    <3>3. CASE SaveAfterOp(i)
      <4>1. Unstopped(i) /\ ~cancelled[i] /\ cur[i] # "cancel"
        BY <3>3 DEF SaveAfterOp, Unstopped, TaskGoto, TypeOK
      <4> QED BY <1>k, <2>0, <4>1 DEF BeingStopped, Stopper
    <3>4. CASE TaskCancelled(i)
      <4>1. cur'[i] = "cancel"
        BY <3>4 DEF TaskCancelled, TaskGoto, Unstopped, NeverInterrupted, TypeOK
      <4> QED BY <4>1 DEF BeingStopped
    <3>5. CASE FinCleanup(i) \/ FinLock(i) \/ FinMark(i)
      BY <3>5 DEF FinCleanup, FinLock, FinMark, TaskGoto, Unstopped, TypeOK
    <3> QED BY <1>4, <2>2, <3>1, <3>2, <3>3, <3>4, <3>5 DEF TaskStep
  <2> QED BY <2>1, <2>2
<1> QED BY <1>1, <1>2, <1>3, <1>4 DEF Next, Submit, Interrupt, vars, rtVars

(* When the store does not fail and the user does not interrupt, a runtime *)
(* popped by cleanup_stale_sessions or delete_session whose task is still  *)
(* in its loop is cancelled, being cancelled, or about to be, also when    *)
(* shutdown_session, a restore of its id or the other of the two race.     *)
THEOREM NoOrphanWithoutFaults ==
    ASSUME StoreFails = FALSE, "interrupt" \notin Ops
    PROVE  Spec => []NoOrphan
<1> USE ConstantsAssumption
<1>1. Init => OrphanInv
  BY DEF Init, OrphanInv, NeverInterrupted, NewFindsNothing, CancelLeaves,
         NoOrphan
<1>2. BaseInv /\ OrphanInv /\ [Next]_vars => OrphanInv'
  BY NeverInterruptedStep, NewFindsNothingStep, CancelLeavesStep, NoOrphanStep
     DEF OrphanInv, BaseInv, TypeInv
<1>3. OrphanInv => NoOrphan
  BY DEF OrphanInv
<1> QED BY <1>1, <1>2, <1>3, BaseInvariance, PTL DEF Spec

-----------------------------------------------------------------------------
(***************************************************************************)
(* CapacityOvershootBounded, where nothing is restored. It is not          *)
(* inductive: a create that found its user at the limit has the check of   *)
(* the server behind it already, and is counted from there on.             *)
(***************************************************************************)
PastServerCheck ==
    {c \in Callers : Creating(req[c]) /\ (req[c].pc = "create_insert" \/ req[c].op = "create_user")}
InsertingFor(u) == {c \in Inserting : req[c].user = u}

NoRestore == \A c \in Callers : req[c].pc # "restore_insert"

CapacityInv ==
    /\ NoRestore
    /\ IsFiniteSet(ActiveSessions)
    /\ Cardinality(ActiveSessions) + Cardinality(PastServerCheck)
           < MaxSessions + Cardinality(Callers)
    /\ \A u \in Users \ {Dev} :
           Cardinality(UserSessions(u)) + Cardinality(InsertingFor(u))
               < MaxPerUser + Cardinality(Callers)

\* Every set that is counted is finite.
LEMMA CapacityFinite ==
    ASSUME IsFiniteSet(Callers), IsFiniteSet(ActiveSessions)
    PROVE  /\ Cardinality(Callers) \in Nat /\ Cardinality(ActiveSessions) \in Nat
           /\ IsFiniteSet(PastServerCheck) /\ Cardinality(PastServerCheck) \in Nat
           /\ Cardinality(PastServerCheck) <= Cardinality(Callers)
           /\ \A u : /\ IsFiniteSet(UserSessions(u)) /\ Cardinality(UserSessions(u)) \in Nat
                     /\ IsFiniteSet(InsertingFor(u)) /\ Cardinality(InsertingFor(u)) \in Nat
                     /\ Cardinality(InsertingFor(u)) <= Cardinality(Callers)
<1>1. PastServerCheck \in SUBSET Callers
  BY DEF PastServerCheck
<1>2. \A u : UserSessions(u) \in SUBSET ActiveSessions /\ InsertingFor(u) \in SUBSET Callers
  BY DEF UserSessions, InsertingFor, Inserting
<1> QED  BY <1>1, <1>2, FS_Subset, FS_CardinalityType

\* Where no session becomes active, the bounds hold if whoever passes a check found room.
LEMMA CapacityKept ==
    ASSUME IsFiniteSet(Callers), CapacityInv, NoRestore',
           ActiveSessions' \subseteq ActiveSessions,
           \A u \in Users : UserSessions(u)' \subseteq UserSessions(u),
           ~ServerFull \/ PastServerCheck' \subseteq PastServerCheck,
           \A u \in Users : ~UserFull(u) \/ InsertingFor(u)' \subseteq InsertingFor(u)
    PROVE  CapacityInv'
<1> USE ConstantsAssumption DEF CapacityInv
<1>1. IsFiniteSet(ActiveSessions)' /\ Cardinality(ActiveSessions)' <= Cardinality(ActiveSessions)
  BY FS_Subset
<1>2. \A u \in Users : Cardinality(UserSessions(u))' <= Cardinality(UserSessions(u))
  BY CapacityFinite, FS_Subset
<1>3. /\ PastServerCheck' \in SUBSET Callers
      /\ \A u : InsertingFor(u)' \in SUBSET Callers
  BY DEF PastServerCheck, InsertingFor, Inserting
<1>4. /\ Cardinality(PastServerCheck)' \in Nat
      /\ Cardinality(PastServerCheck)' <= Cardinality(Callers)
      /\ \A u : /\ Cardinality(InsertingFor(u))' \in Nat
                /\ Cardinality(InsertingFor(u))' <= Cardinality(Callers)
  BY <1>3, FS_Subset, FS_CardinalityType
<1>5. Cardinality(ActiveSessions)' \in Nat
  BY <1>1, FS_CardinalityType
<1>6. \A u \in Users : Cardinality(UserSessions(u))' \in Nat
  <2>1. \A u : UserSessions(u)' \in SUBSET ActiveSessions'
    BY DEF UserSessions
  <2> QED  BY <1>1, <2>1, FS_Subset, FS_CardinalityType
<1>7. Cardinality(ActiveSessions)' + Cardinality(PastServerCheck)'
          < MaxSessions + Cardinality(Callers)
  <2>1. CASE ~ServerFull
    BY <1>1, <1>4, <1>5, <2>1, CapacityFinite DEF ServerFull
  <2>2. CASE PastServerCheck' \subseteq PastServerCheck
    <3>1. Cardinality(PastServerCheck)' <= Cardinality(PastServerCheck)
      BY <2>2, CapacityFinite, FS_Subset
    <3> QED  BY <1>1, <1>4, <1>5, <3>1, CapacityFinite
  <2> QED  BY <2>1, <2>2
<1>8. ASSUME NEW u \in Users \ {Dev}
      PROVE  Cardinality(UserSessions(u))' + Cardinality(InsertingFor(u))'
                 < MaxPerUser + Cardinality(Callers)
  <2>1. CASE ~UserFull(u)
    BY <1>2, <1>4, <1>6, <2>1, CapacityFinite DEF UserFull
  <2>2. CASE InsertingFor(u)' \subseteq InsertingFor(u)
    <3>1. Cardinality(InsertingFor(u))' <= Cardinality(InsertingFor(u))
      BY <2>2, CapacityFinite, FS_Subset
    <3> QED  BY <1>2, <1>4, <1>6, <3>1, CapacityFinite
  <2> QED  BY <2>1, <2>2
<1> QED  BY <1>1, <1>7, <1>8

\* A create that registers its session is counted as a session from there on.
LEMMA CapacityInserted ==
    ASSUME BaseInv, IsFiniteSet(Callers), CapacityInv, NEW c \in Callers, CreateInsert(c)
    PROVE  CapacityInv'
<1> USE ConstantsAssumption DEF CapacityInv
<1> DEFINE i == req[c].inst
           s == req[c].sid
           v == req[c].user
<1>1. /\ s \in Sids /\ i \in Insts /\ ~Started(i) /\ owner[s] = NoUser
      /\ Creating(req[c]) /\ c \in PastServerCheck /\ c \in Inserting
  BY DEF BaseInv, TypeInv, FrameOK, FrameFact, CreateInsert, ReservedInv, Reserving, Creating,
         PastServerCheck, Inserting, SidPcs, InstPcs
<1>2. /\ sessions' = [sessions EXCEPT ![s] = i]
      /\ sidOf' = [sidOf EXCEPT ![i] = s]
      /\ active' = [active EXCEPT ![i] = TRUE]
      /\ owner' = [owner EXCEPT ![s] = v]
  BY DEF CreateInsert, StartRuntime
<1>3. sessions[s] = NoInst /\ sidOf[i] = NoSid
  BY <1>1 DEF BaseInv, TypeInv, TypeOK, RegistryInv, Started
<1>4. ASSUME NEW j \in Insts \ {i}
      PROVE  /\ j \in ActiveSessions' <=> j \in ActiveSessions
             /\ j \in ActiveSessions => sidOf'[j] = sidOf[j] /\ owner'[sidOf[j]] = owner[sidOf[j]]
  <2>1. sidOf'[j] = sidOf[j] /\ active'[j] = active[j]
    BY <1>2 DEF BaseInv, TypeInv, TypeOK
  <2>2. sidOf[j] = s => ~Registered(j) /\ ~Registered(j)'
    BY <1>1, <1>2, <1>3, <2>1 DEF Registered, BaseInv, TypeInv, TypeOK
  <2>3. sidOf[j] # s => (Registered(j)' <=> Registered(j))
    BY <1>2, <2>1 DEF Registered, BaseInv, TypeInv, TypeOK
  <2>4. sidOf[j] # s /\ Registered(j) => owner'[sidOf[j]] = owner[sidOf[j]]
    BY <1>2 DEF Registered, BaseInv, TypeInv, TypeOK
  <2> QED  BY <2>1, <2>2, <2>3, <2>4 DEF ActiveSessions
<1>5. /\ i \notin ActiveSessions /\ i \in ActiveSessions'
      /\ sidOf'[i] = s /\ owner'[s] = v
  BY <1>1, <1>2, <1>3 DEF ActiveSessions, Registered, BaseInv, TypeInv, TypeOK
<1>6. ActiveSessions' = ActiveSessions \cup {i}
  BY <1>4, <1>5 DEF ActiveSessions
<1>7. \A u : UserSessions(u)' = IF u = v THEN UserSessions(u) \cup {i} ELSE UserSessions(u)
  <2> SUFFICES ASSUME NEW u
               PROVE  UserSessions(u)' = IF u = v THEN UserSessions(u) \cup {i}
                                                 ELSE UserSessions(u)
    OBVIOUS
  <2>1. \A j \in Insts : j \in UserSessions(u)' <=> j \in UserSessions(u) \/ (u = v /\ j = i)
    BY <1>4, <1>5, <1>6 DEF UserSessions
  <2>2. UserSessions(u) \subseteq Insts /\ UserSessions(u)' \subseteq Insts
    BY DEF UserSessions, ActiveSessions
  <2> HIDE DEF i, v
  <2> QED  BY <1>1, <2>1, <2>2
<1>8. i \notin UserSessions(v) /\ c \in InsertingFor(v)
  BY <1>1, <1>5 DEF UserSessions, InsertingFor
<1>9. req' = [req EXCEPT ![c] = [req[c] EXCEPT !.pc = "snapshot"]]
  BY DEF CreateInsert, Goto
<1>10. /\ PastServerCheck' = PastServerCheck \ {c}
       /\ \A u : InsertingFor(u)' = InsertingFor(u) \ {c}
       /\ NoRestore'
  BY <1>9 DEF PastServerCheck, InsertingFor, Inserting, Creating, NoRestore, BaseInv, TypeInv,
              TypeOK, Request
<1> HIDE DEF i, s, v
<1>11. /\ IsFiniteSet(ActiveSessions)'
       /\ Cardinality(ActiveSessions)' = Cardinality(ActiveSessions) + 1
       /\ Cardinality(PastServerCheck)' = Cardinality(PastServerCheck) - 1
  BY <1>1, <1>5, <1>6, <1>10, CapacityFinite, FS_AddElement, FS_RemoveElement
<1>12. \A u : IF u = v THEN /\ Cardinality(UserSessions(u))' = Cardinality(UserSessions(u)) + 1
                            /\ Cardinality(InsertingFor(u))' = Cardinality(InsertingFor(u)) - 1
                       ELSE /\ UserSessions(u)' = UserSessions(u)
                            /\ InsertingFor(u)' = InsertingFor(u) \ {c}
  BY <1>7, <1>8, <1>10, CapacityFinite, FS_AddElement, FS_RemoveElement
<1>13. ASSUME NEW u \in Users \ {Dev}
       PROVE  Cardinality(UserSessions(u))' + Cardinality(InsertingFor(u))'
                  < MaxPerUser + Cardinality(Callers)
  <2>1. CASE u = v
    BY <1>12, <2>1, CapacityFinite
  <2>2. CASE u # v
    <3>1. c \notin InsertingFor(u)
      BY <2>2 DEF InsertingFor, v
    <3>2. InsertingFor(u)' = InsertingFor(u) /\ UserSessions(u)' = UserSessions(u)
      BY <1>12, <2>2, <3>1
    <3> QED  BY <3>2
  <2> QED  BY <2>1, <2>2
<1> QED  BY <1>10, <1>11, <1>13, CapacityFinite

\* Every other step: no runtime is started, and a create passes a check only if it found room.
LEMMA CapacityStep ==
    ASSUME BaseInv, IsFiniteSet(Callers), "ensure" \notin Ops, CapacityInv, [Next]_vars
    PROVE  CapacityInv'
<1> USE ConstantsAssumption DEF BaseInv, TypeInv
<1>k. ASSUME UNCHANGED owner, \A i \in Insts : Started(i)' <=> Started(i), NoRestore',
             ~ServerFull \/ PastServerCheck' \subseteq PastServerCheck,
             \A u \in Users : ~UserFull(u) \/ InsertingFor(u)' \subseteq InsertingFor(u)
      PROVE  CapacityInv'
  <2>1. \A i \in Insts : Serving(i)' => Serving(i) /\ sidOf'[i] = sidOf[i]
    <3>1. NoReturn
      BY NoReturnStep
    <3>2. \A i \in Insts : Serving(i)' => Started(i)'
      BY RegistryStep DEF Serving, Registered, RegistryInv
    <3> QED  BY <1>k, <3>1, <3>2 DEF NoReturn
  <2>2. /\ ActiveSessions' \subseteq ActiveSessions
        /\ \A u \in Users : UserSessions(u)' \subseteq UserSessions(u)
    BY <1>k, <2>1 DEF ActiveSessions, UserSessions, Serving
  <2> QED  BY <1>k, <2>2, CapacityKept
\* A request whose create is no further, or is none.
<1>r. ASSUME NEW c \in Callers, RequestBegin(c) \/ RequestStep(c), UNCHANGED owner,
             \A i \in Insts : Started(i)' <=> Started(i),
             req'[c].pc # "restore_insert",
             Creating(req'[c]) /\ (req'[c].pc = "create_insert" \/ req'[c].op = "create_user")
                 => c \in PastServerCheck \/ ~ServerFull,
             req'[c].pc = "create_insert" => ~UserFull(req'[c].user)
      PROVE  CapacityInv'
  <2>o. \A d \in Callers \ {c} : req'[d] = req[d]
    BY <1>r, OthersKept
  <2>1. NoRestore'
    BY <1>r, <2>o DEF NoRestore, CapacityInv
  <2>2. ~ServerFull \/ PastServerCheck' \subseteq PastServerCheck
    BY <1>r, <2>o DEF PastServerCheck
  <2>3. \A u \in Users : ~UserFull(u) \/ InsertingFor(u)' \subseteq InsertingFor(u)
    BY <1>r, <2>o DEF InsertingFor, Inserting
  <2> QED  BY <1>k, <1>r, <2>1, <2>2, <2>3
<1>q. ASSUME UNCHANGED <<req, owner>>, \A i \in Insts : Started(i)' <=> Started(i)
      PROVE  CapacityInv'
  BY <1>k, <1>q DEF PastServerCheck, InsertingFor, Inserting, NoRestore, CapacityInv
<1>1. ASSUME NEW c \in Callers, RequestBegin(c) PROVE CapacityInv'
  <2> USE DEF TypeOK, Started, Creating, CreateOps, Frame, IdleReq, regVars, rtVars
  <2>1. ASSUME NEW u \in Users, CreateBegin(c, u) PROVE CapacityInv'
    <3>1. PICK s \in Sids, i \in Insts : CreateBegin(c, u)!4!(s, i)
      BY <2>1 DEF CreateBegin
    <3> DEFINE f == [Frame("clean", "create") EXCEPT !.user = u, !.sid = s, !.inst = i]
    <3>2. CASE ServerFull
      BY <1>1, <1>r, <2>1, <3>1, <3>2 DEF CreateBegin
    <3>3. CASE ~ServerFull
      BY <1>1, <1>r, <2>1, <3>1, <3>3 DEF CreateBegin, PassServerCheck
    <3> QED  BY <3>2, <3>3
  <2>2. ASSUME NEW u \in Users, CleanupBegin(c, u) PROVE CapacityInv'
    BY <1>1, <1>r, <2>2 DEF CleanupBegin
  <2>3. ASSUME NEW s \in Sids, TouchBegin(c, s) PROVE CapacityInv'
    BY <1>1, <1>r, <2>3 DEF TouchBegin
  <2>4. ASSUME NEW s \in Sids, ShutdownSubmit(c, s) PROVE CapacityInv'
    BY <1>1, <1>r, <2>4 DEF ShutdownSubmit
  <2>5. ASSUME NEW s \in Sids, DeletePop(c, s) PROVE CapacityInv'
    BY <1>1, <1>r, <2>5 DEF DeletePop
  <2> QED  BY <1>1, <2>1, <2>2, <2>3, <2>4, <2>5 DEF RequestBegin, EnsureLoad
<1>2. ASSUME NEW c \in Callers, RequestStep(c) PROVE CapacityInv'
  <2> USE DEF TypeOK, Started, regVars, rtVars
  <2>f. FrameFact(req[c]) /\ req[c] \in Request
    BY DEF FrameOK, TypeOK
  <2>g. ASSUME NEW p, p \notin {"create_insert", "restore_insert"}, UNCHANGED <<owner, tpc>>,
               Goto(c, p), ~Creating(req[c]) \/ p \in {"clean", "clean_mark", "clean_pop"},
               ~Creating(req[c]) => ~Creating([req[c] EXCEPT !.pc = p])
        PROVE  CapacityInv'
    BY <1>2, <1>r, <2>f, <2>g DEF Goto, Creating, PastServerCheck, Request
  <2>h. ASSUME Return(c), UNCHANGED <<owner, tpc>> PROVE CapacityInv'
    BY <1>2, <1>r, <2>h DEF Return, IdleReq, Creating
  <2>1. CASE CreateRecheck(c)
    <3>1. CASE req[c].op = "create" /\ ~ServerFull
      <4>1. req'[c] = PassServerCheck(req[c]) /\ UNCHANGED <<owner, tpc>>
        BY <2>1, <3>1 DEF CreateRecheck
      <4>2. /\ req'[c].pc \in {"clean", "create_insert"} /\ req'[c].user = req[c].user
            /\ req'[c].pc = "create_insert" => ~UserFull(req[c].user)
        BY <2>f, <4>1 DEF PassServerCheck, Request
      <4> QED  BY <1>2, <1>r, <3>1, <4>1, <4>2
    <3>2. CASE req[c].op = "create_user" /\ ~UserFull(req[c].user)
      <4>1. c \in PastServerCheck
        BY <2>1, <3>2 DEF CreateRecheck, PastServerCheck, Creating, CreateOps
      <4>2. req'[c] = [req[c] EXCEPT !.pc = "create_insert"] /\ UNCHANGED <<owner, tpc>>
        BY <2>1, <3>2 DEF CreateRecheck, Goto
      <4>3. req'[c].pc = "create_insert" /\ req'[c].user = req[c].user
        BY <2>f, <4>2 DEF Request
      <4> QED  BY <1>2, <1>r, <3>2, <4>1, <4>2, <4>3
    <3>3. CASE Return(c)
      BY <2>1, <2>h, <3>3 DEF CreateRecheck
    <3> QED  BY <2>1, <3>1, <3>2, <3>3 DEF CreateRecheck
  <2>2. CASE CreateInsert(c)
    BY <2>2, CapacityInserted
  <2>3. CASE RestoreInsert(c)
    BY <2>3 DEF RestoreInsert, CapacityInv, NoRestore
  <2>4. CASE CleanupCheck(c)
    <3>1. PICK i : req' = [req EXCEPT ![c] = [req[c] EXCEPT !.pc = "clean_pop", !.cand = i,
                                                           !.todo = req[c].todo \ {i}]]
      BY <2>4 DEF CleanupCheck
    <3> QED  BY <1>2, <1>r, <2>4, <2>f, <3>1 DEF CleanupCheck, Creating, PastServerCheck, Request
  <2>5. CASE CleanupPop(c)
    BY <2>5, <2>f, <2>g DEF CleanupPop, FrameFact, Creating, Request
  <2>6. CASE CleanupMark(c)
    BY <1>2, <1>r, <2>6, <2>f DEF CleanupMark, Creating, PastServerCheck, Request
  <2>7. CASE CleanupEnd(c)
    <3>1. CASE req[c].op = "cleanup"
      BY <2>7, <2>h, <3>1 DEF CleanupEnd
    <3>2. CASE req[c].op # "cleanup"
      <4>1. /\ req'[c] = [req[c] EXCEPT !.pc = "create_recheck", !.todo = {}, !.cand = NoInst]
            /\ UNCHANGED <<owner, tpc>>
        BY <2>7, <3>2 DEF CleanupEnd
      <4>2. req'[c].pc = "create_recheck" /\ req'[c].op = req[c].op
        BY <2>f, <4>1 DEF Request
      <4>3. req'[c].op = "create_user" => c \in PastServerCheck
        BY <2>7, <2>f, <4>2 DEF CleanupEnd, PastServerCheck, Creating, CreateOps, Request
      <4> QED  BY <1>2, <1>r, <4>1, <4>2, <4>3
    <3> QED  BY <3>1, <3>2
  <2>8. CASE TouchDone(c)
    BY <2>8, <2>f, <2>g DEF TouchDone, Creating, Request
  <2>9. CASE ShutdownTimeout(c)
    BY <2>9, <2>f, <2>g DEF ShutdownTimeout, Creating, Request
  <2>10. CASE ShutdownLock(c)
    <3>1. CASE Return(c)
      BY <2>10, <2>h, <3>1 DEF ShutdownLock
    <3>2. CASE ~Return(c)
      <4>1. PICK i : req' = [req EXCEPT ![c] = [req[c] EXCEPT !.pc = "shut_wait", !.inst = i]]
        BY <2>10, <3>2 DEF ShutdownLock
      <4> QED  BY <1>2, <1>r, <2>10, <2>f, <4>1 DEF ShutdownLock, Creating, Request
    <3> QED  BY <3>1, <3>2
  <2>11. CASE DeleteStore(c) \/ DeleteCancel(c)
    BY <2>11, <2>f, <2>g, <2>h DEF DeleteStore, DeleteCancel, Creating, Request
  <2> QED  BY <1>2, <2>h, <2>1, <2>2, <2>3, <2>4, <2>5, <2>6, <2>7, <2>8, <2>9, <2>10, <2>11
           DEF RequestStep, SnapshotLands, ShutdownReturn, DeleteStoreFails, DeleteReturn
<1>3. ASSUME NEW i \in Insts, TaskStep(i) PROVE CapacityInv'
  <2>1. UNCHANGED <<req, owner>>
    BY <1>3 DEF TaskStep, TaskStart, Dequeue, FinishOp, SaveAfterOp,
                TaskCancelled, FinCleanup, FinLock, FinMark, regVars
  <2>2. tpc[i] # "none"
        /\ \/ UNCHANGED tpc
           \/ \E p \in TaskPcs \ {"none"} : tpc' = [tpc EXCEPT ![i] = p]
    BY <1>3 DEF TaskStep, TaskStart, Dequeue, FinishOp, SaveAfterOp, TaskPcs,
                TaskCancelled, FinCleanup, FinLock, FinMark, TaskGoto, Done
  <2> QED  BY <1>q, <2>1, <2>2 DEF Started, TypeOK
<1>4. ASSUME NEW s \in Sids, Submit(s) \/ Interrupt(s) PROVE CapacityInv'
  BY <1>q, <1>4 DEF Submit, Interrupt, regVars, Started
<1>5. CASE UNCHANGED vars
  BY <1>q, <1>5 DEF vars, regVars, rtVars, Started
<1> QED  BY <1>1, <1>2, <1>3, <1>4, <1>5 DEF Next

(* Concurrent creates exceed the limits of create_session by no more than  *)
(* one session for every other request. It needs requests that are finitely*)
(* many, and no restores: ensure_session_loaded does not look at a limit.  *)
THEOREM CapacityWithoutRestores ==
    ASSUME IsFiniteSet(Callers), "ensure" \notin Ops
    PROVE  Spec => []CapacityOvershootBounded
<1>1. Init => CapacityInv
  <2> SUFFICES ASSUME Init PROVE CapacityInv
    OBVIOUS
  <2>1. ActiveSessions = {} /\ PastServerCheck = {} /\ NoRestore
    BY DEF Init, ActiveSessions, PastServerCheck, Creating, NoRestore, IdleReq
  <2>2. \A u : UserSessions(u) = {} /\ InsertingFor(u) = {}
    BY <2>1 DEF Init, UserSessions, InsertingFor, Inserting, IdleReq
  <2>3. /\ IsFiniteSet(ActiveSessions) /\ Cardinality(ActiveSessions) = 0
        /\ Cardinality(PastServerCheck) = 0
    BY <2>1, FS_EmptySet
  <2>4. \A u : Cardinality(UserSessions(u)) = 0 /\ Cardinality(InsertingFor(u)) = 0
    BY <2>2, FS_EmptySet
  <2>5. Cardinality(Callers) \in Nat
    BY FS_CardinalityType
  <2> QED  BY <2>1, <2>3, <2>4, <2>5, ConstantsAssumption DEF CapacityInv
<1>2. BaseInv /\ CapacityInv /\ [Next]_vars => CapacityInv'
  BY CapacityStep
<1>3. BaseInv /\ CapacityInv => CapacityOvershootBounded
  <2> SUFFICES ASSUME BaseInv, CapacityInv PROVE CapacityOvershootBounded
    OBVIOUS
  <2>1. Inserting \in SUBSET PastServerCheck
    BY DEF BaseInv, TypeInv, FrameOK, FrameFact, Inserting, PastServerCheck, Creating
  <2>2. Cardinality(Inserting) \in Nat /\ Cardinality(Inserting) <= Cardinality(PastServerCheck)
    BY <2>1, CapacityFinite, FS_Subset, FS_CardinalityType DEF CapacityInv
  <2>3. Cardinality(ActiveSessions) + Cardinality(Inserting) < MaxSessions + Cardinality(Callers)
    BY <2>2, CapacityFinite, ConstantsAssumption DEF CapacityInv
  <2> QED  BY <2>3 DEF CapacityInv, CapacityOvershootBounded, InsertingFor
<1> QED  BY <1>1, <1>2, <1>3, BaseInvariance, PTL DEF Spec
-----------------------------------------------------------------------------
(***************************************************************************)
(* Action properties.                                                      *)
(***************************************************************************)
(* No write of the store, however late, brings back a soft-deleted         *)
(* session: the upsert sets the visibility only on insertion.              *)
THEOREM DeletionIsFinal == Spec => DeletedStaysDeleted
<1>1. ASSUME TypeInv, [Next]_vars, NEW s \in Sids, doc[s] = "deleted"
      PROVE  doc'[s] = "deleted"
  <2>0. ASSUME NEW t, NEW st, Snapshot(t, st) PROVE doc'[s] = "deleted"
    BY <1>1, <2>0 DEF Snapshot, storeVars, TypeInv, TypeOK
  <2>1. ASSUME NEW c \in Callers, RequestBegin(c) PROVE UNCHANGED doc
    BY <2>1 DEF RequestBegin, CreateBegin, CleanupBegin, EnsureLoad, TouchBegin,
                ShutdownSubmit, DeletePop, storeVars
  <2>2. ASSUME NEW c \in Callers, RequestStep(c) PROVE doc'[s] = "deleted"
    <3>1. CASE DeleteStore(c)
      BY <1>1, <3>1 DEF DeleteStore, TypeInv, TypeOK
    <3> QED BY <1>1, <2>0, <2>2, <3>1
            DEF RequestStep, CreateRecheck, CreateInsert, SnapshotLands,
                RestoreInsert, TouchDone, CleanupCheck, CleanupPop, CleanupMark,
                CleanupEnd, ShutdownLock, ShutdownTimeout, ShutdownReturn,
                DeleteStoreFails, DeleteCancel, DeleteReturn, storeVars
  <2>3. ASSUME NEW i \in Insts, TaskStep(i) PROVE doc'[s] = "deleted"
    BY <1>1, <2>0, <2>3
       DEF TaskStep, TaskStart, Dequeue, FinishOp, SaveAfterOp, TaskCancelled,
           FinCleanup, FinLock, FinMark, storeVars
  <2> QED BY <1>1, <2>1, <2>2, <2>3 DEF Next, Submit, Interrupt, storeVars, vars
<1>2. TypeInv /\ [Next]_vars => \A s \in Sids : doc[s] = "deleted" => doc'[s] = "deleted"
  BY <1>1
<1> QED BY <1>2, TypeInvariance, PTL DEF Spec, DeletedStaysDeleted

-----------------------------------------------------------------------------
(***************************************************************************)
(* SessionManager, without shutdown_session, implements the safety part of *)
(* RuntimeLifecycle.                                                       *)
(***************************************************************************)
\* The phase of a runtime, case by case.
LEMMA LifeCases ==
    ASSUME TypeOK, NEW i \in Insts
    PROVE  /\ LifeOf(i) = "unborn" <=> ~Started(i)
           /\ LifeOf(i) = "over" <=> tpc[i] = "done"
           /\ LifeOf(i) = "serving" <=> ~Done(i) /\ Serving(i)
           /\ LifeOf(i) = "retired" <=> ~Done(i) /\ ~Serving(i)
           /\ LifeOf(i) \in {"unborn", "over", "serving", "retired"}
BY DEF LifeOf, Started, Done

LifeKept(i) == LifeOf(i)' = LifeOf(i)

\* The phase of a runtime depends on nothing else.
LEMMA KeepLife ==
    ASSUME TypeOK, TypeOK', NEW i \in Insts,
           Started(i)' <=> Started(i), tpc'[i] = "done" <=> tpc[i] = "done",
           Done(i) \/ (Serving(i)' <=> Serving(i))
    PROVE  LifeKept(i)
<1>1. Done(i)' <=> Done(i)
  BY DEF Done, Started
<1>2. /\ LifeOf(i)' = "unborn" <=> ~Started(i)'
      /\ LifeOf(i)' = "over" <=> tpc'[i] = "done"
      /\ LifeOf(i)' = "serving" <=> ~Done(i)' /\ Serving(i)'
      /\ LifeOf(i)' = "retired" <=> ~Done(i)' /\ ~Serving(i)'
      /\ LifeOf(i)' \in {"unborn", "over", "serving", "retired"}
  BY DEF LifeOf, Started, Done, TypeOK
<1> QED BY <1>1, <1>2, LifeCases DEF LifeKept

\* A step of the life of runtime i alone.
LEMMA OneLife ==
    ASSUME NEW i \in Insts, \A j \in Insts \ {i} : LifeKept(j)
    PROVE  [j \in Insts |-> LifeOf(j)]' =
               [[j \in Insts |-> LifeOf(j)] EXCEPT ![i] = LifeOf(i)']
BY DEF LifeKept

\* When every phase is kept, so is the whole mapped function.
LEMMA AllLivesKept ==
    ASSUME \A j \in Insts : LifeKept(j), UNCHANGED <<sidOf, accepted>>
    PROVE  UNCHANGED Life!lvars
BY DEF LifeKept, Life!lvars

LStep == Life!LNext \/ UNCHANGED Life!lvars

\* Starting a runtime begins its life.
LEMMA StartBegins ==
    ASSUME BaseInv, BaseInv', NEW i \in Insts, NEW s \in Sids, NEW h,
           StartRuntime(i, s, h), ~Started(i), sessions[s] = NoInst,
           UNCHANGED accepted
    PROVE  LStep
<1> USE ConstantsAssumption DEF BaseInv, TypeInv
<1>1. /\ sessions' = [sessions EXCEPT ![s] = i]
      /\ sidOf' = [sidOf EXCEPT ![i] = s]
      /\ active' = [active EXCEPT ![i] = TRUE]
      /\ tpc' = [tpc EXCEPT ![i] = "new"]
  BY DEF StartRuntime
<1>2. ASSUME NEW j \in Insts \ {i} PROVE LifeKept(j)
  <2>1. tpc'[j] = tpc[j] /\ sidOf'[j] = sidOf[j] /\ active'[j] = active[j]
    BY <1>1, <1>2 DEF TypeOK
  <2>2. Started(j) => (Registered(j)' <=> Registered(j))
    BY <1>1, <2>1 DEF Registered, RegistryInv, TypeOK
  <2> QED BY <2>1, <2>2, KeepLife DEF Started, Done, Serving
<1>3. LifeOf(i) = "unborn"
  BY LifeCases
<1>4. tpc'[i] = "new" /\ Serving(i)'
  BY <1>1 DEF Serving, Registered, TypeOK
<1>5. LifeOf(i)' = "serving"
  BY <1>4 DEF LifeOf, Done
<1>6. \A j \in Insts : sidOf[j] = s => LifeOf(j) # "serving"
  BY LifeCases DEF Serving, Registered
<1>7. Life!Begin(i, s)
  BY <1>1, <1>2, <1>3, <1>5, <1>6, OneLife DEF Life!Begin
<1> QED BY <1>7 DEF LStep, Life!LNext

\* An accepted submission is one taken by a serving runtime.
LEMMA EnqueueTakes ==
    ASSUME BaseInv, BaseInv', ZombieInv, NEW s \in Sids, NEW op, Enqueue(s, op),
           UNCHANGED <<regVars, active, tpc>>
    PROVE  LStep
<1> USE ConstantsAssumption DEF BaseInv, TypeInv
<1>0. PICK i \in Insts : i = sessions[s]
  BY DEF Enqueue, TypeOK
<1>1. Serving(i) /\ tpc[i] # "none" /\ ~Done(i)
  BY <1>0 DEF Enqueue, Serving, Registered, RegistryInv, Started, ZombieInv,
              ServingInLoop, InLoop, Done
<1>2. LifeOf(i) = "serving"
  BY <1>1, LifeCases
<1>3. \A j \in Insts : LifeKept(j)
  BY KeepLife DEF regVars, Started, Done, Serving, Registered
<1>4. accepted' = [accepted EXCEPT ![i] = accepted[i] + 1]
  BY <1>0 DEF Enqueue
<1>5. Life!Take(i)
  BY <1>2, <1>3, <1>4 DEF Life!Take, LifeKept, regVars
<1> QED BY <1>5 DEF LStep, Life!LNext

\* Deactivating or unregistering a serving runtime retires it.
LEMMA LossRetires ==
    ASSUME BaseInv, BaseInv', ZombieInv, NEW i \in Insts, UNCHANGED <<sidOf, accepted>>,
           ~Serving(i)',
           \A j \in Insts : tpc'[j] = tpc[j] \/ (~Done(j) /\ ~Done(j)'),
           \A j \in Insts \ {i} : Serving(j)' <=> Serving(j)
    PROVE  LStep
<1> USE ConstantsAssumption DEF BaseInv, TypeInv
<1>1. \A j \in Insts : /\ (Started(j)' <=> Started(j))
                       /\ (tpc'[j] = "done" <=> tpc[j] = "done")
  BY DEF Started, Done
<1>2. \A j \in Insts \ {i} : LifeKept(j)
  BY <1>1, KeepLife
<1>3. CASE Serving(i)
  <2>1. ~Done(i)
    BY <1>3 DEF ZombieInv, ServingInLoop, InLoop, Done
  <2>2. LifeOf(i) = "serving"
    BY <1>3, <2>1, LifeCases
  <2>3. ~Done(i)'
    BY <1>1, <2>1 DEF Done, Started
  <2>4. LifeOf(i)' = "retired"
    BY <2>3 DEF LifeOf
  <2>5. Life!Retire(i)
    BY <1>2, <2>2, <2>4, OneLife DEF Life!Retire
  <2> QED BY <2>5 DEF LStep, Life!LNext
<1>4. CASE ~Serving(i)
  <2>1. LifeKept(i)
    BY <1>1, <1>4, KeepLife
  <2> QED BY <1>2, <2>1, AllLivesKept DEF LStep
<1> QED BY <1>3, <1>4

\* The task of a retired runtime ends.
LEMMA TaskEnds ==
    ASSUME BaseInv, BaseInv', NEW i \in Insts, ~Done(i), ~Serving(i),
           tpc' = [tpc EXCEPT ![i] = "done"],
           UNCHANGED <<sessions, sidOf, active, accepted>>
    PROVE  LStep
<1> USE ConstantsAssumption DEF BaseInv, TypeInv
<1>1. tpc'[i] = "done" /\ \A j \in Insts \ {i} : tpc'[j] = tpc[j]
  BY DEF TypeOK
<1>2. \A j \in Insts \ {i} : LifeKept(j)
  BY <1>1, KeepLife DEF Started, Done, Serving, Registered
<1>3. LifeOf(i) = "retired"
  BY LifeCases
<1>4. LifeOf(i)' = "over"
  BY <1>1 DEF LifeOf, Done
<1>5. Life!End(i)
  BY <1>2, <1>3, <1>4, OneLife DEF Life!End
<1> QED BY <1>5 DEF LStep, Life!LNext

\* Every step of the manager is a step of one life, or a stutter.
LEMMA ImplementsStep ==
    ASSUME BaseInv, BaseInv', ZombieInv, "shutdown" \notin Ops, [Next]_vars
    PROVE  LStep
<1> USE ConstantsAssumption DEF BaseInv, TypeInv
\* No phase changes.
<1>0. ASSUME UNCHANGED <<sessions, sidOf, active, accepted>>,
             \A j \in Insts : tpc'[j] = tpc[j] \/ (~Done(j) /\ ~Done(j)')
      PROVE  LStep
  <2>1. \A j \in Insts : LifeKept(j)
    BY <1>0, KeepLife DEF Started, Done, Serving, Registered
  <2> QED BY <1>0, <2>1, AllLivesKept DEF LStep
<1>1. ASSUME NEW c \in Callers, RequestBegin(c) PROVE LStep
  <2>1. ASSUME NEW s \in Sids, DeletePop(c, s) PROVE LStep
    <3>0. /\ sessions' = [sessions EXCEPT ![s] = NoInst]
          /\ UNCHANGED <<sidOf, active, accepted, tpc>>
      BY <2>1 DEF DeletePop, rtVars
    <3>1. CASE sessions[s] = NoInst
      <4>1. sessions' = sessions
        BY <3>0, <3>1 DEF TypeOK
      <4> QED BY <1>0, <3>0, <4>1
    <3>2. CASE sessions[s] # NoInst
      <4>0. PICK k \in Insts : k = sessions[s]
        BY <3>2 DEF TypeOK
      <4>1. ~Serving(k)'
        BY <3>0, <4>0 DEF Serving, Registered, TypeOK, RegistryInv
      <4>2. \A j \in Insts \ {k} : Serving(j)' <=> Serving(j)
        BY <3>0, <4>0 DEF Serving, Registered, TypeOK
      <4> QED BY <3>0, <4>1, <4>2, LossRetires
    <3> QED BY <3>1, <3>2
  <2>2. ASSUME NEW s \in Sids, ShutdownSubmit(c, s) PROVE FALSE
    BY <2>2 DEF ShutdownSubmit
  <2> QED BY <1>0, <1>1, <2>1, <2>2
          DEF RequestBegin, CreateBegin, CleanupBegin, EnsureLoad, TouchBegin,
              regVars, rtVars
<1>2. ASSUME NEW c \in Callers, RequestStep(c) PROVE LStep
  <2>0. FrameFact(req[c]) /\ OwnFact(req[c], tpc, owner)
    BY ReservedOwn DEF FrameOK
  <2>1. CASE CreateInsert(c)
    <3>1. /\ req[c].sid \in Sids /\ req[c].inst \in Insts
          /\ ~Started(req[c].inst) /\ owner[req[c].sid] = NoUser
      BY <2>0, <2>1 DEF FrameFact, CreateInsert, OwnFact, Reserving, Creating,
                        Started
    <3>2. sessions[req[c].sid] = NoInst
      BY <3>1 DEF RegistryInv, TypeOK
    <3> QED BY <2>1, <3>1, <3>2, StartBegins DEF CreateInsert, StartRuntime
  <2>2. CASE RestoreInsert(c)
    <3>1. /\ req[c].sid \in Sids /\ req[c].inst \in Insts /\ ~Started(req[c].inst)
      BY <2>0, <2>2 DEF FrameFact, RestoreInsert, OwnFact, Reserving, Started,
                        SidPcs, InstPcs
    <3>2. CASE sessions[req[c].sid] = NoInst
      BY <2>2, <3>1, <3>2, StartBegins DEF RestoreInsert, StartRuntime
    <3>3. CASE sessions[req[c].sid] # NoInst
      BY <1>0, <2>2, <3>3 DEF RestoreInsert, rtVars
    <3> QED BY <3>2, <3>3
  <2>3. CASE CleanupPop(c)
    <3>0. PICK i \in Insts : i = req[c].cand
      BY <2>0, <2>3 DEF CleanupPop, FrameFact
    <3>1. CASE Registered(i) /\ active[i]
      <4>1. /\ active' = [active EXCEPT ![i] = FALSE]
            /\ sessions' = [sessions EXCEPT ![sidOf[i]] = NoInst]
            /\ UNCHANGED <<sidOf, accepted, tpc>>
        BY <2>3, <3>0, <3>1 DEF CleanupPop
      <4>2. ~Serving(i)'
        BY <4>1 DEF Serving, TypeOK
      <4>3. \A j \in Insts \ {i} : Serving(j)' <=> Serving(j)
        BY <3>1, <4>1 DEF Serving, Registered, TypeOK
      <4> QED BY <4>1, <4>2, <4>3, LossRetires
    <3>2. CASE ~(Registered(i) /\ active[i])
      BY <1>0, <2>3, <3>0, <3>2 DEF CleanupPop
    <3> QED BY <3>1, <3>2
  <2> QED BY <1>0, <1>2, <2>1, <2>2, <2>3
          DEF RequestStep, CreateRecheck, SnapshotLands, TouchDone, CleanupCheck,
              CleanupMark, CleanupEnd, ShutdownLock, ShutdownTimeout,
              ShutdownReturn, DeleteStore, DeleteStoreFails, DeleteCancel,
              DeleteReturn, regVars, rtVars
<1>3. ASSUME NEW i \in Insts, TaskStep(i) PROVE LStep
  <2>0. ~Done(i) /\ (Serving(i) => InLoop(i)) /\ UNCHANGED <<sessions, sidOf, accepted>>
    BY <1>3 DEF TaskStep, TaskStart, Dequeue, FinishOp, SaveAfterOp,
                TaskCancelled, FinCleanup, FinLock, FinMark, Done, regVars,
                ZombieInv, ServingInLoop
  <2>1. ASSUME NEW p \in TaskPcs \ {"none", "done"}, TaskGoto(i, p),
               UNCHANGED active
        PROVE  LStep
    <3>1. \A j \in Insts : tpc'[j] = tpc[j] \/ (~Done(j) /\ ~Done(j)')
      BY <2>0, <2>1 DEF TaskGoto, Done, TypeOK
    <3> QED BY <1>0, <2>0, <2>1, <3>1
  <2>2. ASSUME TaskGoto(i, "done"), UNCHANGED active, ~Serving(i)
        PROVE  LStep
    BY <2>0, <2>2, TaskEnds DEF TaskGoto
  <2>3. CASE TaskStart(i)
    <3>1. CASE sessions[sidOf[i]] = NoInst
      BY <2>2, <2>3, <3>1 DEF TaskStart, Serving, Registered
    <3>2. CASE sessions[sidOf[i]] # NoInst
      BY <2>1, <2>3, <3>2 DEF TaskStart, TaskPcs
    <3> QED BY <3>1, <3>2
  <2>4. CASE Dequeue(i) \/ FinishOp(i) \/ FinCleanup(i)
    BY <2>1, <2>4 DEF Dequeue, FinishOp, FinCleanup, TaskPcs
  <2>5. CASE SaveAfterOp(i)
    BY <2>1, <2>5 DEF SaveAfterOp, TaskPcs
  <2>6. CASE TaskCancelled(i)
    <3>1. ~Serving(i) /\ UNCHANGED active
      BY <2>0, <2>6 DEF TaskCancelled, InLoop
    <3>2. CASE UNCHANGED tpc
      BY <1>0, <2>0, <3>1, <3>2
    <3> QED BY <2>1, <2>2, <2>6, <3>1, <3>2 DEF TaskCancelled, TaskPcs
  <2>7. CASE FinLock(i)
    <3>0. ~Serving(i)
      BY <2>0, <2>7 DEF FinLock, InLoop
    <3>1. CASE sessions[sidOf[i]] = NoInst
      BY <2>2, <2>7, <3>0, <3>1 DEF FinLock
    <3>2. CASE sessions[sidOf[i]] # NoInst
      <4>0. PICK k \in Insts : k = sessions[sidOf[i]]
        BY <2>0, <3>2 DEF TypeOK, RegistryInv, Started, Done
      <4>1. /\ active' = [active EXCEPT ![k] = FALSE]
            /\ tpc' = [tpc EXCEPT ![i] = "marking"]
        BY <2>7, <3>2, <4>0 DEF FinLock, TaskGoto
      <4>2. ~Serving(k)'
        BY <4>1 DEF Serving, TypeOK
      <4>3. \A j \in Insts \ {k} : Serving(j)' <=> Serving(j)
        BY <2>0, <4>1 DEF Serving, Registered, TypeOK
      <4>4. \A j \in Insts : tpc'[j] = tpc[j] \/ (~Done(j) /\ ~Done(j)')
        BY <2>0, <4>1 DEF Done, TypeOK
      <4> QED BY <2>0, <4>2, <4>3, <4>4, LossRetires
    <3> QED BY <3>1, <3>2
  <2>8. CASE FinMark(i)
    <3>0. ~Serving(i)
      BY <2>0, <2>8 DEF FinMark, InLoop
    <3> QED BY <2>2, <2>8, <3>0 DEF FinMark
  <2> QED BY <1>3, <2>3, <2>4, <2>5, <2>6, <2>7, <2>8 DEF TaskStep
<1>4. ASSUME NEW s \in Sids, Submit(s) PROVE LStep
  BY <1>4, EnqueueTakes DEF Submit
<1>5. ASSUME NEW s \in Sids, Interrupt(s) PROVE LStep
  BY <1>0, <1>5 DEF Interrupt, regVars
<1>6. CASE UNCHANGED vars
  BY <1>0, <1>6 DEF vars, regVars, rtVars
<1> QED BY <1>1, <1>2, <1>3, <1>4, <1>5, <1>6 DEF Next

(* Without shutdown_session, every step of the coroutines of               *)
(* session_manager.py is a step in the life of one runtime, or of none: an *)
(* id is served by one runtime at a time, submissions are taken only by a  *)
(* serving one, and a task is over only after its runtime was retired.     *)
THEOREM ImplementsLifeWithoutShutdown ==
    ASSUME "shutdown" \notin Ops
    PROVE  Spec => ImplementsLife
<1> USE ConstantsAssumption
<1>1. Init => Life!LInit
  BY DEF Init, Life!LInit, LifeOf, Done
<1>2. Init => ZombieInv
  BY DEF Init, ZombieInv, OnlyInputs, PoppedFirst, ServingInLoop, Popped,
         Serving, IdleReq, ShutPcs
<1>3. BaseInv /\ ZombieInv /\ [Next]_vars => ZombieInv'
  BY OnlyInputsStep, PoppedStep, ServingStep DEF ZombieInv, BaseInv, TypeInv
<1>4. BaseInv /\ BaseInv' /\ ZombieInv /\ [Next]_vars => [Life!LNext]_(Life!lvars)
  BY ImplementsStep DEF LStep
<1> QED BY <1>1, <1>2, <1>3, <1>4, BaseInvariance, PTL
        DEF Spec, ImplementsLife, Life!LSafe
==============================================================================
