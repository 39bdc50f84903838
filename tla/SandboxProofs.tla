--------------------------- MODULE SandboxProofs ---------------------------
(***************************************************************************)
(* Proofs about the sandbox of a session: what the session holds is up,    *)
(* nothing is registered over it, and every Space on the Hub has an owner  *)
(* or an excuse. They hold for every number of Spaces, tool calls and      *)
(* restarts.                                                               *)
(*                                                                         *)
(* None of the three is inductive. A coroutine that makes a sandbox owns a *)
(* Space nobody else has, holds the lock of the session's owner from its   *)
(* second look at session.sandbox to the registration, and a teardown      *)
(* takes only what was registered: with that the invariant follows every   *)
(* Space from its thread to the session, to a teardown or to an excuse.    *)
(***************************************************************************)
EXTENDS Sandbox, TLAPS

\* A coroutine that makes a sandbox has a Space of its own, and from the lock on nobody
\* registers another.
MakersInv ==
    /\ \A m \in Makers : job[m] = NoSpace <=> ~Busy(m)
    /\ \A m \in Makers : at[m] \in {"make", "delete", "record"} <=> lock = m
    /\ \A m, n \in Makers : job[m] = job[n] /\ Busy(m) => m = n
    /\ \A m \in Makers :
           /\ at[m] = "lock" => thread[job[m]] = "none"
           /\ at[m] = "make" => thread[job[m]] \notin {"none", "over"}
           /\ at[m] \in {"delete", "record"} => thread[job[m]] = "made"
           /\ at[m] \in {"make", "delete"} => sandbox = NoSpace
           /\ at[m] = "record" => sandbox \in {NoSpace, job[m]}

\* A Space that was registered is not made any more.
Settled(s) ==
    /\ thread[s] \in {"made", "over"}
    /\ \A m \in Makers : job[m] = s => at[m] = "record"

SpacesInv ==
    /\ \A s \in Spaces : thread[s] \in {"none", "copy"} => hub[s] = "none"
    /\ \A s \in Spaces : thread[s] = "failed" /\ hub[s] = "up" => s \in excused
    /\ \A m \in Makers : at[m] = "make" /\ thread[job[m]] \in {"setup", "api", "made"} =>
           hub[job[m]] = "up"
    /\ sandbox # NoSpace => Settled(sandbox) /\ hub[sandbox] = "up"
    /\ \A x \in Teardowns : held[x] # NoSpace => Settled(held[x]) /\ held[x] # sandbox
    /\ record # NoSpace => thread[record] \in {"made", "over"}

\* How the tool call and the end of the session go with their teardowns.
CallersInv ==
    /\ \A x \in Teardowns : held[x] # NoSpace <=> td[x] \in {"deleting", "clearing"}
    /\ tool \notin {"tearing", "aborting"} => td["tool"] = "idle"
    /\ Busy("tool") => tool = "making"
    /\ exit \notin {"teardown", "finally"} => td["exit"] = "idle"
    /\ exit = "down" => sandbox = NoSpace /\ tool = "idle" /\ \A m \in Makers : ~Busy(m)

\* Whose a Space on the Hub is.
Owned(s) ==
    \/ s \in excused
    \/ s = sandbox
    \/ s = record /\ exit = "down"
    \/ \E x \in Teardowns : held[x] = s
    \/ \E m \in Makers : Busy(m) /\ job[m] = s
    \/ thread[s] \in {"copy", "setup", "api"}

OwnersInv ==
    /\ \A s \in Spaces : hub[s] = "up" => Owned(s)
    /\ sandbox # NoSpace => \/ record = sandbox \/ sandbox \in excused
                            \/ \E m \in Makers : at[m] = "record" /\ job[m] = sandbox
    /\ \A m \in Makers : at[m] = "record" /\ hub[job[m]] = "up" =>
           job[m] = sandbox \/ job[m] \in excused \/ \E x \in Teardowns : held[x] = job[m]
    /\ \A x \in Teardowns : td[x] = "clearing" /\ hub[held[x]] = "up" => held[x] \in excused

SandboxInv == SandboxTypeOK /\ MakersInv /\ SpacesInv /\ CallersInv /\ OwnersInv

-----------------------------------------------------------------------------
\* Nothing was made.
LEMMA SandboxStarts == SandboxInit => SandboxInv
  BY SandboxAssumption DEF SandboxInit, SandboxInv, SandboxTypeOK, Hardware, Makers, Teardowns,
     MakersInv, SpacesInv, CallersInv, OwnersInv, Busy, Owned, Settled

-----------------------------------------------------------------------------
(***************************************************************************)
(* The makers: _ensure_sandbox in the preload task and in a tool call.     *)
(***************************************************************************)
\* A maker that begins takes one of the Spaces.
LEMMA ReserveTypes ==
    ASSUME SandboxTypeOK, NEW m \in Makers, NEW h \in Hardware, Reserve(m, h)
    PROVE  /\ hw' \in [Spaces -> Hardware] /\ flag' \in [Spaces -> BOOLEAN]
           /\ at' \in [Makers -> {"none", "lock", "make", "delete", "record", "done"}]
           /\ job' \in [Makers -> Spaces \cup {NoSpace}]
<1> DEFINE s == CHOOSE t \in Fresh : TRUE
<1>1. s \in Spaces
  BY DEF Reserve, Fresh
<1>2. /\ hw' = [hw EXCEPT ![s] = h] /\ flag' = [flag EXCEPT ![s] = FALSE]
      /\ at' = [at EXCEPT ![m] = "lock"] /\ job' = [job EXCEPT ![m] = s]
  BY DEF Reserve
<1> HIDE DEF s
<1> QED  BY <1>1, <1>2 DEF SandboxTypeOK

\* The preload takes a Space nobody has.
LEMMA StartPreloadKeeps ==
    ASSUME SandboxInv, StartPreload
    PROVE  SandboxInv'
<1> USE SandboxAssumption DEF SandboxInv
<1>1. SandboxTypeOK'
  BY DEF StartPreload, Reserve, toolVars, tdVars, SandboxTypeOK, Fresh, Hardware
<1>2. MakersInv'
  BY DEF StartPreload, Reserve, toolVars, MakersInv, SandboxTypeOK, Makers, Busy, Fresh, Teardowns,
     Hardware
<1>3. SpacesInv'
  BY DEF StartPreload, Reserve, toolVars, tdVars, SpacesInv, Makers, Fresh, Teardowns, Settled
<1>4. CallersInv'
  BY DEF StartPreload, Reserve, toolVars, tdVars, CallersInv, Makers, Busy, Fresh, Teardowns
<1>5. OwnersInv'
  BY DEF StartPreload, Reserve, toolVars, tdVars, OwnersInv, Makers, Fresh, Teardowns, Owned, Busy
<1> QED  BY <1>1, <1>2, <1>3, <1>4, <1>5

\* A maker that finds a sandbox never started a thread.
LEMMA FindExistingKeeps ==
    ASSUME SandboxInv, NEW m \in Makers, FindExisting(m)
    PROVE  SandboxInv'
<1> USE SandboxAssumption DEF SandboxInv
<1>1. SandboxTypeOK'
  BY DEF FindExisting, Through, tdVars, SandboxTypeOK, Hardware
<1>2. MakersInv'
  BY DEF FindExisting, Through, MakersInv, SandboxTypeOK, Makers, Busy, Teardowns, Hardware
<1>3. SpacesInv'
  BY DEF FindExisting, Through, tdVars, SpacesInv, SandboxTypeOK, MakersInv, Makers, Busy,
     Teardowns, Hardware, Settled
<1>4. CallersInv'
  BY DEF FindExisting, Through, tdVars, CallersInv, SandboxTypeOK, Makers, Busy, Teardowns,
     Hardware
<1>5. OwnersInv'
  BY DEF FindExisting, Through, tdVars, OwnersInv, SandboxTypeOK, MakersInv, SpacesInv, Makers,
     Busy, Teardowns, Hardware, Settled, Owned
<1> QED  BY <1>1, <1>2, <1>3, <1>4, <1>5

\* Under the lock no sandbox is registered, and none will be by another.
LEMMA StartThreadKeeps ==
    ASSUME SandboxInv, NEW m \in Makers, StartThread(m)
    PROVE  SandboxInv'
<1> USE SandboxAssumption DEF SandboxInv
<1>1. SandboxTypeOK'
  BY DEF StartThread, NobodyMadeIt, toolVars, tdVars, SandboxTypeOK, Hardware
<1>2. MakersInv'
  BY DEF StartThread, NobodyMadeIt, toolVars, MakersInv, SandboxTypeOK, Makers, Busy, Teardowns,
     Hardware
<1>3. SpacesInv'
  BY DEF StartThread, NobodyMadeIt, toolVars, tdVars, SpacesInv, SandboxTypeOK, MakersInv, Makers,
     Busy, Teardowns, Hardware, Settled
<1>4. CallersInv'
  BY DEF StartThread, NobodyMadeIt, toolVars, tdVars, CallersInv, Makers, Busy, Teardowns
<1>5. OwnersInv'
  BY DEF StartThread, NobodyMadeIt, toolVars, tdVars, OwnersInv, Makers, Teardowns, Owned, Busy
<1> QED  BY <1>1, <1>2, <1>3, <1>4, <1>5

\* What is registered was made by this maker, and is up.
LEMMA RegisterKeeps ==
    ASSUME SandboxInv, NEW m \in Makers, Register(m)
    PROVE  SandboxInv'
<1> USE SandboxAssumption DEF SandboxInv
<1>1. SandboxTypeOK'
  BY DEF Register, NotCancelled, hubVars, toolVars, tdVars, SandboxTypeOK, Hardware
<1>2. MakersInv'
  BY DEF Register, NotCancelled, hubVars, toolVars, MakersInv, SandboxTypeOK, Makers, Busy,
     Teardowns, Hardware
<1>3. SpacesInv'
  BY DEF Register, NotCancelled, hubVars, toolVars, tdVars, SpacesInv, SandboxTypeOK, MakersInv,
     Makers, Busy, Teardowns, Hardware, Settled
<1>4. CallersInv'
  BY DEF Register, NotCancelled, hubVars, toolVars, tdVars, CallersInv, Makers, Busy, Teardowns
<1>5. OwnersInv'
  BY DEF Register, NotCancelled, hubVars, toolVars, tdVars, OwnersInv, SandboxTypeOK, MakersInv,
     Makers, Busy, Teardowns, Hardware, Owned
<1> QED  BY <1>1, <1>2, <1>3, <1>4, <1>5

\* Where the write fails the sandbox is excused.
LEMMA RecordItKeeps ==
    ASSUME SandboxInv, NEW m \in Makers, RecordIt(m)
    PROVE  SandboxInv'
<1> USE SandboxAssumption DEF SandboxInv
<1>1. SandboxTypeOK'
  BY DEF RecordIt, Through, tdVars, SandboxTypeOK, Hardware
<1>2. MakersInv'
  BY DEF RecordIt, Through, MakersInv, SandboxTypeOK, Makers, Busy, Teardowns, Hardware
<1>3. SpacesInv'
  BY DEF RecordIt, Through, tdVars, SpacesInv, SandboxTypeOK, MakersInv, Makers, Busy, Teardowns,
     Hardware, Settled
<1>4. CallersInv'
  BY DEF RecordIt, Through, tdVars, CallersInv, SandboxTypeOK, Makers, Busy, Teardowns, Hardware
<1>5. OwnersInv'
  BY DEF RecordIt, Through, tdVars, OwnersInv, SandboxTypeOK, MakersInv, CallersInv, Makers, Busy,
     Teardowns, Hardware, Owned
<1> QED  BY <1>1, <1>2, <1>3, <1>4, <1>5

\* A maker that is cancelled goes on to delete what it made.
LEMMA DropCancelledKeeps ==
    ASSUME SandboxInv, NEW m \in Makers, DropCancelled(m)
    PROVE  SandboxInv'
<1> USE SandboxAssumption DEF SandboxInv
<1>1. SandboxTypeOK'
  BY DEF DropCancelled, hubVars, toolVars, tdVars, SandboxTypeOK, Hardware
<1>2. MakersInv'
  BY DEF DropCancelled, hubVars, toolVars, MakersInv, Makers, Busy
<1>3. SpacesInv'
  BY DEF DropCancelled, hubVars, toolVars, tdVars, SpacesInv, Makers, Teardowns, Settled
<1>4. CallersInv'
  BY DEF DropCancelled, hubVars, toolVars, tdVars, CallersInv, Makers, Busy, Teardowns
<1>5. OwnersInv'
  BY DEF DropCancelled, hubVars, toolVars, tdVars, OwnersInv, Makers, Teardowns, Owned, Busy
<1> QED  BY <1>1, <1>2, <1>3, <1>4, <1>5

\* What is not deleted is excused.
LEMMA DeleteCancelledKeeps ==
    ASSUME SandboxInv, NEW m \in Makers, DeleteCancelled(m)
    PROVE  SandboxInv'
<1> USE SandboxAssumption DEF SandboxInv
<1>1. SandboxTypeOK'
  BY DEF DeleteCancelled, Through, DeleteSpace, tdVars, SandboxTypeOK, Hardware
<1>2. MakersInv'
  BY DEF DeleteCancelled, Through, DeleteSpace, MakersInv, SandboxTypeOK, Makers, Busy, Teardowns,
     Hardware
<1>3. SpacesInv'
  BY DEF DeleteCancelled, Through, DeleteSpace, tdVars, SpacesInv, SandboxTypeOK, MakersInv,
     Makers, Busy, Teardowns, Hardware, Settled
<1>4. CallersInv'
  BY DEF DeleteCancelled, Through, DeleteSpace, tdVars, CallersInv, SandboxTypeOK, Makers, Busy,
     Teardowns, Hardware
<1>5. OwnersInv'
  BY DEF DeleteCancelled, Through, DeleteSpace, tdVars, OwnersInv, SandboxTypeOK, MakersInv,
     CallersInv, Makers, Busy, Teardowns, Hardware, Owned
<1> QED  BY <1>1, <1>2, <1>3, <1>4, <1>5

\* A failed thread has left nothing, or what it left is excused.
LEMMA MakeFailsKeeps ==
    ASSUME SandboxInv, NEW m \in Makers, MakeFails(m)
    PROVE  SandboxInv'
<1> USE SandboxAssumption DEF SandboxInv
<1>1. SandboxTypeOK'
  BY DEF MakeFails, Through, tdVars, SandboxTypeOK, Hardware
<1>2. MakersInv'
  BY DEF MakeFails, Through, MakersInv, SandboxTypeOK, Makers, Busy, Teardowns, Hardware
<1>3. SpacesInv'
  BY DEF MakeFails, Through, tdVars, SpacesInv, SandboxTypeOK, MakersInv, Makers, Busy, Teardowns,
     Hardware, Settled
<1>4. CallersInv'
  BY DEF MakeFails, Through, tdVars, CallersInv, SandboxTypeOK, Makers, Busy, Teardowns, Hardware
<1>5. OwnersInv'
  BY DEF MakeFails, Through, tdVars, OwnersInv, SandboxTypeOK, MakersInv, SpacesInv, Makers, Busy,
     Teardowns, Hardware, Settled, Owned
<1> QED  BY <1>1, <1>2, <1>3, <1>4, <1>5

-----------------------------------------------------------------------------
(***************************************************************************)
(* The threads that run Sandbox.create.                                    *)
(***************************************************************************)
\* The Space of a thread comes up; its maker may have gone meanwhile.
LEMMA ThreadCopiesKeeps ==
    ASSUME SandboxInv, NEW s \in Spaces, ThreadCopies(s)
    PROVE  SandboxInv'
<1> USE SandboxAssumption DEF SandboxInv
<1>1. SandboxTypeOK'
  BY DEF ThreadCopies, Ends, Threads, makerVars, toolVars, tdVars, SandboxTypeOK, Hardware
<1>2. MakersInv'
  BY DEF ThreadCopies, Ends, Threads, makerVars, toolVars, MakersInv, SandboxTypeOK, Makers, Busy,
     Awaited, Teardowns, Hardware
<1>3. SpacesInv'
  BY DEF ThreadCopies, Ends, Threads, makerVars, toolVars, tdVars, SpacesInv, SandboxTypeOK,
     MakersInv, Makers, Busy, Awaited, Teardowns, Hardware, Settled
<1>4. CallersInv'
  BY DEF ThreadCopies, Ends, Threads, makerVars, toolVars, tdVars, CallersInv, Makers, Busy,
     Awaited, Teardowns
<1>5. OwnersInv'
  BY DEF ThreadCopies, Ends, Threads, makerVars, toolVars, tdVars, OwnersInv, SandboxTypeOK,
     MakersInv, SpacesInv, CallersInv, Makers, Busy, Awaited, Teardowns, Hardware, Settled, Owned
<1> QED  BY <1>1, <1>2, <1>3, <1>4, <1>5

\* A thread that fails leaves its Space, excused.
LEMMA ThreadSetsUpKeeps ==
    ASSUME SandboxInv, NEW s \in Spaces, ThreadSetsUp(s)
    PROVE  SandboxInv'
<1> USE SandboxAssumption DEF SandboxInv
<1>1. SandboxTypeOK'
  BY DEF ThreadSetsUp, Ends, Threads, makerVars, toolVars, tdVars, SandboxTypeOK, Hardware
<1>2. MakersInv'
  BY DEF ThreadSetsUp, Ends, Threads, makerVars, toolVars, MakersInv, SandboxTypeOK, Makers, Busy,
     Awaited, Teardowns, Hardware
<1>3. SpacesInv'
  BY DEF ThreadSetsUp, Ends, Threads, makerVars, toolVars, tdVars, SpacesInv, SandboxTypeOK,
     MakersInv, Makers, Busy, Awaited, Teardowns, Hardware, Settled
<1>4. CallersInv'
  BY DEF ThreadSetsUp, Ends, Threads, makerVars, toolVars, tdVars, CallersInv, Makers, Busy,
     Awaited, Teardowns
<1>5. OwnersInv'
  BY DEF ThreadSetsUp, Ends, Threads, makerVars, toolVars, tdVars, OwnersInv, SandboxTypeOK,
     Makers, Awaited, Teardowns, Hardware, Owned, Busy
<1> QED  BY <1>1, <1>2, <1>3, <1>4, <1>5

\* A thread that is told to stop deletes its Space, or it is excused.
LEMMA ThreadCancelsKeeps ==
    ASSUME SandboxInv, NEW s \in Spaces, ThreadCancels(s)
    PROVE  SandboxInv'
<1> USE SandboxAssumption DEF SandboxInv
<1>1. SandboxTypeOK'
  BY DEF ThreadCancels, Ends, Threads, DeleteSpace, makerVars, toolVars, tdVars, SandboxTypeOK,
     Hardware
<1>2. MakersInv'
  BY DEF ThreadCancels, Ends, Threads, DeleteSpace, makerVars, toolVars, MakersInv, Makers, Busy,
     Awaited
<1>3. SpacesInv'
  BY DEF ThreadCancels, Ends, Threads, DeleteSpace, makerVars, toolVars, tdVars, SpacesInv,
     SandboxTypeOK, MakersInv, Makers, Busy, Awaited, Teardowns, Hardware, Settled
<1>4. CallersInv'
  BY DEF ThreadCancels, Ends, Threads, DeleteSpace, makerVars, toolVars, tdVars, CallersInv,
     Makers, Busy, Awaited, Teardowns
<1>5. OwnersInv'
  BY DEF ThreadCancels, Ends, Threads, DeleteSpace, makerVars, toolVars, tdVars, OwnersInv,
     SandboxTypeOK, MakersInv, SpacesInv, CallersInv, Makers, Busy, Awaited, Teardowns, Hardware,
     Settled, Owned
<1> QED  BY <1>1, <1>2, <1>3, <1>4, <1>5

\* A thread nobody waits for leaves its Space, excused.
LEMMA ThreadReturnsKeeps ==
    ASSUME SandboxInv, NEW s \in Spaces, ThreadReturns(s)
    PROVE  SandboxInv'
<1> USE SandboxAssumption DEF SandboxInv
<1>1. SandboxTypeOK'
  BY DEF ThreadReturns, Ends, Threads, makerVars, toolVars, tdVars, SandboxTypeOK, Hardware
<1>2. MakersInv'
  BY DEF ThreadReturns, Ends, Threads, makerVars, toolVars, MakersInv, Makers, Busy, Awaited
<1>3. SpacesInv'
  BY DEF ThreadReturns, Ends, Threads, makerVars, toolVars, tdVars, SpacesInv, Makers, Awaited,
     Teardowns, Settled
<1>4. CallersInv'
  BY DEF ThreadReturns, Ends, Threads, makerVars, toolVars, tdVars, CallersInv, Makers, Busy,
     Awaited, Teardowns
<1>5. OwnersInv'
  BY DEF ThreadReturns, Ends, Threads, makerVars, toolVars, tdVars, OwnersInv, Makers, Awaited,
     Teardowns, Owned, Busy
<1> QED  BY <1>1, <1>2, <1>3, <1>4, <1>5

-----------------------------------------------------------------------------
(***************************************************************************)
(* The teardowns.                                                          *)
(***************************************************************************)
\* What a teardown takes is nobody else's: the preload that might register again is over.
LEMMA TeardownTakesKeeps ==
    ASSUME SandboxInv, NEW x \in Teardowns, TeardownTakes(x)
    PROVE  SandboxInv'
<1> USE SandboxAssumption DEF SandboxInv
<1>1. SandboxTypeOK'
  BY DEF TeardownTakes, PreloadAwaited, MakerCancelled, DeleteSpace, toolVars, SandboxTypeOK,
     Hardware
<1>2. MakersInv'
  BY DEF TeardownTakes, PreloadAwaited, MakerCancelled, DeleteSpace, toolVars, MakersInv,
     SandboxTypeOK, Makers, Busy, Teardowns, Hardware
<1>3. SpacesInv'
  BY DEF TeardownTakes, PreloadAwaited, MakerCancelled, DeleteSpace, toolVars, SpacesInv,
     SandboxTypeOK, MakersInv, Makers, Busy, Teardowns, Hardware, Settled
<1>4. CallersInv'
  BY DEF TeardownTakes, PreloadAwaited, MakerCancelled, DeleteSpace, toolVars, CallersInv,
     SandboxTypeOK, Makers, Busy, Teardowns, Hardware
<1>5. OwnersInv'
  BY DEF TeardownTakes, PreloadAwaited, MakerCancelled, DeleteSpace, toolVars, OwnersInv,
     SandboxTypeOK, MakersInv, SpacesInv, CallersInv, Makers, Busy, Teardowns, Hardware, Settled,
     Owned
<1> QED  BY <1>1, <1>2, <1>3, <1>4, <1>5

\* What is not deleted is excused.
LEMMA TeardownDeletesKeeps ==
    ASSUME SandboxInv, NEW x \in Teardowns, TeardownDeletes(x)
    PROVE  SandboxInv'
<1> USE SandboxAssumption DEF SandboxInv
<1>1. SandboxTypeOK'
  BY DEF TeardownDeletes, DeleteSpace, makerVars, toolVars, SandboxTypeOK, Hardware
<1>2. MakersInv'
  BY DEF TeardownDeletes, DeleteSpace, makerVars, toolVars, MakersInv, Makers, Busy
<1>3. SpacesInv'
  BY DEF TeardownDeletes, DeleteSpace, makerVars, toolVars, SpacesInv, SandboxTypeOK, MakersInv,
     Makers, Busy, Teardowns, Hardware, Settled
<1>4. CallersInv'
  BY DEF TeardownDeletes, DeleteSpace, makerVars, toolVars, CallersInv, Makers, Busy, Teardowns
<1>5. OwnersInv'
  BY DEF TeardownDeletes, DeleteSpace, makerVars, toolVars, OwnersInv, SandboxTypeOK, MakersInv,
     SpacesInv, CallersInv, Makers, Busy, Teardowns, Hardware, Settled, Owned
<1> QED  BY <1>1, <1>2, <1>3, <1>4, <1>5

\* The record of a successor that is cleared excuses it.
LEMMA TeardownClearsKeeps ==
    ASSUME SandboxInv, NEW x \in Teardowns, TeardownClears(x)
    PROVE  SandboxInv'
<1> USE SandboxAssumption DEF SandboxInv
<1>1. SandboxTypeOK'
  BY DEF TeardownClears, makerVars, toolVars, SandboxTypeOK, Hardware
<1>2. MakersInv'
  BY DEF TeardownClears, makerVars, toolVars, MakersInv, Makers, Busy
<1>3. SpacesInv'
  BY DEF TeardownClears, makerVars, toolVars, SpacesInv, Makers, Teardowns, Settled
<1>4. CallersInv'
  BY DEF TeardownClears, makerVars, toolVars, CallersInv, SandboxTypeOK, Makers, Busy, Teardowns,
     Hardware
<1>5. OwnersInv'
  BY DEF TeardownClears, makerVars, toolVars, OwnersInv, SandboxTypeOK, MakersInv, SpacesInv,
     Makers, Busy, Teardowns, Hardware, Settled, Owned
<1> QED  BY <1>1, <1>2, <1>3, <1>4, <1>5

\* A teardown begins with the cancel event of the preload only.
LEMMA RouteTeardownKeeps ==
    ASSUME SandboxInv, RouteTeardown
    PROVE  SandboxInv'
<1> USE SandboxAssumption DEF SandboxInv
<1>1. SandboxTypeOK'
  BY DEF RouteTeardown, TeardownBegins, CancelPreload, makerVars, toolVars, SandboxTypeOK, Hardware
<1>2. MakersInv'
  BY DEF RouteTeardown, TeardownBegins, CancelPreload, makerVars, toolVars, MakersInv, Makers, Busy
<1>3. SpacesInv'
  BY DEF RouteTeardown, TeardownBegins, CancelPreload, makerVars, toolVars, SpacesInv, Makers,
     Teardowns, Settled
<1>4. CallersInv'
  BY DEF RouteTeardown, TeardownBegins, CancelPreload, makerVars, toolVars, CallersInv, Makers,
     Busy, Teardowns
<1>5. OwnersInv'
  BY DEF RouteTeardown, TeardownBegins, CancelPreload, makerVars, toolVars, OwnersInv, Makers,
     Teardowns, Owned, Busy
<1> QED  BY <1>1, <1>2, <1>3, <1>4, <1>5

-----------------------------------------------------------------------------
(***************************************************************************)
(* Tool calls.                                                             *)
(***************************************************************************)
\* A tool waits for the preload.
LEMMA UseSandboxKeeps ==
    ASSUME SandboxInv, UseSandbox
    PROVE  SandboxInv'
<1> USE SandboxAssumption DEF SandboxInv
<1>1. SandboxTypeOK'
  BY DEF UseSandbox, ToolCalled, Agent, hubVars, makerVars, tdVars, SandboxTypeOK, Fresh, Hardware
<1>2. MakersInv'
  BY DEF UseSandbox, ToolCalled, Agent, hubVars, makerVars, MakersInv, Makers, Busy, Fresh
<1>3. SpacesInv'
  BY DEF UseSandbox, ToolCalled, Agent, hubVars, makerVars, tdVars, SpacesInv, Makers, Busy, Fresh,
     Teardowns, Settled
<1>4. CallersInv'
  BY DEF UseSandbox, ToolCalled, Agent, hubVars, makerVars, tdVars, CallersInv, Makers, Busy,
     Fresh, Teardowns
<1>5. OwnersInv'
  BY DEF UseSandbox, ToolCalled, Agent, hubVars, makerVars, tdVars, OwnersInv, Makers, Busy, Fresh,
     Teardowns, Owned
<1> QED  BY <1>1, <1>2, <1>3, <1>4, <1>5

\* The types, whatever a call of sandbox_create finds.
LEMMA CreateSandboxTypes ==
    ASSUME SandboxTypeOK, NEW h \in Hardware, CreateSandbox(h)
    PROVE  SandboxTypeOK'
<1>1. /\ UNCHANGED <<hub, thread, lock, held, sandbox, record, exit>>
      /\ tool' \in {"waiting", "cancelling", "tearing", "making"}
  BY DEF CreateSandbox, ToolCalled, Agent
<1>2. CASE UNCHANGED <<flag, hw, at, job, td>>
  BY <1>1, <1>2 DEF SandboxTypeOK
<1>3. CASE CancelPreload /\ UNCHANGED <<hw, at, job, td>>
  BY <1>1, <1>3 DEF SandboxTypeOK, CancelPreload, Makers
<1>4. CASE TeardownBegins("tool") /\ UNCHANGED <<hw, at, job>>
  BY <1>1, <1>4 DEF SandboxTypeOK, TeardownBegins, CancelPreload, Makers, Teardowns
<1>5. CASE Reserve("tool", h) /\ UNCHANGED td
  <2>1. "tool" \in Makers
    BY DEF Makers
  <2> QED  BY <1>1, <1>5, <2>1, ReserveTypes DEF SandboxTypeOK
<1> QED  BY <1>2, <1>3, <1>4, <1>5 DEF CreateSandbox

\* A tool that creates a sandbox waits, tears down, or takes a Space nobody has.
LEMMA CreateSandboxKeeps ==
    ASSUME SandboxInv, NEW h \in Hardware, CreateSandbox(h)
    PROVE  SandboxInv'
<1> USE SandboxAssumption DEF SandboxInv
<1>1. SandboxTypeOK'
  BY CreateSandboxTypes
<1>2. MakersInv'
  BY DEF CreateSandbox, ToolCalled, Agent, CancelPreload, TeardownBegins, Reserve, MakersInv,
     SandboxTypeOK, CallersInv, Makers, Busy, Fresh, Teardowns, Hardware
<1>3. SpacesInv'
  BY DEF CreateSandbox, ToolCalled, Agent, CancelPreload, TeardownBegins, Reserve, SpacesInv,
     SandboxTypeOK, Makers, Busy, Fresh, Teardowns, Hardware, Settled
<1>4. CallersInv'
  BY DEF CreateSandbox, ToolCalled, Agent, CancelPreload, TeardownBegins, Reserve, CallersInv,
     SandboxTypeOK, Makers, Busy, Fresh, Teardowns, Hardware
<1>5. OwnersInv'
  BY DEF CreateSandbox, ToolCalled, Agent, CancelPreload, TeardownBegins, Reserve, OwnersInv,
     SandboxTypeOK, MakersInv, CallersInv, Makers, Busy, Fresh, Teardowns, Hardware, Owned
<1> QED  BY <1>1, <1>2, <1>3, <1>4, <1>5

\* The preload is over, and the tool call with it.
LEMMA PreloadServesKeeps ==
    ASSUME SandboxInv, PreloadServes
    PROVE  SandboxInv'
<1> USE SandboxAssumption DEF SandboxInv
<1>1. SandboxTypeOK'
  BY DEF PreloadServes, Agent, hubVars, makerVars, tdVars, SandboxTypeOK, Hardware
<1>2. MakersInv'
  BY DEF PreloadServes, Agent, hubVars, makerVars, MakersInv, Makers, Busy
<1>3. SpacesInv'
  BY DEF PreloadServes, Agent, hubVars, makerVars, tdVars, SpacesInv, Makers, Busy, Teardowns,
     Settled
<1>4. CallersInv'
  BY DEF PreloadServes, Agent, hubVars, makerVars, tdVars, CallersInv, Makers, Busy, Teardowns
<1>5. OwnersInv'
  BY DEF PreloadServes, Agent, hubVars, makerVars, tdVars, OwnersInv, Makers, Busy, Teardowns,
     Owned
<1> QED  BY <1>1, <1>2, <1>3, <1>4, <1>5

\* A preload that is cancelled after it made a Space leaves it excused.
LEMMA PreloadCancelledKeeps ==
    ASSUME SandboxInv, PreloadCancelled
    PROVE  SandboxInv'
<1> USE SandboxAssumption DEF SandboxInv
<1>1. SandboxTypeOK'
  BY DEF PreloadCancelled, Agent, PreloadAwaited, MakerCancelled, DeleteSpace, tdVars,
     SandboxTypeOK, Hardware
<1>2. MakersInv'
  BY DEF PreloadCancelled, Agent, PreloadAwaited, MakerCancelled, DeleteSpace, MakersInv,
     SandboxTypeOK, Makers, Busy, Teardowns, Hardware
<1>3. SpacesInv'
  BY DEF PreloadCancelled, Agent, PreloadAwaited, MakerCancelled, DeleteSpace, tdVars, SpacesInv,
     SandboxTypeOK, MakersInv, Makers, Busy, Teardowns, Hardware, Settled
<1>4. CallersInv'
  BY DEF PreloadCancelled, Agent, PreloadAwaited, MakerCancelled, DeleteSpace, tdVars, CallersInv,
     SandboxTypeOK, Makers, Busy, Teardowns, Hardware
<1>5. OwnersInv'
  BY DEF PreloadCancelled, Agent, PreloadAwaited, MakerCancelled, DeleteSpace, tdVars, OwnersInv,
     SandboxTypeOK, MakersInv, SpacesInv, CallersInv, Makers, Busy, Teardowns, Hardware, Settled,
     Owned
<1> QED  BY <1>1, <1>2, <1>3, <1>4, <1>5

\* The types, whatever is left of a preload that was cancelled.
LEMMA ReplaceTypes ==
    ASSUME SandboxTypeOK, Replace
    PROVE  SandboxTypeOK'
<1>1. /\ UNCHANGED <<hub, thread, lock, held, sandbox, record, exit>>
      /\ tool' \in {"tearing", "making"}
  BY DEF Replace, Agent
<1>2. CASE TeardownBegins("tool") /\ UNCHANGED <<hw, at, job>>
  BY <1>1, <1>2 DEF SandboxTypeOK, TeardownBegins, CancelPreload, Makers, Teardowns
<1>3. CASE Reserve("tool", "gpu") /\ UNCHANGED td
  <2>1. "tool" \in Makers /\ "gpu" \in Hardware
    BY DEF Makers, Hardware
  <2> QED  BY <1>1, <1>3, <2>1, ReserveTypes DEF SandboxTypeOK
<1> QED  BY <1>2, <1>3 DEF Replace

\* The tool tears down what it found, or takes a Space nobody has.
LEMMA ReplaceKeeps ==
    ASSUME SandboxInv, Replace
    PROVE  SandboxInv'
<1> USE SandboxAssumption DEF SandboxInv
<1>1. SandboxTypeOK'
  BY ReplaceTypes
<1>2. MakersInv'
  BY DEF Replace, Agent, Reserve, TeardownBegins, CancelPreload, MakersInv, SandboxTypeOK,
     CallersInv, Makers, Busy, Fresh, Teardowns, Hardware
<1>3. SpacesInv'
  BY DEF Replace, Agent, Reserve, TeardownBegins, CancelPreload, SpacesInv, SandboxTypeOK, Makers,
     Fresh, Teardowns, Hardware, Settled
<1>4. CallersInv'
  BY DEF Replace, Agent, Reserve, TeardownBegins, CancelPreload, CallersInv, SandboxTypeOK, Makers,
     Busy, Fresh, Teardowns, Hardware
<1>5. OwnersInv'
  BY DEF Replace, Agent, Reserve, TeardownBegins, CancelPreload, OwnersInv, SandboxTypeOK,
     MakersInv, CallersInv, Makers, Busy, Fresh, Teardowns, Hardware, Owned
<1> QED  BY <1>1, <1>2, <1>3, <1>4, <1>5

\* After its teardown the tool takes a Space nobody has.
LEMMA ReplacedKeeps ==
    ASSUME SandboxInv, Replaced
    PROVE  SandboxInv'
<1> USE SandboxAssumption DEF SandboxInv
<1>1. SandboxTypeOK'
  BY DEF Replaced, Agent, Reserve, tdVars, SandboxTypeOK, Fresh, Hardware
<1>2. MakersInv'
  BY DEF Replaced, Agent, Reserve, MakersInv, SandboxTypeOK, CallersInv, Makers, Busy, Fresh,
     Teardowns, Hardware
<1>3. SpacesInv'
  BY DEF Replaced, Agent, Reserve, tdVars, SpacesInv, SandboxTypeOK, Makers, Fresh, Teardowns,
     Hardware, Settled
<1>4. CallersInv'
  BY DEF Replaced, Agent, Reserve, tdVars, CallersInv, Makers, Busy, Fresh, Teardowns
<1>5. OwnersInv'
  BY DEF Replaced, Agent, Reserve, tdVars, OwnersInv, SandboxTypeOK, MakersInv, CallersInv, Makers,
     Busy, Fresh, Teardowns, Hardware, Owned
<1> QED  BY <1>1, <1>2, <1>3, <1>4, <1>5

\* The teardown of a cancelled tool is over.
LEMMA ToolAbortedKeeps ==
    ASSUME SandboxInv, ToolAborted
    PROVE  SandboxInv'
<1> USE SandboxAssumption DEF SandboxInv
<1>1. SandboxTypeOK'
  BY DEF ToolAborted, Agent, hubVars, makerVars, tdVars, SandboxTypeOK, Hardware
<1>2. MakersInv'
  BY DEF ToolAborted, Agent, hubVars, makerVars, MakersInv, Makers, Busy
<1>3. SpacesInv'
  BY DEF ToolAborted, Agent, hubVars, makerVars, tdVars, SpacesInv, Makers, Teardowns, Settled
<1>4. CallersInv'
  BY DEF ToolAborted, Agent, hubVars, makerVars, tdVars, CallersInv, Makers, Busy, Teardowns
<1>5. OwnersInv'
  BY DEF ToolAborted, Agent, hubVars, makerVars, tdVars, OwnersInv, Makers, Teardowns, Owned, Busy
<1> QED  BY <1>1, <1>2, <1>3, <1>4, <1>5

\* An interrupt sets cancel events only.
LEMMA InterruptKeeps ==
    ASSUME SandboxInv, Interrupt
    PROVE  SandboxInv'
<1> USE SandboxAssumption DEF SandboxInv
<1>1. SandboxTypeOK'
  BY DEF Interrupt, Agent, makerVars, tdVars, SandboxTypeOK, Hardware
<1>2. MakersInv'
  BY DEF Interrupt, Agent, makerVars, MakersInv, Makers, Busy
<1>3. SpacesInv'
  BY DEF Interrupt, Agent, makerVars, tdVars, SpacesInv, Makers, Teardowns, Settled
<1>4. CallersInv'
  BY DEF Interrupt, Agent, makerVars, tdVars, CallersInv, Makers, Busy, Teardowns
<1>5. OwnersInv'
  BY DEF Interrupt, Agent, makerVars, tdVars, OwnersInv, Makers, Teardowns, Owned, Busy
<1> QED  BY <1>1, <1>2, <1>3, <1>4, <1>5

\* A tool that is cancelled while it makes or deletes leaves the Space excused.
LEMMA ToolInterruptedKeeps ==
    ASSUME SandboxInv, ToolInterrupted
    PROVE  SandboxInv'
<1> USE SandboxAssumption DEF SandboxInv
<1>1. SandboxTypeOK'
  BY DEF ToolInterrupted, Agent, CancelTool, DeleteSpace, MakerCancelled, SandboxTypeOK, Makers,
     Busy, Teardowns, Hardware
<1>2. MakersInv'
  BY DEF ToolInterrupted, Agent, CancelTool, DeleteSpace, MakerCancelled, MakersInv, SandboxTypeOK,
     Makers, Busy, Teardowns, Hardware
<1>3. SpacesInv'
  BY DEF ToolInterrupted, Agent, CancelTool, DeleteSpace, MakerCancelled, SpacesInv, SandboxTypeOK,
     MakersInv, Makers, Busy, Teardowns, Hardware, Settled
<1>4. CallersInv'
  BY DEF ToolInterrupted, Agent, CancelTool, DeleteSpace, MakerCancelled, CallersInv,
     SandboxTypeOK, Makers, Busy, Teardowns, Hardware
<1>5. OwnersInv'
  BY DEF ToolInterrupted, Agent, CancelTool, DeleteSpace, MakerCancelled, OwnersInv, SandboxTypeOK,
     MakersInv, SpacesInv, CallersInv, Makers, Busy, Teardowns, Hardware, Settled, Owned
<1> QED  BY <1>1, <1>2, <1>3, <1>4, <1>5

-----------------------------------------------------------------------------
(***************************************************************************)
(* The end of the session, the crash and the restore.                      *)
(***************************************************************************)
\* A deletion begins with a teardown.
LEMMA SessionDeletedKeeps ==
    ASSUME SandboxInv, SessionDeleted
    PROVE  SandboxInv'
<1> USE SandboxAssumption DEF SandboxInv
<1>1. SandboxTypeOK'
  BY DEF SessionDeleted, TeardownBegins, CancelPreload, makerVars, toolVars, SandboxTypeOK,
     Hardware
<1>2. MakersInv'
  BY DEF SessionDeleted, TeardownBegins, CancelPreload, makerVars, toolVars, MakersInv, Makers,
     Busy
<1>3. SpacesInv'
  BY DEF SessionDeleted, TeardownBegins, CancelPreload, makerVars, toolVars, SpacesInv, Makers,
     Teardowns, Settled
<1>4. CallersInv'
  BY DEF SessionDeleted, TeardownBegins, CancelPreload, makerVars, toolVars, CallersInv, Makers,
     Busy, Teardowns
<1>5. OwnersInv'
  BY DEF SessionDeleted, TeardownBegins, CancelPreload, makerVars, toolVars, OwnersInv, Makers,
     Teardowns, Owned, Busy
<1> QED  BY <1>1, <1>2, <1>3, <1>4, <1>5

\* The task is cancelled with the tool it runs.
LEMMA TaskCancelledKeeps ==
    ASSUME SandboxInv, TaskCancelled
    PROVE  SandboxInv'
<1> USE SandboxAssumption DEF SandboxInv
<1>1. SandboxTypeOK'
  BY DEF TaskCancelled, CancelTool, DeleteSpace, MakerCancelled, SandboxTypeOK, Hardware
<1>2. MakersInv'
  BY DEF TaskCancelled, CancelTool, DeleteSpace, MakerCancelled, MakersInv, SandboxTypeOK, Makers,
     Busy, Teardowns, Hardware
<1>3. SpacesInv'
  BY DEF TaskCancelled, CancelTool, DeleteSpace, MakerCancelled, SpacesInv, SandboxTypeOK,
     MakersInv, Makers, Busy, Teardowns, Hardware, Settled
<1>4. CallersInv'
  BY DEF TaskCancelled, CancelTool, DeleteSpace, MakerCancelled, CallersInv, SandboxTypeOK, Makers,
     Busy, Teardowns, Hardware
<1>5. OwnersInv'
  BY DEF TaskCancelled, CancelTool, DeleteSpace, MakerCancelled, OwnersInv, SandboxTypeOK,
     MakersInv, SpacesInv, CallersInv, Makers, Busy, Teardowns, Hardware, Settled, Owned
<1> QED  BY <1>1, <1>2, <1>3, <1>4, <1>5

\* The task tears down again.
LEMMA FinalTeardownKeeps ==
    ASSUME SandboxInv, FinalTeardown
    PROVE  SandboxInv'
<1> USE SandboxAssumption DEF SandboxInv
<1>1. SandboxTypeOK'
  BY DEF FinalTeardown, TeardownBegins, CancelPreload, makerVars, toolVars, SandboxTypeOK, Hardware
<1>2. MakersInv'
  BY DEF FinalTeardown, TeardownBegins, CancelPreload, makerVars, toolVars, MakersInv, Makers, Busy
<1>3. SpacesInv'
  BY DEF FinalTeardown, TeardownBegins, CancelPreload, makerVars, toolVars, SpacesInv, Makers,
     Teardowns, Settled
<1>4. CallersInv'
  BY DEF FinalTeardown, TeardownBegins, CancelPreload, makerVars, toolVars, CallersInv, Makers,
     Busy, Teardowns
<1>5. OwnersInv'
  BY DEF FinalTeardown, TeardownBegins, CancelPreload, makerVars, toolVars, OwnersInv, Makers,
     Teardowns, Owned, Busy
<1> QED  BY <1>1, <1>2, <1>3, <1>4, <1>5

\* Nothing of the session's sandbox changes.
LEMMA SessionOverKeeps ==
    ASSUME SandboxInv, SessionOver
    PROVE  SandboxInv'
<1> USE SandboxAssumption DEF SandboxInv
<1>1. SandboxTypeOK'
  BY DEF SessionOver, hubVars, makerVars, toolVars, tdVars, SandboxTypeOK, Hardware
<1>2. MakersInv'
  BY DEF SessionOver, hubVars, makerVars, toolVars, MakersInv, Makers, Busy
<1>3. SpacesInv'
  BY DEF SessionOver, hubVars, makerVars, toolVars, tdVars, SpacesInv, Makers, Teardowns, Settled
<1>4. CallersInv'
  BY DEF SessionOver, hubVars, makerVars, toolVars, tdVars, CallersInv, Makers, Busy, Teardowns
<1>5. OwnersInv'
  BY DEF SessionOver, hubVars, makerVars, toolVars, tdVars, OwnersInv, Makers, Teardowns, Owned,
     Busy
<1> QED  BY <1>1, <1>2, <1>3, <1>4, <1>5

\* What was not in the record is excused; the threads are gone.
LEMMA CrashKeeps ==
    ASSUME SandboxInv, Crash
    PROVE  SandboxInv'
<1> USE SandboxAssumption DEF SandboxInv
<1>1. SandboxTypeOK'
  BY DEF Crash, SandboxTypeOK, Hardware
<1>2. MakersInv'
  BY DEF Crash, MakersInv, Makers, Busy, Teardowns
<1>3. SpacesInv'
  BY DEF Crash, SpacesInv, SandboxTypeOK, Makers, Teardowns, Hardware, Settled
<1>4. CallersInv'
  BY DEF Crash, CallersInv, Makers, Busy, Teardowns
<1>5. OwnersInv'
  BY DEF Crash, OwnersInv, Makers, Teardowns, Owned, Busy
<1> QED  BY <1>1, <1>2, <1>3, <1>4, <1>5

\* The recorded Space is deleted, or it is excused.
LEMMA RestoreKeeps ==
    ASSUME SandboxInv, Restore
    PROVE  SandboxInv'
<1> USE SandboxAssumption DEF SandboxInv
<1>1. SandboxTypeOK'
  BY DEF Restore, makerVars, toolVars, tdVars, SandboxTypeOK, Hardware
<1>2. MakersInv'
  BY DEF Restore, makerVars, toolVars, MakersInv, Makers, Busy
<1>3. SpacesInv'
  BY DEF Restore, makerVars, toolVars, tdVars, SpacesInv, SandboxTypeOK, MakersInv, CallersInv,
     Makers, Busy, Teardowns, Hardware, Settled
<1>4. CallersInv'
  BY DEF Restore, makerVars, toolVars, tdVars, CallersInv, Makers, Busy, Teardowns
<1>5. OwnersInv'
  BY DEF Restore, makerVars, toolVars, tdVars, OwnersInv, SandboxTypeOK, MakersInv, CallersInv,
     Makers, Busy, Teardowns, Hardware, Owned
<1> QED  BY <1>1, <1>2, <1>3, <1>4, <1>5

\* Nothing happens.
LEMMA SandboxStutters ==
    ASSUME SandboxInv, UNCHANGED sandboxVars
    PROVE  SandboxInv'
  BY DEF SandboxInv, SandboxTypeOK, MakersInv, SpacesInv, CallersInv, OwnersInv, Settled, Owned,
     Busy, sandboxVars, hubVars, makerVars, toolVars, tdVars

-----------------------------------------------------------------------------
(* The invariant of the sandbox holds in every state.                      *)
THEOREM SandboxInvariance == SandboxSpec => []SandboxInv
<1>1. ASSUME SandboxInv, SandboxNext PROVE SandboxInv'
  <2>1. ASSUME NEW m \in Makers, MakerStep(m) PROVE SandboxInv'
    BY <1>1, <2>1, FindExistingKeeps, StartThreadKeeps, RegisterKeeps, RecordItKeeps,
       DropCancelledKeeps, DeleteCancelledKeeps, MakeFailsKeeps DEF MakerStep
  <2>2. ASSUME NEW s \in Spaces, ThreadStep(s) PROVE SandboxInv'
    BY <1>1, <2>2, ThreadCopiesKeeps, ThreadSetsUpKeeps, ThreadCancelsKeeps, ThreadReturnsKeeps DEF
       ThreadStep
  <2>3. ASSUME NEW x \in Teardowns, TeardownStep(x) PROVE SandboxInv'
    BY <1>1, <2>3, TeardownTakesKeeps, TeardownDeletesKeeps, TeardownClearsKeeps DEF TeardownStep
  <2>4. ASSUME ToolStep PROVE SandboxInv'
    BY <1>1, <2>4, PreloadServesKeeps, PreloadCancelledKeeps, ReplaceKeeps, ReplacedKeeps,
       ToolAbortedKeeps, ToolInterruptedKeeps DEF ToolStep
  <2> QED  BY <1>1, <2>1, <2>2, <2>3, <2>4, StartPreloadKeeps, UseSandboxKeeps, CreateSandboxKeeps,
       RouteTeardownKeeps, InterruptKeeps, SessionDeletedKeeps, TaskCancelledKeeps,
       FinalTeardownKeeps, SessionOverKeeps, CrashKeeps, RestoreKeeps DEF SandboxNext
<1> QED  BY <1>1, SandboxStarts, SandboxStutters, PTL DEF SandboxSpec

(* The types of the Spaces, the coroutines and the session's fields are    *)
(* kept.                                                                   *)
THEOREM SandboxTypeCorrect == SandboxSpec => []SandboxTypeOK
<1>1. SandboxInv => SandboxTypeOK  BY DEF SandboxInv
<1> QED  BY <1>1, SandboxInvariance, PTL

(* The session never holds a sandbox that is already deleted               *)
(* (teardown_session_sandbox takes it before it deletes it).               *)
THEOREM HeldSandboxIsUp == SandboxSpec => []HeldIsUp
<1>1. SandboxInv => HeldIsUp  BY DEF SandboxInv, SpacesInv, HeldIsUp
<1> QED  BY <1>1, SandboxInvariance, PTL

(* A Space on the Hub is in somebody's hands, or recorded for the cleanup  *)
(* of the next restore (_cleanup_persisted_sandbox), or there is an excuse *)
(* for it: a call failed, a crash or an abandoned thread lost it, or a     *)
(* teardown cleared the record of its successor.                           *)
THEOREM OrphansExplained == SandboxSpec => []OrphansAreExplained
<1>1. SandboxInv => OrphansAreExplained
  BY DEF SandboxInv, OwnersInv, Owned, OrphansAreExplained
<1> QED  BY <1>1, SandboxInvariance, PTL

(* No sandbox is registered over another: whoever registers has looked     *)
(* under the owner's lock and holds it since (_ensure_sandbox).            *)
THEOREM SandboxIsNeverReplaced == SandboxSpec => NeverReplaced
<1>1. ASSUME SandboxInv, [SandboxNext]_sandboxVars, sandbox # NoSpace
      PROVE  sandbox' \in {sandbox, NoSpace}
  <2>1. ASSUME NEW m \in Makers, MakerStep(m) PROVE sandbox' = sandbox
    <3>1. ~Register(m)
      BY <1>1 DEF Register, SandboxInv, MakersInv
    <3> QED  BY <2>1, <3>1 DEF MakerStep, FindExisting, StartThread, RecordIt, DropCancelled,
         DeleteCancelled, MakeFails
  <2>2. ASSUME NEW s \in Spaces, ThreadStep(s) PROVE sandbox' = sandbox
    BY <2>2 DEF ThreadStep, ThreadCopies, ThreadSetsUp, ThreadCancels, ThreadReturns, Threads
  <2>3. ASSUME NEW x \in Teardowns, TeardownStep(x) PROVE sandbox' \in {sandbox, NoSpace}
    BY <2>3 DEF TeardownStep, TeardownTakes, TeardownDeletes, TeardownClears
  <2>4. ASSUME ToolStep PROVE sandbox' = sandbox
    BY <2>4 DEF ToolStep, PreloadServes, PreloadCancelled, Replace, Replaced, ToolAborted,
       ToolInterrupted, Agent
  <2>5. ASSUME NEW h \in Hardware, CreateSandbox(h) PROVE sandbox' = sandbox
    BY <2>5 DEF CreateSandbox, Agent
  <2> QED  BY <1>1, <2>1, <2>2, <2>3, <2>4, <2>5 DEF SandboxNext, StartPreload, UseSandbox, Agent,
       RouteTeardown, Interrupt, SessionDeleted, TaskCancelled, FinalTeardown, SessionOver, Crash,
       Restore, sandboxVars
<1> QED  BY <1>1, SandboxInvariance, PTL DEF SandboxSpec, NeverReplaced
=============================================================================
