--------------------------- MODULE ServicesProofs ---------------------------
(***************************************************************************)
(* Proofs about five services that work beside the loop, each a section    *)
(* of its own: the premium quota, the notification gateway, the cloud jobs,*)
(* the trajectory's file and the command line. Every section has the       *)
(* inductive invariant of its component, a lemma for each group of its     *)
(* actions, and the safety property and the types that the invariant       *)
(* implies. The last section puts the eight services of MCServices         *)
(* together. They hold for every number of sessions, messages, notes,      *)
(* jobs, processes and operations, whatever the bounds are.                *)
(***************************************************************************)
EXTENDS MCServices, SandboxProofs, EventStreamProofs, ContextWindowProofs,
        SequenceTheorems, TLAPS

-----------------------------------------------------------------------------
(***************************************************************************)
(* The premium quota. A message that is past the charge has paid for its   *)
(* session, and where nothing raced it is the only one.                    *)
(***************************************************************************)
PostPlace == {"none", "charge", "flag", "persist", "submit"}

PostTypes ==
    /\ model \in [Chats -> {"premium", "free"}]
    /\ counted \in [Chats -> BOOLEAN] /\ snapshot \in [Chats -> BOOLEAN]
    /\ count \in 0 .. Cap
    /\ post \in [Posts -> [at: PostPlace, chat: Chats \cup {NoChat}]]
    /\ \A p \in Posts : post[p].chat = NoChat <=> post[p].at = "none"
    /\ queued \in [Chats -> Nat] /\ charges \in [Chats -> Nat]

\* What is behind the gate was charged, or its model was switched there.
PaidInv ==
    /\ \A c \in Chats :
           /\ counted[c] \/ snapshot[c] => charges[c] > 0
           /\ queued[c] > 0 /\ model[c] = "premium" => charges[c] > 0 \/ c \in switched
    /\ \A p \in Posts :
           /\ post[p].at \in {"flag", "persist"} => charges[post[p].chat] > 0
           /\ post[p].at = "submit" /\ model[post[p].chat] = "premium" =>
                  charges[post[p].chat] > 0 \/ post[p].chat \in switched
    /\ PremiumIsCharged

\* Where nothing raced there is one message, which finds the flag or writes it.
OnceInv ==
    /\ \A p, q \in Posts : post[p].chat = post[q].chat /\ post[p].chat \notin raced \cup {NoChat}
           => p = q
    /\ \A c \in Chats \ raced :
           /\ charges[c] <= 1
           /\ charges[c] = 1 => \/ counted[c]
                                \/ \E p \in Posts : post[p].at = "flag" /\ post[p].chat = c
    /\ \A p \in Posts : post[p].at = "charge" /\ counted[post[p].chat] =>
           post[p].chat \in raced

QuotaInv == PostTypes /\ PaidInv /\ OnceInv

\* No message is underway, and no session was charged.
LEMMA QuotaStarts == QuotaInit => QuotaInv
  BY QuotaAssumption DEF QuotaInit, QuotaInv, PostTypes, PaidInv, OnceInv, Waiting, PostPlace,
     PremiumIsCharged

\* A second message of a session makes it a raced one.
LEMMA GateKeeps ==
    ASSUME QuotaInv, NEW p \in Posts, NEW c \in Chats, Gate(p, c)
    PROVE  QuotaInv'
<1> USE QuotaAssumption DEF QuotaInv
<1>1. PostTypes'
  BY DEF PostTypes, PostPlace, Gate, Waiting
<1>2. PaidInv'
  BY DEF PostTypes, PostPlace, PaidInv, Gate, Waiting, PremiumIsCharged
<1>3. OnceInv'
  BY DEF PostTypes, PostPlace, OnceInv, Gate, Waiting, Underway
<1> QED  BY <1>1, <1>2, <1>3

\* The charge is the first of its session, unless it raced: the flag was
\* not there, and no other message is about to write it.
LEMMA TryIncrementKeeps ==
    ASSUME QuotaInv, NEW p \in Posts, TryIncrement(p)
    PROVE  QuotaInv'
<1> USE QuotaAssumption DEF QuotaInv
<1>1. PostTypes'
  BY DEF PostTypes, PostPlace, TryIncrement, Waiting, At, BelowCap
<1>2. PaidInv'
  BY DEF PostTypes, PostPlace, PaidInv, TryIncrement, Waiting, At, PremiumIsCharged
<1>3. CASE ~BelowCap
  <2>1. post[p].at = "charge" /\ post'[p] = Waiting /\ \A q \in Posts \ {p} : post'[q] = post[q]
    BY <1>3 DEF PostTypes, TryIncrement
  <2>2. UNCHANGED <<charges, counted, raced>>
    BY <1>3 DEF TryIncrement
  <2>3. OnceInv'  BY <2>1, <2>2 DEF OnceInv, Waiting
  <2> QED  BY <2>3, <1>1, <1>2
<1>4. CASE BelowCap
  <2> DEFINE d == post[p].chat
  <2>1. d \in Chats /\ post'[p].chat = d /\ post'[p].at = "flag"
    BY <1>4 DEF PostTypes, PostPlace, TryIncrement, At
  <2>2. d \notin raced => charges[d] = 0
    <3>1. post[p].at = "charge"  BY DEF TryIncrement
    <3>2. d \notin raced => ~counted[d]  BY <3>1 DEF OnceInv
    <3>3. d \notin raced => ~\E q \in Posts : post[q].at = "flag" /\ post[q].chat = d
      BY <2>1, <3>1, QuotaAssumption DEF OnceInv
    <3>4. d \notin raced => charges[d] <= 1 /\ charges[d] # 1
      BY <2>1, <3>2, <3>3 DEF OnceInv
    <3> QED  BY <2>1, <3>4 DEF PostTypes
  <2>3. \A q \in Posts : post'[q].chat = post[q].chat /\ (q # p => post'[q] = post[q])
    BY <1>4 DEF PostTypes, PostPlace, TryIncrement, At
  <2>4. charges'[d] = charges[d] + 1 /\ \A c \in Chats \ {d} : charges'[c] = charges[c]
    BY <1>4, <2>1 DEF PostTypes, TryIncrement
  <2>5. raced' = raced /\ counted' = counted
    BY DEF TryIncrement
  <2> HIDE DEF d
  <2>6. \A c \in Chats \ raced :
           /\ charges'[c] <= 1
           /\ charges'[c] = 1 => \/ counted[c]
                                 \/ \E q \in Posts : post'[q].at = "flag" /\ post'[q].chat = c
    <3> SUFFICES ASSUME NEW c \in Chats \ raced
                 PROVE  /\ charges'[c] <= 1
                        /\ charges'[c] = 1 => \/ counted[c]
                                              \/ \E q \in Posts : /\ post'[q].at = "flag"
                                                                  /\ post'[q].chat = c
      OBVIOUS
    <3>1. CASE c = d  BY <3>1, <2>1, <2>2, <2>4
    <3>2. CASE c # d  BY <3>2, <2>1, <2>3, <2>4 DEF OnceInv, d, TryIncrement
    <3> QED  BY <3>1, <3>2
  <2>7. OnceInv'
    BY <2>1, <2>3, <2>5, <2>6 DEF OnceInv
  <2> QED  BY <2>7, <1>1, <1>2
<1> QED  BY <1>3, <1>4

\* The flag, the snapshot and the queue follow the charge.
LEMMA MarkKeeps ==
    ASSUME QuotaInv, NEW p \in Posts, MarkCounted(p) \/ PersistCounted(p) \/ SubmitPost(p)
    PROVE  QuotaInv'
<1> USE QuotaAssumption DEF QuotaInv
<1>1. ASSUME MarkCounted(p) PROVE QuotaInv'
  <2>1. PostTypes'  BY <1>1 DEF PostTypes, PostPlace, MarkCounted, At
  <2>2. PaidInv'  BY <1>1 DEF PostTypes, PostPlace, PaidInv, MarkCounted, At, PremiumIsCharged
  <2>3. OnceInv'  BY <1>1 DEF PostTypes, PostPlace, OnceInv, MarkCounted, At
  <2> QED  BY <2>1, <2>2, <2>3
<1>2. ASSUME PersistCounted(p) PROVE QuotaInv'
  <2>1. PostTypes'  BY <1>2 DEF PostTypes, PostPlace, PersistCounted, At
  <2>2. PaidInv'  BY <1>2 DEF PostTypes, PostPlace, PaidInv, PersistCounted, At, PremiumIsCharged
  <2>3. OnceInv'  BY <1>2 DEF PostTypes, PostPlace, OnceInv, PersistCounted, At
  <2> QED  BY <2>1, <2>2, <2>3
<1>3. ASSUME SubmitPost(p) PROVE QuotaInv'
  <2>1. PostTypes'  BY <1>3 DEF PostTypes, PostPlace, SubmitPost, Waiting
  <2>2. PaidInv'  BY <1>3 DEF PostTypes, PostPlace, PaidInv, SubmitPost, Waiting, PremiumIsCharged
  <2>3. OnceInv'  BY <1>3 DEF PostTypes, PostPlace, OnceInv, SubmitPost, Waiting
  <2> QED  BY <2>1, <2>2, <2>3
<1> QED  BY <1>1, <1>2, <1>3

\* A model that becomes premium behind the gate is a switched one.
LEMMA SessionKeeps ==
    ASSUME QuotaInv, NEW c \in Chats,
           CallOfTurn(c) \/ \E m \in {"premium", "free"} : SwitchModel(c, m)
    PROVE  QuotaInv'
<1> USE QuotaAssumption DEF QuotaInv
<1>1. ASSUME CallOfTurn(c) PROVE QuotaInv'
  <2>1. PostTypes'  BY <1>1 DEF PostTypes, CallOfTurn
  <2>2. PaidInv'  BY <1>1 DEF PostTypes, PostPlace, PaidInv, CallOfTurn, PremiumIsCharged
  <2>3. OnceInv'  BY <1>1 DEF PostTypes, OnceInv, CallOfTurn
  <2> QED  BY <2>1, <2>2, <2>3
<1>2. ASSUME NEW m \in {"premium", "free"}, SwitchModel(c, m) PROVE QuotaInv'
  <2>1. PostTypes'  BY <1>2 DEF PostTypes, SwitchModel
  <2>2. PaidInv'  BY <1>2 DEF PostTypes, PostPlace, PaidInv, SwitchModel, Underway, PremiumIsCharged
  <2>3. OnceInv'  BY <1>2 DEF PostTypes, OnceInv, SwitchModel
  <2> QED  BY <2>1, <2>2, <2>3
<1> QED  BY <1>1, <1>2

\* A restart forgets the flag of a session only when its snapshot was not
\* written, which counts as raced.
LEMMA ServerKeeps ==
    ASSUME QuotaInv, NextDay \/ RestartServer
    PROVE  QuotaInv'
<1> USE QuotaAssumption DEF QuotaInv
<1>1. ASSUME NextDay PROVE QuotaInv'
  BY <1>1 DEF PostTypes, PaidInv, OnceInv, PremiumIsCharged, NextDay
<1>2. ASSUME RestartServer PROVE QuotaInv'
  <2>1. PostTypes'  BY <1>2 DEF PostTypes, PostPlace, RestartServer, Waiting
  <2>2. PaidInv'  BY <1>2 DEF PostTypes, PaidInv, RestartServer, Waiting, PremiumIsCharged
  <2>3. OnceInv'  BY <1>2 DEF PostTypes, OnceInv, RestartServer, Waiting
  <2> QED  BY <2>1, <2>2, <2>3
<1> QED  BY <1>1, <1>2

(* The invariant of the quota holds in every state.                        *)
THEOREM QuotaInvariance == QuotaSpec => []QuotaInv
<1>1. ASSUME QuotaInv, QuotaNext PROVE QuotaInv'
  BY <1>1, GateKeeps, TryIncrementKeeps, MarkKeeps, SessionKeeps, ServerKeeps DEF QuotaNext
<1>2. ASSUME QuotaInv, UNCHANGED quotaVars PROVE QuotaInv'
  BY <1>2 DEF QuotaInv, PostTypes, PaidInv, OnceInv, PremiumIsCharged, quotaVars
<1> QED  BY <1>1, <1>2, QuotaStarts, PTL DEF QuotaSpec

(* A session that called a premium model had been charged, unless its      *)
(* model was switched behind the gate (_enforce_premium_model_quota).      *)
THEOREM PremiumIsPaid == QuotaSpec => []PremiumIsCharged
<1>1. QuotaInv => PremiumIsCharged  BY DEF QuotaInv, PaidInv
<1> QED  BY <1>1, QuotaInvariance, PTL

(* A session is charged once, unless two of its messages met before the    *)
(* gate or a restart forgot the flag (claude_counted).                     *)
THEOREM SessionsPayOnce == QuotaSpec => []ChargedOnce
<1>1. QuotaInv => ChargedOnce  BY DEF QuotaInv, PostTypes, OnceInv, ChargedOnce
<1> QED  BY <1>1, QuotaInvariance, PTL

(* The cap of the day is kept, and a message with no session is nowhere.   *)
THEOREM QuotaTypeCorrect == QuotaSpec => []QuotaTypeOK
<1>1. QuotaInv => QuotaTypeOK
  <2> SUFFICES ASSUME PostTypes, NEW p \in Posts PROVE post[p] = Waiting <=> post[p].chat = NoChat
    BY DEF QuotaInv, PostTypes, QuotaTypeOK
  <2>1. post[p] \in [at: PostPlace, chat: Chats \cup {NoChat}]
    BY DEF PostTypes
  <2>2. post[p].chat = NoChat <=> post[p].at = "none"
    BY DEF PostTypes
  <2> QED  BY <2>1, <2>2 DEF Waiting
<1> QED  BY <1>1, QuotaInvariance, PTL
-----------------------------------------------------------------------------
(***************************************************************************)
(* The notification gateway. A note is in the queue, with the worker, or   *)
(* has met its end; the flush is satisfied when the first two are none.    *)
(***************************************************************************)
\* Every note is somewhere, and what is unsent after the flush was late.
CourierHas(n) == courier.at \in {"send", "sleep"} /\ courier.note = n
InWaiting(n) == \E i \in 1 .. Len(waiting) : waiting[i] = n
Carried == IF courier.at \in {"send", "sleep"} THEN 1 ELSE 0

NoteTypes ==
    /\ gateway \in {"new", "open", "flush", "flushed", "cancelling", "closed"}
    /\ opted \in Nat /\ notes \in Nat
    /\ waiting \in Seq(Nat)
    /\ courier \in [at: {"none", "get", "send", "sleep"}, note: Nat, attempt: Nat]
    /\ unfinished = Len(waiting) + Carried

NotesAccounted ==
    \A n \in 1 .. notes :
       n \in delivered \cup refused \cup afterFlush \/ InWaiting(n) \/ CourierHas(n)

FlushedAreLate ==
    gateway \in {"flushed", "cancelling", "closed"} =>
        \A n \in 1 .. notes : InWaiting(n) \/ CourierHas(n) => n \in afterFlush

NoteInv ==
    /\ NoteTypes /\ NotesAccounted /\ FlushedAreLate
    /\ gateway \in {"new", "closed"} => courier.at = "none"

\* A note is the first of the queue, or behind it.
LEMMA QueueTail ==
    ASSUME NEW s \in Seq(Nat), s # <<>>
    PROVE  /\ Head(s) \in Nat /\ Tail(s) \in Seq(Nat) /\ Len(Tail(s)) + 1 = Len(s)
           /\ \A n : (\E i \in 1 .. Len(s) : s[i] = n)
                     <=> n = Head(s) \/ \E i \in 1 .. Len(Tail(s)) : Tail(s)[i] = n
<1>1. /\ Head(s) \in Nat /\ Tail(s) \in Seq(Nat) /\ Len(Tail(s)) + 1 = Len(s)
      /\ Head(s) = s[1] /\ Len(s) \in Nat /\ Len(Tail(s)) \in Nat
      /\ \A i \in 1 .. Len(Tail(s)) : Tail(s)[i] = s[i + 1]
  BY HeadTailProperties, LenProperties
<1>2. ASSUME NEW n PROVE (\E i \in 1 .. Len(s) : s[i] = n)
                     <=> n = Head(s) \/ \E i \in 1 .. Len(Tail(s)) : Tail(s)[i] = n
  <2>1. ASSUME NEW i \in 1 .. Len(s), s[i] = n
        PROVE  n = Head(s) \/ \E k \in 1 .. Len(Tail(s)) : Tail(s)[k] = n
    <3>1. CASE i = 1  BY <2>1, <3>1, <1>1
    <3>2. CASE i # 1
      <4>1. i - 1 \in 1 .. Len(Tail(s)) /\ Tail(s)[i - 1] = n  BY <2>1, <3>2, <1>1
      <4> QED  BY <4>1
    <3> QED  BY <3>1, <3>2
  <2>2. ASSUME n = Head(s) PROVE \E i \in 1 .. Len(s) : s[i] = n
    BY <2>2, <1>1
  <2>3. ASSUME NEW k \in 1 .. Len(Tail(s)), Tail(s)[k] = n PROVE \E i \in 1 .. Len(s) : s[i] = n
    <3>1. k + 1 \in 1 .. Len(s) /\ s[k + 1] = n  BY <2>3, <1>1
    <3> QED  BY <3>1
  <2> QED  BY <2>1, <2>2, <2>3
<1> QED  BY <1>1, <1>2

\* There are no notes yet.
LEMMA NotesStart == NotificationInit => NoteInv
  BY DEF NotificationInit, NoteInv, NoteTypes, NotesAccounted, FlushedAreLate, Resting, InWaiting,
     CourierHas, Carried

\* The note goes from the queue to the worker.
LEMMA WorkerGetsKeeps ==
    ASSUME NoteInv, WorkerGets
    PROVE  NoteInv'
<1> USE DEF NoteInv
<1>1. /\ waiting \in Seq(Nat) /\ waiting # <<>> /\ courier.at = "get"
      /\ waiting' = Tail(waiting)
      /\ courier' = [at |-> "send", note |-> Head(waiting), attempt |-> 0]
      /\ UNCHANGED <<gateway, opted, unfinished, notes, delivered, refused, afterFlush>>
  BY DEF NoteTypes, WorkerGets
<1>2. \A n : InWaiting(n) <=> InWaiting(n)' \/ CourierHas(n)'
  <2>1. \A n : InWaiting(n) <=> n = Head(waiting) \/ InWaiting(n)'
    <3>1. \A n : InWaiting(n)
             <=> n = Head(waiting) \/ \E i \in 1 .. Len(Tail(waiting)) : Tail(waiting)[i] = n
      BY <1>1, QueueTail DEF InWaiting
    <3>2. \A n : InWaiting(n)' <=> \E i \in 1 .. Len(Tail(waiting)) : Tail(waiting)[i] = n
      BY <1>1 DEF InWaiting
    <3> QED  BY <3>1, <3>2
  <2>2. \A n : CourierHas(n)' <=> n = Head(waiting)
    BY <1>1 DEF CourierHas
  <2> QED  BY <2>1, <2>2
<1>3. NoteTypes'
  BY <1>1, QueueTail, LenProperties DEF NoteTypes, Carried
<1>4. \A n : ~CourierHas(n)  BY <1>1 DEF CourierHas
<1>5. NotesAccounted' /\ FlushedAreLate'
  BY <1>1, <1>2, <1>4 DEF NotesAccounted, FlushedAreLate
<1> QED  BY <1>1, <1>3, <1>5 DEF WorkerGets

\* New notes are in the queue, and late when the flush was satisfied.
LEMMA NotifyKeeps ==
    ASSUME NoteInv, Notify
    PROVE  NoteInv'
<1> USE DEF NoteInv
<1> DEFINE new == [i \in 1 .. opted |-> notes + i]
<1>1. opted \in Nat /\ notes \in Nat /\ waiting \in Seq(Nat) /\ unfinished = Len(waiting) + Carried
  BY DEF NoteTypes
<1>2. new \in Seq(Nat) /\ Len(new) = opted /\ \A i \in 1 .. opted : new[i] = notes + i
  BY <1>1
<1>3. /\ waiting' = waiting \o new /\ notes' = notes + opted /\ unfinished' = unfinished + opted
      /\ afterFlush' = IF gateway \in {"flushed", "cancelling"}
                       THEN afterFlush \cup {new[i] : i \in 1 .. opted} ELSE afterFlush
      /\ UNCHANGED <<gateway, opted, courier, delivered, refused>>
      /\ gateway # "closed"
  BY DEF Notify
<1> HIDE DEF new
<1>4. /\ waiting' \in Seq(Nat) /\ Len(waiting') = Len(waiting) + opted
      /\ \A i \in 1 .. Len(waiting) : waiting'[i] = waiting[i]
      /\ \A i \in 1 .. opted : waiting'[Len(waiting) + i] = notes + i
      /\ Len(waiting) \in Nat
  <2> DEFINE w == waiting
  <2>1. Len(w) \in Nat  BY <1>1, LenProperties
  <2>2. /\ w \o new \in Seq(Nat) /\ Len(w \o new) = Len(w) + Len(new)
        /\ \A i \in 1 .. Len(w) + Len(new) :
              (w \o new)[i] = IF i <= Len(w) THEN w[i] ELSE new[i - Len(w)]
    BY <1>1, <1>2, ConcatProperties
  <2> HIDE DEF w
  <2>3. \A i \in 1 .. Len(w) : (w \o new)[i] = w[i]
    BY <2>1, <2>2, <1>1, <1>2
  <2>4. ASSUME NEW i \in 1 .. opted PROVE (w \o new)[Len(w) + i] = notes + i
    <3>1. /\ Len(w) + i \in 1 .. Len(w) + Len(new) /\ ~(Len(w) + i <= Len(w))
          /\ (Len(w) + i) - Len(w) = i
      BY <2>1, <1>1, <1>2
    <3>2. (w \o new)[Len(w) + i] = new[(Len(w) + i) - Len(w)]  BY <3>1, <2>2
    <3> QED  BY <3>1, <3>2, <1>2
  <2> QED  BY <2>1, <2>2, <2>3, <2>4, <1>2, <1>3 DEF w
<1>5. NoteTypes'
  <2>1. Carried' = Carried /\ Carried \in Nat  BY <1>3 DEF Carried
  <2>2. unfinished' = Len(waiting') + Carried'
    BY <2>1, <1>1, <1>3, <1>4
  <2> QED  BY <2>2, <1>1, <1>3, <1>4 DEF NoteTypes
<1>6. \A n : InWaiting(n) => InWaiting(n)'
  <2> SUFFICES ASSUME NEW n, NEW i \in 1 .. Len(waiting), waiting[i] = n
               PROVE  \E k \in 1 .. Len(waiting') : waiting'[k] = n
    BY DEF InWaiting
  <2>1. i \in 1 .. Len(waiting') /\ waiting'[i] = n  BY <1>1, <1>4
  <2> QED  BY <2>1
<1>7. \A n \in (notes + 1) .. (notes + opted) : InWaiting(n)'
  <2> SUFFICES ASSUME NEW n \in (notes + 1) .. (notes + opted)
               PROVE  \E i \in 1 .. Len(waiting') : waiting'[i] = n
    BY DEF InWaiting
  <2>1. n - notes \in 1 .. opted /\ Len(waiting) + (n - notes) \in 1 .. Len(waiting')
    BY <1>1, <1>4
  <2>2. waiting'[Len(waiting) + (n - notes)] = notes + (n - notes)
    BY <2>1, <1>4
  <2>3. notes + (n - notes) = n  BY <1>1
  <2> QED  BY <2>1, <2>2, <2>3
<1>8. \A n : InWaiting(n)' => InWaiting(n) \/ n \in {new[i] : i \in 1 .. opted}
  <2> SUFFICES ASSUME NEW n, NEW i \in 1 .. Len(waiting'), waiting'[i] = n, ~InWaiting(n)
               PROVE  n \in {new[k] : k \in 1 .. opted}
    BY DEF InWaiting
  <2>1. i > Len(waiting)  BY <1>4 DEF InWaiting
  <2>2. i - Len(waiting) \in 1 .. opted /\ Len(waiting) + (i - Len(waiting)) = i
    BY <2>1, <1>1, <1>4
  <2>3. waiting'[Len(waiting) + (i - Len(waiting))] = notes + (i - Len(waiting))
    BY <2>2, <1>4
  <2> QED  BY <2>2, <2>3, <1>2
<1>9. \A n : CourierHas(n)' <=> CourierHas(n)
  BY <1>3 DEF CourierHas
<1>10. NotesAccounted'
  BY <1>1, <1>3, <1>6, <1>7, <1>9 DEF NotesAccounted
<1>11. FlushedAreLate'
  <2> SUFFICES ASSUME gateway \in {"flushed", "cancelling"}, NEW n \in 1 .. notes',
                      InWaiting(n)' \/ CourierHas(n)'
               PROVE  n \in afterFlush'
    BY <1>3 DEF FlushedAreLate
  <2>1. CASE n \in {new[i] : i \in 1 .. opted}  BY <2>1, <1>3
  <2>2. CASE n \notin {new[i] : i \in 1 .. opted}
    <3>1. n \in 1 .. notes
      <4> SUFFICES ASSUME n > notes PROVE FALSE  BY <1>1, <1>3
      <4>1. n - notes \in 1 .. opted /\ new[n - notes] = n  BY <1>1, <1>2, <1>3
      <4> QED  BY <4>1, <2>2
    <3> QED  BY <3>1, <2>2, <1>3, <1>8, <1>9 DEF FlushedAreLate
  <2> QED  BY <2>1, <2>2
<1> QED  BY <1>3, <1>5, <1>10, <1>11

\* What the worker does with the note it has.
LEMMA SendKeeps ==
    ASSUME NoteInv, Delivers \/ GivesUp \/ TriesLater \/ TriesAgain
    PROVE  NoteInv'
<1> USE DEF NoteInv
<1>1. ASSUME Delivers \/ GivesUp PROVE NoteInv'
  <2>1. /\ courier.at = "send" /\ courier' = Resting /\ unfinished' = unfinished - 1
        /\ gateway' = IF gateway = "flush" /\ unfinished = 1 THEN "flushed" ELSE gateway
        /\ UNCHANGED <<opted, waiting, notes, afterFlush>>
        /\ courier.note \in delivered' \cup refused'
        /\ delivered \subseteq delivered' /\ refused \subseteq refused'
    BY <1>1 DEF Delivers, GivesUp, Finished
  <2>2. Len(waiting) \in Nat /\ unfinished = Len(waiting) + 1
    BY <2>1, LenProperties DEF NoteTypes, Carried
  <2>3. NoteTypes'
    BY <2>1, <2>2 DEF NoteTypes, Carried, Resting
  <2>4. /\ \A n : CourierHas(n) => n = courier.note
        /\ \A n : ~CourierHas(n)' /\ (InWaiting(n)' <=> InWaiting(n))
    BY <2>1 DEF CourierHas, InWaiting, Resting
  <2>5. gateway = "flush" /\ unfinished = 1 => \A n : ~InWaiting(n)
    BY <2>2 DEF InWaiting
  <2>6. NotesAccounted'
    BY <2>1, <2>4 DEF NotesAccounted
  <2>7. FlushedAreLate'
    BY <2>1, <2>4, <2>5 DEF FlushedAreLate
  <2> QED  BY <2>1, <2>3, <2>6, <2>7
<1>2. ASSUME TriesLater \/ TriesAgain PROVE NoteInv'
  <2>1. /\ courier.at \in {"send", "sleep"} /\ courier'.at \in {"send", "sleep"}
        /\ courier'.note = courier.note
        /\ UNCHANGED <<gateway, opted, waiting, unfinished, notes, delivered, refused, afterFlush>>
    BY <1>2 DEF TriesLater, TriesAgain, NoteTypes
  <2>2. NoteTypes'
    <3>1. courier' \in [at: {"none", "get", "send", "sleep"}, note: Nat, attempt: Nat]
      <4>1. CASE TriesLater  BY <4>1 DEF TriesLater, NoteTypes
      <4>2. CASE TriesAgain
        <5>1. courier' = [at |-> "send", note |-> courier.note, attempt |-> courier.attempt + 1]
          BY <4>2 DEF TriesAgain, NoteTypes
        <5> QED  BY <5>1 DEF NoteTypes
      <4> QED  BY <1>2, <4>1, <4>2
    <3> QED  BY <2>1, <3>1 DEF NoteTypes, Carried
  <2>3. \A n : (CourierHas(n)' <=> CourierHas(n)) /\ (InWaiting(n)' <=> InWaiting(n))
    BY <2>1 DEF CourierHas, InWaiting
  <2> QED  BY <2>1, <2>2, <2>3 DEF NotesAccounted, FlushedAreLate
<1> QED  BY <1>1, <1>2

\* How far close() is.
LEMMA CloseKeeps ==
    ASSUME NoteInv,
           Flush \/ CancelWorker \/ GatewayCloses \/ StartGateway \/ WorkerCancelled
    PROVE  NoteInv'
<1> USE DEF NoteInv
<1>1. ASSUME Flush \/ CancelWorker \/ GatewayCloses PROVE NoteInv'
  <2>1. /\ UNCHANGED <<opted, waiting, unfinished, courier, notes, delivered, refused, afterFlush>>
        /\ gateway' \in {"flush", "flushed", "cancelling", "closed"}
        /\ gateway' \in {"flushed", "cancelling", "closed"} =>
              gateway \in {"flushed", "cancelling", "closed"} \/ unfinished = 0
        /\ gateway' = "closed" => courier.at = "none"
    BY <1>1 DEF Flush, CancelWorker, GatewayCloses
  <2>2. NoteTypes'
    BY <2>1 DEF NoteTypes, Carried
  <2>3. \A n : (CourierHas(n)' <=> CourierHas(n)) /\ (InWaiting(n)' <=> InWaiting(n))
    BY <2>1 DEF CourierHas, InWaiting
  <2>4. unfinished = 0 => \A n : ~InWaiting(n) /\ ~CourierHas(n)
    BY LenProperties DEF NoteTypes, InWaiting, CourierHas, Carried
  <2> QED  BY <2>1, <2>2, <2>3, <2>4 DEF NotesAccounted, FlushedAreLate
<1>2. ASSUME StartGateway PROVE NoteInv'
  <2>1. /\ gateway' = "open" /\ courier.at = "none" /\ courier' = Resting
        /\ UNCHANGED <<opted, waiting, unfinished, notes, delivered, refused, afterFlush>>
    BY <1>2 DEF StartGateway
  <2>2. NoteTypes'
    BY <2>1 DEF NoteTypes, Carried, Resting
  <2>3. \A n : ~CourierHas(n) /\ ~CourierHas(n)' /\ (InWaiting(n)' <=> InWaiting(n))
    BY <2>1 DEF CourierHas, InWaiting, Resting
  <2> QED  BY <2>1, <2>2, <2>3 DEF NotesAccounted, FlushedAreLate
<1>3. ASSUME WorkerCancelled PROVE NoteInv'
  <2>1. /\ courier.at # "none" /\ courier'.at = "none" /\ gateway = "cancelling"
        /\ UNCHANGED <<gateway, opted, waiting, notes, refused, afterFlush>>
        /\ delivered \subseteq delivered'
    BY <1>3 DEF WorkerCancelled, Resting
  <2>2. NoteTypes'
    BY <1>3 DEF WorkerCancelled, NoteTypes, Resting, Carried
  <2>3. \A n : ~CourierHas(n)' /\ (InWaiting(n)' <=> InWaiting(n))
    BY <2>1 DEF CourierHas, InWaiting
  <2> QED  BY <2>1, <2>2, <2>3 DEF NotesAccounted, FlushedAreLate
<1> QED  BY <1>1, <1>2, <1>3

(* The invariant of the gateway holds in every state.                      *)
THEOREM NotesInvariance == NotificationSpec => []NoteInv
<1>1. ASSUME NoteInv, NotificationNext PROVE NoteInv'
  <2>1. ASSUME NEW n \in 0 .. MaxOpted, SetDestinations(n) PROVE NoteInv'
    <3>1. opted' \in Nat
      BY <2>1, NotificationAssumption DEF SetDestinations
    <3>2. UNCHANGED <<gateway, waiting, unfinished, courier, notes, delivered, refused, afterFlush>>
      BY <2>1 DEF SetDestinations
    <3> QED  BY <1>1, <3>1, <3>2 DEF NoteInv, NoteTypes, NotesAccounted, FlushedAreLate, CourierHas,
          InWaiting, Carried
  <2> QED  BY <1>1, <2>1, WorkerGetsKeeps, NotifyKeeps, SendKeeps, CloseKeeps DEF NotificationNext
<1>2. ASSUME NoteInv, UNCHANGED noteVars PROVE NoteInv'
  BY <1>2 DEF NoteInv, NoteTypes, NotesAccounted, FlushedAreLate, CourierHas, InWaiting, Carried,
     noteVars
<1> QED  BY <1>1, <1>2, NotesStart, PTL DEF NotificationSpec

(* A note that enqueue accepted before the flush was satisfied has been    *)
(* sent or given up when the gateway is closed                             *)
(* (NotificationGateway.close).                                            *)
THEOREM NotesAreNotLost == NotificationSpec => []LossesAreLate
<1>1. NoteInv => LossesAreLate
  BY DEF NoteInv, NotesAccounted, FlushedAreLate, CourierHas, LossesAreLate
<1> QED  BY <1>1, NotesInvariance, PTL

\* A note is tried once more than there are delays: a courier that sleeps has one left.
NoteBounds ==
    /\ opted \in 0 .. MaxOpted /\ notes \in 0 .. MaxNotes
    /\ courier.attempt \in 0 .. RetryDelays
    /\ courier.at = "sleep" => courier.attempt < RetryDelays

(* The queue's count of unfinished notes is right, through retries and the *)
(* cancelled worker, and no note is tried more often than the delays allow *)
(* (_send_with_retry).                                                     *)
THEOREM NoteTypeCorrect == NotificationSpec => []NotificationTypeOK
<1> USE NotificationAssumption
<1>1. NotificationInit => NoteBounds
  BY DEF NotificationInit, NoteBounds, Resting
<1>2. ASSUME NoteInv, NoteBounds, [NotificationNext]_noteVars PROVE NoteBounds'
  <2> USE DEF NoteBounds
  <2>0. courier \in [at: {"none", "get", "send", "sleep"}, note: Nat, attempt: Nat]
    BY <1>2 DEF NoteInv, NoteTypes
  <2>1. CASE StartGateway  BY <1>2, <2>1 DEF StartGateway, Resting
  <2>2. CASE Notify  BY <1>2, <2>2 DEF Notify
  <2>3. CASE \E n \in 0 .. MaxOpted : SetDestinations(n)  BY <1>2, <2>3 DEF SetDestinations
  <2>4. CASE WorkerGets  BY <1>2, <2>4 DEF WorkerGets
  <2>5. CASE Delivers \/ GivesUp  BY <1>2, <2>5 DEF Delivers, GivesUp, Resting
  <2>6. CASE TriesLater  BY <1>2, <2>0, <2>6 DEF TriesLater
  <2>7. CASE TriesAgain  BY <1>2, <2>0, <2>7 DEF TriesAgain
  <2>8. CASE Flush \/ CancelWorker \/ GatewayCloses
    BY <1>2, <2>8 DEF Flush, CancelWorker, GatewayCloses
  <2>9. CASE WorkerCancelled  BY <1>2, <2>9 DEF WorkerCancelled, Resting
  <2>10. CASE UNCHANGED noteVars  BY <1>2, <2>10 DEF noteVars
  <2> QED
    BY <1>2, <2>1, <2>2, <2>3, <2>4, <2>5, <2>6, <2>7, <2>8, <2>9, <2>10 DEF NotificationNext
<1>3. NoteInv /\ NoteBounds => NotificationTypeOK
  BY DEF NoteInv, NoteTypes, NoteBounds, NotificationTypeOK, Carried
<1> QED  BY <1>1, <1>2, <1>3, NotesInvariance, PTL DEF NotificationSpec
-----------------------------------------------------------------------------
(***************************************************************************)
(* The cloud jobs. A running job is recorded or about to be, until an      *)
(* interrupt or a failure makes it one of the exceptions.                  *)
(***************************************************************************)
JobCallType == [at: {"none", "launch", "launched", "logs", "poll", "done"},
                job: Jobs \cup {NoJob}]

JobTypes ==
    /\ phase \in {"idle", "tools", "cleanup", "gone"}
    /\ jobCall \in [JobCalls -> JobCallType]
    /\ cloud \in [Jobs -> {"none", "running", "over"}]
    /\ runningIds \subseteq Jobs /\ toCancel \subseteq runningIds

\* A call with a job has one that was launched.
CallsHaveJobs ==
    /\ \A j \in runningIds : cloud[j] # "none"
    /\ \A c \in JobCalls : jobCall[c].at \in {"launched", "logs", "poll"} =>
           jobCall[c].job \in Jobs /\ cloud[jobCall[c].job] # "none"
    /\ phase \in {"idle", "cleanup"} => \A c \in JobCalls : jobCall[c].at = "none"

\* A running job is recorded, is being recorded, or is in one of the exceptions.
JobsAccounted ==
    \A j \in Jobs : cloud[j] = "running" =>
        \/ j \in runningIds \cup late \cup spared \cup unfollowed
        \/ \E c \in JobCalls : jobCall[c].at = "launched" /\ jobCall[c].job = j

\* The ids the cleanup has come to are over, or could not be cancelled.
CleanupInv ==
    /\ phase # "cleanup" => toCancel = {}
    /\ phase = "cleanup" => \A j \in runningIds \ toCancel : cloud[j] = "over" \/ j \in spared

JobInv == JobTypes /\ CallsHaveJobs /\ JobsAccounted /\ CleanupInv

\* No job runs.
LEMMA JobsStart == CloudJobsInit => JobInv
  BY DEF CloudJobsInit, JobInv, JobTypes, CallsHaveJobs, JobsAccounted, CleanupInv, NoCall,
     JobCallType

\* A job is launched for a call that waits for its id, or behind its
\* back.
LEMMA LaunchKeeps ==
    ASSUME JobInv,
           \/ \E cs \in (SUBSET JobCalls) \ {{}} : RunBatch(cs)
           \/ \E c \in JobCalls : ProviderRefuses(c) \/ \E j \in Jobs : ProviderLaunches(c, j)
    PROVE  JobInv'
<1> USE DEF JobInv
<1>1. ASSUME NEW cs \in (SUBSET JobCalls) \ {{}}, RunBatch(cs) PROVE JobInv'
  <2>1. /\ phase = "idle" /\ phase' = "tools" /\ \A c \in JobCalls : jobCall[c].at = "none"
        /\ jobCall' \in [JobCalls -> JobCallType]
        /\ \A c \in JobCalls : jobCall'[c].at \in {"none", "launch"}
        /\ UNCHANGED <<cloud, runningIds, toCancel, late, spared, unfollowed>>
    BY <1>1 DEF RunBatch, NoCall, JobCallType, CallsHaveJobs
  <2> QED  BY <2>1 DEF JobTypes, CallsHaveJobs, JobsAccounted, CleanupInv
<1>2. ASSUME NEW c \in JobCalls, ProviderRefuses(c) PROVE JobInv'
  <2>1. /\ jobCall' \in [JobCalls -> JobCallType]
        /\ \A x \in JobCalls : \/ jobCall'[x] = jobCall[x]
                               \/ jobCall[x].at = "launch" /\ jobCall'[x].at = "done"
        /\ UNCHANGED <<phase, cloud, runningIds, toCancel, late, spared, unfollowed>>
    BY <1>2 DEF ProviderRefuses, InCall, CallGoes, JobTypes, JobCallType
  <2> QED  BY <2>1 DEF JobTypes, CallsHaveJobs, JobsAccounted, CleanupInv
<1>3. ASSUME NEW c \in JobCalls, NEW j \in Jobs, ProviderLaunches(c, j) PROVE JobInv'
  <2>1. /\ cloud[j] = "none" /\ cloud' = [cloud EXCEPT ![j] = "running"]
        /\ UNCHANGED <<phase, runningIds, toCancel, spared, unfollowed>>
    BY <1>3 DEF ProviderLaunches
  <2>2. cloud' \in [Jobs -> {"none", "running", "over"}] /\ cloud'[j] = "running"
        /\ \A i \in Jobs \ {j} : cloud'[i] = cloud[i]
    BY <2>1 DEF JobTypes
  <2>3. CASE InCall(c, "launch")
    <3>1. /\ jobCall[c].at = "launch" /\ late' = late
          /\ jobCall' = [jobCall EXCEPT ![c] = [at |-> "launched", job |-> j]]
      BY <1>3, <2>3 DEF ProviderLaunches, InCall
    <3>2. /\ jobCall' \in [JobCalls -> JobCallType]
          /\ jobCall'[c] = [at |-> "launched", job |-> j]
          /\ \A x \in JobCalls \ {c} : jobCall'[x] = jobCall[x]
      BY <3>1 DEF JobTypes, JobCallType
    <3>3. JobTypes' /\ CleanupInv'
      BY <2>1, <2>2, <3>2 DEF JobTypes, CleanupInv
    <3>4. CallsHaveJobs'
      BY <2>1, <2>2, <3>1, <3>2 DEF CallsHaveJobs, JobTypes
    <3>5. JobsAccounted'
      BY <2>1, <2>2, <3>1, <3>2 DEF JobsAccounted
    <3> QED  BY <3>3, <3>4, <3>5
  <2>4. CASE ~InCall(c, "launch")
    <3>1. late' = late \cup {j} /\ jobCall' = jobCall
      BY <1>3, <2>4 DEF ProviderLaunches
    <3> QED  BY <3>1, <2>1, <2>2 DEF JobTypes, CleanupInv, CallsHaveJobs, JobsAccounted
  <2> QED  BY <2>3, <2>4
<1> QED  BY <1>1, <1>2, <1>3

\* A call follows its job.
LEMMA FollowKeeps ==
    ASSUME JobInv, NEW c \in JobCalls,
           TrackJob(c) \/ LogsEnd(c) \/ UntrackJob(c) \/ FollowingFails(c)
    PROVE  JobInv'
<1> USE DEF JobInv
<1> DEFINE k == jobCall[c].job
<1>1. ASSUME TrackJob(c) PROVE JobInv'
  <2>1. /\ k \in Jobs /\ cloud[k] # "none" /\ phase \in {"tools", "gone"}
        /\ runningIds' = runningIds \cup {k}
        /\ jobCall' \in [JobCalls -> JobCallType]
        /\ jobCall'[c].at = "logs" /\ jobCall'[c].job = k
        /\ \A x \in JobCalls \ {c} : jobCall'[x] = jobCall[x]
        /\ UNCHANGED <<phase, cloud, toCancel, late, spared, unfollowed>>
    BY <1>1 DEF TrackJob, InCall, CallGoes, JobTypes, CallsHaveJobs, JobCallType
  <2>2. JobTypes' /\ CallsHaveJobs'
    BY <2>1 DEF JobTypes, CallsHaveJobs
  <2>3. JobsAccounted' /\ CleanupInv'
    BY <2>1 DEF JobsAccounted, CleanupInv
  <2> QED  BY <2>2, <2>3
<1>2. ASSUME LogsEnd(c) \/ FollowingFails(c) PROVE JobInv'
  <2>1. /\ jobCall[c].at \in {"logs", "poll"} /\ jobCall'[c].at \in {"poll", "done"}
        /\ jobCall'[c].job = k
        /\ jobCall' \in [JobCalls -> JobCallType]
        /\ \A x \in JobCalls \ {c} : jobCall'[x] = jobCall[x]
        /\ UNCHANGED <<phase, cloud, runningIds, toCancel, late, spared, unfollowed>>
    BY <1>2 DEF LogsEnd, FollowingFails, InCall, CallGoes, JobTypes, JobCallType
  <2>2. JobTypes' /\ CallsHaveJobs'
    BY <2>1 DEF JobTypes, CallsHaveJobs
  <2>3. JobsAccounted' /\ CleanupInv'
    BY <2>1 DEF JobsAccounted, CleanupInv
  <2> QED  BY <2>2, <2>3
<1>3. ASSUME UntrackJob(c) PROVE JobInv'
  <2>1. /\ k \in Jobs /\ phase \in {"tools", "gone"} /\ jobCall[c].at = "poll"
        /\ runningIds' = runningIds \ {k}
        /\ unfollowed' = IF cloud[k] = "running" THEN unfollowed \cup {k} ELSE unfollowed
        /\ jobCall' \in [JobCalls -> JobCallType]
        /\ jobCall'[c].at = "done"
        /\ \A x \in JobCalls \ {c} : jobCall'[x] = jobCall[x]
        /\ UNCHANGED <<phase, cloud, toCancel, late, spared>>
    BY <1>3 DEF UntrackJob, InCall, CallGoes, JobTypes, CallsHaveJobs, JobCallType
  <2>2. JobTypes' /\ CallsHaveJobs'
    BY <2>1 DEF JobTypes, CallsHaveJobs, CleanupInv
  <2>3. JobsAccounted' /\ CleanupInv'
    BY <2>1 DEF JobsAccounted, CleanupInv
  <2> QED  BY <2>2, <2>3
<1> QED  BY <1>1, <1>2, <1>3

\* The job ends, or the cleanup asks for its end.
LEMMA EndKeeps ==
    ASSUME JobInv, NEW j \in Jobs, JobEnds(j) \/ CancelRequest(j)
    PROVE  JobInv'
<1> USE DEF JobInv
<1>1. /\ UNCHANGED <<phase, jobCall, runningIds, late, unfollowed>>
      /\ toCancel' \in {toCancel, toCancel \ {j}} /\ spared \subseteq spared'
      /\ cloud[j] # "none"
      /\ cloud' \in {cloud, [cloud EXCEPT ![j] = "over"]}
      /\ toCancel' # toCancel => cloud' # cloud \/ j \in spared' \/ cloud[j] = "over"
  BY DEF JobEnds, CancelRequest, JobTypes, CallsHaveJobs
<1>2. /\ cloud' \in [Jobs -> {"none", "running", "over"}]
      /\ \A i \in Jobs : cloud'[i] = cloud[i] \/ (i = j /\ cloud'[i] = "over")
  <2>1. CASE cloud' = cloud  BY <2>1 DEF JobTypes
  <2>2. CASE cloud' = [cloud EXCEPT ![j] = "over"]  BY <2>2 DEF JobTypes
  <2> QED  BY <1>1, <2>1, <2>2
<1>3. JobTypes'
  BY <1>1, <1>2 DEF JobTypes
<1>4. CallsHaveJobs'
  BY <1>1, <1>2 DEF CallsHaveJobs, JobTypes
<1>5. JobsAccounted'
  BY <1>1, <1>2 DEF JobsAccounted
<1>6. CleanupInv'
  <2>1. ASSUME phase = "cleanup", NEW i \in runningIds \ toCancel'
        PROVE  cloud'[i] = "over" \/ i \in spared'
    <3>1. CASE i \notin toCancel
      BY <2>1, <3>1, <1>1, <1>2 DEF CleanupInv, JobTypes
    <3>2. CASE i \in toCancel
      <4>1. i = j /\ CancelRequest(j)
        BY <2>1, <3>2 DEF JobEnds, CancelRequest
      <4> QED  BY <4>1 DEF CancelRequest, JobTypes
    <3> QED  BY <3>1, <3>2
  <2> QED  BY <2>1, <1>1 DEF CleanupInv
<1> QED  BY <1>3, <1>4, <1>5, <1>6

\* The batch ends by itself or by an interrupt, which the cleanup
\* follows.
LEMMA BatchKeeps ==
    ASSUME JobInv, BatchReturns \/ InterruptBatch \/ CleanupEnds \/ SessionGone
    PROVE  JobInv'
<1> USE DEF JobInv
<1>1. ASSUME BatchReturns PROVE JobInv'
  <2>1. /\ phase' = "idle" /\ jobCall' \in [JobCalls -> JobCallType]
        /\ \A c \in JobCalls : jobCall'[c].at = "none" /\ jobCall[c].at # "launched"
        /\ toCancel = {}
        /\ UNCHANGED <<cloud, runningIds, toCancel, late, spared, unfollowed>>
    BY <1>1 DEF BatchReturns, NoCall, JobCallType, CleanupInv
  <2> QED  BY <2>1 DEF JobTypes, CallsHaveJobs, JobsAccounted, CleanupInv
<1>2. ASSUME InterruptBatch PROVE JobInv'
  <2>1. /\ phase' = "cleanup" /\ toCancel' = runningIds
        /\ jobCall' \in [JobCalls -> JobCallType]
        /\ \A c \in JobCalls : jobCall'[c].at = "none"
        /\ UNCHANGED <<cloud, runningIds, spared, unfollowed>>
        /\ late \subseteq late'
        /\ \A c \in JobCalls : jobCall[c].at = "launched" => jobCall[c].job \in late'
    BY <1>2 DEF InterruptBatch, NoCall, JobCallType, InCall
  <2> QED  BY <2>1 DEF JobTypes, CallsHaveJobs, JobsAccounted, CleanupInv
<1>3. ASSUME CleanupEnds PROVE JobInv'
  <2>1. /\ phase = "cleanup" /\ phase' = "idle" /\ toCancel = {} /\ runningIds' = {}
        /\ UNCHANGED <<jobCall, cloud, toCancel, late, spared, unfollowed>>
    BY <1>3 DEF CleanupEnds
  <2> QED  BY <2>1 DEF JobTypes, CallsHaveJobs, JobsAccounted, CleanupInv
<1>4. ASSUME SessionGone PROVE JobInv'
  BY <1>4 DEF SessionGone, JobTypes, CallsHaveJobs, JobsAccounted, CleanupInv
<1> QED  BY <1>1, <1>2, <1>3, <1>4

(* The invariant of the jobs holds in every state.                         *)
THEOREM JobsInvariance == CloudJobsSpec => []JobInv
<1>1. ASSUME JobInv, CloudJobsNext PROVE JobInv'
  BY <1>1, LaunchKeeps, FollowKeeps, EndKeeps, BatchKeeps DEF CloudJobsNext
<1>2. ASSUME JobInv, UNCHANGED jobVars PROVE JobInv'
  BY <1>2 DEF JobInv, JobTypes, CallsHaveJobs, JobsAccounted, CleanupInv, jobVars
<1> QED  BY <1>1, <1>2, JobsStart, PTL DEF CloudJobsSpec

(* Between batches a running job is recorded, or was launched behind a     *)
(* cancelled call, could not be cancelled or was given up                  *)
(* (_cleanup_on_cancel).                                                   *)
THEOREM JobsAreExplained == CloudJobsSpec => []RunningJobsAreExplained
<1>1. JobInv => RunningJobsAreExplained
  BY DEF JobInv, CallsHaveJobs, JobsAccounted, RunningJobsAreExplained
<1> QED  BY <1>1, JobsInvariance, PTL

(* What the cleanup cancels is recorded, and what is recorded was launched *)
(* (session._running_job_ids).                                             *)
THEOREM JobTypeCorrect == CloudJobsSpec => []CloudJobsTypeOK
<1>1. JobInv => CloudJobsTypeOK
  BY DEF JobInv, JobTypes, JobCallType, CallsHaveJobs, CloudJobsTypeOK
<1> QED  BY <1>1, JobsInvariance, PTL
-----------------------------------------------------------------------------
(***************************************************************************)
(* The trajectory's file. Undisturbed, it has one saver at a time, and the *)
(* processes upload what it holds.                                         *)
(***************************************************************************)
FileType == [holds: Nat, status: {"none", "pending", "failed", "success"}, inode: Nat,
             torn: BOOLEAN]
UploaderPlace == {"none", "read", "upload", "succeeded", "failed", "success", "fail"}
UploaderType == [at: UploaderPlace, read: Nat, inode: Nat, attempt: Nat]

FileTypes ==
    /\ trajectory \in Nat /\ saves \in Nat
    /\ saver \in [Savers -> [at: {"idle", "write"}, read: Nat]]
    /\ staged \in FileType /\ staged.status # "success"
    /\ saved \in FileType
    /\ uploader \in [Uploaders -> UploaderType]
    /\ disturbed \in BOOLEAN

\* An undisturbed file: one saver at a time, ...
OneSaver ==
    /\ \A w \in Savers : saver[w].at = "write" => staged.inode # 0
    /\ \A w, x \in Savers : saver[w].at = "write" /\ saver[x].at = "write" => w = x
    /\ ~staged.torn /\ ~saved.torn

\* ... and uploaders of what is in it.
UploadsAreCurrent ==
    /\ saved.status = "success" => dataset = saved.holds
    /\ \A u \in Uploaders :
           /\ uploader[u].at = "upload" => uploader[u].read = saved.holds
           /\ uploader[u].at \in {"succeeded", "success"} => dataset = saved.holds

UploadInv == FileTypes /\ (~disturbed => OneSaver /\ UploadsAreCurrent)

\* There is no file yet.
LEMMA UploadsStart == UploadInit => UploadInv
<1> SUFFICES ASSUME UploadInit PROVE UploadInv
  OBVIOUS
<1>1. FileTypes
  BY DEF UploadInit, FileTypes, NoSave, NoFile, NoProcess, FileType, UploaderPlace, UploaderType
<1>2. OneSaver /\ UploadsAreCurrent
  BY DEF UploadInit, OneSaver, UploadsAreCurrent, NoSave, NoFile, NoProcess
<1> QED  BY <1>1, <1>2 DEF UploadInv

\* A second saver in the .tmp file disturbs it.
LEMMA StageKeeps ==
    ASSUME UploadInv, NEW w \in Savers, StageSave(w)
    PROVE  UploadInv'
<1> USE DEF UploadInv
<1> DEFINE shared == staged.inode # 0
<1>1. /\ saver[w].at = "idle" /\ saves' = saves + 1
      /\ saver' = [saver EXCEPT ![w] = [at |-> "write", read |-> trajectory]]
      /\ staged' = [holds |-> trajectory, status |-> StatusOfSave,
                    inode |-> IF shared THEN staged.inode ELSE saves + 1, torn |-> shared]
      /\ disturbed' = (disturbed \/ shared)
      /\ UNCHANGED <<trajectory, saved, uploader, dataset>>
  BY DEF StageSave
<1>2. /\ saver' \in [Savers -> [at: {"idle", "write"}, read: Nat]]
      /\ saver'[w].at = "write" /\ \A x \in Savers \ {w} : saver'[x] = saver[x]
  BY <1>1 DEF FileTypes
<1>3. FileTypes'
  BY <1>1, <1>2 DEF FileTypes, FileType, StatusOfSave
<1>4. ASSUME ~disturbed' PROVE OneSaver' /\ UploadsAreCurrent'
  <2>1. ~disturbed /\ ~shared  BY <1>1, <1>4
  <2>2. \A x \in Savers : saver[x].at = "idle"
    BY <2>1 DEF OneSaver, FileTypes
  <2>3. staged'.inode = saves + 1 /\ staged'.torn = FALSE
    BY <1>1, <2>1
  <2>4. OneSaver'
    BY <1>1, <1>2, <2>1, <2>2, <2>3 DEF OneSaver, FileTypes
  <2>5. UploadsAreCurrent'
    BY <1>1, <2>1 DEF UploadsAreCurrent
  <2> QED  BY <2>4, <2>5
<1> QED  BY <1>3, <1>4

\* A rename under a process disturbs the file, so that an undisturbed one
\* has a new trajectory only while nothing is at work.
LEMMA RenameKeeps ==
    ASSUME UploadInv, NEW w \in Savers, RenameSave(w)
    PROVE  UploadInv'
<1> USE DEF UploadInv
<1>1. /\ saver[w].at = "write" /\ saver' = [saver EXCEPT ![w] = NoSave]
      /\ UNCHANGED <<trajectory, dataset, saves>>
  BY DEF RenameSave
<1>2. /\ saver' \in [Savers -> [at: {"idle", "write"}, read: Nat]]
      /\ saver'[w].at = "idle" /\ \A x \in Savers \ {w} : saver'[x] = saver[x]
  BY <1>1 DEF FileTypes, NoSave
<1>3. CASE staged.inode # 0
  <2>1. PICK t \in {FALSE, staged.torn \/ saver[Other(w)].at = "write"} :
           saved' = [staged EXCEPT !.torn = t]
    BY <1>3 DEF RenameSave
  <2>2. /\ staged' = NoFile /\ disturbed' = (disturbed \/ AtWork # {})
        /\ (\E u \in Uploaders \ AtWork : Spawned(u)) \/ UNCHANGED uploader
    BY <1>3 DEF RenameSave
  <2>3. t \in BOOLEAN
    OBVIOUS
  <2>4. saved' \in FileType /\ saved'.torn = t /\ saved'.status # "success"
    BY <2>1, <2>3 DEF FileTypes, FileType
  <2>5. /\ uploader' \in [Uploaders -> UploaderType]
        /\ \A u \in Uploaders : uploader'[u] = uploader[u] \/ uploader'[u].at = "read"
    BY <2>2 DEF FileTypes, Spawned, NoProcess, UploaderPlace, UploaderType
  <2>6. FileTypes'
    <3>1. disturbed' \in BOOLEAN  BY <2>2
    <3> QED  BY <1>1, <1>2, <2>2, <2>4, <2>5, <3>1 DEF FileTypes, FileType, NoFile
  <2>7. ASSUME ~disturbed' PROVE OneSaver' /\ UploadsAreCurrent'
    <3>1. ~disturbed /\ \A u \in Uploaders : uploader[u].at = "none"
      BY <2>2, <2>7 DEF AtWork
    <3>2. \A x \in Savers \ {w} : saver[x].at # "write"
      BY <1>1, <3>1 DEF OneSaver
    <3>3. Other(w) \in Savers \ {w}
      BY DEF Other, Savers
    <3>4. t = FALSE
      <4>1. ~staged.torn /\ saver[Other(w)].at # "write"  BY <3>1, <3>2, <3>3 DEF OneSaver
      <4> QED  BY <2>3, <4>1
    <3>5. OneSaver'
      BY <1>2, <2>2, <2>4, <3>2, <3>4 DEF OneSaver, NoFile
    <3>6. UploadsAreCurrent'
      BY <2>4, <2>5, <3>1 DEF UploadsAreCurrent
    <3> QED  BY <3>5, <3>6
  <2> QED  BY <2>6, <2>7
<1>4. CASE staged.inode = 0
  <2>1. disturbed /\ UNCHANGED <<staged, uploader, disturbed>>
    BY <1>1, <1>4 DEF RenameSave, OneSaver
  <2>2. PICK t \in BOOLEAN, v \in {saved.holds, saver[w].read} :
           saved' = [saved EXCEPT !.holds = v, !.torn = t, !.status = StatusOfSave]
    BY <1>4 DEF RenameSave
  <2>3. v \in Nat  BY DEF FileTypes, FileType
  <2>4. saved' \in FileType
    BY <2>2, <2>3 DEF FileTypes, FileType, StatusOfSave
  <2> QED  BY <1>1, <1>2, <2>1, <2>4 DEF FileTypes
<1>5. staged.inode # 0 \/ staged.inode = 0
  OBVIOUS
<1> QED  BY <1>3, <1>4, <1>5

\* The processes, but for their last step.
LEMMA UploadersKeep ==
    ASSUME UploadInv, NEW u \in Uploaders,
           \/ RetryUploads(u) \/ UploaderReads(u) \/ UploadFile(u) \/ UploadFails(u) \/ NoToken(u)
           \/ OpenForStatus(u)
    PROVE  UploadInv'
<1> USE DEF UploadInv
<1>1. /\ UNCHANGED <<trajectory, saver, staged, saved, disturbed>>
      /\ saves' \in Nat
      /\ uploader' \in [Uploaders -> UploaderType]
  <2>1. UNCHANGED <<trajectory, saver, staged, saved, disturbed>> /\ saves' \in {saves, saves + 1}
    BY DEF RetryUploads, UploaderReads, UploadFile, UploadFails, NoToken, OpenForStatus
  <2>2. uploader' \in [Uploaders -> UploaderType]
    <3>1. CASE RetryUploads(u)
      BY <3>1 DEF RetryUploads, Spawned, NoProcess, FileTypes, UploaderPlace, UploaderType
    <3>2. CASE UploaderReads(u)
      BY <3>2 DEF UploaderReads, NoProcess, FileTypes, FileType, UploaderPlace, UploaderType
    <3>3. CASE UploadFile(u)
      BY <3>3 DEF UploadFile, ProcessGoes, FileTypes, UploaderPlace, UploaderType
    <3>4. CASE UploadFails(u)
      BY <3>4 DEF UploadFails, ProcessGoes, FileTypes, UploaderPlace, UploaderType
    <3>5. CASE NoToken(u)
      BY <3>5 DEF NoToken, ProcessGoes, FileTypes, UploaderPlace, UploaderType
    <3>6. CASE OpenForStatus(u)
      <4>1. PICK where \in UploaderPlace, i \in Nat :
               uploader' = [uploader EXCEPT ![u].at = where, ![u].inode = i]
        BY <3>6 DEF OpenForStatus, FileTypes, FileType, UploaderPlace, UploaderType
      <4> QED  BY <4>1 DEF FileTypes, UploaderType
    <3> QED  BY <3>1, <3>2, <3>3, <3>4, <3>5, <3>6
  <2> QED  BY <2>1, <2>2 DEF FileTypes
<1>2. \A x \in Uploaders \ {u} : uploader'[x] = uploader[x]
  BY DEF RetryUploads, UploaderReads, UploadFile, UploadFails, NoToken, OpenForStatus, Spawned,
     ProcessGoes, FileTypes
<1>3. FileTypes'
  BY <1>1 DEF FileTypes
<1>4. ASSUME ~disturbed PROVE OneSaver' /\ UploadsAreCurrent'
  <2>1. OneSaver'  BY <1>1, <1>4 DEF OneSaver
  <2>2. CASE UploadFile(u)
    <3>1. dataset' = saved.holds /\ uploader'[u].at = "succeeded"
      BY <1>4, <2>2 DEF UploadFile, ProcessGoes, UploadsAreCurrent, FileTypes
    <3>2. UploadsAreCurrent'
      BY <1>1, <1>2, <1>4, <3>1 DEF UploadsAreCurrent
    <3> QED  BY <2>1, <3>2
  <2>3. CASE ~UploadFile(u)
    <3>1. dataset' = dataset
      BY <2>3 DEF RetryUploads, UploaderReads, UploadFails, NoToken, OpenForStatus
    <3>2. /\ uploader'[u].at = "upload" => uploader'[u].read = saved.holds
          /\ uploader'[u].at \in {"succeeded", "success"} => uploader[u].at = "succeeded"
      <4>1. CASE RetryUploads(u)
        BY <4>1 DEF RetryUploads, Spawned, NoProcess, FileTypes
      <4>2. CASE UploaderReads(u)
        BY <4>2 DEF UploaderReads, NoProcess, FileTypes
      <4>3. CASE UploadFails(u)
        BY <1>4, <4>3 DEF UploadFails, ProcessGoes, UploadsAreCurrent, FileTypes, UploaderType
      <4>4. CASE NoToken(u)
        BY <4>4 DEF NoToken, ProcessGoes, FileTypes
      <4>5. CASE OpenForStatus(u)
        BY <4>5 DEF OpenForStatus, FileTypes
      <4> QED  BY <2>3, <4>1, <4>2, <4>3, <4>4, <4>5
    <3>3. UploadsAreCurrent'
      BY <1>1, <1>2, <1>4, <3>1, <3>2 DEF UploadsAreCurrent
    <3> QED  BY <2>1, <3>3
  <2> QED  BY <2>2, <2>3
<1> QED  BY <1>1, <1>3, <1>4

\* The status that is written is that of what the file holds.
LEMMA StatusKeeps ==
    ASSUME UploadInv, NEW u \in Uploaders, WriteStatus(u)
    PROVE  UploadInv'
<1> USE DEF UploadInv
<1>1. /\ uploader[u].at \in {"success", "fail"}
      /\ UNCHANGED <<trajectory, saver, staged, dataset, saves, disturbed>>
  BY DEF WriteStatus
<1>2. /\ uploader' \in [Uploaders -> UploaderType]
      /\ \A x \in Uploaders \ {u} : uploader'[x] = uploader[x]
  <2> DEFINE again == uploader[u].at = "success" /\ uploader[u].inode = saved.inode /\ saved.torn
                         /\ uploader[u].attempt + 1 < Attempts
             k == uploader[u].attempt + 1
             retried == [uploader[u] EXCEPT !.at = "upload", !.attempt = k]
  <2>1. uploader' = [uploader EXCEPT ![u] = IF again THEN retried ELSE NoProcess]
    BY DEF WriteStatus
  <2>2. retried \in UploaderType
    <3>1. k \in Nat  BY DEF FileTypes, UploaderType
    <3> HIDE DEF k
    <3> QED  BY <3>1 DEF FileTypes, UploaderType, UploaderPlace
  <2>3. NoProcess \in UploaderType
    BY DEF NoProcess, UploaderType, UploaderPlace
  <2> HIDE DEF again, retried
  <2> QED  BY <2>1, <2>2, <2>3 DEF FileTypes
<1>3. /\ saved' \in FileType /\ saved'.holds = saved.holds /\ saved'.torn = saved.torn
      /\ saved'.status = "success" =>
             saved.status = "success" \/ uploader[u].at = "success"
  BY <1>1 DEF WriteStatus, FileTypes, FileType
<1>4. FileTypes'
  BY <1>1, <1>2, <1>3 DEF FileTypes
<1>5. ASSUME ~disturbed PROVE OneSaver' /\ UploadsAreCurrent'
  <2>1. OneSaver'  BY <1>1, <1>3, <1>5 DEF OneSaver
  <2>2. uploader'[u] = NoProcess
    BY <1>5 DEF WriteStatus, OneSaver, FileTypes
  <2>3. UploadsAreCurrent'
    BY <1>1, <1>2, <1>3, <1>5, <2>2 DEF UploadsAreCurrent, NoProcess
  <2> QED  BY <2>1, <2>3
<1> QED  BY <1>1, <1>4, <1>5

(* The invariant of the file holds in every state.                         *)
THEOREM UploadInvariance == UploadSpec => []UploadInv
<1>1. ASSUME UploadInv, UploadNext PROVE UploadInv'
  <2>1. ASSUME Progress PROVE UploadInv'
    BY <1>1, <2>1 DEF UploadInv, FileTypes, OneSaver, UploadsAreCurrent, Progress
  <2> QED  BY <1>1, <2>1, StageKeeps, RenameKeeps, UploadersKeep, StatusKeeps DEF UploadNext
<1>2. ASSUME UploadInv, UNCHANGED uploadVars PROVE UploadInv'
  BY <1>2 DEF UploadInv, FileTypes, OneSaver, UploadsAreCurrent, uploadVars
<1> QED  BY <1>1, <1>2, UploadsStart, PTL DEF UploadSpec

(* When nothing is at work an undisturbed file that counts as uploaded is  *)
(* what the dataset holds (_update_upload_status).                         *)
THEOREM UploadedIsThere == UploadSpec => []UploadedIsInDataset
<1>1. UploadInv => UploadedIsInDataset
  BY DEF UploadInv, UploadsAreCurrent, UploadedIsInDataset
<1> QED  BY <1>1, UploadInvariance, PTL

\* Nothing holds more of the trajectory than there is.
UploadBounds ==
    /\ staged.holds <= trajectory /\ saved.holds <= trajectory
    /\ dataset \in Nat /\ dataset <= trajectory
    /\ \A w \in Savers : saver[w].read <= trajectory
    /\ \A u \in Uploaders : uploader[u].read <= trajectory /\ uploader[u].attempt < Attempts

\* A process that starts, goes on or ends stays within the bounds.
LEMMA ProcessBounds ==
    ASSUME UploadInv, UploadBounds, NEW u \in Uploaders,
           NEW r \in UploaderType, uploader' = [uploader EXCEPT ![u] = r],
           r.read <= trajectory, r.attempt < Attempts,
           UNCHANGED <<trajectory, saver, staged>>,
           saved'.holds = saved.holds,
           dataset' \in {dataset, uploader[u].read}
    PROVE  UploadBounds'
<1>1. uploader \in [Uploaders -> UploaderType]
  BY DEF UploadInv, FileTypes
<1>2. \A x \in Uploaders : uploader'[x] = IF x = u THEN r ELSE uploader[x]
  BY <1>1
<1>3. dataset' \in Nat /\ dataset' <= trajectory
  BY <1>1 DEF UploadBounds, UploaderType
<1> QED  BY <1>2, <1>3 DEF UploadBounds

(* Neither the session file nor the dataset runs ahead of the trajectory,  *)
(* and no process makes more attempts than max_retries (upload_to_repo).   *)
THEOREM UploadTypeCorrect == UploadSpec => []UploadTypeOK
<1> USE UploadAssumption
<1>1. UploadInit => UploadBounds
  BY DEF UploadInit, UploadBounds, NoFile, NoSave, NoProcess
<1>2. ASSUME UploadInv, UploadBounds, [UploadNext]_uploadVars PROVE UploadBounds'
  <2> USE <1>2
  <2>0. /\ uploader \in [Uploaders -> UploaderType]
        /\ saver \in [Savers -> [at: {"idle", "write"}, read: Nat]]
        /\ staged \in FileType /\ saved \in FileType /\ trajectory \in Nat
    BY DEF UploadInv, FileTypes
  <2>a. Attempts \in Nat /\ Attempts >= 1
    OBVIOUS
  <2>n. NoProcess \in UploaderType /\ NoProcess.read = 0 /\ NoProcess.attempt = 0
    BY DEF NoProcess, UploaderType, UploaderPlace
  <2>s. ASSUME NEW u \in Uploaders
        PROVE  [NoProcess EXCEPT !.at = "read"] \in UploaderType
    BY DEF NoProcess, UploaderType, UploaderPlace
  <2>1. CASE Progress
    <3>1. trajectory' = trajectory + 1
          /\ UNCHANGED <<saver, staged, saved, uploader, dataset>>
      BY <2>1 DEF Progress
    <3>2. \A n \in Nat : n <= trajectory => n <= trajectory'
      BY <3>1, <2>0
    <3> QED  BY <3>1, <3>2, <2>0 DEF UploadBounds, FileType, UploaderType
  <2>2. ASSUME NEW w \in Savers, StageSave(w) PROVE UploadBounds'
    <3>1. /\ staged'.holds = trajectory
          /\ \A x \in Savers : saver'[x].read \in {saver[x].read, trajectory}
          /\ UNCHANGED <<trajectory, saved, uploader, dataset>>
      BY <2>2, <2>0 DEF StageSave
    <3> QED  BY <3>1, <2>0 DEF UploadBounds
  <2>3. ASSUME NEW w \in Savers, RenameSave(w) PROVE UploadBounds'
    <3>1. \A x \in Savers : saver'[x].read \in {saver[x].read, 0}
      <4>1. saver' = [saver EXCEPT ![w] = NoSave]
        BY <2>3 DEF RenameSave
      <4>2. NoSave.read = 0
        BY DEF NoSave
      <4>3. \A x \in Savers : saver'[x] = IF x = w THEN NoSave ELSE saver[x]
        BY <4>1, <2>0, Zenon
      <4> QED  BY <4>2, <4>3, Zenon
    <3>2. staged'.holds \in {staged.holds, 0}
      <4>1. staged' = NoFile \/ staged' = staged
        BY <2>3, Zenon DEF RenameSave
      <4>2. NoFile.holds = 0
        BY DEF NoFile
      <4> QED  BY <4>1, <4>2, Zenon
    <3>3. saved'.holds \in {staged.holds, saved.holds, saver[w].read}
      BY <2>3, <2>0 DEF RenameSave, FileType
    <3>4. \A x \in Uploaders : uploader'[x] \in {uploader[x], [NoProcess EXCEPT !.at = "read"]}
      BY <2>3, <2>0 DEF RenameSave, Spawned
    <3>5. UNCHANGED <<trajectory, dataset>>
      BY <2>3 DEF RenameSave
    <3>6. \A x \in Uploaders : uploader'[x].read \in {uploader[x].read, 0}
                               /\ uploader'[x].attempt \in {uploader[x].attempt, 0}
      BY <3>4 DEF NoProcess
    <3> QED  BY <3>1, <3>2, <3>3, <3>5, <3>6, <2>0 DEF UploadBounds
  <2>4. ASSUME NEW u \in Uploaders, RetryUploads(u) PROVE UploadBounds'
    <3>1. uploader' = [uploader EXCEPT ![u] = [NoProcess EXCEPT !.at = "read"]]
          /\ UNCHANGED <<trajectory, saver, staged, saved, dataset>>
      BY <2>4 DEF RetryUploads, Spawned
    <3>2. PICK r \in UploaderType : /\ r = [NoProcess EXCEPT !.at = "read"]
                                    /\ r.read = 0 /\ r.attempt = 0
      BY <2>s DEF NoProcess
    <3>3. r.read <= trajectory /\ r.attempt < Attempts
      BY <3>2, <2>0, <2>a
    <3>4. uploader' = [uploader EXCEPT ![u] = r]
      BY <3>1, <3>2
    <3> QED  BY <3>1, <3>3, <3>4, ProcessBounds
  <2>5. ASSUME NEW u \in Uploaders, UploaderReads(u) PROVE UploadBounds'
    <3> DEFINE r == IF saved.torn \/ saved.status = "success" THEN NoProcess
                    ELSE [uploader[u] EXCEPT !.at = "upload", !.read = saved.holds]
    <3>1. uploader' = [uploader EXCEPT ![u] = r]
          /\ UNCHANGED <<trajectory, saver, staged, saved, dataset>>
      BY <2>5 DEF UploaderReads
    <3>2. r \in UploaderType /\ r.read <= trajectory /\ r.attempt < Attempts
      <4>1. uploader[u] \in UploaderType /\ saved.holds \in Nat /\ saved.holds <= trajectory
            /\ uploader[u].attempt < Attempts
        BY <2>0 DEF FileType, UploadBounds
      <4>2. r = NoProcess \/ r = [uploader[u] EXCEPT !.at = "upload", !.read = saved.holds]
        OBVIOUS
      <4>3. [uploader[u] EXCEPT !.at = "upload", !.read = saved.holds] \in UploaderType
        BY <4>1 DEF UploaderType, UploaderPlace
      <4>4. /\ [uploader[u] EXCEPT !.at = "upload", !.read = saved.holds].read = saved.holds
            /\ [uploader[u] EXCEPT !.at = "upload", !.read = saved.holds].attempt
                   = uploader[u].attempt
        BY <4>1 DEF UploaderType
      <4> HIDE DEF r
      <4>5. CASE r = NoProcess
        BY <4>5, <2>0, <2>n, <2>a
      <4> QED  BY <4>1, <4>2, <4>3, <4>4, <4>5
    <3> HIDE DEF r
    <3> QED  BY <3>1, <3>2, ProcessBounds
  <2>6. ASSUME NEW u \in Uploaders,
               UploadFile(u) \/ UploadFails(u) \/ NoToken(u) \/ OpenForStatus(u)
        PROVE  UploadBounds'
    <3>1. PICK r \in UploaderType : /\ uploader' = [uploader EXCEPT ![u] = r]
                                    /\ r.read = uploader[u].read /\ r.attempt < Attempts
      <4> DEFINE a == [uploader[u] EXCEPT !.at = "succeeded"]
                 b == [uploader[u] EXCEPT !.attempt = @ + 1]
                 c == [uploader[u] EXCEPT !.at = "failed"]
                 d == [uploader[u] EXCEPT !.at = IF @ = "failed" THEN "fail" ELSE "success",
                                          !.inode = saved.inode]
      <4>1. \A x \in {a, c, d} : x \in UploaderType /\ x.read = uploader[u].read
                                 /\ x.attempt < Attempts
        <5>1. uploader[u] \in UploaderType /\ saved.inode \in Nat
              /\ uploader[u].attempt < Attempts
          BY <2>0 DEF FileType, UploadBounds
        <5>2. a \in UploaderType /\ c \in UploaderType /\ d \in UploaderType
          BY <5>1 DEF UploaderType, UploaderPlace
        <5>3. /\ a.read = uploader[u].read /\ a.attempt = uploader[u].attempt
              /\ c.read = uploader[u].read /\ c.attempt = uploader[u].attempt
              /\ d.read = uploader[u].read /\ d.attempt = uploader[u].attempt
          BY <5>1 DEF UploaderType
        <5> HIDE DEF a, c, d
        <5> QED  BY <5>1, <5>2, <5>3
      <4>2. b \in UploaderType /\ b.read = uploader[u].read
            /\ b.attempt = uploader[u].attempt + 1
        BY <2>0 DEF UploaderType, UploaderPlace
      <4>3. CASE UploadFile(u)
        BY <4>1, <4>3, <2>0 DEF UploadFile, ProcessGoes
      <4>4. CASE UploadFails(u)
        BY <4>1, <4>2, <4>4, <2>0 DEF UploadFails, ProcessGoes
      <4>5. CASE NoToken(u)
        BY <4>1, <4>5, <2>0 DEF NoToken, ProcessGoes
      <4>6. CASE OpenForStatus(u)
        BY <4>1, <4>6, <2>0 DEF OpenForStatus
      <4> QED  BY <2>6, <4>3, <4>4, <4>5, <4>6
    <3>2. /\ UNCHANGED <<trajectory, saver, staged, saved>>
          /\ dataset' \in {dataset, uploader[u].read}
      BY <2>6 DEF UploadFile, UploadFails, NoToken, OpenForStatus
    <3>3. r.read <= trajectory
      BY <3>1 DEF UploadBounds
    <3> QED  BY <3>1, <3>2, <3>3, ProcessBounds
  <2>7. ASSUME NEW u \in Uploaders, WriteStatus(u) PROVE UploadBounds'
    <3> DEFINE again == /\ uploader[u].at = "success" /\ uploader[u].inode = saved.inode
                        /\ saved.torn /\ uploader[u].attempt + 1 < Attempts
               r == IF again THEN [uploader[u] EXCEPT !.at = "upload",
                                                      !.attempt = uploader[u].attempt + 1]
                    ELSE NoProcess
    <3>1. uploader' = [uploader EXCEPT ![u] = r]
          /\ UNCHANGED <<trajectory, saver, staged, dataset>>
      BY <2>7 DEF WriteStatus
    <3>2. saved'.holds = saved.holds
      BY <2>7, <2>0 DEF WriteStatus, FileType
    <3>3. r \in UploaderType /\ r.read <= trajectory /\ r.attempt < Attempts
      <4>0. uploader[u].attempt + 1 \in Nat
        BY <2>0 DEF UploaderType
      <4> PICK k \in Nat : k = uploader[u].attempt + 1
        BY <4>0
      <4> DEFINE e == [uploader[u] EXCEPT !.at = "upload", !.attempt = k]
      <4>1. uploader[u] \in UploaderType /\ uploader[u].read <= trajectory
        BY <2>0 DEF UploadBounds
      <4>2. e \in UploaderType
        BY <4>1 DEF UploaderType, UploaderPlace
      <4>3. e.read = uploader[u].read /\ e.attempt = uploader[u].attempt + 1
        BY <4>1 DEF UploaderType
      <4>4. r = NoProcess \/ (uploader[u].attempt + 1 < Attempts /\ r = e)
        BY DEF again
      <4> HIDE DEF r, e, again
      <4>5. CASE r = NoProcess
        BY <4>5, <2>0, <2>n, <2>a
      <4> QED  BY <4>1, <4>2, <4>3, <4>4, <4>5
    <3> HIDE DEF r, again
    <3> QED  BY <3>1, <3>2, <3>3, ProcessBounds
  <2>8. CASE UNCHANGED uploadVars
    BY <2>8 DEF UploadBounds, uploadVars
  <2> QED  BY <2>1, <2>2, <2>3, <2>4, <2>5, <2>6, <2>7, <2>8 DEF UploadNext
<1>3. UploadBounds => UploadTypeOK
  BY DEF UploadBounds, UploadTypeOK
<1> QED  BY <1>1, <1>2, <1>3, UploadInvariance, PTL DEF UploadSpec
-----------------------------------------------------------------------------
(***************************************************************************)
(* The command line. One thing at a time is owed to the user who waits: an *)
(* operation in the queue, a turn, an event that ends it, the set event or *)
(* the question of an approval.                                            *)
(***************************************************************************)
\* What ends an operation at the prompt, or asks for an approval of it.
PromptEndings == PromptEvents \cup {"approval_required"}
FeedEvents == PromptEndings \cup {"session_terminated", "compacted", "shutdown"}
NoEnding(s) == \A i \in 1 .. Len(s) : s[i] \notin PromptEndings
OneEnding(s) == \A i, j \in 1 .. Len(s) : s[i] \in PromptEndings /\ s[j] \in PromptEndings => i = j

CliTypes ==
    /\ submissions \in Seq(Typed \cup {"approval", "shutdown"})
    /\ feed \in Seq(FeedEvents)
    /\ loopAt \in {"ready", "tools", "turn", "over"}

\* At most one of these is owed to the user; at the prompt, none.
OpQueued == submissions # <<>>
Handled == loopAt \in {"tools", "turn"}
Fed == ~NoEnding(feed)
Asking == listener = "asking"

OneOwed ==
    /\ Len(submissions) <= 1 /\ OneEnding(feed)
    /\ OpQueued => ~Handled /\ ~Fed /\ ~turnDone /\ ~Asking
    /\ Handled => ~Fed /\ ~turnDone /\ ~Asking
    /\ Fed => ~turnDone /\ ~Asking
    /\ turnDone => ~Asking
    /\ terminal = "asked" => ~OpQueued /\ ~Handled /\ ~Fed /\ ~turnDone /\ ~Asking

\* While the terminal prompts and waits, no press quits and no operation ended twice.
Attended == terminal \in {"wait", "asked"} /\ ~quitting /\ ~doubled

CliInv ==
    /\ CliTypes
    /\ terminal = "asked" => ~quitting
    /\ Attended => OneOwed

-----------------------------------------------------------------------------
\* PromptEndings in a sequence that grows and shrinks.
LEMMA FeedGrows ==
    ASSUME NEW s \in Seq(FeedEvents), NEW t \in Seq(FeedEvents), NoEnding(s)
    PROVE  /\ s \o t \in Seq(FeedEvents)
           /\ NoEnding(t) => NoEnding(s \o t)
           /\ OneEnding(t) => OneEnding(s \o t)
<1>1. /\ s \o t \in Seq(FeedEvents) /\ Len(s \o t) = Len(s) + Len(t)
      /\ \A i \in 1 .. Len(s) + Len(t) : (s \o t)[i] = IF i <= Len(s) THEN s[i] ELSE t[i - Len(s)]
      /\ Len(s) \in Nat /\ Len(t) \in Nat
  BY ConcatProperties, LenProperties
<1> DEFINE w == s \o t
<1>2. ASSUME NEW i \in 1 .. Len(w), w[i] \in PromptEndings
      PROVE  i - Len(s) \in 1 .. Len(t) /\ t[i - Len(s)] \in PromptEndings
  <2>1. CASE i <= Len(s)
    <3>1. i \in 1 .. Len(s) /\ w[i] = s[i]  BY <1>1, <2>1
    <3> QED  BY <3>1, <1>2 DEF NoEnding
  <2>2. CASE ~(i <= Len(s))
    <3>1. i - Len(s) \in 1 .. Len(t) /\ w[i] = t[i - Len(s)]  BY <1>1, <2>2
    <3> QED  BY <3>1, <1>2
  <2> QED  BY <2>1, <2>2
<1>3. Len(w) \in Nat  BY <1>1
<1> HIDE DEF w
<1>4. NoEnding(t) => NoEnding(w)
  BY <1>2 DEF NoEnding
<1>5. OneEnding(t) => OneEnding(w)
  <2> SUFFICES ASSUME OneEnding(t), NEW i \in 1 .. Len(w), NEW j \in 1 .. Len(w),
                      w[i] \in PromptEndings, w[j] \in PromptEndings
               PROVE  i = j
    BY DEF OneEnding
  <2>1. i - Len(s) = j - Len(s)
    BY <1>2 DEF OneEnding
  <2> QED  BY <2>1, <1>1, <1>3
<1> QED  BY <1>1, <1>4, <1>5 DEF w

LEMMA FeedShrinks ==
    ASSUME NEW s \in Seq(FeedEvents), s # <<>>, OneEnding(s)
    PROVE  /\ OneEnding(Tail(s))
           /\ Head(s) \in PromptEndings => NoEnding(Tail(s)) /\ ~NoEnding(s)
           /\ Head(s) \notin PromptEndings => (NoEnding(Tail(s)) <=> NoEnding(s))
<1>1. /\ Tail(s) \in Seq(FeedEvents) /\ Len(Tail(s)) + 1 = Len(s)
      /\ Head(s) = s[1] /\ Len(s) \in Nat /\ Len(Tail(s)) \in Nat
      /\ \A i \in 1 .. Len(Tail(s)) : Tail(s)[i] = s[i + 1]
  BY HeadTailProperties, LenProperties
<1> DEFINE w == Tail(s)
<1>2. ASSUME NEW i \in 1 .. Len(w) PROVE i + 1 \in 1 .. Len(s) /\ w[i] = s[i + 1] /\ i + 1 # 1
  BY <1>1
<1>3. 1 \in 1 .. Len(s)  BY <1>1
<1>4. ASSUME NEW i \in 1 .. Len(s), i # 1 PROVE i - 1 \in 1 .. Len(w) /\ s[i] = w[i - 1]
  <2>1. i - 1 \in 1 .. Len(w) /\ (i - 1) + 1 = i  BY <1>1, <1>4
  <2> QED  BY <2>1, <1>1
<1>5. Head(s) = s[1] /\ Len(w) \in Nat  BY <1>1
<1> HIDE DEF w
<1>6. OneEnding(w)
  <2> SUFFICES ASSUME NEW i \in 1 .. Len(w), NEW j \in 1 .. Len(w),
                      w[i] \in PromptEndings, w[j] \in PromptEndings
               PROVE  i = j
    BY DEF OneEnding
  <2>1. i + 1 = j + 1  BY <1>2 DEF OneEnding
  <2> QED  BY <2>1
<1>7. Head(s) \in PromptEndings => NoEnding(w)
  <2> SUFFICES ASSUME Head(s) \in PromptEndings, NEW i \in 1 .. Len(w), w[i] \in PromptEndings PROVE FALSE
    BY DEF NoEnding
  <2> QED  BY <1>2, <1>3, <1>5 DEF OneEnding
<1>8. Head(s) \in PromptEndings => ~NoEnding(s)
  BY <1>3, <1>5 DEF NoEnding
<1>9. Head(s) \notin PromptEndings => (NoEnding(w) <=> NoEnding(s))
  BY <1>2, <1>4, <1>5 DEF NoEnding
<1> QED  BY <1>6, <1>7, <1>8, <1>9 DEF w

\* A queue of one operation is empty when it is taken.
LEMMA QueueOfOne ==
    ASSUME NEW S, NEW s \in Seq(S), s # <<>>
    PROVE  /\ Tail(s) \in Seq(S) /\ Len(s) >= 1
           /\ Len(s) <= 1 => Tail(s) = <<>>
<1>1. Tail(s) \in Seq(S) /\ Len(Tail(s)) = Len(s) - 1 /\ Len(s) \in Nat /\ Len(s) # 0
  BY HeadTailProperties, LenProperties, EmptySeq
<1>2. Len(Tail(s)) = 0 => Tail(s) = <<>>
  BY <1>1, EmptySeq
<1> QED  BY <1>1, <1>2

\* A sequence of one element and another element.
LEMMA Pairs ==
    ASSUME NEW a, NEW b
    PROVE  <<a>> \o <<b>> = <<a, b>> /\ Append(<<a>>, b) = <<a, b>>
<1> DEFINE S == {a, b}
<1>1. /\ <<a>> \in Seq(S) /\ <<b>> \in Seq(S) /\ <<a, b>> \in Seq(S) /\ b \in S
      /\ Len(<<a>>) = 1 /\ Len(<<b>>) = 1 /\ Len(<<a, b>>) = 2
      /\ <<a>>[1] = a /\ <<b>>[1] = b /\ <<a, b>>[1] = a /\ <<a, b>>[2] = b
  OBVIOUS
<1>2. ASSUME NEW s \in Seq(S), Len(s) = 2, s[1] = a, s[2] = b PROVE s = <<a, b>>
  <2>1. \A i \in 1 .. 2 : s[i] = <<a, b>>[i]  BY <1>1, <1>2
  <2> QED  BY <1>1, <1>2, <2>1, SeqEqual
<1> DEFINE x == <<a>>
           y == <<b>>
<1>3. /\ x \o y \in Seq(S) /\ Len(x \o y) = Len(x) + Len(y)
      /\ \A i \in 1 .. Len(x) + Len(y) : (x \o y)[i] = IF i <= Len(x) THEN x[i] ELSE y[i - Len(x)]
  BY <1>1, ConcatProperties
<1>4. /\ Append(x, b) \in Seq(S) /\ Len(Append(x, b)) = Len(x) + 1
      /\ \A i \in 1 .. Len(x) : Append(x, b)[i] = x[i]
      /\ Append(x, b)[Len(x) + 1] = b
  BY <1>1, AppendProperties
<1>5. /\ Len(x) = 1 /\ Len(y) = 1 /\ x[1] = a /\ y[1] = b
  OBVIOUS
<1> HIDE DEF x, y
<1>6. Len(x \o y) = 2 /\ (x \o y)[1] = a /\ (x \o y)[2] = b
  BY <1>3, <1>5
<1>7. Len(Append(x, b)) = 2 /\ Append(x, b)[1] = a /\ Append(x, b)[2] = b
  BY <1>4, <1>5
<1>8. x \o y = <<a, b>> /\ Append(x, b) = <<a, b>>
  BY <1>2, <1>3, <1>4, <1>6, <1>7
<1> QED  BY <1>8 DEF x, y

\* The sequences of events that a step of the loop emits.
LEMMA ShortFeeds ==
    /\ <<>> \in Seq(FeedEvents) /\ OneEnding(<<>>)
    /\ \A e \in FeedEvents : <<e>> \in Seq(FeedEvents) /\ OneEnding(<<e>>)
    /\ \A e, f \in FeedEvents : /\ <<e, f>> \in Seq(FeedEvents)
                                /\ e \notin PromptEndings => OneEnding(<<e, f>>)
<1>1. <<>> \in Seq(FeedEvents) /\ OneEnding(<<>>)
  BY DEF OneEnding
<1>2. ASSUME NEW e \in FeedEvents PROVE <<e>> \in Seq(FeedEvents) /\ OneEnding(<<e>>)
  BY DEF OneEnding
<1>3. ASSUME NEW e \in FeedEvents, NEW f \in FeedEvents
      PROVE  /\ <<e, f>> \in Seq(FeedEvents)
             /\ e \notin PromptEndings => OneEnding(<<e, f>>)
  BY DEF OneEnding
<1> QED  BY <1>1, <1>2, <1>3

-----------------------------------------------------------------------------
\* A step of the loop takes the operation, or ends the turn, that was owed: what it
\* leaves is a turn, or events with one ending among them.
LEMMA LoopMoves ==
    ASSUME CliInv,
           \/ submissions # <<>> /\ submissions' = Tail(submissions)
           \/ Handled /\ UNCHANGED submissions,
           NEW es \in Seq(FeedEvents), feed' = feed \o es \/ (UNCHANGED feed /\ es = <<>>),
           loopAt' \in {"ready", "tools", "turn", "over"},
           doubled => doubled',
           doubled' \/ (OneEnding(es) /\ (loopAt' \in {"tools", "turn"} => es = <<>>)),
           MainFrame
    PROVE  CliInv'
<1>1. feed \in Seq(FeedEvents) /\ submissions \in Seq(Typed \cup {"approval", "shutdown"})
  BY DEF CliInv, CliTypes
<1>2. /\ feed' \in Seq(FeedEvents)
      /\ NoEnding(feed) /\ OneEnding(es) => OneEnding(feed')
      /\ NoEnding(feed) /\ es = <<>> => NoEnding(feed')
  <2>1. es = <<>> => NoEnding(es)
    BY DEF NoEnding
  <2>2. NoEnding(feed) => OneEnding(feed)
    BY DEF NoEnding, OneEnding
  <2>3. CASE feed' = feed \o es
    <3>1. feed \o es \in Seq(FeedEvents)  BY <1>1, ConcatProperties
    <3> QED  BY <1>1, <2>1, <2>3, <3>1, FeedGrows
  <2>4. CASE UNCHANGED feed /\ es = <<>>
    BY <1>1, <2>2, <2>4
  <2> QED  BY <2>3, <2>4
<1>3. submissions' \in Seq(Typed \cup {"approval", "shutdown"})
  BY <1>1, QueueOfOne
<1>4. CliTypes'
  BY <1>2, <1>3 DEF CliTypes
<1>5. terminal' = terminal /\ turnDone' = turnDone /\ listener' = listener /\ quitting' = quitting
  BY DEF MainFrame, keyVars
<1>6. ASSUME Attended' PROVE OneOwed'
  <2>1. Attended /\ OneOwed /\ ~doubled'
    BY <1>5, <1>6 DEF Attended, CliInv
  <2>2. submissions' = <<>> /\ (OpQueued \/ Handled)
    <3>1. CASE submissions # <<>> /\ submissions' = Tail(submissions)
      <4>1. Len(submissions) <= 1  BY <2>1 DEF OneOwed
      <4> QED  BY <1>1, <3>1, <4>1, QueueOfOne DEF OpQueued
    <3>2. CASE Handled /\ UNCHANGED submissions
      BY <2>1, <3>2 DEF OneOwed, OpQueued
    <3> QED  BY <3>1, <3>2
  <2>3. NoEnding(feed) /\ ~turnDone /\ listener # "asking" /\ terminal # "asked"
    BY <2>1, <2>2 DEF OneOwed, Fed, Asking
  <2>4. OneEnding(feed') /\ (loopAt' \in {"tools", "turn"} => NoEnding(feed'))
    BY <1>2, <2>1, <2>3
  <2>5. Len(submissions') <= 1
    BY <2>2
  <2> QED  BY <1>5, <2>2, <2>3, <2>4, <2>5 DEF OneOwed, OpQueued, Handled, Fed, Asking
<1> QED  BY <1>4, <1>5, <1>6 DEF CliInv

\* The operations of submission_loop.
LEMMA OperationsKeep ==
    ASSUME CliInv,
           \/ TakesInput \/ TakesApproval \/ TakesCompact \/ TakesUndo \/ TakesNew \/ TakesResume
           \/ TakesShutdown
    PROVE  CliInv'
<1>1. submissions # <<>> /\ submissions' = Tail(submissions) /\ loopAt = "ready" /\ MainFrame
  BY DEF TakesInput, TakesApproval, TakesCompact, TakesUndo, TakesNew, TakesResume, TakesShutdown,
     Takes
<1>2. doubled => doubled'
  BY DEF TakesInput, TakesApproval, TakesCompact, TakesUndo, TakesNew, TakesResume, TakesShutdown,
     loopVars
<1>3. \E es \in {<<>>, <<"error">>, <<"compacted">>, <<"session_terminated">>, <<"done">>,
                 <<"shutdown">>} :
         /\ feed' = feed \o es \/ (UNCHANGED feed /\ es = <<>>)
         /\ loopAt' \in {"tools", "turn"} => es = <<>>
  <2>1. CASE TakesInput \/ TakesApproval
    <3>1. UNCHANGED feed \/ (Emits(<<"error">>) /\ loopAt' = "ready")
      BY <2>1, <1>1 DEF TakesInput, TakesApproval
    <3> QED  BY <3>1 DEF Emits
  <2>2. CASE TakesCompact \/ TakesShutdown
    <3>1. /\ \E es \in {<<>>, <<"error">>, <<"compacted">>, <<"session_terminated">>,
                        <<"shutdown">>} : Emits(es)
          /\ loopAt' \in {"ready", "over"}
      BY <2>2 DEF TakesCompact, TakesShutdown, NextOp
    <3> QED  BY <3>1 DEF Emits
  <2>3. CASE TakesUndo \/ TakesNew \/ TakesResume
    <3>1. (Emits(<<"done">>) \/ Emits(<<"error">>)) /\ loopAt' = "ready"
      BY <2>3, <1>1 DEF TakesUndo, TakesNew, TakesResume, loopVars
    <3> QED  BY <3>1 DEF Emits
  <2> QED  BY <2>1, <2>2, <2>3
<1>4. \A es \in {<<>>, <<"error">>, <<"compacted">>, <<"session_terminated">>, <<"done">>,
                 <<"shutdown">>} : es \in Seq(FeedEvents) /\ OneEnding(es)
  BY ShortFeeds DEF FeedEvents, PromptEndings, PromptEvents
<1>5. loopAt' \in {"ready", "tools", "turn", "over"}
  BY <1>1 DEF TakesInput, TakesApproval, TakesCompact, TakesUndo, TakesNew, TakesResume,
     TakesShutdown, NextOp, loopVars
<1> QED  BY <1>1, <1>2, <1>3, <1>4, <1>5, LoopMoves

\* The approved tools, and the turn.
LEMMA TurnsKeep ==
    ASSUME CliInv,
           ApprovedToolsEnd \/ AgentAsksApproval \/ \E failed \in BOOLEAN : AgentReturns(failed)
    PROVE  CliInv'
<1>1. Handled /\ UNCHANGED submissions /\ MainFrame
  BY DEF ApprovedToolsEnd, AgentAsksApproval, AgentReturns, Handled
<1>2. doubled => doubled'
  BY DEF ApprovedToolsEnd, AgentAsksApproval, AgentReturns
<1>3. loopAt' \in {"ready", "tools", "turn", "over"}
  BY DEF ApprovedToolsEnd, AgentAsksApproval, AgentReturns, NextOp
<1>4. \E es \in Seq(FeedEvents) :
         /\ feed' = feed \o es \/ (UNCHANGED feed /\ es = <<>>)
         /\ doubled' \/ (OneEnding(es) /\ (loopAt' \in {"tools", "turn"} => es = <<>>))
  <2>1. CASE ApprovedToolsEnd
    <3>1. \/ Emits(<<"interrupted">>) /\ loopAt' = "ready"
          \/ UNCHANGED feed
      BY <2>1 DEF ApprovedToolsEnd
    <3> QED  BY <3>1, ShortFeeds DEF Emits, FeedEvents, PromptEndings, PromptEvents
  <2>2. CASE AgentAsksApproval
    <3>1. Emits(<<"approval_required">>) /\ loopAt' = "ready"
      BY <2>2 DEF AgentAsksApproval
    <3> QED  BY <3>1, ShortFeeds DEF Emits, FeedEvents, PromptEndings
  <2>3. ASSUME NEW failed \in BOOLEAN, AgentReturns(failed)
        PROVE \E es \in Seq(FeedEvents) :
                 /\ feed' = feed \o es
                 /\ doubled' \/ (OneEnding(es) /\ (loopAt' \in {"tools", "turn"} => es = <<>>))
    <3> DEFINE first == IF failed THEN <<"session_terminated">> ELSE <<>>
               St == "session_terminated"
    <3>1. loopAt' \in {"ready", "over"}
      BY <2>3 DEF AgentReturns, NextOp
    <3>2. \/ Emits(first \o <<"interrupted">>)
          \/ Emits(<<"error", "interrupted">>) /\ doubled'
          \/ Emits(<<"error">>)
          \/ Emits(first)
          \/ Emits(Append(first, "turn_complete"))
      BY <2>3 DEF AgentReturns
    <3>3. first \in {<<>>, <<St>>}
      OBVIOUS
    <3>4. /\ first \o <<"interrupted">> \in {<<"interrupted">>, <<St, "interrupted">>}
          /\ Append(first, "turn_complete") \in {<<"turn_complete">>, <<St, "turn_complete">>}
      <4>1. CASE failed
        <5>1. first = <<St>>  BY <4>1
        <5>2. <<St>> \o <<"interrupted">> = <<St, "interrupted">>
          BY Pairs
        <5>3. Append(<<St>>, "turn_complete") = <<St, "turn_complete">>
          BY Pairs
        <5> QED  BY <5>1, <5>2, <5>3
      <4>2. CASE ~failed  BY <4>2
      <4> QED  BY <4>1, <4>2
    <3>5. /\ {"error", "interrupted", "turn_complete", St} \subseteq FeedEvents
          /\ St \notin PromptEndings
      BY DEF FeedEvents, PromptEndings, PromptEvents
    <3> HIDE DEF first, St
    <3>6. \A es \in {<<>>, <<St>>, <<"error">>, <<"interrupted">>, <<St, "interrupted">>,
                     <<"turn_complete">>, <<St, "turn_complete">>} :
             es \in Seq(FeedEvents) /\ OneEnding(es)
      BY <3>5, ShortFeeds
    <3>7. <<"error", "interrupted">> \in Seq(FeedEvents)
      BY <3>5, ShortFeeds
    <3>8. \E es \in Seq(FeedEvents) : feed' = feed \o es /\ (doubled' \/ OneEnding(es))
      <4>1. CASE Emits(<<"error", "interrupted">>) /\ doubled'
        BY <4>1, <3>7 DEF Emits
      <4>2. ASSUME NEW es \in {<<>>, <<St>>, <<"error">>, <<"interrupted">>, <<St, "interrupted">>,
                               <<"turn_complete">>, <<St, "turn_complete">>}, Emits(es)
            PROVE  \E fs \in Seq(FeedEvents) : feed' = feed \o fs /\ (doubled' \/ OneEnding(fs))
        BY <4>2, <3>6 DEF Emits
      <4> QED  BY <3>2, <3>3, <3>4, <4>1, <4>2
    <3> QED  BY <3>1, <3>8
  <2> QED  BY <2>1, <2>2, <2>3
<1> QED  BY <1>1, <1>2, <1>3, <1>4, LoopMoves

\* The listener shows an event, or asks for an approval.
LEMMA ListenerKeeps ==
    ASSUME CliInv, ListenerTakes \/ ListenerAsks \/ UserApproves
    PROVE  CliInv'
<1>0. feed \in Seq(FeedEvents) /\ submissions \in Seq(Typed \cup {"approval", "shutdown"})
  BY DEF CliInv, CliTypes
<1>1. ASSUME ListenerTakes PROVE CliInv'
  <2>1. /\ feed # <<>> /\ feed' = Tail(feed) /\ Head(feed) # "approval_required"
        /\ turnDone' = (turnDone \/ Head(feed) \in PromptEvents)
        /\ listener = "get" /\ listener' \in {"over", "get"}
        /\ UNCHANGED <<terminal, submissions, loopAt, doubled, quitting>>
    BY <1>1 DEF ListenerTakes, loopVars, keyVars
  <2>2. CliTypes'
    BY <1>0, <2>1, QueueOfOne DEF CliInv, CliTypes
  <2>3. ASSUME Attended' PROVE OneOwed'
    <3>1. OneOwed  BY <2>1, <2>3 DEF Attended, CliInv
    <3>2. /\ OneEnding(feed')
          /\ Head(feed) \in PromptEvents => NoEnding(feed') /\ Fed
          /\ Head(feed) \notin PromptEvents => (NoEnding(feed') <=> ~Fed)
      BY <1>0, <2>1, <3>1, FeedShrinks DEF OneOwed, Fed, PromptEndings
    <3>3. CASE Head(feed) \in PromptEvents
      BY <2>1, <3>1, <3>2, <3>3 DEF OneOwed, OpQueued, Handled, Fed, Asking
    <3>4. CASE Head(feed) \notin PromptEvents
      BY <2>1, <3>1, <3>2, <3>4 DEF OneOwed, OpQueued, Handled, Fed, Asking
    <3> QED  BY <3>3, <3>4
  <2> QED  BY <2>1, <2>2, <2>3 DEF CliInv
<1>2. ASSUME ListenerAsks PROVE CliInv'
  <2>1. /\ feed # <<>> /\ feed' = Tail(feed) /\ Head(feed) = "approval_required"
        /\ \/ submissions' = Append(submissions, "approval") /\ listener' = listener
           \/ listener' \in {"get", "asking"} /\ submissions' = submissions
        /\ listener = "get"
        /\ UNCHANGED <<terminal, turnDone, loopAt, doubled, quitting>>
    BY <1>2 DEF ListenerAsks, Approves, loopVars, keyVars
  <2>2. CliTypes'
    BY <1>0, <2>1, QueueOfOne DEF CliInv, CliTypes
  <2>3. ASSUME Attended' PROVE OneOwed'
    <3>1. OneOwed  BY <2>1, <2>3 DEF Attended, CliInv
    <3>2. OneEnding(feed') /\ NoEnding(feed') /\ Fed
      BY <1>0, <2>1, <3>1, FeedShrinks DEF OneOwed, Fed, PromptEndings
    <3>3. submissions = <<>>
      BY <3>1, <3>2 DEF OneOwed, OpQueued
    <3>4. Len(submissions') <= 1
      <4>1. CASE submissions' = Append(submissions, "approval")  BY <3>3, <4>1
      <4>2. CASE submissions' = submissions  BY <3>3, <4>2
      <4> QED  BY <2>1, <4>1, <4>2
    <3>5. listener' = "asking" => submissions' = <<>>
      BY <2>1, <3>3
    <3> QED  BY <2>1, <3>1, <3>2, <3>4, <3>5 DEF OneOwed, OpQueued, Handled, Fed, Asking
  <2> QED  BY <2>1, <2>2, <2>3 DEF CliInv
<1>3. ASSUME UserApproves PROVE CliInv'
  <2>1. /\ listener = "asking" /\ listener' = "get"
        /\ submissions' = Append(submissions, "approval")
        /\ UNCHANGED <<terminal, turnDone, feed, loopAt, doubled, quitting>>
    BY <1>3 DEF UserApproves, Approves, loopVars
  <2>2. CliTypes'
    BY <1>0, <2>1 DEF CliInv, CliTypes
  <2>3. ASSUME Attended' PROVE OneOwed'
    <3>1. OneOwed  BY <2>1, <2>3 DEF Attended, CliInv
    <3>2. submissions = <<>>
      BY <2>1, <3>1 DEF OneOwed, OpQueued, Asking
    <3>3. Len(submissions') <= 1
      BY <2>1, <3>2
    <3> QED  BY <2>1, <3>1, <3>2, <3>3 DEF OneOwed, OpQueued, Handled, Fed, Asking
  <2> QED  BY <2>1, <2>2, <2>3 DEF CliInv
<1> QED  BY <1>1, <1>2, <1>3

\* The main coroutine, and the user at its prompt.
LEMMA MainKeeps ==
    ASSUME CliInv,
           \/ MainWakes \/ UserTypesCommand \/ UserQuits \/ PressAtPrompt \/ PressWhileWaiting
           \/ WindowPasses \/ MainEnds \/ HeadlessTakes \/ \E op \in Typed : UserTypes(op)
    PROVE  CliInv'
<1>0. feed \in Seq(FeedEvents) /\ submissions \in Seq(Typed \cup {"approval", "shutdown"})
  BY DEF CliInv, CliTypes
<1>1. ASSUME MainWakes PROVE CliInv'
  <2>1. /\ terminal = "wait" /\ turnDone /\ turnDone' = FALSE
        /\ UNCHANGED <<listener, feed, doubled, quitting>>
        /\ \/ /\ terminal' = "closing" /\ loopAt' = loopAt
              /\ submissions' = Append(submissions, "shutdown")
           \/ terminal' = "ended" /\ submissions' = submissions /\ loopAt' = "over"
           \/ terminal' = "asked" /\ submissions' = submissions /\ loopAt' = loopAt /\ ~quitting
    BY <1>1 DEF MainWakes, Leaves, keyVars
  <2>2. CliTypes'
    BY <1>0, <2>1 DEF CliInv, CliTypes
  <2>3. ASSUME Attended' PROVE OneOwed'
    <3>1. OneOwed  BY <2>1, <2>3 DEF Attended, CliInv
    <3> QED  BY <2>1, <2>3, <3>1 DEF Attended, OneOwed, OpQueued, Handled, Fed, Asking
  <2> QED  BY <2>1, <2>2, <2>3 DEF CliInv
<1>2. ASSUME UserTypesCommand \/ PressAtPrompt, terminal' = "wait" PROVE CliInv'
  <2>1. /\ terminal = "asked" /\ turnDone' = TRUE
        /\ UNCHANGED <<listener, submissions, feed, loopAt, doubled, quitting>>
    BY <1>2 DEF UserTypesCommand, PressAtPrompt, Waits, Leaves, loopVars
  <2>2. CliTypes'
    BY <2>1 DEF CliInv, CliTypes
  <2>3. ASSUME Attended' PROVE OneOwed'
    <3>1. OneOwed  BY <2>1, <2>3 DEF Attended, CliInv
    <3> QED  BY <1>2, <2>1, <3>1 DEF OneOwed, OpQueued, Handled, Fed, Asking
  <2> QED  BY <1>2, <2>2, <2>3 DEF CliInv
<1>3. ASSUME NEW op \in Typed, UserTypes(op) PROVE CliInv'
  <2>1. /\ terminal = "asked" /\ terminal' = "wait"
        /\ submissions' = Append(submissions, op)
        /\ UNCHANGED <<turnDone, listener, feed, loopAt, doubled, quitting>>
    BY <1>3 DEF UserTypes, Waits, loopVars
  <2>2. CliTypes'
    BY <1>0, <2>1 DEF CliInv, CliTypes
  <2>3. ASSUME Attended' PROVE OneOwed'
    <3>1. OneOwed  BY <2>1, <2>3 DEF Attended, CliInv
    <3>2. submissions = <<>>
      BY <2>1, <3>1 DEF OneOwed, OpQueued
    <3>3. Len(submissions') <= 1
      BY <2>1, <3>2
    <3> QED  BY <2>1, <3>1, <3>2, <3>3 DEF OneOwed, OpQueued, Handled, Fed, Asking
  <2> QED  BY <2>1, <2>2, <2>3 DEF CliInv
<1>4. ASSUME PressWhileWaiting PROVE CliInv'
  <2>1. /\ terminal = "wait" /\ quitting' = (quitting \/ recent)
        /\ turnDone' = (turnDone \/ recent)
        /\ UNCHANGED <<terminal, listener, submissions, feed, loopAt, doubled>>
    BY <1>4 DEF PressWhileWaiting
  <2>2. CliTypes'
    BY <2>1 DEF CliInv, CliTypes
  <2>3. ASSUME Attended' PROVE OneOwed'
    <3>1. ~recent /\ ~quitting
      BY <2>1, <2>3 DEF Attended
    <3>2. OneOwed  BY <2>1, <2>3, <3>1 DEF Attended, CliInv
    <3>3. turnDone' <=> turnDone  BY <2>1, <3>1
    <3> QED  BY <2>1, <3>2, <3>3 DEF OneOwed, OpQueued, Handled, Fed, Asking
  <2> QED  BY <2>1, <2>2, <2>3 DEF CliInv
<1>5. ASSUME WindowPasses PROVE CliInv'
  BY <1>5 DEF WindowPasses, CliInv, CliTypes, Attended, OneOwed, OpQueued, Handled, Fed, Asking,
     loopVars
<1>6. ASSUME \/ UserQuits \/ MainEnds \/ HeadlessTakes
             \/ PressAtPrompt /\ terminal' # "wait"
      PROVE  CliInv'
  <2>1. /\ terminal' \notin {"wait", "asked"}
        /\ submissions' \in {submissions, Append(submissions, "shutdown"),
                             Append(submissions, "approval")}
        /\ \/ feed' = feed
           \/ feed # <<>> /\ feed' = Tail(feed)
        /\ loopAt' \in {loopAt, "over"}
    BY <1>6 DEF UserQuits, MainEnds, HeadlessTakes, PressAtPrompt, Leaves, Waits, Approves, loopVars
  <2>2. submissions' \in Seq(Typed \cup {"approval", "shutdown"})
    <3>1. CASE submissions' = submissions  BY <1>0, <3>1
    <3>2. CASE submissions' = Append(submissions, "shutdown")  BY <1>0, <3>2
    <3>3. CASE submissions' = Append(submissions, "approval")  BY <1>0, <3>3
    <3> QED  BY <2>1, <3>1, <3>2, <3>3
  <2>3. feed' \in Seq(FeedEvents)
    BY <1>0, <2>1, QueueOfOne
  <2>4. loopAt' \in {"ready", "tools", "turn", "over"}
    BY <2>1 DEF CliInv, CliTypes
  <2> QED  BY <2>1, <2>2, <2>3, <2>4 DEF CliInv, CliTypes, Attended
<1>7. UserTypesCommand => terminal' = "wait"
  BY DEF UserTypesCommand, Waits
<1> QED  BY <1>1, <1>2, <1>3, <1>4, <1>5, <1>6, <1>7

\* Nothing is owed, and the first prompt is due.
LEMMA CliStarts == CommandLineInit => CliInv
<1> SUFFICES ASSUME CommandLineInit PROVE CliInv
  OBVIOUS
<1>1. feed = <<>> /\ loopAt = "ready" /\ listener = "get" /\ ~quitting
  BY DEF CommandLineInit
<1>2. \/ terminal = "wait" /\ submissions = <<>>
      \/ terminal = "headless" /\ submissions = <<"input">>
  BY DEF CommandLineInit
<1>3. CliTypes
  <2>1. <<>> \in Seq(FeedEvents)  OBVIOUS
  <2>2. <<"input">> \in Seq(Typed \cup {"approval", "shutdown"})  BY DEF Typed
  <2>3. <<>> \in Seq(Typed \cup {"approval", "shutdown"})  OBVIOUS
  <2> QED  BY <1>1, <1>2, <2>1, <2>2, <2>3 DEF CliTypes
<1>4. terminal = "wait" => OneOwed
  BY <1>1, <1>2 DEF OneOwed, OpQueued, Handled, Fed, Asking, NoEnding, OneEnding
<1> QED  BY <1>1, <1>2, <1>3, <1>4 DEF CliInv, Attended

(* The invariant of the command line holds in every state.                 *)
THEOREM CliInvariance == CommandLineSpec => []CliInv
<1>1. ASSUME CliInv, CommandLineNext PROVE CliInv'
  BY <1>1, OperationsKeep, TurnsKeep, ListenerKeeps, MainKeeps DEF CommandLineNext, CliLoop
<1>2. ASSUME CliInv, UNCHANGED cliVars PROVE CliInv'
  BY <1>2 DEF CliInv, CliTypes, Attended, OneOwed, OpQueued, Handled, Fed, Asking, NoEnding,
     OneEnding, cliVars, loopVars, keyVars
<1> QED  BY <1>1, <1>2, CliStarts, PTL DEF CommandLineSpec

(* While the user is prompted nothing is queued, handled or left to be     *)
(* shown, unless an operation had two endings (turn_complete_event).       *)
THEOREM PromptIsIdle == CommandLineSpec => []PromptMeansIdle
<1>1. CliInv => PromptMeansIdle
  <2> SUFFICES ASSUME CliInv, terminal = "asked", ~doubled
               PROVE  /\ submissions = <<>> /\ loopAt \in {"ready", "over"}
                      /\ Range(feed) \cap PromptEvents = {}
    BY DEF PromptMeansIdle
  <2>1. OneOwed  BY DEF CliInv, Attended
  <2>2. submissions = <<>> /\ loopAt \in {"ready", "over"} /\ NoEnding(feed)
    BY <2>1 DEF OneOwed, OpQueued, Handled, Fed, CliInv, CliTypes
  <2>3. feed \in Seq(FeedEvents)  BY DEF CliInv, CliTypes
  <2>4. DOMAIN feed = 1 .. Len(feed)  BY <2>3, LenProperties
  <2>5. Range(feed) \cap PromptEvents = {}
    BY <2>2, <2>4 DEF NoEnding, Range, PromptEndings
  <2> QED  BY <2>2, <2>5
<1> QED  BY <1>1, CliInvariance, PTL

\* Where the coroutines are, and how far the bounds are used up.
CliPlaces ==
    /\ terminal \in {"wait", "asked", "closing", "ended", "headless"}
    /\ listener \in {"get", "asking", "over"}
    /\ approval \in {"none", "held", "snapshot"}
    /\ typed \in Nat /\ typed <= MaxTyped
    /\ asks \in Nat /\ asks <= MaxAsks
    /\ presses \in Nat /\ presses <= MaxPresses

(* The coroutines are where the code has an await, and the queue holds     *)
(* operations only.                                                        *)
THEOREM CliTypeCorrect == CommandLineSpec => []CommandLineTypeOK
<1> USE CommandLineAssumption
<1>1. CommandLineInit => CliPlaces
  BY DEF CommandLineInit, CliPlaces
<1>2. ASSUME CliPlaces, [CommandLineNext]_cliVars PROVE CliPlaces'
  <2> USE <1>2 DEF CliPlaces, loopVars, keyVars
  <2>1. CASE CliLoop
    <3>1. /\ UNCHANGED <<terminal, listener, typed, presses>>
          /\ approval' \in {approval, "none", "held", "snapshot"}
          /\ asks' = asks \/ (asks < MaxAsks /\ asks' = asks + 1)
      <4>1. ASSUME TakesInput \/ TakesApproval \/ ApprovedToolsEnd
            PROVE  /\ UNCHANGED <<terminal, listener, typed, presses, asks>>
                   /\ approval' = approval \/ approval' = "none" \/ approval' = "snapshot"
        BY <4>1 DEF TakesInput, TakesApproval, ApprovedToolsEnd, MainFrame
      <4>2. ASSUME NEW failed \in BOOLEAN, AgentReturns(failed)
            PROVE  UNCHANGED <<terminal, listener, typed, presses, approval, asks>>
        BY <4>2 DEF AgentReturns, MainFrame
      <4>3. ASSUME TakesCompact \/ TakesUndo \/ TakesShutdown
            PROVE  UNCHANGED <<terminal, listener, typed, presses, approval, asks>>
        BY <4>3 DEF TakesCompact, TakesUndo, TakesShutdown, MainFrame
      <4>4. ASSUME TakesNew \/ TakesResume
            PROVE  /\ UNCHANGED <<terminal, listener, typed, presses, asks>>
                   /\ approval' = approval \/ approval' = "none" \/ approval' = "snapshot"
        BY <4>4 DEF TakesNew, TakesResume, MainFrame
      <4>5. ASSUME AgentAsksApproval
            PROVE  /\ UNCHANGED <<terminal, listener, typed, presses>>
                   /\ approval' = "held" /\ asks < MaxAsks /\ asks' = asks + 1
        BY <4>5 DEF AgentAsksApproval, MainFrame
      <4>6. CASE AgentAsksApproval  BY <4>5, <4>6
      <4>7. CASE TakesInput \/ TakesApproval \/ ApprovedToolsEnd  BY <4>1, <4>7
      <4>8. CASE TakesNew \/ TakesResume  BY <4>4, <4>8
      <4>9. CASE TakesCompact \/ TakesUndo \/ TakesShutdown  BY <4>3, <4>9
      <4>10. CASE \E failed \in BOOLEAN : AgentReturns(failed)  BY <4>2, <4>10
      <4> QED  BY <2>1, <4>6, <4>7, <4>8, <4>9, <4>10, Zenon DEF CliLoop
    <3> QED  BY <3>1
  <2>2. CASE ListenerTakes \/ ListenerAsks \/ UserApproves
    BY <2>2 DEF ListenerTakes, ListenerAsks, UserApproves
  <2>3. CASE MainWakes \/ MainEnds \/ HeadlessTakes
    BY <2>3 DEF MainWakes, MainEnds, HeadlessTakes, Leaves
  <2>4. ASSUME NEW op \in Typed, UserTypes(op) PROVE CliPlaces'
    BY <2>4 DEF UserTypes, Waits
  <2>5. CASE UserTypesCommand \/ UserQuits \/ WindowPasses
    BY <2>5 DEF UserTypesCommand, UserQuits, WindowPasses, Waits, Leaves
  <2>6. CASE PressAtPrompt \/ PressWhileWaiting
    BY <2>6 DEF PressAtPrompt, PressWhileWaiting, Waits, Leaves
  <2>7. CASE UNCHANGED cliVars
    BY <2>7 DEF cliVars
  <2> QED  BY <2>1, <2>2, <2>3, <2>4, <2>5, <2>6, <2>7 DEF CommandLineNext
<1>3. CliInv /\ CliPlaces => CommandLineTypeOK
  <2> SUFFICES ASSUME CliTypes, CliPlaces PROVE CommandLineTypeOK
    BY DEF CliInv
  <2>1. Range(submissions) \subseteq Typed \cup {"approval", "shutdown"}
    <3>1. /\ submissions \in Seq(Typed \cup {"approval", "shutdown"})
          /\ DOMAIN submissions = 1 .. Len(submissions)
      BY LenProperties DEF CliTypes
    <3>2. \A i \in DOMAIN submissions :
              submissions[i] \in Typed \cup {"approval", "shutdown"}
      BY <3>1, ElementOfSeq
    <3> QED  BY <3>2, Zenon DEF Range
  <2> QED  BY <2>1 DEF CliTypes, CliPlaces, CommandLineTypeOK
<1> QED  BY <1>1, <1>2, <1>3, CliInvariance, PTL DEF CommandLineSpec

-----------------------------------------------------------------------------
(***************************************************************************)
(* The services together. Each of them behaves as it does alone: a step of *)
(* another leaves its variables as they are.                               *)
(***************************************************************************)
\* A step is one of the part's, and none of the others'.
LEMMA OnePartMoves ==
    ASSUME [ServicesNext]_servicesVars
    PROVE  /\ part' = part
           /\ [SandboxNext]_sandboxVars
           /\ [EventStreamNext]_streamVars
           /\ [ContextNext]_contextVars
           /\ [QuotaNext]_quotaVars
           /\ [NotificationNext]_noteVars
           /\ [CloudJobsNext]_jobVars
           /\ [UploadNext]_uploadVars
           /\ [CommandLineNext]_cliVars
<1>1. CASE ServicesNext
  <2>1. part' = part /\ Others(part)
    BY <1>1 DEF ServicesNext
  <2>2. [SandboxNext]_sandboxVars
    BY <1>1, <2>1 DEF ServicesNext, Others
  <2>3. [EventStreamNext]_streamVars
    BY <1>1, <2>1 DEF ServicesNext, Others
  <2>4. [ContextNext]_contextVars
    BY <1>1, <2>1 DEF ServicesNext, Others
  <2>5. [QuotaNext]_quotaVars
    BY <1>1, <2>1 DEF ServicesNext, Others
  <2>6. [NotificationNext]_noteVars
    BY <1>1, <2>1 DEF ServicesNext, Others
  <2>7. [CloudJobsNext]_jobVars
    BY <1>1, <2>1 DEF ServicesNext, Others
  <2>8. [UploadNext]_uploadVars
    BY <1>1, <2>1 DEF ServicesNext, Others
  <2>9. [CommandLineNext]_cliVars
    BY <1>1, <2>1 DEF ServicesNext, Others
  <2> QED  BY <2>1, <2>2, <2>3, <2>4, <2>5, <2>6, <2>7, <2>8, <2>9
<1>2. CASE UNCHANGED servicesVars
  BY <1>2 DEF servicesVars
<1> QED  BY <1>1, <1>2

(* Every service of the composition implements its own specification, so   *)
(* what is proved of it alone holds beside the others.                     *)
THEOREM ServicesKeepApart ==
    ServicesSpec => /\ SandboxSpec /\ EventStreamSpec /\ ContextSpec /\ QuotaSpec
                    /\ NotificationSpec /\ CloudJobsSpec /\ UploadSpec /\ CommandLineSpec
<1>1. ServicesInit => /\ SandboxInit /\ EventStreamInit /\ ContextInit /\ QuotaInit
                      /\ NotificationInit /\ CloudJobsInit /\ UploadInit /\ CommandLineInit
  BY DEF ServicesInit
<1>2. [ServicesNext]_servicesVars =>
          /\ [SandboxNext]_sandboxVars /\ [EventStreamNext]_streamVars
          /\ [ContextNext]_contextVars /\ [QuotaNext]_quotaVars
          /\ [NotificationNext]_noteVars /\ [CloudJobsNext]_jobVars
          /\ [UploadNext]_uploadVars /\ [CommandLineNext]_cliVars
  BY OnePartMoves
<1> QED  BY <1>1, <1>2, PTL DEF ServicesSpec, SandboxSpec, EventStreamSpec, ContextSpec, QuotaSpec,
         NotificationSpec, CloudJobsSpec, UploadSpec, CommandLineSpec

(* The types and the counters of all services stay within their bounds.    *)
THEOREM ServicesTypeCorrect == ServicesSpec => []ServicesTypeOK
<1>1. ServicesInit => part \in Parts
  BY DEF ServicesInit
<1>2. part \in Parts /\ [ServicesNext]_servicesVars => (part \in Parts)'
  BY OnePartMoves
<1>3. /\ SandboxTypeOK /\ EventStreamTypeOK /\ ContextTypeOK /\ QuotaTypeOK
      /\ NotificationTypeOK /\ CloudJobsTypeOK /\ UploadTypeOK /\ CommandLineTypeOK
      /\ part \in Parts
      => ServicesTypeOK
  BY DEF ServicesTypeOK
<1> QED  BY <1>1, <1>2, <1>3, ServicesKeepApart, SandboxTypeCorrect, StreamTypeCorrect,
         ContextTypeCorrect, QuotaTypeCorrect, NoteTypeCorrect, JobTypeCorrect,
         UploadTypeCorrect, CliTypeCorrect, PTL DEF ServicesSpec
=============================================================================
