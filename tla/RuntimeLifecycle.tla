-------------------------- MODULE RuntimeLifecycle --------------------------
(***************************************************************************)
(* What the session manager promises about runtimes, without its lock, its *)
(* queues, its store or its coroutines: a runtime serves one session id,   *)
(* at most one runtime serves an id at a time, submissions are taken only  *)
(* while it serves, a runtime is retired before its task is over, and it   *)
(* never serves again after that.                                          *)
(***************************************************************************)
EXTENDS Naturals

CONSTANTS Sids, Insts, NoSid

VARIABLES
    life,   \* "unborn", "serving", "retired" or "over"
    sid,    \* the session id a runtime was made for
    taken   \* how many submissions it has taken

lvars == <<life, sid, taken>>

LInit ==
    /\ life = [i \in Insts |-> "unborn"]
    /\ sid = [i \in Insts |-> NoSid]
    /\ taken = [i \in Insts |-> 0]

Begin(i, s) ==
    /\ life[i] = "unborn"
    /\ \A j \in Insts : sid[j] = s => life[j] # "serving"
    /\ life' = [life EXCEPT ![i] = "serving"]
    /\ sid' = [sid EXCEPT ![i] = s]
    /\ UNCHANGED taken

Take(i) ==
    /\ life[i] = "serving"
    /\ taken' = [taken EXCEPT ![i] = @ + 1]
    /\ UNCHANGED <<life, sid>>

Retire(i) ==
    /\ life[i] = "serving"
    /\ life' = [life EXCEPT ![i] = "retired"]
    /\ UNCHANGED <<sid, taken>>

End(i) ==
    /\ life[i] = "retired"
    /\ life' = [life EXCEPT ![i] = "over"]
    /\ UNCHANGED <<sid, taken>>

LNext ==
    \E i \in Insts :
        \/ \E s \in Sids : Begin(i, s)
        \/ Take(i) \/ Retire(i) \/ End(i)

LSafe == LInit /\ [][LNext]_lvars
=============================================================================
