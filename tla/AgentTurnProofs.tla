--------------------------- MODULE AgentTurnProofs ---------------------------
(***************************************************************************)
(* Theorems of AgentTurn for every finite set of calls and every limit.    *)
(* All of its safety properties rest on one inductive invariant: which     *)
(* part of the loop owns the calls of a response, how many results each of *)
(* them has by then, what was reserved and spent for them, and which       *)
(* events the turn has sent so far.                                        *)
(***************************************************************************)
EXTENDS AgentTurn, FiniteSetTheorems, TLAPS

\* Where a response, its calls and what is reserved for them are kept.
BatchInv ==
    /\ pc \in {"llm", "said", "gate", "tools", "results"} => iteration < MaxIterations
    /\ pc = "said" => response.calls \cap context = {}
    /\ pc \notin {"gate", "tools", "results"} =>
           todo = {} /\ autos = {} /\ asked = {} /\ reserved = 0
    /\ pc \in {"tools", "results"} => todo = {}
    /\ todo \cap autos = {} /\ todo \cap asked = {} /\ autos \cap asked = {}
    /\ \A c \in Calls : phase[c] = "running" => pc = "tools" /\ c \in autos

\* Who owes a call its result.
PairsInv ==
    /\ pc # "idle" => pending = {}
    /\ waiting <=> pending # {}
    /\ todo \cup autos \cup asked \cup pending \subseteq context
    /\ \A c \in Calls : results[c] <= 1
    /\ \A c \in Calls : c \notin context => results[c] = 0
    /\ \A c \in todo \cup asked \cup pending : results[c] = 0
    /\ pc # "results" => \A c \in autos : results[c] = 0
    /\ ProviderSeesPairs

\* What was let through a gate.
PassedInv ==
    /\ \A c \in todo \cup autos \cup asked : kind[c] \notin {"bad", "barred"}
    /\ \A c \in autos \cup asked : ~NoPreflight(c)

\* What the calls of a batch hold of the budget.
BudgetInv ==
    /\ autoSpent <= spent /\ autoSpent <= topCap /\ cap <= topCap
    /\ pc = "gate" =>
           /\ reserved = Cardinality(OfKind(autos, Billable))
           /\ reserved > 0 => spent + reserved <= topCap

\* What the stream of the operation has seen.
EndsInv ==
    /\ pc # "idle" => turns > 0
    /\ pc \notin {"idle", "end"} => ends = <<>> /\ ~errored
    /\ pc = "end" => ends = IF errored THEN <<"error">> ELSE <<>>
    /\ OneEnd

Inv == TypeOK /\ BatchInv /\ PairsInv /\ PassedInv /\ BudgetInv /\ EndsInv

-----------------------------------------------------------------------------
\* What AgentTurnAssumption says of each constant.
LEMMA Limits ==
    /\ {MaxBatch, MaxIterations, RetryLimit, MaxAttempts, MaxTurns, MaxCap} \subseteq Nat
    /\ 0 < MaxIterations /\ 0 < MaxAttempts /\ 0 < MaxTurns
    /\ 0 \in 0 .. RetryLimit /\ 0 \in 0 .. MaxIterations /\ 1 \in 1 .. MaxAttempts
    /\ 0 \in 0 .. MaxTurns /\ 0 \in 0 .. MaxCap
    /\ IsFiniteSet(Calls)
BY AgentTurnAssumption

\* Nothing is a response.
LEMMA NothingSaid ==
    /\ NoResponse \in [finish: {"stop", "length"}, text: BOOLEAN, calls: SUBSET Calls]
    /\ NoResponse.calls = {}
BY DEF NoResponse

\* Adding results keeps their type, and adds one to each of the calls named.
LEMMA AddResultsFacts ==
    ASSUME TypeOK, NEW S
    PROVE  /\ AddResults(S) \in [Calls -> Nat]
           /\ \A c \in Calls : c \in S => AddResults(S)[c] = results[c] + 1
           /\ \A c \in Calls : c \notin S => AddResults(S)[c] = results[c]
BY DEF AddResults, TypeOK, ModelTypes

\* How many calls of a kind there are in a set of calls, and in one more.
LEMMA KindCount ==
    ASSUME NEW S \in SUBSET Calls, NEW K
    PROVE  /\ IsFiniteSet(OfKind(S, K)) /\ Cardinality(OfKind(S, K)) \in Nat
           /\ S = {} => Cardinality(OfKind(S, K)) = 0
           /\ \A c \in Calls \ S :
                  Cardinality(OfKind(S \cup {c}, K)) =
                      Cardinality(OfKind(S, K)) + Cardinality(OfKind({c}, K))
<1>1. IsFiniteSet(S)
  BY Limits, FS_Subset
<1>2. IsFiniteSet(OfKind(S, K)) /\ Cardinality(OfKind(S, K)) \in Nat
  BY <1>1, FS_Subset, FS_CardinalityType DEF OfKind
<1>3. S = {} => Cardinality(OfKind(S, K)) = 0
  BY FS_EmptySet DEF OfKind
<1>4. ASSUME NEW c \in Calls \ S
      PROVE  Cardinality(OfKind(S \cup {c}, K)) =
                 Cardinality(OfKind(S, K)) + Cardinality(OfKind({c}, K))
  <2>1. CASE kind[c] \in K
    <3>1. /\ OfKind(S \cup {c}, K) = OfKind(S, K) \cup {c}
          /\ OfKind({c}, K) = {c}
          /\ c \notin OfKind(S, K)
      BY <1>4, <2>1 DEF OfKind
    <3>2. Cardinality({c}) = 1
      BY FS_Singleton
    <3>3. Cardinality(OfKind(S, K) \cup {c}) = Cardinality(OfKind(S, K)) + 1
      BY <1>2, <3>1, FS_AddElement
    <3> QED BY <3>1, <3>2, <3>3
  <2>2. CASE kind[c] \notin K
    <3>1. OfKind(S \cup {c}, K) = OfKind(S, K) /\ OfKind({c}, K) = {}
      BY <2>2 DEF OfKind
    <3>2. Cardinality({}) = 0
      BY FS_EmptySet
    <3> QED BY <1>2, <3>1, <3>2
  <2> QED BY <2>1, <2>2
<1> QED BY <1>2, <1>3, <1>4


\* A message, a decision, an interrupt, or a new policy.
LEMMA OutsideStep ==
    Inv /\ (\/ UserSays \/ \E yes \in SUBSET pending : UserDecides(yes)
            \/ Interrupt \/ \E on \in BOOLEAN, c \in 0 .. MaxCap : SetPolicy(on, c)) => Inv'
<1> USE DEF loopVars, llmVars, ctxVars, batchVars, gateVars, budgetVars, Inv, TypeOK
<1>1. ASSUME Inv, UserSays PROVE Inv'
  <2>0. /\ turns' \in 0 .. MaxTurns /\ iteration' \in 0 .. MaxIterations
        /\ retries' \in [Rungs -> 0 .. RetryLimit]
        /\ ends' \in Seq({"turn_complete", "approval_required", "error", "interrupted"})
    BY <1>1, Limits DEF UserSays, Begin, LoopTypes
  <2>1. TypeOK'
    <3>1. LoopTypes'
      BY <1>1, Limits, <2>0 DEF UserSays, Begin, LoopTypes
    <3>2. ModelTypes'
      BY <1>1, Limits DEF UserSays, Begin, ModelTypes
    <3>3. BatchTypes'
      BY <1>1, Limits DEF UserSays, Begin, BatchTypes
    <3>4. GateTypes'
      BY <1>1, Limits DEF UserSays, Begin, GateTypes
    <3>5. BudgetTypes'
      BY <1>1, Limits DEF UserSays, Begin, BudgetTypes
    <3> QED BY <3>1, <3>2, <3>3, <3>4, <3>5
  <2>2. BatchInv' /\ PairsInv' /\ PassedInv'
    BY <1>1, <2>1 DEF UserSays, Begin, BatchInv, PairsInv, ProviderSeesPairs, PassedInv,
       NoPreflight, LoopTypes, ModelTypes, BatchTypes, GateTypes, BudgetTypes
  <2>3. BudgetInv' /\ EndsInv'
    BY <1>1, <2>1 DEF UserSays, Begin, BatchInv, BudgetInv, EndsInv, OneEnd, OfKind,
       LoopTypes, ModelTypes, BatchTypes, GateTypes, BudgetTypes
  <2> QED BY <2>1, <2>2, <2>3
<1>2. ASSUME Inv, NEW yes \in SUBSET pending, UserDecides(yes) PROVE Inv'
  <2>1. Cardinality(yes) \in Nat
    BY <1>2, Limits, FS_Subset, FS_CardinalityType DEF GateTypes
  <2>2. spent' \in Nat /\ spent <= spent'
    BY <1>2, <2>1 DEF UserDecides, BudgetTypes
  <2>3. results' \in [Calls -> Nat]
    BY <1>2, AddResultsFacts DEF UserDecides
  <2>0. /\ turns' \in 0 .. MaxTurns /\ iteration' \in 0 .. MaxIterations
        /\ retries' \in [Rungs -> 0 .. RetryLimit]
        /\ ends' \in Seq({"turn_complete", "approval_required", "error", "interrupted"})
    BY <1>2, Limits DEF UserDecides, Begin, LoopTypes
  <2>4. TypeOK'
    <3>1. LoopTypes'
      BY <1>2, Limits, <2>0 DEF UserDecides, Begin, LoopTypes
    <3>2. ModelTypes'
      BY <1>2, Limits, <2>3 DEF UserDecides, Begin, ModelTypes
    <3>3. BatchTypes'
      BY <1>2, Limits DEF UserDecides, Begin, BatchTypes
    <3>4. GateTypes'
      BY <1>2, Limits DEF UserDecides, Begin, GateTypes
    <3>5. BudgetTypes'
      BY <1>2, Limits, <2>2 DEF UserDecides, Begin, BudgetTypes
    <3> QED BY <3>1, <3>2, <3>3, <3>4, <3>5
  <2>5. BatchInv' /\ PairsInv' /\ PassedInv'
    BY <1>2, <2>4 DEF UserDecides, Begin, BatchInv, PairsInv, ProviderSeesPairs,
       PassedInv, NoPreflight, LoopTypes, ModelTypes, BatchTypes, GateTypes,
       BudgetTypes, AddResults
  <2>6. BudgetInv' /\ EndsInv'
    BY <1>2, <2>2, <2>4 DEF UserDecides, Begin, BatchInv, BudgetInv, EndsInv, OneEnd,
       OfKind, LoopTypes, ModelTypes, BatchTypes, GateTypes, BudgetTypes
  <2> QED BY <2>4, <2>5, <2>6
<1>3. ASSUME Inv, Interrupt PROVE Inv'
  <2>1. TypeOK'
    BY <1>3 DEF Interrupt, LoopTypes, ModelTypes, BatchTypes, GateTypes, BudgetTypes
  <2>2. BatchInv' /\ PairsInv' /\ PassedInv'
    BY <1>3, <2>1 DEF Interrupt, BatchInv, PairsInv, ProviderSeesPairs, PassedInv,
       NoPreflight, LoopTypes, ModelTypes, BatchTypes, GateTypes, BudgetTypes
  <2>3. BudgetInv' /\ EndsInv'
    BY <1>3, <2>1 DEF Interrupt, BatchInv, BudgetInv, EndsInv, OneEnd, OfKind,
       LoopTypes, ModelTypes, BatchTypes, GateTypes, BudgetTypes
  <2> QED BY <2>1, <2>2, <2>3
<1>4. ASSUME Inv, NEW on \in BOOLEAN, NEW c \in 0 .. MaxCap, SetPolicy(on, c) PROVE Inv'
  <2>1. TypeOK'
    <3>1. LoopTypes'
      BY <1>4, Limits DEF SetPolicy, LoopTypes
    <3>2. ModelTypes'
      BY <1>4, Limits DEF SetPolicy, ModelTypes
    <3>3. BatchTypes'
      BY <1>4, Limits DEF SetPolicy, BatchTypes
    <3>4. GateTypes'
      BY <1>4, Limits DEF SetPolicy, GateTypes
    <3>5. BudgetTypes'
      BY <1>4, Limits DEF SetPolicy, BudgetTypes
    <3> QED BY <3>1, <3>2, <3>3, <3>4, <3>5
  <2>2. BatchInv' /\ PairsInv' /\ PassedInv'
    BY <1>4, <2>1 DEF SetPolicy, BatchInv, PairsInv, ProviderSeesPairs, PassedInv,
       NoPreflight, LoopTypes, ModelTypes, BatchTypes, GateTypes, BudgetTypes
  <2>3. BudgetInv' /\ EndsInv'
    BY <1>4, <2>1 DEF SetPolicy, BatchInv, BudgetInv, EndsInv, OneEnd, OfKind,
       LoopTypes, ModelTypes, BatchTypes, GateTypes, BudgetTypes
  <2> QED BY <2>1, <2>2, <2>3
<1> QED BY <1>1, <1>2, <1>3, <1>4

\* The top of the loop.
LEMMA HeadStep ==
    Inv /\ (LeaveLoop \/ CompactionFails \/ CallModel) => Inv'
<1> USE DEF loopVars, llmVars, ctxVars, batchVars, gateVars, budgetVars, Inv, TypeOK
<1>1. ASSUME Inv, LeaveLoop PROVE Inv'
  <2>1. TypeOK'
    BY <1>1 DEF LeaveLoop, LoopTypes, ModelTypes, BatchTypes, GateTypes, BudgetTypes
  <2>2. BatchInv' /\ PairsInv' /\ PassedInv'
    BY <1>1, <2>1 DEF LeaveLoop, BatchInv, PairsInv, ProviderSeesPairs, PassedInv,
       NoPreflight, LoopTypes, ModelTypes, BatchTypes, GateTypes, BudgetTypes
  <2>3. BudgetInv' /\ EndsInv'
    BY <1>1, <2>1 DEF LeaveLoop, BatchInv, BudgetInv, EndsInv, OneEnd, OfKind,
       LoopTypes, ModelTypes, BatchTypes, GateTypes, BudgetTypes
  <2> QED BY <2>1, <2>2, <2>3
<1>2. ASSUME Inv, CompactionFails PROVE Inv'
  <2>1. TypeOK'
    BY <1>2 DEF CompactionFails, Terminate, LoopTypes, ModelTypes, BatchTypes,
       GateTypes, BudgetTypes
  <2>2. BatchInv' /\ PairsInv' /\ PassedInv'
    BY <1>2, <2>1 DEF CompactionFails, Terminate, BatchInv, PairsInv, ProviderSeesPairs,
       PassedInv, NoPreflight, LoopTypes, ModelTypes, BatchTypes, GateTypes, BudgetTypes
  <2>3. BudgetInv' /\ EndsInv'
    BY <1>2, <2>1 DEF CompactionFails, Terminate, BatchInv, BudgetInv, EndsInv, OneEnd,
       OfKind, LoopTypes, ModelTypes, BatchTypes, GateTypes, BudgetTypes
  <2> QED BY <2>1, <2>2, <2>3
<1>3. ASSUME Inv, CallModel PROVE Inv'
  <2>1. results' = AddResults({c \in context : results[c] = 0})
    BY <1>3 DEF CallModel, PatchDangling
  <2>2. results' \in [Calls -> Nat]
    BY <1>3, <2>1, AddResultsFacts
  <2>3. TypeOK'
    <3>1. LoopTypes'
      BY <1>3, <2>2 DEF CallModel, LoopTypes
    <3>2. ModelTypes'
      BY <1>3, <2>2 DEF CallModel, ModelTypes
    <3>3. BatchTypes'
      BY <1>3, <2>2 DEF CallModel, BatchTypes
    <3>4. GateTypes'
      BY <1>3, <2>2 DEF CallModel, GateTypes
    <3>5. BudgetTypes'
      BY <1>3, <2>2 DEF CallModel, BudgetTypes
    <3> QED BY <3>1, <3>2, <3>3, <3>4, <3>5
  <2>4. BatchInv' /\ PairsInv' /\ PassedInv'
    BY <1>3, <2>1, <2>3 DEF CallModel, AddResults, BatchInv, PairsInv,
       ProviderSeesPairs, PassedInv, NoPreflight, LoopTypes, ModelTypes, BatchTypes,
       GateTypes, BudgetTypes
  <2>5. BudgetInv' /\ EndsInv'
    BY <1>3, <2>3 DEF CallModel, BatchInv, BudgetInv, EndsInv, OneEnd, OfKind,
       LoopTypes, ModelTypes, BatchTypes, GateTypes, BudgetTypes
  <2> QED BY <2>3, <2>4, <2>5
<1> QED BY <1>1, <1>2, <1>3

\* A call of the model.
LEMMA ModelStep ==
    Inv /\ (\/ Transient \/ (\E w \in {"effort", "thinking"} : Heal(w)) \/ ModelFails
            \/ Overflow \/ AnswerStep) => Inv'
<1> USE DEF loopVars, llmVars, ctxVars, batchVars, gateVars, budgetVars, Inv, TypeOK,
   LLMFrame
<1>1. ASSUME Inv, Transient PROVE Inv'
  <2>1. TypeOK'
    <3>1. LoopTypes'
      BY <1>1, Limits DEF Transient, LoopTypes
    <3>2. ModelTypes'
      BY <1>1, Limits DEF Transient, ModelTypes
    <3>3. BatchTypes'
      BY <1>1, Limits DEF Transient, BatchTypes
    <3>4. GateTypes'
      BY <1>1, Limits DEF Transient, GateTypes
    <3>5. BudgetTypes'
      BY <1>1, Limits DEF Transient, BudgetTypes
    <3> QED BY <3>1, <3>2, <3>3, <3>4, <3>5
  <2>2. BatchInv' /\ PairsInv' /\ PassedInv'
    BY <1>1, <2>1 DEF Transient, BatchInv, PairsInv, ProviderSeesPairs, PassedInv,
       NoPreflight, LoopTypes, ModelTypes, BatchTypes, GateTypes, BudgetTypes
  <2>3. BudgetInv' /\ EndsInv'
    BY <1>1, <2>1 DEF Transient, BatchInv, BudgetInv, EndsInv, OneEnd, OfKind,
       LoopTypes, ModelTypes, BatchTypes, GateTypes, BudgetTypes
  <2> QED BY <2>1, <2>2, <2>3
<1>2. ASSUME Inv, NEW w \in {"effort", "thinking"}, Heal(w) PROVE Inv'
  <2>1. /\ LoopTypes' /\ attempt' \in 1 .. MaxAttempts
        /\ healed' \subseteq {"effort", "thinking"}
    <3>1. CASE attempt < MaxAttempts
      <4>1. LoopTypes'
        BY <1>2, <3>1 DEF Heal, LoopTypes
      <4>2. attempt' \in 1 .. MaxAttempts
        BY <1>2, <3>1, Limits DEF Heal, ModelTypes
      <4>3. healed' \subseteq {"effort", "thinking"}
        BY <1>2, <3>1 DEF Heal, ModelTypes
      <4> QED BY <4>1, <4>2, <4>3
    <3>2. CASE ~(attempt < MaxAttempts)
      <4>1. ends' \in Seq({"turn_complete", "approval_required", "error", "interrupted"})
        BY <1>2 DEF Heal, Fail, LoopTypes
      <4> QED BY <1>2, <3>2, <4>1, Limits DEF Heal, Fail, LoopTypes
    <3> QED BY <3>1, <3>2
  <2>2. TypeOK'
    <3>1. LoopTypes'
      BY <1>2, <2>1 DEF Heal, Fail, LoopTypes
    <3>2. ModelTypes'
      BY <1>2, <2>1 DEF Heal, Fail, ModelTypes
    <3>3. BatchTypes'
      BY <1>2 DEF Heal, Fail, BatchTypes
    <3>4. GateTypes'
      BY <1>2 DEF Heal, Fail, GateTypes
    <3>5. BudgetTypes'
      BY <1>2 DEF Heal, Fail, BudgetTypes
    <3> QED BY <3>1, <3>2, <3>3, <3>4, <3>5
  <2>3. BatchInv' /\ PairsInv' /\ PassedInv'
    BY <1>2, <2>2 DEF Heal, Fail, BatchInv, PairsInv, ProviderSeesPairs, PassedInv,
       NoPreflight, LoopTypes, ModelTypes, BatchTypes, GateTypes, BudgetTypes
  <2>4. BudgetInv' /\ EndsInv'
    BY <1>2, <2>2 DEF Heal, Fail, BatchInv, BudgetInv, EndsInv, OneEnd, OfKind,
       LoopTypes, ModelTypes, BatchTypes, GateTypes, BudgetTypes
  <2> QED BY <2>2, <2>3, <2>4
<1>3. ASSUME Inv, ModelFails PROVE Inv'
  <2>1. TypeOK'
    <3>1. LoopTypes'
      BY <1>3, Limits DEF ModelFails, Fail, LoopTypes
    <3>2. ModelTypes'
      BY <1>3, Limits DEF ModelFails, Fail, ModelTypes
    <3>3. BatchTypes'
      BY <1>3, Limits DEF ModelFails, Fail, BatchTypes
    <3>4. GateTypes'
      BY <1>3, Limits DEF ModelFails, Fail, GateTypes
    <3>5. BudgetTypes'
      BY <1>3, Limits DEF ModelFails, Fail, BudgetTypes
    <3> QED BY <3>1, <3>2, <3>3, <3>4, <3>5
  <2>2. BatchInv' /\ PairsInv' /\ PassedInv'
    BY <1>3, <2>1 DEF ModelFails, Fail, BatchInv, PairsInv, ProviderSeesPairs,
       PassedInv, NoPreflight, LoopTypes, ModelTypes, BatchTypes, GateTypes, BudgetTypes
  <2>3. BudgetInv' /\ EndsInv'
    BY <1>3, <2>1 DEF ModelFails, Fail, BatchInv, BudgetInv, EndsInv, OneEnd, OfKind,
       LoopTypes, ModelTypes, BatchTypes, GateTypes, BudgetTypes
  <2> QED BY <2>1, <2>2, <2>3
<1>4. ASSUME Inv, Overflow PROVE Inv'
  <2>1. TypeOK'
    <3>1. LoopTypes'
      BY <1>4, Limits DEF Overflow, Terminate, LoopTypes
    <3>2. ModelTypes'
      BY <1>4, Limits DEF Overflow, Terminate, ModelTypes
    <3>3. BatchTypes'
      BY <1>4, Limits DEF Overflow, Terminate, BatchTypes
    <3>4. GateTypes'
      BY <1>4, Limits DEF Overflow, Terminate, GateTypes
    <3>5. BudgetTypes'
      BY <1>4, Limits DEF Overflow, Terminate, BudgetTypes
    <3> QED BY <3>1, <3>2, <3>3, <3>4, <3>5
  <2>2. BatchInv' /\ PairsInv' /\ PassedInv'
    BY <1>4, <2>1 DEF Overflow, Terminate, BatchInv, PairsInv, ProviderSeesPairs,
       PassedInv, NoPreflight, LoopTypes, ModelTypes, BatchTypes, GateTypes, BudgetTypes
  <2>3. BudgetInv' /\ EndsInv'
    BY <1>4, <2>1 DEF Overflow, Terminate, BatchInv, BudgetInv, EndsInv, OneEnd, OfKind,
       LoopTypes, ModelTypes, BatchTypes, GateTypes, BudgetTypes
  <2> QED BY <2>1, <2>2, <2>3
<1>5. ASSUME Inv, NEW r \in Responses, Answer(r) PROVE Inv'
  <2>1. /\ r \in [finish: {"stop", "length"}, text: BOOLEAN, calls: SUBSET Calls]
        /\ r.calls \cap context = {}
    BY DEF Responses
  <2>2. full' \in BOOLEAN
    BY <1>5, <2>1 DEF Answer
  <2>3. TypeOK'
    <3>1. LoopTypes'
      BY <1>5, <2>1, <2>2, Limits DEF Answer, LoopTypes
    <3>2. ModelTypes'
      BY <1>5, <2>1, <2>2, Limits DEF Answer, ModelTypes
    <3>3. BatchTypes'
      BY <1>5, <2>1, <2>2, Limits DEF Answer, BatchTypes
    <3>4. GateTypes'
      BY <1>5, <2>1, <2>2, Limits DEF Answer, GateTypes
    <3>5. BudgetTypes'
      BY <1>5, <2>1, <2>2, Limits DEF Answer, BudgetTypes
    <3> QED BY <3>1, <3>2, <3>3, <3>4, <3>5
  <2>4. BatchInv' /\ PairsInv' /\ PassedInv'
    BY <1>5, <2>1, <2>3 DEF Answer, BatchInv, PairsInv, ProviderSeesPairs, PassedInv,
       NoPreflight, LoopTypes, ModelTypes, BatchTypes, GateTypes, BudgetTypes
  <2>5. BudgetInv' /\ EndsInv'
    BY <1>5, <2>3 DEF Answer, BatchInv, BudgetInv, EndsInv, OneEnd, OfKind, LoopTypes,
       ModelTypes, BatchTypes, GateTypes, BudgetTypes
  <2> QED BY <2>3, <2>4, <2>5
<1> QED BY <1>1, <1>2, <1>3, <1>4, <1>5 DEF AnswerStep

\* What the loop makes of a response.
LEMMA SaidStep ==
    Inv /\ (\/ Truncated \/ SaidNothing \/ SaidText
            \/ \E ks \in [response.calls -> Kinds] : SaidCalls(ks)) => Inv'
<1> USE DEF loopVars, llmVars, ctxVars, batchVars, gateVars, budgetVars, Inv, TypeOK,
   SaidFrame, Hint, Again, Leave, ForgetBatch
<1>1. ASSUME Inv, Truncated PROVE Inv'
  <2>1. TypeOK'
    <3>1. LoopTypes'
      BY <1>1, Limits DEF Truncated, LoopTypes, BatchInv
    <3>2. ModelTypes'
      BY <1>1, Limits, NothingSaid DEF Truncated, ModelTypes
    <3>3. BatchTypes'
      BY <1>1, Limits DEF Truncated, BatchTypes
    <3>4. GateTypes'
      BY <1>1, Limits DEF Truncated, GateTypes
    <3>5. BudgetTypes'
      BY <1>1, Limits DEF Truncated, BudgetTypes
    <3> QED BY <3>1, <3>2, <3>3, <3>4, <3>5
  <2>2. BatchInv' /\ PairsInv' /\ PassedInv'
    BY <1>1, <2>1 DEF Truncated, BatchInv, PairsInv, ProviderSeesPairs, PassedInv,
       NoPreflight, LoopTypes, ModelTypes, BatchTypes, GateTypes, BudgetTypes
  <2>3. BudgetInv' /\ EndsInv'
    BY <1>1, <2>1 DEF Truncated, BatchInv, BudgetInv, EndsInv, OneEnd, OfKind,
       LoopTypes, ModelTypes, BatchTypes, GateTypes, BudgetTypes
  <2> QED BY <2>1, <2>2, <2>3
<1>2. ASSUME Inv, SaidNothing PROVE Inv'
  <2>1. /\ ends' \in Seq({"turn_complete", "approval_required", "error", "interrupted"})
        /\ errored' \in BOOLEAN
    <3>1. UNCHANGED <<errored, ends>> \/ (errored' = TRUE /\ ends' = Append(ends, "error"))
      BY <1>2 DEF SaidNothing
    <3>2. /\ ends \in Seq({"turn_complete", "approval_required", "error", "interrupted"})
          /\ errored \in BOOLEAN
      BY <1>2 DEF LoopTypes
    <3>3. ends' \in Seq({"turn_complete", "approval_required", "error", "interrupted"})
      BY <3>1, <3>2
    <3>4. errored' \in BOOLEAN
      BY <3>1, <3>2, Zenon
    <3> QED BY <3>3, <3>4
  <2>2. /\ iteration' \in 0 .. MaxIterations
        /\ retries' \in [Rungs -> 0 .. RetryLimit]
    BY <1>2, Limits DEF SaidNothing, LoopTypes, BatchInv
  <2>3. TypeOK'
    <3>1. LoopTypes'
      BY <1>2, <2>1, <2>2 DEF SaidNothing, LoopTypes
    <3>2. ModelTypes'
      BY <1>2, NothingSaid DEF SaidNothing, ModelTypes
    <3>3. BatchTypes'
      BY <1>2 DEF SaidNothing, BatchTypes
    <3>4. GateTypes'
      BY <1>2 DEF SaidNothing, GateTypes
    <3>5. BudgetTypes'
      BY <1>2 DEF SaidNothing, BudgetTypes
    <3> QED BY <3>1, <3>2, <3>3, <3>4, <3>5
  <2>4. BatchInv' /\ PairsInv' /\ PassedInv'
    BY <1>2, <2>3 DEF SaidNothing, BatchInv, PairsInv, ProviderSeesPairs, PassedInv,
       NoPreflight, LoopTypes, ModelTypes, BatchTypes, GateTypes, BudgetTypes
  <2>5. BudgetInv'
    BY <1>2 DEF SaidNothing, BudgetInv
  <2>6. EndsInv'
    BY <1>2, <2>3 DEF SaidNothing, EndsInv, OneEnd
  <2> QED BY <2>3, <2>4, <2>5, <2>6
<1>3. ASSUME Inv, SaidText PROVE Inv'
  <2>1. TypeOK'
    <3>1. LoopTypes'
      BY <1>3, Limits DEF SaidText, LoopTypes, BatchInv, EndsInv
    <3>2. ModelTypes'
      BY <1>3, Limits, NothingSaid DEF SaidText, ModelTypes
    <3>3. BatchTypes'
      BY <1>3, Limits DEF SaidText, BatchTypes
    <3>4. GateTypes'
      BY <1>3, Limits DEF SaidText, GateTypes
    <3>5. BudgetTypes'
      BY <1>3, Limits DEF SaidText, BudgetTypes
    <3> QED BY <3>1, <3>2, <3>3, <3>4, <3>5
  <2>2. BatchInv' /\ PairsInv' /\ PassedInv'
    BY <1>3, <2>1 DEF SaidText, BatchInv, PairsInv, ProviderSeesPairs, PassedInv,
       NoPreflight, LoopTypes, ModelTypes, BatchTypes, GateTypes, BudgetTypes
  <2>3. BudgetInv' /\ EndsInv'
    BY <1>3, <2>1 DEF SaidText, BatchInv, BudgetInv, EndsInv, OneEnd, OfKind, LoopTypes,
       ModelTypes, BatchTypes, GateTypes, BudgetTypes
  <2> QED BY <2>1, <2>2, <2>3
<1>4. ASSUME Inv, NEW ks \in [response.calls -> Kinds], SaidCalls(ks) PROVE Inv'
  <2>1. /\ Good(ks) \subseteq response.calls
        /\ response.calls \subseteq Calls
        /\ \A c \in Good(ks) : ks[c] \notin {"bad", "barred"}
        /\ results' = AddResults(response.calls \ Good(ks))
        /\ context' = context \cup response.calls
    BY <1>4 DEF SaidCalls, Good, ModelTypes
  <2>2. results' \in [Calls -> Nat]
    BY <1>4, <2>1, AddResultsFacts
  <2>3. TypeOK'
    <3>1. LoopTypes'
      BY <1>4, <2>1, <2>2, Limits DEF SaidCalls, LoopTypes
    <3>2. ModelTypes'
      BY <1>4, <2>1, <2>2, Limits, NothingSaid DEF SaidCalls, ModelTypes
    <3>3. BatchTypes'
      BY <1>4, <2>1, <2>2, Limits DEF SaidCalls, BatchTypes, Kinds
    <3>4. GateTypes'
      BY <1>4, <2>1, <2>2, Limits DEF SaidCalls, GateTypes
    <3>5. BudgetTypes'
      BY <1>4, <2>1, <2>2, Limits DEF SaidCalls, BudgetTypes
    <3> QED BY <3>1, <3>2, <3>3, <3>4, <3>5
  <2>4. BatchInv' /\ PairsInv' /\ PassedInv'
    BY <1>4, <2>1, <2>3 DEF SaidCalls, AddResults, BatchInv, PairsInv,
       ProviderSeesPairs, PassedInv, NoPreflight, LoopTypes, ModelTypes, BatchTypes,
       GateTypes, BudgetTypes
  <2>5. BudgetInv'
    <3>1. Cardinality({}) = 0 /\ OfKind({}, Billable)' = {}
      BY FS_EmptySet DEF OfKind
    <3>2. autos' = {} /\ reserved' = 0 /\ UNCHANGED budgetVars
      BY <1>4 DEF SaidCalls, BatchInv
    <3>3. OfKind(autos, Billable)' = {}
      BY <3>2 DEF OfKind
    <3> QED BY <1>4, <3>1, <3>2, <3>3 DEF BudgetInv
  <2>6. EndsInv'
    BY <1>4, <2>3 DEF SaidCalls, EndsInv, OneEnd, LoopTypes
  <2> QED BY <2>3, <2>4, <2>5, <2>6
<1> QED BY <1>1, <1>2, <1>3, <1>4

\* The gates, and the start of the batch.
LEMMA GateStep ==
    Inv /\ (StartTools \/ \E c \in Calls : GateBlocks(c) \/ GateDecides(c)) => Inv'
<1> USE DEF loopVars, llmVars, ctxVars, batchVars, gateVars, budgetVars, Inv, TypeOK
<1>1. ASSUME Inv, StartTools PROVE Inv'
  <2>1. /\ Cardinality(OfKind(autos, Billable)) \in Nat
        /\ Cardinality(OfKind(autos, Billable)) = reserved
    BY <1>1, KindCount DEF StartTools, BatchTypes, BudgetInv
  <2>2. spent' = spent + reserved /\ autoSpent' = autoSpent + reserved
    BY <1>1, <2>1 DEF StartTools
  <2>3. spent' \in Nat /\ autoSpent' \in Nat /\ autoSpent' <= spent' /\ autoSpent' <= topCap
    BY <2>1, <2>2, <1>1 DEF StartTools, BudgetInv, BudgetTypes
  <2>4. TypeOK'
    <3>1. LoopTypes'
      BY <1>1, <2>3 DEF StartTools, LoopTypes
    <3>2. ModelTypes'
      BY <1>1, <2>3 DEF StartTools, ModelTypes
    <3>3. BatchTypes'
      BY <1>1, <2>3 DEF StartTools, BatchTypes
    <3>4. GateTypes'
      BY <1>1, <2>3 DEF StartTools, GateTypes
    <3>5. BudgetTypes'
      BY <1>1, <2>3 DEF StartTools, BudgetTypes
    <3> QED BY <3>1, <3>2, <3>3, <3>4, <3>5
  <2>5. BatchInv' /\ PairsInv' /\ PassedInv'
    BY <1>1, <2>4 DEF StartTools, BatchInv, PairsInv, ProviderSeesPairs, PassedInv,
       NoPreflight, LoopTypes, ModelTypes, BatchTypes, GateTypes, BudgetTypes
  <2>6. BudgetInv'
    BY <1>1, <2>3 DEF StartTools, BudgetInv
  <2>7. EndsInv'
    BY <1>1, <2>4 DEF StartTools, EndsInv, OneEnd
  <2> QED BY <2>4, <2>5, <2>6, <2>7
<1>2. ASSUME Inv, NEW c \in Calls, GateBlocks(c) PROVE Inv'
  <2>1. results' \in [Calls -> Nat]
    BY <1>2, AddResultsFacts DEF GateBlocks
  <2>2. TypeOK'
    <3>1. LoopTypes'
      BY <1>2, <2>1 DEF GateBlocks, GateFrame, LoopTypes
    <3>2. ModelTypes'
      BY <1>2, <2>1 DEF GateBlocks, GateFrame, ModelTypes
    <3>3. BatchTypes'
      BY <1>2, <2>1 DEF GateBlocks, GateFrame, BatchTypes
    <3>4. GateTypes'
      BY <1>2, <2>1 DEF GateBlocks, GateFrame, GateTypes
    <3>5. BudgetTypes'
      BY <1>2, <2>1 DEF GateBlocks, GateFrame, BudgetTypes
    <3> QED BY <3>1, <3>2, <3>3, <3>4, <3>5
  <2>3. BatchInv' /\ PairsInv' /\ PassedInv'
    BY <1>2, <2>2 DEF GateBlocks, GateFrame, AddResults, BatchInv, PairsInv,
       ProviderSeesPairs, PassedInv, NoPreflight, LoopTypes, ModelTypes, BatchTypes,
       GateTypes, BudgetTypes
  <2>4. BudgetInv' /\ EndsInv'
    BY <1>2, <2>2 DEF GateBlocks, GateFrame, BatchInv, BudgetInv, EndsInv, OneEnd,
       OfKind, LoopTypes, ModelTypes, BatchTypes, GateTypes, BudgetTypes
  <2> QED BY <2>2, <2>3, <2>4
<1>3. ASSUME Inv, NEW c \in Calls, GateDecides(c) PROVE Inv'
  <2>1. Cardinality(OfKind({c}, Billable)) = IF kind[c] \in Billable THEN 1 ELSE 0
    <3>1. OfKind({c}, Billable) = IF kind[c] \in Billable THEN {c} ELSE {}
      BY DEF OfKind
    <3>2. Cardinality({c}) = 1 /\ Cardinality({}) = 0
      BY FS_EmptySet, FS_Singleton
    <3> QED BY <3>1, <3>2
  <2>2. reserved' \in Nat
    BY <1>3, <2>1 DEF GateDecides, BatchTypes
  <2>3. TypeOK'
    <3>1. LoopTypes'
      BY <1>3, <2>2 DEF GateDecides, GateFrame, LoopTypes
    <3>2. ModelTypes'
      BY <1>3, <2>2 DEF GateDecides, GateFrame, ModelTypes
    <3>3. BatchTypes'
      BY <1>3, <2>2 DEF GateDecides, GateFrame, BatchTypes
    <3>4. GateTypes'
      BY <1>3, <2>2 DEF GateDecides, GateFrame, GateTypes
    <3>5. BudgetTypes'
      BY <1>3, <2>2 DEF GateDecides, GateFrame, BudgetTypes
    <3> QED BY <3>1, <3>2, <3>3, <3>4, <3>5
  <2>4. BatchInv' /\ PairsInv' /\ PassedInv'
    BY <1>3, <2>2, <2>3 DEF GateDecides, GateFrame, BatchInv, PairsInv,
       ProviderSeesPairs, PassedInv, NoPreflight, LoopTypes, ModelTypes, BatchTypes,
       GateTypes, BudgetTypes
  <2>5. BudgetInv'
    <3>1. CASE Approved(c)
      <4>1. /\ autos' = autos \cup {c} /\ autos \subseteq Calls /\ c \notin autos
            /\ reserved' = reserved + Cardinality(OfKind({c}, Billable))
            /\ UNCHANGED <<pc, kind, budgetVars>> /\ pc = "gate"
        BY <1>3, <3>1 DEF GateDecides, GateFrame, BatchInv, BatchTypes
      <4>2. Cardinality(OfKind(autos \cup {c}, Billable)) = reserved'
        BY <1>3, <4>1, KindCount DEF BudgetInv
      <4>3. OfKind(autos, Billable)' = OfKind(autos \cup {c}, Billable)
        BY <4>1 DEF OfKind
      <4>4. reserved' > 0 => spent + reserved' <= topCap
        BY <1>3, <2>1, <3>1, <4>1 DEF Approved, Remaining, BudgetInv, BudgetTypes, BatchTypes
      <4> QED BY <1>3, <4>1, <4>2, <4>3, <4>4 DEF BudgetInv
    <3>2. CASE ~Approved(c)
      BY <1>3, <3>2 DEF GateDecides, GateFrame, OfKind, BudgetInv
    <3> QED BY <3>1, <3>2
  <2>6. EndsInv'
    BY <1>3, <2>3 DEF GateDecides, GateFrame, EndsInv, OneEnd
  <2> QED BY <2>3, <2>4, <2>5, <2>6
<1> QED BY <1>1, <1>2, <1>3

\* The tools of the batch run.
LEMMA ToolsStep ==
    Inv /\ (ToolsDone \/ ToolsCancelled \/ \E c \in Calls : ToolEnds(c)) => Inv'
<1> USE DEF loopVars, llmVars, ctxVars, batchVars, gateVars, budgetVars, Inv, TypeOK,
   ToolsFrame
<1>1. ASSUME Inv, ToolsDone PROVE Inv'
  <2>1. results' \in [Calls -> Nat]
    BY <1>1, AddResultsFacts DEF ToolsDone
  <2>2. TypeOK'
    <3>1. LoopTypes'
      BY <1>1, <2>1 DEF ToolsDone, LoopTypes
    <3>2. ModelTypes'
      BY <1>1, <2>1 DEF ToolsDone, ModelTypes
    <3>3. BatchTypes'
      BY <1>1, <2>1 DEF ToolsDone, BatchTypes
    <3>4. GateTypes'
      BY <1>1, <2>1 DEF ToolsDone, GateTypes
    <3>5. BudgetTypes'
      BY <1>1, <2>1 DEF ToolsDone, BudgetTypes
    <3> QED BY <3>1, <3>2, <3>3, <3>4, <3>5
  <2>3. BatchInv' /\ PairsInv' /\ PassedInv'
    BY <1>1, <2>2 DEF ToolsDone, Running, AddResults, BatchInv, PairsInv,
       ProviderSeesPairs, PassedInv, NoPreflight, LoopTypes, ModelTypes, BatchTypes,
       GateTypes, BudgetTypes
  <2>4. BudgetInv' /\ EndsInv'
    BY <1>1, <2>2 DEF ToolsDone, BatchInv, BudgetInv, EndsInv, OneEnd, OfKind,
       LoopTypes, ModelTypes, BatchTypes, GateTypes, BudgetTypes
  <2> QED BY <2>2, <2>3, <2>4
<1>2. ASSUME Inv, ToolsCancelled PROVE Inv'
  <2>1. TypeOK'
    <3>1. LoopTypes'
      BY <1>2 DEF ToolsCancelled, Leave, ForgetBatch, LoopTypes
    <3>2. ModelTypes'
      BY <1>2, NothingSaid DEF ToolsCancelled, Leave, ForgetBatch, ModelTypes
    <3>3. BatchTypes'
      BY <1>2 DEF ToolsCancelled, Leave, ForgetBatch, BatchTypes
    <3>4. GateTypes'
      BY <1>2 DEF ToolsCancelled, Leave, ForgetBatch, GateTypes
    <3>5. BudgetTypes'
      BY <1>2 DEF ToolsCancelled, Leave, ForgetBatch, BudgetTypes
    <3> QED BY <3>1, <3>2, <3>3, <3>4, <3>5
  <2>2. BatchInv' /\ PairsInv' /\ PassedInv'
    BY <1>2, <2>1 DEF ToolsCancelled, Leave, ForgetBatch, BatchInv, PairsInv,
       ProviderSeesPairs, PassedInv, NoPreflight, LoopTypes, ModelTypes, BatchTypes,
       GateTypes, BudgetTypes
  <2>3. BudgetInv' /\ EndsInv'
    BY <1>2, <2>1 DEF ToolsCancelled, Leave, ForgetBatch, BatchInv, BudgetInv, EndsInv,
       OneEnd, OfKind, LoopTypes, ModelTypes, BatchTypes, GateTypes, BudgetTypes
  <2> QED BY <2>1, <2>2, <2>3
<1>3. ASSUME Inv, NEW c \in Calls, ToolEnds(c) PROVE Inv'
  <2>1. TypeOK'
    <3>1. LoopTypes'
      BY <1>3 DEF ToolEnds, LoopTypes
    <3>2. ModelTypes'
      BY <1>3 DEF ToolEnds, ModelTypes
    <3>3. BatchTypes'
      BY <1>3 DEF ToolEnds, BatchTypes
    <3>4. GateTypes'
      BY <1>3 DEF ToolEnds, GateTypes
    <3>5. BudgetTypes'
      BY <1>3 DEF ToolEnds, BudgetTypes
    <3> QED BY <3>1, <3>2, <3>3, <3>4, <3>5
  <2>2. BatchInv' /\ PairsInv' /\ PassedInv'
    BY <1>3, <2>1 DEF ToolEnds, BatchInv, PairsInv, ProviderSeesPairs, PassedInv,
       NoPreflight, LoopTypes, ModelTypes, BatchTypes, GateTypes, BudgetTypes
  <2>3. BudgetInv' /\ EndsInv'
    BY <1>3, <2>1 DEF ToolEnds, BatchInv, BudgetInv, EndsInv, OneEnd, OfKind, LoopTypes,
       ModelTypes, BatchTypes, GateTypes, BudgetTypes
  <2> QED BY <2>1, <2>2, <2>3
<1> QED BY <1>1, <1>2, <1>3

\* What follows the batch, and the end of the turn.
LEMMA AfterToolsStep ==
    Inv /\ (\/ ProviderHasEnded \/ PlannerGoesOn \/ PlanningIsAll \/ AskApproval
            \/ LaunchBlocked \/ NextIteration \/ End
            \/ \E o \in {"failed", "blocking", "passed"} : AutoPreflight(o)) => Inv'
<1> USE DEF loopVars, llmVars, ctxVars, batchVars, gateVars, budgetVars, Inv, TypeOK,
   ToolsFrame, AfterTools, Leave, Again, ForgetBatch
<1>1. ASSUME Inv, ProviderHasEnded \/ PlanningIsAll \/ LaunchBlocked PROVE Inv'
  <2>1. TypeOK'
    <3>1. LoopTypes'
      BY <1>1 DEF ProviderHasEnded, PlanningIsAll, LaunchBlocked, LoopTypes
    <3>2. ModelTypes'
      BY <1>1, NothingSaid DEF ProviderHasEnded, PlanningIsAll, LaunchBlocked,
         ModelTypes
    <3>3. BatchTypes'
      BY <1>1 DEF ProviderHasEnded, PlanningIsAll, LaunchBlocked, BatchTypes
    <3>4. GateTypes'
      BY <1>1 DEF ProviderHasEnded, PlanningIsAll, LaunchBlocked, GateTypes
    <3>5. BudgetTypes'
      BY <1>1 DEF ProviderHasEnded, PlanningIsAll, LaunchBlocked, BudgetTypes
    <3> QED BY <3>1, <3>2, <3>3, <3>4, <3>5
  <2>2. BatchInv' /\ PairsInv' /\ PassedInv'
    BY <1>1, <2>1 DEF ProviderHasEnded, PlanningIsAll, LaunchBlocked, BatchInv,
       PairsInv, ProviderSeesPairs, PassedInv, NoPreflight, LoopTypes, ModelTypes,
       BatchTypes, GateTypes, BudgetTypes
  <2>3. BudgetInv' /\ EndsInv'
    BY <1>1, <2>1 DEF ProviderHasEnded, PlanningIsAll, LaunchBlocked, BatchInv,
       BudgetInv, EndsInv, OneEnd, OfKind, LoopTypes, ModelTypes, BatchTypes, GateTypes,
       BudgetTypes
  <2> QED BY <2>1, <2>2, <2>3
<1>2. ASSUME Inv, PlannerGoesOn \/ NextIteration PROVE Inv'
  <2>1. TypeOK'
    <3>1. LoopTypes'
      BY <1>2, Limits DEF PlannerGoesOn, NextIteration, LoopTypes, BatchInv
    <3>2. ModelTypes'
      BY <1>2, Limits, NothingSaid DEF PlannerGoesOn, NextIteration, ModelTypes
    <3>3. BatchTypes'
      BY <1>2, Limits DEF PlannerGoesOn, NextIteration, BatchTypes
    <3>4. GateTypes'
      BY <1>2, Limits DEF PlannerGoesOn, NextIteration, GateTypes
    <3>5. BudgetTypes'
      BY <1>2, Limits DEF PlannerGoesOn, NextIteration, BudgetTypes
    <3> QED BY <3>1, <3>2, <3>3, <3>4, <3>5
  <2>2. BatchInv' /\ PairsInv' /\ PassedInv'
    BY <1>2, <2>1 DEF PlannerGoesOn, NextIteration, BatchInv, PairsInv,
       ProviderSeesPairs, PassedInv, NoPreflight, LoopTypes, ModelTypes, BatchTypes,
       GateTypes, BudgetTypes
  <2>3. BudgetInv' /\ EndsInv'
    BY <1>2, <2>1 DEF PlannerGoesOn, NextIteration, BatchInv, BudgetInv, EndsInv,
       OneEnd, OfKind, LoopTypes, ModelTypes, BatchTypes, GateTypes, BudgetTypes
  <2> QED BY <2>1, <2>2, <2>3
<1>3. ASSUME Inv, NEW o \in {"failed", "blocking", "passed"}, AutoPreflight(o) PROVE Inv'
  <2>1. TypeOK'
    <3>1. LoopTypes'
      BY <1>3, Limits DEF AutoPreflight, LoopTypes, BatchInv
    <3>2. ModelTypes'
      BY <1>3, Limits, NothingSaid DEF AutoPreflight, ModelTypes
    <3>3. BatchTypes'
      BY <1>3, Limits DEF AutoPreflight, BatchTypes
    <3>4. GateTypes'
      BY <1>3, Limits DEF AutoPreflight, GateTypes
    <3>5. BudgetTypes'
      BY <1>3, Limits DEF AutoPreflight, BudgetTypes
    <3> QED BY <3>1, <3>2, <3>3, <3>4, <3>5
  <2>2. BatchInv' /\ PairsInv' /\ PassedInv'
    BY <1>3, <2>1 DEF AutoPreflight, BatchInv, PairsInv, ProviderSeesPairs, PassedInv,
       NoPreflight, LoopTypes, ModelTypes, BatchTypes, GateTypes, BudgetTypes
  <2>3. BudgetInv' /\ EndsInv'
    BY <1>3, <2>1 DEF AutoPreflight, BatchInv, BudgetInv, EndsInv, OneEnd, OfKind,
       LoopTypes, ModelTypes, BatchTypes, GateTypes, BudgetTypes
  <2> QED BY <2>1, <2>2, <2>3
<1>4. ASSUME Inv, AskApproval PROVE Inv'
  <2>1. TypeOK'
    <3>1. LoopTypes'
      BY <1>4 DEF AskApproval, LoopTypes
    <3>2. ModelTypes'
      BY <1>4, NothingSaid DEF AskApproval, ModelTypes
    <3>3. BatchTypes'
      BY <1>4 DEF AskApproval, BatchTypes
    <3>4. GateTypes'
      BY <1>4 DEF AskApproval, GateTypes, BatchTypes
    <3>5. BudgetTypes'
      BY <1>4 DEF AskApproval, BudgetTypes
    <3> QED BY <3>1, <3>2, <3>3, <3>4, <3>5
  <2>2. BatchInv' /\ PairsInv' /\ PassedInv'
    BY <1>4, <2>1 DEF AskApproval, BatchInv, PairsInv, ProviderSeesPairs, PassedInv,
       NoPreflight, LoopTypes, ModelTypes, BatchTypes, GateTypes, BudgetTypes
  <2>3. BudgetInv' /\ EndsInv'
    BY <1>4, <2>1 DEF AskApproval, BatchInv, BudgetInv, EndsInv, OneEnd, OfKind,
       LoopTypes, ModelTypes, BatchTypes, GateTypes, BudgetTypes
  <2> QED BY <2>1, <2>2, <2>3
<1>5. ASSUME Inv, End PROVE Inv'
  <2>1. TypeOK'
    <3>1. LoopTypes'
      BY <1>5 DEF End, LoopTypes
    <3>2. ModelTypes'
      BY <1>5 DEF End, ModelTypes
    <3>3. BatchTypes'
      BY <1>5 DEF End, BatchTypes
    <3>4. GateTypes'
      BY <1>5 DEF End, GateTypes
    <3>5. BudgetTypes'
      BY <1>5 DEF End, BudgetTypes
    <3> QED BY <3>1, <3>2, <3>3, <3>4, <3>5
  <2>2. BatchInv' /\ PairsInv' /\ PassedInv'
    BY <1>5, <2>1 DEF End, BatchInv, PairsInv, ProviderSeesPairs, PassedInv,
       NoPreflight, LoopTypes, ModelTypes, BatchTypes, GateTypes, BudgetTypes
  <2>3. BudgetInv'
    BY <1>5 DEF End, BudgetInv
  <2>4. EndsInv'
    <3>1. CASE cancelled
      BY <1>5, <3>1 DEF End, EndsInv, OneEnd, LoopTypes
    <3>2. CASE ~cancelled /\ errored
      BY <1>5, <3>2 DEF End, EndsInv, OneEnd, LoopTypes
    <3>3. CASE ~cancelled /\ ~errored
      BY <1>5, <3>3 DEF End, EndsInv, OneEnd, LoopTypes, PairsInv
    <3> QED BY <3>1, <3>2, <3>3
  <2> QED BY <2>1, <2>2, <2>3, <2>4
<1> QED BY <1>1, <1>2, <1>3, <1>4, <1>5

-----------------------------------------------------------------------------
(* The invariant holds of every turn, whatever the model, the provider and *)
(* the user do.                                                            *)
THEOREM TurnInvariance == Spec => []Inv
<1>1. Init => Inv
  <2> SUFFICES ASSUME Init PROVE Inv
    OBVIOUS
  <2>1. TypeOK
    <3>1. /\ retries \in [Rungs -> 0 .. RetryLimit]
          /\ ends \in Seq({"turn_complete", "approval_required", "error", "interrupted"})
      BY Limits DEF Init
    <3>2. LoopTypes
      BY <3>1, Limits DEF Init, LoopTypes
    <3>3. ModelTypes
      BY Limits, NothingSaid DEF Init, ModelTypes
    <3>4. BatchTypes /\ GateTypes /\ BudgetTypes
      BY Limits DEF Init, BatchTypes, GateTypes, BudgetTypes
    <3> QED BY <3>2, <3>3, <3>4 DEF TypeOK
  <2>2. BatchInv /\ PairsInv /\ PassedInv
    BY DEF Init, NoResponse, BatchInv, PairsInv, ProviderSeesPairs, PassedInv
  <2>3. BudgetInv /\ EndsInv
    BY DEF Init, BudgetInv, EndsInv, OneEnd
  <2> QED BY <2>1, <2>2, <2>3 DEF Inv
<1>2. Inv /\ [Next]_vars => Inv'
  <2> SUFFICES ASSUME Inv, [Next]_vars PROVE Inv'
    OBVIOUS
  <2>1. CASE LoopStep
    BY <2>1, HeadStep, ModelStep, SaidStep, GateStep, ToolsStep, AfterToolsStep
       DEF LoopStep
  <2>2. CASE UserSays \/ (\E yes \in SUBSET pending : UserDecides(yes)) \/ Interrupt
                      \/ \E on \in BOOLEAN, c \in 0 .. MaxCap : SetPolicy(on, c)
    BY <2>2, OutsideStep
  <2>3. CASE UNCHANGED vars
    BY <2>3
       DEF vars, loopVars, llmVars, ctxVars, batchVars, gateVars, budgetVars, Inv, TypeOK,
           LoopTypes, ModelTypes, BatchTypes, GateTypes, BudgetTypes, BatchInv, PairsInv,
           ProviderSeesPairs, PassedInv, NoPreflight, BudgetInv, EndsInv, OneEnd, OfKind
  <2> QED BY <2>1, <2>2, <2>3 DEF Next
<1> QED BY <1>1, <1>2, PTL DEF Spec

(* What the loop and the session keep has its type.                        *)
THEOREM TurnTypeCorrect == Spec => []TypeOK
<1>1. Inv => TypeOK
  BY DEF Inv
<1> QED BY <1>1, TurnInvariance, PTL

(* Every call the provider is shown has one result (get_messages).         *)
THEOREM ProviderSeesOneResult == Spec => []ProviderSeesPairs
<1>1. Inv => ProviderSeesPairs
  BY DEF Inv, PairsInv
<1> QED BY <1>1, TurnInvariance, PTL

(* The jobs of one response cannot together exceed what is left of the cap *)
(* (_remaining_budget_after_reservations).                                 *)
THEOREM SpendIsCapped == Spec => []AutoSpendWithinCap
<1>1. Inv => AutoSpendWithinCap
  BY DEF Inv, BudgetInv, AutoSpendWithinCap
<1> QED BY <1>1, TurnInvariance, PTL

(* Nothing that a gate holds is run or shown for approval.                 *)
THEOREM GatesAreKept == Spec => []GatesHold
<1>1. Inv => GatesHold
  BY DEF Inv, BatchInv, PassedInv, NoPreflight, GatesHold
<1> QED BY <1>1, TurnInvariance, PTL

(* A turn that is over has sent its one event, and an interrupted one ends *)
(* with the event that says so.                                            *)
THEOREM TurnsEndOnce == Spec => []OneEnd
<1>1. Inv => OneEnd
  BY DEF Inv, EndsInv
<1> QED BY <1>1, TurnInvariance, PTL
=============================================================================
