------------------------ MODULE ContextWindowProofs ------------------------
(***************************************************************************)
(* The safety properties of ContextWindow, for every value of the          *)
(* constants.                                                              *)
(*                                                                         *)
(* The invariant is ContextInv.  Its parts:                                *)
(*   Discipline       what the variables hold in each state of the agent;  *)
(*   HistorySound     numbers grow along the history, and every result has *)
(*                    its call before it with nothing between but other    *)
(*                    results, or is of a call that was parted;            *)
(*   SummarySound     the history that a compaction in flight will leave   *)
(*                    is sound too: what it keeps was chosen before the    *)
(*                    summary was asked for, and an edit may have cut the  *)
(*                    history since;                                       *)
(*   ModelIsAnswered  while the model answers, every call has its result.  *)
(*                                                                         *)
(* StraysAreExplained alone is not inductive: a step that cuts or patches  *)
(* the history moves the call that owns a result.  So each operation is    *)
(* shown to send sound histories to sound ones, by what it does to the     *)
(* places of messages: some are drawn from the history (Drawn), its end is *)
(* cut (CutShort), other messages take the place of its beginning          *)
(* (Joined), stubs are inserted (PatchedSound).  The repaired history is a *)
(* FlattenSeq; its places are found by taking the least of a set of        *)
(* natural numbers (Least).                                                *)
(***************************************************************************)
EXTENDS ContextWindow, SequenceTheorems, FunctionTheorems, FiniteSetTheorems,
        WellFoundedInduction, TLAPS

-----------------------------------------------------------------------------
(***************************************************************************)
(* Numbers, finite sets and sequences.                                     *)
(***************************************************************************)

\* A set of natural numbers has a least one: induction over numbers, for one set at a time.
LEMMA Least ==
    ASSUME NEW S \in SUBSET Nat, S # {}
    PROVE  \E m \in S : \A x \in S : m <= x
<1> DEFINE R == {ss \in Nat \X Nat : ss[1] < ss[2]}
<1>1. \A x, y \in Nat : x < y => <<x, y>> \in R
  OBVIOUS
<1>2. IsWellFoundedOn(R, Nat)
  BY NatLessThanWellFounded, Zenon DEF OpToRel
<1> HIDE DEF R
<1>3. PICK m \in S : \A x \in S : ~ (<<x, m>> \in R)
  BY <1>2, WFMin
<1>4. \A x \in S : ~ (x < m)
  BY <1>1, <1>3
<1> QED  BY <1>4

\* The greatest of some positions, and the least.
LEMMA MaxIsThere ==
    ASSUME NEW n \in Nat, NEW S \in SUBSET (1 .. n), S # {}
    PROVE  Max(S) \in S /\ \A x \in S : x <= Max(S)
<1> DEFINE T == {n - x : x \in S}
<1>1. T \in SUBSET Nat /\ T # {}
  <2>1. \A x \in S : n - x \in Nat
    OBVIOUS
  <2> QED  BY <2>1
<1>2. PICK t \in T : \A y \in T : t <= y
  BY <1>1, Least
<1>3. PICK m \in S : t = n - m
  OBVIOUS
<1>4. \A x \in S : m >= x
  BY <1>2, <1>3
<1> QED  BY <1>4 DEF Max

LEMMA MinIsThere ==
    ASSUME NEW n \in Nat, NEW S \in SUBSET (1 .. n), S # {}
    PROVE  Min(S) \in S /\ \A x \in S : Min(S) <= x
<1>1. PICK m \in S : \A x \in S : m <= x
  BY Least
<1> QED  BY <1>1 DEF Min

\* A finite set as a sequence: each of its elements once.
LEMMA SetAsSeq ==
    ASSUME NEW S, IsFiniteSet(S)
    PROVE  /\ SetToSeq(S) \in Seq(S)
           /\ \A x \in S : \E i \in 1 .. Len(SetToSeq(S)) : SetToSeq(S)[i] = x
           /\ \A i, j \in 1 .. Len(SetToSeq(S)) : SetToSeq(S)[i] = SetToSeq(S)[j] => i = j
<1> DEFINE c == Cardinality(S)
<1>1. c \in Nat /\ ExistsBijection(1 .. c, S)
  BY FS_CardinalityType
<1>2. \E f \in [1 .. c -> S] : IsInjective(f)
  BY <1>1 DEF ExistsBijection, Bijection, Injection
<1> DEFINE q == SetToSeq(S)
<1>3. q \in [1 .. c -> S] /\ IsInjective(q)
  BY <1>2 DEF SetToSeq
<1>4. q \in Injection(1 .. c, S)
  BY <1>3 DEF Injection
<1>5. IsFiniteSet(1 .. c) /\ Cardinality(1 .. c) = c
  BY <1>1, FS_Interval
<1>6. q \in Surjection(1 .. c, S)
  BY <1>4, <1>5, FS_Injection
<1> HIDE DEF c, q
<1>7. \A x \in S : \E i \in 1 .. c : q[i] = x
  BY <1>6 DEF Surjection
<1>8. q \in Seq(S) /\ Len(q) = c /\ DOMAIN q = 1 .. c
  <2>1. q \in Seq(S)
    BY <1>1, <1>3
  <2> QED  BY <1>1, <1>3, <2>1, LenProperties
<1> QED  BY <1>3, <1>7, <1>8 DEF IsInjective, q

\* What FlattenSeq computes, step by step: the first i sequences in a row.
LEMMA FlattenSteps ==
    ASSUME NEW T, NEW ss \in Seq(Seq(T)), ss # <<>>
    PROVE  \E f \in [1 .. Len(ss) -> Seq(T)] :
              /\ f[1] = ss[1]
              /\ \A i \in 2 .. Len(ss) : f[i] = f[i - 1] \o ss[i]
              /\ FlattenSeq(ss) = f[Len(ss)]
<1> DEFINE N == Len(ss)
<1>1. N \in Nat /\ N >= 1 /\ \A i \in 1 .. N : ss[i] \in Seq(T)
  BY LenProperties, EmptySeq, ElementOfSeq
<1> HIDE DEF N
<1> DEFINE Steps(n, f) == /\ f \in [1 .. n -> Seq(T)]
                          /\ f[1] = ss[1]
                          /\ \A i \in 2 .. n : f[i] = f[i - 1] \o ss[i]
<1> DEFINE Bad == {n \in 1 .. N : ~ \E f : Steps(n, f)}
<1> HIDE DEF Steps
<1>2. Bad = {}
  <2> SUFFICES ASSUME Bad # {} PROVE FALSE
    OBVIOUS
  <2>1. PICK n \in Bad : \A m \in Bad : n <= m
    <3>1. Bad \in SUBSET Nat
      BY <1>1
    <3> HIDE DEF Bad
    <3> QED  BY <3>1, Least
  <2>2. CASE n = 1
    <3>1. Steps(1, [i \in 1 .. 1 |-> ss[1]])
      BY <1>1 DEF Steps
    <3> QED  BY <2>1, <2>2, <3>1
  <2>3. CASE n # 1
    <3>1. n \in 2 .. N /\ n - 1 \in 1 .. N /\ n - 1 \notin Bad
      <4>1. n \in 1 .. N
        OBVIOUS
      <4>2. n \in 2 .. N /\ n - 1 \in 1 .. N /\ ~ (n <= n - 1)
        BY <1>1, <2>3, <4>1
      <4> HIDE DEF Bad
      <4> QED  BY <2>1, <4>2
    <3>2. PICK f : Steps(n - 1, f)
      BY <3>1
    <3>3. f[n - 1] \in Seq(T) /\ ss[n] \in Seq(T)
      BY <1>1, <3>1, <3>2 DEF Steps
    <3>4. PICK c \in Seq(T) : c = f[n - 1] \o ss[n]
      BY <3>3, ConcatProperties
    <3> DEFINE g == [i \in 1 .. n |-> IF i = n THEN c ELSE f[i]]
    <3>5. g \in [1 .. n -> Seq(T)] /\ g[1] = ss[1]
      BY <3>1, <3>2 DEF Steps
    <3>6. g[n] = c /\ \A i \in 1 .. n - 1 : g[i] = f[i]
      BY <3>1
    <3> HIDE DEF g
    <3>7. \A i \in 2 .. n - 1 : g[i] = g[i - 1] \o ss[i]
      <4>1. \A i \in 2 .. n - 1 : i \in 1 .. n - 1 /\ i - 1 \in 1 .. n - 1
        BY <3>1
      <4> QED  BY <3>2, <3>6, <4>1 DEF Steps
    <3>8. g[n] = g[n - 1] \o ss[n]
      <4>1. n - 1 \in 1 .. n - 1
        BY <3>1
      <4>2. g[n - 1] = f[n - 1]
        BY <3>6, <4>1
      <4> QED  BY <3>4, <3>6, <4>2, Zenon
    <3>9. \A i \in 2 .. n : i = n \/ i \in 2 .. n - 1
      BY <3>1
    <3>10. Steps(n, g)
      BY <3>5, <3>7, <3>8, <3>9 DEF Steps
    <3> QED  BY <2>1, <3>10
  <2> QED  BY <2>2, <2>3
<1>3. PICK f : Steps(N, f)
  <2>1. N \in 1 .. N
    BY <1>1
  <2> QED  BY <1>2, <2>1
<1> HIDE DEF Bad
<1> DEFINE Following(g, i) == IF i = 1 THEN ss[i] ELSE g[i - 1] \o ss[i]
<1> DEFINE Whole(g) == g = [i \in 1 .. N |-> Following(g, i)]
<1>4. Whole(f)
  <2>1. f \in [1 .. N -> Seq(T)]
    BY <1>3 DEF Steps
  <2>2. \A i \in 1 .. N : i = 1 \/ i \in 2 .. N
    BY <1>1
  <2>3. \A i \in 1 .. N : f[i] = Following(f, i)
    BY <1>3, <2>2 DEF Steps
  <2> HIDE DEF Following
  <2> QED  BY <2>1, <2>3
<1> DEFINE h == CHOOSE g : Whole(g)
<1>5. Whole(h)
  BY <1>4, Zenon
<1>6. FlattenSeq(ss) = h[N]
  BY <1>1 DEF FlattenSeq, N
<1> HIDE DEF h
<1>7. \A i \in 1 .. N : h[i] = Following(h, i)
  BY <1>5, Zenon
<1>8. h[1] = ss[1] /\ \A i \in 2 .. N : h[i] = h[i - 1] \o ss[i]
  <2>1. 1 \in 1 .. N /\ \A i \in 2 .. N : i \in 1 .. N /\ i # 1
    BY <1>1
  <2> QED  BY <1>7, <2>1
<1>9. DOMAIN h = 1 .. N /\ h = [i \in 1 .. N |-> h[i]]
  BY <1>5, Zenon
<1> HIDE DEF Whole, Following
<1>10. \A i \in 1 .. N : h[i] \in Seq(T)
  <2> DEFINE Off == {n \in 1 .. N : h[n] \notin Seq(T)}
  <2> SUFFICES ASSUME Off # {} PROVE FALSE
    OBVIOUS
  <2>1. PICK n \in Off : \A m \in Off : n <= m
    <3>1. Off \in SUBSET Nat
      BY <1>1
    <3> HIDE DEF Off
    <3> QED  BY <3>1, Least
  <2>2. n \in 2 .. N
    BY <1>1, <1>8, <2>1
  <2>3. n - 1 \in 1 .. N /\ n - 1 < n
    BY <1>1, <2>2
  <2>4. n - 1 \notin Off
    BY <2>1, <2>3
  <2>5. h[n - 1] \in Seq(T) /\ ss[n] \in Seq(T)
    BY <1>1, <2>1, <2>3, <2>4
  <2>6. h[n - 1] \o ss[n] \in Seq(T)
    BY <2>5, ConcatProperties
  <2> QED  BY <1>8, <2>1, <2>2, <2>6
<1>11. h \in [1 .. N -> Seq(T)]
  BY <1>9, <1>10, Zenon
<1> QED  BY <1>6, <1>8, <1>11 DEF N

\* A property of numbers that each of 1 .. n hands on to the next holds for all of them.
LEMMA Reaches ==
    ASSUME NEW n \in Nat, NEW S \in SUBSET (1 .. n), n >= 1 => 1 \in S,
           \A i \in 1 .. n : i \in S /\ i + 1 <= n => i + 1 \in S
    PROVE  S = 1 .. n
<1> DEFINE Bad == (1 .. n) \ S
<1> SUFFICES ASSUME Bad # {} PROVE FALSE
  OBVIOUS
<1>1. PICK m \in Bad : \A x \in Bad : m <= x
  <2>1. Bad \in SUBSET Nat
    OBVIOUS
  <2> HIDE DEF Bad
  <2> QED  BY <2>1, Least
<1>2. m \in 1 .. n /\ m # 1 /\ m \notin S
  BY <1>1
<1>3. m - 1 \in 1 .. n /\ ~ (m <= m - 1) /\ (m - 1) + 1 = m
  BY <1>2
<1>4. m - 1 \in S
  BY <1>1, <1>3
<1>5. (m - 1) + 1 <= n
  BY <1>2, <1>3
<1> HIDE DEF Bad
<1>6. (m - 1) + 1 \in S
  BY <1>3, <1>4, <1>5
<1> QED  BY <1>2, <1>3, <1>6

\* Where each sequence begins in the row of them: sequence i at place at[i - 1] + 1.
LEMMA FlattenPlaces ==
    ASSUME NEW T, NEW ss \in Seq(Seq(T)), ss # <<>>
    PROVE  /\ FlattenSeq(ss) \in Seq(T)
           /\ \E at \in [0 .. Len(ss) -> Nat] :
              /\ at[0] = 0 /\ at[Len(ss)] = Len(FlattenSeq(ss))
              /\ \A i \in 1 .. Len(ss) : at[i] = at[i - 1] + Len(ss[i])
              /\ \A i, j \in 0 .. Len(ss) : i <= j => at[i] <= at[j]
              /\ \A i \in 1 .. Len(ss) : \A k \in 1 .. Len(ss[i]) :
                     FlattenSeq(ss)[at[i - 1] + k] = ss[i][k]
              /\ \A p \in 1 .. Len(FlattenSeq(ss)) :
                     \E i \in 1 .. Len(ss) : p - at[i - 1] \in 1 .. Len(ss[i])
<1> PICK N : N = Len(ss)
  OBVIOUS
<1>1. N \in Nat /\ N >= 1 /\ \A i \in 1 .. N : ss[i] \in Seq(T) /\ Len(ss[i]) \in Nat
  BY LenProperties, EmptySeq, ElementOfSeq
<1>2. PICK f \in [1 .. N -> Seq(T)] :
         /\ f[1] = ss[1]
         /\ \A i \in 2 .. N : f[i] = f[i - 1] \o ss[i]
         /\ FlattenSeq(ss) = f[N]
  BY FlattenSteps
<1> DEFINE at == [i \in 0 .. N |-> IF i = 0 THEN 0 ELSE Len(f[i])]
<1>3. \A i \in 1 .. N : f[i] \in Seq(T) /\ Len(f[i]) \in Nat
  BY <1>2, LenProperties
<1>4. /\ at \in [0 .. N -> Nat] /\ at[0] = 0
      /\ \A i \in 1 .. N : at[i] = Len(f[i])
  BY <1>1, <1>3
<1>5. ASSUME NEW i \in 2 .. N
      PROVE  /\ Len(f[i]) = Len(f[i - 1]) + Len(ss[i])
             /\ \A k \in 1 .. Len(f[i - 1]) : f[i][k] = f[i - 1][k]
             /\ \A k \in 1 .. Len(ss[i]) : f[i][Len(f[i - 1]) + k] = ss[i][k]
  <2>1. /\ f[i - 1] \in Seq(T) /\ ss[i] \in Seq(T)
        /\ Len(f[i - 1]) \in Nat /\ Len(ss[i]) \in Nat
    <3>1. i - 1 \in 1 .. N /\ i \in 1 .. N
      BY <1>1
    <3> QED  BY <1>1, <1>3, <3>1
  <2> DEFINE u == f[i - 1]
  <2> DEFINE v == ss[i]
  <2>2. f[i] = u \o v
    BY <1>2
  <2> HIDE DEF u, v
  <2>3. /\ Len(u \o v) = Len(u) + Len(v)
        /\ \A k \in 1 .. Len(u) + Len(v) :
               (u \o v)[k] = IF k <= Len(u) THEN u[k] ELSE v[k - Len(u)]
    BY <2>1, ConcatProperties DEF u, v
  <2> DEFINE w == u \o v
  <2>4. /\ Len(w) = Len(u) + Len(v)
        /\ \A k \in 1 .. Len(u) + Len(v) : w[k] = IF k <= Len(u) THEN u[k] ELSE v[k - Len(u)]
    BY <2>3
  <2> HIDE DEF w
  <2>5. Len(u) \in Nat /\ Len(v) \in Nat
    BY <2>1 DEF u, v
  <2>6. \A k \in 1 .. Len(u) : w[k] = u[k]
    BY <2>4, <2>5
  <2>7. \A k \in 1 .. Len(v) : w[Len(u) + k] = v[k]
    <3> SUFFICES ASSUME NEW k \in 1 .. Len(v) PROVE w[Len(u) + k] = v[k]
      OBVIOUS
    <3>1. /\ Len(u) + k \in 1 .. Len(u) + Len(v) /\ ~ (Len(u) + k <= Len(u))
          /\ (Len(u) + k) - Len(u) = k
      BY <2>5
    <3> QED  BY <2>4, <3>1
  <2> QED  BY <2>2, <2>4, <2>6, <2>7 DEF u, v, w
<1>6. \A i \in 1 .. N : at[i] = at[i - 1] + Len(ss[i])
  <2> SUFFICES ASSUME NEW i \in 1 .. N PROVE at[i] = at[i - 1] + Len(ss[i])
    OBVIOUS
  <2>1. CASE i = 1
    BY <1>1, <1>2, <1>4, <2>1
  <2>2. CASE i # 1
    <3>1. i \in 2 .. N /\ i - 1 \in 1 .. N
      BY <1>1, <2>2
    <3> QED  BY <1>4, <1>5, <3>1
  <2> QED  BY <2>1, <2>2
<1> HIDE DEF at
<1> DEFINE Stage(n) ==
       /\ \A i \in 0 .. n : at[i] <= at[n]
       /\ \A i \in 1 .. n : \A k \in 1 .. Len(ss[i]) : f[n][at[i - 1] + k] = ss[i][k]
       /\ \A p \in 1 .. at[n] : \E i \in 1 .. n : p - at[i - 1] \in 1 .. Len(ss[i])
<1> DEFINE Good == {n \in 1 .. N : Stage(n)}
<1>7. Stage(1)
  <2>1. at[0] = 0 /\ at[1] = Len(ss[1]) /\ f[1] = ss[1] /\ Len(ss[1]) \in Nat
    BY <1>1, <1>2, <1>4, <1>6
  <2> QED  BY <2>1
<1>8. ASSUME NEW n \in 1 .. N, Stage(n), n + 1 <= N
      PROVE  Stage(n + 1)
  <2>1. /\ n + 1 \in 2 .. N /\ (n + 1) - 1 = n /\ n \in Nat
        /\ \A i \in 0 .. n + 1 : i = n + 1 \/ i \in 0 .. n
        /\ \A i \in 1 .. n + 1 : i = n + 1 \/ i \in 1 .. n
        /\ \A i \in 1 .. n : i - 1 \in 0 .. n /\ i \in 0 .. n /\ i \in 1 .. N /\ i \in 1 .. n + 1
        /\ n + 1 \in 1 .. n + 1
    BY <1>1, <1>8
  <2>2. /\ at[n + 1] = at[n] + Len(ss[n + 1]) /\ at[n] = Len(f[n])
        /\ \A i \in 0 .. N : at[i] \in Nat
        /\ \A i \in 1 .. N : Len(ss[i]) \in Nat
        /\ \A k \in 1 .. at[n] : f[n + 1][k] = f[n][k]
        /\ \A k \in 1 .. Len(ss[n + 1]) : f[n + 1][at[n] + k] = ss[n + 1][k]
    <3>1. at[n] = Len(f[n]) /\ n + 1 \in 1 .. N
      BY <1>4, <2>1
    <3>2. at[n + 1] = at[n] + Len(ss[n + 1])
      BY <1>6, <2>1, <3>1
    <3>3. /\ \A k \in 1 .. Len(f[n]) : f[n + 1][k] = f[n][k]
          /\ \A k \in 1 .. Len(ss[n + 1]) : f[n + 1][Len(f[n]) + k] = ss[n + 1][k]
      <4>1. PICK m \in 2 .. N : m = n + 1 /\ m - 1 = n
        BY <2>1
      <4>2. /\ \A k \in 1 .. Len(f[m - 1]) : f[m][k] = f[m - 1][k]
            /\ \A k \in 1 .. Len(ss[m]) : f[m][Len(f[m - 1]) + k] = ss[m][k]
        BY <1>5
      <4> QED  BY <4>1, <4>2
    <3>4. \A i \in 0 .. N : at[i] \in Nat
      BY <1>4
    <3> QED  BY <1>1, <3>1, <3>2, <3>3, <3>4
  <2>3. \A i \in 0 .. n + 1 : at[i] <= at[n + 1]
    <3>1. at[n] \in Nat /\ Len(ss[n + 1]) \in Nat /\ \A i \in 0 .. n : at[i] \in Nat
      BY <2>1, <2>2
    <3> QED  BY <1>8, <2>1, <2>2, <3>1
  <2>4. \A i \in 1 .. n + 1 : \A k \in 1 .. Len(ss[i]) : f[n + 1][at[i - 1] + k] = ss[i][k]
    <3> SUFFICES ASSUME NEW i \in 1 .. n + 1, NEW k \in 1 .. Len(ss[i])
                 PROVE  f[n + 1][at[i - 1] + k] = ss[i][k]
      OBVIOUS
    <3>1. CASE i = n + 1
      BY <2>1, <2>2, <3>1
    <3>2. CASE i \in 1 .. n
      <4>1. at[i - 1] + k \in 1 .. at[n]
        <5>1. /\ at[i - 1] \in Nat /\ at[i] \in Nat /\ at[n] \in Nat /\ Len(ss[i]) \in Nat
              /\ at[i] = at[i - 1] + Len(ss[i]) /\ at[i] <= at[n]
          <6>1. i \in 1 .. N /\ i - 1 \in 0 .. N /\ i \in 0 .. N /\ n \in 0 .. N /\ i \in 0 .. n
            BY <1>1, <2>1, <3>2
          <6>2. at[i] = at[i - 1] + Len(ss[i])
            BY <1>6, <6>1
          <6> QED  BY <1>8, <2>2, <6>1, <6>2
        <5>2. \A a, b, l, c, x \in Nat : b = a + l /\ b <= c /\ x \in 1 .. l => a + x \in 1 .. c
          OBVIOUS
        <5>3. k \in Nat
          BY <5>1
        <5> QED  BY <5>1, <5>2, <5>3
      <4> QED  BY <1>8, <2>2, <3>2, <4>1
    <3> QED  BY <2>1, <3>1, <3>2
  <2>5. \A p \in 1 .. at[n + 1] : \E i \in 1 .. n + 1 : p - at[i - 1] \in 1 .. Len(ss[i])
    <3> SUFFICES ASSUME NEW p \in 1 .. at[n + 1]
                 PROVE  \E i \in 1 .. n + 1 : p - at[i - 1] \in 1 .. Len(ss[i])
      OBVIOUS
    <3>1. at[n] \in Nat /\ Len(ss[n + 1]) \in Nat
      BY <2>1, <2>2
    <3>2. CASE p \in 1 .. at[n]
      BY <1>8, <2>1, <3>2
    <3>3. CASE p \notin 1 .. at[n]
      <4>1. p - at[n] \in 1 .. Len(ss[n + 1])
        BY <2>2, <3>1, <3>3
      <4> QED  BY <2>1, <4>1
    <3> QED  BY <3>2, <3>3
  <2> QED  BY <2>3, <2>4, <2>5
<1> HIDE DEF Stage
<1>9. Good = 1 .. N
  <2>1. 1 \in 1 .. N
    BY <1>1
  <2>2. 1 \in Good
    BY <1>7, <2>1
  <2>3. \A i \in 1 .. N : i \in Good /\ i + 1 <= N => i + 1 \in Good
    BY <1>1, <1>8
  <2>4. Good \in SUBSET (1 .. N)
    OBVIOUS
  <2> HIDE DEF Good
  <2> QED  BY <1>1, <2>2, <2>3, <2>4, Reaches
<1>10. Stage(N) /\ \A j \in 1 .. N : Stage(j)
  <2>1. N \in 1 .. N
    BY <1>1
  <2> QED  BY <1>9, <2>1
<1>11. \A i, j \in 0 .. N : i <= j => at[i] <= at[j]
  <2> SUFFICES ASSUME NEW i \in 0 .. N, NEW j \in 0 .. N, i <= j PROVE at[i] <= at[j]
    OBVIOUS
  <2>1. CASE j = 0
    <3>1. i = 0
      BY <2>1
    <3> QED  BY <1>4, <2>1, <3>1
  <2>2. CASE j # 0
    <3>1. j \in 1 .. N /\ i \in 0 .. j
      BY <1>1, <2>2
    <3> QED  BY <1>10, <3>1 DEF Stage
  <2> QED  BY <2>1, <2>2
<1>12. N \in 1 .. N /\ at[N] = Len(FlattenSeq(ss)) /\ FlattenSeq(ss) \in Seq(T)
  BY <1>1, <1>2, <1>3, <1>4
<1>13. /\ \A i \in 1 .. N : \A k \in 1 .. Len(ss[i]) : FlattenSeq(ss)[at[i - 1] + k] = ss[i][k]
       /\ \A p \in 1 .. at[N] : \E i \in 1 .. N : p - at[i - 1] \in 1 .. Len(ss[i])
  BY <1>2, <1>10 DEF Stage
<1>14. at \in [0 .. N -> Nat] /\ at[0] = 0
  BY <1>4
<1> QED  BY <1>6, <1>11, <1>12, <1>13, <1>14

-----------------------------------------------------------------------------
(***************************************************************************)
(* Messages, and what Owner, Results and Patched say of a history.         *)
(***************************************************************************)
Roles == {"system", "note", "user", "assistant", "tool"}
Calls == {ids \in SUBSET (Nat \X Nat) : IsFiniteSet(ids)}
Message == [n : Nat, role : Roles, ids : Calls]
History == {s \in Seq(Message) : s # <<>> /\ s[1].role # "tool"}

\* The stubs that a block lacks, as Patched says.
MissingOf(s, j) == s[j].ids \ UNION {s[i].ids : i \in Answers(s, j)}

\* The owner is the last message before that is not a result.
LEMMA OwnerIsBefore ==
    ASSUME NEW s \in History, NEW i \in 1 .. Len(s)
    PROVE  /\ Owner(s, i) \in 1 .. i
           /\ s[Owner(s, i)].role # "tool"
           /\ \A k \in Owner(s, i) + 1 .. i : s[k].role = "tool"
<1>1. Len(s) \in Nat /\ 1 \in 1 .. i
  BY LenProperties DEF History
<1> DEFINE before == {j \in 1 .. i : s[j].role # "tool"}
<1>2. 1 \in before /\ before \in SUBSET (1 .. i) /\ i \in Nat
  BY <1>1 DEF History
<1>3. Max(before) \in before /\ \A x \in before : x <= Max(before)
  <2> HIDE DEF before
  <2> QED  BY <1>2, MaxIsThere
<1>4. Owner(s, i) = Max(before)
  BY <1>2 DEF Owner
<1> HIDE DEF before
<1>5. PICK m : m = Max(before)
  OBVIOUS
<1>6. m \in 1 .. i /\ s[m].role # "tool"
  BY <1>3, <1>5 DEF before
<1>7. \A k \in m + 1 .. i : s[k].role = "tool"
  <2> SUFFICES ASSUME NEW k \in m + 1 .. i, s[k].role # "tool" PROVE FALSE
    OBVIOUS
  <2>1. k \in 1 .. i /\ ~ (k <= m)
    BY <1>6
  <2> QED  BY <1>3, <1>5, <2>1 DEF before
<1> QED  BY <1>4, <1>5, <1>6, <1>7

\* There is one such message.
LEMMA OwnerIsOne ==
    ASSUME NEW s \in History, NEW i \in 1 .. Len(s), NEW j \in 1 .. i, s[j].role # "tool",
           \A k \in j + 1 .. i : s[k].role = "tool"
    PROVE  Owner(s, i) = j
<1> PICK o : o = Owner(s, i)
  OBVIOUS
<1>1. o \in 1 .. i /\ s[o].role # "tool" /\ \A k \in o + 1 .. i : s[k].role = "tool"
  BY OwnerIsBefore
<1>2. ~ (o < j) /\ ~ (j < o)
  BY <1>1
<1> QED  BY <1>1, <1>2

\* A row of results numbered n: one for each call of ids.
ResultRow(r, ids, n) ==
    /\ r \in Seq(Message)
    /\ \A k \in 1 .. Len(r) :
          r[k].n = n /\ r[k].role = "tool" /\ \E id \in ids : r[k].ids = {id}
    /\ \A id \in ids : \E k \in 1 .. Len(r) : r[k].ids = {id}
    /\ \A k, l \in 1 .. Len(r) : r[k].ids = r[l].ids => k = l

LEMMA ResultsOfCalls ==
    ASSUME NEW ids \in Calls, NEW n \in Nat
    PROVE  ResultRow(Results(ids, n), ids, n)
<1> DEFINE R == {[n |-> n, role |-> "tool", ids |-> {id}] : id \in ids}
<1> DEFINE F == [id \in ids |-> [n |-> n, role |-> "tool", ids |-> {id}]]
<1>1. IsFiniteSet(ids) /\ \A id \in ids : id \in Nat \X Nat
  BY DEF Calls
<1>2. \A id \in ids : {id} \in Calls
  BY <1>1, FS_Singleton DEF Calls
<1>3. R \subseteq Message
  BY <1>2 DEF Message, Roles
<1>4. IsFiniteSet(R)
  <2>1. F \in Surjection(ids, R)
    BY DEF Surjection
  <2> HIDE DEF F, R
  <2> QED  BY <1>1, <2>1, FS_Surjection
<1>10. PICK q : q = Results(ids, n)
  OBVIOUS
<1>11. q = SetToSeq(R)
  BY <1>10, Zenon DEF Results
<1>5. /\ q \in Seq(R)
      /\ \A x \in R : \E i \in 1 .. Len(q) : q[i] = x
      /\ \A i, j \in 1 .. Len(q) : q[i] = q[j] => i = j
  <2> HIDE DEF R
  <2> QED  BY <1>4, <1>11, SetAsSeq
<1>6. q \in Seq(Message) /\ \A k \in 1 .. Len(q) : q[k] \in R
  <2> HIDE DEF R
  <2> QED  BY <1>3, <1>5, SeqMonotonic, ElementOfSeq
<1>7. \A k \in 1 .. Len(q) : q[k].n = n /\ q[k].role = "tool" /\ \E id \in ids : q[k].ids = {id}
  BY <1>6
<1>8. \A id \in ids : \E k \in 1 .. Len(q) : q[k].ids = {id}
  <2> SUFFICES ASSUME NEW id \in ids PROVE \E k \in 1 .. Len(q) : q[k].ids = {id}
    OBVIOUS
  <2>1. PICK x \in R : x.ids = {id}
    <3>1. [n |-> n, role |-> "tool", ids |-> {id}] \in R
      OBVIOUS
    <3> QED  BY <3>1
  <2>2. PICK k \in 1 .. Len(q) : q[k] = x
    BY <1>5
  <2> QED  BY <2>1, <2>2
<1>9. \A k, l \in 1 .. Len(q) : q[k].ids = q[l].ids => k = l
  <2> SUFFICES ASSUME NEW k \in 1 .. Len(q), NEW l \in 1 .. Len(q), q[k].ids = q[l].ids
               PROVE  k = l
    OBVIOUS
  <2>1. PICK a \in ids : q[k] = [n |-> n, role |-> "tool", ids |-> {a}]
    BY <1>6
  <2>2. PICK b \in ids : q[l] = [n |-> n, role |-> "tool", ids |-> {b}]
    BY <1>6
  <2>3. {a} = {b}
    BY <2>1, <2>2
  <2>4. a = b
    BY <2>3
  <2> QED  BY <1>5, <2>1, <2>2, <2>4
<1>12. q \in Seq(Message)
  BY <1>6
<1> HIDE DEF R, F
<1>13. ResultRow(q, ids, n)
  BY <1>7, <1>8, <1>9, <1>12 DEF ResultRow
<1> QED  BY <1>10, <1>13, Zenon

-----------------------------------------------------------------------------
(***************************************************************************)
(* What is true of a history at all times.  held are the calls that are    *)
(* pending or executed, gone those that have been parted.                  *)
(***************************************************************************)
\* A message that is not a result carries calls of its own number only, and
\* only the assistant's carries any; m messages have been made.
Proper(x, m) ==
    /\ x.n <= m
    /\ x.role # "tool" => \A id \in x.ids : id[1] = x.n /\ x.n # 0
    /\ x.role \notin {"tool", "assistant"} => x.ids = {}

\* x before y; stubs and summaries have no number.
InOrder(x, y) ==
    x.n # 0 /\ y.n # 0 =>
        x.n < y.n \/ (x.n = y.n /\ x.role = "tool" /\ y.role = "tool" /\ x.ids # y.ids)

\* The owner of what would follow.
Top(s) == Owner(s, Len(s))

WellFormed(s, m) ==
    /\ s \in Seq(Message) /\ s # <<>> /\ s[1].role = "system"
    /\ \A i \in 1 .. Len(s) : Proper(s[i], m)
Ordered(s) == \A i, j \in 1 .. Len(s) : i < j => InOrder(s[i], s[j])
Explained(s, gone) ==
    \A i \in 1 .. Len(s) : s[i].role = "tool" =>
        s[i].ids \subseteq s[Owner(s, i)].ids \/ s[i].ids \subseteq gone
HeldLast(s, held, gone) == held \subseteq s[Top(s)].ids \cup gone

Sound(s, m, held, gone) ==
    WellFormed(s, m) /\ Ordered(s) /\ Explained(s, gone) /\ HeldLast(s, held, gone)

LEMMA WellFormedHistory ==
    ASSUME NEW s, NEW m, WellFormed(s, m)
    PROVE  s \in History /\ Len(s) \in Nat /\ Len(s) >= 1
  BY EmptySeq, LenProperties DEF WellFormed, History

\* Nothing is lost when fewer calls are held or more are gone.
LEMMA SoundLess ==
    ASSUME NEW s, NEW m, NEW held, NEW gone, NEW held2, NEW gone2,
           Sound(s, m, held, gone), held2 \subseteq held \cup gone2, gone \subseteq gone2
    PROVE  Sound(s, m, held2, gone2)
<1>1. Explained(s, gone2)
  BY DEF Sound, Explained
<1>2. HeldLast(s, held2, gone2)
  BY DEF Sound, HeldLast
<1> QED  BY <1>1, <1>2 DEF Sound

\* A number may pass without a message: the browser's, or one that failed.
LEMMA SoundLater ==
    ASSUME NEW s, NEW m \in Nat, NEW held, NEW gone, Sound(s, m, held, gone),
           NEW m2 \in Nat, m <= m2
    PROVE  Sound(s, m2, held, gone)
<1>1. s \in Seq(Message)
  BY DEF Sound, WellFormed
<1>2. \A i \in 1 .. Len(s) : Proper(s[i], m2)
  <2> SUFFICES ASSUME NEW i \in 1 .. Len(s) PROVE Proper(s[i], m2)
    OBVIOUS
  <2>1. s[i] \in Message /\ Proper(s[i], m)
    BY <1>1, ElementOfSeq DEF Sound, WellFormed
  <2>2. s[i].n \in Nat
    BY <2>1 DEF Message
  <2> QED  BY <2>1, <2>2 DEF Proper
<1> QED  BY <1>2 DEF Sound, WellFormed

\* The owner depends on what comes before only.
LEMMA OwnerOfPrefix ==
    ASSUME NEW s \in History, NEW t \in History, NEW i \in 1 .. Len(s), i \in 1 .. Len(t),
           \A k \in 1 .. i : t[k] = s[k]
    PROVE  Owner(t, i) = Owner(s, i)
<1> PICK o : o = Owner(s, i)
  OBVIOUS
<1>1. o \in 1 .. i /\ s[o].role # "tool" /\ \A k \in o + 1 .. i : s[k].role = "tool"
  BY OwnerIsBefore
<1>2. i \in Nat
  OBVIOUS
<1>3. \A k \in o + 1 .. i : k \in 1 .. i
  BY <1>1, <1>2
<1> QED  BY <1>1, <1>3, OwnerIsOne

\* Messages made after all others are added at the end.
LEMMA Extended ==
    ASSUME NEW s, NEW m \in Nat, NEW held, NEW gone, Sound(s, m, held, gone),
           NEW ms \in Seq(Message), NEW m2 \in Nat, m <= m2, NEW held2, NEW gone2,
           gone \subseteq gone2,
           \A k \in 1 .. Len(ms) : Proper(ms[k], m2) /\ m < ms[k].n,
           \A k, l \in 1 .. Len(ms) : k < l => InOrder(ms[k], ms[l]),
           \A k \in 1 .. Len(ms) : ms[k].role = "tool" =>
              \/ ms[k].ids \subseteq gone2
              \/ ms[k].ids \subseteq s[Top(s)].ids /\ \A l \in 1 .. k : ms[l].role = "tool",
           \/ held2 \subseteq gone2
           \/ /\ held2 \subseteq s[Top(s)].ids \cup gone2
              /\ \A l \in 1 .. Len(ms) : ms[l].role = "tool"
           \/ /\ ms # <<>> /\ ms[Len(ms)].role # "tool"
              /\ held2 \subseteq ms[Len(ms)].ids
    PROVE  Sound(s \o ms, m2, held2, gone2)
<1> PICK t : t = s \o ms
  OBVIOUS
<1> PICK N : N = Len(s)
  OBVIOUS
<1> PICK M : M = Len(ms)
  OBVIOUS
<1>1. s \in History /\ s \in Seq(Message) /\ N \in Nat /\ N >= 1 /\ M \in Nat
  <2>1. WellFormed(s, m)
    BY DEF Sound
  <2> QED  BY <2>1, WellFormedHistory, LenProperties DEF WellFormed
<1>2. /\ t \in Seq(Message) /\ Len(t) = N + M
      /\ \A k \in 1 .. N + M : t[k] = IF k <= N THEN s[k] ELSE ms[k - N]
  BY <1>1, ConcatProperties
<1>3. \A k \in 1 .. N : k \in 1 .. N + M /\ t[k] = s[k]
  BY <1>1, <1>2
<1>4. \A k \in 1 .. M : N + k \in 1 .. N + M /\ t[N + k] = ms[k]
  <2> SUFFICES ASSUME NEW k \in 1 .. M PROVE N + k \in 1 .. N + M /\ t[N + k] = ms[k]
    OBVIOUS
  <2>1. N + k \in 1 .. N + M /\ ~ (N + k <= N) /\ (N + k) - N = k
    BY <1>1
  <2> QED  BY <1>2, <2>1
<1>5. \A i \in 1 .. N + M : i \in 1 .. N \/ \E k \in 1 .. M : i = N + k
  <2> SUFFICES ASSUME NEW i \in 1 .. N + M, i \notin 1 .. N PROVE \E k \in 1 .. M : i = N + k
    OBVIOUS
  <2>1. i - N \in 1 .. M /\ i = N + (i - N)
    BY <1>1
  <2> QED  BY <2>1
<1>6. t[1] = s[1] /\ t # <<>> /\ s[1].role = "system" /\ t \in History
  <2>1. 1 \in 1 .. N /\ Len(t) # 0
    BY <1>1, <1>2
  <2> QED  BY <1>2, <1>3, <2>1, EmptySeq DEF Sound, WellFormed, History
<1>7. \A i \in 1 .. N : Owner(t, i) = Owner(s, i) /\ Owner(t, i) \in 1 .. N
  <2> SUFFICES ASSUME NEW i \in 1 .. N
               PROVE Owner(t, i) = Owner(s, i) /\ Owner(t, i) \in 1 .. N
    OBVIOUS
  <2>1. i \in 1 .. N + M /\ \A k \in 1 .. i : t[k] = s[k]
    BY <1>1, <1>3
  <2>2. Owner(t, i) = Owner(s, i)
    BY <1>1, <1>2, <1>6, <2>1, OwnerOfPrefix
  <2>3. Owner(s, i) \in 1 .. i
    BY <1>1, OwnerIsBefore
  <2> QED  BY <1>1, <2>2, <2>3
<1>8. ASSUME NEW k \in 1 .. M, \A l \in 1 .. k : ms[l].role = "tool"
      PROVE  Owner(t, N + k) = Top(s) /\ t[Top(s)] = s[Top(s)]
  <2> PICK o : o = Top(s)
    OBVIOUS
  <2>1. o \in 1 .. N /\ s[o].role # "tool" /\ \A j \in o + 1 .. N : s[j].role = "tool"
    <3>1. N \in 1 .. N
      BY <1>1
    <3> QED  BY <1>1, <3>1, OwnerIsBefore DEF Top
  <2>2. \A j \in o + 1 .. N + k : t[j].role = "tool"
    <3> SUFFICES ASSUME NEW j \in o + 1 .. N + k PROVE t[j].role = "tool"
      OBVIOUS
    <3>1. CASE j \in o + 1 .. N
      <4>1. j \in 1 .. N
        BY <1>1, <2>1, <3>1
      <4> QED  BY <1>3, <2>1, <3>1, <4>1
    <3>2. CASE j \notin o + 1 .. N
      <4>1. j - N \in 1 .. k /\ j = N + (j - N) /\ j - N \in 1 .. M
        BY <1>1, <2>1, <3>2
      <4> QED  BY <1>4, <1>8, <4>1
    <3> QED  BY <3>1, <3>2
  <2>3. o \in 1 .. N + k /\ N + k \in 1 .. Len(t) /\ t[o] = s[o]
    BY <1>1, <1>2, <1>3, <2>1
  <2>4. PICK i \in 1 .. Len(t) : i = N + k
    BY <2>3
  <2>5. o \in 1 .. i /\ t[o].role # "tool" /\ \A j \in o + 1 .. i : t[j].role = "tool"
    BY <2>1, <2>2, <2>3, <2>4
  <2>6. Owner(t, i) = o
    BY <1>6, <2>5, OwnerIsOne
  <2> QED  BY <2>3, <2>4, <2>6
<1>9. WellFormed(t, m2)
  <2>1. \A i \in 1 .. N : Proper(t[i], m2)
    <3> SUFFICES ASSUME NEW i \in 1 .. N PROVE Proper(t[i], m2)
      OBVIOUS
    <3>1. Proper(s[i], m) /\ t[i] = s[i] /\ s[i] \in Message
      BY <1>1, <1>3, ElementOfSeq DEF Sound, WellFormed
    <3> QED  BY <3>1 DEF Proper, Message
  <2>2. \A k \in 1 .. M : Proper(t[N + k], m2)
    BY <1>4
  <2> QED  BY <1>2, <1>5, <1>6, <2>1, <2>2 DEF WellFormed
<1>10. Ordered(t)
  <2> SUFFICES ASSUME NEW i \in 1 .. N + M, NEW j \in 1 .. N + M, i < j
               PROVE  InOrder(t[i], t[j])
    BY <1>2 DEF Ordered
  <2>1. CASE i \in 1 .. N /\ j \in 1 .. N
    BY <1>3, <2>1 DEF Sound, Ordered
  <2>2. CASE i \in 1 .. N /\ j \notin 1 .. N
    <3>1. PICK k \in 1 .. M : j = N + k
      BY <1>5, <2>2
    <3>2. s[i].n \in Nat /\ s[i].n <= m /\ ms[k].n \in Nat /\ m < ms[k].n
      <4>1. s[i] \in Message /\ ms[k] \in Message
        BY <1>1, <2>2, ElementOfSeq
      <4>2. Proper(s[i], m) /\ m < ms[k].n
        BY <2>2 DEF Sound, WellFormed
      <4> QED  BY <4>1, <4>2 DEF Proper, Message
    <3> QED  BY <1>3, <1>4, <2>2, <3>1, <3>2 DEF InOrder
  <2>3. CASE i \notin 1 .. N
    <3>1. PICK k \in 1 .. M : i = N + k
      BY <1>5, <2>3
    <3>2. j \notin 1 .. N
      BY <1>1, <3>1
    <3>3. PICK l \in 1 .. M : j = N + l
      BY <1>5, <3>2
    <3>4. k < l
      BY <1>1, <3>1, <3>3
    <3> QED  BY <1>4, <3>1, <3>3, <3>4
  <2> QED  BY <2>1, <2>2, <2>3
<1>11. Explained(t, gone2)
  <2> SUFFICES ASSUME NEW i \in 1 .. N + M, t[i].role = "tool"
               PROVE  t[i].ids \subseteq t[Owner(t, i)].ids \/ t[i].ids \subseteq gone2
    BY <1>2 DEF Explained
  <2>1. CASE i \in 1 .. N
    BY <1>3, <1>7, <2>1 DEF Sound, Explained
  <2>2. CASE i \notin 1 .. N
    <3>1. PICK k \in 1 .. M : i = N + k
      BY <1>5, <2>2
    <3>2. t[i] = ms[k]
      BY <1>4, <3>1
    <3> QED  BY <1>8, <3>1, <3>2
  <2> QED  BY <2>1, <2>2
<1>12. HeldLast(t, held2, gone2)
  <2>1. CASE held2 \subseteq gone2
    BY <2>1 DEF HeldLast
  <2>2. CASE /\ held2 \subseteq s[Top(s)].ids \cup gone2
             /\ \A l \in 1 .. M : ms[l].role = "tool"
    <3>1. CASE M = 0
      <4>1. N \in 1 .. N /\ Len(t) = N
        BY <1>1, <1>2, <3>1
      <4>2. Owner(t, N) = Owner(s, N) /\ Owner(s, N) \in 1 .. N
        BY <1>7, <4>1
      <4> QED  BY <1>3, <2>2, <4>1, <4>2 DEF HeldLast, Top
    <3>2. CASE M # 0
      <4>1. M \in 1 .. M
        BY <1>1, <3>2
      <4>2. Top(t) = Top(s) /\ t[Top(s)] = s[Top(s)]
        BY <1>2, <1>8, <2>2, <4>1 DEF Top
      <4> QED  BY <2>2, <4>2 DEF HeldLast
    <3> QED  BY <3>1, <3>2
  <2>3. CASE ms # <<>> /\ ms[M].role # "tool" /\ held2 \subseteq ms[M].ids
    <3>1. M # 0
      BY <2>3, EmptySeq
    <3>2. M \in 1 .. M
      BY <1>1, <3>1
    <3>3. t[N + M] = ms[M]
      BY <1>4, <3>2
    <3>4. N + M \in 1 .. N + M /\ \A k \in (N + M) + 1 .. N + M : FALSE
      BY <1>1
    <3>5. Top(t) = N + M
      <4>1. PICK i \in 1 .. Len(t) : i = N + M
        BY <1>2, <3>4
      <4>2. i \in 1 .. i /\ t[i].role # "tool" /\ \A j \in i + 1 .. i : t[j].role = "tool"
        BY <1>1, <2>3, <3>3, <4>1
      <4>3. Owner(t, i) = i
        BY <1>6, <4>2, OwnerIsOne
      <4> QED  BY <1>2, <4>1, <4>3 DEF Top
    <3> QED  BY <2>3, <3>3, <3>5 DEF HeldLast
  <2> QED  BY <2>1, <2>2, <2>3
<1> QED  BY <1>9, <1>10, <1>11, <1>12 DEF Sound

\* Messages of a history in their order, with stubs and summaries between them; src is
\* the place each comes from, 0 if it is new.
DrawnFrom(t, s, src) ==
    /\ src \in [1 .. Len(t) -> 0 .. Len(s)]
    /\ \A i \in 1 .. Len(t) : src[i] # 0 => t[i] = s[src[i]]
    /\ \A i \in 1 .. Len(t) : src[i] = 0 =>
          /\ t[i].n = 0 /\ t[i].role \in {"tool", "assistant"}
          /\ t[i].role # "tool" => t[i].ids = {}
    /\ \A i, j \in 1 .. Len(t) : i < j /\ src[i] # 0 /\ src[j] # 0 => src[i] < src[j]

LEMMA Drawn ==
    ASSUME NEW s, NEW m \in Nat, WellFormed(s, m), Ordered(s),
           NEW t \in Seq(Message), t # <<>>, t[1].role = "system",
           NEW src, DrawnFrom(t, s, src)
    PROVE  WellFormed(t, m) /\ Ordered(t)
<1>1. Len(s) \in Nat /\ \A i \in 1 .. Len(t) : src[i] # 0 => src[i] \in 1 .. Len(s)
  BY WellFormedHistory DEF DrawnFrom
<1>2. \A i \in 1 .. Len(t) : Proper(t[i], m)
  <2> SUFFICES ASSUME NEW i \in 1 .. Len(t) PROVE Proper(t[i], m)
    OBVIOUS
  <2>1. CASE src[i] = 0
    BY <2>1 DEF Proper, DrawnFrom
  <2>2. CASE src[i] # 0
    BY <1>1, <2>2 DEF WellFormed, DrawnFrom
  <2> QED  BY <2>1, <2>2
<1>3. ASSUME NEW i \in 1 .. Len(t), NEW j \in 1 .. Len(t), i < j
      PROVE  InOrder(t[i], t[j])
  <2>1. CASE src[i] = 0 \/ src[j] = 0
    BY <2>1 DEF InOrder, DrawnFrom
  <2>2. CASE src[i] # 0 /\ src[j] # 0
    BY <1>1, <1>3, <2>2 DEF Ordered, DrawnFrom
  <2> QED  BY <2>1, <2>2
<1> QED  BY <1>2, <1>3 DEF WellFormed, Ordered

\* A call is carried by one message only, apart from its results.
LEMMA CarriedOnce ==
    ASSUME NEW s, NEW m \in Nat, WellFormed(s, m), Ordered(s),
           NEW i \in 1 .. Len(s), NEW j \in 1 .. Len(s), NEW id,
           s[i].role # "tool", s[j].role # "tool", id \in s[i].ids, id \in s[j].ids
    PROVE  i = j
<1>1. s[i].n = s[j].n /\ s[i].n # 0 /\ s[i] \in Message
  BY ElementOfSeq DEF WellFormed, Proper
<1>2. s[i].n \in Nat
  BY <1>1 DEF Message
<1>3. ~ (i < j) /\ ~ (j < i)
  BY <1>1, <1>2 DEF Ordered, InOrder
<1> QED  BY <1>3

\* What is held and not in what a history carries.
CutOff(t, held) == held \ UNION {t[i].ids : i \in {j \in 1 .. Len(t) : t[j].role # "tool"}}

\* Places that are moved by d.
LEMMA ShiftBack ==
    ASSUME NEW b \in Nat, NEW N \in Nat, NEW o \in Nat, NEW j \in Nat, b <= o, j <= N,
           NEW d \in Int, NEW k \in o + d + 1 .. j + d
    PROVE  k - d \in b .. N /\ k - d \in o + 1 .. j /\ (k - d) + d = k
  OBVIOUS

\* The beginning of a history, as undo and truncation leave it.
Begins(t, s, c) ==
    /\ t \in History /\ Len(t) = c
    /\ \A i \in 1 .. c : t[i] = s[i] /\ Owner(t, i) = Owner(s, i)

LEMMA CutShort ==
    ASSUME NEW s, NEW m \in Nat, NEW held, NEW gone, Sound(s, m, held, gone),
           NEW c \in 1 .. Len(s), NEW t, t = SubSeq(s, 1, c)
    PROVE  Begins(t, s, c) /\ Sound(t, m, held, gone \cup CutOff(t, held))
<1> PICK N : N = Len(s)
  OBVIOUS
<1>1. WellFormed(s, m) /\ Ordered(s) /\ s \in History /\ s \in Seq(Message) /\ N \in Nat /\ N >= 1
  BY WellFormedHistory DEF Sound, WellFormed
<1>2. \A i \in 1 .. c : i \in 1 .. N /\ s[i] \in Message
  BY <1>1, ElementOfSeq
<1>3. t \in Seq(Message) /\ Len(t) = c /\ \A i \in 1 .. c : t[i] = s[i]
  <2>1. 1 \in Int /\ c \in Int /\ 1 <= c /\ c - 1 + 1 = c
    BY <1>1
  <2>2. /\ SubSeq(s, 1, c) \in Seq(Message)
        /\ Len(SubSeq(s, 1, c)) = IF 1 <= c THEN c - 1 + 1 ELSE 0
        /\ \A i \in 1 .. c - 1 + 1 : SubSeq(s, 1, c)[i] = s[1 + i - 1]
    BY <1>2, <2>1, SubSeqProperties
  <2>3. \A i \in 1 .. c : 1 + i - 1 = i
    OBVIOUS
  <2> QED  BY <2>1, <2>2, <2>3
<1>4. 1 \in 1 .. c /\ t # <<>> /\ t[1] = s[1] /\ s[1].role = "system" /\ t \in History
  <2>1. 1 \in 1 .. c /\ Len(t) # 0
    BY <1>1, <1>3
  <2> QED  BY <1>1, <1>3, <2>1, EmptySeq DEF WellFormed, History
<1>5. \A i \in 1 .. c : Owner(t, i) = Owner(s, i) /\ Owner(t, i) \in 1 .. c
  <2> SUFFICES ASSUME NEW i \in 1 .. c
               PROVE  Owner(t, i) = Owner(s, i) /\ Owner(t, i) \in 1 .. c
    OBVIOUS
  <2>1. i \in 1 .. Len(s) /\ i \in 1 .. Len(t) /\ \A k \in 1 .. i : t[k] = s[k]
    BY <1>2, <1>3
  <2>2. Owner(t, i) = Owner(s, i)
    BY <1>1, <1>4, <2>1, OwnerOfPrefix
  <2>3. Owner(t, i) \in 1 .. i
    BY <1>4, <2>1, OwnerIsBefore
  <2> QED  BY <2>2, <2>3
<1>6. WellFormed(t, m) /\ Ordered(t)
  <2> DEFINE src == [i \in 1 .. c |-> i]
  <2>1. src \in [1 .. Len(t) -> 0 .. Len(s)] /\ \A i \in 1 .. Len(t) : src[i] = i
    BY <1>2, <1>3
  <2> HIDE DEF src
  <2>2. \A i \in 1 .. Len(t) : src[i] # 0 /\ t[i] = s[src[i]]
    BY <1>3, <2>1
  <2>3. \A i, j \in 1 .. Len(t) : i < j => src[i] < src[j]
    BY <2>1
  <2>4. DrawnFrom(t, s, src)
    BY <2>1, <2>2, <2>3 DEF DrawnFrom
  <2> QED  BY <1>1, <1>3, <1>4, <2>4, Drawn
<1>7. Explained(t, gone)
  BY <1>2, <1>3, <1>5 DEF Sound, Explained
<1>8. HeldLast(t, held, gone \cup CutOff(t, held))
  <2> SUFFICES ASSUME NEW id \in held, id \notin gone, id \notin CutOff(t, held)
               PROVE  id \in t[Top(t)].ids
    BY DEF HeldLast
  <2>1. PICK j \in 1 .. c : t[j].role # "tool" /\ id \in t[j].ids
    BY <1>3 DEF CutOff
  <2>2. PICK o \in 1 .. N : /\ o = Top(s) /\ s[o].role # "tool" /\ id \in s[o].ids
                            /\ \A k \in o + 1 .. N : s[k].role = "tool"
    <3>1. N \in 1 .. Len(s)
      BY <1>1
    <3>2. id \in s[Top(s)].ids
      BY DEF Sound, HeldLast
    <3> QED  BY <1>1, <3>1, <3>2, OwnerIsBefore DEF Top
  <2>3. o = j
    BY <1>1, <1>2, <1>3, <2>1, <2>2, CarriedOnce
  <2>4. \A k \in j + 1 .. c : t[k].role = "tool"
    <3> SUFFICES ASSUME NEW k \in j + 1 .. c PROVE t[k].role = "tool"
      OBVIOUS
    <3>1. k \in 1 .. c /\ k \in o + 1 .. N
      BY <1>1, <2>3
    <3> QED  BY <1>3, <2>2, <3>1
  <2>5. Owner(t, c) = j
    <3>1. c \in 1 .. Len(t)
      BY <1>3
    <3> QED  BY <1>4, <2>1, <2>4, <3>1, OwnerIsOne
  <2> QED  BY <1>3, <2>1, <2>5 DEF Top
<1>9. Explained(t, gone \cup CutOff(t, held))
  BY <1>7 DEF Explained
<1> QED  BY <1>3, <1>4, <1>5, <1>6, <1>8, <1>9 DEF Sound, Begins

\* A head of messages from before b, none of them a result.
HeadBefore(hd, s, b, from) ==
    /\ hd \in Seq(Message) /\ hd # <<>> /\ hd[1].role = "system"
    /\ DrawnFrom(hd, s, from)
    /\ \A i \in 1 .. Len(hd) : from[i] < b /\ hd[i].role # "tool"

\* A message begins at b, or the calls of the block that may cross b are gone.
SplitAt(s, b, gone) ==
    \/ b <= Len(s) /\ s[b].role # "tool"
    \/ s[Owner(s, b - 1)].ids \subseteq gone

\* Such a head, and all messages from b on, as compaction
\* joins them: what crosses b belongs to a message whose calls are gone.
LEMMA Joined ==
    ASSUME NEW s, NEW m \in Nat, NEW held, NEW gone, Sound(s, m, held, gone),
           NEW gone2, gone \subseteq gone2, NEW b \in 2 .. Len(s) + 1,
           NEW hd, NEW from, HeadBefore(hd, s, b, from),
           SplitAt(s, b, gone2)
    PROVE  Sound(hd \o SubSeq(s, b, Len(s)), m, held, gone2)
<1>d. /\ WellFormed(s, m) /\ Ordered(s) /\ s \in History /\ s \in Seq(Message)
      /\ Len(s) \in Nat /\ Len(s) >= 1
  BY WellFormedHistory DEF Sound, WellFormed
<1>e. hd \in Seq(Message) /\ Len(hd) \in Nat /\ Len(hd) >= 1
  <2>1. Len(hd) \in Nat \ {0} /\ hd \in Seq(Message)
    BY EmptySeq DEF HeadBefore
  <2> QED  BY <2>1
<1> PICK N \in Nat : N = Len(s)
  BY <1>d
<1> PICK h \in Nat : h = Len(hd)
  BY <1>e
<1>a. PICK tl : tl = SubSeq(s, b, Len(s))
  OBVIOUS
<1>b. PICK t : t = hd \o tl
  OBVIOUS
<1>1. /\ WellFormed(s, m) /\ Ordered(s) /\ s \in History /\ s \in Seq(Message)
      /\ N \in Nat /\ N >= 1 /\ h \in Nat /\ h >= 1 /\ hd \in Seq(Message)
  BY <1>d, <1>e
<1>c. N >= 1 /\ h >= 1 /\ N \in Nat /\ h \in Nat
  BY <1>d, <1>e
<1>2. b \in Nat /\ b >= 2 /\ b <= N + 1 /\ b - 1 \in 1 .. N
  BY <1>c
<1> PICK L \in Nat : L = N + 1 - b
  BY <1>2
<1> PICK d \in Int : d = h - b + 1
  BY <1>2
<1>3. L \in Nat /\ d \in Int /\ b + d = h + 1 /\ N + d = h + L
  BY <1>c, <1>2
<1>4. tl \in Seq(Message) /\ Len(tl) = L /\ \A k \in 1 .. L : tl[k] = s[b + k - 1]
  <2>1. \A i \in b .. N : i \in 1 .. N /\ s[i] \in Message
    BY <1>1, <1>2, <1>c, ElementOfSeq
  <2>2. b \in Int /\ N \in Int
    BY <1>c, <1>2
  <2>3. /\ SubSeq(s, b, N) \in Seq(Message)
        /\ Len(SubSeq(s, b, N)) = IF b <= N THEN N - b + 1 ELSE 0
        /\ \A i \in 1 .. N - b + 1 : SubSeq(s, b, N)[i] = s[b + i - 1]
    BY <2>1, <2>2, SubSeqProperties
  <2>4. N - b + 1 = L /\ (IF b <= N THEN N - b + 1 ELSE 0) = L
    BY <1>c, <1>2
  <2> QED  BY <1>a, <2>3, <2>4
<1>5. /\ t \in Seq(Message) /\ Len(t) = h + L
      /\ \A k \in 1 .. h + L : t[k] = IF k <= h THEN hd[k] ELSE tl[k - h]
  <2>1. hd \in Seq(Message) /\ tl \in Seq(Message) /\ Len(tl) = L
    BY <1>1, <1>4
  <2>2. /\ hd \o tl \in Seq(Message)
        /\ Len(hd \o tl) = Len(hd) + Len(tl)
        /\ \A k \in 1 .. Len(hd) + Len(tl) :
              (hd \o tl)[k] = IF k <= Len(hd) THEN hd[k] ELSE tl[k - Len(hd)]
    BY <2>1, ConcatProperties
  <2>3. /\ t \in Seq(Message)
        /\ Len(t) = Len(hd) + Len(tl)
        /\ \A k \in 1 .. Len(hd) + Len(tl) :
              t[k] = IF k <= Len(hd) THEN hd[k] ELSE tl[k - Len(hd)]
    BY <1>b, <2>2, Zenon
  <2> QED  BY <2>1, <2>3
<1>6. \A i \in 1 .. h : i \in 1 .. h + L /\ t[i] = hd[i]
  BY <1>c, <1>3, <1>5
<1>7. \A j \in b .. N : j + d \in h + 1 .. h + L /\ j + d \in 1 .. h + L /\ j \in 1 .. N /\ t[j + d] = s[j]
  <2> SUFFICES ASSUME NEW j \in b .. N
               PROVE  /\ j + d \in h + 1 .. h + L /\ j + d \in 1 .. h + L /\ j \in 1 .. N
                      /\ t[j + d] = s[j]
    OBVIOUS
  <2>1. /\ j + d \in h + 1 .. h + L /\ j + d \in 1 .. h + L /\ j \in 1 .. N
        /\ ~ (j + d <= h) /\ (j + d) - h \in 1 .. L
        /\ b + ((j + d) - h) - 1 = j
    BY <1>c, <1>2, <1>3
  <2> QED  BY <1>4, <1>5, <2>1
<1>8. \A i \in 1 .. h + L : i \notin 1 .. h => i - d \in b .. N /\ (i - d) + d = i
  BY <1>c, <1>2, <1>3
<1>9. t # <<>> /\ t[1].role = "system" /\ t \in History
  <2>1. 1 \in 1 .. h /\ Len(t) # 0
    BY <1>c, <1>3, <1>5
  <2> QED  BY <1>5, <1>6, <2>1, EmptySeq DEF History, HeadBefore
<1>10. WellFormed(t, m) /\ Ordered(t)
  <2> DEFINE src == [i \in 1 .. h + L |-> IF i \in 1 .. h THEN from[i] ELSE i - d]
  <2>1. /\ \A i \in 1 .. h : src[i] = from[i] /\ from[i] \in 0 .. N /\ from[i] < b
        /\ \A i \in 1 .. h + L : i \notin 1 .. h => src[i] = i - d /\ src[i] \in b .. N
    <3>1. \A i \in 1 .. h : from[i] \in 0 .. N /\ from[i] < b
      BY DEF HeadBefore, DrawnFrom
    <3> QED  BY <1>6, <1>8, <3>1
  <2> HIDE DEF src
  <2>2. src \in [1 .. h + L -> 0 .. N]
    <3>1. \A i \in 1 .. h + L : src[i] \in 0 .. N
      <4>1. \A x \in b .. N : x \in 0 .. N
        BY <1>c, <1>2
      <4> QED  BY <2>1, <4>1
    <3> QED  BY <3>1 DEF src
  <2>7. DrawnFrom(hd, s, from)
    BY DEF HeadBefore
  <2>3. ASSUME NEW i \in 1 .. h + L, src[i] # 0 PROVE t[i] = s[src[i]]
    <3>1. CASE i \in 1 .. h
      BY <1>6, <2>1, <2>3, <2>7, <3>1 DEF DrawnFrom
    <3>2. CASE i \notin 1 .. h
      <4>1. PICK j \in b .. N : j = i - d /\ j + d = i /\ src[i] = j
        BY <1>8, <2>1, <3>2
      <4> QED  BY <1>7, <4>1
    <3> QED  BY <3>1, <3>2
  <2>4. ASSUME NEW i \in 1 .. h + L, src[i] = 0
        PROVE  /\ t[i].n = 0 /\ t[i].role \in {"tool", "assistant"}
               /\ t[i].role # "tool" => t[i].ids = {}
    <3>1. i \in 1 .. h
      BY <1>2, <2>1, <2>4
    <3> QED  BY <1>6, <2>1, <2>4, <2>7, <3>1 DEF DrawnFrom
  <2>5. ASSUME NEW i \in 1 .. h + L, NEW j \in 1 .. h + L, i < j, src[i] # 0, src[j] # 0
        PROVE  src[i] < src[j]
    <3>1. CASE i \in 1 .. h /\ j \in 1 .. h
      BY <2>1, <2>5, <2>7, <3>1 DEF DrawnFrom
    <3>2. CASE i \in 1 .. h /\ j \notin 1 .. h
      <4>1. src[i] \in 0 .. N /\ src[i] < b /\ src[j] \in b .. N
        BY <2>1, <3>2
      <4> QED  BY <1>2, <1>c, <4>1
    <3>3. CASE i \notin 1 .. h
      <4>1. j \notin 1 .. h
        BY <1>c, <2>5, <3>3
      <4> QED  BY <1>3, <2>1, <2>5, <3>3, <4>1
    <3> QED  BY <3>1, <3>2, <3>3
  <2>6. DrawnFrom(t, s, src)
    BY <1>5, <2>2, <2>3, <2>4, <2>5 DEF DrawnFrom
  <2> QED  BY <1>1, <1>5, <1>9, <2>6, Drawn
<1>11. ASSUME NEW j \in b .. N
       PROVE  \/ /\ t[Owner(t, j + d)] = s[Owner(s, j)]
              \/ s[Owner(s, j)].ids \subseteq gone2
  <2>0. j \in 1 .. N
    BY <1>2
  <2>1. PICK o \in 1 .. j : /\ o = Owner(s, j) /\ s[o].role # "tool"
                            /\ \A k \in o + 1 .. j : s[k].role = "tool"
    BY <1>1, <2>0, OwnerIsBefore
  <2>2. CASE o >= b
    <3>1. o \in b .. N
      BY <1>2, <2>1, <2>2
    <3>2. \A k \in (o + d) + 1 .. j + d : t[k].role = "tool"
      <4> SUFFICES ASSUME NEW k \in (o + d) + 1 .. j + d PROVE t[k].role = "tool"
        OBVIOUS
      <4>1. k - d \in b .. N /\ k - d \in o + 1 .. j /\ (k - d) + d = k
        <5>1. j \in Nat /\ o \in Nat /\ j <= N /\ b <= o /\ b \in Nat
          BY <1>2, <1>c, <2>1, <2>2
        <5> QED  BY <5>1, ShiftBack
      <4> QED  BY <1>7, <2>1, <4>1
    <3>3. /\ j + d \in 1 .. Len(t) /\ o + d \in 1 .. j + d
          /\ t[o + d] = s[o]
      <4>1. j + d \in 1 .. h + L /\ o + d \in h + 1 .. h + L /\ t[o + d] = s[o]
        BY <1>7, <3>1
      <4>2. o + d \in 1 .. j + d
        <5>1. o \in Int /\ j \in Int /\ d \in Int /\ o <= j
          BY <1>2, <1>c, <2>1
        <5>2. o + d \in Int /\ o + d >= 1
          BY <1>3, <1>c, <4>1
        <5>3. o + d <= j + d /\ j + d \in Int
          BY <5>1
        <5> QED  BY <5>2, <5>3
      <4> QED  BY <1>5, <4>1, <4>2
    <3>a. PICK i \in 1 .. Len(t) : i = j + d
      BY <3>3, Zenon
    <3>b. PICK e \in 1 .. i : e = o + d
      BY <3>3, <3>a, Zenon
    <3>4. i = j + d /\ e = o + d
      BY <3>a, <3>b
    <3>5. e \in 1 .. i /\ t[e].role # "tool" /\ \A k \in e + 1 .. i : t[k].role = "tool"
      BY <2>1, <3>2, <3>3, <3>4
    <3>6. Owner(t, i) = e
      BY <1>9, <3>5, OwnerIsOne
    <3> QED  BY <2>1, <3>3, <3>4, <3>6
  <2>3. CASE o < b
    <3>1. b \in o + 1 .. j
      BY <1>2, <2>1, <2>3
    <3>2. s[Owner(s, b - 1)].ids \subseteq gone2
      BY <2>1, <3>1 DEF SplitAt
    <3>3. b - 1 \in 1 .. Len(s) /\ o \in 1 .. b - 1 /\ \A k \in o + 1 .. b - 1 : k \in o + 1 .. j
      BY <1>2, <2>1, <3>1
    <3>4. Owner(s, b - 1) = o
      BY <1>1, <2>1, <3>3, OwnerIsOne
    <3> QED  BY <2>1, <3>2, <3>4
  <2>4. o >= b \/ o < b
    <3>1. o \in Nat /\ b \in Nat
      BY <1>2, <2>1
    <3> QED  BY <3>1
  <2> QED  BY <2>2, <2>3, <2>4, Zenon
<1>12. Explained(t, gone2)
  <2> SUFFICES ASSUME NEW i \in 1 .. h + L, t[i].role = "tool"
               PROVE  t[i].ids \subseteq t[Owner(t, i)].ids \/ t[i].ids \subseteq gone2
    BY <1>5 DEF Explained
  <2>1. i \notin 1 .. h
    BY <1>6 DEF HeadBefore
  <2>2. PICK j \in b .. N : i = j + d
    BY <1>8, <2>1
  <2>3. s[j].ids \subseteq s[Owner(s, j)].ids \/ s[j].ids \subseteq gone
    BY <1>7, <2>2 DEF Sound, Explained
  <2> QED  BY <1>7, <1>11, <2>2, <2>3
<1>13. HeldLast(t, held, gone2)
  <2>1. held \subseteq s[Owner(s, N)].ids \cup gone
    BY DEF Sound, HeldLast, Top
  <2>2. CASE b <= N
    <3>1. N \in b .. N
      BY <1>c, <1>2, <2>2
    <3>2. t[Owner(t, N + d)] = s[Owner(s, N)] \/ s[Owner(s, N)].ids \subseteq gone2
      BY <1>11, <3>1
    <3> QED  BY <1>3, <1>5, <2>1, <3>2 DEF HeldLast, Top
  <2>3. CASE ~ (b <= N)
    <3>1. b - 1 = N
      BY <1>c, <1>2, <2>3
    <3> QED  BY <2>1, <2>3, <3>1 DEF HeldLast, SplitAt
  <2> QED  BY <2>2, <2>3
<1> QED  BY <1>a, <1>b, <1>10, <1>12, <1>13 DEF Sound

-----------------------------------------------------------------------------
(***************************************************************************)
(* _patch_dangling_tool_calls: where the messages are after it, and what   *)
(* stands between them.                                                    *)
(***************************************************************************)
IsStub(x, ids) == x.n = 0 /\ x.role = "tool" /\ \E id \in ids : x.ids = {id}

\* What Patched puts in the place of message i.
PatchOf(s, i) ==
    IF EndOfBlock(s, i) /\ Owner(s, i) # 0
    THEN <<s[i]>> \o Results(MissingOf(s, Owner(s, i)), 0) ELSE <<s[i]>>

\* The message, and at the end of a block a stub for each call that has no result.
IsPatch(p, s, i) ==
    /\ p \in Seq(Message) /\ Len(p) >= 1 /\ p[1] = s[i]
    /\ \A k \in 2 .. Len(p) : IsStub(p[k], s[Owner(s, i)].ids)
    /\ EndOfBlock(s, i) =>
          \A id \in MissingOf(s, Owner(s, i)) : \E k \in 2 .. Len(p) : p[k].ids = {id}

LEMMA PatchOfMessage ==
    ASSUME NEW s \in History, NEW i \in 1 .. Len(s)
    PROVE  IsPatch(PatchOf(s, i), s, i)
<1>1. s \in Seq(Message) /\ s[i] \in Message
  BY ElementOfSeq DEF History
<1>2. PICK o \in 1 .. i : o = Owner(s, i)
  BY OwnerIsBefore
<1>3. o # 0 /\ o \in 1 .. Len(s)
  BY <1>1, LenProperties
<1>4. s[o].ids \in Calls
  <2>1. s[o] \in Message
    BY <1>1, <1>3, ElementOfSeq
  <2> QED  BY <2>1 DEF Message
<1>5. PICK mine : mine = MissingOf(s, o)
  OBVIOUS
<1>6. mine \subseteq s[o].ids
  BY <1>5 DEF MissingOf
<1>7. mine \in Calls
  <2>1. IsFiniteSet(mine)
    BY <1>4, <1>6, FS_Subset DEF Calls
  <2> QED  BY <1>4, <1>6, <2>1 DEF Calls
<1>8. PICK r : r = Results(mine, 0)
  OBVIOUS
<1>9. ResultRow(r, mine, 0)
  BY <1>7, <1>8, ResultsOfCalls
<1>10. r \in Seq(Message) /\ Len(r) \in Nat
  BY <1>9, LenProperties DEF ResultRow
<1>11. PICK one : one = <<s[i]>>
  OBVIOUS
<1>12. one \in Seq(Message) /\ Len(one) = 1 /\ one[1] = s[i]
  BY <1>1, <1>11
<1>13. PICK p : p = PatchOf(s, i)
  OBVIOUS
<1>14. CASE EndOfBlock(s, i)
  <2>1. p = one \o r
    BY <1>2, <1>3, <1>5, <1>8, <1>11, <1>13, <1>14, Zenon DEF PatchOf
  <2>2. /\ p \in Seq(Message) /\ Len(p) = Len(one) + Len(r)
        /\ \A k \in 1 .. Len(one) + Len(r) :
              p[k] = IF k <= Len(one) THEN one[k] ELSE r[k - Len(one)]
    BY <1>10, <1>12, <2>1, ConcatProperties
  <2> PICK l \in Nat : l = Len(r)
    BY <1>10
  <2>3. /\ Len(p) = 1 + l /\ 1 \in 1 .. 1 + l
        /\ \A k \in 1 .. 1 + l : p[k] = IF k <= 1 THEN one[k] ELSE r[k - 1]
    BY <1>12, <2>2
  <2>4. p[1] = s[i] /\ Len(p) >= 1
    BY <1>12, <2>3
  <2>5. \A k \in 2 .. 1 + l : k - 1 \in 1 .. l /\ p[k] = r[k - 1]
    BY <2>3
  <2>6. \A k \in 1 .. l : k + 1 \in 2 .. 1 + l /\ p[k + 1] = r[k]
    <3> SUFFICES ASSUME NEW k \in 1 .. l PROVE k + 1 \in 2 .. 1 + l /\ p[k + 1] = r[k]
      OBVIOUS
    <3>1. k + 1 \in 2 .. 1 + l /\ (k + 1) - 1 = k
      OBVIOUS
    <3> QED  BY <2>5, <3>1
  <2>7. \A k \in 2 .. Len(p) : IsStub(p[k], s[o].ids)
    <3> SUFFICES ASSUME NEW k \in 2 .. 1 + l PROVE IsStub(p[k], s[o].ids)
      BY <2>3
    <3>1. k - 1 \in 1 .. Len(r) /\ p[k] = r[k - 1]
      BY <2>5
    <3>2. r[k - 1].n = 0 /\ r[k - 1].role = "tool" /\ \E id \in mine : r[k - 1].ids = {id}
      BY <1>9, <3>1 DEF ResultRow
    <3>3. p[k].n = 0 /\ p[k].role = "tool" /\ \E id \in mine : p[k].ids = {id}
      BY <3>1, <3>2, Zenon
    <3> QED  BY <1>6, <3>3, Zenon DEF IsStub
  <2>8. \A id \in mine : \E k \in 2 .. Len(p) : p[k].ids = {id}
    <3> SUFFICES ASSUME NEW id \in mine PROVE \E k \in 2 .. 1 + l : p[k].ids = {id}
      BY <2>3
    <3>1. PICK k \in 1 .. l : r[k].ids = {id}
      BY <1>9 DEF ResultRow
    <3> QED  BY <2>6, <3>1
  <2>9. IsPatch(p, s, i)
    BY <1>2, <1>5, <2>2, <2>4, <2>7, <2>8 DEF IsPatch
  <2> QED  BY <1>13, <2>9
<1>15. CASE ~ EndOfBlock(s, i)
  <2>1. p = one
    BY <1>11, <1>13, <1>15 DEF PatchOf
  <2>5. p \in Seq(Message) /\ Len(p) = 1 /\ p[1] = s[i]
    BY <1>12, <2>1, Zenon
  <2>2. p \in Seq(Message) /\ Len(p) = 1 /\ p[1] = s[i] /\ Len(p) >= 1
    BY <2>5
  <2>3. \A k \in 2 .. Len(p) : FALSE
    BY <2>2
  <2>4. IsPatch(p, s, i)
    BY <1>15, <2>2, <2>3 DEF IsPatch
  <2> QED  BY <1>13, <2>4
<1> QED  BY <1>14, <1>15

\* Message i of s is at place[i] of t; stubs for its block may follow.
Placed(t, s, place) ==
    /\ t \in Seq(Message) /\ place \in [1 .. Len(s) + 1 -> Nat]
    /\ place[1] = 1 /\ place[Len(s) + 1] = Len(t) + 1
    /\ \A i, j \in 1 .. Len(s) + 1 : i < j => place[i] < place[j]
    /\ \A i \in 1 .. Len(s) : t[place[i]] = s[i]
    /\ \A p \in 1 .. Len(t) : \E i \in 1 .. Len(s) : place[i] <= p /\ p < place[i + 1]
    /\ \A i \in 1 .. Len(s) : \A p \in place[i] + 1 .. place[i + 1] - 1 :
          IsStub(t[p], s[Owner(s, i)].ids)
    /\ \A i \in 1 .. Len(s) : EndOfBlock(s, i) =>
          \A id \in MissingOf(s, Owner(s, i)) :
              \E p \in place[i] + 1 .. place[i + 1] - 1 : t[p].ids = {id}

LEMMA PatchedPlaces ==
    ASSUME NEW s \in History
    PROVE  \E place : Placed(Patched(s), s, place)
<1>1. s \in Seq(Message) /\ Len(s) \in Nat /\ Len(s) >= 1 /\ DOMAIN s = 1 .. Len(s)
  BY EmptySeq, LenProperties DEF History
<1> PICK N \in Nat : N = Len(s)
  BY <1>1
<1> DEFINE ss == [i \in 1 .. N |-> PatchOf(s, i)]
<1>2. \A i \in 1 .. N : IsPatch(PatchOf(s, i), s, i)
  BY PatchOfMessage
<1>3. /\ ss \in Seq(Seq(Message)) /\ Len(ss) = N
      /\ \A i \in 1 .. N : IsPatch(ss[i], s, i)
  <2>1. \A i \in 1 .. N : PatchOf(s, i) \in Seq(Message)
    BY <1>2 DEF IsPatch
  <2>2. ss \in [1 .. N -> Seq(Message)]
    BY <2>1
  <2>3. ss \in Seq(Seq(Message)) /\ Len(ss) = N
    BY <2>2
  <2>4. \A i \in 1 .. N : ss[i] = PatchOf(s, i)
    OBVIOUS
  <2> QED  BY <1>2, <2>3, <2>4
<1>4. Patched(s) = FlattenSeq(ss)
  BY <1>1, Zenon DEF Patched, PatchOf, MissingOf
<1> HIDE DEF ss
<1>5. ss # <<>>
  BY <1>1, <1>3, EmptySeq
<1> PICK t : t = Patched(s)
  OBVIOUS
<1>6. t \in Seq(Message)
  BY <1>3, <1>4, <1>5, FlattenPlaces
<1>7. PICK at \in [0 .. N -> Nat] :
         /\ at[0] = 0 /\ at[N] = Len(t)
         /\ \A i \in 1 .. N : at[i] = at[i - 1] + Len(ss[i])
         /\ \A i, j \in 0 .. N : i <= j => at[i] <= at[j]
         /\ \A i \in 1 .. N : \A k \in 1 .. Len(ss[i]) : t[at[i - 1] + k] = ss[i][k]
         /\ \A p \in 1 .. Len(t) : \E i \in 1 .. N : p - at[i - 1] \in 1 .. Len(ss[i])
  <2> DEFINE Reached(at, n, all) ==
         /\ at[0] = 0 /\ at[n] = Len(all)
         /\ \A i \in 1 .. n : at[i] = at[i - 1] + Len(ss[i])
         /\ \A i, j \in 0 .. n : i <= j => at[i] <= at[j]
         /\ \A i \in 1 .. n : \A k \in 1 .. Len(ss[i]) : all[at[i - 1] + k] = ss[i][k]
         /\ \A p \in 1 .. Len(all) : \E i \in 1 .. n : p - at[i - 1] \in 1 .. Len(ss[i])
  <2>1. \E at \in [0 .. Len(ss) -> Nat] : Reached(at, Len(ss), FlattenSeq(ss))
    <3>1. ss \in Seq(Seq(Message))
      BY <1>3
    <3> QED  BY <1>5, <3>1, FlattenPlaces, Zenon
  <2>2. Len(ss) = N /\ FlattenSeq(ss) = t
    BY <1>3, <1>4
  <2> HIDE DEF Reached
  <2>3. \E at \in [0 .. N -> Nat] : Reached(at, N, t)
    BY <2>1, <2>2
  <2> QED  BY <2>3 DEF Reached
<1> DEFINE place == [i \in 1 .. N + 1 |-> at[i - 1] + 1]
<1>8. \A i \in 1 .. N : Len(ss[i]) \in Nat /\ Len(ss[i]) >= 1
  BY <1>3, LenProperties DEF IsPatch
<1>9. /\ place \in [1 .. N + 1 -> Nat]
      /\ \A i \in 1 .. N + 1 : i - 1 \in 0 .. N /\ place[i] = at[i - 1] + 1
      /\ \A i \in 1 .. N : at[i - 1] \in Nat /\ at[i] \in Nat /\ place[i] = at[i - 1] + 1
  <2>1. \A i \in 1 .. N + 1 : i - 1 \in 0 .. N /\ at[i - 1] \in Nat
    OBVIOUS
  <2>2. \A i \in 1 .. N + 1 : place[i] = at[i - 1] + 1 /\ at[i - 1] + 1 \in Nat
    BY <2>1
  <2>3. place \in [1 .. N + 1 -> Nat]
    BY <2>2
  <2> HIDE DEF place
  <2>4. \A i \in 1 .. N : i \in 1 .. N + 1 /\ i \in 0 .. N
    OBVIOUS
  <2> QED  BY <2>1, <2>2, <2>3, <2>4
<1>10. \A i \in 1 .. N : place[i + 1] = at[i] + 1
  <2> SUFFICES ASSUME NEW i \in 1 .. N PROVE place[i + 1] = at[i] + 1
    OBVIOUS
  <2>1. i + 1 \in 1 .. N + 1 /\ (i + 1) - 1 = i
    OBVIOUS
  <2> QED  BY <1>9, <2>1
<1>11. place[1] = 1 /\ place[N + 1] = Len(t) + 1
  BY <1>1, <1>7, <1>10
<1> HIDE DEF place
<1>12. ASSUME NEW i \in 1 .. N + 1, NEW j \in 1 .. N + 1, i < j
       PROVE  place[i] < place[j]
  <2>1. i \in 1 .. N /\ i \in 0 .. N /\ j - 1 \in 0 .. N /\ i <= j - 1
    BY <1>12
  <2>2. PICK a, b, c \in Nat : a = at[i - 1] /\ b = at[i] /\ c = at[j - 1]
    BY <1>9, <2>1
  <2>3. b <= c
    BY <1>7, <2>1, <2>2
  <2>4. b >= a + 1
    BY <1>7, <1>8, <2>1, <2>2
  <2>5. place[i] = a + 1 /\ place[j] = c + 1
    BY <1>9, <2>2
  <2> QED  BY <2>3, <2>4, <2>5
<1>13. ASSUME NEW i \in 1 .. N
       PROVE  /\ t[place[i]] = s[i]
              /\ \A p \in place[i] + 1 .. place[i + 1] - 1 : IsStub(t[p], s[Owner(s, i)].ids)
              /\ EndOfBlock(s, i) =>
                    \A id \in MissingOf(s, Owner(s, i)) :
                        \E p \in place[i] + 1 .. place[i + 1] - 1 : t[p].ids = {id}
  <2>1. PICK a, l \in Nat : a = at[i - 1] /\ l = Len(ss[i])
    BY <1>8, <1>9
  <2>2. /\ place[i] = a + 1 /\ place[i + 1] = a + l + 1 /\ l >= 1
        /\ \A k \in 1 .. l : t[a + k] = ss[i][k]
    BY <1>7, <1>8, <1>9, <1>10, <2>1
  <2>3. t[place[i]] = s[i]
    <3>1. 1 \in 1 .. l /\ ss[i][1] = s[i]
      BY <1>3, <2>2 DEF IsPatch
    <3> QED  BY <2>2, <3>1
  <2>4. \A p \in place[i] + 1 .. place[i + 1] - 1 : IsStub(t[p], s[Owner(s, i)].ids)
    <3> SUFFICES ASSUME NEW p \in (a + 1) + 1 .. (a + l + 1) - 1
                 PROVE  IsStub(t[p], s[Owner(s, i)].ids)
      BY <2>2
    <3>1. PICK k \in 2 .. l : p = a + k
      <4>1. p - a \in 2 .. l /\ p = a + (p - a)
        OBVIOUS
      <4> QED  BY <4>1
    <3>2. k \in 1 .. l
      OBVIOUS
    <3> QED  BY <1>3, <2>1, <2>2, <3>1, <3>2 DEF IsPatch
  <2>5. ASSUME EndOfBlock(s, i), NEW id \in MissingOf(s, Owner(s, i))
        PROVE  \E p \in place[i] + 1 .. place[i + 1] - 1 : t[p].ids = {id}
    <3>1. PICK k \in 2 .. l : ss[i][k].ids = {id}
      BY <1>3, <2>1, <2>5 DEF IsPatch
    <3>2. k \in 1 .. l /\ a + k \in (a + 1) + 1 .. (a + l + 1) - 1
      OBVIOUS
    <3> QED  BY <2>2, <3>1, <3>2
  <2> QED  BY <2>3, <2>4, <2>5
<1>14. ASSUME NEW p \in 1 .. Len(t)
       PROVE  \E i \in 1 .. N : place[i] <= p /\ p < place[i + 1]
  <2>1. PICK i \in 1 .. N : p - at[i - 1] \in 1 .. Len(ss[i])
    BY <1>7
  <2>2. PICK a, l \in Nat : a = at[i - 1] /\ l = Len(ss[i])
    BY <1>8, <1>9
  <2>3. place[i] = a + 1 /\ place[i + 1] = a + l + 1
    BY <1>7, <1>9, <1>10, <2>2
  <2>4. p \in Nat /\ p - a >= 1 /\ p - a <= l
    BY <1>6, <2>1, <2>2, LenProperties
  <2> QED  BY <2>3, <2>4
<1>15. Placed(t, s, place)
  BY <1>6, <1>9, <1>11, <1>12, <1>13, <1>14 DEF Placed
<1> QED  BY <1>15

\* The owner of a message and of the stubs after it is the owner that the message had.
LEMMA PlacedOwner ==
    ASSUME NEW s \in History, NEW t \in History, NEW place, Placed(t, s, place),
           NEW i \in 1 .. Len(s), NEW p \in 1 .. Len(t), place[i] <= p, p < place[i + 1]
    PROVE  Owner(t, p) = place[Owner(s, i)] /\ t[place[Owner(s, i)]] = s[Owner(s, i)]
<1>1. Len(s) \in Nat /\ Len(t) \in Nat
  BY LenProperties DEF History
<1> PICK N \in Nat : N = Len(s)
  BY <1>1
<1>2. PICK o \in 1 .. i : /\ o = Owner(s, i) /\ s[o].role # "tool"
                          /\ \A k \in o + 1 .. i : s[k].role = "tool"
  BY OwnerIsBefore
<1>3. /\ \A k \in 1 .. N + 1 : place[k] \in Nat
      /\ \A k, l \in 1 .. N + 1 : k < l => place[k] < place[l]
      /\ place[1] = 1
      /\ \A k \in 1 .. N : t[place[k]] = s[k]
  BY DEF Placed
<1>4. o \in 1 .. N /\ o \in 1 .. N + 1 /\ i \in 1 .. N + 1 /\ i + 1 \in 1 .. N + 1 /\ 1 \in 1 .. N + 1
  BY <1>2
<1>5. PICK j \in Nat : j = place[o]
  BY <1>3, <1>4
<1>6. j \in 1 .. p /\ t[j] = s[o]
  <2>1. j >= 1
    <3>1. CASE o = 1
      BY <1>3, <1>5, <3>1
    <3>2. CASE o # 1
      <4>1. 1 < o
        BY <1>2, <3>2
      <4> QED  BY <1>3, <1>4, <1>5, <4>1
    <3> QED  BY <3>1, <3>2
  <2>2. place[o] <= place[i]
    <3>1. o = i \/ o < i
      BY <1>2
    <3> QED  BY <1>3, <1>4, <3>1
  <2>3. place[i] \in Nat
    BY <1>3, <1>4
  <2> QED  BY <1>3, <1>4, <1>5, <2>1, <2>2, <2>3
<1>7. \A q \in j + 1 .. p : t[q].role = "tool"
  <2> SUFFICES ASSUME NEW q \in j + 1 .. p PROVE t[q].role = "tool"
    OBVIOUS
  <2>1. q \in 1 .. Len(t)
    BY <1>5
  <2>2. PICK k \in 1 .. N : place[k] <= q /\ q < place[k + 1]
    BY <2>1 DEF Placed
  <2>3. k \in 1 .. N + 1 /\ k + 1 \in 1 .. N + 1
    OBVIOUS
  <2>4. PICK a, b, c \in Nat : a = place[k] /\ b = place[k + 1] /\ c = place[i + 1]
    BY <1>3, <1>4, <2>3
  <2>5. a <= q /\ q < b /\ p < c
    BY <2>2, <2>4
  <2>6. ~ (k + 1 <= o)
    <3> SUFFICES ASSUME k + 1 <= o PROVE FALSE
      OBVIOUS
    <3>1. b <= j
      <4>1. PICK f \in 1 .. N + 1 : f = k + 1 /\ (f = o \/ f < o)
        BY <1>2, <2>3
      <4>2. b = place[f]
        BY <2>4, <4>1
      <4>3. CASE f = o
        BY <1>5, <4>2, <4>3
      <4>4. CASE f < o
        BY <1>3, <1>4, <1>5, <4>2, <4>4
      <4> QED  BY <4>1, <4>3, <4>4
    <3> QED  BY <2>5, <3>1
  <2>7. ~ (i + 1 <= k)
    <3> SUFFICES ASSUME i + 1 <= k PROVE FALSE
      OBVIOUS
    <3>1. c <= a
      <4>1. PICK f \in 1 .. N + 1 : f = i + 1 /\ (f = k \/ f < k)
        BY <1>4
      <4>2. c = place[f]
        BY <2>4, <4>1
      <4>3. CASE f = k
        BY <2>4, <4>2, <4>3
      <4>4. CASE f < k
        BY <1>3, <2>3, <2>4, <4>2, <4>4
      <4> QED  BY <4>1, <4>3, <4>4
    <3> QED  BY <2>5, <3>1
  <2>8. CASE q = a
    <3>1. k # o
      BY <1>5, <2>4, <2>8
    <3>2. k \in o + 1 .. i
      BY <1>2, <2>6, <2>7, <3>1
    <3> QED  BY <1>2, <1>3, <2>4, <2>8, <3>2
  <2>9. CASE q # a
    <3>1. q \in a + 1 .. b - 1
      BY <2>5, <2>9
    <3> QED  BY <2>4, <3>1 DEF Placed, IsStub
  <2> QED  BY <2>8, <2>9
<1>8. t[j].role # "tool"
  BY <1>2, <1>6
<1>9. Owner(t, p) = j
  BY <1>6, <1>7, <1>8, OwnerIsOne
<1> QED  BY <1>2, <1>5, <1>6, <1>9

\* Every call has a result in the block of its message.
Answered(t) ==
    \A j \in 1 .. Len(t) : t[j].role = "assistant" =>
        \A id \in t[j].ids : \E k \in 1 .. Len(t) :
            t[k].role = "tool" /\ Owner(t, k) = j /\ id \in t[k].ids

\* The last message of a block.
LEMMA BlockEnds ==
    ASSUME NEW s \in History, NEW i \in 1 .. Len(s), s[i].role # "tool"
    PROVE  \E e \in 1 .. Len(s) : Owner(s, e) = i /\ EndOfBlock(s, e)
<1>1. Len(s) \in Nat
  BY LenProperties DEF History
<1> PICK N \in Nat : N = Len(s)
  BY <1>1
<1> DEFINE B == {x \in 1 .. N : Owner(s, x) = i}
<1>2. Owner(s, i) = i
  <2>1. i \in 1 .. i /\ \A k \in i + 1 .. i : s[k].role = "tool"
    OBVIOUS
  <2> QED  BY <2>1, OwnerIsOne
<1>3. B \in SUBSET (1 .. N) /\ B # {}
  BY <1>2
<1>4. Max(B) \in B /\ \A x \in B : x <= Max(B)
  <2> HIDE DEF B
  <2> QED  BY <1>3, MaxIsThere
<1>5. PICK e \in 1 .. N : e \in B /\ \A x \in B : x <= e
  BY <1>4
<1>6. EndOfBlock(s, e)
  <2> SUFFICES ASSUME e # N, s[e + 1].role = "tool" PROVE FALSE
    BY DEF EndOfBlock
  <2>1. PICK f \in 1 .. N : f = e + 1
    OBVIOUS
  <2>2. i \in 1 .. e /\ s[i].role # "tool" /\ \A k \in i + 1 .. e : s[k].role = "tool"
    BY <1>5, OwnerIsBefore
  <2>3. i \in 1 .. f /\ \A k \in i + 1 .. f : s[k].role = "tool"
    <3>1. \A k \in i + 1 .. f : k = f \/ k \in i + 1 .. e
      BY <2>1
    <3>2. s[f].role = "tool"
      BY <2>1
    <3> QED  BY <2>1, <2>2, <3>1, <3>2
  <2>4. Owner(s, f) = i
    BY <2>3, OwnerIsOne
  <2>5. f \in B /\ ~ (f <= e)
    BY <2>1, <2>4
  <2> HIDE DEF B
  <2> QED  BY <1>5, <2>5
<1> QED  BY <1>5, <1>6

\* Patching answers every call, and leaves all else as it was.
LEMMA PatchedSound ==
    ASSUME NEW s, NEW m \in Nat, NEW gone, WellFormed(s, m), Ordered(s), Explained(s, gone)
    PROVE  /\ WellFormed(Patched(s), m) /\ Ordered(Patched(s))
           /\ Explained(Patched(s), gone) /\ Answered(Patched(s))
<1>1. s \in History /\ Len(s) \in Nat /\ Len(s) >= 1
  BY WellFormedHistory
<1> PICK N \in Nat : N = Len(s)
  BY <1>1
<1>2. PICK t, place : t = Patched(s) /\ Placed(t, s, place)
  BY <1>1, PatchedPlaces
<1>3. /\ t \in Seq(Message)
      /\ \A k \in 1 .. N + 1 : place[k] \in Nat
      /\ \A k, l \in 1 .. N + 1 : k < l => place[k] < place[l]
      /\ place[1] = 1 /\ place[N + 1] = Len(t) + 1
      /\ \A k \in 1 .. N : t[place[k]] = s[k]
  BY <1>2 DEF Placed
<1>4. Len(t) \in Nat /\ DOMAIN t = 1 .. Len(t)
  BY <1>3, LenProperties
<1> PICK M \in Nat : M = Len(t)
  BY <1>4
<1>5. \A k \in 1 .. N : place[k] \in 1 .. M /\ place[k] < place[k + 1]
  <2> SUFFICES ASSUME NEW k \in 1 .. N PROVE place[k] \in 1 .. M /\ place[k] < place[k + 1]
    OBVIOUS
  <2>1. k \in 1 .. N + 1 /\ N + 1 \in 1 .. N + 1 /\ 1 \in 1 .. N + 1 /\ k + 1 \in 1 .. N + 1 /\ k < N + 1
    OBVIOUS
  <2>2. PICK a \in Nat : a = place[k]
    BY <1>3, <2>1
  <2>3. a < M + 1
    BY <1>3, <2>1, <2>2
  <2>4. a >= 1
    <3>1. k = 1 \/ 1 < k
      OBVIOUS
    <3> QED  BY <1>3, <2>1, <2>2, <3>1
  <2>5. place[k] < place[k + 1]
    <3>1. k < k + 1
      OBVIOUS
    <3> QED  BY <1>3, <2>1, <3>1
  <2> QED  BY <2>2, <2>3, <2>4, <2>5
<1>6. t # <<>> /\ t[1] = s[1] /\ s[1].role = "system" /\ t \in History
  <2>1. 1 \in 1 .. N
    BY <1>1
  <2>2. t[1] = s[1] /\ Len(t) # 0
    BY <1>3, <1>5, <2>1
  <2> QED  BY <1>3, <2>2, EmptySeq DEF WellFormed, History
<1>7. ASSUME NEW p \in 1 .. M
      PROVE  \E i \in 1 .. N :
                /\ place[i] <= p /\ p < place[i + 1]
                /\ place[i] = p \/ IsStub(t[p], s[Owner(s, i)].ids)
  <2>1. PICK i \in 1 .. N : place[i] <= p /\ p < place[i + 1]
    BY <1>2 DEF Placed
  <2>2. PICK a, b \in Nat : a = place[i] /\ b = place[i + 1]
    <3>1. i \in 1 .. N + 1 /\ i + 1 \in 1 .. N + 1
      OBVIOUS
    <3> QED  BY <1>3, <3>1
  <2>3. a = p \/ p \in a + 1 .. b - 1
    BY <2>1, <2>2
  <2> QED  BY <1>2, <2>1, <2>2, <2>3 DEF Placed
<1>8. ASSUME NEW i \in 1 .. N, NEW p \in 1 .. M, place[i] <= p, p < place[i + 1]
      PROVE  Owner(t, p) = place[Owner(s, i)] /\ t[place[Owner(s, i)]] = s[Owner(s, i)]
  BY <1>1, <1>2, <1>6, <1>8, PlacedOwner
<1>9. WellFormed(t, m) /\ Ordered(t)
  <2> DEFINE Src(p) == {i \in 1 .. N : place[i] = p}
  <2> DEFINE src == [p \in 1 .. M |-> IF Src(p) = {} THEN 0 ELSE CHOOSE i \in Src(p) : TRUE]
  <2>1. \A p \in 1 .. M : \/ src[p] = 0 /\ Src(p) = {}
                          \/ src[p] \in 1 .. N /\ place[src[p]] = p
    OBVIOUS
  <2>2. src \in [1 .. M -> 0 .. N]
    <3>1. \A p \in 1 .. M : src[p] \in 0 .. N
      BY <2>1
    <3> QED  BY <3>1
  <2> HIDE DEF src
  <2>3. ASSUME NEW p \in 1 .. M, src[p] # 0 PROVE t[p] = s[src[p]]
    BY <1>3, <2>1, <2>3
  <2>4. ASSUME NEW p \in 1 .. M, src[p] = 0
        PROVE  /\ t[p].n = 0 /\ t[p].role \in {"tool", "assistant"}
               /\ t[p].role # "tool" => t[p].ids = {}
    <3>1. Src(p) = {}
      BY <2>1, <2>4
    <3> QED  BY <1>7, <3>1 DEF IsStub
  <2> HIDE DEF Src
  <2>5. ASSUME NEW p \in 1 .. M, NEW q \in 1 .. M, p < q, src[p] # 0, src[q] # 0
        PROVE  src[p] < src[q]
    <3>1. PICK i, j \in 1 .. N : i = src[p] /\ j = src[q] /\ place[i] = p /\ place[j] = q
      BY <2>1, <2>5
    <3>2. ~ (j <= i)
      <4> SUFFICES ASSUME j <= i PROVE FALSE
        OBVIOUS
      <4>1. (i = j \/ j < i) /\ i \in 1 .. N + 1 /\ j \in 1 .. N + 1
        OBVIOUS
      <4> QED  BY <1>3, <2>5, <3>1, <4>1
    <3> QED  BY <3>1, <3>2
  <2>6. DrawnFrom(t, s, src)
    BY <2>2, <2>3, <2>4, <2>5 DEF DrawnFrom
  <2> QED  BY <1>3, <1>6, <2>6, Drawn
<1>10. Explained(t, gone)
  <2> SUFFICES ASSUME NEW p \in 1 .. M, t[p].role = "tool"
               PROVE  t[p].ids \subseteq t[Owner(t, p)].ids \/ t[p].ids \subseteq gone
    BY DEF Explained
  <2>1. PICK i \in 1 .. N : /\ place[i] <= p /\ p < place[i + 1]
                            /\ place[i] = p \/ IsStub(t[p], s[Owner(s, i)].ids)
    BY <1>7
  <2>2. t[Owner(t, p)] = s[Owner(s, i)]
    BY <1>8, <2>1
  <2>3. CASE place[i] = p
    <3>1. t[p] = s[i]
      BY <1>3, <2>3
    <3> QED  BY <2>2, <3>1 DEF Explained
  <2>4. CASE IsStub(t[p], s[Owner(s, i)].ids)
    BY <2>2, <2>4 DEF IsStub
  <2> QED  BY <2>1, <2>3, <2>4
<1>11. Answered(t)
  <2> SUFFICES ASSUME NEW p \in 1 .. M, t[p].role = "assistant", NEW id \in t[p].ids
               PROVE  \E k \in 1 .. M : t[k].role = "tool" /\ Owner(t, k) = p /\ id \in t[k].ids
    BY DEF Answered
  <2>1. PICK i \in 1 .. N : place[i] = p
    BY <1>7 DEF IsStub
  <2>2. t[p] = s[i] /\ s[i].role # "tool"
    BY <1>3, <2>1
  <2>3. CASE \E k \in Answers(s, i) : id \in s[k].ids
    <3>1. PICK k \in 1 .. N : s[k].role = "tool" /\ Owner(s, k) = i /\ id \in s[k].ids
      <4>1. DOMAIN s = 1 .. N
        BY <1>1, LenProperties DEF History
      <4> QED  BY <2>3, <4>1 DEF Answers
    <3>2. PICK q \in 1 .. M : q = place[k] /\ t[q] = s[k] /\ q < place[k + 1]
      BY <1>3, <1>5
    <3>3. Owner(t, q) = place[Owner(s, k)]
      BY <1>8, <3>2
    <3> QED  BY <2>1, <3>1, <3>2, <3>3
  <2>4. CASE ~ \E k \in Answers(s, i) : id \in s[k].ids
    <3>1. id \in MissingOf(s, i)
      BY <2>2, <2>4 DEF MissingOf
    <3>2. PICK e \in 1 .. N : Owner(s, e) = i /\ EndOfBlock(s, e)
      BY <1>1, <2>2, BlockEnds
    <3>3. PICK q \in place[e] + 1 .. place[e + 1] - 1 : t[q].ids = {id}
      BY <1>2, <3>1, <3>2 DEF Placed
    <3>4. t[q].role = "tool"
      BY <1>2, <3>3 DEF Placed, IsStub
    <3>5. PICK a, b \in Nat : a = place[e] /\ b = place[e + 1] /\ a >= 1 /\ b <= M + 1
      <4>1. PICK f, g \in 1 .. N + 1 : f = e + 1 /\ g = N + 1 /\ (f = g \/ f < g)
        OBVIOUS
      <4>2. PICK b \in Nat : b = place[f] /\ b = place[e + 1]
        BY <1>3, <4>1
      <4>5. place[g] = M + 1
        BY <1>3, <4>1
      <4>3. b <= M + 1
        <5>1. CASE f = g
          <6>1. b = M + 1
            BY <4>2, <4>5, <5>1, Zenon
          <6> QED  BY <6>1
        <5>2. CASE f < g
          <6>1. place[f] < place[g]
            BY <1>3, <5>2
          <6> QED  BY <4>2, <4>5, <6>1
        <5> QED  BY <4>1, <5>1, <5>2
      <4>4. PICK a \in Nat : a = place[e] /\ a >= 1
        BY <1>5
      <4> QED  BY <4>2, <4>3, <4>4
    <3>6. q \in 1 .. M /\ a <= q /\ q < b
      <4>1. q \in a + 1 .. b - 1
        BY <3>3, <3>5, Zenon
      <4>2. a >= 1 /\ b <= M + 1
        BY <3>5, Zenon
      <4>3. q \in Int /\ q >= a + 1 /\ q <= b - 1
        BY <4>1
      <4> QED  BY <4>2, <4>3
    <3>7. Owner(t, q) = place[Owner(s, e)]
      BY <1>8, <3>5, <3>6
    <3> QED  BY <2>1, <3>2, <3>3, <3>4, <3>6, <3>7
  <2> QED  BY <2>3, <2>4
<1> QED  BY <1>2, <1>9, <1>10, <1>11

-----------------------------------------------------------------------------
(***************************************************************************)
(* What the agent adds: one message, or a row of results.                  *)
(***************************************************************************)
LEMMA OneMore ==
    ASSUME NEW S, NEW q \in Seq(S), NEW x \in S
    PROVE  /\ q \o <<x>> \in Seq(S) /\ Len(q \o <<x>>) = Len(q) + 1
           /\ \A k \in 1 .. Len(q) : (q \o <<x>>)[k] = q[k]
           /\ (q \o <<x>>)[Len(q) + 1] = x
<1> PICK n \in Nat : n = Len(q)
  BY LenProperties
<1> PICK one : one = <<x>>
  OBVIOUS
<1>1. one \in Seq(S) /\ Len(one) = 1 /\ one[1] = x
  OBVIOUS
<1>2. /\ q \o one \in Seq(S) /\ Len(q \o one) = Len(q) + Len(one)
      /\ \A k \in 1 .. Len(q) + Len(one) : (q \o one)[k] = IF k <= Len(q) THEN q[k] ELSE one[k - Len(q)]
  BY <1>1, ConcatProperties
<1>3. PICK t : t = q \o one
  OBVIOUS
<1>4. /\ t \in Seq(S) /\ Len(t) = n + 1
      /\ \A k \in 1 .. n + 1 : t[k] = IF k <= n THEN q[k] ELSE one[k - n]
  BY <1>1, <1>2, <1>3, Zenon
<1>5. \A k \in 1 .. n : t[k] = q[k]
  BY <1>4
<1>6. t[n + 1] = x
  <2>1. n + 1 \in 1 .. n + 1 /\ ~ (n + 1 <= n) /\ (n + 1) - n = 1
    OBVIOUS
  <2> QED  BY <1>1, <1>4, <2>1
<1> QED  BY <1>3, <1>4, <1>5, <1>6, Zenon

LEMMA ExtendedByOne ==
    ASSUME NEW s, NEW m \in Nat, NEW held, NEW gone, Sound(s, m, held, gone),
           NEW x \in Message, NEW m2 \in Nat, Proper(x, m2), m < x.n, x.role # "tool",
           NEW held2, NEW gone2, gone \subseteq gone2,
           held2 \subseteq gone2 \/ held2 \subseteq x.ids
    PROVE  Sound(s \o <<x>>, m2, held2, gone2)
<1>1. PICK ms : ms = <<x>>
  OBVIOUS
<1>2. ms \in Seq(Message) /\ Len(ms) = 1 /\ ms[1] = x /\ ms # <<>> /\ ms[Len(ms)] = x
  BY <1>1
<1>3. m <= m2
  <2>1. x.n \in Nat /\ x.n <= m2
    BY DEF Message, Proper
  <2> QED  BY <2>1
<1>4. \A k \in 1 .. Len(ms) : ms[k] = x
  BY <1>2
<1>5. \A k \in 1 .. Len(ms) : Proper(ms[k], m2) /\ m < ms[k].n
  BY <1>4
<1>6. \A k, l \in 1 .. Len(ms) : ~ (k < l)
  BY <1>2
<1>7. \A k \in 1 .. Len(ms) : ms[k].role # "tool"
  BY <1>4
<1>8. Sound(s \o ms, m2, held2, gone2)
  BY <1>2, <1>3, <1>5, <1>6, <1>7, Extended
<1> QED  BY <1>1, <1>8

LEMMA ExtendedByResults ==
    ASSUME NEW s, NEW m \in Nat, NEW held, NEW gone, Sound(s, m, held, gone),
           NEW ids \in Calls, NEW n \in Nat, m < n, NEW held2, NEW gone2, gone \subseteq gone2,
           ids \subseteq gone2 \cup s[Top(s)].ids, held2 \subseteq gone2 \cup held
    PROVE  Sound(s \o Results(ids, n), n, held2, gone2)
<1>1. PICK r : r = Results(ids, n)
  OBVIOUS
<1>2. ResultRow(r, ids, n)
  BY <1>1, ResultsOfCalls
<1>3. r \in Seq(Message) /\ m <= n
  BY <1>2 DEF ResultRow
<1>4. \A k \in 1 .. Len(r) : Proper(r[k], n) /\ m < r[k].n
  BY <1>2 DEF ResultRow, Proper
<1>5. \A k, l \in 1 .. Len(r) : k < l => InOrder(r[k], r[l])
  <2> SUFFICES ASSUME NEW k \in 1 .. Len(r), NEW l \in 1 .. Len(r), k < l
               PROVE  InOrder(r[k], r[l])
    OBVIOUS
  <2>1. k # l
    OBVIOUS
  <2> QED  BY <1>2, <2>1 DEF ResultRow, InOrder
<1>6. \A k \in 1 .. Len(r) : r[k].role = "tool"
  BY <1>2 DEF ResultRow
<1>7. \A k \in 1 .. Len(r) : r[k].ids \subseteq gone2 \/ r[k].ids \subseteq s[Top(s)].ids
  BY <1>2 DEF ResultRow
<1>8. held2 \subseteq s[Top(s)].ids \cup gone2
  BY DEF Sound, HeldLast
<1>9. \A k \in 1 .. Len(r) : r[k].role = "tool" =>
         \/ r[k].ids \subseteq gone2
         \/ r[k].ids \subseteq s[Top(s)].ids /\ \A l \in 1 .. k : r[l].role = "tool"
  <2> SUFFICES ASSUME NEW k \in 1 .. Len(r) PROVE \A l \in 1 .. k : r[l].role = "tool"
    BY <1>7
  <2>1. Len(r) \in Nat
    BY <1>3, LenProperties
  <2>2. \A l \in 1 .. k : l \in 1 .. Len(r)
    BY <2>1
  <2> QED  BY <1>6, <2>2
<1>10. Sound(s \o r, n, held2, gone2)
  BY <1>3, <1>4, <1>5, <1>6, <1>8, <1>9, Extended
<1> QED  BY <1>1, <1>10

\* The messages that Made makes.
Plain(n, role) == [n |-> n, role |-> role, ids |-> {}]

LEMMA MadeMessages ==
    ASSUME made \in Nat, NEW a, NEW b
    PROVE  /\ Made(<<>>) = <<>>
           /\ Made(<<a>>) = <<Plain(made + 1, a)>>
           /\ Made(<<a, b>>) = <<Plain(made + 1, a), Plain(made + 2, b)>>
           /\ Made(<<"note", "tool", "user">>)[3] = Plain(made + 3, "user")
<1>1. Made(<<>>) = <<>>
  BY DEF Made
<1>2. Made(<<a>>) = <<Plain(made + 1, a)>>
  BY DEF Made, Plain
<1>3. Made(<<a, b>>) = <<Plain(made + 1, a), Plain(made + 2, b)>>
  BY DEF Made, Plain
<1>4. Made(<<"note", "tool", "user">>)[3] = Plain(made + 3, "user")
  BY DEF Made, Plain
<1> QED  BY <1>1, <1>2, <1>3, <1>4

LEMMA PlainMessage ==
    ASSUME NEW n \in Nat, NEW role \in {"note", "user", "assistant"}
    PROVE  /\ Plain(n, role) \in Message /\ Plain(n, role).role # "tool"
           /\ Plain(n, role).n = n /\ \A m \in Nat : n <= m => Proper(Plain(n, role), m)
<1>1. {} \in Calls
  BY FS_EmptySet DEF Calls
<1> QED  BY <1>1 DEF Plain, Message, Roles, Proper

\* Two messages, one after the other.
LEMMA ExtendedByTwo ==
    ASSUME made \in Nat, NEW s, NEW held, NEW gone, Sound(s, made, held, gone),
           NEW a \in {"note", "user", "assistant"}, NEW b \in {"note", "user", "assistant"},
           NEW gone2, gone \subseteq gone2, NEW held2, held2 \subseteq gone2
    PROVE  Sound(s \o Made(<<a, b>>), made + 2, held2, gone2)
<1> PICK x, y : x = Plain(made + 1, a) /\ y = Plain(made + 2, b)
  OBVIOUS
<1>1. /\ x \in Message /\ x.role # "tool" /\ x.n = made + 1 /\ Proper(x, made + 1)
      /\ y \in Message /\ y.role # "tool" /\ y.n = made + 2 /\ Proper(y, made + 2)
  <2>1. /\ made + 1 \in Nat /\ made + 2 \in Nat
        /\ made + 1 <= made + 1 /\ made + 2 <= made + 2
    OBVIOUS
  <2> QED  BY <2>1, PlainMessage
<1>2. Sound(s \o <<x>>, made + 1, held2, gone2)
  <2>1. made < x.n /\ made + 1 \in Nat
    BY <1>1
  <2> QED  BY <1>1, <2>1, ExtendedByOne
<1>3. Sound((s \o <<x>>) \o <<y>>, made + 2, held2, gone2)
  <2>1. PICK u : u = s \o <<x>>
    OBVIOUS
  <2>2. made + 1 < y.n /\ made + 1 \in Nat /\ made + 2 \in Nat
    BY <1>1
  <2>3. Sound(u \o <<y>>, made + 2, held2, gone2)
    BY <1>1, <1>2, <2>1, <2>2, ExtendedByOne
  <2> QED  BY <2>1, <2>3
<1>4. (s \o <<x>>) \o <<y>> = s \o (<<x>> \o <<y>>)
  <2>1. s \in Seq(Message) /\ <<x>> \in Seq(Message) /\ <<y>> \in Seq(Message)
    BY <1>1 DEF Sound, WellFormed
  <2> QED  BY <2>1, ConcatAssociative
<1>5. <<x>> \o <<y>> = Made(<<a, b>>)
  <2>1. Made(<<a, b>>) = <<x, y>>
    BY MadeMessages
  <2>2. PICK one, two, both : one = <<x>> /\ two = <<x, y>> /\ both = one \o <<y>>
    OBVIOUS
  <2>3. one \in Seq(Message) /\ Len(one) = 1 /\ one[1] = x
    BY <1>1, <2>2
  <2>4. two \in Seq(Message) /\ Len(two) = 2 /\ two[1] = x /\ two[2] = y
    BY <1>1, <2>2
  <2>5. /\ both \in Seq(Message) /\ Len(both) = Len(one) + 1
        /\ \A k \in 1 .. Len(one) : both[k] = one[k]
        /\ both[Len(one) + 1] = y
    BY <1>1, <2>2, <2>3, OneMore
  <2>6. Len(both) = 2 /\ both[1] = x /\ both[2] = y
    BY <2>3, <2>5
  <2>7. \A i \in 1 .. Len(both) : both[i] = two[i]
    BY <2>4, <2>6
  <2>8. both = two
    BY <2>4, <2>5, <2>6, <2>7, SeqEqual
  <2> QED  BY <2>1, <2>2, <2>8
<1> QED  BY <1>3, <1>4, <1>5

-----------------------------------------------------------------------------
(***************************************************************************)
(* The invariant.  The history is sound at all times, and so is the one    *)
(* that a compaction will leave when the summary arrives: an edit may      *)
(* change the first in the meantime, and the second replaces it.           *)
(***************************************************************************)
Summary == Plain(0, "assistant")
Held == pendingApproval \cup batch \cup toApprove

Discipline ==
    /\ made \in 0 .. MaxMessages
    /\ visible \in Seq(1 .. MaxMessages)
    /\ pendingApproval \in Calls /\ batch \in Calls /\ toApprove \in Calls
    /\ agent \in {"idle", "loop", "compact", "compact_op", "ready", "model", "tools", "over"}
    /\ agent \notin {"idle", "compact_op", "over"} => pendingApproval = {}
    /\ agent # "tools" => batch = {} /\ toApprove = {}
HistorySound == Sound(items, made, Held, parted)
SummarySound ==
    agent \in {"compact", "compact_op"} =>
        Sound(kept[1] \o <<Summary>> \o kept[2], made, Held, parted)
ModelIsAnswered == agent = "model" => Answered(items)

ContextInv == Discipline /\ HistorySound /\ SummarySound /\ ModelIsAnswered

LEMMA InitiallySound == ContextInit => ContextInv
<1> SUFFICES ASSUME ContextInit PROVE ContextInv
  OBVIOUS
<1>1. PICK x : x = [n |-> 0, role |-> "system", ids |-> {}]
  OBVIOUS
<1>2. {} \in Calls
  BY FS_EmptySet DEF Calls
<1>3. x \in Message /\ x.role = "system" /\ x.ids = {} /\ x.n = 0 /\ Proper(x, 0)
  BY <1>1, <1>2 DEF Message, Roles, Proper
<1>4. items \in Seq(Message) /\ Len(items) = 1 /\ items[1] = x /\ items # <<>>
  BY <1>1, <1>3 DEF ContextInit
<1>5. WellFormed(items, 0)
  BY <1>3, <1>4 DEF WellFormed
<1>6. Ordered(items)
  BY <1>4 DEF Ordered
<1>7. Explained(items, parted)
  BY <1>3, <1>4 DEF Explained
<1>8. Held = {} /\ made = 0
  BY DEF Held, ContextInit
<1>9. HistorySound
  BY <1>5, <1>6, <1>7, <1>8 DEF HistorySound, Sound, HeldLast
<1>10. Discipline
  <2>1. 0 \in 0 .. MaxMessages
    BY ContextAssumption
  <2>2. visible \in Seq(1 .. MaxMessages)
    BY EmptySeq DEF ContextInit
  <2> QED  BY <1>2, <2>1, <2>2 DEF Discipline, ContextInit
<1> QED  BY <1>9, <1>10 DEF ContextInv, SummarySound, ModelIsAnswered, ContextInit

LEMMA UserMessageIsSound ==
    ASSUME ContextInv, UserMessage
    PROVE  ContextInv'
<1>1. /\ made \in Nat /\ made + 3 <= MaxMessages /\ made' = made + 3 /\ MaxMessages \in Nat
      /\ agent = "idle" /\ agent' = "loop" /\ pendingApproval' = {} /\ batch' = {} /\ toApprove' = {}
      /\ batch = {} /\ toApprove = {} /\ pendingApproval \in Calls
      /\ parted' = parted \cup pendingApproval
      /\ visible \in Seq(1 .. MaxMessages) /\ visible' = Append(visible, made + 3)
  BY ContextAssumption DEF ContextInv, Discipline, UserMessage, Makes
<1>2. Discipline'
  <2>1. {} \in Calls
    BY FS_EmptySet DEF Calls
  <2>2. made + 3 \in 1 .. MaxMessages
    BY <1>1
  <2>3. visible' \in Seq(1 .. MaxMessages)
    BY <1>1, <2>2, AppendProperties
  <2> QED  BY <1>1, <2>1, <2>2, <2>3 DEF Discipline
<1> DEFINE note == Plain(made + 1, "note")
<1> DEFINE user == Plain(made + 3, "user")
<1> DEFINE stubs == Results(pendingApproval, made + 2)
<1>3. items' = items \o (<<note>> \o stubs \o <<user>>)
  BY <1>1, MadeMessages, Zenon DEF UserMessage, Adds
<1>4. /\ note \in Message /\ note.role # "tool" /\ note.n = made + 1 /\ Proper(note, made + 1)
      /\ user \in Message /\ user.role # "tool" /\ user.n = made + 3 /\ Proper(user, made + 3)
  <2>1. /\ made + 1 \in Nat /\ made + 3 \in Nat
        /\ made + 1 <= made + 1 /\ made + 3 <= made + 3
    BY <1>1
  <2> QED  BY <2>1, PlainMessage
<1>5. /\ made + 1 \in Nat /\ made + 2 \in Nat /\ made + 3 \in Nat
      /\ made < made + 1 /\ made + 1 < made + 2 /\ made + 2 < made + 3
  BY <1>1
<1>6. stubs \in Seq(Message)
  BY <1>1, <1>5, ResultsOfCalls DEF ResultRow
<1> HIDE DEF note, user, stubs
<1>7. Sound(items, made, Held, parted) /\ items \in Seq(Message)
  BY DEF ContextInv, HistorySound, Sound, WellFormed
<1> PICK gone2 : gone2 = parted \cup pendingApproval
  OBVIOUS
<1>8. PICK s1 : s1 = items \o <<note>>
  OBVIOUS
<1>9. Sound(s1, made + 1, {}, gone2)
  BY <1>1, <1>4, <1>5, <1>7, <1>8, ExtendedByOne
<1>10. PICK s2 : s2 = s1 \o stubs
  OBVIOUS
<1>11. Sound(s2, made + 2, {}, gone2)
  BY <1>1, <1>5, <1>9, <1>10, ExtendedByResults DEF stubs
<1>12. PICK s3 : s3 = s2 \o <<user>>
  OBVIOUS
<1>13. Sound(s3, made + 3, {}, gone2)
  BY <1>4, <1>5, <1>11, <1>12, ExtendedByOne
<1>14. s3 = items'
  <2>1. <<note>> \in Seq(Message) /\ <<user>> \in Seq(Message)
    BY <1>4
  <2>2. s2 = items \o (<<note>> \o stubs)
    BY <1>6, <1>7, <1>8, <1>10, <2>1, ConcatAssociative
  <2>3. <<note>> \o stubs \in Seq(Message)
    BY <1>6, <2>1, ConcatProperties
  <2>4. (items \o (<<note>> \o stubs)) \o <<user>> = items \o ((<<note>> \o stubs) \o <<user>>)
    BY <1>7, <2>1, <2>3, ConcatAssociative
  <2> QED  BY <1>3, <1>12, <2>2, <2>4
<1>15. HistorySound'
  <2>1. Held' = {}
    BY <1>1 DEF Held
  <2> QED  BY <1>1, <1>13, <1>14, <2>1 DEF HistorySound
<1> QED  BY <1>1, <1>2, <1>15 DEF ContextInv, SummarySound, ModelIsAnswered

LEMMA TypedApprovalIsSound ==
    ASSUME ContextInv, TypedApproval
    PROVE  ContextInv'
<1>1. /\ made \in Nat /\ made + 3 <= MaxMessages /\ made' = made + 3 /\ MaxMessages \in Nat
      /\ agent = "idle" /\ agent' = "idle" /\ batch = {} /\ toApprove = {}
      /\ UNCHANGED <<pendingApproval, batch, toApprove>>
      /\ parted' = parted \cup pendingApproval
      /\ items' = items \o Made(<<"note", "assistant">>)
      /\ visible \in Seq(1 .. MaxMessages) /\ visible' = Append(visible, made + 3)
  BY ContextAssumption DEF ContextInv, Discipline, TypedApproval, Makes, Adds
<1>2. Discipline'
  <2>1. made + 3 \in 1 .. MaxMessages
    BY <1>1
  <2>2. visible' \in Seq(1 .. MaxMessages)
    BY <1>1, <2>1, AppendProperties
  <2> QED  BY <1>1, <2>1, <2>2 DEF Discipline, ContextInv
<1>3. Sound(items, made, Held, parted) /\ Held = pendingApproval /\ Held' = Held
  BY <1>1 DEF ContextInv, HistorySound, Held
<1>4. Sound(items \o Made(<<"note", "assistant">>), made + 2, Held, parted \cup pendingApproval)
  BY <1>1, <1>3, ExtendedByTwo
<1>5. Sound(items', made + 2, Held, parted')
  BY <1>1, <1>4
<1>6. Sound(items', made + 3, Held, parted')
  <2>1. made + 2 \in Nat /\ made + 3 \in Nat /\ made + 2 <= made + 3
    BY <1>1
  <2> QED  BY <1>5, <2>1, SoundLater
<1> QED  BY <1>1, <1>2, <1>3, <1>6 DEF ContextInv, HistorySound, SummarySound, ModelIsAnswered

LEMMA DecisionIsSound ==
    ASSUME ContextInv, Decision
    PROVE  ContextInv'
<1>1. /\ agent = "idle" /\ agent' = "tools" /\ batch = {} /\ toApprove = {}
      /\ pendingApproval' = {} /\ batch' = pendingApproval /\ toApprove' = {}
      /\ pendingApproval \in Calls
      /\ UNCHANGED <<items, made, visible, parted>>
  BY DEF ContextInv, Discipline, Decision
<1>2. Discipline'
  <2>1. {} \in Calls
    BY FS_EmptySet DEF Calls
  <2> QED  BY <1>1, <2>1 DEF Discipline, ContextInv
<1>3. Held' = Held
  BY <1>1 DEF Held
<1> QED  BY <1>1, <1>2, <1>3 DEF ContextInv, HistorySound, SummarySound, ModelIsAnswered

LEMMA GetMessagesIsSound ==
    ASSUME ContextInv, GetMessages
    PROVE  ContextInv'
<1>1. /\ made \in Nat /\ MaxMessages \in Nat
      /\ agent \in {"loop", "ready"} /\ agent' = "model"
      /\ pendingApproval = {} /\ batch = {} /\ toApprove = {}
      /\ UNCHANGED <<pendingApproval, batch, toApprove, visible, parted>>
  BY ContextAssumption DEF ContextInv, Discipline, GetMessages
<1>2. Sound(items, made, {}, parted) /\ items \in Seq(Message) /\ Held' = {}
  BY <1>1 DEF ContextInv, HistorySound, Held, Sound, WellFormed
<1>3. \E s : Sound(s, made', {}, parted) /\ items' = Patched(s) /\ made' \in 0 .. MaxMessages
  <2>1. PICK noted \in {<<>>, <<"note">>} :
           /\ made + Len(noted) <= MaxMessages /\ made' = made + Len(noted)
           /\ items' = Patched(items \o Made(noted))
    BY DEF GetMessages, Makes
  <2>2. CASE noted = <<>>
    <3>1. made' = made /\ made \in 0 .. MaxMessages
      BY <1>1, <2>1, <2>2
    <3>2. items \o Made(noted) = items
      BY <1>1, <1>2, <2>2, MadeMessages, ConcatEmptySeq
    <3> QED  BY <1>2, <2>1, <3>1, <3>2
  <2>3. CASE noted = <<"note">>
    <3>1. made' = made + 1 /\ made' \in 0 .. MaxMessages /\ made + 1 \in Nat
          /\ made < made + 1 /\ made + 1 <= made + 1
      BY <1>1, <2>1, <2>3
    <3>2. PICK x : x = Plain(made + 1, "note")
      OBVIOUS
    <3>3. x \in Message /\ x.role # "tool" /\ x.n = made + 1 /\ Proper(x, made + 1)
      BY <3>1, <3>2, PlainMessage
    <3>4. Sound(items \o <<x>>, made + 1, {}, parted)
      BY <1>1, <1>2, <3>1, <3>3, ExtendedByOne
    <3>5. Made(noted) = <<x>>
      BY <1>1, <2>3, <3>2, MadeMessages
    <3> QED  BY <2>1, <3>1, <3>4, <3>5
  <2> QED  BY <2>1, <2>2, <2>3
<1>4. PICK s : Sound(s, made', {}, parted) /\ items' = Patched(s) /\ made' \in 0 .. MaxMessages
  BY <1>3
<1>5. PICK t, m : t = items' /\ m = made'
  OBVIOUS
<1>6. WellFormed(t, m) /\ Ordered(t) /\ Explained(t, parted) /\ Answered(t)
  <2>1. /\ m \in Nat /\ WellFormed(s, m) /\ Ordered(s) /\ Explained(s, parted)
        /\ t = Patched(s)
    BY <1>4, <1>5 DEF Sound
  <2> QED  BY <2>1, PatchedSound
<1>7. Sound(t, m, {}, parted)
  BY <1>6 DEF Sound, HeldLast
<1>8. HistorySound' /\ ModelIsAnswered'
  BY <1>1, <1>2, <1>5, <1>6, <1>7 DEF HistorySound, ModelIsAnswered
<1>9. Discipline'
  BY <1>1, <1>4 DEF ContextInv, Discipline
<1> QED  BY <1>1, <1>8, <1>9 DEF ContextInv, SummarySound

LEMMA ModelSpeaksIsSound ==
    ASSUME ContextInv, ModelSpeaks
    PROVE  ContextInv'
<1>1. /\ made \in Nat /\ MaxMessages \in Nat /\ agent = "model"
      /\ pendingApproval = {} /\ batch = {} /\ toApprove = {}
      /\ UNCHANGED <<pendingApproval, batch, toApprove, visible, parted>>
  BY ContextAssumption DEF ContextInv, Discipline, ModelSpeaks
<1>2. Sound(items, made, {}, parted) /\ Held' = {}
  BY <1>1 DEF ContextInv, HistorySound, Held
<1>3. CASE /\ made + 1 <= MaxMessages /\ made' = made + 1
           /\ items' = items \o Made(<<"assistant">>) /\ agent' = "idle"
  <2>1. made' \in 0 .. MaxMessages /\ made + 1 \in Nat /\ made < made + 1 /\ made + 1 <= made + 1
    BY <1>1, <1>3
  <2>2. PICK x : x = Plain(made + 1, "assistant")
    OBVIOUS
  <2>3. x \in Message /\ x.role # "tool" /\ x.n = made + 1 /\ Proper(x, made + 1)
    BY <2>1, <2>2, PlainMessage
  <2>4. Sound(items \o <<x>>, made + 1, {}, parted)
    BY <1>1, <1>2, <2>1, <2>3, ExtendedByOne
  <2>5. Made(<<"assistant">>) = <<x>>
    BY <1>1, <2>2, MadeMessages
  <2>6. HistorySound'
    BY <1>1, <1>2, <1>3, <2>4, <2>5 DEF HistorySound
  <2>7. Discipline'
    BY <1>1, <1>3, <2>1 DEF ContextInv, Discipline
  <2> QED  BY <1>3, <2>6, <2>7 DEF ContextInv, SummarySound, ModelIsAnswered
<1>4. CASE /\ made + 2 <= MaxMessages /\ made' = made + 2
           /\ items' = items \o Made(<<"assistant", "note">>) /\ agent' = "loop"
  <2>1. made' \in 0 .. MaxMessages
    BY <1>1, <1>4
  <2>2. Sound(items \o Made(<<"assistant", "note">>), made + 2, {}, parted)
    BY <1>1, <1>2, ExtendedByTwo
  <2>3. HistorySound'
    BY <1>1, <1>2, <1>4, <2>2 DEF HistorySound
  <2>4. Discipline'
    BY <1>1, <1>4, <2>1 DEF ContextInv, Discipline
  <2> QED  BY <1>4, <2>3, <2>4 DEF ContextInv, SummarySound, ModelIsAnswered
<1> QED  BY <1>3, <1>4 DEF ModelSpeaks, Makes, Adds

\* At most two calls of one answer.
LEMMA CallsOfAnswer ==
    ASSUME NEW n \in Nat, NEW k \in 1 .. 2, NEW S \in SUBSET (1 .. k)
    PROVE  {<<n, c>> : c \in S} \in Calls
<1>1. IsFiniteSet(S)
  <2>1. 1 \in Int /\ k \in Int /\ S \subseteq 1 .. k
    OBVIOUS
  <2>2. IsFiniteSet(1 .. k)
    BY <2>1, FS_Interval
  <2> QED  BY <2>1, <2>2, FS_Subset
<1> DEFINE ids == {<<n, c>> : c \in S}
<1> DEFINE f == [c \in S |-> <<n, c>>]
<1>2. f \in Surjection(S, ids)
  BY DEF Surjection
<1>3. ids \subseteq Nat \X Nat
  OBVIOUS
<1>4. IsFiniteSet(ids)
  <2> HIDE DEF f, ids
  <2> QED  BY <1>1, <1>2, FS_Surjection
<1> QED  BY <1>3, <1>4 DEF Calls

LEMMA ModelCallsIsSound ==
    ASSUME ContextInv, NEW k \in 1 .. 2, NEW autos \in SUBSET (1 .. k), ModelCalls(k, autos)
    PROVE  ContextInv'
<1>1. /\ made \in Nat /\ MaxMessages \in Nat /\ agent = "model"
      /\ made + 1 <= MaxMessages /\ made' = made + 1
      /\ pendingApproval = {} /\ batch = {} /\ toApprove = {}
      /\ UNCHANGED <<visible, parted>>
  BY ContextAssumption DEF ContextInv, Discipline, ModelCalls, Makes
<1>2. made' \in 0 .. MaxMessages /\ made + 1 \in Nat /\ made < made + 1 /\ made + 1 <= made + 1
  BY <1>1
<1>3. PICK ids : ids = {<<made + 1, c>> : c \in 1 .. k}
  OBVIOUS
<1>4. PICK now : now = {<<made + 1, c>> : c \in autos}
  OBVIOUS
<1>5. /\ items' = items \o <<[n |-> made + 1, role |-> "assistant", ids |-> ids]>>
      /\ batch' = now
      /\ IF now = {} THEN pendingApproval' = ids /\ toApprove' = {} /\ agent' = "idle"
                     ELSE toApprove' = ids \ now /\ agent' = "tools" /\ UNCHANGED pendingApproval
  BY <1>3, <1>4, Zenon DEF ModelCalls, Adds
<1>6. ids \in Calls /\ now \in Calls /\ now \subseteq ids /\ {} \in Calls /\ ids \ now \in Calls
  <2>1. ids \in Calls
    <3>1. 1 .. k \in SUBSET (1 .. k)
      OBVIOUS
    <3> QED  BY <1>2, <1>3, <3>1, CallsOfAnswer
  <2>2. now \in Calls
    BY <1>2, <1>4, CallsOfAnswer
  <2>3. now \subseteq ids
    BY <1>3, <1>4
  <2>4. \A x \in SUBSET ids : x \in Calls
    BY <2>1, FS_Subset DEF Calls
  <2> QED  BY <2>1, <2>2, <2>3, <2>4
<1>7. PICK x : x = [n |-> made + 1, role |-> "assistant", ids |-> ids]
  OBVIOUS
<1>8. /\ x \in Message /\ x.role # "tool" /\ x.n = made + 1 /\ x.ids = ids
      /\ Proper(x, made + 1)
  <2>1. x \in Message /\ x.role = "assistant" /\ x.n = made + 1 /\ x.ids = ids
    BY <1>2, <1>6, <1>7 DEF Message, Roles
  <2>2. \A id \in ids : id[1] = made + 1
    BY <1>3
  <2>3. made + 1 # 0
    BY <1>1
  <2> QED  BY <1>2, <2>1, <2>2, <2>3 DEF Proper
<1>9. Sound(items, made, {}, parted)
  BY <1>1 DEF ContextInv, HistorySound, Held
<1>10. /\ Held' \subseteq ids /\ pendingApproval' \in Calls /\ batch' \in Calls /\ toApprove' \in Calls
       /\ agent' \in {"idle", "tools"}
       /\ agent' = "tools" => pendingApproval' = {}
       /\ agent' # "tools" => batch' = {} /\ toApprove' = {}
  <2>1. CASE now = {}
    <3>1. pendingApproval' = ids /\ toApprove' = {} /\ agent' = "idle" /\ batch' = {}
      BY <1>5, <2>1
    <3> QED  BY <1>6, <3>1 DEF Held
  <2>2. CASE now # {}
    <3>1. toApprove' = ids \ now /\ agent' = "tools" /\ pendingApproval' = {} /\ batch' = now
      BY <1>1, <1>5, <2>2
    <3> QED  BY <1>6, <3>1 DEF Held
  <2> QED  BY <2>1, <2>2
<1>11. Discipline'
  BY <1>1, <1>2, <1>10 DEF ContextInv, Discipline
<1>12. HistorySound'
  <2>1. PICK held2 : held2 = Held'
    OBVIOUS
  <2>2. Sound(items \o <<x>>, made + 1, held2, parted)
    BY <1>1, <1>2, <1>8, <1>9, <1>10, <2>1, ExtendedByOne
  <2>3. items' = items \o <<x>>
    BY <1>5, <1>7
  <2> QED  BY <1>1, <2>1, <2>2, <2>3 DEF HistorySound
<1> QED  BY <1>10, <1>11, <1>12 DEF ContextInv, SummarySound, ModelIsAnswered

LEMMA ToolsReturnIsSound ==
    ASSUME ContextInv, ToolsReturn
    PROVE  ContextInv'
<1>1. /\ made \in Nat /\ MaxMessages \in Nat /\ agent = "tools"
      /\ made + 1 <= MaxMessages /\ made' = made + 1
      /\ pendingApproval = {} /\ batch \in Calls /\ toApprove \in Calls
      /\ batch' = {} /\ toApprove' = {}
      /\ \/ pendingApproval' = toApprove /\ agent' = "idle"
         \/ agent' = "loop" /\ UNCHANGED pendingApproval
      /\ items' = items \o Results(batch, made + 1)
      /\ UNCHANGED <<visible, parted>>
  BY ContextAssumption DEF ContextInv, Discipline, ToolsReturn, Makes, Adds
<1>2. made' \in 0 .. MaxMessages /\ made + 1 \in Nat /\ made < made + 1
  BY <1>1
<1>3. Discipline'
  <2>1. {} \in Calls
    BY FS_EmptySet DEF Calls
  <2> QED  BY <1>1, <1>2, <2>1 DEF ContextInv, Discipline
<1>4. Sound(items, made, Held, parted) /\ batch \subseteq Held /\ Held' \subseteq Held
  BY <1>1 DEF ContextInv, HistorySound, Held
<1>5. batch \subseteq parted \cup items[Top(items)].ids
  BY <1>4 DEF Sound, HeldLast
<1>6. PICK held2 : held2 = Held'
  OBVIOUS
<1>7. Sound(items \o Results(batch, made + 1), made + 1, held2, parted)
  <2>1. held2 \subseteq parted \cup Held
    BY <1>4, <1>6
  <2> QED  BY <1>1, <1>2, <1>4, <1>5, <2>1, ExtendedByResults
<1>8. HistorySound'
  BY <1>1, <1>6, <1>7 DEF HistorySound
<1> QED  BY <1>1, <1>3, <1>8 DEF ContextInv, SummarySound, ModelIsAnswered

LEMMA ToolsInterruptedIsSound ==
    ASSUME ContextInv, ToolsInterrupted
    PROVE  ContextInv'
<1>1. /\ agent = "tools" /\ agent' = "idle" /\ batch' = {} /\ toApprove' = {}
      /\ UNCHANGED <<items, made, pendingApproval, visible, parted>>
  BY DEF ToolsInterrupted
<1>2. Discipline'
  <2>1. {} \in Calls
    BY FS_EmptySet DEF Calls
  <2> QED  BY <1>1, <2>1 DEF ContextInv, Discipline
<1>3. PICK held2 : held2 = Held'
  OBVIOUS
<1>4. Sound(items, made, held2, parted)
  <2>1. held2 \subseteq Held \cup parted
    BY <1>1, <1>3 DEF Held
  <2> QED  BY <2>1, SoundLess DEF ContextInv, HistorySound
<1> QED  BY <1>1, <1>2, <1>3, <1>4 DEF ContextInv, HistorySound, SummarySound, ModelIsAnswered

-----------------------------------------------------------------------------
(***************************************************************************)
(* Undo and truncation.                                                    *)
(***************************************************************************)
\* The places of the messages of role user, in the code's sense.
Users == {i \in 2 .. Len(items) : UserRole(items[i])}

LEMMA PrefixOfSeq ==
    ASSUME NEW S, NEW q \in Seq(S), NEW c \in Nat, c <= Len(q)
    PROVE  SubSeq(q, 1, c) \in Seq(S)
<1>1. Len(q) \in Nat
  BY LenProperties
<1>2. \A i \in 1 .. c : q[i] \in S
  <2>1. \A i \in 1 .. c : i \in 1 .. Len(q)
    BY <1>1
  <2> QED  BY <2>1, ElementOfSeq
<1>3. 1 \in Int /\ c \in Int
  OBVIOUS
<1> QED  BY <1>2, <1>3, SubSeqProperties

\* The calls that a cut loses, as the model counts them.
LEMMA CutIsCutOff ==
    ASSUME NEW t \in Seq(Message)
    PROVE  Cut(t) = CutOff(t, Held)
<1>1. DOMAIN t = 1 .. Len(t)
  BY LenProperties
<1> QED  BY <1>1 DEF Cut, CutOff, Held

\* What a cut at place c does to the invariant.
LEMMA CutIsSound ==
    ASSUME ContextInv, NEW c \in 1 .. Len(items), items' = SubSeq(items, 1, c),
           parted' = parted \cup Cut(items'), UNCHANGED <<made, batch, toApprove, pendingApproval>>
    PROVE  HistorySound'
<1>1. PICK t : t = SubSeq(items, 1, c)
  OBVIOUS
<1>2. Sound(items, made, Held, parted) /\ made \in Nat
  <2>1. made \in Nat
    BY ContextAssumption DEF ContextInv, Discipline
  <2> QED  BY <2>1 DEF ContextInv, HistorySound
<1>3. t \in History /\ Sound(t, made, Held, parted \cup CutOff(t, Held))
  BY <1>1, <1>2, CutShort DEF Begins
<1>4. Cut(t) = CutOff(t, Held)
  BY <1>3, CutIsCutOff DEF History
<1>5. items' = t /\ parted' = parted \cup Cut(t) /\ made' = made /\ Held' = Held
  BY <1>1 DEF Held
<1>6. Sound(t, made, Held, parted \cup Cut(t))
  BY <1>3, <1>4
<1> QED  BY <1>5, <1>6 DEF HistorySound

LEMMA UndoLastTurnIsSound ==
    ASSUME ContextInv, UndoLastTurn
    PROVE  ContextInv'
<1>1. /\ agent = "idle" /\ UNCHANGED <<made, agent, batch, toApprove, pendingApproval, kept>>
      /\ parted' = parted \cup Cut(items')
      /\ items' = SubSeq(items, 1, IF Users = {} THEN 1 ELSE Max(Users) - 1)
      /\ visible' = IF visible = <<>> THEN <<>> ELSE Front(visible)
  BY Zenon DEF UndoLastTurn, Users
<1>2. items \in Seq(Message) /\ Len(items) \in Nat /\ Len(items) >= 1 /\ visible \in Seq(1 .. MaxMessages)
  BY WellFormedHistory DEF ContextInv, HistorySound, Sound, WellFormed, Discipline
<1>3. PICK c : c = IF Users = {} THEN 1 ELSE Max(Users) - 1
  OBVIOUS
<1>4. c \in 1 .. Len(items)
  <2>1. CASE Users = {}
    BY <1>2, <1>3, <2>1
  <2>2. CASE Users # {}
    <3>1. Users \in SUBSET (1 .. Len(items))
      BY <1>2 DEF Users
    <3>2. Max(Users) \in Users
      BY <1>2, <2>2, <3>1, MaxIsThere
    <3>3. Max(Users) \in 2 .. Len(items)
      BY <3>2 DEF Users
    <3> QED  BY <1>2, <1>3, <2>2, <3>3
  <2> QED  BY <2>1, <2>2
<1>5. HistorySound'
  <2>1. items' = SubSeq(items, 1, c)
    BY <1>1, <1>3
  <2> QED  BY <1>1, <1>4, <2>1, CutIsSound
<1>6. visible' \in Seq(1 .. MaxMessages)
  <2>1. CASE visible = <<>>
    BY <1>1, <1>2, <2>1
  <2>2. CASE visible # <<>>
    <3>1. Len(visible) \in Nat \ {0}
      BY <1>2, <2>2, EmptySeq
    <3>2. PICK e \in Nat : e = Len(visible) - 1 /\ e <= Len(visible)
      BY <3>1
    <3>3. SubSeq(visible, 1, e) \in Seq(1 .. MaxMessages)
      BY <1>2, <3>2, PrefixOfSeq
    <3>4. visible' = SubSeq(visible, 1, e)
      BY <1>1, <2>2, <3>2 DEF Front
    <3> QED  BY <3>3, <3>4
  <2> QED  BY <2>1, <2>2
<1>7. Discipline'
  BY <1>1, <1>6 DEF ContextInv, Discipline
<1> QED  BY <1>1, <1>5, <1>7 DEF ContextInv, SummarySound, ModelIsAnswered

\* A history cut before a message that is not a result has whole blocks.
LEMMA CutIsAnswered ==
    ASSUME NEW s \in History, Answered(s), NEW i \in 2 .. Len(s), s[i].role # "tool",
           NEW t, Begins(t, s, i - 1)
    PROVE  Answered(t)
<1>1. Len(s) \in Nat
  BY LenProperties DEF History
<1> PICK N \in Nat : N = Len(s)
  BY <1>1
<1>2. \A k \in 1 .. i - 1 : k \in 1 .. N
  OBVIOUS
<1> SUFFICES ASSUME NEW j \in 1 .. i - 1, t[j].role = "assistant", NEW id \in t[j].ids
             PROVE  \E k \in 1 .. i - 1 : t[k].role = "tool" /\ Owner(t, k) = j /\ id \in t[k].ids
  BY DEF Answered, Begins
<1>3. PICK k \in 1 .. N : s[k].role = "tool" /\ Owner(s, k) = j /\ id \in s[k].ids
  BY <1>2 DEF Answered, Begins
<1>4. k \in 1 .. i - 1
  <2> SUFFICES ASSUME ~ (k < i) PROVE FALSE
    BY <1>3
  <2>1. \A l \in j + 1 .. k : s[l].role = "tool"
    BY <1>3, OwnerIsBefore
  <2>2. i \in j + 1 .. k
    OBVIOUS
  <2> QED  BY <2>1, <2>2
<1> QED  BY <1>3, <1>4 DEF Begins

LEMMA EditMessageIsSound ==
    ASSUME ContextInv, NEW k, EditMessage(k)
    PROVE  ContextInv'
<1>1. /\ UNCHANGED <<made, agent, batch, toApprove, pendingApproval, kept>>
      /\ k \in DOMAIN visible /\ visible' = SubSeq(visible, 1, k - 1)
      /\ parted' = parted \cup Cut(items')
  BY DEF EditMessage
<1>2. PICK i \in Users : items' = SubSeq(items, 1, i - 1)
  BY DEF EditMessage, Users
<1>3. items \in History /\ Len(items) \in Nat /\ visible \in Seq(1 .. MaxMessages)
  BY WellFormedHistory DEF ContextInv, HistorySound, Sound, Discipline
<1>4. i \in 2 .. Len(items) /\ items[i].role # "tool"
  BY <1>2 DEF Users, UserRole
<1>5. i - 1 \in 1 .. Len(items)
  BY <1>3, <1>4
<1>6. HistorySound'
  BY <1>1, <1>2, <1>5, CutIsSound
<1>7. Discipline'
  <2>1. DOMAIN visible = 1 .. Len(visible) /\ Len(visible) \in Nat
    BY <1>3, LenProperties
  <2>2. k - 1 \in Nat /\ k - 1 <= Len(visible)
    BY <1>1, <2>1
  <2>3. visible' \in Seq(1 .. MaxMessages)
    BY <1>1, <1>3, <2>2, PrefixOfSeq
  <2> QED  BY <1>1, <2>3 DEF ContextInv, Discipline
<1>8. SummarySound'
  <2> SUFFICES ASSUME agent \in {"compact", "compact_op"}
               PROVE  Sound(kept[1] \o <<Summary>> \o kept[2], made, Held, parted')
    BY <1>1 DEF SummarySound, Held
  <2>1. PICK cand : cand = kept[1] \o <<Summary>> \o kept[2]
    OBVIOUS
  <2>2. Sound(cand, made, Held, parted)
    BY <2>1 DEF ContextInv, SummarySound
  <2>3. PICK gone2 : gone2 = parted'
    OBVIOUS
  <2>4. Sound(cand, made, Held, gone2)
    BY <1>1, <2>2, <2>3, SoundLess
  <2> QED  BY <2>1, <2>3, <2>4
<1>9. ModelIsAnswered'
  <2> SUFFICES ASSUME agent = "model" PROVE Answered(items')
    BY <1>1 DEF ModelIsAnswered
  <2>1. PICK t : t = SubSeq(items, 1, i - 1)
    OBVIOUS
  <2>2. Sound(items, made, Held, parted) /\ made \in Nat
    <3>1. made \in Nat
      BY ContextAssumption DEF ContextInv, Discipline
    <3> QED  BY <3>1 DEF ContextInv, HistorySound
  <2>3. Begins(t, items, i - 1)
    BY <1>5, <2>1, <2>2, CutShort
  <2>4. Answered(t)
    BY <1>3, <1>4, <2>3, CutIsAnswered DEF ContextInv, ModelIsAnswered
  <2> QED  BY <1>2, <2>1, <2>4
<1> QED  BY <1>6, <1>7, <1>8, <1>9 DEF ContextInv

-----------------------------------------------------------------------------
(***************************************************************************)
(* Compaction: the heads it keeps, and the three histories it makes.       *)
(***************************************************************************)
LEMMA HeadOfOne ==
    ASSUME NEW s, NEW m \in Nat, WellFormed(s, m), NEW b \in Nat, 2 <= b
    PROVE  \E from : HeadBefore(<<s[1]>>, s, b, from)
<1>1. s \in Seq(Message) /\ Len(s) \in Nat /\ Len(s) >= 1 /\ s[1].role = "system"
  BY WellFormedHistory DEF WellFormed
<1>2. s[1] \in Message
  <2>1. 1 \in 1 .. Len(s)
    BY <1>1
  <2> QED  BY <1>1, <2>1, ElementOfSeq
<1>3. PICK hd : hd = <<s[1]>>
  OBVIOUS
<1>4. hd \in Seq(Message) /\ Len(hd) = 1 /\ hd[1] = s[1] /\ hd # <<>>
  BY <1>2, <1>3
<1>5. PICK from : from = [i \in 1 .. 1 |-> 1]
  OBVIOUS
<1>6. from \in [1 .. Len(hd) -> 0 .. Len(s)] /\ \A i \in 1 .. Len(hd) : i = 1 /\ from[i] = 1
  BY <1>1, <1>4, <1>5
<1>7. \A i, j \in 1 .. Len(hd) : ~ (i < j)
  BY <1>6
<1>8. DrawnFrom(hd, s, from)
  BY <1>4, <1>6, <1>7 DEF DrawnFrom
<1>9. \A i \in 1 .. Len(hd) : from[i] < b /\ hd[i].role # "tool"
  BY <1>1, <1>4, <1>6
<1>10. HeadBefore(hd, s, b, from)
  BY <1>1, <1>4, <1>8, <1>9 DEF HeadBefore
<1> QED  BY <1>3, <1>10

\* One more message of the history, or the summary.
LEMMA HeadGrows ==
    ASSUME NEW s, NEW m \in Nat, WellFormed(s, m), NEW b \in Nat, NEW b2 \in Nat, b <= b2,
           NEW hd, NEW from, HeadBefore(hd, s, b, from), NEW x \in Message, x.role # "tool",
           \/ x = Summary
           \/ \E f \in 1 .. Len(s) : x = s[f] /\ b <= f /\ f < b2
    PROVE  \E from2 : HeadBefore(hd \o <<x>>, s, b2, from2)
<1>1. s \in Seq(Message) /\ Len(s) \in Nat
  BY WellFormedHistory DEF WellFormed
<1>2. /\ hd \in Seq(Message) /\ hd # <<>> /\ hd[1].role = "system"
      /\ from \in [1 .. Len(hd) -> 0 .. Len(s)]
      /\ Len(hd) \in Nat
  BY LenProperties DEF HeadBefore, DrawnFrom
<1> PICK n \in Nat : n = Len(hd)
  BY <1>2
<1> PICK N \in Nat : N = Len(s)
  BY <1>1
<1>3. \A i \in 1 .. n : from[i] \in 0 .. N /\ from[i] < b /\ hd[i].role # "tool"
  BY <1>2 DEF HeadBefore
<1>4. PICK t : t = hd \o <<x>>
  OBVIOUS
<1>5. /\ t \in Seq(Message) /\ Len(t) = n + 1 /\ t[n + 1] = x
      /\ \A i \in 1 .. n : t[i] = hd[i]
  BY <1>2, <1>4, OneMore
<1>6. PICK f \in 0 .. N : \/ x = Summary /\ f = 0
                          \/ x = s[f] /\ f # 0 /\ b <= f /\ f < b2
  <2>1. CASE x = Summary
    <3>1. 0 \in 0 .. N
      OBVIOUS
    <3> QED  BY <2>1, <3>1
  <2>2. CASE \E f \in 1 .. N : x = s[f] /\ b <= f /\ f < b2
    <3>1. PICK f \in 1 .. N : x = s[f] /\ b <= f /\ f < b2
      BY <2>2
    <3>2. f \in 0 .. N /\ f # 0
      OBVIOUS
    <3> QED  BY <3>1, <3>2
  <2> QED  BY <2>1, <2>2
<1> DEFINE g == [i \in 1 .. n + 1 |-> IF i = n + 1 THEN f ELSE from[i]]
<1>7. g \in [1 .. n + 1 -> 0 .. N] /\ g[n + 1] = f /\ \A i \in 1 .. n : g[i] = from[i]
  <2>1. \A i \in 1 .. n + 1 : i = n + 1 \/ i \in 1 .. n
    OBVIOUS
  <2>2. \A i \in 1 .. n + 1 : g[i] \in 0 .. N
    BY <1>3, <2>1
  <2>3. n + 1 \in 1 .. n + 1 /\ \A i \in 1 .. n : i \in 1 .. n + 1 /\ i # n + 1
    OBVIOUS
  <2> QED  BY <2>2, <2>3
<1> HIDE DEF g
<1>8. \A i \in 1 .. n + 1 : i = n + 1 \/ i \in 1 .. n
  OBVIOUS
<1>9. DrawnFrom(hd, s, from)
  BY DEF HeadBefore
<1>10. ASSUME NEW i \in 1 .. n + 1, g[i] # 0 PROVE t[i] = s[g[i]]
  <2>1. CASE i = n + 1
    BY <1>5, <1>6, <1>7, <1>10, <2>1
  <2>2. CASE i \in 1 .. n
    BY <1>5, <1>7, <1>9, <1>10, <2>2 DEF DrawnFrom
  <2> QED  BY <1>8, <2>1, <2>2
<1>11. ASSUME NEW i \in 1 .. n + 1, g[i] = 0
       PROVE  /\ t[i].n = 0 /\ t[i].role \in {"tool", "assistant"}
              /\ t[i].role # "tool" => t[i].ids = {}
  <2>1. CASE i = n + 1
    <3>1. t[i] = Summary
      BY <1>5, <1>6, <1>7, <1>11, <2>1
    <3> QED  BY <3>1 DEF Summary, Plain
  <2>2. CASE i \in 1 .. n
    BY <1>5, <1>7, <1>9, <1>11, <2>2 DEF DrawnFrom
  <2> QED  BY <1>8, <2>1, <2>2
<1>12. ASSUME NEW i \in 1 .. n + 1, NEW j \in 1 .. n + 1, i < j, g[i] # 0, g[j] # 0
       PROVE  g[i] < g[j]
  <2>1. i \in 1 .. n
    BY <1>12
  <2>2. CASE j = n + 1
    <3>1. PICK a \in 0 .. N : a = from[i] /\ a = g[i] /\ a < b
      BY <1>3, <1>7, <2>1
    <3>2. g[j] = f /\ b <= f
      BY <1>6, <1>7, <1>12, <2>2
    <3> QED  BY <3>1, <3>2
  <2>3. CASE j \in 1 .. n
    BY <1>7, <1>9, <1>12, <2>1, <2>3 DEF DrawnFrom
  <2> QED  BY <1>8, <2>2, <2>3
<1>13. DrawnFrom(t, s, g)
  BY <1>5, <1>7, <1>10, <1>11, <1>12 DEF DrawnFrom
<1>14. ASSUME NEW i \in 1 .. n + 1 PROVE g[i] < b2 /\ t[i].role # "tool"
  <2>1. CASE i = n + 1
    <3>1. f < b2
      <4>1. CASE f = 0
        <5>1. n # 0
          BY <1>2, EmptySeq
        <5>2. PICK a \in 0 .. N : a = from[1] /\ a < b
          <6>1. 1 \in 1 .. n
            BY <5>1
          <6> QED  BY <1>3, <6>1
        <5> QED  BY <4>1, <5>2
      <4>2. CASE f # 0
        BY <1>6, <4>2
      <4> QED  BY <4>1, <4>2
    <3> QED  BY <1>5, <1>7, <2>1, <3>1
  <2>2. CASE i \in 1 .. n
    <3>1. PICK a \in 0 .. N : a = from[i] /\ a = g[i] /\ a < b
      BY <1>3, <1>7, <2>2
    <3>2. a < b2
      BY <3>1
    <3> QED  BY <1>3, <1>5, <2>2, <3>1, <3>2
  <2> QED  BY <1>8, <2>1, <2>2
<1>15. t # <<>> /\ t[1].role = "system"
  <2>1. n # 0 /\ Len(t) # 0
    BY <1>2, <1>5, EmptySeq
  <2>2. 1 \in 1 .. n
    BY <2>1
  <2> QED  BY <1>2, <1>5, <2>1, <2>2, EmptySeq
<1>16. HeadBefore(t, s, b2, g)
  BY <1>5, <1>13, <1>14, <1>15 DEF HeadBefore
<1> QED  BY <1>4, <1>16

\* Without a message of the user, message 2 goes and takes its calls along.
LEMMA WithoutUser ==
    ASSUME NEW s, NEW m \in Nat, NEW held, NEW gone, Sound(s, m, held, gone),
           NEW gone2, gone \subseteq gone2, Len(s) > 1 => s[2].ids \subseteq gone2
    PROVE  Sound(<<s[1]>> \o SubSeq(s, 3, Len(s)), m, held, gone2)
<1>1. /\ WellFormed(s, m) /\ s \in History /\ Len(s) \in Nat /\ Len(s) >= 1
      /\ s[1].role = "system" /\ Proper(s[1], m)
  <2>1. WellFormed(s, m) /\ Len(s) \in Nat /\ Len(s) >= 1 /\ s \in History
    BY WellFormedHistory DEF Sound
  <2>2. 1 \in 1 .. Len(s)
    BY <2>1
  <2> QED  BY <2>1, <2>2 DEF WellFormed
<1>2. s[1].ids = {}
  BY <1>1 DEF Proper
<1>3. PICK hd : hd = <<s[1]>>
  OBVIOUS
<1>4. CASE Len(s) = 1
  <2>1. PICK from : HeadBefore(hd, s, 2, from)
    BY <1>1, <1>3, HeadOfOne
  <2>2. Owner(s, 2 - 1) = 1
    <3>1. 1 \in 1 .. Len(s) /\ 1 \in 1 .. 1 /\ \A k \in 1 + 1 .. 1 : FALSE /\ 2 - 1 = 1
      BY <1>4
    <3> QED  BY <1>1, <3>1, OwnerIsOne
  <2>3. SplitAt(s, 2, gone2)
    BY <1>2, <2>2 DEF SplitAt
  <2>4. 2 \in 2 .. Len(s) + 1
    BY <1>4
  <2>5. Sound(hd \o SubSeq(s, 2, Len(s)), m, held, gone2)
    BY <2>1, <2>3, <2>4, Joined
  <2>6. SubSeq(s, 2, Len(s)) = <<>> /\ SubSeq(s, 3, Len(s)) = <<>>
    <3>1. 2 \in Int /\ 3 \in Int /\ Len(s) \in Int /\ Len(s) < 2 /\ Len(s) < 3
      BY <1>4
    <3> QED  BY <3>1, SubSeqEmpty
  <2> QED  BY <1>3, <2>5, <2>6
<1>5. CASE Len(s) # 1
  <2>1. 3 \in 2 .. Len(s) + 1 /\ 3 \in Nat /\ 2 <= 3 /\ 2 \in 1 .. Len(s) /\ Len(s) > 1 /\ 3 - 1 = 2
    <3>1. PICK n \in Nat : n = Len(s) /\ n >= 1 /\ n # 1
      BY <1>1, <1>5
    <3>2. 3 \in 2 .. n + 1 /\ 2 \in 1 .. n /\ n > 1
      BY <3>1
    <3> QED  BY <3>1, <3>2
  <2>2. PICK from : HeadBefore(hd, s, 3, from)
    BY <1>1, <1>3, <2>1, HeadOfOne
  <2>3. Owner(s, 2) \in 1 .. 2
    BY <1>1, <2>1, OwnerIsBefore
  <2>4. Owner(s, 2) = 1 \/ Owner(s, 2) = 2
    BY <2>3
  <2>5. SplitAt(s, 3, gone2)
    BY <1>2, <2>1, <2>4 DEF SplitAt
  <2>6. Sound(hd \o SubSeq(s, 3, Len(s)), m, held, gone2)
    BY <2>1, <2>2, <2>5, Joined
  <2> QED  BY <1>3, <2>6
<1> QED  BY <1>4, <1>5

\* The system message and the first message of the user.
LEMMA HeadOfUser ==
    ASSUME NEW s, NEW m \in Nat, WellFormed(s, m), NEW f \in 2 .. Len(s), UserRole(s[f]),
           NEW b \in Nat, f < b
    PROVE  \E from : HeadBefore(<<s[1]>> \o <<s[f]>>, s, b, from)
<1>1. s \in Seq(Message) /\ Len(s) \in Nat
  BY WellFormedHistory DEF WellFormed
<1>2. f \in 1 .. Len(s) /\ 2 <= f /\ 2 \in Nat /\ 2 <= b /\ 2 <= 2
  BY <1>1
<1>3. PICK from : HeadBefore(<<s[1]>>, s, 2, from)
  BY <1>2, HeadOfOne
<1>4. s[f] \in Message /\ s[f].role # "tool"
  BY <1>1, <1>2, ElementOfSeq DEF UserRole
<1>5. PICK hd : hd = <<s[1]>>
  OBVIOUS
<1>6. PICK x : x = s[f]
  OBVIOUS
<1>7. \E from2 : HeadBefore(hd \o <<x>>, s, b, from2)
  BY <1>2, <1>3, <1>4, <1>5, <1>6, HeadGrows
<1> QED  BY <1>5, <1>6, <1>7

LEMMA AfterFirstUser ==
    ASSUME NEW s, NEW m \in Nat, NEW held, NEW gone, Sound(s, m, held, gone),
           NEW f \in 2 .. Len(s), UserRole(s[f])
    PROVE  Sound((<<s[1]>> \o <<s[f]>>) \o SubSeq(s, f + 1, Len(s)), m, held, gone)
<1>1. WellFormed(s, m) /\ s \in History /\ Len(s) \in Nat
  BY WellFormedHistory DEF Sound
<1>2. f \in 1 .. Len(s) /\ f + 1 \in 2 .. Len(s) + 1 /\ f + 1 \in Nat /\ f < f + 1 /\ (f + 1) - 1 = f
  BY <1>1
<1>3. PICK hd : hd = <<s[1]>> \o <<s[f]>>
  OBVIOUS
<1>4. PICK from : HeadBefore(hd, s, f + 1, from)
  BY <1>1, <1>2, <1>3, HeadOfUser
<1>5. s[f].ids = {} /\ s[f].role # "tool"
  BY <1>1, <1>2 DEF WellFormed, Proper, UserRole
<1>6. Owner(s, f) = f
  <2>1. f \in 1 .. f /\ \A k \in f + 1 .. f : s[k].role = "tool"
    OBVIOUS
  <2> QED  BY <1>1, <1>2, <1>5, <2>1, OwnerIsOne
<1>7. SplitAt(s, f + 1, gone)
  BY <1>2, <1>5, <1>6 DEF SplitAt
<1>8. Sound(hd \o SubSeq(s, f + 1, Len(s)), m, held, gone)
  BY <1>2, <1>4, <1>7, Joined
<1> QED  BY <1>3, <1>8

LEMMA AroundSummary ==
    ASSUME NEW s, NEW m \in Nat, NEW held, NEW gone, Sound(s, m, held, gone),
           NEW f \in 2 .. Len(s), UserRole(s[f]), NEW b \in f + 1 .. Len(s), s[b].role # "tool"
    PROVE  Sound((<<s[1]>> \o <<s[f]>>) \o <<Summary>> \o SubSeq(s, b, Len(s)), m, held, gone)
<1>1. WellFormed(s, m) /\ Len(s) \in Nat
  BY WellFormedHistory DEF Sound
<1>2. b \in 2 .. Len(s) + 1 /\ b \in Nat /\ f < b /\ b <= Len(s) /\ b <= b
  BY <1>1
<1>3. PICK hd : hd = <<s[1]>> \o <<s[f]>>
  OBVIOUS
<1>4. PICK from : HeadBefore(hd, s, b, from)
  BY <1>1, <1>2, <1>3, HeadOfUser
<1>5. Summary \in Message /\ Summary.role # "tool"
  BY PlainMessage DEF Summary
<1>6. PICK hd2 : hd2 = hd \o <<Summary>>
  OBVIOUS
<1>7. PICK from2 : HeadBefore(hd2, s, b, from2)
  <2>1. PICK x : x = Summary
    OBVIOUS
  <2>2. \E from2 : HeadBefore(hd \o <<x>>, s, b, from2)
    BY <1>1, <1>2, <1>4, <1>5, <2>1, HeadGrows
  <2> QED  BY <1>6, <2>1, <2>2
<1>8. SplitAt(s, b, gone)
  BY <1>2 DEF SplitAt
<1>9. Sound(hd2 \o SubSeq(s, b, Len(s)), m, held, gone)
  BY <1>2, <1>7, <1>8, Joined
<1> QED  BY <1>3, <1>6, <1>9

\* The first message of the user, and where the tail begins.
LEMMA FirstUserIsThere ==
    ASSUME Len(items) \in Nat
    PROVE  \/ FirstUser = 0 /\ Users = {}
           \/ FirstUser \in 2 .. Len(items) /\ UserRole(items[FirstUser])
<1>1. FirstUser = IF Users = {} THEN 0 ELSE Min(Users)
  BY Zenon DEF FirstUser, Users
<1>2. CASE Users = {}
  BY <1>1, <1>2
<1>3. CASE Users # {}
  <2>1. Users \in SUBSET (1 .. Len(items))
    BY DEF Users
  <2>2. Min(Users) \in Users
    BY <1>3, <2>1, MinIsThere
  <2> QED  BY <1>1, <1>3, <2>2 DEF Users
<1> QED  BY <1>2, <1>3

LEMMA BoundaryIsUser ==
    ASSUME Len(items) \in Nat
    PROVE  \/ Boundary = IF FirstUser = 0 THEN 3 ELSE FirstUser + 1
           \/ /\ FirstUser # 0 /\ Boundary \in FirstUser + 1 .. Len(items)
              /\ UserRole(items[Boundary])
<1> DEFINE least == IF FirstUser = 0 THEN 3 ELSE FirstUser + 1
<1> DEFINE walked == {i \in 2 .. Len(items) : i <= Len(items) + 1 - Untouched /\ UserRole(items[i])}
<1>1. Boundary = IF walked = {} \/ Max(walked) < least THEN least ELSE Max(walked)
  BY Zenon DEF Boundary
<1>2. CASE walked = {} \/ Max(walked) < least
  BY <1>1, <1>2, Zenon
<1>3. CASE ~ (walked = {} \/ Max(walked) < least)
  <2>1. Boundary = Max(walked) /\ walked # {} /\ ~ (Max(walked) < least)
    BY <1>1, <1>3, Zenon
  <2>2. walked \in SUBSET (1 .. Len(items)) /\ walked \subseteq Users
    BY DEF Users
  <2>3. Max(walked) \in walked
    <3> HIDE DEF walked
    <3> QED  BY <2>1, <2>2, MaxIsThere
  <2>4. PICK b \in 2 .. Len(items) : b = Boundary /\ UserRole(items[b]) /\ ~ (b < least)
    <3>1. Max(walked) \in 2 .. Len(items) /\ UserRole(items[Max(walked)])
      BY <2>3
    <3> HIDE DEF walked, least
    <3> QED  BY <2>1, <3>1
  <2>5. FirstUser # 0 /\ FirstUser \in 2 .. Len(items)
    <3>1. Users # {}
      <4> HIDE DEF walked
      <4> QED  BY <2>1, <2>2
    <3> QED  BY <3>1, FirstUserIsThere
  <2>6. PICK f \in 2 .. Len(items) : f = FirstUser
    BY <2>5
  <2>7. least = f + 1
    BY <2>5, <2>6
  <2> HIDE DEF least
  <2>8. b \in f + 1 .. Len(items)
    BY <2>4, <2>6, <2>7
  <2> QED  BY <2>4, <2>5, <2>6, <2>8
<1> QED  BY <1>2, <1>3

LEMMA CompactIsSound ==
    ASSUME ContextInv, Compact
    PROVE  ContextInv'
<1> DEFINE least == IF FirstUser = 0 THEN 3 ELSE FirstUser + 1
<1> DEFINE head == <<items[1]>> \o (IF FirstUser = 0 THEN <<>> ELSE <<items[FirstUser]>>)
<1> DEFINE tail == SubSeq(items, Boundary, Len(items))
<1>1. /\ agent \in {"loop", "idle"}
      /\ parted' = parted \cup IF FirstUser = 0 /\ Len(items) > 1 THEN items[2].ids ELSE {}
      /\ UNCHANGED <<made, batch, toApprove, pendingApproval, visible>>
  BY DEF Compact
<1>2. IF Boundary = least
      THEN /\ items' = head \o tail
           /\ agent' \in {IF agent = "loop" THEN "ready" ELSE "idle", "over"}
           /\ UNCHANGED kept
      ELSE /\ kept' = <<head, tail>>
           /\ agent' = IF agent = "loop" THEN "compact" ELSE "compact_op"
           /\ UNCHANGED items
  BY Zenon DEF Compact
<1>3. made \in Nat /\ Sound(items, made, Held, parted) /\ WellFormed(items, made)
      /\ items \in Seq(Message) /\ Len(items) \in Nat /\ Len(items) >= 1
  <2>1. made \in Nat /\ Sound(items, made, Held, parted)
    BY ContextAssumption DEF ContextInv, Discipline, HistorySound
  <2> QED  BY <2>1, WellFormedHistory DEF Sound, WellFormed
<1>4. PICK gone2 : gone2 = parted' /\ parted \subseteq gone2
  BY <1>1
<1>5. Held' = Held
  BY <1>1 DEF Held
<1>6. Discipline'
  <2>1. /\ agent' \in {"idle", "loop", "compact", "compact_op", "ready", "model", "tools", "over"}
        /\ agent' # "tools"
        /\ agent = "loop" => agent' \in {"ready", "over", "compact"}
        /\ agent = "idle" => agent' \in {"idle", "over", "compact_op"}
    <3> HIDE DEF least, head, tail
    <3> QED  BY <1>1, <1>2
  <2> QED  BY <1>1, <2>1 DEF ContextInv, Discipline
<1>7. CASE Boundary = least
  <2>1. /\ items' = head \o tail /\ agent' \notin {"compact", "compact_op", "model"}
    <3> HIDE DEF least, head, tail
    <3> QED  BY <1>1, <1>2, <1>7
  <2>2. Sound(head \o tail, made, Held, gone2)
    <3>1. CASE FirstUser = 0
      <4>1. head = <<items[1]>>
        <5>1. items[1] \in Message
          <6>1. 1 \in 1 .. Len(items)
            BY <1>3
          <6> QED  BY <1>3, <6>1, ElementOfSeq
        <5>2. <<items[1]>> \in Seq(Message)
          BY <5>1
        <5>3. <<items[1]>> \o <<>> = <<items[1]>>
          BY <5>2, ConcatEmptySeq
        <5> QED  BY <3>1, <5>3
      <4>2. tail = SubSeq(items, 3, Len(items))
        BY <1>7, <3>1
      <4>3. Len(items) > 1 => items[2].ids \subseteq gone2
        BY <1>1, <1>4, <3>1
      <4> HIDE DEF least, head, tail
      <4>4. Sound(<<items[1]>> \o SubSeq(items, 3, Len(items)), made, Held, gone2)
        BY <1>3, <1>4, <4>3, WithoutUser
      <4> QED  BY <4>1, <4>2, <4>4
    <3>2. CASE FirstUser # 0
      <4>1. PICK f \in 2 .. Len(items) : f = FirstUser /\ UserRole(items[f])
        BY <1>3, <3>2, FirstUserIsThere
      <4>2. head = <<items[1]>> \o <<items[f]>>
        BY <3>2, <4>1
      <4>3. tail = SubSeq(items, f + 1, Len(items))
        BY <1>7, <3>2, <4>1
      <4> HIDE DEF least, head, tail
      <4>4. Sound((<<items[1]>> \o <<items[f]>>) \o SubSeq(items, f + 1, Len(items)), made, Held, parted)
        BY <1>3, <4>1, AfterFirstUser
      <4>5. Sound(head \o tail, made, Held, parted)
        BY <4>2, <4>3, <4>4
      <4>6. PICK t : t = head \o tail
        OBVIOUS
      <4>7. Sound(t, made, Held, gone2)
        BY <1>4, <4>5, <4>6, SoundLess
      <4> QED  BY <4>6, <4>7
    <3> QED  BY <3>1, <3>2
  <2> HIDE DEF least, head, tail
  <2>3. HistorySound'
    BY <1>1, <1>4, <1>5, <2>1, <2>2 DEF HistorySound
  <2> QED  BY <1>6, <2>1, <2>3 DEF ContextInv, SummarySound, ModelIsAnswered
<1>8. CASE Boundary # least
  <2>1. kept' = <<head, tail>> /\ items' = items /\ agent' # "model"
    <3> HIDE DEF least, head, tail
    <3> QED  BY <1>1, <1>2, <1>8
  <2>2. /\ FirstUser # 0 /\ Boundary \in FirstUser + 1 .. Len(items)
        /\ UserRole(items[Boundary])
    BY <1>3, <1>8, BoundaryIsUser
  <2>3. PICK f \in 2 .. Len(items) : f = FirstUser /\ UserRole(items[f])
    BY <1>3, <2>2, FirstUserIsThere
  <2>4. PICK b \in f + 1 .. Len(items) : b = Boundary /\ items[b].role # "tool"
    BY <2>2, <2>3 DEF UserRole
  <2>5. head = <<items[1]>> \o <<items[f]>> /\ tail = SubSeq(items, b, Len(items))
    BY <2>2, <2>3, <2>4
  <2> HIDE DEF least, head, tail
  <2>6. Sound((<<items[1]>> \o <<items[f]>>) \o <<Summary>> \o SubSeq(items, b, Len(items)),
              made, Held, parted)
    BY <1>3, <2>3, <2>4, AroundSummary
  <2>7. kept'[1] = head /\ kept'[2] = tail
    BY <2>1
  <2>8. PICK t : t = kept'[1] \o <<Summary>> \o kept'[2]
    OBVIOUS
  <2>9. t = (<<items[1]>> \o <<items[f]>>) \o <<Summary>> \o SubSeq(items, b, Len(items))
    BY <2>5, <2>7, <2>8
  <2>10. Sound(t, made, Held, parted)
    BY <2>6, <2>9
  <2>11. Sound(t, made, Held, gone2)
    BY <1>4, <2>10, SoundLess
  <2>12. SummarySound'
    BY <1>1, <1>4, <1>5, <2>8, <2>11 DEF SummarySound
  <2>13. Sound(items, made, Held, gone2)
    BY <1>3, <1>4, SoundLess
  <2>14. HistorySound'
    BY <1>1, <1>4, <1>5, <2>1, <2>13 DEF HistorySound
  <2> QED  BY <1>6, <2>1, <2>12, <2>14 DEF ContextInv, ModelIsAnswered
<1> QED  BY <1>7, <1>8

LEMMA SummarisedIsSound ==
    ASSUME ContextInv, Summarised
    PROVE  ContextInv'
<1>1. /\ agent \in {"compact", "compact_op"}
      /\ \/ /\ items' = kept[1] \o <<Summary>> \o kept[2]
            /\ agent' \in {IF agent = "compact" THEN "ready" ELSE "idle", "over"}
         \/ agent' = "idle" /\ UNCHANGED items
      /\ UNCHANGED <<made, batch, toApprove, pendingApproval, visible, parted>>
  BY DEF Summarised, Summary, Plain
<1>2. Discipline'
  <2>1. /\ agent' \in {"ready", "idle", "over"}
        /\ agent = "compact_op" => agent' # "ready"
    BY <1>1
  <2> QED  BY <1>1, <2>1 DEF ContextInv, Discipline
<1>3. Held' = Held
  BY <1>1 DEF Held
<1>4. HistorySound'
  <2>1. PICK cand : cand = kept[1] \o <<Summary>> \o kept[2]
    OBVIOUS
  <2>2. Sound(cand, made, Held, parted) /\ Sound(items, made, Held, parted)
    BY <1>1, <2>1 DEF ContextInv, SummarySound, HistorySound
  <2>3. items' = cand \/ items' = items
    BY <1>1, <2>1
  <2> QED  BY <1>1, <1>3, <2>2, <2>3 DEF HistorySound
<1>5. agent' \notin {"compact", "compact_op", "model"}
  BY <1>1
<1> QED  BY <1>2, <1>4, <1>5 DEF ContextInv, SummarySound, ModelIsAnswered

-----------------------------------------------------------------------------
(***************************************************************************)
(* The theorems.                                                           *)
(***************************************************************************)
LEMMA StepIsSound == ContextInv /\ [ContextNext]_contextVars => ContextInv'
<1> SUFFICES ASSUME ContextInv, [ContextNext]_contextVars PROVE ContextInv'
  OBVIOUS
<1>1. CASE UserMessage
  BY <1>1, UserMessageIsSound
<1>2. CASE TypedApproval
  BY <1>2, TypedApprovalIsSound
<1>3. CASE Decision
  BY <1>3, DecisionIsSound
<1>4. CASE UndoLastTurn
  BY <1>4, UndoLastTurnIsSound
<1>5. CASE \E k \in 1 .. MaxSent : EditMessage(k)
  BY <1>5, EditMessageIsSound
<1>6. CASE Compact
  BY <1>6, CompactIsSound
<1>7. CASE Summarised
  BY <1>7, SummarisedIsSound
<1>8. CASE GetMessages
  BY <1>8, GetMessagesIsSound
<1>9. CASE ModelSpeaks
  BY <1>9, ModelSpeaksIsSound
<1>10. CASE \E k \in 1 .. 2 : \E autos \in SUBSET (1 .. k) : ModelCalls(k, autos)
  BY <1>10, ModelCallsIsSound
<1>11. CASE ToolsReturn
  BY <1>11, ToolsReturnIsSound
<1>12. CASE ToolsInterrupted
  BY <1>12, ToolsInterruptedIsSound
<1>13. CASE UNCHANGED contextVars
  <2>1. UNCHANGED <<items, made, agent, batch, toApprove, pendingApproval, kept, visible, parted>>
    BY <1>13 DEF contextVars
  <2> QED  BY <2>1 DEF ContextInv, Discipline, HistorySound, SummarySound, ModelIsAnswered, Held
<1> QED  BY <1>1, <1>2, <1>3, <1>4, <1>5, <1>6, <1>7, <1>8, <1>9, <1>10, <1>11, <1>12, <1>13 DEF ContextNext

(* Every history of a session is sound: numbers grow, every result has its *)
(* call before it or is of a call that was parted, and so is the history a *)
(* compaction in flight will leave.                                        *)
THEOREM ContextInvariance == ContextSpec => []ContextInv
<1> QED  BY InitiallySound, StepIsSound, PTL DEF ContextSpec

(* A history begins with the system message, and the browser shows numbers *)
(* of messages only.                                                       *)
THEOREM ContextTypeCorrect == ContextSpec => []ContextTypeOK
<1>1. ContextInv => ContextTypeOK
  <2> SUFFICES ASSUME ContextInv PROVE ContextTypeOK
    OBVIOUS
  <2>1. items[1].role = "system"
    BY DEF ContextInv, HistorySound, Sound, WellFormed
  <2>2. Range(visible) \subseteq 1 .. MaxMessages
    <3>1. visible \in Seq(1 .. MaxMessages)
      BY DEF ContextInv, Discipline
    <3>2. /\ DOMAIN visible = 1 .. Len(visible)
          /\ \A i \in 1 .. Len(visible) : visible[i] \in 1 .. MaxMessages
      BY <3>1, LenProperties, ElementOfSeq
    <3>3. Range(visible) = {visible[i] : i \in DOMAIN visible}
      BY Zenon DEF Range
    <3> QED  BY <3>2, <3>3, Zenon
  <2> QED  BY <2>1, <2>2 DEF ContextTypeOK, ContextInv, Discipline
<1> QED  BY <1>1, ContextInvariance, PTL

(* The history stays in the order in which it was made and holds nothing   *)
(* twice, through compaction, undo and truncation.                         *)
THEOREM HistoryStaysInOrder == ContextSpec => []HistoryInOrder
<1>1. ContextInv => HistoryInOrder
  <2> SUFFICES ASSUME ContextInv PROVE HistoryInOrder
    OBVIOUS
  <2>1. Ordered(items) /\ items \in Seq(Message)
    BY DEF ContextInv, HistorySound, Sound, WellFormed
  <2>2. DOMAIN items = 1 .. Len(items)
    BY <2>1, LenProperties
  <2> QED  BY <2>1, <2>2 DEF HistoryInOrder, Ordered, InOrder
<1> QED  BY <1>1, ContextInvariance, PTL

(* A result that does not follow its call belongs to a call that was       *)
(* waiting when a message came between or when it was cut; compaction      *)
(* never parts a call from its result.                                     *)
THEOREM StrayResultsAreExplained == ContextSpec => []StraysAreExplained
<1>1. ContextInv => StraysAreExplained
  <2> SUFFICES ASSUME ContextInv, NEW i \in DOMAIN items, Stray(i)
               PROVE  items[i].ids \subseteq parted
    BY DEF StraysAreExplained
  <2>1. Explained(items, parted) /\ items \in History
    BY WellFormedHistory DEF ContextInv, HistorySound, Sound
  <2>2. i \in 1 .. Len(items)
    BY <2>1, LenProperties DEF History
  <2>3. Owner(items, i) # 0
    <3>1. Owner(items, i) \in 1 .. i
      BY <2>1, <2>2, OwnerIsBefore
    <3> QED  BY <2>2, <3>1
  <2> QED  BY <2>1, <2>2, <2>3 DEF Stray, Explained
<1> QED  BY <1>1, ContextInvariance, PTL

(* Every call the provider is shown is followed at once by its result, a   *)
(* stub if it has none (_patch_dangling_tool_calls); an edit that cuts the *)
(* history while the model answers leaves it so.                           *)
THEOREM ShownCallsAreAnswered == ContextSpec => []CallsAreAnswered
<1>1. ContextInv => CallsAreAnswered
  <2> SUFFICES ASSUME ContextInv, agent = "model", NEW j \in DOMAIN items,
                      items[j].role = "assistant", NEW id \in items[j].ids
               PROVE  id \in UNION {items[i].ids : i \in Answers(items, j)}
    BY DEF CallsAreAnswered
  <2>1. Answered(items) /\ items \in Seq(Message)
    BY DEF ContextInv, ModelIsAnswered, HistorySound, Sound, WellFormed
  <2>2. DOMAIN items = 1 .. Len(items)
    BY <2>1, LenProperties
  <2>3. PICK k \in DOMAIN items : /\ items[k].role = "tool" /\ Owner(items, k) = j
                                  /\ id \in items[k].ids
    BY <2>1, <2>2 DEF Answered
  <2>4. k \in Answers(items, j)
    BY <2>3 DEF Answers
  <2> QED  BY <2>3, <2>4
<1> QED  BY <1>1, ContextInvariance, PTL
=============================================================================
