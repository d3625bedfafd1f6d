---------------------------- MODULE RuntimeProofs ----------------------------
(***************************************************************************)
(* What holds of the runtime store for any limits, any activities with     *)
(* their hooks and any number of operations: the event log is the history  *)
(* it promises to be, and the attempts account for every call, so that the *)
(* limit of each activity holds over contacts they share.                  *)
(***************************************************************************)
EXTENDS Runtime, FiniteSetTheorems, FunctionTheorems, SequenceTheorems, WellFoundedInduction,
        TLAPS

\* What the arguments need of the types: a session that is built belongs to an activity.
LiveTyped == live \in [Sessions -> LiveSessions]

\* A session that was not built stands against no attempt.
Unstarted == \A s \in Sessions : live[s].task = "not built" => live[s].attempt = NoAttempt

Typed ==
  /\ LiveTyped
  /\ contacts \in [ContactRefs -> ContactStates]
  /\ attempts \in Seq(OutboundAttempts)
  /\ ops \in 0..MaxOps
  /\ \A s \in Sessions : live[s].emitted \in 0..ops
  /\ \A s \in Sessions : live[s].attempt \in 0..Len(attempts)
  /\ Unstarted

\* The ring is the end of the history, from its base on.
Ring ==
  /\ logged \in Seq(Events) /\ event_log_base \in 0..Len(logged)
  /\ event_log = SubSeq(logged, event_log_base + 1, Len(logged))
  /\ Len(logged) - event_log_base <= MaxEvents

\* The calls among the first n attempts to reach a contact.
Called(att, c, n) == {j \in 1..n : att[j].contact = c /\ att[j].call # Absent}

IInv == Typed /\ Ring /\ AttemptLimitHolds /\ AttemptsAccount

-----------------------------------------------------------------------------
(***************************************************************************)
(* Selections.  Induction is by the least counterexample: the prefixes of  *)
(* a sequence that are as they should be are a set of numbers.             *)
(***************************************************************************)
\* Every non-empty set of numbers has a least one.
LEMMA LeastNumber ==
  ASSUME NEW T, T \subseteq Nat, T # {}
  PROVE  \E m \in T : \A k \in T : m <= k
<1> DEFINE R == StrictSubsetOrdering(Nat)
           F == FiniteSubsetsOf(Nat)
           Ends == {0..k : k \in T}
<1>1. IsWellFoundedOn(R, F)
  BY FS_StrictSubsetOrderingWellFounded
<1>2. Ends \subseteq F
  <2> SUFFICES ASSUME NEW k \in T PROVE 0..k \in F
    OBVIOUS
  <2>1. k \in Nat /\ 0 \in Int /\ k \in Int
    OBVIOUS
  <2>2. IsFiniteSet(0..k)
    BY <2>1, FS_Interval
  <2>3. 0..k \subseteq Nat
    OBVIOUS
  <2> QED BY <2>2, <2>3 DEF FiniteSubsetsOf
<1>3. Ends # {}
  OBVIOUS
<1> HIDE DEF F
<1>4. PICK e \in Ends : \A d \in Ends : <<d, e>> \notin R
  <2> HIDE DEF R, Ends
  <2> QED BY <1>1, <1>2, <1>3, WFMin
<1>5. PICK m \in T : e = 0..m
  OBVIOUS
<1>6. ASSUME NEW k \in T, ~(m <= k) PROVE FALSE
  <2>1. k \in Nat /\ m \in Nat /\ k < m
    BY <1>6
  <2>2. 0..k \subseteq 0..m /\ 0..k # 0..m
    <3>1. m \in 0..m /\ m \notin 0..k
      BY <2>1
    <3>2. \A i \in 0..k : i \in 0..m
      BY <2>1
    <3> QED BY <3>1, <3>2
  <2>3. 0..k \in SUBSET Nat /\ 0..m \in SUBSET Nat
    BY <2>1
  <2>4. <<0..k, 0..m>> \in R
    BY <2>2, <2>3 DEF StrictSubsetOrdering
  <2> QED BY <1>4, <1>5, <2>4
<1> QED BY <1>6

\* What the prefixes of a sequence have in common: a set that holds 0, and each number
\* with the one before it, holds every number up to n.
LEMMA UpTo ==
  ASSUME NEW n \in Nat, NEW Good, 0 \in Good,
         \A k \in 1..n : k - 1 \in Good => k \in Good
  PROVE  0..n \subseteq Good
<1> DEFINE Bad == (0..n) \ Good
<1>1. SUFFICES ASSUME Bad # {} PROVE FALSE
  OBVIOUS
<1>2. Bad \subseteq Nat
  OBVIOUS
<1>3. PICK m \in Bad : \A k \in Bad : m <= k
  <2> HIDE DEF Bad
  <2> QED BY <1>1, <1>2, LeastNumber
<1>4. m \in 1..n /\ m - 1 \in 0..n /\ ~(m <= m - 1) /\ m \notin Good
  BY <1>3
<1>5. m - 1 \in Good
  BY <1>3, <1>4
<1> QED BY <1>4, <1>5


\* The elements selected from each prefix of a sequence, and from the whole.
OnlySteps(f, s, S) ==
  /\ DOMAIN f = 0..Len(s) /\ f[0] = <<>>
  /\ \A n \in 1..Len(s) : f[n] = IF s[n] \in S THEN Append(f[n - 1], s[n]) ELSE f[n - 1]

\* The recursive function behind Only exists, and Only is its last value.
LEMMA OnlyUnfolds ==
  ASSUME NEW s, Len(s) \in Nat, NEW S
  PROVE  \E f : OnlySteps(f, s, S) /\ Only(s, S) = f[Len(s)]
<1> DEFINE n == Len(s)
           Body(f, i) == IF i = 0 THEN <<>>
                         ELSE IF s[i] \in S THEN Append(f[i - 1], s[i]) ELSE f[i - 1]
           Upto(k) == \E g : g = [i \in 0..k |-> Body(g, i)]
           Good == {k \in Nat : Upto(k)}
<1>1. 0 \in Good
  <2>1. [i \in 0..0 |-> <<>>] = [i \in 0..0 |-> Body([j \in 0..0 |-> <<>>], i)]
    OBVIOUS
  <2> QED BY <2>1
<1>2. \A k \in 1..n : k - 1 \in Good => k \in Good
  <2> SUFFICES ASSUME NEW k \in 1..n, k - 1 \in Good PROVE k \in Good
    OBVIOUS
  <2>1. PICK g : g = [i \in 0..(k - 1) |-> Body(g, i)]
    OBVIOUS
  <2> DEFINE h == [i \in 0..k |-> IF i = k THEN Body(g, k) ELSE g[i]]
  <2>2. \A i \in 0..k : h[i] = Body(h, i)
    <3> SUFFICES ASSUME NEW i \in 0..k PROVE h[i] = Body(h, i)
      OBVIOUS
    <3>1. CASE i = 0
      <4>1. 0 \in 0..(k - 1) /\ 0 # k
        OBVIOUS
      <4> QED BY <2>1, <3>1, <4>1
    <3>2. CASE i # 0 /\ i # k
      <4>1. i \in 0..(k - 1) /\ i - 1 \in 0..k /\ i - 1 # k
        BY <3>2
      <4>2. h[i] = g[i] /\ h[i - 1] = g[i - 1]
        BY <3>2, <4>1
      <4>3. g[i] = Body(g, i)
        BY <2>1, <4>1
      <4> QED BY <3>2, <4>2, <4>3
    <3>3. CASE i = k
      <4>1. k - 1 \in 0..k /\ k - 1 # k /\ k # 0
        OBVIOUS
      <4>2. h[k - 1] = g[k - 1] /\ h[k] = Body(g, k)
        BY <4>1
      <4> QED BY <3>3, <4>1, <4>2
    <3> QED BY <3>1, <3>2, <3>3
  <2>3. h = [i \in 0..k |-> Body(h, i)]
    <3>1. h = [i \in 0..k |-> h[i]]
      OBVIOUS
    <3> HIDE DEF h
    <3> QED BY <2>2, <3>1
  <2>4. k \in Nat
    OBVIOUS
  <2> HIDE DEF h
  <2> QED BY <2>3, <2>4
<1>3. n \in Good
  <2> HIDE DEF Good
  <2>1. n \in 0..n
    OBVIOUS
  <2> QED BY <1>1, <1>2, <2>1, UpTo
<1> DEFINE f == CHOOSE g : g = [i \in 0..n |-> Body(g, i)]
<1>4. f = [i \in 0..n |-> Body(f, i)]
  BY <1>3
<1>5. Only(s, S) = f[n]
  BY DEF Only
<1> HIDE DEF f
<1>6. OnlySteps(f, s, S)
  <2>1. 0 \in 0..n /\ \A i \in 1..n : i \in 0..n /\ i # 0
    OBVIOUS
  <2> QED BY <1>4, <2>1 DEF OnlySteps
<1> QED BY <1>5, <1>6

\* What is selected are the elements of the set, and everything when all are.
LEMMA OnlySelects ==
  ASSUME NEW T, NEW s \in Seq(T), NEW S
  PROVE  /\ Only(s, S) \in Seq(T)
         /\ ToSet(Only(s, S)) = ToSet(s) \cap S
         /\ ToSet(s) \subseteq S => Only(s, S) = s
         /\ IsInjective(s) => IsInjective(Only(s, S))
<1> DEFINE n == Len(s)
           Elems(q) == {q[i] : i \in 1..Len(q)}
<1>1. n \in Nat /\ DOMAIN s = 1..n /\ \A i \in 1..n : s[i] \in T
  OBVIOUS
<1>2. PICK f : OnlySteps(f, s, S) /\ Only(s, S) = f[n]
  BY <1>1, OnlyUnfolds
<1> DEFINE Fact(k) == /\ f[k] \in Seq(T)
                      /\ Elems(f[k]) = {s[i] : i \in 1..k} \cap S
                      /\ ToSet(s) \subseteq S => Len(f[k]) = k /\ \A i \in 1..k : f[k][i] = s[i]
                      /\ IsInjective(s) => \A i, j \in 1..Len(f[k]) : f[k][i] = f[k][j] => i = j
           Good == {k \in 0..n : Fact(k)}
<1>3. 0 \in Good
  <2>1. f[0] = <<>> /\ <<>> \in Seq(T) /\ Len(<<>>) = 0 /\ 0 \in 0..n
    BY <1>1, <1>2 DEF OnlySteps
  <2>2. 1..0 = {}
    OBVIOUS
  <2>3. Elems(f[0]) = {s[i] : i \in 1..0} \cap S
    BY <2>1, <2>2
  <2>4. Fact(0)
    BY <2>1, <2>2, <2>3
  <2> QED BY <2>1, <2>4
<1>4. \A k \in 1..n : k - 1 \in Good => k \in Good
  <2> SUFFICES ASSUME NEW k \in 1..n, k - 1 \in Good PROVE k \in Good
    OBVIOUS
  <2> SUFFICES Fact(k)
    <3>1. k \in 0..n
      OBVIOUS
    <3> HIDE DEF Fact
    <3> QED BY <3>1
  <2> DEFINE g == f[k - 1]
  <2>1. /\ g \in Seq(T) /\ Elems(g) = {s[i] : i \in 1..(k - 1)} \cap S
        /\ ToSet(s) \subseteq S => Len(g) = k - 1 /\ \A i \in 1..(k - 1) : g[i] = s[i]
        /\ IsInjective(s) => \A i, j \in 1..Len(g) : g[i] = g[j] => i = j
    OBVIOUS
  <2>2. f[k] = IF s[k] \in S THEN Append(g, s[k]) ELSE g
    BY <1>2 DEF OnlySteps
  <2>3. {s[i] : i \in 1..k} = {s[i] : i \in 1..(k - 1)} \cup {s[k]}
    <3>1. 1..k = 1..(k - 1) \cup {k}
      OBVIOUS
    <3> QED BY <3>1
  <2>4. s[k] \in T /\ s[k] \in ToSet(s)
    BY <1>1 DEF ToSet
  <2> HIDE DEF g
  <2>5. CASE s[k] \in S
    <3> DEFINE h == Append(g, s[k])
    <3>1. /\ h \in Seq(T) /\ Len(h) = Len(g) + 1 /\ Len(g) \in Nat
          /\ \A i \in 1..Len(g) : h[i] = g[i]
          /\ h[Len(g) + 1] = s[k]
      BY <2>1, <2>4
    <3>2. f[k] = h
      BY <2>2, <2>5
    <3> HIDE DEF h
    <3>3. 1..Len(h) = 1..Len(g) \cup {Len(g) + 1}
      BY <3>1
    <3>4. Elems(h) = Elems(g) \cup {s[k]}
      BY <3>1, <3>3
    <3>5. Elems(h) = {s[i] : i \in 1..k} \cap S
      BY <2>1, <2>3, <2>5, <3>4
    <3>6. ToSet(s) \subseteq S => Len(h) = k /\ \A i \in 1..k : h[i] = s[i]
      <4> SUFFICES ASSUME ToSet(s) \subseteq S PROVE Len(h) = k /\ \A i \in 1..k : h[i] = s[i]
        OBVIOUS
      <4>1. Len(g) = k - 1 /\ \A i \in 1..(k - 1) : g[i] = s[i]
        BY <2>1
      <4>2. Len(h) = k /\ h[k] = s[k] /\ \A i \in 1..(k - 1) : h[i] = s[i]
        BY <3>1, <4>1
      <4>3. 1..k = 1..(k - 1) \cup {k}
        OBVIOUS
      <4> QED BY ONLY <4>2, <4>3
    <3>7. IsInjective(s) => \A i, j \in 1..Len(h) : h[i] = h[j] => i = j
      <4> SUFFICES ASSUME IsInjective(s), NEW i \in 1..Len(h), NEW j \in 1..Len(h), h[i] = h[j]
                   PROVE  i = j
        OBVIOUS
      <4>1. s[k] \notin Elems(g)
        <5>1. \A m \in 1..(k - 1) : s[m] # s[k]
          BY <1>1 DEF IsInjective
        <5> QED BY <2>1, <5>1
      <4>2. \A m \in 1..Len(g) : h[m] # s[k]
        BY <3>1, <4>1
      <4>3. CASE i \in 1..Len(g) /\ j \in 1..Len(g)
        BY <2>1, <3>1, <4>3
      <4>4. CASE i = Len(g) + 1 \/ j = Len(g) + 1
        BY <3>1, <3>3, <4>2, <4>4
      <4> QED BY <3>3, <4>3, <4>4
    <3>8. h \in Seq(T)
      BY <3>1
    <3> QED BY ONLY <3>8, <3>2, <3>5, <3>6, <3>7
  <2>6. CASE s[k] \notin S
    <3>1. f[k] = g
      BY <2>2, <2>6
    <3>2. ~(ToSet(s) \subseteq S)
      BY <2>4, <2>6
    <3>3. Elems(g) = {s[i] : i \in 1..k} \cap S
      BY <2>1, <2>3, <2>6
    <3> QED BY <2>1, <3>1, <3>2, <3>3
  <2> QED BY <2>5, <2>6
<1>5. n \in Good
  <2> HIDE DEF Good
  <2>1. n \in 0..n
    BY <1>1
  <2> QED BY <1>1, <1>3, <1>4, <2>1, UpTo
<1>6. Fact(n)
  BY <1>5
<1> DEFINE o == Only(s, S)
<1>7. /\ o \in Seq(T) /\ DOMAIN o = 1..Len(o) /\ Elems(o) = {s[i] : i \in 1..n} \cap S
      /\ ToSet(s) \subseteq S => Len(o) = n /\ \A i \in 1..n : o[i] = s[i]
      /\ IsInjective(s) => \A i, j \in 1..Len(o) : o[i] = o[j] => i = j
  <2>1. o = f[n]
    BY <1>2
  <2> HIDE DEF o
  <2>2. o \in Seq(T)
    BY <1>6, <2>1
  <2> QED BY <1>6, <2>1, <2>2
<1> HIDE DEF o
<1>8. ToSet(o) = ToSet(s) \cap S
  BY <1>1, <1>7 DEF ToSet
<1>9. ToSet(s) \subseteq S => o = s
  BY <1>1, <1>7, SeqEqual
<1>10. IsInjective(s) => IsInjective(o)
  BY <1>7 DEF IsInjective
<1> QED BY <1>7, <1>8, <1>9, <1>10 DEF o

\* The elements of a sequence over a set belong to it.
LEMMA ElementType ==
  ASSUME NEW T, NEW s \in Seq(T), NEW x \in ToSet(s)
  PROVE  x \in T
BY DEF ToSet

\* A sequence without repetitions is as long as its elements are many.
LEMMA DistinctLength ==
  ASSUME NEW T, NEW s \in Seq(T), IsInjective(s)
  PROVE  IsFiniteSet(ToSet(s)) /\ Cardinality(ToSet(s)) = Len(s)
<1>1. Len(s) \in Nat /\ DOMAIN s = 1..Len(s)
  OBVIOUS
<1>2. s \in [1..Len(s) -> ToSet(s)]
  BY <1>1 DEF ToSet
<1>3. \A a, b \in 1..Len(s) : s[a] = s[b] => a = b
  BY <1>1 DEF IsInjective
<1>4. \A t \in ToSet(s) : \E i \in 1..Len(s) : s[i] = t
  BY <1>1 DEF ToSet
<1>5. s \in Bijection(1..Len(s), ToSet(s))
  BY <1>2, <1>3, <1>4, Fun_IsBij
<1>6. ExistsBijection(1..Len(s), ToSet(s))
  BY <1>5, Fun_ExistsBij
<1>7. IsFiniteSet(ToSet(s))
  BY <1>1, <1>6, FS_NatBijection
<1> QED BY <1>1, <1>6, <1>7, FS_CountingElements

\* Of a finite set of numbers as many are among its first m as m says.
LEMMA FirstOnes ==
  ASSUME NEW K, K \subseteq Nat, IsFiniteSet(K), NEW m \in 0..Cardinality(K)
  PROVE  Cardinality({j \in K : Cardinality({k \in K : k <= j}) <= m}) = m
<1> DEFINE n == Cardinality(K)
           Below(j) == {k \in K : k <= j}
           r == [j \in K |-> Cardinality(Below(j))]
           F == {j \in K : Cardinality(Below(j)) <= m}
<1>1. n \in Nat /\ m \in Nat /\ m <= n /\ IsFiniteSet(1..n) /\ Cardinality(1..n) = n
      /\ IsFiniteSet(1..m) /\ Cardinality(1..m) = m
  <2>1. n \in Nat
    BY FS_CardinalityType
  <2>2. m \in Nat /\ m <= n
    BY <2>1
  <2> HIDE DEF n
  <2> QED BY <2>1, <2>2, FS_Interval
<1>2. \A j \in K : IsFiniteSet(Below(j)) /\ Cardinality(Below(j)) \in 1..n
  <2> SUFFICES ASSUME NEW j \in K PROVE IsFiniteSet(Below(j)) /\ Cardinality(Below(j)) \in 1..n
    OBVIOUS
  <2>1. Below(j) \in SUBSET K /\ j \in Below(j)
    OBVIOUS
  <2>2. IsFiniteSet(Below(j)) /\ Cardinality(Below(j)) <= n
    BY <2>1, FS_Subset
  <2>3. Cardinality(Below(j)) \in Nat /\ Cardinality(Below(j)) # 0
    BY <2>1, <2>2, FS_CardinalityType, FS_EmptySet
  <2> QED BY <1>1, <2>2, <2>3
<1>3. \A i, j \in K : i < j => Cardinality(Below(i)) # Cardinality(Below(j))
  <2> SUFFICES ASSUME NEW i \in K, NEW j \in K, i < j
               PROVE  Cardinality(Below(i)) # Cardinality(Below(j))
    OBVIOUS
  <2>1. Below(i) \in SUBSET Below(j)
    <3>1. \A k \in K : k <= i => k <= j
      OBVIOUS
    <3> QED BY <3>1
  <2>2. j \in Below(j) /\ j \notin Below(i)
    OBVIOUS
  <2> QED BY <1>2, <2>1, <2>2, FS_Subset
<1>4. r \in [K -> 1..n]
  BY <1>2
<1>5. \A i, j \in K : r[i] = r[j] => i = j
  <2> SUFFICES ASSUME NEW i \in K, NEW j \in K, i # j PROVE r[i] # r[j]
    OBVIOUS
  <2>1. i < j \/ j < i
    OBVIOUS
  <2> QED BY <1>3, <2>1
<1> HIDE DEF r
<1>6. r \in Injection(K, 1..n)
  BY <1>4, <1>5, Fun_IsInj
<1>7. r \in Surjection(K, 1..n)
  BY <1>1, <1>6, FS_Injection
<1>8. \A t \in 1..n : \E j \in K : r[j] = t
  BY <1>7, Fun_SurjectionProperties
<1> DEFINE g == [j \in F |-> r[j]]
<1>9. \A j \in F : j \in K /\ r[j] \in 1..m
  BY <1>1, <1>2 DEF r
<1>10. \A t \in 1..m : \E j \in F : r[j] = t
  <2> SUFFICES ASSUME NEW t \in 1..m PROVE \E j \in F : r[j] = t
    OBVIOUS
  <2>1. PICK j \in K : r[j] = t
    BY <1>1, <1>8
  <2>2. Cardinality(Below(j)) <= m
    BY <2>1 DEF r
  <2> QED BY <2>1, <2>2
<1> HIDE DEF F
<1>11. g \in [F -> 1..m] /\ (\A a, b \in F : g[a] = g[b] => a = b)
       /\ \A t \in 1..m : \E j \in F : g[j] = t
  BY <1>5, <1>9, <1>10
<1> HIDE DEF g
<1>12. g \in Bijection(F, 1..m)
  BY <1>11, Fun_IsBij
<1>13. F \in SUBSET K
  BY DEF F
<1>14. IsFiniteSet(F) /\ ExistsBijection(F, 1..m)
  BY <1>12, <1>13, FS_Subset, Fun_ExistsBij
<1>15. Cardinality(1..m) = Cardinality(F)
  BY <1>14, FS_Bijection
<1> QED BY <1>1, <1>15 DEF F

-----------------------------------------------------------------------------
(***************************************************************************)
(* The event log                                                           *)
(***************************************************************************)
\* Dropping d from the front of the end of a sequence gives a shorter end.
LEMMA ShorterEnd ==
  ASSUME NEW S, NEW q \in Seq(S), NEW b \in 0..Len(q), NEW r, r = SubSeq(q, b + 1, Len(q)),
         NEW d \in 0..(Len(q) - b)
  PROVE  /\ r \in Seq(S) /\ Len(r) = Len(q) - b
         /\ SubSeq(r, d + 1, Len(r)) = SubSeq(q, b + d + 1, Len(q))
<1> DEFINE x == SubSeq(r, d + 1, Len(r))
           y == SubSeq(q, b + d + 1, Len(q))
<1>1. Len(q) \in Nat
  OBVIOUS
<1>2. /\ r \in Seq(S) /\ Len(r) = Len(q) - b
      /\ \A i \in 1..(Len(q) - b) : r[i] = q[b + i]
  BY <1>1
<1>3. /\ x \in Seq(S) /\ Len(x) = Len(q) - b - d
      /\ \A i \in 1..(Len(q) - b - d) : x[i] = q[b + d + i]
  BY <1>1, <1>2
<1>4. /\ y \in Seq(S) /\ Len(y) = Len(q) - b - d
      /\ \A i \in 1..(Len(q) - b - d) : y[i] = q[b + d + i]
  BY <1>1
<1> HIDE DEF x, y
<1>5. x = y
  BY <1>3, <1>4, SeqEqual
<1> QED BY <1>2, <1>5 DEF x, y

\* What is added to a sequence is added to its end.
LEMMA LongerEnd ==
  ASSUME NEW S, NEW q \in Seq(S), NEW b \in 0..Len(q), NEW e \in S
  PROVE  Append(SubSeq(q, b + 1, Len(q)), e) = SubSeq(Append(q, e), b + 1, Len(Append(q, e)))
<1> DEFINE x == Append(SubSeq(q, b + 1, Len(q)), e)
           y == SubSeq(Append(q, e), b + 1, Len(Append(q, e)))
<1>1. Len(q) \in Nat /\ Append(q, e) \in Seq(S) /\ Len(Append(q, e)) = Len(q) + 1
      /\ \A i \in 1..Len(q) : Append(q, e)[i] = q[i]
      /\ Append(q, e)[Len(q) + 1] = e
  OBVIOUS
<1>2. /\ x \in Seq(S) /\ Len(x) = Len(q) + 1 - b
      /\ \A i \in 1..(Len(q) - b) : x[i] = q[b + i]
      /\ x[Len(q) + 1 - b] = e
  BY <1>1
<1>3. /\ y \in Seq(S) /\ Len(y) = Len(q) + 1 - b
      /\ \A i \in 1..(Len(q) + 1 - b) : y[i] = Append(q, e)[b + i]
  BY <1>1
<1> HIDE DEF x, y
<1>4. \A i \in 1..(Len(q) + 1 - b) : x[i] = y[i]
  <2> SUFFICES ASSUME NEW i \in 1..(Len(q) + 1 - b) PROVE x[i] = y[i]
    OBVIOUS
  <2>1. CASE i = Len(q) + 1 - b
    BY <1>1, <1>2, <1>3, <2>1
  <2>2. CASE i # Len(q) + 1 - b
    <3>1. i \in 1..(Len(q) - b) /\ b + i \in 1..Len(q)
      BY <1>1, <2>2
    <3>2. x[i] = q[b + i] /\ y[i] = Append(q, e)[b + i] /\ Append(q, e)[b + i] = q[b + i]
      BY <1>1, <1>2, <1>3, <3>1
    <3> QED BY <3>2
  <2> QED BY <2>1, <2>2
<1> QED BY <1>2, <1>3, <1>4, SeqEqual DEF x, y

\* log_event: the ring stays the end of the history, and drops what the history forgets.
LEMMA LogKeepsRing ==
  ASSUME Ring, NEW e \in Events, LogEvent(e)
  PROVE  Ring' /\ History!Log(e)
<1> DEFINE n == Len(logged')
           grown == Append(event_log, e)
           over == Len(grown) - MaxEvents
<1>1. n \in Nat /\ n = Len(logged) + 1 /\ MaxEvents \in Nat \ {0} /\ event_log_base \in 0..(n - 1)
      /\ logged' = Append(logged, e) /\ logged' \in Seq(Events)
  BY LimitsAreNat DEF Ring, LogEvent
<1>2. grown = SubSeq(logged', event_log_base + 1, n)
  BY <1>1, LongerEnd DEF Ring
<1>3. event_log_base \in 0..n
  BY <1>1
<1> HIDE DEF n, grown
<1>4. grown \in Seq(Events) /\ Len(grown) = n - event_log_base
      /\ \A d \in 0..(n - event_log_base) :
           SubSeq(grown, d + 1, Len(grown)) = SubSeq(logged', event_log_base + d + 1, n)
  <2>1. 0 \in 0..(n - event_log_base)
    BY <1>1, <1>3
  <2> QED BY <1>1, <1>2, <1>3, <2>1, ShorterEnd, SMTT(60) DEF n
<1>5. over = n - event_log_base - MaxEvents /\ over \in Int /\ over <= 1
  BY <1>1, <1>4 DEF Ring
<1>6. CASE over > 0
  <2>1. event_log' = SubSeq(grown, over + 1, Len(grown)) /\ event_log_base' = event_log_base + over
    BY <1>6 DEF LogEvent, grown
  <2>2. over \in 0..(n - event_log_base)
    BY <1>1, <1>5, <1>6
  <2>3. event_log' = SubSeq(logged', event_log_base' + 1, n)
    BY <1>4, <2>1, <2>2
  <2>4. event_log_base' \in 0..n /\ n - event_log_base' <= MaxEvents
    BY <1>1, <1>5, <2>1, <2>2
  <2>5. Ring'
    BY <1>1, <2>3, <2>4 DEF Ring, n
  <2>6. event_log_base' = History!Later(event_log_base, n - MaxEvents)
    BY <1>1, <1>5, <1>6, <2>1 DEF History!Later
  <2> QED BY <1>1, <2>5, <2>6 DEF History!Log, n
<1>7. CASE ~(over > 0)
  <2>1. event_log' = grown /\ event_log_base' = event_log_base
    BY <1>7 DEF LogEvent, grown
  <2>2. Ring'
    <3>1. event_log_base' \in 0..n /\ n - event_log_base' <= MaxEvents
      BY <1>1, <1>3, <1>5, <1>7, <2>1
    <3> QED BY <1>1, <1>2, <2>1, <3>1 DEF Ring, n
  <2>3. event_log_base' = History!Later(event_log_base, n - MaxEvents)
    BY <1>1, <1>5, <1>7, <2>1 DEF History!Later
  <2> QED BY <1>1, <2>2, <2>3 DEF History!Log, n
<1> QED BY <1>6, <1>7

-----------------------------------------------------------------------------
(***************************************************************************)
(* The sessions                                                            *)
(***************************************************************************)
\* A source is always one of the four.
LEMMA ResolveType == \A p, t, admin, eph : resolve(p, t, admin, eph).source \in Sources
BY DEF resolve, Sources

\* What a session is that was just built.
LEMMA BuildTypes ==
  ASSUME Typed, NEW s \in Sessions, NEW a \in Activities, NEW comp \in DOMAIN Compositions,
         NEW k \in Nat, BuildSession(s, a, comp, k)
  PROVE  /\ LiveTyped'
         /\ live'[s].attempt = k /\ live'[s].emitted = 0 /\ live'[s].task = "running"
         /\ \A x \in Sessions : x # s => live'[x] = live[x]
<1> DEFINE source == resolve(Compositions[comp].s2s, TenantOfActivity[a], admin_store, ephemeral).source
           built == [NotBuilt EXCEPT !.task = "running", !.activity = a, !.composition = comp,
                                     !.source = source, !.attempt = k]
<1>1. live' = [live EXCEPT ![s] = built]
  BY DEF BuildSession
<1>2. source \in Sources
  BY ResolveType
<1> HIDE DEF source
<1>3. <<>> \in Seq(Events)
  OBVIOUS
<1>4. built \in LiveSessions /\ built.attempt = k /\ built.emitted = 0 /\ built.task = "running"
  BY <1>2, <1>3 DEF LiveSessions, NotBuilt
<1> HIDE DEF built
<1> QED BY <1>1, <1>4 DEF Typed, LiveTyped

\* The composition a session runs on exists.
LEMMA CompositionType ==
  ASSUME NEW a \in Activities, NEW asked \in DOMAIN Compositions \cup {Absent, "pinned"}
  PROVE  composition_for(a, asked) \in DOMAIN Compositions
BY StoreIsGiven DEF composition_for

\* The sink of a session: its event is one of the history's.
LEMMA LogsTypes ==
  ASSUME Typed, Ring, NEW s \in Sessions, SessionLogs(s)
  PROVE  Typed' /\ Ring' /\ (\E e \in Events : History!Log(e))
         /\ \A x \in Sessions : live'[x].attempt = live[x].attempt
<1> DEFINE e == [session |-> s, tenant |-> TenantOfActivity[live[s].activity], seq |-> live[s].emitted + 1]
           grown == Append(live[s].events, e)
           over == Len(grown) - MaxSessionEvents
           kept == IF over > 0 THEN SubSeq(grown, over + 1, Len(grown)) ELSE grown
<1>1. /\ live[s] \in LiveSessions /\ live[s].emitted \in Nat /\ live[s].events \in Seq(Events)
      /\ live[s].activity \in Activities
      /\ live[s].task = "running"
      /\ ops < MaxOps /\ ops' = ops + 1 /\ live[s].emitted \in 0..ops /\ ops \in Nat /\ MaxOps \in Nat
  <2>1. live[s] \in LiveSessions
    BY DEF Typed, LiveTyped
  <2>2. live[s].emitted \in Nat /\ live[s].events \in Seq(Events) /\ live[s].activity \in Activities
    BY <2>1 DEF LiveSessions
  <2>3. live[s].task = "running" /\ ops < MaxOps /\ ops' = ops + 1
    BY DEF SessionLogs, Operation, Running
  <2>4. live[s].emitted \in 0..ops /\ ops \in Nat /\ MaxOps \in Nat
    <3>1. ops \in 0..MaxOps /\ live[s].emitted \in 0..ops
      BY DEF Typed, LiveTyped
    <3> QED BY <3>1, LimitsAreNat
  <2> QED BY <2>1, <2>2, <2>3, <2>4
<1>2. e \in Events
  <2>1. live[s].emitted + 1 \in 1..MaxOps
    BY <1>1
  <2>2. TenantOfActivity[live[s].activity] \in Tenants
    BY <1>1, StoreIsGiven
  <2> QED BY <2>1, <2>2 DEF Events
<1>3. live' = [live EXCEPT ![s].emitted = @ + 1, ![s].events = kept] /\ LogEvent(e)
      /\ UNCHANGED <<contacts, attempts>>
  BY DEF SessionLogs, outbound
<1> HIDE DEF e
<1>4. grown \in Seq(Events) /\ Len(grown) \in Nat
  BY <1>1, <1>2
<1> HIDE DEF grown
<1>5. kept \in Seq(Events)
  <2>1. CASE over > 0
    <3>1. over + 1 \in Nat /\ over + 1 >= 1
      BY <1>4, <2>1, LimitsAreNat
    <3> QED BY <1>4, <2>1, <3>1, LimitsAreNat, SubSeqProperties
  <2>2. CASE ~(over > 0)
    BY <1>4, <2>2
  <2> QED BY <2>1, <2>2
<1> HIDE DEF kept
<1> DEFINE r == live[s]
           m == live[s].emitted + 1
<1>6. live' = [live EXCEPT ![s] = [r EXCEPT !.emitted = m, !.events = kept]]
  BY <1>3
<1>13. r \in LiveSessions /\ m \in Nat /\ r = live[s] /\ m = live[s].emitted + 1
  BY <1>1
<1> HIDE DEF r, m
<1>7. /\ [r EXCEPT !.emitted = m, !.events = kept] \in LiveSessions
      /\ [r EXCEPT !.emitted = m, !.events = kept].attempt = r.attempt
      /\ [r EXCEPT !.emitted = m, !.events = kept].emitted = m
      /\ [r EXCEPT !.emitted = m, !.events = kept].task = r.task
  BY <1>5, <1>13 DEF LiveSessions
<1>11. LiveTyped'
  BY <1>6, <1>7 DEF Typed, LiveTyped
<1>12. \A x \in Sessions :
         /\ live'[x].attempt = live[x].attempt /\ live'[x].emitted \in 0..ops'
         /\ live'[x].task = "not built" => live[x].task = "not built"
  <2>1. \A x \in Sessions : x # s => live'[x] = live[x]
    BY <1>6 DEF Typed, LiveTyped
  <2>2. live'[s].attempt = live[s].attempt /\ live'[s].emitted = live[s].emitted + 1
                   /\ live'[s].task = "running"
    BY <1>1, <1>6, <1>7, <1>13 DEF Typed, LiveTyped
  <2>3. \A x \in Sessions : live[x].emitted \in Nat
    BY DEF Typed, LiveTyped, LiveSessions
  <2>4. \A x \in Sessions : live[x].emitted \in 0..ops
    BY DEF Typed, LiveTyped
  <2>5. live'[s].emitted \in 0..ops' /\ \A x \in Sessions : live[x].emitted \in 0..ops'
    BY <1>1, <2>2, <2>3, <2>4
  <2> QED BY <2>1, <2>2, <2>5
<1>8. ops' \in 0..MaxOps
  BY <1>1, LimitsAreNat
<1>9. Typed'
  <2>1. Unstarted'
    BY <1>12 DEF Typed, Unstarted
  <2>2. \A x \in Sessions : live'[x].attempt = live[x].attempt /\ live'[x].emitted \in 0..ops'
    BY <1>12
  <2> QED BY <1>3, <1>8, <1>11, <2>1, <2>2 DEF Typed
<1>10. Ring' /\ History!Log(e)
  BY <1>2, <1>3, LogKeepsRing
<1> QED BY <1>2, <1>9, <1>10, <1>12

-----------------------------------------------------------------------------
(***************************************************************************)
(* The attempts                                                            *)
(***************************************************************************)
\* The calls counted so far stay, and the last attempt is counted when it is a call.
LEMMA CountGrows ==
  ASSUME NEW att \in Seq(OutboundAttempts), NEW r \in OutboundAttempts, NEW c
  PROVE  /\ \A n \in 0..Len(att) : Called(Append(att, r), c, n) = Called(att, c, n)
         /\ Cardinality(Called(att, c, Len(att))) \in Nat
         /\ Cardinality(Called(Append(att, r), c, Len(att) + 1))
              = Cardinality(Called(att, c, Len(att)))
                  + (IF r.contact = c /\ r.call # Absent THEN 1 ELSE 0)
<1> DEFINE n == Len(att)
           longer == Append(att, r)
<1>1. /\ n \in Nat /\ \A j \in 1..n : longer[j] = att[j]
      /\ longer[n + 1] = r
  OBVIOUS
<1>2. \A m \in 0..n : Called(longer, c, m) = Called(att, c, m)
  BY <1>1 DEF Called
<1>3. IsFiniteSet(Called(att, c, n)) /\ Cardinality(Called(att, c, n)) \in Nat
  <2>1. IsFiniteSet(1..n)
    BY <1>1, FS_Interval
  <2>2. Called(att, c, n) \in SUBSET (1..n)
    BY DEF Called
  <2> QED BY <2>1, <2>2, FS_Subset, FS_CardinalityType
<1>4. n + 1 \notin Called(att, c, n)
  BY <1>1 DEF Called
<1> HIDE DEF longer, n
<1>5. 1..(n + 1) = 1..n \cup {n + 1}
  BY <1>1
<1>6. CASE r.contact = c /\ r.call # Absent
  <2>1. Called(longer, c, n + 1) = Called(att, c, n) \cup {n + 1}
    BY <1>1, <1>5, <1>6 DEF Called
  <2>2. Cardinality(Called(longer, c, n + 1)) = Cardinality(Called(att, c, n)) + 1
    BY <1>3, <1>4, <2>1, FS_AddElement
  <2> QED BY <1>2, <1>3, <1>6, <2>2 DEF longer, n
<1>7. CASE ~(r.contact = c /\ r.call # Absent)
  <2>1. Called(longer, c, n + 1) = Called(att, c, n)
    BY <1>1, <1>5, <1>7 DEF Called
  <2> QED BY <1>2, <1>3, <1>7, <2>1 DEF longer, n
<1> QED BY <1>6, <1>7

\* A dial is recorded: the call counts for its contact, and it was below the limit.
LEMMA AttemptRecorded ==
  ASSUME Typed, AttemptLimitHolds, AttemptsAccount,
         NEW r \in OutboundAttempts, attempts' = Append(attempts, r),
         r.refusals = {} <=> r.call # Absent,
         r.call # Absent => contacts[r.contact].attempts < OutboundHooks[r.activity].attempt_limit,
         \A c \in ContactRefs :
           contacts'[c].attempts
             = contacts[c].attempts + (IF r.contact = c /\ r.call # Absent THEN 1 ELSE 0),
         r.session # NoSession <=> r.call = "answered",
         \A s \in Sessions : s # r.session => live'[s].attempt = live[s].attempt,
         r.session # NoSession =>
           live[r.session].attempt = NoAttempt /\ live'[r.session].attempt = Len(attempts) + 1
  PROVE  AttemptLimitHolds' /\ AttemptsAccount'
<1> DEFINE n == Len(attempts)
<1>1. /\ attempts \in Seq(OutboundAttempts) /\ n \in Nat /\ DOMAIN attempts = 1..n
      /\ DOMAIN attempts' = 1..(n + 1) /\ Len(attempts') = n + 1
      /\ \A i \in 1..n : attempts'[i] = attempts[i]
      /\ attempts'[n + 1] = r
  <2>1. attempts \in Seq(OutboundAttempts)
    BY DEF Typed, LiveTyped
  <2> QED BY <2>1
<1>2. \A i \in 1..(n + 1) : i \in 1..n \/ i = n + 1
  BY <1>1
<1>3. \A c \in ContactRefs :
        /\ \A m \in 0..n : Called(attempts', c, m) = Called(attempts, c, m)
        /\ Cardinality(Called(attempts', c, n + 1))
             = Cardinality(Called(attempts, c, n)) + (IF r.contact = c /\ r.call # Absent THEN 1 ELSE 0)
  <2> SUFFICES ASSUME NEW c \in ContactRefs
               PROVE  /\ \A m \in 0..n : Called(attempts', c, m) = Called(attempts, c, m)
                      /\ Cardinality(Called(attempts', c, n + 1))
                           = Cardinality(Called(attempts, c, n))
                               + (IF r.contact = c /\ r.call # Absent THEN 1 ELSE 0)
    OBVIOUS
  <2>1. /\ \A m \in 0..Len(attempts) : Called(Append(attempts, r), c, m) = Called(attempts, c, m)
        /\ Cardinality(Called(Append(attempts, r), c, Len(attempts) + 1))
             = Cardinality(Called(attempts, c, Len(attempts)))
                 + (IF r.contact = c /\ r.call # Absent THEN 1 ELSE 0)
    <3>1. attempts \in Seq(OutboundAttempts) /\ r \in OutboundAttempts
      BY <1>1
    <3> QED BY ONLY <3>1, CountGrows, Zenon
  <2> QED BY <2>1
<1>4. \A c \in ContactRefs : contacts[c].attempts = Cardinality(Called(attempts, c, n))
  BY <1>1 DEF AttemptsAccount, Called
<1>5. \A i \in 1..n : attempts[i].contact \in ContactRefs /\ attempts[i].session \in Sessions \cup {NoSession}
  <2>1. \A i \in 1..n : attempts[i] \in OutboundAttempts
    BY <1>1
  <2> QED BY <2>1 DEF OutboundAttempts
<1>6. r.contact \in ContactRefs /\ r.session \in Sessions \cup {NoSession}
  BY DEF OutboundAttempts
<1> HIDE DEF n
<1>7. AttemptLimitHolds'
  <2> SUFFICES ASSUME NEW i \in 1..(n + 1), attempts'[i].call # Absent
               PROVE  Cardinality(Called(attempts', attempts'[i].contact, i - 1))
                        < OutboundHooks[attempts'[i].activity].attempt_limit
    BY <1>1 DEF AttemptLimitHolds, Called
  <2>1. CASE i \in 1..n
    <3>1. i - 1 \in 0..n
      BY <1>1, <2>1
    <3>2. Called(attempts', attempts'[i].contact, i - 1) = Called(attempts, attempts[i].contact, i - 1)
      BY <1>1, <1>3, <1>5, <2>1, <3>1
    <3> QED BY <1>1, <2>1, <3>2 DEF AttemptLimitHolds, Called
  <2>2. CASE i = n + 1
    <3>1. i - 1 = n /\ n \in 0..n
      BY <1>1, <2>2
    <3>2. Called(attempts', r.contact, n) = Called(attempts, r.contact, n)
      BY <1>3, <1>6, <3>1
    <3> QED BY <1>1, <1>4, <1>6, <2>2, <3>1, <3>2
  <2> QED BY <1>2, <2>1, <2>2
<1>8. \A i \in 1..(n + 1) :
        /\ attempts'[i].refusals = {} <=> attempts'[i].call # Absent
        /\ attempts'[i].session # NoSession <=> attempts'[i].call = "answered"
        /\ attempts'[i].session # NoSession => live'[attempts'[i].session].attempt = i
  <2> SUFFICES ASSUME NEW i \in 1..(n + 1)
               PROVE  /\ attempts'[i].refusals = {} <=> attempts'[i].call # Absent
                      /\ attempts'[i].session # NoSession <=> attempts'[i].call = "answered"
                      /\ attempts'[i].session # NoSession => live'[attempts'[i].session].attempt = i
    OBVIOUS
  <2>1. CASE i \in 1..n
    <3>1. attempts[i].session # NoSession => attempts[i].session # r.session
      BY <1>1, <2>1 DEF AttemptsAccount, NoAttempt
    <3> QED BY <1>1, <1>5, <2>1, <3>1 DEF AttemptsAccount
  <2>2. CASE i = n + 1
    BY <1>1, <2>2 DEF n
  <2> QED BY <1>2, <2>1, <2>2
<1>9. \A s \in Sessions : live'[s].attempt # NoAttempt => attempts'[live'[s].attempt].session = s
  <2> SUFFICES ASSUME NEW s \in Sessions, live'[s].attempt # NoAttempt
               PROVE  attempts'[live'[s].attempt].session = s
    OBVIOUS
  <2>1. CASE s = r.session
    BY <1>1, <2>1, NoSessionIsNone DEF n
  <2>2. CASE s # r.session
    <3>1. live'[s].attempt = live[s].attempt /\ attempts[live[s].attempt].session = s
      BY <2>2 DEF AttemptsAccount
    <3>2. live[s].attempt \in 0..n /\ live[s].attempt # 0
      BY <3>1 DEF Typed, LiveTyped, NoAttempt, n
    <3> QED BY <1>1, <3>1, <3>2
  <2> QED BY <2>1, <2>2
<1>10. \A c \in ContactRefs : contacts'[c].attempts = Cardinality(Called(attempts', c, n + 1))
  BY <1>3, <1>4
<1> QED BY <1>1, <1>7, <1>8, <1>9, <1>10 DEF AttemptsAccount, Called

-----------------------------------------------------------------------------
(***************************************************************************)
(* The steps                                                               *)
(***************************************************************************)
\* The store the process starts with.
LEMMA InitHolds == Init => IInv
<1> SUFFICES ASSUME Init PROVE IInv
  OBVIOUS
<1> USE DEF Init
<1>1. <<>> \in Seq(Events) /\ <<>> \in Seq(OutboundAttempts) /\ Len(<<>>) = 0
  OBVIOUS
<1>2. NotBuilt \in LiveSessions /\ NotBuilt.emitted = 0 /\ NotBuilt.attempt = NoAttempt
  BY <1>1, StoreIsGiven DEF LiveSessions, NotBuilt, Sources, NoAttempt
<1>3. Unknown \in ContactStates /\ Unknown.attempts = 0
  BY DEF Unknown, ContactStates
<1>4. Typed
  <2>1. LiveTyped /\ contacts \in [ContactRefs -> ContactStates]
    BY <1>2, <1>3 DEF LiveTyped
  <2>2. ops \in 0..MaxOps /\ \A s \in Sessions : live[s].emitted \in 0..ops
    BY <1>2, LimitsAreNat
  <2>3. attempts \in Seq(OutboundAttempts) /\ \A s \in Sessions : live[s].attempt \in 0..Len(attempts)
    BY <1>1, <1>2 DEF NoAttempt
  <2>4. Unstarted
    BY <1>2 DEF Unstarted
  <2> QED BY <2>1, <2>2, <2>3, <2>4 DEF Typed
<1>5. Ring
  <2>1. SubSeq(<<>>, 0 + 1, Len(<<>>)) = <<>>
    BY <1>1, SubSeqEmpty
  <2> QED BY <1>1, <2>1, LimitsAreNat DEF Ring
<1>6. AttemptLimitHolds
  BY <1>1 DEF AttemptLimitHolds
<1>7. AttemptsAccount
  <2>1. \A c \in ContactRefs :
          {i \in DOMAIN attempts : attempts[i].contact = c /\ attempts[i].call # Absent} = {}
    BY <1>1
  <2> QED BY <1>1, <1>2, <1>3, <2>1, FS_EmptySet DEF AttemptsAccount
<1> QED BY <1>4, <1>5, <1>6, <1>7 DEF IInv

\* A step that leaves the attempts and what they are of leaves the account of them.
LEMMA AccountStays ==
  ASSUME AttemptLimitHolds, AttemptsAccount, UNCHANGED attempts,
         \A s \in Sessions : live'[s].attempt = live[s].attempt,
         \A c \in ContactRefs : contacts'[c].attempts = contacts[c].attempts,
         attempts \in Seq(OutboundAttempts)
  PROVE  AttemptLimitHolds' /\ AttemptsAccount'
<1>1. AttemptLimitHolds'
  BY DEF AttemptLimitHolds
<1>2. \A i \in DOMAIN attempts : attempts[i].session \in Sessions \cup {NoSession}
  <2>1. \A i \in DOMAIN attempts : attempts[i] \in OutboundAttempts
    OBVIOUS
  <2> QED BY <2>1 DEF OutboundAttempts
<1>3. AttemptsAccount'
  BY <1>2 DEF AttemptsAccount
<1> QED BY <1>1, <1>3

\* An operation is counted.
LEMMA OperationCounts ==
  ASSUME Typed, Operation
  PROVE  ops \in Nat /\ ops' = ops + 1 /\ ops' \in 0..MaxOps /\ ops' >= ops
<1>1. ops \in 0..MaxOps
  BY DEF Typed, LiveTyped
<1> QED BY <1>1, LimitsAreNat DEF Operation

\* A session logs nothing, and stands against the attempt it stood against or against this one.
Stand(n) ==
  \A s \in Sessions :
    live'[s].emitted \in 0..ops /\ live'[s].attempt \in {live[s].attempt, n}

\* Typed is about these variables only.
LEMMA TypedStays ==
  ASSUME Typed, LiveTyped', contacts' \in [ContactRefs -> ContactStates],
         UNCHANGED attempts, Operation, Stand(NoAttempt), Unstarted'
  PROVE  Typed'
<1>1. attempts' \in Seq(OutboundAttempts) /\ Len(attempts) \in Nat
  <2>1. attempts \in Seq(OutboundAttempts)
    BY DEF Typed, LiveTyped
  <2> QED BY <2>1
<1>2. \A s \in Sessions : live'[s].emitted \in 0..ops'
  BY OperationCounts DEF Stand
<1>3. \A s \in Sessions : live'[s].attempt \in 0..Len(attempts')
  <2>1. \A s \in Sessions : live[s].attempt \in 0..Len(attempts)
    BY DEF Typed, LiveTyped
  <2> QED BY <1>1, <2>1 DEF NoAttempt, Stand
<1>4. ops' \in 0..MaxOps
  BY OperationCounts
<1> QED BY <1>1, <1>2, <1>3, <1>4 DEF Typed

\* A session that goes on or ends is the same session.
LEMMA GoesOnKeeps ==
  ASSUME IInv, NEW s \in Sessions, SessionCloses(s) \/ TaskEnds(s)
  PROVE  IInv' /\ UNCHANGED <<logged, event_log_base>>
<1>1. Typed /\ Operation /\ Running(s) /\ UNCHANGED <<log, outbound>>
  BY DEF IInv, SessionCloses, TaskEnds
<1>2. PICK f \in {"record", "task"} :
        live' = [live EXCEPT ![s] = IF f = "record" THEN [live[s] EXCEPT !.record = TRUE]
                                    ELSE [live[s] EXCEPT !.task = "done"]]
  BY DEF SessionCloses, TaskEnds
<1>3. live[s] \in LiveSessions /\ LiveTyped
  BY <1>1 DEF Typed, LiveTyped
<1> DEFINE r == live[s]
           q == IF f = "record" THEN [r EXCEPT !.record = TRUE] ELSE [r EXCEPT !.task = "done"]
<1>4. r.task = "running"
  BY <1>1 DEF Running
<1>5. r \in LiveSessions /\ live' = [live EXCEPT ![s] = q]
  BY <1>2, <1>3
<1> HIDE DEF r
<1>6. q \in LiveSessions /\ q.attempt = r.attempt /\ q.emitted = r.emitted /\ q.task # "not built"
  BY <1>4, <1>5 DEF LiveSessions
<1> HIDE DEF q
<1>7. LiveTyped'
  BY <1>3, <1>5, <1>6 DEF LiveTyped
<1>8. \A x \in Sessions :
        /\ live'[x].attempt = live[x].attempt /\ live'[x].emitted = live[x].emitted
        /\ live'[x].task = "not built" => live[x].task = "not built"
  BY <1>3, <1>4, <1>5, <1>6 DEF r, LiveTyped
<1>9. Typed'
  <2>1. contacts' \in [ContactRefs -> ContactStates] /\ UNCHANGED attempts
    BY <1>1 DEF Typed, outbound
  <2>2. Stand(NoAttempt)
    BY <1>1, <1>8 DEF Typed, Stand
  <2>3. Unstarted'
    BY <1>1, <1>8 DEF Typed, Unstarted
  <2> QED BY <1>1, <1>7, <2>1, <2>2, <2>3, TypedStays
<1>10. AttemptLimitHolds' /\ AttemptsAccount'
  BY <1>1, <1>8, AccountStays DEF IInv, Typed, LiveTyped, outbound
<1>11. Ring' /\ UNCHANGED <<logged, event_log_base>>
  BY <1>1 DEF IInv, Ring, log
<1> QED BY <1>9, <1>10, <1>11 DEF IInv

\* What is learnt of a contact is never the number of its attempts.
LEMMA PutKeeps ==
  ASSUME IInv, TellAboutContact
  PROVE  IInv' /\ UNCHANGED <<logged, event_log_base>>
<1>1. PICK c \in ContactRefs :
        \/ \E consent \in {"yes", "no"} : ContactPut(c, "consent", consent)
        \/ \E field \in {"opted_out", "suppressed"}, b \in BOOLEAN : ContactPut(c, field, b)
        \/ \E tags \in SUBSET Lists : ContactPut(c, "tags", tags)
  BY DEF TellAboutContact
<1>2. Typed /\ Operation /\ UNCHANGED <<registry, log, attempts>>
  BY <1>1 DEF IInv, ContactPut
<1>3. contacts \in [ContactRefs -> ContactStates] /\ contacts[c] \in ContactStates
  BY <1>2 DEF Typed, LiveTyped
<1> DEFINE OnlyTold == /\ contacts' \in [ContactRefs -> ContactStates]
                       /\ \A x \in ContactRefs : contacts'[x].attempts = contacts[x].attempts
<1>4. OnlyTold
  <2>1. ASSUME NEW v \in {"yes", "no"}, ContactPut(c, "consent", v) PROVE OnlyTold
    BY <1>3, <2>1 DEF ContactPut, ContactStates
  <2>2. ASSUME NEW b \in BOOLEAN, ContactPut(c, "opted_out", b) PROVE OnlyTold
    BY <1>3, <2>2 DEF ContactPut, ContactStates
  <2>3. ASSUME NEW b \in BOOLEAN, ContactPut(c, "suppressed", b) PROVE OnlyTold
    BY <1>3, <2>3 DEF ContactPut, ContactStates
  <2>4. ASSUME NEW v \in SUBSET Lists, ContactPut(c, "tags", v) PROVE OnlyTold
    BY <1>3, <2>4 DEF ContactPut, ContactStates
  <2> QED BY <1>1, <2>1, <2>2, <2>3, <2>4
<1>5. Typed'
  <2>1. UNCHANGED live /\ UNCHANGED attempts /\ LiveTyped'
    BY <1>2 DEF Typed, LiveTyped, registry
  <2>2. Stand(NoAttempt)
    BY <1>2, <2>1 DEF Typed, Stand
  <2>3. Unstarted'
    BY <1>2, <2>1 DEF Typed, Unstarted
  <2> QED BY <1>2, <1>4, <2>1, <2>2, <2>3, TypedStays
<1>6. AttemptLimitHolds' /\ AttemptsAccount'
  BY <1>2, <1>4, AccountStays DEF IInv, Typed, LiveTyped, registry
<1>7. Ring' /\ UNCHANGED <<logged, event_log_base>>
  BY <1>2 DEF IInv, Ring, log
<1> QED BY <1>5, <1>6, <1>7 DEF IInv

\* A session that is built for nobody's call.
LEMMA OpenKeeps ==
  ASSUME IInv, OpenSession
  PROVE  IInv' /\ UNCHANGED <<logged, event_log_base>>
<1>1. PICK s \in Fresh, a \in Activities, asked \in DOMAIN Compositions \cup {Absent, "pinned"} :
        WsSession(s, a, asked)
  BY DEF OpenSession
<1>2. Typed /\ Operation /\ UNCHANGED <<log, outbound>>
      /\ BuildSession(s, a, composition_for(a, asked), NoAttempt)
  BY <1>1 DEF IInv, WsSession
<1>3. s \in Sessions /\ live[s].attempt = NoAttempt /\ NoAttempt \in Nat
  BY <1>2 DEF Fresh, Typed, Unstarted, NoAttempt
<1>4. /\ LiveTyped'
      /\ live'[s].attempt = NoAttempt /\ live'[s].emitted = 0 /\ live'[s].task = "running"
      /\ \A x \in Sessions : x # s => live'[x] = live[x]
  BY <1>2, <1>3, CompositionType, BuildTypes
<1>5. Typed'
  <2>1. \A x \in Sessions : live[x].emitted \in 0..ops
    BY <1>2 DEF Typed
  <2>2. 0 \in 0..ops
    BY <1>2, OperationCounts
  <2>3. contacts' \in [ContactRefs -> ContactStates] /\ UNCHANGED attempts
    BY <1>2 DEF Typed, outbound
  <2>4. Stand(NoAttempt)
    BY <1>4, <2>1, <2>2 DEF Stand
  <2>5. Unstarted'
    BY <1>2, <1>4 DEF Typed, Unstarted
  <2> QED BY <1>2, <1>4, <2>3, <2>4, <2>5, TypedStays
<1>6. AttemptLimitHolds' /\ AttemptsAccount'
  <2>1. \A x \in Sessions : live'[x].attempt = live[x].attempt
    BY <1>3, <1>4
  <2> QED BY <1>2, <2>1, AccountStays DEF IInv, Typed, LiveTyped, outbound
<1>7. Ring' /\ UNCHANGED <<logged, event_log_base>>
  BY <1>2 DEF IInv, Ring, log
<1> QED BY <1>5, <1>6, <1>7 DEF IInv

\* An attempt is a record of what was decided.
LEMMA AttemptType ==
  ASSUME Typed, NEW a \in DOMAIN OutboundHooks, NEW c \in ContactRefs, NEW now,
         NEW call \in Calls \cup {Absent}, NEW s \in Sessions \cup {NoSession}
  PROVE  Attempt(a, c, now, call, s) \in OutboundAttempts
<1>1. evaluate_contact(OutboundHooks[a], contacts[c], now) \subseteq ContactRefusal
  BY DEF evaluate_contact, Fails, ContactRefusal
<1> QED BY <1>1, StoreIsGiven DEF Attempt, OutboundAttempts

\* Who passes every hook has had fewer calls than the limit.
LEMMA BelowLimit ==
  ASSUME NEW hooks \in Hooks, NEW state \in ContactStates, NEW now,
         evaluate_contact(hooks, state, now) = {}
  PROVE  state.attempts < hooks.attempt_limit
<1>1. "attempt_limit_reached" \in DOMAIN Fails(hooks, state, now)
  BY DEF Fails
<1>2. ~Fails(hooks, state, now).attempt_limit_reached
  BY <1>1 DEF evaluate_contact
<1>3. ~(state.attempts >= hooks.attempt_limit)
  BY <1>2 DEF Fails
<1> QED BY <1>3 DEF Hooks, ContactStates

\* The types after an attempt.
LEMMA AttemptTypes ==
  ASSUME Typed, Operation, NEW r \in OutboundAttempts, attempts' = Append(attempts, r),
         contacts' \in [ContactRefs -> ContactStates], LiveTyped',
         Stand(Len(attempts) + 1), Unstarted'
  PROVE  Typed'
<1>1. attempts \in Seq(OutboundAttempts)
  BY DEF Typed, LiveTyped
<1>2. attempts' \in Seq(OutboundAttempts) /\ Len(attempts') = Len(attempts) + 1 /\ Len(attempts) \in Nat
  BY <1>1
<1>3. \A s \in Sessions : live'[s].emitted \in 0..ops'
  BY OperationCounts DEF Stand
<1>4. \A s \in Sessions : live'[s].attempt \in 0..Len(attempts')
  <2>1. \A s \in Sessions : live[s].attempt \in 0..Len(attempts)
    BY DEF Typed, LiveTyped
  <2> QED BY <1>2, <2>1 DEF Stand
<1>5. ops' \in 0..MaxOps
  BY OperationCounts
<1> QED BY <1>2, <1>3, <1>4, <1>5 DEF Typed

\* The dial: the attempt counts for its contact, and for no other.
LEMMA DialCounts ==
  ASSUME Typed, NEW a \in DOMAIN OutboundHooks, NEW c \in ContactRefs, NEW now,
         NEW call \in Calls, NEW s \in Sessions \cup {NoSession}, Dial(a, c, now, call, s)
  PROVE  /\ Attempt(a, c, now, call, s) \in OutboundAttempts
         /\ attempts' = Append(attempts, Attempt(a, c, now, call, s))
         /\ contacts' \in [ContactRefs -> ContactStates]
         /\ \A x \in ContactRefs :
              contacts'[x].attempts = contacts[x].attempts + (IF c = x THEN 1 ELSE 0)
         /\ contacts[c].attempts < OutboundHooks[a].attempt_limit
         /\ Attempt(a, c, now, call, s).refusals = {}
<1>1. contacts \in [ContactRefs -> ContactStates]
  BY DEF Typed
<1>2. contacts' = [contacts EXCEPT ![c].attempts = @ + 1]
      /\ evaluate_contact(OutboundHooks[a], contacts[c], now) = {}
      /\ attempts' = Append(attempts, Attempt(a, c, now, call, s))
  BY DEF Dial
<1>3. contacts' \in [ContactRefs -> ContactStates]
  <2> DEFINE k == contacts[c]
             m == contacts[c].attempts + 1
  <2>1. k \in ContactStates /\ m \in Nat
    BY <1>1 DEF ContactStates
  <2>2. contacts' = [contacts EXCEPT ![c] = [k EXCEPT !.attempts = m]]
    BY <1>2
  <2> HIDE DEF k, m
  <2>3. [k EXCEPT !.attempts = m] \in ContactStates
    BY <2>1 DEF ContactStates
  <2> QED BY <1>1, <2>2, <2>3
<1>4. \A x \in ContactRefs :
        contacts'[x].attempts = contacts[x].attempts + (IF c = x THEN 1 ELSE 0)
  BY <1>1, <1>2 DEF ContactStates
<1>5. contacts[c].attempts < OutboundHooks[a].attempt_limit
  BY <1>1, <1>2, StoreIsGiven, BelowLimit
<1>6. Attempt(a, c, now, call, s) \in OutboundAttempts
  BY AttemptType
<1>7. Attempt(a, c, now, call, s).refusals = {}
  BY <1>2 DEF Attempt
<1> QED BY <1>2, <1>3, <1>4, <1>5, <1>6, <1>7

\* Every way a call-out ends keeps the account.
LEMMA CallOutKeeps ==
  ASSUME IInv, CallOut
  PROVE  IInv' /\ UNCHANGED <<logged, event_log_base>>
<1>1. PICK a \in DOMAIN OutboundHooks, c \in ContactRefs, now \in Moments :
        \/ OutboundRefused(a, c, now)
        \/ OutboundUnanswered(a, c, now)
        \/ \E s \in Fresh : OutboundAnswered(a, c, now, s)
  BY DEF CallOut
<1>2. Typed /\ Ring /\ AttemptLimitHolds /\ AttemptsAccount
  BY DEF IInv
<1>3. \A x \in Sessions : live[x].emitted \in 0..ops
  BY <1>2 DEF Typed
<1>4. \A call \in Calls : call # Absent
  BY DEF Calls, Absent
<1>5. CASE OutboundRefused(a, c, now)
  <2> DEFINE r == Attempt(a, c, now, Absent, NoSession)
  <2>1. r \in OutboundAttempts
    BY <1>2, AttemptType
  <2>2. /\ r.call = Absent /\ r.session = NoSession /\ r.refusals # {}
        /\ Operation /\ attempts' = Append(attempts, r)
        /\ UNCHANGED <<registry, log, contacts>>
    BY <1>5 DEF Attempt, OutboundRefused
  <2> HIDE DEF r
  <2>3. Absent # "answered"
    BY DEF Absent
  <2>4. \A x \in ContactRefs : contacts[x].attempts + 0 = contacts[x].attempts
    <3>1. \A x \in ContactRefs : contacts[x] \in ContactStates
      BY <1>2 DEF Typed
    <3> QED BY <3>1 DEF ContactStates
  <2>5. AttemptLimitHolds' /\ AttemptsAccount'
    BY <1>2, <2>1, <2>2, <2>3, <2>4, AttemptRecorded DEF registry
  <2>6. Typed'
    <3>1. Stand(Len(attempts) + 1) /\ Unstarted' /\ LiveTyped'
          /\ contacts' \in [ContactRefs -> ContactStates]
      BY <1>2, <1>3, <2>2 DEF Stand, Typed, LiveTyped, Unstarted, registry
    <3> QED BY <1>2, <2>1, <2>2, <3>1, AttemptTypes
  <2>7. Ring' /\ UNCHANGED <<logged, event_log_base>>
    BY <1>2, <2>2 DEF Ring, log
  <2> QED BY <2>5, <2>6, <2>7 DEF IInv
<1>6. CASE OutboundUnanswered(a, c, now)
  <2> DEFINE r == Attempt(a, c, now, "not answered", NoSession)
  <2>1. Dial(a, c, now, "not answered", NoSession) /\ Operation /\ UNCHANGED <<registry, log>>
    BY <1>6 DEF OutboundUnanswered, Dial
  <2>2. /\ r \in OutboundAttempts /\ attempts' = Append(attempts, r)
        /\ contacts' \in [ContactRefs -> ContactStates]
        /\ \A x \in ContactRefs :
             contacts'[x].attempts = contacts[x].attempts + (IF c = x THEN 1 ELSE 0)
        /\ contacts[c].attempts < OutboundHooks[a].attempt_limit
        /\ r.refusals = {}
    BY <1>2, <2>1, DialCounts DEF Calls
  <2>3. r.call = "not answered" /\ r.session = NoSession /\ r.contact = c /\ r.activity = a
    BY DEF Attempt
  <2> HIDE DEF r
  <2>4. "not answered" # Absent
    BY DEF Absent
  <2>5. AttemptLimitHolds' /\ AttemptsAccount'
    BY <1>2, <2>1, <2>2, <2>3, <2>4, AttemptRecorded DEF registry
  <2>6. Typed'
    <3>1. Stand(Len(attempts) + 1) /\ Unstarted' /\ LiveTyped'
      BY <1>2, <1>3, <2>1 DEF Stand, Typed, LiveTyped, Unstarted, registry
    <3> QED BY <1>2, <2>1, <2>2, <3>1, AttemptTypes
  <2>7. Ring' /\ UNCHANGED <<logged, event_log_base>>
    BY <1>2, <2>1 DEF Ring, log
  <2> QED BY <2>5, <2>6, <2>7 DEF IInv
<1>7. ASSUME NEW s \in Fresh, OutboundAnswered(a, c, now, s)
      PROVE  IInv' /\ UNCHANGED <<logged, event_log_base>>
  <2> DEFINE r == Attempt(a, c, now, "answered", s)
             n == Len(attempts)
  <2>1. Dial(a, c, now, "answered", s) /\ Operation /\ UNCHANGED log
        /\ BuildSession(s, a, Default, n + 1)
    BY <1>7 DEF OutboundAnswered, Dial
  <2>2. s \in Sessions /\ live[s].attempt = NoAttempt
    BY <1>2 DEF Fresh, Typed, Unstarted
  <2>3. /\ r \in OutboundAttempts /\ attempts' = Append(attempts, r)
        /\ contacts' \in [ContactRefs -> ContactStates]
        /\ \A x \in ContactRefs :
             contacts'[x].attempts = contacts[x].attempts + (IF c = x THEN 1 ELSE 0)
        /\ contacts[c].attempts < OutboundHooks[a].attempt_limit
        /\ r.refusals = {}
    BY <1>2, <2>1, <2>2, DialCounts DEF Calls
  <2>4. r.call = "answered" /\ r.session = s /\ r.contact = c /\ r.activity = a
    BY DEF Attempt
  <2> HIDE DEF r
  <2>5. n \in Nat /\ n + 1 \in Nat
    <3>1. attempts \in Seq(OutboundAttempts)
      BY <1>2 DEF Typed
    <3> QED BY <3>1
  <2>6. /\ LiveTyped'
        /\ live'[s].attempt = n + 1 /\ live'[s].emitted = 0 /\ live'[s].task = "running"
        /\ \A x \in Sessions : x # s => live'[x] = live[x]
    BY <1>2, <2>1, <2>2, <2>5, StoreIsGiven, BuildTypes
  <2>7. "answered" # Absent /\ s # NoSession
    BY <2>2, NoSessionIsNone DEF Absent
  <2>8. AttemptLimitHolds' /\ AttemptsAccount'
    BY <1>2, <2>2, <2>3, <2>4, <2>6, <2>7, AttemptRecorded
  <2>9. Typed'
    <3>1. 0 \in 0..ops
      BY <1>2, <2>1, OperationCounts
    <3>2. Stand(n + 1)
      BY <1>3, <2>6, <3>1 DEF Stand
    <3>3. Unstarted'
      BY <1>2, <2>6 DEF Typed, Unstarted
    <3> QED BY <1>2, <2>1, <2>3, <2>6, <3>2, <3>3, AttemptTypes
  <2>10. Ring' /\ UNCHANGED <<logged, event_log_base>>
    BY <1>2, <2>1 DEF Ring, log
  <2> QED BY <2>8, <2>9, <2>10 DEF IInv
<1> QED BY <1>1, <1>5, <1>6, <1>7

\* The keys are kept apart from everything else.
LEMMA KeysKeep ==
  ASSUME IInv, ManageKeys
  PROVE  IInv' /\ UNCHANGED <<logged, event_log_base>>
<1>1. Operation /\ UNCHANGED <<registry, log, outbound>>
  BY DEF ManageKeys, SetAdmin, SetTestKey, ClearTestKey, TestKeyExpires, CredentialStatus
<1>2. Typed /\ Ring /\ AttemptLimitHolds /\ AttemptsAccount
  BY DEF IInv
<1>3. UNCHANGED <<live, contacts, attempts>>
  BY <1>1 DEF registry, outbound
<1>4. Typed'
  <2>1. LiveTyped' /\ contacts' \in [ContactRefs -> ContactStates] /\ Unstarted'
    BY <1>2, <1>3 DEF Typed, LiveTyped, Unstarted
  <2>2. Stand(NoAttempt)
    BY <1>2, <1>3 DEF Typed, Stand
  <2> QED BY <1>1, <1>2, <1>3, <2>1, <2>2, TypedStays
<1>5. AttemptLimitHolds' /\ AttemptsAccount'
  BY <1>2, <1>3, AccountStays DEF Typed
<1>6. Ring' /\ UNCHANGED <<logged, event_log_base>>
  BY <1>1, <1>2 DEF Ring, log
<1> QED BY <1>4, <1>5, <1>6 DEF IInv

\* Every step keeps the invariant, and logs an event of the history or none.
LEMMA NextKeeps ==
  ASSUME IInv, [Next]_vars
  PROVE  IInv' /\ [History!Next]_(History!vars)
<1>1. CASE OpenSession
  BY <1>1, OpenKeeps DEF History!vars
<1>2. CASE SessionGoesOn
  <2>1. PICK s \in Sessions : SessionCloses(s) \/ TaskEnds(s) \/ SessionLogs(s)
    BY <1>2 DEF SessionGoesOn
  <2>2. CASE SessionCloses(s) \/ TaskEnds(s)
    BY <2>2, GoesOnKeeps DEF History!vars
  <2>3. CASE SessionLogs(s)
    <3>1. Typed' /\ Ring' /\ (\E e \in Events : History!Log(e))
          /\ \A x \in Sessions : live'[x].attempt = live[x].attempt
      BY <2>3, LogsTypes DEF IInv
    <3>2. AttemptLimitHolds' /\ AttemptsAccount'
      BY <2>3, <3>1, AccountStays DEF SessionLogs, outbound, IInv, Typed
    <3> QED BY <3>1, <3>2 DEF IInv, History!Next
  <2> QED BY <2>1, <2>2, <2>3
<1>3. CASE TellAboutContact
  BY <1>3, PutKeeps DEF History!vars
<1>4. CASE CallOut
  BY <1>4, CallOutKeeps DEF History!vars
<1>5. CASE ManageKeys
  BY <1>5, KeysKeep DEF History!vars
<1>6. CASE UNCHANGED vars
  <2>1. UNCHANGED <<live, contacts, attempts, ops, logged, event_log, event_log_base>>
    BY <1>6 DEF vars, registry, log, outbound
  <2>2. Typed'
    BY <2>1 DEF IInv, Typed, LiveTyped, Unstarted
  <2>3. Ring'
    BY <2>1 DEF IInv, Ring
  <2>4. AttemptLimitHolds' /\ AttemptsAccount'
    BY <2>1, AccountStays DEF IInv, Typed
  <2> QED BY <2>1, <2>2, <2>3, <2>4 DEF IInv, History!vars
<1> QED BY <1>1, <1>2, <1>3, <1>4, <1>5, <1>6 DEF Next

\* The invariant holds of every behaviour.
LEMMA Invariance == Spec => []IInv
<1>1. IInv /\ [Next]_vars => IInv'
  BY NextKeeps
<1> QED BY <1>1, InitHolds, PTL DEF Spec

\* The ring with its base implements the history: an event keeps the offset it was logged at,
\* and only the oldest are forgotten (log_event).
THEOREM RingIsHistory == Spec => LogIsHistory
<1>1. Init => History!Init
  BY DEF Init, History!Init
<1>2. IInv /\ [Next]_vars => [History!Next]_(History!vars)
  BY NextKeeps
<1> QED BY <1>1, <1>2, Invariance, PTL DEF Spec, LogIsHistory, History!Spec

\* Contacts that activities share are called for an activity only below its own limit,
\* in whatever order the attempts come (outbound_attempt).
THEOREM LimitHolds == Spec => []AttemptLimitHolds
<1>1. IInv => AttemptLimitHolds
  BY DEF IInv
<1> QED BY <1>1, Invariance, PTL

\* Every call and every outbound session is accounted for by one attempt.
THEOREM AttemptsStand == Spec => []AttemptsAccount
<1>1. IInv => AttemptsAccount
  BY DEF IInv
<1> QED BY <1>1, Invariance, PTL

-----------------------------------------------------------------------------
(***************************************************************************)
(* The registry and the keys                                               *)
(***************************************************************************)
\* The registry names sessions that were built, each once, and every one whose task goes on.
RegistryHolds ==
  /\ sessions \in Seq(Sessions) /\ IsInjective(sessions)
  /\ \A s \in ToSet(sessions) : live[s].task # "not built"
  /\ \A s \in Sessions : Running(s) => s \in ToSet(sessions)

\* What a session keeps are events of its tenant.
EventsAreOwn ==
  \A s \in Sessions : \A i \in DOMAIN live[s].events : live[s].events[i].tenant = TenantOfSession(s)

\* A test key has a key and a time that is over or not.
TestKeysTyped == \A slot \in DOMAIN ephemeral : ephemeral[slot] \in [key : Keys, expired : BOOLEAN]

Held == RegistryHolds /\ EventsAreOwn /\ TestKeysTyped

\* prune_sessions: only finished sessions go, and when the limit is still exceeded none is left.
LEMMA PruneKeeps ==
  ASSUME NEW reg \in Seq(Sessions), IsInjective(reg), NEW l, NEW p, p = prune_sessions(reg, l)
  PROVE  /\ p \in Seq(Sessions) /\ IsInjective(p) /\ ToSet(p) \subseteq ToSet(reg)
         /\ \A s \in ToSet(reg) : ~Finished(l, s) => s \in ToSet(p)
         /\ Len(p) <= MaxSessions \/ \A s \in ToSet(p) : ~Finished(l, s)
<1> DEFINE n == Len(reg)
           excess == n - MaxSessions
           over == {i \in DOMAIN reg : Finished(l, reg[i])}
           first == {j \in over : Cardinality({k \in over : k <= j}) <= excess}
           gone == {reg[i] : i \in first}
<1>1. n \in Nat /\ DOMAIN reg = 1..n /\ MaxSessions \in Nat
      /\ \A i \in 1..n : reg[i] \in ToSet(reg)
  BY LimitsAreNat DEF ToSet
<1>2. p = Only(reg, ToSet(reg) \ gone)
  BY DEF prune_sessions
<1>3. \A s \in gone : Finished(l, s)
  OBVIOUS
<1>4. over \subseteq 1..n /\ first \subseteq over
  BY <1>1
<1>5. IsFiniteSet(over) /\ over \subseteq Nat /\ Cardinality(over) \in Nat
  <2>1. IsFiniteSet(1..n) /\ over \in SUBSET (1..n)
    BY <1>1, <1>4, FS_Interval
  <2> QED BY <1>4, <2>1, FS_Subset, FS_CardinalityType
<1> HIDE DEF gone
<1>6. /\ p \in Seq(Sessions) /\ ToSet(p) = ToSet(reg) \cap (ToSet(reg) \ gone)
      /\ IsInjective(p)
  BY <1>2, OnlySelects
<1>7. Len(p) <= MaxSessions \/ \A s \in ToSet(p) : ~Finished(l, s)
  <2>1. CASE excess > Cardinality(over)
    <3>1. first = over
      <4> SUFFICES ASSUME NEW j \in over PROVE Cardinality({k \in over : k <= j}) <= excess
        BY DEF first
      <4>1. {k \in over : k <= j} \in SUBSET over
        OBVIOUS
      <4>2. Cardinality({k \in over : k <= j}) <= Cardinality(over)
            /\ Cardinality({k \in over : k <= j}) \in Nat
        BY <1>5, <4>1, FS_Subset, FS_CardinalityType
      <4> HIDE DEF over
      <4> QED BY <1>1, <1>5, <2>1, <4>2
    <3>2. \A s \in ToSet(reg) : Finished(l, s) => s \in gone
      BY <1>1, <3>1 DEF gone, ToSet
    <3> QED BY <1>6, <3>2
  <2>2. CASE excess <= 0
    <3>1. IsFiniteSet(ToSet(reg)) /\ Cardinality(ToSet(reg)) = n
          /\ IsFiniteSet(ToSet(p)) /\ Cardinality(ToSet(p)) = Len(p)
      BY <1>6, DistinctLength
    <3>2. ToSet(p) \in SUBSET ToSet(reg)
      BY <1>6
    <3>3. Len(p) <= n
      BY <3>1, <3>2, FS_Subset
    <3>4. Len(p) \in Nat
      BY <1>6
    <3> QED BY <1>1, <2>2, <3>3, <3>4
  <2>3. CASE excess > 0 /\ excess <= Cardinality(over)
    <3>1. Cardinality(first) = excess
      <4>1. excess \in 0..Cardinality(over)
        <5> HIDE DEF over
        <5> QED BY <1>1, <1>5, <2>3
      <4> HIDE DEF over, excess
      <4> QED BY <1>5, <4>1, FirstOnes
    <3>2. IsFiniteSet(first)
      BY <1>4, <1>5, FS_Subset
    <3> DEFINE f == [i \in first |-> reg[i]]
    <3>3. f \in [first -> gone] /\ (\A a, b \in first : f[a] = f[b] => a = b)
          /\ \A t \in gone : \E i \in first : f[i] = t
      BY <1>1, <1>4 DEF IsInjective, gone
    <3> HIDE DEF first, f
    <3>4. ExistsBijection(first, gone)
      BY <3>3, Fun_IsBij, Fun_ExistsBij
    <3>5. IsFiniteSet(gone) /\ Cardinality(gone) = excess
      BY <3>1, <3>2, <3>4, FS_Bijection
    <3>6. gone \subseteq ToSet(reg)
      BY <1>1, <1>4 DEF gone
    <3>7. IsFiniteSet(ToSet(reg)) /\ Cardinality(ToSet(reg)) = n
          /\ Cardinality(ToSet(p)) = Len(p)
      BY <1>6, DistinctLength
    <3>8. ToSet(reg) \cap gone = gone /\ ToSet(p) = ToSet(reg) \ gone
      BY <1>6, <3>6
    <3>9. Cardinality(ToSet(p)) = n - excess
      <4>1. Cardinality(ToSet(reg) \ gone) = Cardinality(ToSet(reg)) - Cardinality(ToSet(reg) \cap gone)
        BY <3>7, FS_Difference
      <4> QED BY ONLY <3>5, <3>7, <3>8, <4>1
    <3> QED BY <1>1, <3>7, <3>9
  <2>4. excess \in Int
    BY <1>1
  <2> HIDE DEF over, excess
  <2> QED BY <1>5, <2>1, <2>2, <2>3, <2>4
<1>8. ToSet(p) \subseteq ToSet(reg) /\ \A s \in ToSet(reg) : ~Finished(l, s) => s \in ToSet(p)
  BY <1>3, <1>6
<1> QED BY <1>6, <1>7, <1>8

\* What is left of the test keys is a part of them.
LEMMA LeftIsPart ==
  \A p, t, admin, eph :
    \A slot \in DOMAIN LeftAfter(p, t, admin, eph) :
      slot \in DOMAIN eph /\ LeftAfter(p, t, admin, eph)[slot] = eph[slot]
BY DEF LeftAfter

\* A session that is built is added to the registry, which is pruned.
LEMMA BuildHolds ==
  ASSUME IInv, Held, NEW s \in Fresh, NEW a \in Activities, NEW comp \in DOMAIN Compositions,
         NEW k \in Nat, BuildSession(s, a, comp, k)
  PROVE  /\ Held'
         /\ \/ Len(sessions') <= MaxSessions
            \/ \A x \in ToSet(sessions') : ~(live'[x].record /\ live'[x].task = "done")
<1> DEFINE reg == Append(sessions, s)
<1>1. /\ s \in Sessions /\ live[s].task = "not built" /\ LiveTyped
      /\ sessions \in Seq(Sessions) /\ IsInjective(sessions)
      /\ sessions' = prune_sessions(reg, live')
  BY DEF Fresh, IInv, Typed, Held, RegistryHolds, BuildSession
<1>2. s \notin ToSet(sessions)
  BY <1>1 DEF Held, RegistryHolds
<1>3. reg \in Seq(Sessions) /\ IsInjective(reg) /\ ToSet(reg) = ToSet(sessions) \cup {s}
  <2>1. /\ reg \in Seq(Sessions) /\ DOMAIN sessions = 1..Len(sessions) /\ Len(sessions) \in Nat
        /\ DOMAIN reg = 1..(Len(sessions) + 1)
        /\ reg[Len(sessions) + 1] = s
        /\ \A i \in 1..Len(sessions) : reg[i] = sessions[i] /\ sessions[i] # s
    <3>1. DOMAIN sessions = 1..Len(sessions) /\ Len(sessions) \in Nat
      <4>1. sessions \in Seq(Sessions)
        BY <1>1
      <4> QED BY ONLY <4>1
    <3>2. \A i \in 1..Len(sessions) : sessions[i] # s
      BY <1>2, <3>1 DEF ToSet
    <3>3. sessions \in Seq(Sessions) /\ s \in Sessions
      BY <1>1
    <3> QED BY ONLY <3>1, <3>2, <3>3 DEF reg
  <2> HIDE DEF reg
  <2>2. 1..(Len(sessions) + 1) = 1..Len(sessions) \cup {Len(sessions) + 1}
    BY <2>1
  <2>3. IsInjective(reg)
    <3> SUFFICES ASSUME NEW i \in DOMAIN reg, NEW j \in DOMAIN reg, reg[i] = reg[j] PROVE i = j
      BY DEF IsInjective
    <3>1. CASE i \in 1..Len(sessions) /\ j \in 1..Len(sessions)
      BY <1>1, <2>1, <3>1 DEF IsInjective
    <3>2. CASE ~(i \in 1..Len(sessions) /\ j \in 1..Len(sessions))
      BY <2>1, <2>2, <3>2
    <3> QED BY <3>1, <3>2
  <2>4. ToSet(reg) = ToSet(sessions) \cup {s}
    BY <2>1, <2>2 DEF ToSet
  <2> QED BY <2>1, <2>3, <2>4
<1> HIDE DEF reg
<1>4. /\ sessions' \in Seq(Sessions) /\ IsInjective(sessions') /\ ToSet(sessions') \subseteq ToSet(reg)
      /\ \A x \in ToSet(reg) : ~Finished(live', x) => x \in ToSet(sessions')
      /\ Len(sessions') <= MaxSessions \/ \A x \in ToSet(sessions') : ~Finished(live', x)
  BY <1>1, <1>3, PruneKeeps
<1>5. /\ live'[s].task = "running" /\ live'[s].events = <<>>
      /\ \A x \in Sessions : x # s => live'[x] = live[x]
  BY <1>1 DEF BuildSession, LiveTyped, NotBuilt
<1>6. RegistryHolds'
  <2>1. \A x \in ToSet(sessions') : live'[x].task # "not built"
    <3>1. \A x \in ToSet(sessions) : x \in Sessions /\ live[x].task # "not built"
      BY <1>1, ElementType DEF Held, RegistryHolds
    <3> QED BY <1>3, <1>4, <1>5, <3>1
  <2>2. ASSUME NEW x \in Sessions, live'[x].task = "running" PROVE x \in ToSet(sessions')
    <3>1. x \in ToSet(reg)
      BY <1>3, <1>5, <2>2 DEF Held, RegistryHolds, Running
    <3> QED BY <1>4, <2>2, <3>1 DEF Finished
  <2> QED BY <1>4, <2>1, <2>2 DEF RegistryHolds, Running
<1>7. EventsAreOwn'
  <2> SUFFICES ASSUME NEW x \in Sessions, NEW i \in DOMAIN live'[x].events
               PROVE  live'[x].events[i].tenant = TenantOfActivity[live'[x].activity]
    BY DEF EventsAreOwn, TenantOfSession
  <2>1. x # s
    BY <1>5
  <2> QED BY <1>5, <2>1 DEF Held, EventsAreOwn, TenantOfSession
<1>8. TestKeysTyped'
  <2> DEFINE t == TenantOfActivity[a]
             left == LeftAfter(Compositions[comp].s2s, t, admin_store, ephemeral)
  <2>1. ephemeral' = left \/ ephemeral' = LeftAfter("typesafe", t, admin_store, left)
    BY DEF BuildSession
  <2>2. \A slot \in DOMAIN ephemeral' : slot \in DOMAIN ephemeral /\ ephemeral'[slot] = ephemeral[slot]
    BY <2>1, LeftIsPart
  <2> QED BY <2>2 DEF Held, TestKeysTyped
<1>9. Len(sessions') <= MaxSessions
      \/ \A x \in ToSet(sessions') : ~(live'[x].record /\ live'[x].task = "done")
  BY <1>4 DEF Finished
<1> QED BY <1>6, <1>7, <1>8, <1>9 DEF Held

\* A session that goes on, logs or ends stays where it is.
LEMMA GoesOnHolds ==
  ASSUME IInv, Held, SessionGoesOn
  PROVE  Held' /\ UNCHANGED sessions
<1>1. PICK s \in Sessions : SessionCloses(s) \/ TaskEnds(s) \/ SessionLogs(s)
  BY DEF SessionGoesOn
<1>2. LiveTyped /\ Running(s) /\ UNCHANGED <<sessions, ephemeral>>
  BY <1>1 DEF IInv, Typed, SessionCloses, TaskEnds, SessionLogs, credentials
<1> DEFINE e == [session |-> s, tenant |-> TenantOfSession(s), seq |-> live[s].emitted + 1]
<1>3. /\ \A x \in Sessions : x # s => live'[x] = live[x]
      /\ live'[s].task \in {"running", "done"} /\ live'[s].activity = live[s].activity
      /\ \A i \in DOMAIN live'[s].events : live'[s].events[i].tenant = TenantOfSession(s)
  <2>1. live[s] \in LiveSessions /\ live[s].task = "running"
    BY <1>2 DEF LiveTyped, Running
  <2>2. \A i \in DOMAIN live[s].events : live[s].events[i].tenant = TenantOfSession(s)
    BY DEF Held, EventsAreOwn
  <2>3. CASE SessionCloses(s) \/ TaskEnds(s)
    <3>1. PICK r : /\ live' = [live EXCEPT ![s] = r]
                   /\ r = [live[s] EXCEPT !.record = TRUE] \/ r = [live[s] EXCEPT !.task = "done"]
      BY <2>3 DEF SessionCloses, TaskEnds
    <3>2. r.task \in {"running", "done"} /\ r.activity = live[s].activity /\ r.events = live[s].events
      BY <2>1, <3>1 DEF LiveSessions
    <3> QED BY <1>2, <2>2, <3>1, <3>2 DEF LiveTyped
  <2>4. CASE SessionLogs(s)
    <3> DEFINE grown == Append(live[s].events, e)
               over == Len(grown) - MaxSessionEvents
               kept == IF over > 0 THEN SubSeq(grown, over + 1, Len(grown)) ELSE grown
    <3>1. live' = [live EXCEPT ![s].emitted = @ + 1, ![s].events = kept]
      BY <2>4 DEF SessionLogs, TenantOfSession
    <3>2. live[s].events \in Seq(Events) /\ e.tenant = TenantOfSession(s)
      BY <2>1 DEF LiveSessions
    <3> HIDE DEF e
    <3>3. \A i \in DOMAIN grown : grown[i].tenant = TenantOfSession(s)
      BY <2>2, <3>2
    <3>4. Len(grown) \in Nat /\ DOMAIN grown = 1..Len(grown) /\ MaxSessionEvents \in Nat
      BY <3>2, LimitsAreNat
    <3> HIDE DEF grown
    <3>5. \A i \in DOMAIN kept : kept[i].tenant = TenantOfSession(s)
      <4>1. CASE over > 0
        BY <3>3, <3>4, <4>1
      <4>2. CASE ~(over > 0)
        BY <3>3, <4>2
      <4> QED BY <4>1, <4>2
    <3> HIDE DEF kept
    <3> QED BY <1>2, <2>1, <3>1, <3>5 DEF LiveTyped, LiveSessions
  <2> QED BY <1>1, <2>3, <2>4
<1>4. RegistryHolds'
  <2>1. \A x \in ToSet(sessions) : live'[x].task # "not built"
    <3>1. \A x \in ToSet(sessions) : x \in Sessions
      BY ElementType DEF Held, RegistryHolds
    <3> QED BY <1>3, <3>1 DEF Held, RegistryHolds
  <2>2. \A x \in Sessions : live'[x].task = "running" => x \in ToSet(sessions)
    BY <1>2, <1>3 DEF Held, RegistryHolds, Running
  <2> QED BY <1>2, <2>1, <2>2 DEF Held, RegistryHolds, Running
<1>5. EventsAreOwn'
  BY <1>3 DEF Held, EventsAreOwn, TenantOfSession
<1> QED BY <1>2, <1>4, <1>5 DEF Held, TestKeysTyped

\* The keys are typed, and nothing else than a session that is built changes the registry.
LEMMA OthersHold ==
  ASSUME Held, TellAboutContact \/ ManageKeys \/ UNCHANGED vars
  PROVE  Held' /\ UNCHANGED sessions
<1>1. UNCHANGED <<sessions, live>>
  BY DEF TellAboutContact, ContactPut, ManageKeys, SetAdmin, SetTestKey, ClearTestKey, TestKeyExpires,
         CredentialStatus, registry, vars
<1>2. TestKeysTyped'
  <2>1. CASE TellAboutContact \/ UNCHANGED vars
    BY <2>1 DEF Held, TestKeysTyped, TellAboutContact, ContactPut, vars, credentials
  <2>2. ASSUME NEW slot, NEW key \in Keys, SetAdmin(slot, key) \/ SetTestKey(slot, key)
        PROVE  TestKeysTyped'
    <3> DEFINE entry == [key |-> key, expired |-> FALSE]
    <3>1. entry \in [key : Keys, expired : BOOLEAN]
      OBVIOUS
    <3>2. ephemeral' = ephemeral \/ ephemeral' = Put(ephemeral, slot, entry)
      BY <2>2 DEF SetAdmin, SetTestKey
    <3> HIDE DEF entry
    <3> QED BY <3>1, <3>2 DEF Held, TestKeysTyped, Put
  <2>3. ASSUME NEW p, NEW t, ClearTestKey(p, t) \/ CredentialStatus(p, t) PROVE TestKeysTyped'
    BY <2>3, LeftIsPart DEF Held, TestKeysTyped, ClearTestKey, CredentialStatus
  <2>4. ASSUME NEW slot \in DOMAIN ephemeral, TestKeyExpires(slot) PROVE TestKeysTyped'
    BY <2>4 DEF Held, TestKeysTyped, TestKeyExpires
  <2>5. CASE ManageKeys
    BY <2>2, <2>3, <2>4, <2>5 DEF ManageKeys
  <2> QED BY <2>1, <2>5
<1>3. RegistryHolds' /\ EventsAreOwn'
  BY <1>1 DEF Held, RegistryHolds, EventsAreOwn, TenantOfSession, Running
<1> QED BY <1>1, <1>2, <1>3 DEF Held

\* Every step keeps the registry and the keys as they should be, and prunes as it should.
LEMMA NextHolds ==
  ASSUME IInv, Held, [Next]_vars
  PROVE  /\ Held'
         /\ sessions' # sessions =>
              \/ Len(sessions') <= MaxSessions
              \/ \A s \in ToSet(sessions') : ~(live'[s].record /\ live'[s].task = "done")
<1>1. CASE OpenSession
  <2>1. PICK s \in Fresh, a \in Activities, asked \in DOMAIN Compositions \cup {Absent, "pinned"} :
          BuildSession(s, a, composition_for(a, asked), NoAttempt)
    BY <1>1 DEF OpenSession, WsSession
  <2>2. composition_for(a, asked) \in DOMAIN Compositions /\ NoAttempt \in Nat
    BY CompositionType DEF NoAttempt
  <2> QED BY <2>1, <2>2, BuildHolds
<1>2. CASE SessionGoesOn
  BY <1>2, GoesOnHolds
<1>3. CASE CallOut
  <2>1. PICK a \in DOMAIN OutboundHooks, c \in ContactRefs, now \in Moments :
          \/ OutboundRefused(a, c, now)
          \/ OutboundUnanswered(a, c, now)
          \/ \E s \in Fresh : OutboundAnswered(a, c, now, s)
    BY <1>3 DEF CallOut
  <2>2. CASE OutboundRefused(a, c, now) \/ OutboundUnanswered(a, c, now)
    <3>1. UNCHANGED <<sessions, live, ephemeral>>
      BY <2>2 DEF OutboundRefused, OutboundUnanswered, registry, credentials
    <3> QED BY <3>1 DEF Held, RegistryHolds, EventsAreOwn, TestKeysTyped, TenantOfSession, Running
  <2>3. ASSUME NEW s \in Fresh, OutboundAnswered(a, c, now, s)
        PROVE  /\ Held'
               /\ \/ Len(sessions') <= MaxSessions
                  \/ \A x \in ToSet(sessions') : ~(live'[x].record /\ live'[x].task = "done")
    <3>1. BuildSession(s, a, Default, Len(attempts) + 1)
      BY <2>3 DEF OutboundAnswered
    <3>2. a \in Activities /\ Default \in DOMAIN Compositions
      BY StoreIsGiven
    <3>3. Len(attempts) + 1 \in Nat
      <4>1. attempts \in Seq(OutboundAttempts)
        BY DEF IInv, Typed
      <4> QED BY ONLY <4>1
    <3> QED BY <3>1, <3>2, <3>3, BuildHolds
  <2> QED BY <2>1, <2>2, <2>3
<1>4. CASE TellAboutContact \/ ManageKeys \/ UNCHANGED vars
  BY <1>4, OthersHold
<1> QED BY <1>1, <1>2, <1>3, <1>4 DEF Next

\* The registry and the log are well-formed in every reachable state.
LEMMA HeldInvariance == Spec => [](IInv /\ Held)
<1>1. Init => Held
  <2> SUFFICES ASSUME Init PROVE Held
    OBVIOUS
  <2>1. sessions = <<>> /\ live = [s \in Sessions |-> NotBuilt] /\ ephemeral = <<>>
    BY DEF Init
  <2>2. DOMAIN <<>> = {} /\ <<>> \in Seq(Sessions)
    OBVIOUS
  <2>3. RegistryHolds
    BY <2>1, <2>2 DEF RegistryHolds, Running, NotBuilt, IsInjective, ToSet
  <2>4. EventsAreOwn /\ TestKeysTyped
    BY <2>1, <2>2 DEF EventsAreOwn, TestKeysTyped, NotBuilt
  <2> QED BY <2>3, <2>4 DEF Held
<1>2. IInv /\ Held /\ [Next]_vars => Held'
  BY NextHolds
<1> QED BY <1>1, <1>2, Invariance, PTL DEF Spec

\* The registry exceeds its limit only by sessions that are not finished, and it never loses
\* one whose task goes on: the sessions it counts as live are all there are (prune_sessions).
THEOREM PruningHolds == Spec => RegistryIsPruned
<1>1. ASSUME IInv, Held, [Next]_vars, sessions' # sessions
      PROVE  /\ \/ Len(sessions') <= MaxSessions
                \/ \A s \in ToSet(sessions') : ~(live'[s].record /\ live'[s].task = "done")
             /\ (SessionsLive = Cardinality({s \in Sessions : Running(s)}))'
  <2>1. Held'
    BY <1>1, NextHolds
  <2>2. ToSet(sessions') \subseteq Sessions
    BY <2>1, ElementType DEF Held, RegistryHolds
  <2>3. {s \in ToSet(sessions') : live'[s].task = "running"} = {s \in Sessions : live'[s].task = "running"}
    BY <2>1, <2>2 DEF Held, RegistryHolds, Running
  <2>4. (SessionsLive = Cardinality({s \in Sessions : Running(s)}))'
    BY <2>3 DEF SessionsLive, Running
  <2> QED BY <1>1, <2>4, NextHolds
<1>2. IInv /\ Held /\ [Next]_vars =>
        [sessions' # sessions =>
           /\ \/ Len(sessions') <= MaxSessions
              \/ \A s \in ToSet(sessions') : ~(live'[s].record /\ live'[s].task = "done")
           /\ (SessionsLive = Cardinality({s \in Sessions : Running(s)}))']_vars
  BY <1>1
<1> QED BY <1>2, HeldInvariance, PTL DEF Spec, RegistryIsPruned

-----------------------------------------------------------------------------
(***************************************************************************)
(* Reading                                                                 *)
(***************************************************************************)
\* A page of a sequence is a beginning of it.
LEMMA PageOfSequence ==
  ASSUME NEW T, NEW q \in Seq(T), NEW limit \in Nat
  PROVE  Page(q, limit) \in Seq(T) /\ ToSet(Page(q, limit)) \subseteq ToSet(q)
<1> DEFINE n == IF limit < Len(q) THEN limit ELSE Len(q)
<1>1. n \in Nat /\ n <= Len(q) /\ Len(q) \in Nat /\ DOMAIN q = 1..Len(q)
  OBVIOUS
<1>2. Page(q, limit) = SubSeq(q, 1, n)
  BY DEF Page
<1> HIDE DEF n
<1>3. /\ SubSeq(q, 1, n) \in Seq(T) /\ DOMAIN SubSeq(q, 1, n) = 1..n
      /\ \A i \in 1..n : SubSeq(q, 1, n)[i] = q[i]
  BY <1>1
<1> QED BY <1>1, <1>2, <1>3 DEF ToSet

\* What the ring gives from an offset on is what the history has from there on.
LEMMA RingFromOffset ==
  ASSUME Ring, NEW since \in 0..(Len(logged) + 1), NEW start,
         start = IF since > event_log_base THEN since - event_log_base ELSE 0
  PROVE  /\ SubSeq(event_log, start + 1, Len(event_log)) \in Seq(Events)
         /\ SubSeq(event_log, start + 1, Len(event_log))
              = SubSeq(logged, History!Later(event_log_base, since) + 1, Len(logged))
<1> DEFINE n == Len(logged)
           b == event_log_base
           later == History!Later(b, since)
<1>1. n \in Nat /\ b \in 0..n /\ logged \in Seq(Events) /\ since \in 0..(n + 1)
      /\ event_log = SubSeq(logged, b + 1, Len(logged))
  BY DEF Ring
<1>2. later = b + start /\ start \in 0..(n + 1 - b)
  BY <1>1 DEF History!Later
<1>3. event_log \in Seq(Events) /\ Len(event_log) = n - b
  BY <1>1, <1>2
<1> HIDE DEF n, b, later
<1>4. CASE start <= n - b
  <2>1. start \in 0..(n - b)
    BY <1>1, <1>2, <1>4
  <2>2. SubSeq(event_log, start + 1, Len(event_log)) = SubSeq(logged, b + start + 1, n)
    <3>1. /\ logged \in Seq(Events) /\ b \in 0..Len(logged) /\ start \in 0..(Len(logged) - b)
          /\ event_log = SubSeq(logged, b + 1, Len(logged))
      BY <1>1, <2>1 DEF n
    <3> QED BY ONLY <3>1, ShorterEnd DEF n
  <2>3. SubSeq(event_log, start + 1, Len(event_log)) \in Seq(Events)
    BY <1>1, <1>3, <2>1, SubSeqProperties
  <2> QED BY <1>2, <2>2, <2>3 DEF n, later, b
<1>5. CASE start > n - b
  <2>1. start = n + 1 - b
    BY <1>1, <1>2, <1>5
  <2>2. SubSeq(event_log, start + 1, Len(event_log)) = <<>>
    BY <1>1, <1>3, <2>1
  <2>3. SubSeq(logged, later + 1, n) = <<>>
    BY <1>1, <1>2, <2>1 DEF n
  <2>4. <<>> \in Seq(Events)
    OBVIOUS
  <2> QED BY <2>2, <2>3, <2>4 DEF n, later, b
<1>6. start <= n - b \/ start > n - b
  BY <1>1, <1>2
<1> QED BY <1>4, <1>5, <1>6

\* Whatever offset a reader is at, the ring gives it what the history owes it (events_since).
THEOREM ReadsHold == Spec => []ReadsAreOwed
<1>1. ASSUME Ring PROVE ReadsAreOwed
  <2> SUFFICES ASSUME NEW since \in 0..(Len(logged) + 1), NEW limit \in 1..2,
                      NEW want \in Tenants \cup {Absent}
               PROVE  events_since(since, limit, want)
                        = History!Read(since, limit, {e \in Events : want = Absent \/ e.tenant = want})
    BY <1>1 DEF ReadsAreOwed, Ring
  <2> DEFINE start == IF since > event_log_base THEN since - event_log_base ELSE 0
             from == SubSeq(event_log, start + 1, Len(event_log))
             mine == {e \in Events : want = Absent \/ e.tenant = want}
  <2>1. from \in Seq(Events)
        /\ from = SubSeq(logged, History!Later(event_log_base, since) + 1, Len(logged))
    BY <1>1, RingFromOffset
  <2>2. events_since(since, limit, want)
          = IF want = Absent THEN Page(from, limit) ELSE Page(Only(from, EventsOf(want)), limit)
    BY DEF events_since
  <2>3. History!Read(since, limit, mine) = Page(Only(from, mine), limit)
    <3>1. \A q, k : History!Page(q, k) = Page(q, k)
      BY DEF History!Page, Page
    <3>2. History!Read(since, limit, mine) = History!Page(Only(from, mine), limit)
      <4>1. \A q, S : History!Only(q, S) = Only(q, S)
        BY DEF History!Only, Only
      <4>2. History!Read(since, limit, mine) = History!Page(History!Only(from, mine), limit)
        <5> HIDE DEF from
        <5> QED BY ONLY <2>1 DEF History!Read
      <4> HIDE DEF from, mine
      <4> QED BY ONLY <4>1, <4>2
    <3>3. Only(from, mine) \in Seq(Events)
      BY <2>1, OnlySelects
    <3> QED BY ONLY <3>1, <3>2, <3>3
  <2> HIDE DEF from
  <2>4. CASE want = Absent
    <3>1. mine = Events
      BY <2>4
    <3>2. ToSet(from) \subseteq mine
      BY <2>1, <3>1, ElementType
    <3>3. Only(from, mine) = from
      <4> HIDE DEF mine
      <4>1. from \in Seq(Events)
        BY <2>1
      <4> QED BY ONLY <3>2, <4>1, OnlySelects
    <3> QED BY <2>2, <2>3, <2>4, <3>3
  <2>5. CASE want # Absent
    <3>1. mine = EventsOf(want)
      BY <2>5 DEF EventsOf
    <3> QED BY <2>2, <2>3, <2>5, <3>1
  <2> QED BY <2>4, <2>5
<1>2. IInv => ReadsAreOwed
  BY <1>1 DEF IInv
<1> QED BY <1>2, Invariance, PTL

\* Under the token of a tenant only its own events and sessions are read, and a verdict lets
\* nobody else past the guard (OperatorAuthMiddleware, the reading routes).
THEOREM ScopesHold == Spec => []ReadsAreScoped
<1>1. VerdictsAreScoped
  BY DEF VerdictsAreScoped, Verdict, request_is_authorized
<1>2. ASSUME IInv, Held, NEW t \in Tenants, NEW tenant \in Tenants \cup {Absent},
             NEW s \in Sessions \cup {NoSession}
      PROVE  /\ \A e \in ToSet(ReadEvents(t, tenant, s, 0, 100)) : e.tenant = t
             /\ s # NoSession => \A e \in ToSet(SessionDetail(t, s)) : e.tenant = t
             /\ \A x \in ToSet(ListSessions(t, tenant)) : TenantOfSession(x) = t
  <2>1. t # Absent /\ ToSet(<<>>) = {}
    BY AbsentIsNoTenant DEF ToSet
  <2>2. ASSUME s \in Sessions, TenantOfSession(s) = t
        PROVE  /\ live[s].events \in Seq(Events)
               /\ \A e \in ToSet(live[s].events) : e.tenant = t
    <3>1. live[s] \in LiveSessions
      BY <1>2, <2>2 DEF IInv, Typed, LiveTyped
    <3> QED BY <1>2, <2>2, <3>1 DEF LiveSessions, Held, EventsAreOwn, ToSet
  <2>3. \A e \in ToSet(SessionDetail(t, s)) : s # NoSession => e.tenant = t
    BY <2>1, <2>2 DEF SessionDetail
  <2>4. \A x \in ToSet(ListSessions(t, tenant)) : TenantOfSession(x) = t
    <3> DEFINE own == {x \in Sessions : t = Absent \/ TenantOfSession(x) = t}
    <3>1. ListSessions(t, tenant) = Only(sessions, own)
      BY <2>1 DEF ListSessions
    <3>2. ToSet(Only(sessions, own)) = ToSet(sessions) \cap own
      BY <1>2, OnlySelects DEF Held, RegistryHolds
    <3> QED BY <2>1, <3>1, <3>2
  <2>5. CASE s = NoSession
    <3> DEFINE from == SubSeq(event_log, 1, Len(event_log))
    <3>1. event_log \in Seq(Events) /\ event_log_base \in Nat
      BY <1>2 DEF IInv, Ring
    <3>2. ReadEvents(t, tenant, s, 0, 100) = Page(Only(from, EventsOf(t)), 100)
      <4>1. ~(0 > event_log_base)
        BY <3>1
      <4> QED BY <2>1, <2>5, <4>1 DEF ReadEvents, events_since
    <3>3. from \in Seq(Events)
      BY <3>1
    <3> HIDE DEF from
    <3>4. /\ Only(from, EventsOf(t)) \in Seq(Events)
          /\ ToSet(Only(from, EventsOf(t))) = ToSet(from) \cap EventsOf(t)
      BY <3>3, OnlySelects
    <3>5. ToSet(Page(Only(from, EventsOf(t)), 100)) \subseteq EventsOf(t)
      BY <3>4, PageOfSequence
    <3> QED BY <2>3, <2>4, <2>5, <3>2, <3>5 DEF EventsOf
  <2>6. CASE s # NoSession
    <3>1. s \in Sessions
      BY <2>6
    <3>2. CASE s \in ToSet(sessions) /\ TenantOfSession(s) = t
      <4>1. ReadEvents(t, tenant, s, 0, 100) = Page(live[s].events, 100)
        BY <2>1, <2>6, <3>2 DEF ReadEvents
      <4>2. ToSet(Page(live[s].events, 100)) \subseteq ToSet(live[s].events)
        BY <2>2, <3>1, <3>2, PageOfSequence
      <4> QED BY <2>2, <2>3, <2>4, <3>1, <3>2, <4>1, <4>2
    <3>3. CASE ~(s \in ToSet(sessions) /\ TenantOfSession(s) = t)
      <4>1. ReadEvents(t, tenant, s, 0, 100) = <<>>
        BY <2>1, <2>6, <3>3 DEF ReadEvents
      <4> QED BY <2>1, <2>3, <2>4, <2>6, <4>1
    <3> QED BY <3>2, <3>3
  <2> QED BY <2>5, <2>6
<1>3. IInv /\ Held => ReadsAreScoped
  BY <1>1, <1>2 DEF ReadsAreScoped
<1> QED BY <1>3, HeldInvariance, PTL

-----------------------------------------------------------------------------
(***************************************************************************)
(* Provider keys                                                           *)
(***************************************************************************)
\* An entry is looked up under every name of the provider, the tenant's before everybody's.
LEMMA LookupFacts ==
  ASSUME NEW p, NEW t
  PROVE  /\ \E n \in Nat : DOMAIN Lookups(p, t) = 1..n
         /\ {Lookups(p, t)[i] : i \in DOMAIN Lookups(p, t)} = {t, Everybody} \X ToSet(Names(p))
<1> DEFINE T == {p} \cup ToSet(ProviderNames)
           others == {q \in ToSet(ProviderNames) : EnvKey(q) = EnvKey(p) /\ q # p}
           n == Len(Names(p))
           own == [i \in 1..n |-> <<t, Names(p)[i]>>]
           common == [i \in 1..n |-> <<Everybody, Names(p)[i]>>]
           look == Lookups(p, t)
<1>1. Names(p) \in Seq(T)
  <2>1. ProviderNames \in Seq(ToSet(ProviderNames))
    BY DEF ProviderNames, ToSet
  <2>2. ProviderNames \in Seq(T)
    <3> HIDE DEF T
    <3>1. ToSet(ProviderNames) \subseteq T
      BY DEF T
    <3> QED BY <2>1, <3>1
  <2>3. Only(ProviderNames, others) \in Seq(T)
    <3> HIDE DEF T, others
    <3> QED BY <2>2, OnlySelects
  <2>4. <<p>> \in Seq(T)
    OBVIOUS
  <2>5. Names(p) = <<p>> \o Only(ProviderNames, others)
    BY DEF Names
  <2> HIDE DEF T, others
  <2> QED BY <2>3, <2>4, <2>5
<1> HIDE DEF T
<1>2. n \in Nat /\ DOMAIN Names(p) = 1..n
  BY <1>1
<1> HIDE DEF n
<1>3. look = own \o common
  BY DEF Lookups, n
<1> DEFINE U == {t, Everybody} \X ToSet(Names(p))
<1>4. \A i \in 1..n : Names(p)[i] \in ToSet(Names(p))
  BY <1>2 DEF ToSet
<1>5. own \in Seq(U) /\ Len(own) = n
  BY <1>2, <1>4
<1>6. common \in Seq(U) /\ Len(common) = n
  BY <1>2, <1>4
<1>7. /\ DOMAIN look = 1..(n + n)
      /\ \A i \in 1..(n + n) : look[i] = IF i <= n THEN own[i] ELSE common[i - n]
  <2> HIDE DEF own, common, look, U
  <2>1. look \in Seq(U) /\ Len(look) = n + n
    BY <1>3, <1>5, <1>6, ConcatProperties
  <2>2. \A i \in 1..(n + n) : look[i] = IF i <= n THEN own[i] ELSE common[i - n]
    BY <1>3, <1>5, <1>6, ConcatProperties
  <2> QED BY <1>2, <2>1, <2>2
<1>8. \A i \in 1..(n + n) : look[i] \in {t, Everybody} \X ToSet(Names(p))
  <2> SUFFICES ASSUME NEW i \in 1..(n + n) PROVE look[i] \in {t, Everybody} \X ToSet(Names(p))
    OBVIOUS
  <2> HIDE DEF look
  <2>1. CASE i <= n
    <3>1. i \in 1..n
      BY <1>2, <2>1
    <3>2. look[i] = own[i]
      BY <1>7, <2>1
    <3> QED BY <1>4, <3>1, <3>2
  <2>2. CASE ~(i <= n)
    <3>1. i - n \in 1..n
      BY <1>2, <2>2
    <3>2. look[i] = common[i - n]
      BY <1>7, <2>2
    <3> QED BY <1>4, <3>1, <3>2
  <2> QED BY <2>1, <2>2
<1>9. \A x \in {t, Everybody} \X ToSet(Names(p)) : \E i \in 1..(n + n) : look[i] = x
  <2> HIDE DEF look
  <2> SUFFICES ASSUME NEW x \in {t, Everybody} \X ToSet(Names(p))
               PROVE  \E i \in 1..(n + n) : look[i] = x
    OBVIOUS
  <2>3. PICK w \in {t, Everybody}, j \in 1..n : x = <<w, Names(p)[j]>>
    BY <1>2 DEF ToSet
  <2>1. CASE w = t
    <3>1. j \in 1..(n + n) /\ j <= n
      BY <1>2
    <3> QED BY <1>7, <2>1, <2>3, <3>1
  <2>2. CASE w = Everybody
    <3>1. j + n \in 1..(n + n) /\ ~(j + n <= n) /\ (j + n) - n = j
      BY <1>2
    <3> QED BY <1>7, <2>2, <2>3, <3>1
  <2> QED BY <2>1, <2>2
<1>10. n + n \in Nat
  BY <1>2
<1>11. {look[i] : i \in 1..(n + n)} = {t, Everybody} \X ToSet(Names(p))
  <2> HIDE DEF look
  <2> QED BY <1>8, <1>9
<1> QED BY <1>7, <1>10, <1>11

\* Where a resolution finds its key: the environment, else an entry of the admin store, else
\* a test key whose time is not over, else nowhere.
LEMMA WhereFrom ==
  ASSUME NEW p, NEW t, NEW admin, NEW eph
  PROVE  LET r == resolve(p, t, admin, eph)
             here == {t, Everybody} \X ToSet(Names(p))
         IN  /\ r.source = "env" <=> EnvKey(p) \in EnvSet
             /\ r.source = "none" =>
                  here \cap DOMAIN admin = {} /\ \A s \in here : ~Usable(eph, s)
             /\ r.source = "ephemeral_ui" =>
                  here \cap DOMAIN admin = {} /\ \E s \in here : Usable(eph, s) /\ r.key = eph[s].key
<1> DEFINE r == resolve(p, t, admin, eph)
           here == {t, Everybody} \X ToSet(Names(p))
           look == Lookups(p, t)
           set == {i \in DOMAIN look : look[i] \in DOMAIN admin}
           fresh == {i \in DOMAIN look : Usable(eph, look[i])}
           first == FirstOf(look, LAMBDA s : Usable(eph, s))
           stored == admin[look[FirstOf(look, LAMBDA s : s \in DOMAIN admin)]]
<1>1. r = IF EnvKey(p) \in EnvSet THEN [key |-> EnvKey(p), source |-> "env"]
          ELSE IF set # {} THEN [key |-> stored, source |-> "admin_store"]
          ELSE IF fresh # {} THEN [key |-> eph[look[first]].key, source |-> "ephemeral_ui"]
          ELSE [key |-> NoKey, source |-> "none"]
  BY DEF resolve
<1> HIDE DEF stored
<1>2. PICK n \in Nat : DOMAIN look = 1..n
  BY LookupFacts
<1>3. {look[i] : i \in DOMAIN look} = here
  BY LookupFacts
<1>4. fresh # {} => first \in fresh
  <2> SUFFICES ASSUME fresh # {} PROVE first \in fresh
    OBVIOUS
  <2>1. fresh \subseteq Nat
    BY <1>2
  <2>2. PICK m \in fresh : \A k \in fresh : m <= k
    <3> HIDE DEF fresh
    <3> QED BY <2>1, LeastNumber
  <2>3. \A j \in 1..(m - 1) : ~Usable(eph, look[j])
    <3> HIDE DEF look
    <3>1. SUFFICES ASSUME NEW j \in 1..(m - 1), j \in fresh PROVE FALSE
      BY <1>2, <2>2
    <3>2. m \in Nat /\ j \in Nat
      BY <1>2, <2>2
    <3>3. m <= j
      BY <2>2, <3>1
    <3> QED BY <3>2, <3>3
  <2>4. first = CHOOSE i \in DOMAIN look : Usable(eph, look[i]) /\ \A j \in 1..(i - 1) : ~Usable(eph, look[j])
    BY DEF FirstOf
  <2> HIDE DEF look, first
  <2> QED BY <2>2, <2>3, <2>4
<1> HIDE DEF look, first
<1>5. set = {} => here \cap DOMAIN admin = {}
  BY <1>3
<1>6. fresh = {} => \A s \in here : ~Usable(eph, s)
  BY <1>3
<1>7. fresh # {} => look[first] \in here /\ Usable(eph, look[first])
  BY <1>3, <1>4
<1> HIDE DEF set, fresh, r, here
<1>8. SUFFICES /\ r.source = "env" <=> EnvKey(p) \in EnvSet
               /\ r.source = "none" =>
                    here \cap DOMAIN admin = {} /\ \A s \in here : ~Usable(eph, s)
               /\ r.source = "ephemeral_ui" =>
                    here \cap DOMAIN admin = {}
                    /\ \E s \in here : Usable(eph, s) /\ r.key = eph[s].key
  BY DEF r, here
<1>9. CASE EnvKey(p) \in EnvSet
  BY <1>1, <1>9
<1>10. CASE EnvKey(p) \notin EnvSet /\ set # {}
  BY <1>1, <1>10
<1>11. CASE EnvKey(p) \notin EnvSet /\ set = {} /\ fresh # {}
  BY <1>1, <1>5, <1>7, <1>11
<1>12. CASE EnvKey(p) \notin EnvSet /\ set = {} /\ fresh = {}
  BY <1>1, <1>5, <1>6, <1>12
<1> QED BY <1>9, <1>10, <1>11, <1>12

\* What everybody has under some name every tenant has too.
LEMMA EverybodyHelps ==
  ASSUME NEW p, NEW t, NEW admin, NEW eph, resolve(p, Everybody, admin, eph).source # "none"
  PROVE  resolve(p, t, admin, eph).source # "none"
<1> DEFINE q == resolve(p, Everybody, admin, eph)
           r == resolve(p, t, admin, eph)
           names == ToSet(Names(p))
<1>1. SUFFICES ASSUME r.source = "none" PROVE FALSE
  OBVIOUS
<1>2. /\ EnvKey(p) \notin EnvSet
      /\ ({t, Everybody} \X names) \cap DOMAIN admin = {}
      /\ \A s \in {t, Everybody} \X names : ~Usable(eph, s)
  BY <1>1, WhereFrom
<1>3. {Everybody, Everybody} \X names \subseteq {t, Everybody} \X names
  OBVIOUS
<1>4. q.source # "env"
  BY <1>2, WhereFrom
<1>5. q.source # "ephemeral_ui"
  BY <1>2, <1>3, WhereFrom
<1>6. q.source # "admin_store"
  <2> DEFINE look == Lookups(p, Everybody)
  <2>1. {look[i] : i \in DOMAIN look} = {Everybody, Everybody} \X names
    BY LookupFacts
  <2>2. {i \in DOMAIN look : look[i] \in DOMAIN admin} = {}
    <3> HIDE DEF look
    <3> QED BY <1>2, <1>3, <2>1
  <2> QED BY <2>2 DEF resolve
<1> QED BY <1>4, <1>5, <1>6, ResolveType DEF Sources

\* However keys are entered, run out and are cleared, a test key decides only where the host
\* has none and never after its time, and what the console shows as ready has a key for every
\* tenant (EnvAdminEphemeralResolver.resolve, GET /api/compositions).
THEOREM KeysInOrder == Spec => []KeyComesInOrder
<1>1. ASSUME Held, NEW p \in KeyNames \cup {"typesafe"}, NEW t \in AllTenants
      PROVE  LET r == resolve(p, t, admin_store, ephemeral)
                 here == {t, Everybody} \X ToSet(Names(p))
             IN  /\ r.source = "env" <=> EnvKey(p) \in EnvSet
                 /\ r.source = "ephemeral_ui" =>
                      /\ here \cap DOMAIN admin_store = {}
                      /\ \E s \in here \cap DOMAIN ephemeral : ephemeral[s] = [key |-> r.key, expired |-> FALSE]
                 /\ r.source = "none" =>
                      /\ here \cap DOMAIN admin_store = {}
                      /\ \A s \in here \cap DOMAIN ephemeral : ephemeral[s].expired
  <2> DEFINE r == resolve(p, t, admin_store, ephemeral)
             here == {t, Everybody} \X ToSet(Names(p))
  <2>1. \A s \in DOMAIN ephemeral : ephemeral[s] \in [key : Keys, expired : BOOLEAN]
    BY <1>1 DEF Held, TestKeysTyped
  <2>2. /\ r.source = "env" <=> EnvKey(p) \in EnvSet
        /\ r.source = "none" =>
             here \cap DOMAIN admin_store = {} /\ \A s \in here : ~Usable(ephemeral, s)
        /\ r.source = "ephemeral_ui" =>
             here \cap DOMAIN admin_store = {}
             /\ \E s \in here : Usable(ephemeral, s) /\ r.key = ephemeral[s].key
    BY WhereFrom
  <2> HIDE DEF r, here
  <2>3. ASSUME NEW s \in here, Usable(ephemeral, s), r.key = ephemeral[s].key
        PROVE  s \in DOMAIN ephemeral /\ ephemeral[s] = [key |-> r.key, expired |-> FALSE]
    BY <2>1, <2>3 DEF Usable
  <2>4. \A s \in here \cap DOMAIN ephemeral : ~Usable(ephemeral, s) => ephemeral[s].expired
    BY DEF Usable
  <2>5. r.source = "ephemeral_ui" =>
          /\ here \cap DOMAIN admin_store = {}
          /\ \E s \in here \cap DOMAIN ephemeral : ephemeral[s] = [key |-> r.key, expired |-> FALSE]
    BY <2>2, <2>3
  <2>6. r.source = "none" =>
          /\ here \cap DOMAIN admin_store = {}
          /\ \A s \in here \cap DOMAIN ephemeral : ephemeral[s].expired
    BY <2>2, <2>4
  <2> QED BY ONLY <2>2, <2>5, <2>6 DEF r, here
<1>2. ASSUME NEW comp \in DOMAIN Compositions, NEW t \in Tenants, Ready(comp),
             Compositions[comp].s2s # "mock"
      PROVE  resolve(Compositions[comp].s2s, t, admin_store, ephemeral).source # "none"
  BY <1>2, EverybodyHelps DEF Ready
<1>3. IInv /\ Held => KeyComesInOrder
  BY <1>1, <1>2 DEF KeyComesInOrder
<1> QED BY <1>3, HeldInvariance, PTL

=============================================================================
