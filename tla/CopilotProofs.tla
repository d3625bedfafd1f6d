--------------------------- MODULE CopilotProofs ---------------------------
(***************************************************************************)
(* What holds of a configuration session for any drafts, tools, gaps,      *)
(* contradictions and capabilities.                                        *)
(***************************************************************************)
EXTENDS Copilot, FunctionTheorems, SequenceTheorems, WellFoundedInduction, FiniteSetTheorems,
        TLAPS

-----------------------------------------------------------------------------
(***************************************************************************)
(* Sequences of elements with a path, of which the first of each path is   *)
(* kept.                                                                   *)
(***************************************************************************)
IsSeq(s) == s \in Seq(ToSet(s))

Paths(s) == {x.path : x \in ToSet(s)}

\* The first element of each path.
Firsts(s) == {s[i] : i \in {i \in DOMAIN s : \A j \in 1..(i - 1) : s[j].path # s[i].path}}

\* What the elements of a sequence are.
LEMMA Elements ==
  ASSUME NEW s, IsSeq(s)
  PROVE  /\ Len(s) \in Nat /\ DOMAIN s = 1..Len(s)
         /\ \A x : x \in ToSet(s) <=> \E i \in 1..Len(s) : x = s[i]
BY DEF IsSeq, ToSet

\* Every typed sequence is one.
LEMMA TypedIsSeq ==
  ASSUME NEW S, NEW s \in Seq(S)
  PROVE  IsSeq(s) /\ ToSet(s) \subseteq S
BY DEF IsSeq, ToSet

\* A function on a prefix of the numbers is one.
LEMMA FunctionIsSeq ==
  ASSUME NEW n \in Nat, NEW f, f = [i \in 1..n |-> f[i]]
  PROVE  IsSeq(f) /\ Len(f) = n
<1>1. f \in [1..n -> ToSet(f)]
  BY DEF ToSet
<1>2. f \in Seq(ToSet(f)) /\ Len(f) = n
  BY <1>1, SeqDef
<1> QED BY <1>2 DEF IsSeq

\* A concatenation has the elements of both.
LEMMA Joined ==
  ASSUME NEW s, NEW t, IsSeq(s), IsSeq(t)
  PROVE  /\ IsSeq(s \o t) /\ Len(s \o t) = Len(s) + Len(t)
         /\ \A i \in 1..Len(s) : i \in 1..Len(s \o t) /\ (s \o t)[i] = s[i]
         /\ \A i \in 1..Len(t) : Len(s) + i \in 1..Len(s \o t) /\ (s \o t)[Len(s) + i] = t[i]
         /\ \A k \in 1..Len(s \o t) : k \in 1..Len(s) \/ \E i \in 1..Len(t) : k = Len(s) + i
         /\ ToSet(s \o t) = ToSet(s) \cup ToSet(t)
<1> DEFINE S == ToSet(s) \cup ToSet(t)
           m == Len(s)
           n == Len(t)
           st == s \o t
<1>1. s \in Seq(S) /\ t \in Seq(S)
  BY DEF IsSeq
<1>2. /\ m \in Nat /\ DOMAIN s = 1..m /\ n \in Nat /\ DOMAIN t = 1..n
      /\ st \in Seq(S) /\ Len(st) = m + n
      /\ \A i \in 1..(m + n) : st[i] = IF i <= m THEN s[i] ELSE t[i - m]
  BY <1>1, ConcatProperties
<1>3. DOMAIN st = 1..(m + n)
  BY <1>2
<1> HIDE DEF S, m, n, st
<1>4. /\ \A i \in 1..m : i \in 1..(m + n) /\ st[i] = s[i]
      /\ \A i \in 1..n : m + i \in 1..(m + n) /\ st[m + i] = t[i]
      /\ \A k \in 1..(m + n) : k \in 1..m \/ \E i \in 1..n : k = m + i
  <2>1. \A i \in 1..m : i \in 1..(m + n) /\ st[i] = s[i]
    BY <1>2
  <2>2. \A i \in 1..n : m + i \in 1..(m + n) /\ ~(m + i <= m) /\ (m + i) - m = i
    BY <1>2
  <2>3. \A k \in 1..(m + n) : k \in 1..m \/ \E i \in 1..n : k = m + i
    <3> SUFFICES ASSUME NEW k \in 1..(m + n), k \notin 1..m PROVE \E i \in 1..n : k = m + i
      OBVIOUS
    <3>1. k - m \in 1..n /\ k = m + (k - m)
      BY <1>2
    <3> QED BY <3>1
  <2>4. \A i \in 1..n : st[m + i] = t[i]
    BY <1>2, <2>2
  <2> QED BY <2>1, <2>2, <2>3, <2>4
<1>5. \A x : x \in ToSet(st) <=> x \in ToSet(s) \/ x \in ToSet(t)
  <2>1. /\ \A x : x \in ToSet(st) <=> \E k \in 1..(m + n) : x = st[k]
        /\ \A x : x \in ToSet(s) <=> \E i \in 1..m : x = s[i]
        /\ \A x : x \in ToSet(t) <=> \E i \in 1..n : x = t[i]
    BY <1>2, <1>3 DEF ToSet
  <2>2. ASSUME NEW x, x \in ToSet(st) PROVE x \in ToSet(s) \/ x \in ToSet(t)
    <3>1. PICK k \in 1..(m + n) : x = st[k]
      BY <2>1, <2>2
    <3> QED BY <1>4, <2>1, <3>1
  <2>3. ASSUME NEW x, x \in ToSet(s) \/ x \in ToSet(t) PROVE x \in ToSet(st)
    BY <1>4, <2>1, <2>3
  <2> QED BY <2>2, <2>3
<1>6. ToSet(st) = ToSet(s) \cup ToSet(t)
  BY <1>5
<1>7. IsSeq(st)
  BY <1>2, <1>6 DEF IsSeq, S
<1> QED BY <1>2, <1>4, <1>6, <1>7 DEF st, m, n

\* Every non-empty set of numbers has a least one.
LEMMA LeastNumber ==
  ASSUME NEW T, T \subseteq Nat, T # {}
  PROVE  \E m \in T : \A k \in T : m <= k
<1> DEFINE R == StrictSubsetOrdering(Nat)
           F == FiniteSubsetsOf(Nat)
           Ends == {0..k : k \in T}
<1>1. IsWellFoundedOn(R, F)
  BY FS_StrictSubsetOrderingWellFounded
<1>2. Ends \subseteq F
  <2> SUFFICES ASSUME NEW k \in T PROVE 0..k \in F
    OBVIOUS
  <2>1. k \in Nat /\ 0 \in Int /\ k \in Int
    OBVIOUS
  <2>2. IsFiniteSet(0..k)
    BY <2>1, FS_Interval
  <2>3. 0..k \subseteq Nat
    OBVIOUS
  <2> QED BY <2>2, <2>3 DEF FiniteSubsetsOf
<1>3. Ends # {}
  OBVIOUS
<1> HIDE DEF F
<1>4. PICK e \in Ends : \A d \in Ends : <<d, e>> \notin R
  <2> HIDE DEF R, Ends
  <2> QED BY <1>1, <1>2, <1>3, WFMin
<1>5. PICK m \in T : e = 0..m
  OBVIOUS
<1>6. ASSUME NEW k \in T, ~(m <= k) PROVE FALSE
  <2>1. k \in Nat /\ m \in Nat /\ k < m
    BY <1>6
  <2>2. 0..k \subseteq 0..m /\ 0..k # 0..m
    <3>1. m \in 0..m /\ m \notin 0..k
      BY <2>1
    <3>2. \A i \in 0..k : i \in 0..m
      BY <2>1
    <3> QED BY <3>1, <3>2
  <2>3. 0..k \in SUBSET Nat /\ 0..m \in SUBSET Nat
    BY <2>1
  <2>4. <<0..k, 0..m>> \in R
    BY <2>2, <2>3 DEF StrictSubsetOrdering
  <2> QED BY <1>4, <1>5, <2>4
<1> QED BY <1>6

\* What the prefixes of a sequence have in common: a set that holds 0, and each number
\* with the one before it, holds every number up to n.
LEMMA UpTo ==
  ASSUME NEW n \in Nat, NEW Good, 0 \in Good,
         \A k \in 1..n : k - 1 \in Good => k \in Good
  PROVE  0..n \subseteq Good
<1> DEFINE Bad == (0..n) \ Good
<1>1. SUFFICES ASSUME Bad # {} PROVE FALSE
  OBVIOUS
<1>2. Bad \subseteq Nat
  OBVIOUS
<1>3. PICK m \in Bad : \A k \in Bad : m <= k
  <2> HIDE DEF Bad
  <2> QED BY <1>1, <1>2, LeastNumber
<1>4. m \in 1..n /\ m - 1 \in 0..n /\ ~(m <= m - 1) /\ m \notin Good
  BY <1>3
<1>5. m - 1 \in Good
  BY <1>3, <1>4
<1> QED BY <1>4, <1>5

\* The first elements of a concatenation: those of its head, and those of its tail whose path
\* is not in the head.
LEMMA FirstsJoined ==
  ASSUME NEW s, NEW t, IsSeq(s), IsSeq(t)
  PROVE  /\ Paths(s \o t) = Paths(s) \cup Paths(t)
         /\ Firsts(s \o t) = Firsts(s) \cup {x \in Firsts(t) : x.path \notin Paths(s)}
<1> DEFINE m == Len(s)
           n == Len(t)
           st == s \o t
           Lead(q, i) == \A j \in 1..(i - 1) : q[j].path # q[i].path
<1>1. /\ m \in Nat /\ DOMAIN s = 1..m /\ n \in Nat /\ DOMAIN t = 1..n
      /\ DOMAIN st = 1..(m + n) /\ ToSet(st) = ToSet(s) \cup ToSet(t)
      /\ \A i \in 1..m : i \in 1..(m + n) /\ st[i] = s[i]
      /\ \A i \in 1..n : m + i \in 1..(m + n) /\ st[m + i] = t[i]
      /\ \A k \in 1..(m + n) : k \in 1..m \/ \E i \in 1..n : k = m + i
  BY Joined, Elements
<1> HIDE DEF m, n, st
<1>2. Paths(st) = Paths(s) \cup Paths(t)
  BY <1>1 DEF Paths
<1>3. \A p : p \in Paths(s) <=> \E j \in 1..m : s[j].path = p
  BY <1>1 DEF Paths, ToSet
<1>4. \A i \in 1..m : Lead(st, i) <=> Lead(s, i)
  <2> SUFFICES ASSUME NEW i \in 1..m PROVE Lead(st, i) <=> Lead(s, i)
    OBVIOUS
  <2>1. \A j \in 1..(i - 1) : j \in 1..m
    BY <1>1
  <2> QED BY <1>1, <2>1
<1>5. \A i \in 1..n : Lead(st, m + i) <=> Lead(t, i) /\ t[i].path \notin Paths(s)
  <2> SUFFICES ASSUME NEW i \in 1..n
               PROVE  Lead(st, m + i) <=> Lead(t, i) /\ t[i].path \notin Paths(s)
    OBVIOUS
  <2>1. /\ \A j \in 1..m : j \in 1..((m + i) - 1)
        /\ \A j \in 1..(i - 1) : j \in 1..n /\ m + j \in 1..((m + i) - 1)
    BY <1>1
  <2>2. \A j \in 1..((m + i) - 1) : j \in 1..m \/ \E k \in 1..(i - 1) : j = m + k
    <3> SUFFICES ASSUME NEW j \in 1..((m + i) - 1), j \notin 1..m
                 PROVE  \E k \in 1..(i - 1) : j = m + k
      OBVIOUS
    <3>1. j - m \in 1..(i - 1) /\ j = m + (j - m)
      BY <1>1
    <3> QED BY <3>1
  <2>3. st[m + i] = t[i] /\ \A j \in 1..m : st[j] = s[j]
    BY <1>1
  <2>4. \A k \in 1..(i - 1) : st[m + k] = t[k]
    BY <1>1, <2>1
  <2> QED BY <1>3, <2>1, <2>2, <2>3, <2>4
<1>6. \A x : x \in Firsts(st) <=> \E k \in 1..(m + n) : x = st[k] /\ Lead(st, k)
  BY <1>1 DEF Firsts
<1>7. \A x : x \in Firsts(s) <=> \E k \in 1..m : x = s[k] /\ Lead(s, k)
  BY <1>1 DEF Firsts
<1>8. \A x : x \in Firsts(t) <=> \E k \in 1..n : x = t[k] /\ Lead(t, k)
  BY <1>1 DEF Firsts
<1> HIDE DEF Lead
<1>9. \A x : x \in Firsts(st) <=> x \in Firsts(s) \/ (x \in Firsts(t) /\ x.path \notin Paths(s))
  <2> TAKE x
  <2>1. ASSUME x \in Firsts(st) PROVE x \in Firsts(s) \/ (x \in Firsts(t) /\ x.path \notin Paths(s))
    <3>1. PICK k \in 1..(m + n) : x = st[k] /\ Lead(st, k)
      BY <1>6, <2>1
    <3>2. CASE k \in 1..m
      BY <1>1, <1>4, <1>7, <3>1, <3>2
    <3>3. CASE k \notin 1..m
      <4>1. PICK i \in 1..n : k = m + i
        BY <1>1, <3>3
      <4> QED BY <1>1, <1>5, <1>8, <3>1, <4>1
    <3> QED BY <3>2, <3>3
  <2>2. ASSUME x \in Firsts(s) PROVE x \in Firsts(st)
    BY <1>1, <1>4, <1>6, <1>7, <2>2
  <2>3. ASSUME x \in Firsts(t), x.path \notin Paths(s) PROVE x \in Firsts(st)
    BY <1>1, <1>5, <1>6, <1>8, <2>3
  <2> QED BY <2>1, <2>2, <2>3
<1> QED BY <1>2, <1>9 DEF st

\* Every path has a first element.
LEMMA EveryPathHasFirst ==
  ASSUME NEW s, IsSeq(s)
  PROVE  /\ Firsts(s) \subseteq ToSet(s)
         /\ \A p \in Paths(s) : \E x \in Firsts(s) : x.path = p
         /\ \A x, y \in Firsts(s) : x.path = y.path => x = y
<1> DEFINE n == Len(s)
           Lead(i) == \A j \in 1..(i - 1) : s[j].path # s[i].path
<1>1. n \in Nat /\ DOMAIN s = 1..n
  BY Elements
<1> HIDE DEF n
<1>2. Firsts(s) \subseteq ToSet(s)
  BY <1>1 DEF Firsts, ToSet
<1>3. ASSUME NEW p \in Paths(s) PROVE \E x \in Firsts(s) : x.path = p
  <2> DEFINE T == {i \in 1..n : s[i].path = p}
  <2>1. T # {} /\ T \subseteq Nat
    BY <1>1 DEF Paths, ToSet
  <2>2. PICK i \in T : \A k \in T : i <= k
    <3> HIDE DEF T
    <3> QED BY <2>1, LeastNumber
  <2>3. Lead(i)
    <3> SUFFICES ASSUME NEW j \in 1..(i - 1) PROVE s[j].path # s[i].path
      OBVIOUS
    <3>1. j \in 1..n /\ ~(i <= j)
      BY <1>1, <2>2
    <3> QED BY <2>2, <3>1
  <2>4. s[i] \in Firsts(s)
    BY <1>1, <2>3 DEF Firsts
  <2> QED BY <2>4
<1>4. ASSUME NEW x \in Firsts(s), NEW y \in Firsts(s), x.path = y.path PROVE x = y
  <2>1. PICK i \in 1..n : x = s[i] /\ Lead(i)
    BY <1>1 DEF Firsts
  <2>2. PICK j \in 1..n : y = s[j] /\ Lead(j)
    BY <1>1 DEF Firsts
  <2>3. i = j \/ i \in 1..(j - 1) \/ j \in 1..(i - 1)
    BY <1>1
  <2> QED BY <1>4, <2>1, <2>2, <2>3
<1> QED BY <1>2, <1>3, <1>4

\* A sequence of one element, and of none.
LEMMA Single ==
  ASSUME NEW x
  PROVE  /\ IsSeq(<<x>>) /\ ToSet(<<x>>) = {x} /\ Paths(<<x>>) = {x.path} /\ Firsts(<<x>>) = {x}
<1>1. <<x>> \in Seq({x}) /\ Len(<<x>>) = 1 /\ <<x>>[1] = x /\ DOMAIN <<x>> = {1}
  OBVIOUS
<1>2. ToSet(<<x>>) = {x}
  BY <1>1 DEF ToSet
<1>3. Firsts(<<x>>) = {x}
  <2>1. \A i \in DOMAIN <<x>> : 1..(i - 1) = {}
    BY <1>1
  <2> QED BY <1>1, <2>1 DEF Firsts
<1> QED BY <1>1, <1>2, <1>3 DEF IsSeq, Paths

\* The empty sequence has no element, no path and no first.
LEMMA Nothing ==
  IsSeq(<<>>) /\ ToSet(<<>>) = {} /\ Paths(<<>>) = {} /\ Firsts(<<>>) = {}
<1>1. <<>> \in Seq({}) /\ DOMAIN <<>> = {}
  OBVIOUS
<1> QED BY <1>1 DEF IsSeq, ToSet, Paths, Firsts

\* FlattenSeq, with each of its prefixes.
FlatSteps(f, ss) ==
  /\ f[1] = ss[1]
  /\ \A n \in 2..Len(ss) : f[n] = f[n - 1] \o ss[n]

\* Flattening unfolds into them.
LEMMA FlattenUnfolds ==
  ASSUME NEW ss, Len(ss) \in Nat \ {0}
  PROVE  \E f : FlatSteps(f, ss) /\ FlattenSeq(ss) = f[Len(ss)]
<1> DEFINE n == Len(ss)
           Body(f, i) == IF i = 1 THEN ss[i] ELSE f[i - 1] \o ss[i]
           Upto(k) == \E g : g = [i \in 1..k |-> Body(g, i)]
           Good == {k \in Nat : Upto(k)}
<1>1. 0 \in Good
  <2>1. <<>> = [i \in 1..0 |-> Body(<<>>, i)]
    OBVIOUS
  <2> QED BY <2>1
<1>2. \A k \in 1..n : k - 1 \in Good => k \in Good
  <2> SUFFICES ASSUME NEW k \in 1..n, k - 1 \in Good PROVE k \in Good
    OBVIOUS
  <2>1. PICK g : g = [i \in 1..(k - 1) |-> Body(g, i)]
    OBVIOUS
  <2> DEFINE h == [i \in 1..k |-> IF i = k THEN Body(g, k) ELSE g[i]]
  <2>2. \A i \in 1..k : h[i] = Body(h, i)
    <3> SUFFICES ASSUME NEW i \in 1..k PROVE h[i] = Body(h, i)
      OBVIOUS
    <3>1. CASE i = 1 /\ i # k
      <4>1. 1 \in 1..(k - 1)
        BY <3>1
      <4> QED BY <2>1, <3>1, <4>1
    <3>2. CASE i # 1 /\ i # k
      <4>1. i \in 1..(k - 1) /\ i - 1 \in 1..k /\ i - 1 # k
        BY <3>2
      <4>2. h[i] = g[i] /\ h[i - 1] = g[i - 1]
        BY <3>2, <4>1
      <4>3. g[i] = Body(g, i)
        BY <2>1, <4>1
      <4> QED BY <3>2, <4>2, <4>3
    <3>3. CASE i = k /\ k # 1
      <4>1. k - 1 \in 1..k /\ k - 1 # k
        BY <3>3
      <4>2. h[k - 1] = g[k - 1] /\ h[k] = Body(g, k)
        BY <4>1
      <4> QED BY <3>3, <4>1, <4>2
    <3>4. CASE i = k /\ k = 1
      BY <3>4
    <3> QED BY <3>1, <3>2, <3>3, <3>4
  <2>3. h = [i \in 1..k |-> Body(h, i)]
    <3>1. h = [i \in 1..k |-> h[i]]
      OBVIOUS
    <3> HIDE DEF h
    <3> QED BY <2>2, <3>1
  <2>4. k \in Nat
    OBVIOUS
  <2> HIDE DEF h
  <2> QED BY <2>3, <2>4
<1>3. n \in Good
  <2> HIDE DEF Good
  <2>1. n \in 0..n
    OBVIOUS
  <2> QED BY <1>1, <1>2, <2>1, UpTo
<1> DEFINE f == CHOOSE g : g = [i \in 1..n |-> Body(g, i)]
<1>4. f = [i \in 1..n |-> Body(f, i)]
  BY <1>3
<1>5. FlattenSeq(ss) = f[n]
  BY DEF FlattenSeq
<1> HIDE DEF f
<1>6. FlatSteps(f, ss)
  <2>1. 1 \in 1..n /\ \A i \in 2..n : i \in 1..n /\ i # 1
    OBVIOUS
  <2> QED BY <1>4, <2>1 DEF FlatSteps
<1> QED BY <1>5, <1>6

\* What flattening yields: the elements of every part, and of them the first of each path.
LEMMA Flattened ==
  ASSUME NEW n \in Nat, NEW ss, ss = [i \in 1..n |-> ss[i]], \A i \in 1..n : IsSeq(ss[i])
  PROVE  /\ IsSeq(FlattenSeq(ss))
         /\ \A x : x \in ToSet(FlattenSeq(ss)) <=> \E i \in 1..n : x \in ToSet(ss[i])
         /\ \A x : x \in Firsts(FlattenSeq(ss)) <=>
              \E i \in 1..n : x \in Firsts(ss[i]) /\ \A j \in 1..(i - 1) : x.path \notin Paths(ss[j])
<1>1. Len(ss) = n
  BY FunctionIsSeq
<1>2. CASE n = 0
  <2>1. FlattenSeq(ss) = ss /\ ss = <<>>
    BY <1>1, <1>2 DEF FlattenSeq
  <2> QED BY <1>2, <2>1, Nothing
<1>3. CASE n # 0
  <2>1. PICK f : FlatSteps(f, ss) /\ FlattenSeq(ss) = f[n]
    BY <1>1, <1>3, FlattenUnfolds
  <2> DEFINE Of(k) ==
               /\ IsSeq(f[k])
               /\ \A x : x \in ToSet(f[k]) <=> \E i \in 1..k : x \in ToSet(ss[i])
               /\ \A p : p \in Paths(f[k]) <=> \E i \in 1..k : p \in Paths(ss[i])
               /\ \A x : x \in Firsts(f[k]) <=>
                    \E i \in 1..k : /\ x \in Firsts(ss[i])
                                    /\ \A j \in 1..(i - 1) : x.path \notin Paths(ss[j])
             Good == {k \in Nat : k # 0 => Of(k)}
  <2>2. 0 \in Good
    OBVIOUS
  <2>3. \A k \in 1..n : k - 1 \in Good => k \in Good
    <3> HIDE DEF Of
    <3> SUFFICES ASSUME NEW k \in 1..n, k - 1 \in Good PROVE Of(k)
      OBVIOUS
    <3> USE DEF Of
    <3>1. CASE k = 1
      <4>1. f[1] = ss[1] /\ IsSeq(ss[1])
        BY <1>1, <2>1, <3>1 DEF FlatSteps
      <4>2. \A i \in 1..1 : i = 1 /\ 1..(i - 1) = {}
        OBVIOUS
      <4>3. 1 \in 1..1
        OBVIOUS
      <4> HIDE DEF Good
      <4> QED BY <3>1, <4>1, <4>2, <4>3
    <3>2. CASE k # 1
      <4> DEFINE l == k - 1
      <4>1. l \in Nat /\ l # 0 /\ k = l + 1 /\ k \in 2..n
        BY <3>2
      <4>2. f[k] = f[l] \o ss[k] /\ IsSeq(ss[k])
        BY <1>1, <2>1, <4>1 DEF FlatSteps
      <4>3. Of(l)
        BY <4>1
      <4>4. (1..k) = (1..l) \cup {k} /\ k \notin 1..l /\ (1..(k - 1)) = 1..l
        BY <4>1
      <4> HIDE DEF l, Good
      <4>5. IsSeq(f[l])
        BY <4>3
      <4>6. /\ IsSeq(f[k]) /\ ToSet(f[k]) = ToSet(f[l]) \cup ToSet(ss[k])
            /\ Paths(f[k]) = Paths(f[l]) \cup Paths(ss[k])
            /\ Firsts(f[k]) = Firsts(f[l]) \cup {x \in Firsts(ss[k]) : x.path \notin Paths(f[l])}
        BY <4>2, <4>5, Joined, FirstsJoined
      <4>7. \A x : x \in ToSet(f[k]) <=> \E i \in 1..k : x \in ToSet(ss[i])
        BY <4>3, <4>4, <4>6
      <4>8. \A p : p \in Paths(f[k]) <=> \E i \in 1..k : p \in Paths(ss[i])
        BY <4>3, <4>4, <4>6
      <4>9. \A x : x \in Firsts(f[k]) <=>
              \E i \in 1..k : /\ x \in Firsts(ss[i])
                              /\ \A j \in 1..(i - 1) : x.path \notin Paths(ss[j])
        BY <4>3, <4>4, <4>6
      <4> QED BY <4>6, <4>7, <4>8, <4>9
    <3> QED BY <3>1, <3>2
  <2> HIDE DEF Good
  <2>4. n \in Good
    <3>1. n \in 0..n
      OBVIOUS
    <3> QED BY <2>2, <2>3, <3>1, UpTo
  <2>5. Of(n)
    BY <1>3, <2>4 DEF Good
  <2> QED BY <2>1, <2>5
<1> QED BY <1>2, <1>3

\* The elements of a finite set, in some order.
LEMMA Listed ==
  ASSUME NEW S, IsFiniteSet(S)
  PROVE  /\ IsSeq(SetToSeq(S)) /\ Len(SetToSeq(S)) = Cardinality(S)
         /\ DOMAIN SetToSeq(S) = 1..Cardinality(S) /\ Cardinality(S) \in Nat
         /\ ToSet(SetToSeq(S)) = S
<1> DEFINE n == Cardinality(S)
           F == {f \in [1..n -> S] : IsInjective(f)}
           s == SetToSeq(S)
<1>1. n \in Nat /\ \E f : f \in Bijection(1..n, S)
  BY FS_CardinalityType DEF ExistsBijection
<1>2. PICK f : f \in Bijection(1..n, S)
  BY <1>1
<1>3. f \in [1..n -> S] /\ IsInjective(f)
  BY <1>2 DEF Bijection, Injection, IsInjective
<1>4. s \in [1..n -> S] /\ IsInjective(s)
  BY <1>3 DEF SetToSeq
<1>5. s \in Injection(1..n, S) /\ IsFiniteSet(1..n) /\ Cardinality(1..n) = n
  <2>1. IsFiniteSet(1..n) /\ Cardinality(1..n) = n
    BY <1>1, FS_Interval
  <2> HIDE DEF n, s
  <2> QED BY <1>4, <2>1 DEF Injection, IsInjective
<1>6. s \in Surjection(1..n, S)
  <2> HIDE DEF s
  <2> QED BY <1>5, FS_Injection
<1> HIDE DEF s, n
<1>7. ToSet(s) = S
  BY <1>4, <1>6 DEF ToSet, Surjection
<1>8. s \in Seq(S) /\ Len(s) = n
  BY <1>1, <1>4, SeqDef
<1> QED BY <1>1, <1>4, <1>7, <1>8 DEF IsSeq, s, n

\* The rank of a question is a number.
LEMMA PriorityType ==
  ASSUME NEW q, q.kind \in DOMAIN Band, q.blocking \in BOOLEAN
  PROVE  Priority(q) \in Int
<1>1. Band[q.kind] \in Nat
  BY DEF Band
<1>2. Stage(q.path) \in Nat
  BY DEF Stage
<1> QED BY <1>1, <1>2 DEF Priority

\* Ranking changes the order of what is kept, and nothing else.
LEMMA Ranked ==
  ASSUME NEW raw, NEW kept, IsSeq(raw), kept \subseteq 1..Len(raw),
         \A i \in kept : Priority(raw[i]) \in Int
  PROVE  /\ IsSeq(rank(raw, kept))
         /\ ToSet(rank(raw, kept)) = {raw[i] : i \in kept}
<1> DEFINE n == Cardinality(kept)
           key == [i \in kept |-> <<Priority(raw[i]), i>>]
           keys == {<<Priority(raw[i]), i>> : i \in kept}
           before(a, b) == a[1] < b[1] \/ (a[1] = b[1] /\ a[2] < b[2])
           Before(i) == {b \in keys : before(b, key[i])}
           place == [i \in kept |-> 1 + Cardinality(Before(i))]
           places == {<<a[2], 1 + Cardinality({b \in keys : before(b, a)})>> : a \in keys}
           r == rank(raw, kept)
<1>1. IsFiniteSet(kept) /\ n \in Nat /\ kept \subseteq Nat
  <2>1. Len(raw) \in Nat /\ 1 \in Int /\ Len(raw) \in Int
    BY Elements
  <2>2. IsFiniteSet(1..Len(raw))
    BY <2>1, FS_Interval
  <2>3. kept \in SUBSET (1..Len(raw))
    OBVIOUS
  <2>4. IsFiniteSet(kept)
    BY <2>2, <2>3, FS_Subset
  <2>5. n \in Nat
    BY <2>4, FS_CardinalityType
  <2>6. kept \subseteq Nat
    BY <2>1
  <2> QED BY <2>4, <2>5, <2>6
<1>2. /\ \A i \in kept : key[i] \in keys /\ key[i][1] = Priority(raw[i]) /\ key[i][2] = i
      /\ \A a \in keys : a[2] \in kept /\ a = key[a[2]]
  OBVIOUS
<1>3. IsFiniteSet(keys) /\ Cardinality(keys) = n
  <2>1. key \in [kept -> keys] /\ (\A i, j \in kept : key[i] = key[j] => i = j)
        /\ \A a \in keys : \E i \in kept : key[i] = a
    <3>1. \A i, j \in kept : key[i] = key[j] => i = j
      <4> HIDE DEF key
      <4> QED BY <1>2
    <3> QED BY <1>2, <3>1
  <2> HIDE DEF key, keys
  <2>2. key \in Bijection(kept, keys)
    BY <2>1 DEF Bijection, Injection, Surjection, IsInjective
  <2>3. ExistsBijection(kept, keys)
    BY <2>2 DEF ExistsBijection
  <2> QED BY <1>1, <2>3, FS_Bijection
<1>4. \A i \in kept : Before(i) \in SUBSET keys /\ key[i] \notin Before(i)
  <2> HIDE DEF key, keys
  <2> QED BY <1>1, <1>2
<1>5. \A i \in kept : place[i] \in 1..n
  <2> SUFFICES ASSUME NEW i \in kept PROVE place[i] \in 1..n
    OBVIOUS
  <2> DEFINE B == Before(i)
             c == Cardinality(B)
  <2>1. B \in SUBSET keys /\ B # keys
    BY <1>2, <1>4
  <2>2. place[i] = 1 + c
    OBVIOUS
  <2> HIDE DEF B, keys, place
  <2>3. IsFiniteSet(B) /\ c <= n /\ c # n
    BY <1>3, <2>1, FS_Subset
  <2>4. c \in Nat
    BY <2>3, FS_CardinalityType
  <2> HIDE DEF c, n
  <2> QED BY <1>1, <2>2, <2>3, <2>4
<1>6. ASSUME NEW i \in kept, NEW j \in kept, before(key[i], key[j])
      PROVE  place[i] # place[j]
  <2> DEFINE B == Before(i)
             C == Before(j)
  <2>1. key[i] \in C
    BY <1>2, <1>6
  <2>2. B \subseteq C
    <3> SUFFICES ASSUME NEW b \in B PROVE before(b, key[j])
      OBVIOUS
    <3>1. b[1] \in Int /\ b[2] \in Nat
      BY <1>1
    <3>2. /\ key[i][1] \in Int /\ key[i][2] \in Nat
          /\ key[j][1] \in Int /\ key[j][2] \in Nat
      BY <1>1, <1>2
    <3>3. before(b, key[i])
      OBVIOUS
    <3> HIDE DEF key, keys
    <3> DEFINE a1 == b[1]
               a2 == b[2]
               b1 == key[i][1]
               b2 == key[i][2]
               c1 == key[j][1]
               c2 == key[j][2]
    <3>4. /\ a1 \in Int /\ a2 \in Int /\ b1 \in Int /\ b2 \in Int /\ c1 \in Int /\ c2 \in Int
          /\ a1 < b1 \/ (a1 = b1 /\ a2 < b2)
          /\ b1 < c1 \/ (b1 = c1 /\ b2 < c2)
      BY <1>6, <3>1, <3>2, <3>3
    <3> HIDE DEF a1, a2, b1, b2, c1, c2
    <3>5. a1 < c1 \/ (a1 = c1 /\ a2 < c2)
      BY ONLY <3>4
    <3> QED BY ONLY <3>5 DEF a1, a2, c1, c2, before
  <2>3. B # C
    BY <1>4, <2>1
  <2>4. B \in SUBSET C /\ C \in SUBSET keys
    BY <1>4, <2>2
  <2>5. place[i] = 1 + Cardinality(B) /\ place[j] = 1 + Cardinality(C)
    OBVIOUS
  <2> HIDE DEF B, C, keys, place
  <2>6. IsFiniteSet(C)
    BY <1>3, <2>4, FS_Subset
  <2>7. IsFiniteSet(B) /\ Cardinality(B) <= Cardinality(C) /\ Cardinality(B) # Cardinality(C)
    BY <2>3, <2>4, <2>6, FS_Subset
  <2>8. Cardinality(B) \in Nat /\ Cardinality(C) \in Nat
    BY <2>6, <2>7, FS_CardinalityType
  <2> QED BY ONLY <2>5, <2>7, <2>8
<1>7. \A i, j \in kept : place[i] = place[j] => i = j
  <2> SUFFICES ASSUME NEW i \in kept, NEW j \in kept, i # j PROVE place[i] # place[j]
    OBVIOUS
  <2>1. /\ key[i][1] \in Int /\ key[i][2] = i /\ i \in Nat
        /\ key[j][1] \in Int /\ key[j][2] = j /\ j \in Nat
    BY <1>1, <1>2
  <2>2. before(key[i], key[j]) \/ before(key[j], key[i])
    <3> HIDE DEF key
    <3> QED BY <2>1
  <2> HIDE DEF key, place, before
  <2> QED BY <1>6, <2>2
<1>8. \A k \in 1..n : \E i \in kept : place[i] = k
  <2>1. place \in [kept -> 1..n]
    <3>1. place = [i \in kept |-> place[i]]
      OBVIOUS
    <3> HIDE DEF place
    <3> QED BY <1>5, <3>1
  <2>2. IsFiniteSet(1..n) /\ Cardinality(1..n) = n
    BY <1>1, FS_Interval
  <2> HIDE DEF place, n
  <2>3. place \in Injection(kept, 1..n)
    BY <1>7, <2>1 DEF Injection, IsInjective
  <2>4. Cardinality(kept) = Cardinality(1..n)
    BY <2>2 DEF n
  <2>5. place \in Surjection(kept, 1..n)
    BY <2>2, <2>3, <2>4, FS_Injection
  <2> QED BY <2>5 DEF Surjection
<1>9. places = {<<i, place[i]>> : i \in kept}
  <2>1. \A a \in keys : <<a[2], 1 + Cardinality({b \in keys : before(b, a)})>> = <<a[2], place[a[2]]>>
    <3> SUFFICES ASSUME NEW a \in keys
                 PROVE  1 + Cardinality({b \in keys : before(b, a)}) = place[a[2]]
      OBVIOUS
    <3>1. a[2] \in kept /\ a = key[a[2]]
      BY <1>2
    <3> HIDE DEF keys, key
    <3>2. place[a[2]] = 1 + Cardinality(Before(a[2]))
      BY <3>1
    <3> HIDE DEF place
    <3> QED BY <3>1, <3>2
  <2>2. \A i \in kept : key[i] \in keys /\ key[i][2] = i
    BY <1>2
  <2>3. \A a \in keys : a[2] \in kept
    BY <1>2
  <2>4. \A x : x \in places <=> \E a \in keys : x = <<a[2], place[a[2]]>>
    <3> HIDE DEF place, before, keys
    <3> QED BY <2>1
  <2>5. \A x : x \in places <=> \E i \in kept : x = <<i, place[i]>>
    <3> HIDE DEF place, before, keys, key, places
    <3>1. ASSUME NEW x, x \in places PROVE \E i \in kept : x = <<i, place[i]>>
      BY <2>3, <2>4, <3>1
    <3>2. ASSUME NEW i \in kept PROVE <<i, place[i]>> \in places
      BY <2>2, <2>4, <3>2
    <3> QED BY <3>1, <3>2
  <2> HIDE DEF places, place
  <2> QED BY <2>5
<1>10. r = [k \in 1..n |-> raw[(CHOOSE p \in places : p[2] = k)[1]]]
  BY DEF rank
<1> HIDE DEF key, keys, before, Before, place, places, r, n
<1>11. ASSUME NEW k \in 1..n PROVE \E i \in kept : place[i] = k /\ r[k] = raw[i]
  <2>1. \E p \in places : p[2] = k
    <3>1. PICK i \in kept : place[i] = k
      BY <1>8
    <3>2. <<i, place[i]>> \in places /\ <<i, place[i]>>[2] = k
      BY <1>9, <3>1
    <3> QED BY <3>2
  <2> DEFINE p == CHOOSE p \in places : p[2] = k
  <2>2. p \in places /\ p[2] = k
    BY <2>1
  <2> HIDE DEF p
  <2>3. p[1] \in kept /\ place[p[1]] = k
    BY <1>9, <2>2
  <2> QED BY <1>10, <2>3 DEF p
<1>12. r = [k \in 1..n |-> r[k]]
  BY <1>10
<1>13. IsSeq(r) /\ DOMAIN r = 1..n
  BY <1>1, <1>12, FunctionIsSeq
<1>14. \A x : x \in ToSet(r) <=> \E i \in kept : x = raw[i]
  <2>1. \A x : x \in ToSet(r) <=> \E k \in 1..n : x = r[k]
    BY <1>13 DEF ToSet
  <2>2. ASSUME NEW i \in kept PROVE place[i] \in 1..n /\ r[place[i]] = raw[i]
    BY <1>5, <1>7, <1>11
  <2> QED BY <1>11, <2>1, <2>2
<1> QED BY <1>13, <1>14 DEF r

-----------------------------------------------------------------------------
(***************************************************************************)
(* What the preflight finds, and where.                                    *)
(***************************************************************************)
HoleNames ==
  {"data.required", "knowledge.sources", "completion.success_rules", "handoff_rules",
   "policies.contact_policy_hooks"}

\* A finding stands in a section of the blueprint; where a hole may be, it blocks, but for the
\* hooks when there are some.
Ordinary(f, bp) ==
  /\ f.severity \in {"BLOCK", "WARN"}
  /\ Len(f.path) \in {1, 2}
  /\ f.path[1] \notin {"knowledge.gaps", "knowledge.contradictions", "capabilities"}
  /\ Len(f.path) = 1 /\ f.path[1] \in HoleNames =>
       f.severity = "BLOCK" \/ (f.path[1] = "policies.contact_policy_hooks" /\ bp.hooks # {})

\* Such findings, and none about a permission.
Fine(s, bp) ==
  IsSeq(s) /\ \A f \in ToSet(s) : Ordinary(f, bp) /\ f.path[1] # "tools.permissions"

\* Findings of two checks, one after the other.
LEMMA FineJoined ==
  ASSUME NEW s, NEW t, NEW bp, Fine(s, bp), Fine(t, bp)
  PROVE  Fine(s \o t, bp) /\ ToSet(s \o t) = ToSet(s) \cup ToSet(t)
<1>1. IsSeq(s) /\ IsSeq(t)
  BY DEF Fine
<1>2. IsSeq(s \o t) /\ ToSet(s \o t) = ToSet(s) \cup ToSet(t)
  BY <1>1, Joined
<1> QED BY <1>2 DEF Fine

\* Findings of every element, one after the other.
LEMMA FineFlattened ==
  ASSUME NEW bp, NEW n \in Nat, NEW ss, ss = [i \in 1..n |-> ss[i]], \A i \in 1..n : Fine(ss[i], bp)
  PROVE  /\ Fine(FlattenSeq(ss), bp)
         /\ \A x : x \in ToSet(FlattenSeq(ss)) <=> \E i \in 1..n : x \in ToSet(ss[i])
<1>1. \A i \in 1..n : IsSeq(ss[i])
  BY DEF Fine
<1>2. /\ IsSeq(FlattenSeq(ss))
      /\ \A x : x \in ToSet(FlattenSeq(ss)) <=> \E i \in 1..n : x \in ToSet(ss[i])
  BY <1>1, Flattened
<1> QED BY <1>2 DEF Fine

\* A path of a section, and one with an index.
LEMMA PathShape ==
  ASSUME NEW a, NEW b
  PROVE  /\ Len(<<a>>) = 1 /\ <<a>>[1] = a
         /\ Len(<<a, b>>) = 2 /\ <<a, b>>[1] = a /\ <<a, b>>[2] = b
OBVIOUS

\* One finding, that blocks or warns.
LEMMA FindingShape ==
  ASSUME NEW r, NEW p
  PROVE  /\ IsSeq(Block(r, p)) /\ ToSet(Block(r, p)) = {Finding(r, p, "BLOCK")}
         /\ IsSeq(Warn(r, p)) /\ ToSet(Warn(r, p)) = {Finding(r, p, "WARN")}
         /\ \A v : /\ Finding(r, p, v).path = p
                   /\ Finding(r, p, v).severity = v /\ Finding(r, p, v).reason = r
<1>1. /\ IsSeq(Block(r, p)) /\ ToSet(Block(r, p)) = {Finding(r, p, "BLOCK")}
      /\ IsSeq(Warn(r, p)) /\ ToSet(Warn(r, p)) = {Finding(r, p, "WARN")}
  BY Single DEF Block, Warn
<1> QED BY <1>1 DEF Finding

\* The sections a finding may stand in besides the permissions.
Elsewhere == {"knowledge.gaps", "knowledge.contradictions", "capabilities", "tools.permissions"}

\* A blocking finding is fine in any section, a warning where no hole can be or at an index.
LEMMA FineOne ==
  ASSUME NEW bp, NEW r, NEW a, a \notin Elsewhere
  PROVE  /\ Fine(Block(r, <<a>>), bp) /\ \A b : Fine(Block(r, <<a, b>>), bp)
         /\ \A b : Fine(Warn(r, <<a, b>>), bp)
         /\ a \notin HoleNames => Fine(Warn(r, <<a>>), bp)
<1>1. Fine(Block(r, <<a>>), bp)
  BY FindingShape, PathShape DEF Fine, Ordinary, Elsewhere
<1>2. ASSUME NEW b PROVE Fine(Block(r, <<a, b>>), bp) /\ Fine(Warn(r, <<a, b>>), bp)
  BY FindingShape, PathShape DEF Fine, Ordinary, Elsewhere
<1>3. a \notin HoleNames => Fine(Warn(r, <<a>>), bp)
  BY FindingShape, PathShape DEF Fine, Ordinary, Elsewhere
<1> QED BY <1>1, <1>2, <1>3

\* No finding is fine.
LEMMA FineNone == \A bp : Fine(<<>>, bp)
BY Nothing DEF Fine

\* The check of the fields.
LEMMA FieldsFine == ASSUME NEW bp \in Drafts PROVE Fine(_fields(bp), bp)
<1> DEFINE specs == bp.required \o bp.optional
           at(i) == IF i <= Len(bp.required) THEN <<"data.required", i>>
                    ELSE <<"data.optional", i - Len(bp.required)>>
           incomplete(i) ==
             When(\E j \in 1..(i - 1) : specs[j].name = specs[i].name,
                  Block("INCOMPLETE_FIELD_DEFINITION", at(i)))
             \o When(specs[i].type = "enum_without_values",
                     Block("INCOMPLETE_FIELD_DEFINITION", at(i)))
             \o When(~specs[i].hint, Warn("INCOMPLETE_FIELD_DEFINITION", at(i)))
           step(i) == When(bp.flow[i] \notin NamesOf(bp),
                           Block("INVALID_CONFIG", <<"constrained_flow.steps", i>>))
           a == [i \in DOMAIN specs |-> incomplete(i)]
           b == [i \in DOMAIN bp.flow |-> step(i)]
<1>1. bp.required \in Seq(FieldSpecs) /\ bp.optional \in Seq(FieldSpecs) /\ bp.flow \in Seq(FieldNames)
  BY DEF Drafts
<1>2. specs \in Seq(FieldSpecs)
  BY <1>1
<1>3. Len(specs) \in Nat /\ DOMAIN specs = 1..Len(specs)
  <2> HIDE DEF specs
  <2> QED BY <1>2
<1>4. Len(bp.flow) \in Nat /\ DOMAIN bp.flow = 1..Len(bp.flow)
  BY <1>1
<1>5. \A i : Fine(incomplete(i), bp)
  <2> TAKE i
  <2> DEFINE x == When(\E j \in 1..(i - 1) : specs[j].name = specs[i].name,
                       Block("INCOMPLETE_FIELD_DEFINITION", at(i)))
             y == When(specs[i].type = "enum_without_values",
                       Block("INCOMPLETE_FIELD_DEFINITION", at(i)))
             z == When(~specs[i].hint, Warn("INCOMPLETE_FIELD_DEFINITION", at(i)))
  <2>1. Fine(Block("INCOMPLETE_FIELD_DEFINITION", at(i)), bp)
        /\ Fine(Warn("INCOMPLETE_FIELD_DEFINITION", at(i)), bp)
    BY FineOne DEF Elsewhere
  <2> HIDE DEF specs, at
  <2>2. Fine(x, bp) /\ Fine(y, bp) /\ Fine(z, bp)
    BY <2>1, FineNone DEF When
  <2> HIDE DEF x, y, z
  <2>3. Fine(x \o y, bp)
    BY <2>2, FineJoined
  <2>4. Fine((x \o y) \o z, bp)
    BY <2>2, <2>3, FineJoined
  <2> QED BY <2>4 DEF x, y, z
<1>6. \A i : Fine(step(i), bp)
  BY FineOne, FineNone DEF When, Elsewhere
<1> HIDE DEF specs, incomplete, step
<1>7. Fine(FlattenSeq(a), bp)
  <2>1. a = [i \in 1..Len(specs) |-> a[i]] /\ \A i \in 1..Len(specs) : Fine(a[i], bp)
    BY <1>3, <1>5
  <2> HIDE DEF a
  <2> QED BY <1>3, <2>1, FineFlattened
<1>8. Fine(FlattenSeq(b), bp)
  <2>1. b = [i \in 1..Len(bp.flow) |-> b[i]] /\ \A i \in 1..Len(bp.flow) : Fine(b[i], bp)
    BY <1>4, <1>6
  <2> HIDE DEF b
  <2> QED BY <1>4, <2>1, FineFlattened
<1>9. Fine(FlattenSeq(a) \o FlattenSeq(b), bp)
  BY <1>7, <1>8, FineJoined
<1> QED BY <1>9 DEF _fields, specs, incomplete, step

\* The check of the outcomes.
LEMMA OutcomeSchemaFine == ASSUME NEW bp \in Drafts PROVE Fine(_outcome_schema(bp), bp)
<1> DEFINE sourced(i) ==
             When(~(bp.fields[i].tool \subseteq Permitted(bp))
                    \/ ~(bp.fields[i].name \subseteq NamesOf(bp)),
                  Block("MISSING_OUTCOME_SCHEMA", <<"outcome_schema.fields", i>>))
           a == When(bp.outcomes = {}, Block("MISSING_OUTCOME_SCHEMA", <<"outcome_schema.primary">>))
           b == [i \in DOMAIN bp.fields |-> sourced(i)]
           n == Len(bp.fields)
<1>1. n \in Nat /\ DOMAIN bp.fields = 1..n
  BY DEF Drafts
<1>2. Fine(a, bp) /\ \A i : Fine(sourced(i), bp)
  BY FineOne, FineNone DEF When, Elsewhere
<1> HIDE DEF a, sourced, n
<1>3. Fine(FlattenSeq(b), bp)
  <2>1. b = [i \in 1..n |-> b[i]] /\ \A i \in 1..n : Fine(b[i], bp)
    BY <1>1, <1>2
  <2> HIDE DEF b
  <2> QED BY <1>1, <2>1, FineFlattened
<1>4. Fine(a \o FlattenSeq(b), bp)
  BY <1>2, <1>3, FineJoined
<1> QED BY <1>4 DEF _outcome_schema, a, sourced

\* The findings about the rules of a section.
RuleFindings(bp, kind, section) ==
  FlattenSeq([i \in DOMAIN section |->
    When(~(section[i].target \subseteq bp.outcomes),
         Block("IMPOSSIBLE_COMPLETION_CRITERIA", <<kind, i>>))
    \o When(\E a \in ToSet(section[i].atoms) : ~Refers(bp, a),
            Block("IMPOSSIBLE_COMPLETION_CRITERIA", <<kind, i>>))])

\* They are fine, and block when an atom of a rule refers to nothing.
LEMMA RulesFine ==
  ASSUME NEW bp, NEW kind, kind \notin Elsewhere, NEW S, NEW section \in Seq(S)
  PROVE  /\ Fine(RuleFindings(bp, kind, section), bp)
         /\ \A i \in DOMAIN section : \A a \in ToSet(section[i].atoms) :
              ~Refers(bp, a) => \E f \in ToSet(RuleFindings(bp, kind, section)) : f.severity = "BLOCK"
<1> DEFINE block(i) == Block("IMPOSSIBLE_COMPLETION_CRITERIA", <<kind, i>>)
           x(i) == When(~(section[i].target \subseteq bp.outcomes), block(i))
           y(i) == When(\E a \in ToSet(section[i].atoms) : ~Refers(bp, a), block(i))
           ss == [i \in DOMAIN section |-> x(i) \o y(i)]
           n == Len(section)
<1>1. n \in Nat /\ DOMAIN section = 1..n
  OBVIOUS
<1>2. \A i : Fine(block(i), bp)
  BY FineOne
<1>3. \A i : Fine(x(i), bp) /\ Fine(y(i), bp)
  <2> HIDE DEF block
  <2> QED BY <1>2, FineNone DEF When
<1>4. \A i : \A a \in ToSet(section[i].atoms) :
        ~Refers(bp, a) => \E f \in ToSet(y(i)) : f.severity = "BLOCK"
  <2>1. \A i : \E f \in ToSet(block(i)) : f.severity = "BLOCK"
    <3> TAKE i
    <3>1. Finding("IMPOSSIBLE_COMPLETION_CRITERIA", <<kind, i>>, "BLOCK") \in ToSet(block(i))
      BY FindingShape
    <3> QED BY <3>1, FindingShape
  <2> HIDE DEF block
  <2> QED BY <2>1 DEF When
<1> HIDE DEF x, y, n
<1>5. \A i : Fine(x(i) \o y(i), bp) /\ ToSet(x(i) \o y(i)) = ToSet(x(i)) \cup ToSet(y(i))
  BY <1>3, FineJoined
<1>6. /\ Fine(FlattenSeq(ss), bp)
      /\ \A f : f \in ToSet(FlattenSeq(ss)) <=> \E i \in 1..n : f \in ToSet(ss[i])
  <2>1. ss = [i \in 1..n |-> ss[i]] /\ \A i \in 1..n : Fine(ss[i], bp)
    BY <1>1, <1>5
  <2> HIDE DEF ss
  <2> QED BY <1>1, <2>1, FineFlattened
<1>7. RuleFindings(bp, kind, section) = FlattenSeq(ss)
  BY DEF RuleFindings, x, y
<1>8. \A i \in 1..n : ss[i] = x(i) \o y(i)
  BY <1>1
<1> HIDE DEF ss
<1>9. ASSUME NEW i \in DOMAIN section, NEW a \in ToSet(section[i].atoms), ~Refers(bp, a)
      PROVE  \E f \in ToSet(RuleFindings(bp, kind, section)) : f.severity = "BLOCK"
  <2>1. PICK f \in ToSet(y(i)) : f.severity = "BLOCK"
    BY <1>4, <1>9
  <2>2. f \in ToSet(ss[i]) /\ i \in 1..n
    BY <1>1, <1>5, <1>8
  <2> QED BY <1>6, <1>7, <2>1, <2>2
<1> QED BY <1>6, <1>7, <1>9

\* The check of the completion.  A rule of success, or of exit, one of whose atoms refers to nothing
\* blocks.
LEMMA CompletionFine ==
  ASSUME NEW bp \in Drafts
  PROVE  /\ Fine(_completion(bp), bp)
         /\ \A i \in DOMAIN bp.success : \A a \in ToSet(bp.success[i].atoms) :
              ~Refers(bp, a) => \E f \in ToSet(_completion(bp)) : f.severity = "BLOCK"
         /\ \A i \in DOMAIN bp.exit : \A a \in ToSet(bp.exit[i].atoms) :
              ~Refers(bp, a) => \E f \in ToSet(_completion(bp)) : f.severity = "BLOCK"
<1> DEFINE a == When(bp.success = <<>> /\ bp.exit = <<>>,
                     Block("IMPOSSIBLE_COMPLETION_CRITERIA", <<"completion">>))
           b == RuleFindings(bp, "completion.success_rules", bp.success)
           c == RuleFindings(bp, "completion.failure_rules", bp.failure)
           d == RuleFindings(bp, "completion.exit_rules", bp.exit)
           e == When(ToSet(bp.success) \cap ToSet(bp.failure) # {},
                     Block("CONTRADICTORY_POLICIES", <<"completion">>))
<1>1. /\ bp.success \in Seq(CompletionRules) /\ bp.failure \in Seq(CompletionRules)
      /\ bp.exit \in Seq(CompletionRules)
  BY DEF Drafts
<1>2. Fine(a, bp) /\ Fine(e, bp)
  BY FineOne, FineNone DEF When, Elsewhere
<1>3. /\ Fine(b, bp) /\ Fine(c, bp) /\ Fine(d, bp)
      /\ \A i \in DOMAIN bp.success : \A x \in ToSet(bp.success[i].atoms) :
           ~Refers(bp, x) => \E f \in ToSet(b) : f.severity = "BLOCK"
      /\ \A i \in DOMAIN bp.exit : \A x \in ToSet(bp.exit[i].atoms) :
           ~Refers(bp, x) => \E f \in ToSet(d) : f.severity = "BLOCK"
  BY <1>1, RulesFine DEF Elsewhere
<1>4. _completion(bp) = (((a \o b) \o c) \o d) \o e
  BY DEF _completion, RuleFindings
<1> HIDE DEF a, b, c, d, e
<1>5. Fine(a \o b, bp) /\ ToSet(a \o b) = ToSet(a) \cup ToSet(b)
  BY <1>2, <1>3, FineJoined
<1>6. Fine((a \o b) \o c, bp) /\ ToSet((a \o b) \o c) = ToSet(a \o b) \cup ToSet(c)
  BY <1>3, <1>5, FineJoined
<1>7. /\ Fine(((a \o b) \o c) \o d, bp)
      /\ ToSet(((a \o b) \o c) \o d) = ToSet((a \o b) \o c) \cup ToSet(d)
  BY <1>3, <1>6, FineJoined
<1>8. /\ Fine((((a \o b) \o c) \o d) \o e, bp)
      /\ ToSet((((a \o b) \o c) \o d) \o e) = ToSet(((a \o b) \o c) \o d) \cup ToSet(e)
  BY <1>2, <1>7, FineJoined
<1> QED BY <1>3, <1>4, <1>5, <1>6, <1>7, <1>8

\* The check of the policies.
LEMMA PoliciesFine == ASSUME NEW bp \in Drafts PROVE Fine(_policies(bp), bp)
<1> DEFINE behaviors == {bp.default} \cup {bp.overrides[i].behavior : i \in DOMAIN bp.overrides}
           topic(i) == When(~bp.overrides[i].topic,
                            Block("INVALID_CONFIG",
                                  <<"policies.unknown_question_policy.overrides", i>>))
           a == When(bp.allowed \cap bp.prohibited # {},
                     Block("CONTRADICTORY_POLICIES", <<"policies.allowed_claims">>))
           ss == [i \in DOMAIN bp.overrides |-> topic(i)]
           b == FlattenSeq(ss)
           c == When(/\ "OFFER_HUMAN_HANDOFF" \in behaviors
                     /\ "request_handoff" \notin Permitted(bp) /\ bp.handoffs = <<>>,
                     Block("UNDEFINED_ESCALATION", <<"policies.unknown_question_policy">>))
           d == When(bp.respect /\ ~bp.opt_out, Warn("INVALID_CONFIG", <<"policies.opt_out">>))
           n == Len(bp.overrides)
<1>1. n \in Nat /\ DOMAIN bp.overrides = 1..n
  BY DEF Drafts
<1>2. Fine(a, bp) /\ Fine(d, bp) /\ \A i : Fine(topic(i), bp)
  BY FineOne, FineNone DEF When, Elsewhere, HoleNames
<1>3. Fine(c, bp)
  <2> HIDE DEF behaviors
  <2> QED BY FineOne, FineNone DEF When, Elsewhere
<1>4. _policies(bp) = ((a \o b) \o c) \o d
  BY DEF _policies
<1> HIDE DEF a, b, c, d, topic, n
<1>5. Fine(b, bp)
  <2>1. ss = [i \in 1..n |-> ss[i]] /\ \A i \in 1..n : Fine(ss[i], bp)
    BY <1>1, <1>2
  <2> HIDE DEF ss
  <2> QED BY <1>1, <2>1, FineFlattened DEF b
<1>6. Fine(a \o b, bp)
  BY <1>2, <1>5, FineJoined
<1>7. Fine((a \o b) \o c, bp)
  BY <1>3, <1>6, FineJoined
<1>8. Fine(((a \o b) \o c) \o d, bp)
  BY <1>2, <1>7, FineJoined
<1> QED BY <1>4, <1>8

\* The check of the escalation.
LEMMA EscalationFine == ASSUME NEW bp \in Drafts PROVE Fine(_escalation(bp), bp)
<1> DEFINE rule(i) == When(bp.escalation[i] = "request_handoff" /\ bp.handoffs = <<>>,
                           Block("UNDEFINED_ESCALATION", <<"policies.escalation", i>>))
           handoff(i) == When(~bp.handoffs[i].destination
                                \/ ~(bp.handoffs[i].context \subseteq NamesOf(bp)),
                              Block("UNDEFINED_ESCALATION", <<"handoff_rules", i>>))
           a == [i \in DOMAIN bp.escalation |-> rule(i)]
           b == [i \in DOMAIN bp.handoffs |-> handoff(i)]
           m == Len(bp.escalation)
           n == Len(bp.handoffs)
<1>1. m \in Nat /\ DOMAIN bp.escalation = 1..m /\ n \in Nat /\ DOMAIN bp.handoffs = 1..n
  BY DEF Drafts
<1>2. \A i : Fine(rule(i), bp) /\ Fine(handoff(i), bp)
  BY FineOne, FineNone DEF When, Elsewhere
<1>3. _escalation(bp) = FlattenSeq(a) \o FlattenSeq(b)
  BY DEF _escalation
<1> HIDE DEF rule, handoff, m, n
<1>4. a = [i \in 1..m |-> a[i]] /\ \A i \in 1..m : Fine(a[i], bp)
  BY <1>1, <1>2
<1>5. b = [i \in 1..n |-> b[i]] /\ \A i \in 1..n : Fine(b[i], bp)
  BY <1>1, <1>2
<1> HIDE DEF a, b
<1>6. Fine(FlattenSeq(a), bp) /\ Fine(FlattenSeq(b), bp)
  BY <1>1, <1>4, <1>5, FineFlattened
<1> QED BY <1>3, <1>6, FineJoined

\* What the check of the knowledge finds in a draft by itself, and the contradictions block.
LEMMA KnowledgeFine ==
  ASSUME NEW bp \in Drafts, NEW ctx
  PROVE  /\ Fine(_knowledge(bp, ctx), bp)
         /\ ctx.conflicts # {} => \E f \in ToSet(_knowledge(bp, ctx)) : f.severity = "BLOCK"
         /\ \A other : ctx.conflicts = {} =>
              ToSet(_knowledge(bp, ctx)) \subseteq ToSet(_knowledge(bp, other))
<1> DEFINE path(i) == <<"knowledge.requirements", i>>
           x(i) == When(bp.requirements[i].status = "MISSING",
                        Block("MISSING_REQUIRED_KNOWLEDGE", path(i)))
           y(i) == When(bp.requirements[i].status = "PARTIAL",
                        Warn("MISSING_REQUIRED_KNOWLEDGE", path(i)))
           ss == [i \in DOMAIN bp.requirements |-> x(i) \o y(i)]
           a == FlattenSeq(ss)
           b == When(/\ \E i \in DOMAIN bp.required : bp.required[i].provenance = "KNOWLEDGE_APPROVED"
                     /\ bp.sources = {},
                     Block("MISSING_REQUIRED_KNOWLEDGE", <<"knowledge.sources">>))
           one == Block("UNRESOLVED_KNOWLEDGE_CONFLICT", <<"knowledge">>)
           c(k) == When(k.conflicts # {}, one)
           d == When(~(bp.pinned \subseteq bp.sources),
                     Warn("INVALID_CONFIG", <<"version_metadata.pinned.knowledge_versions">>))
           n == Len(bp.requirements)
<1>1. n \in Nat /\ DOMAIN bp.requirements = 1..n
  BY DEF Drafts
<1>2. \A i : Fine(x(i), bp) /\ Fine(y(i), bp)
  BY FineOne, FineNone DEF When, Elsewhere
<1>3. Fine(b, bp) /\ Fine(d, bp)
  BY FineOne, FineNone DEF When, Elsewhere, HoleNames
<1>4. Fine(one, bp) /\ \E f \in ToSet(one) : f.severity = "BLOCK"
  <2>1. Finding("UNRESOLVED_KNOWLEDGE_CONFLICT", <<"knowledge">>, "BLOCK") \in ToSet(one)
    BY FindingShape
  <2> QED BY <2>1, FindingShape, FineOne DEF Elsewhere
<1>5. \A k : _knowledge(bp, k) = ((a \o b) \o c(k)) \o d
  BY DEF _knowledge
<1> HIDE DEF x, y, b, d, n, one
<1>6. \A k : /\ Fine(c(k), bp)
             /\ k.conflicts # {} => ToSet(c(k)) = ToSet(one)
             /\ k.conflicts = {} => ToSet(c(k)) = {}
  BY <1>4, FineNone, Nothing DEF When
<1>7. \A i : Fine(x(i) \o y(i), bp)
  BY <1>2, FineJoined
<1>8. Fine(a, bp)
  <2>1. ss = [i \in 1..n |-> ss[i]] /\ \A i \in 1..n : Fine(ss[i], bp)
    BY <1>1, <1>7
  <2> HIDE DEF ss
  <2> QED BY <1>1, <2>1, FineFlattened
<1> HIDE DEF a, c
<1>9. Fine(a \o b, bp)
  BY <1>3, <1>8, FineJoined
<1>10. \A k : Fine((a \o b) \o c(k), bp) /\ ToSet((a \o b) \o c(k)) = ToSet(a \o b) \cup ToSet(c(k))
  BY <1>6, <1>9, FineJoined
<1>11. \A k : /\ Fine(((a \o b) \o c(k)) \o d, bp)
              /\ ToSet(((a \o b) \o c(k)) \o d) = ToSet((a \o b) \o c(k)) \cup ToSet(d)
  BY <1>3, <1>10, FineJoined
<1>12. \A k : ToSet(_knowledge(bp, k)) = ToSet(a \o b) \cup ToSet(c(k)) \cup ToSet(d)
  BY <1>5, <1>10, <1>11
<1>13. Fine(_knowledge(bp, ctx), bp)
  BY <1>5, <1>11
<1> QED BY <1>4, <1>6, <1>12, <1>13

\* The check of the decisions.
LEMMA DecisionsFine == \A bp, un : Fine(_decisions(un), bp)
BY FineOne, FineNone DEF _decisions, When, Elsewhere

\* The check of the coverage.
LEMMA CoverageFine == ASSUME NEW bp \in Drafts PROVE Fine(_coverage(bp), bp)
<1> DEFINE q(i) == bp.questions[i]
           path(i) == <<"coverage.questions", i>>
           x(i) == When(q(i).status = "ASK_OWNER",
                        IF q(i).handling \in {"TOOL", "HANDOFF"}
                        THEN Block("UNAPPROVED_BUSINESS_DECISION", path(i))
                        ELSE Warn("UNAPPROVED_BUSINESS_DECISION", path(i)))
           y(i) == When(q(i).handling = "TOOL" /\ ~(q(i).answer \subseteq Permitted(bp)),
                        Block("MISSING_REQUIRED_TOOL", path(i)))
           z(i) == When(q(i).handling = "HANDOFF" /\ bp.handoffs = <<>>
                          /\ "request_handoff" \notin Permitted(bp),
                        Block("UNDEFINED_ESCALATION", path(i)))
           objection(i) == When(bp.objections[i] = "ASK_OWNER",
                                Warn("UNAPPROVED_BUSINESS_DECISION", <<"coverage.objections", i>>))
           a == [i \in DOMAIN bp.questions |-> (x(i) \o y(i)) \o z(i)]
           b == [i \in DOMAIN bp.objections |-> objection(i)]
           m == Len(bp.questions)
           n == Len(bp.objections)
<1>1. m \in Nat /\ DOMAIN bp.questions = 1..m /\ n \in Nat /\ DOMAIN bp.objections = 1..n
  BY DEF Drafts
<1>2. \A i : Fine(x(i), bp) /\ Fine(y(i), bp) /\ Fine(z(i), bp) /\ Fine(objection(i), bp)
  <2>1. \A r, i : Fine(Block(r, path(i)), bp) /\ Fine(Warn(r, path(i)), bp)
                  /\ Fine(Warn(r, <<"coverage.objections", i>>), bp)
    BY FineOne DEF Elsewhere
  <2> HIDE DEF path, q
  <2> QED BY <2>1, FineNone DEF When
<1>3. _coverage(bp) = FlattenSeq(a) \o FlattenSeq(b)
  BY DEF _coverage
<1> HIDE DEF x, y, z, objection, m, n
<1>4. \A i : Fine((x(i) \o y(i)) \o z(i), bp)
  <2>1. \A i : Fine(x(i) \o y(i), bp)
    BY <1>2, FineJoined
  <2> QED BY <1>2, <2>1, FineJoined
<1>5. a = [i \in 1..m |-> a[i]] /\ \A i \in 1..m : Fine(a[i], bp)
  BY <1>1, <1>4
<1>6. b = [i \in 1..n |-> b[i]] /\ \A i \in 1..n : Fine(b[i], bp)
  BY <1>1, <1>2
<1> HIDE DEF a, b
<1>7. Fine(FlattenSeq(a), bp) /\ Fine(FlattenSeq(b), bp)
  BY <1>1, <1>5, <1>6, FineFlattened
<1> QED BY <1>3, <1>7, FineJoined

\* The check of an outbound activity: hooks that are there only warn.
LEMMA OutboundFine == ASSUME NEW bp \in Drafts PROVE Fine(_outbound(bp), bp)
<1> DEFINE hooks == <<"policies.contact_policy_hooks">>
           missing(path) == Block("CONTACT_POLICY_MISSING_FOR_OUTBOUND", path)
           warn == Warn("CONTACT_POLICY_MISSING_FOR_OUTBOUND", hooks)
           x == When((\E h \in bp.hooks : h.consent) /\ ~bp.opening,
                     missing(<<"policies.disclosures">>))
           y == When(\A h \in bp.hooks : ~h.window, warn)
<1>1. Fine(missing(hooks), bp) /\ Fine(missing(<<"policies.disclosures">>), bp)
  BY FineOne DEF Elsewhere
<1>2. bp.hooks # {} => Fine(warn, bp)
  BY FindingShape, PathShape DEF Fine, Ordinary, HoleNames
<1>3. _outbound(bp) = When(bp.direction = "outbound", IF bp.hooks = {} THEN missing(hooks) ELSE x \o y)
  BY DEF _outbound
<1> HIDE DEF missing, warn, hooks
<1>4. bp.hooks # {} => Fine(x, bp) /\ Fine(y, bp)
  BY <1>1, <1>2, FineNone DEF When
<1> HIDE DEF x, y
<1>5. bp.hooks # {} => Fine(x \o y, bp)
  BY <1>4, FineJoined
<1> QED BY <1>1, <1>3, <1>5, FineNone DEF When

\* What the composition has to have, in a sequence.
LEMMA WantedHas ==
  ASSUME NEW bp, NEW composition
  PROVE  LET want(role, cap, reason) == [role |-> role, cap |-> cap, reason |-> reason]
             W == ToSet(Wanted(bp, composition))
             calls(role) == want(role, <<"feature", "tool_calls">>, "UNSUPPORTED_CAPABILITY")
             speaks(role) == want(role, <<"language", bp.language>>, "UNSUPPORTED_LOCALE_COMBINATION")
             bargeIn(role) == want(role, <<"feature", "barge_in">>, "UNSUPPORTED_CAPABILITY")
             audio == want("s2s", <<"audio", "pcm16_24k">>, "UNSUPPORTED_CAPABILITY")
         IN  /\ IsSeq(Wanted(bp, composition))
             /\ composition.mode = "s2s" =>
                  /\ speaks("s2s") \in W
                  /\ UsesTools(bp) => calls("s2s") \in W
                  /\ IsVoice(bp) => audio \in W /\ bargeIn("s2s") \in W
             /\ composition.mode # "s2s" =>
                  /\ speaks("asr") \in W /\ speaks("tts") \in W
                  /\ UsesTools(bp) => calls("llm") \in W
             /\ IsVoice(bp) => bargeIn("turn") \in W
<1> DEFINE want(role, cap, reason) == [role |-> role, cap |-> cap, reason |-> reason]
           calls(role) == want(role, <<"feature", "tool_calls">>, "UNSUPPORTED_CAPABILITY")
           speaks(role) == want(role, <<"language", bp.language>>, "UNSUPPORTED_LOCALE_COMBINATION")
           bargeIn(role) == want(role, <<"feature", "barge_in">>, "UNSUPPORTED_CAPABILITY")
           audio == want("s2s", <<"audio", "pcm16_24k">>, "UNSUPPORTED_CAPABILITY")
           c(role) == When(UsesTools(bp), <<calls(role)>>)
           v == When(IsVoice(bp), <<audio, bargeIn("s2s")>>)
           t == When(IsVoice(bp), <<bargeIn("turn")>>)
           piece == (<<speaks("s2s")>> \o c("s2s")) \o v
           pieces == <<speaks("asr"), speaks("tts")>> \o c("llm")
<1>1. Wanted(bp, composition) = (IF composition.mode = "s2s" THEN piece ELSE pieces) \o t
  BY DEF Wanted
<1> HIDE DEF want, calls, speaks, bargeIn, audio
<1>2. \A x, y : IsSeq(<<x, y>>) /\ x \in ToSet(<<x, y>>) /\ y \in ToSet(<<x, y>>)
  <2> TAKE x, y
  <2>1. <<x, y>> \in Seq({x, y}) /\ DOMAIN <<x, y>> = {1, 2} /\ <<x, y>>[1] = x /\ <<x, y>>[2] = y
    OBVIOUS
  <2>2. x \in ToSet(<<x, y>>) /\ y \in ToSet(<<x, y>>)
    BY <2>1 DEF ToSet
  <2>3. IsSeq(<<x, y>>)
    BY <2>1, TypedIsSeq
  <2> QED BY <2>2, <2>3
<1>3. \A x : IsSeq(<<x>>) /\ x \in ToSet(<<x>>)
  BY Single
<1>4. \A r : IsSeq(c(r)) /\ (UsesTools(bp) => calls(r) \in ToSet(c(r)))
  BY <1>3, Nothing DEF When
<1>5. IsSeq(v) /\ (IsVoice(bp) => audio \in ToSet(v) /\ bargeIn("s2s") \in ToSet(v))
  BY <1>2, Nothing DEF When
<1>6. IsSeq(t) /\ (IsVoice(bp) => bargeIn("turn") \in ToSet(t))
  BY <1>3, Nothing DEF When
<1> HIDE DEF c, v, t
<1>7. /\ IsSeq(<<speaks("s2s")>> \o c("s2s"))
      /\ ToSet(<<speaks("s2s")>> \o c("s2s")) = ToSet(<<speaks("s2s")>>) \cup ToSet(c("s2s"))
  BY <1>3, <1>4, Joined
<1>8. /\ IsSeq(piece)
      /\ ToSet(piece) = ToSet(<<speaks("s2s")>> \o c("s2s")) \cup ToSet(v)
  BY <1>5, <1>7, Joined
<1>9. /\ IsSeq(pieces)
      /\ ToSet(pieces) = ToSet(<<speaks("asr"), speaks("tts")>>) \cup ToSet(c("llm"))
  BY <1>2, <1>4, Joined
<1>10. speaks("s2s") \in ToSet(piece) /\ (UsesTools(bp) => calls("s2s") \in ToSet(piece))
       /\ (IsVoice(bp) => audio \in ToSet(piece) /\ bargeIn("s2s") \in ToSet(piece))
  BY <1>3, <1>4, <1>5, <1>7, <1>8
<1>11. speaks("asr") \in ToSet(pieces) /\ speaks("tts") \in ToSet(pieces)
       /\ (UsesTools(bp) => calls("llm") \in ToSet(pieces))
  BY <1>2, <1>4, <1>9
<1> DEFINE p == IF composition.mode = "s2s" THEN piece ELSE pieces
<1>12. IsSeq(p)
  BY <1>8, <1>9
<1>13. (composition.mode = "s2s" => p = piece) /\ (composition.mode # "s2s" => p = pieces)
  OBVIOUS
<1> HIDE DEF p, piece, pieces
<1>14. IsSeq(p \o t) /\ ToSet(p \o t) = ToSet(p) \cup ToSet(t)
  BY <1>6, <1>12, Joined
<1>15. Wanted(bp, composition) = p \o t
  BY <1>1 DEF p
<1> QED BY <1>6, <1>10, <1>11, <1>13, <1>14, <1>15 DEF want, calls, speaks, bargeIn, audio

\* A finding about each of some bindings.
LEMMA OfRolesFine ==
  ASSUME NEW bp, NEW roles, IsFiniteSet(roles), NEW reason
  PROVE  Fine(OfRoles(roles, reason), bp)
<1> DEFINE s == SetToSeq(roles)
           n == Cardinality(roles)
           ss == [i \in DOMAIN s |-> Block(reason, <<"composition.bindings", s[i]>>)]
<1>1. n \in Nat /\ DOMAIN s = 1..n
  BY Listed
<1> HIDE DEF s, n
<1>2. ss = [i \in 1..n |-> ss[i]] /\ \A i \in 1..n : Fine(ss[i], bp)
  BY <1>1, FineOne DEF Elsewhere
<1>3. OfRoles(roles, reason) = FlattenSeq(ss)
  BY DEF OfRoles, s
<1> HIDE DEF ss
<1> QED BY <1>1, <1>2, <1>3, FineFlattened

\* What a composition lacks of what is wanted is found, whatever it means for the activity.
LEMMA CompositionFine ==
  ASSUME NEW bp, NEW ctx, ctx.tenants = {}
  PROVE  /\ Fine(_channels_and_composition(bp, ctx), bp)
         /\ \A w \in ToSet(Wanted(bp, ctx.composition)) :
              \/ w.role \notin DOMAIN ctx.composition.adapter
              \/ _provider_state(ctx.registry, ctx.composition, w.role, w.cap)
                   \in {"UNSUPPORTED", "PARTIAL", "UNVERIFIED"}
              => ToSet(_channels_and_composition(bp, ctx)) # {}
<1> DEFINE bound == ctx.composition.adapter
           disabled == {role \in DOMAIN bound \ {"turn"} : \E t \in ctx.tenants : bound[role] \notin t}
           wanted == Wanted(bp, ctx.composition)
           stateOf(w) == _provider_state(ctx.registry, ctx.composition, w.role, w.cap)
           lacks(w) == \/ w.role \notin DOMAIN ctx.composition.adapter
                       \/ stateOf(w) \in {"UNSUPPORTED", "PARTIAL", "UNVERIFIED"}
           path(w) == <<"composition.bindings=", w.role>>
           found(w) == CASE w.role \notin DOMAIN bound -> Block("INVALID_CONFIG", <<"composition.bindings">>)
                         [] stateOf(w) = "UNSUPPORTED" -> Block(w.reason, path(w))
                         [] stateOf(w) = "PARTIAL" -> Warn(w.reason, path(w))
                         [] stateOf(w) = "UNVERIFIED" ->
                              IF ctx.strict THEN Block("PROVIDER_CAPABILITY_UNAVAILABLE", path(w))
                              ELSE Warn("PROVIDER_CAPABILITY_UNAVAILABLE", path(w))
                         [] OTHER -> <<>>
           a == OfRoles(disabled, "PROVIDER_CAPABILITY_UNAVAILABLE")
           ss == [i \in DOMAIN wanted |-> found(wanted[i])]
           n == Len(wanted)
<1>1. Fine(a, bp)
  <2>1. disabled = {}
    OBVIOUS
  <2>2. IsFiniteSet(disabled)
    BY <2>1, FS_EmptySet
  <2> HIDE DEF disabled
  <2> QED BY <2>2, OfRolesFine
<1>2. n \in Nat /\ DOMAIN wanted = 1..n /\ ToSet(wanted) = {wanted[i] : i \in 1..n}
  <2>1. IsSeq(wanted)
    BY WantedHas
  <2> HIDE DEF wanted
  <2>2. n \in Nat /\ DOMAIN wanted = 1..n
    BY <2>1, Elements
  <2> QED BY <2>2 DEF ToSet
<1>3. _channels_and_composition(bp, ctx) = a \o FlattenSeq(ss)
  BY DEF _channels_and_composition
<1>4. \A r, w : /\ Fine(Block(r, path(w)), bp) /\ Fine(Warn(r, path(w)), bp)
                /\ Fine(Block(r, <<"composition.bindings">>), bp)
  BY FineOne DEF Elsewhere, HoleNames
<1>5. \A r, w : /\ ToSet(Block(r, path(w))) # {} /\ ToSet(Warn(r, path(w))) # {}
                /\ ToSet(Block(r, <<"composition.bindings">>)) # {}
  <2>1. \A r, p : ToSet(Block(r, p)) # {} /\ ToSet(Warn(r, p)) # {}
    <3> TAKE r, p
    <3>1. /\ Finding(r, p, "BLOCK") \in ToSet(Block(r, p))
          /\ Finding(r, p, "WARN") \in ToSet(Warn(r, p))
      BY FindingShape
    <3> QED BY <3>1
  <2> QED BY <2>1
<1> HIDE DEF stateOf, path, wanted, n, a, disabled
<1>6. \A w : Fine(found(w), bp)
  BY <1>4, FineNone
<1>7. \A w : lacks(w) => ToSet(found(w)) # {}
  BY <1>5
<1> HIDE DEF found
<1>8. /\ Fine(FlattenSeq(ss), bp)
      /\ \A x : x \in ToSet(FlattenSeq(ss)) <=> \E i \in 1..n : x \in ToSet(ss[i])
  <2>1. ss = [i \in 1..n |-> ss[i]] /\ \A i \in 1..n : Fine(ss[i], bp)
    BY <1>2, <1>6
  <2> HIDE DEF ss
  <2> QED BY <1>2, <2>1, FineFlattened
<1>9. /\ Fine(a \o FlattenSeq(ss), bp)
      /\ ToSet(a \o FlattenSeq(ss)) = ToSet(a) \cup ToSet(FlattenSeq(ss))
  BY <1>1, <1>8, FineJoined
<1>10. ASSUME NEW w \in ToSet(wanted), lacks(w)
       PROVE  ToSet(_channels_and_composition(bp, ctx)) # {}
  <2>1. PICK i \in 1..n : w = wanted[i]
    BY <1>2
  <2>2. ss[i] = found(w)
    BY <1>2, <2>1
  <2>3. PICK f : f \in ToSet(found(w))
    BY <1>7, <1>10
  <2> QED BY <1>3, <1>8, <1>9, <2>2, <2>3
<1> QED BY <1>3, <1>9, <1>10 DEF wanted, stateOf

\* The check of the locale and the voice.
LEMMA LocaleFine == ASSUME NEW bp, NEW ctx PROVE Fine(_locale_and_voice(bp, ctx), bp)
<1> DEFINE speaking == IF ctx.composition.mode = "s2s" THEN "s2s" ELSE "tts"
           pack == <<"locale.locale_pack_ref">>
           noPack == "UNSUPPORTED_LOCALE_COMBINATION"
           hasVoice == /\ bp.voice \in DOMAIN ctx.voices
                       /\ ctx.composition.adapter[speaking] \in ctx.voices[bp.voice]
           x == When(bp.pack \notin DOMAIN ctx.packs, Block(noPack, pack))
           y == When(bp.pack \in DOMAIN ctx.packs /\ ctx.packs[bp.pack] # bp.language,
                     Block(noPack, pack))
           a == When(bp.pack # Unset, x \o y)
           b == When(bp.pack = Unset /\ DOMAIN ctx.packs # {}, Warn(noPack, pack))
           c == When(IsVoice(bp) /\ ~hasVoice, Block("VOICE_UNAVAILABLE", <<"locale.voice_profile_ref">>))
<1>1. _locale_and_voice(bp, ctx) = (a \o b) \o c
  BY DEF _locale_and_voice
<1>2. Fine(Block(noPack, pack), bp) /\ Fine(Warn(noPack, pack), bp)
      /\ Fine(Block("VOICE_UNAVAILABLE", <<"locale.voice_profile_ref">>), bp)
  BY FineOne DEF Elsewhere, HoleNames
<1> HIDE DEF pack, noPack, hasVoice
<1>3. Fine(x, bp) /\ Fine(y, bp) /\ Fine(b, bp) /\ Fine(c, bp)
  BY <1>2, FineNone DEF When
<1> HIDE DEF x, y, b, c
<1>4. Fine(x \o y, bp)
  BY <1>3, FineJoined
<1>5. Fine(a, bp)
  BY <1>4, FineNone DEF When
<1> HIDE DEF a
<1>6. Fine(a \o b, bp)
  BY <1>3, <1>5, FineJoined
<1>7. Fine((a \o b) \o c, bp)
  BY <1>3, <1>6, FineJoined
<1> QED BY <1>1, <1>7

\* The check of the licenses, when none is rejected.
LEMMA LicensesFine == ASSUME NEW bp, NEW ctx, ctx.rejected = {} PROVE Fine(_licenses(ctx), bp)
<1> DEFINE roles == {role \in DOMAIN ctx.composition.adapter :
                       ctx.composition.adapter[role] \in ctx.rejected}
<1>1. roles = {}
  OBVIOUS
<1>2. IsFiniteSet(roles)
  BY <1>1, FS_EmptySet
<1>3. _licenses(ctx) = OfRoles(roles, "LICENSE_BLOCKED_COMPONENT")
  BY DEF _licenses
<1> HIDE DEF roles
<1> QED BY <1>2, <1>3, OfRolesFine

\* A finite set of tools has finitely many permissions.
LEMMA PermissionsFinite == ASSUME NEW P \in SUBSET Permissions PROVE IsFiniteSet(P)
<1> DEFINE I == {"read", "write", "escalation"}
           C == {"none", "confirm_before_execute"}
           S == ToolNames \X (I \X C)
           f == [x \in S |-> [tool |-> x[1], impact |-> x[2][1], confirmation |-> x[2][2]]]
<1>1. IsFiniteSet({"read"}) /\ IsFiniteSet({"none"})
  BY FS_Singleton
<1>2. IsFiniteSet({"read"} \cup {"write"}) /\ IsFiniteSet(C)
  <2>1. C = {"none"} \cup {"confirm_before_execute"}
    OBVIOUS
  <2> QED BY <1>1, <2>1, FS_AddElement
<1>3. IsFiniteSet(I)
  <2>1. I = ({"read"} \cup {"write"}) \cup {"escalation"}
    OBVIOUS
  <2> QED BY <1>2, <2>1, FS_AddElement
<1>4. IsFiniteSet(ToolNames)
  BY CopilotAssumption
<1> HIDE DEF I, C
<1>5. IsFiniteSet(I \X C)
  BY <1>2, <1>3, FS_Product
<1>6. IsFiniteSet(S)
  BY <1>4, <1>5, FS_Product
<1>7. f \in Surjection(S, Permissions)
  <2>1. f \in [S -> Permissions]
    BY DEF Permissions, I, C
  <2>2. ASSUME NEW p \in Permissions PROVE \E x \in S : f[x] = p
    <3>1. p.tool \in ToolNames /\ p.impact \in I /\ p.confirmation \in C
      BY DEF Permissions, I, C
    <3>2. p = [tool |-> p.tool, impact |-> p.impact, confirmation |-> p.confirmation]
      BY DEF Permissions
    <3>3. <<p.tool, <<p.impact, p.confirmation>>>> \in S
      BY <3>1
    <3>4. f[<<p.tool, <<p.impact, p.confirmation>>>>] = p
      BY <3>2, <3>3
    <3> QED BY <3>3, <3>4
  <2> HIDE DEF f, S
  <2> QED BY <2>1, <2>2 DEF Surjection
<1> HIDE DEF S, f
<1>8. IsFiniteSet(Permissions)
  BY <1>6, <1>7, FS_Surjection
<1> QED BY <1>8, FS_Subset

\* What is found of one permission: a declaration of another impact, a write that needs no
\* confirmation where its declaration asks for one, a read that asks for one.
PermissionFindings(p, decls) ==
  When(\E d \in decls : d.tool = p.tool /\ d.impact # p.impact,
       Block("INVALID_CONFIG", <<"tools.permissions", p.tool>>))
  \o When(/\ p.impact = "write" /\ p.confirmation = "none"
          /\ \E d \in decls : d.tool = p.tool /\ d.confirmation # "none",
          Block("INCOMPATIBLE_CONFIRMATION_RULE", <<"tools.permissions", p.tool>>))
  \o When(p.impact = "read" /\ p.confirmation # "none",
          Warn("INCOMPATIBLE_CONFIRMATION_RULE", <<"tools.permissions", p.tool>>))

\* They stand at the permission; one that blocks is of a write or of another impact than declared,
\* which blocks; a warning that comes first is of a read whose declarations are reads.
LEMMA OfPermission ==
  ASSUME NEW p, NEW decls
  PROVE  LET s == PermissionFindings(p, decls)
             same(d) == d.tool = p.tool
         IN /\ IsSeq(s)
            /\ \A f \in ToSet(s) : /\ f.path = <<"tools.permissions", p.tool>>
                                   /\ f.severity \in {"BLOCK", "WARN"}
            /\ \A f \in ToSet(s) : f.severity = "BLOCK" =>
                 \E d \in decls : same(d) /\ (d.impact # p.impact \/ p.impact = "write")
            /\ \A d \in decls : same(d) /\ d.impact # p.impact =>
                 \E f \in ToSet(s) : f.severity = "BLOCK"
            /\ \A f \in Firsts(s) : f.severity = "WARN" =>
                 p.impact = "read" /\ \A d \in decls : same(d) => d.impact = p.impact
<1> DEFINE path == <<"tools.permissions", p.tool>>
           differs == \E d \in decls : d.tool = p.tool /\ d.impact # p.impact
           unasked == /\ p.impact = "write" /\ p.confirmation = "none"
                      /\ \E d \in decls : d.tool = p.tool /\ d.confirmation # "none"
           x == When(differs, Block("INVALID_CONFIG", path))
           y == When(unasked, Block("INCOMPATIBLE_CONFIRMATION_RULE", path))
           z == When(p.impact = "read" /\ p.confirmation # "none",
                     Warn("INCOMPATIBLE_CONFIRMATION_RULE", path))
<1>1. PermissionFindings(p, decls) = (x \o y) \o z
  BY DEF PermissionFindings
<1>2. /\ IsSeq(x) /\ \A f : f \in ToSet(x) <=> differs /\ f = Finding("INVALID_CONFIG", path, "BLOCK")
      /\ IsSeq(y) /\ \A f : f \in ToSet(y) <=>
                       unasked /\ f = Finding("INCOMPATIBLE_CONFIRMATION_RULE", path, "BLOCK")
      /\ IsSeq(z) /\ \A f : f \in ToSet(z) <=> /\ p.impact = "read" /\ p.confirmation # "none"
                                               /\ f = Finding("INCOMPATIBLE_CONFIRMATION_RULE", path, "WARN")
  <2> HIDE DEF path, differs, unasked
  <2> QED BY FindingShape, Nothing DEF When
<1>3. unasked => p.impact = "write" /\ \E d \in decls : d.tool = p.tool
  OBVIOUS
<1>4. \A r, v : Finding(r, path, v).path = path /\ Finding(r, path, v).severity = v
  BY FindingShape
<1> HIDE DEF x, y, z, unasked, path
<1>5. /\ IsSeq(x \o y) /\ ToSet(x \o y) = ToSet(x) \cup ToSet(y)
      /\ Paths(x \o y) = Paths(x) \cup Paths(y)
  BY <1>2, Joined, FirstsJoined
<1>6. /\ IsSeq((x \o y) \o z) /\ ToSet((x \o y) \o z) = ToSet(x \o y) \cup ToSet(z)
      /\ Firsts((x \o y) \o z) = Firsts(x \o y) \cup {f \in Firsts(z) : f.path \notin Paths(x \o y)}
  BY <1>2, <1>5, Joined, FirstsJoined
<1>7. Firsts(x \o y) \subseteq ToSet(x \o y) /\ Firsts(z) \subseteq ToSet(z)
  BY <1>2, <1>5, EveryPathHasFirst
<1>8. ASSUME NEW f \in Firsts((x \o y) \o z), f.severity = "WARN"
      PROVE  p.impact = "read" /\ ~differs
  <2>1. f \notin ToSet(x \o y)
    BY <1>2, <1>4, <1>5, <1>8
  <2>2. f \in ToSet(z) /\ f.path \notin Paths(x)
    BY <1>5, <1>6, <1>7, <2>1, <1>8
  <2>3. p.impact = "read" /\ f.path = path
    BY <1>2, <1>4, <2>2
  <2>4. differs => path \in Paths(x)
    BY <1>2, <1>4 DEF Paths
  <2> QED BY <2>2, <2>3, <2>4
<1>9. \A f \in ToSet((x \o y) \o z) : f \in ToSet(x) \/ f \in ToSet(y) \/ f \in ToSet(z)
  BY <1>5, <1>6
<1>10. /\ \A f \in ToSet((x \o y) \o z) : f.path = path /\ f.severity \in {"BLOCK", "WARN"}
       /\ \A f \in ToSet((x \o y) \o z) : f.severity = "BLOCK" => differs \/ unasked
  BY <1>2, <1>4, <1>9
<1>11. differs => \E f \in ToSet((x \o y) \o z) : f.severity = "BLOCK"
  <2> SUFFICES ASSUME differs PROVE \E f \in ToSet((x \o y) \o z) : f.severity = "BLOCK"
    OBVIOUS
  <2>1. Finding("INVALID_CONFIG", path, "BLOCK") \in ToSet((x \o y) \o z)
    BY <1>2, <1>5, <1>6
  <2> QED BY <1>4, <2>1
<1> QED BY <1>1, <1>3, <1>6, <1>8, <1>10, <1>11 DEF path

\* The check of the tools.
LEMMA ToolsFound ==
  ASSUME NEW bp \in Drafts, NEW ctx
  PROVE  LET s == _tools(bp, ctx, {})
             names(f) == f.path[1] = "tools.permissions"
         IN /\ IsSeq(s)
            /\ \A f \in ToSet(s) : Ordinary(f, bp) /\ (names(f) => Len(f.path) = 2)
            /\ \A f \in ToSet(s) : names(f) /\ f.severity = "BLOCK" =>
                 \E p \in bp.permissions, d \in ctx.decls :
                   p.tool = f.path[2] /\ d.tool = p.tool /\ (d.impact # p.impact \/ p.impact = "write")
            /\ \A p \in bp.permissions, d \in ctx.decls :
                 d.tool = p.tool /\ d.impact # p.impact => \E f \in ToSet(s) : f.severity = "BLOCK"
            /\ \A f \in Firsts(s) : names(f) /\ f.severity = "WARN" =>
                 \E p \in bp.permissions :
                   /\ p.tool = f.path[2] /\ p.impact = "read"
                   /\ \A d \in ctx.decls : d.tool = p.tool => d.impact = p.impact
            /\ \A f \in ToSet(s) : \A other :
                 ~names(f) /\ {d.tool : d \in other.decls} = {d.tool : d \in ctx.decls} =>
                   f \in ToSet(_tools(bp, other, {}))
<1> DEFINE P == SetToSeq(bp.permissions)
           n == Cardinality(bp.permissions)
           m == Len(bp.needs)
           missing(k, i) == When(k.decls # {} /\ bp.needs[i] \notin {d.tool : d \in k.decls},
                                 Block("MISSING_REQUIRED_TOOL", <<"tools.required", i>>))
           A(k) == [i \in DOMAIN bp.needs |-> missing(k, i)]
           B(k) == [i \in DOMAIN P |-> PermissionFindings(P[i], k.decls)]
           last == When(/\ \E i \in DOMAIN bp.required : bp.required[i].provenance = "TOOL_VERIFIED"
                        /\ "verify_field" \notin Permitted(bp),
                        Block("MISSING_REQUIRED_TOOL", <<"tools.required">>))
           whole(k) == (FlattenSeq(A(k)) \o FlattenSeq(B(k))) \o last
<1>1. /\ n \in Nat /\ DOMAIN P = 1..n /\ bp.permissions = {P[i] : i \in 1..n}
      /\ m \in Nat /\ DOMAIN bp.needs = 1..m
  <2>1. bp.permissions \in SUBSET Permissions /\ bp.needs \in Seq(ToolNames)
    BY DEF Drafts
  <2>2. IsFiniteSet(bp.permissions)
    BY <2>1, PermissionsFinite
  <2>3. DOMAIN P = 1..n /\ n \in Nat /\ ToSet(P) = bp.permissions
    BY <2>2, Listed
  <2> HIDE DEF P, n
  <2>4. ToSet(P) = {P[i] : i \in 1..n}
    BY <2>3 DEF ToSet
  <2> QED BY <2>1, <2>3, <2>4
<1>2. \A k : _tools(bp, k, {}) = whole(k)
  <2> TAKE k
  <2> DEFINE declared == {d.tool : d \in k.decls}
             path(p) == <<"tools.permissions", p.tool>>
             decls(p) == {d \in k.decls : d.tool = p.tool}
             found(p) ==
               When(\E d \in decls(p) : d.impact # p.impact, Block("INVALID_CONFIG", path(p)))
               \o When(/\ p.impact = "write" /\ p.confirmation = "none"
                       /\ \E d \in decls(p) : d.confirmation # "none"
                       /\ p.tool \notin {},
                       Block("INCOMPATIBLE_CONFIRMATION_RULE", path(p)))
               \o When(p.impact = "read" /\ p.confirmation # "none",
                       Warn("INCOMPATIBLE_CONFIRMATION_RULE", path(p)))
  <2>1. _tools(bp, k, {}) =
          FlattenSeq([i \in DOMAIN bp.needs |-> missing(k, i)])
            \o FlattenSeq([i \in DOMAIN P |-> found(P[i])]) \o last
    BY DEF _tools
  <2>2. \A p : found(p) = PermissionFindings(p, k.decls)
    BY DEF PermissionFindings, When
  <2> HIDE DEF found, P, missing, last
  <2> QED BY <2>1, <2>2
<1>3. \A k, i : Fine(missing(k, i), bp)
  BY FineOne, FineNone DEF When, Elsewhere
<1>4. Fine(last, bp)
  BY FineOne, FineNone DEF When, Elsewhere
<1>5. \A k, l : {d.tool : d \in k.decls} = {d.tool : d \in l.decls} => A(k) = A(l)
  <2> TAKE k, l
  <2> HAVE {d.tool : d \in k.decls} = {d.tool : d \in l.decls}
  <2>1. k.decls = {} <=> l.decls = {}
    OBVIOUS
  <2>2. \A i : missing(k, i) = missing(l, i)
    BY <2>1
  <2> HIDE DEF missing
  <2> QED BY <2>2
<1> HIDE DEF missing, last, P, n, m
<1>6. \A k : Fine(FlattenSeq(A(k)), bp)
  <2> TAKE k
  <2> DEFINE a == A(k)
  <2>1. a = [i \in 1..m |-> a[i]] /\ \A i \in 1..m : Fine(a[i], bp)
    BY <1>1, <1>3
  <2> HIDE DEF a
  <2>2. Fine(FlattenSeq(a), bp)
    BY <1>1, <2>1, FineFlattened
  <2> QED BY <2>2 DEF a
<1> DEFINE b == B(ctx)
<1>7. /\ b = [i \in 1..n |-> b[i]]
      /\ \A i \in 1..n : b[i] = PermissionFindings(P[i], ctx.decls) /\ P[i] \in bp.permissions
  BY <1>1
<1>8. \A i \in 1..n :
        /\ IsSeq(b[i])
        /\ \A f \in ToSet(b[i]) : /\ f.path = <<"tools.permissions", P[i].tool>>
                                  /\ f.severity \in {"BLOCK", "WARN"}
        /\ \A f \in ToSet(b[i]) : f.severity = "BLOCK" =>
             \E d \in ctx.decls : d.tool = P[i].tool /\ (d.impact # P[i].impact \/ P[i].impact = "write")
        /\ \A d \in ctx.decls : d.tool = P[i].tool /\ d.impact # P[i].impact =>
             \E f \in ToSet(b[i]) : f.severity = "BLOCK"
        /\ \A f \in Firsts(b[i]) : f.severity = "WARN" =>
             P[i].impact = "read" /\ \A d \in ctx.decls : d.tool = P[i].tool => d.impact = P[i].impact
  BY <1>7, OfPermission
<1> HIDE DEF A, b
<1>9. /\ IsSeq(FlattenSeq(b))
      /\ \A x : x \in ToSet(FlattenSeq(b)) <=> \E i \in 1..n : x \in ToSet(b[i])
      /\ \A x : x \in Firsts(FlattenSeq(b)) =>
           \E i \in 1..n : x \in Firsts(b[i])
  <2>1. \A i \in 1..n : IsSeq(b[i])
    BY <1>8
  <2> QED BY <1>1, <1>7, <2>1, Flattened
<1> DEFINE a == FlattenSeq(A(ctx))
           c == FlattenSeq(b)
<1>10. IsSeq(a) /\ IsSeq(c) /\ IsSeq(last) /\ Fine(a, bp)
  BY <1>4, <1>6, <1>9 DEF Fine
<1>11. whole(ctx) = (a \o c) \o last
  BY DEF b
<1> HIDE DEF a, c, whole
<1>12. /\ IsSeq(a \o c) /\ ToSet(a \o c) = ToSet(a) \cup ToSet(c)
       /\ Firsts(a \o c) \subseteq Firsts(a) \cup Firsts(c)
  BY <1>10, Joined, FirstsJoined
<1>13. /\ IsSeq((a \o c) \o last) /\ ToSet((a \o c) \o last) = ToSet(a \o c) \cup ToSet(last)
       /\ Firsts((a \o c) \o last) \subseteq Firsts(a \o c) \cup Firsts(last)
  BY <1>10, <1>12, Joined, FirstsJoined
<1>14. /\ \A f \in ToSet(a) : Ordinary(f, bp) /\ f.path[1] # "tools.permissions"
       /\ \A f \in ToSet(last) : Ordinary(f, bp) /\ f.path[1] # "tools.permissions"
  BY <1>4, <1>10 DEF Fine
<1>15. \A f \in ToSet(c) : \E i \in 1..n : f \in ToSet(b[i]) /\ f.path = <<"tools.permissions", P[i].tool>>
                                           /\ f.severity \in {"BLOCK", "WARN"}
  BY <1>8, <1>9 DEF c
<1>16. \A f \in ToSet(c) : /\ f.path[1] = "tools.permissions" /\ Len(f.path) = 2
                           /\ f.severity \in {"BLOCK", "WARN"}
  BY <1>15
<1>17. \A f \in ToSet(c) : Ordinary(f, bp)
  BY <1>16 DEF Ordinary
<1>18. Firsts(a) \subseteq ToSet(a) /\ Firsts(last) \subseteq ToSet(last)
  BY <1>10, EveryPathHasFirst
<1>19. \A f \in ToSet((a \o c) \o last) : f.path[1] = "tools.permissions" => f \in ToSet(c)
  BY <1>12, <1>13, <1>14
<1>20. \A f \in Firsts((a \o c) \o last) : f.path[1] = "tools.permissions" => f \in Firsts(c)
  BY <1>12, <1>13, <1>14, <1>18
<1>21. ASSUME NEW f \in ToSet(c), f.severity = "BLOCK"
       PROVE  \E p \in bp.permissions, d \in ctx.decls :
                p.tool = f.path[2] /\ d.tool = p.tool /\ (d.impact # p.impact \/ p.impact = "write")
  <2>1. PICK i \in 1..n : f \in ToSet(b[i]) /\ f.path = <<"tools.permissions", P[i].tool>>
    BY <1>15
  <2>2. PICK d \in ctx.decls : d.tool = P[i].tool /\ (d.impact # P[i].impact \/ P[i].impact = "write")
    BY <1>8, <1>21, <2>1
  <2>3. P[i] \in bp.permissions /\ P[i].tool = f.path[2]
    BY <1>7, <2>1
  <2> QED BY <2>2, <2>3
<1>22. ASSUME NEW p \in bp.permissions, NEW d \in ctx.decls, d.tool = p.tool, d.impact # p.impact
       PROVE  \E f \in ToSet(c) : f.severity = "BLOCK"
  <2>1. PICK i \in 1..n : p = P[i]
    BY <1>1
  <2>2. PICK f \in ToSet(b[i]) : f.severity = "BLOCK"
    BY <1>8, <1>22, <2>1
  <2> QED BY <1>9, <2>2 DEF c
<1>23. ASSUME NEW f \in Firsts(c), f.severity = "WARN"
       PROVE  \E p \in bp.permissions :
                /\ p.tool = f.path[2] /\ p.impact = "read"
                /\ \A d \in ctx.decls : d.tool = p.tool => d.impact = p.impact
  <2>1. PICK i \in 1..n : f \in Firsts(b[i])
    BY <1>9 DEF c
  <2>2. f \in ToSet(b[i])
    BY <1>8, <2>1, EveryPathHasFirst
  <2>3. P[i] \in bp.permissions /\ P[i].tool = f.path[2]
    BY <1>7, <1>8, <2>2
  <2> QED BY <1>8, <1>23, <2>1, <2>3
<1>24. ASSUME NEW f \in ToSet((a \o c) \o last), NEW other, f.path[1] # "tools.permissions",
              {d.tool : d \in other.decls} = {d.tool : d \in ctx.decls}
       PROVE  f \in ToSet(whole(other))
  <2>1. f \in ToSet(a) \/ f \in ToSet(last)
    BY <1>12, <1>13, <1>16, <1>24
  <2>2. FlattenSeq(A(other)) = a
    BY <1>5, <1>24 DEF a
  <2> DEFINE e == B(other)
             g == FlattenSeq(e)
  <2>3. IsSeq(g)
    <3>1. e = [i \in 1..n |-> e[i]] /\ \A i \in 1..n : e[i] = PermissionFindings(P[i], other.decls)
      BY <1>1
    <3> HIDE DEF e
    <3>2. \A i \in 1..n : IsSeq(e[i])
      BY <3>1, OfPermission
    <3> QED BY <1>1, <3>1, <3>2, Flattened
  <2>4. whole(other) = (a \o g) \o last
    BY <2>2 DEF whole
  <2> HIDE DEF e, g
  <2>5. IsSeq(a \o g) /\ ToSet(a \o g) = ToSet(a) \cup ToSet(g)
    BY <1>10, <2>3, Joined
  <2>6. ToSet((a \o g) \o last) = ToSet(a \o g) \cup ToSet(last)
    BY <1>10, <2>5, Joined
  <2> QED BY <2>1, <2>4, <2>5, <2>6
<1> DEFINE s == (a \o c) \o last
<1>25. _tools(bp, ctx, {}) = s
  BY <1>2, <1>11
<1>26. /\ \A f \in ToSet(s) : f \in ToSet(a) \/ f \in ToSet(c) \/ f \in ToSet(last)
       /\ ToSet(c) \subseteq ToSet(s)
  BY <1>12, <1>13
<1>27. IsSeq(s)
  BY <1>13
<1>28. /\ \A f \in ToSet(s) : f.path[1] = "tools.permissions" => f \in ToSet(c)
       /\ \A f \in Firsts(s) : f.path[1] = "tools.permissions" => f \in Firsts(c)
       /\ \A f \in ToSet(s) : \A other :
            f.path[1] # "tools.permissions" /\ {d.tool : d \in other.decls} = {d.tool : d \in ctx.decls}
              => f \in ToSet(_tools(bp, other, {}))
  BY <1>2, <1>19, <1>20, <1>24
<1> HIDE DEF s
<1>29. \A f \in ToSet(s) : Ordinary(f, bp) /\ (f.path[1] = "tools.permissions" => Len(f.path) = 2)
  BY <1>14, <1>16, <1>17, <1>26, <1>28
<1>30. \A f \in ToSet(s) : f.path[1] = "tools.permissions" /\ f.severity = "BLOCK" =>
         \E p \in bp.permissions, d \in ctx.decls :
           p.tool = f.path[2] /\ d.tool = p.tool /\ (d.impact # p.impact \/ p.impact = "write")
  BY <1>21, <1>28
<1>31. \A p \in bp.permissions, d \in ctx.decls :
         d.tool = p.tool /\ d.impact # p.impact => \E f \in ToSet(s) : f.severity = "BLOCK"
  BY <1>22, <1>26
<1>32. \A f \in Firsts(s) : f.path[1] = "tools.permissions" /\ f.severity = "WARN" =>
         \E p \in bp.permissions :
           /\ p.tool = f.path[2] /\ p.impact = "read"
           /\ \A d \in ctx.decls : d.tool = p.tool => d.impact = p.impact
  BY <1>23, <1>28
<1> QED BY <1>25, <1>27, <1>28, <1>29, <1>30, <1>31, <1>32

\* The findings of the checks, of which those about the permissions are of t.
Mixed(s, t, bp) ==
  /\ IsSeq(s)
  /\ \A f \in ToSet(s) : Ordinary(f, bp)
  /\ \A f \in ToSet(s) : f.path[1] = "tools.permissions" => f \in ToSet(t) /\ Len(f.path) = 2
  /\ \A f \in Firsts(s) : f.path[1] = "tools.permissions" => f \in Firsts(t)

\* They stay so when another check follows.
LEMMA MixedJoined ==
  ASSUME NEW s, NEW t, NEW r, NEW bp, Mixed(s, t, bp), Fine(r, bp)
  PROVE  Mixed(s \o r, t, bp) /\ ToSet(s \o r) = ToSet(s) \cup ToSet(r)
<1>1. IsSeq(s) /\ IsSeq(r)
  BY DEF Mixed, Fine
<1>2. /\ IsSeq(s \o r) /\ ToSet(s \o r) = ToSet(s) \cup ToSet(r)
      /\ Firsts(s \o r) \subseteq Firsts(s) \cup Firsts(r)
  BY <1>1, Joined, FirstsJoined
<1>3. Firsts(r) \subseteq ToSet(r)
  BY <1>1, EveryPathHasFirst
<1>4. \A f \in ToSet(r) : Ordinary(f, bp) /\ f.path[1] # "tools.permissions"
  BY DEF Fine
<1> QED BY <1>2, <1>3, <1>4 DEF Mixed

\* The first check, the tools, and the checks that follow.
LEMMA MixedTools ==
  ASSUME NEW p, NEW bp \in Drafts, NEW ctx, Fine(p, bp)
  PROVE  LET t == _tools(bp, ctx, {})
         IN Mixed(p \o t, t, bp) /\ ToSet(p \o t) = ToSet(p) \cup ToSet(t)
<1> DEFINE t == _tools(bp, ctx, {})
<1>1. /\ IsSeq(t)
      /\ \A f \in ToSet(t) : Ordinary(f, bp) /\ (f.path[1] = "tools.permissions" => Len(f.path) = 2)
  BY ToolsFound
<1> HIDE DEF t
<1>2. IsSeq(p) /\ \A f \in ToSet(p) : Ordinary(f, bp) /\ f.path[1] # "tools.permissions"
  BY DEF Fine
<1>3. /\ IsSeq(p \o t) /\ ToSet(p \o t) = ToSet(p) \cup ToSet(t)
      /\ Firsts(p \o t) \subseteq Firsts(p) \cup Firsts(t)
  BY <1>1, <1>2, Joined, FirstsJoined
<1>4. Firsts(p) \subseteq ToSet(p)
  BY <1>2, EveryPathHasFirst
<1>5. Mixed(p \o t, t, bp)
  BY <1>1, <1>2, <1>3, <1>4 DEF Mixed
<1> QED BY <1>3, <1>5 DEF t

\* The parts of the findings.
PartsOf(bp, ctx) ==
  ToSet(_fields(bp)) \cup ToSet(_outcome_schema(bp)) \cup ToSet(_completion(bp))
    \cup ToSet(_tools(bp, ctx, {})) \cup ToSet(_policies(bp)) \cup ToSet(_escalation(bp))
    \cup ToSet(_knowledge(bp, ctx)) \cup ToSet(_decisions({})) \cup ToSet(_coverage(bp))
    \cup ToSet(_outbound(bp)) \cup ToSet(_channels_and_composition(bp, ctx))
    \cup ToSet(_locale_and_voice(bp, ctx)) \cup ToSet(_licenses(ctx))

\* What a preflight finds when no tenant is given and no license rejected.
LEMMA FindingsFound ==
  ASSUME NEW bp \in Drafts, NEW ctx, ctx.tenants = {}, ctx.rejected = {}
  PROVE  /\ Mixed(Findings(bp, ctx, {}, {}), _tools(bp, ctx, {}), bp)
         /\ ToSet(Findings(bp, ctx, {}, {})) = PartsOf(bp, ctx)
<1> DEFINE a == _fields(bp)
           b == _outcome_schema(bp)
           c == _completion(bp)
           t == _tools(bp, ctx, {})
           d == _policies(bp)
           e == _escalation(bp)
           f == _knowledge(bp, ctx)
           g == _decisions({})
           h == _coverage(bp)
           i == _outbound(bp)
           j == _channels_and_composition(bp, ctx)
           k == _locale_and_voice(bp, ctx)
           l == _licenses(ctx)
           s1 == (a \o b) \o c
           s2 == s1 \o t
           s3 == s2 \o d
           s4 == s3 \o e
           s5 == s4 \o f
           s6 == s5 \o g
           s7 == s6 \o h
           s8 == s7 \o i
           s9 == s8 \o j
           s10 == s9 \o k
           s11 == s10 \o l
<1>1. Findings(bp, ctx, {}, {}) = s11
  BY DEF Findings
<1>2. Fine(a, bp) /\ Fine(b, bp) /\ Fine(c, bp) /\ Fine(d, bp) /\ Fine(e, bp)
  BY FieldsFine, OutcomeSchemaFine, CompletionFine, PoliciesFine, EscalationFine
<1>3. Fine(f, bp) /\ Fine(g, bp) /\ Fine(h, bp) /\ Fine(i, bp)
  BY KnowledgeFine, DecisionsFine, CoverageFine, OutboundFine
<1>4. Fine(j, bp) /\ Fine(k, bp) /\ Fine(l, bp)
  BY CompositionFine, LocaleFine, LicensesFine
<1>5. PartsOf(bp, ctx) =
        ToSet(a) \cup ToSet(b) \cup ToSet(c) \cup ToSet(t) \cup ToSet(d) \cup ToSet(e)
          \cup ToSet(f) \cup ToSet(g) \cup ToSet(h) \cup ToSet(i) \cup ToSet(j) \cup ToSet(k)
          \cup ToSet(l)
  BY DEF PartsOf
<1> HIDE DEF a, b, c, d, e, f, g, h, i, j, k, l
<1>6. Fine(a \o b, bp) /\ ToSet(a \o b) = ToSet(a) \cup ToSet(b)
  BY <1>2, FineJoined
<1>7. Fine(s1, bp) /\ ToSet(s1) = ToSet(a \o b) \cup ToSet(c)
  BY <1>2, <1>6, FineJoined
<1> HIDE DEF s1
<1>8. Mixed(s2, t, bp) /\ ToSet(s2) = ToSet(s1) \cup ToSet(t)
  BY <1>7, MixedTools
<1> HIDE DEF s2, t
<1>9. Mixed(s3, t, bp) /\ ToSet(s3) = ToSet(s2) \cup ToSet(d)
  BY <1>2, <1>8, MixedJoined
<1> HIDE DEF s3
<1>10. Mixed(s4, t, bp) /\ ToSet(s4) = ToSet(s3) \cup ToSet(e)
  BY <1>2, <1>9, MixedJoined
<1> HIDE DEF s4
<1>11. Mixed(s5, t, bp) /\ ToSet(s5) = ToSet(s4) \cup ToSet(f)
  BY <1>3, <1>10, MixedJoined
<1> HIDE DEF s5
<1>12. Mixed(s6, t, bp) /\ ToSet(s6) = ToSet(s5) \cup ToSet(g)
  BY <1>3, <1>11, MixedJoined
<1> HIDE DEF s6
<1>13. Mixed(s7, t, bp) /\ ToSet(s7) = ToSet(s6) \cup ToSet(h)
  BY <1>3, <1>12, MixedJoined
<1> HIDE DEF s7
<1>14. Mixed(s8, t, bp) /\ ToSet(s8) = ToSet(s7) \cup ToSet(i)
  BY <1>3, <1>13, MixedJoined
<1> HIDE DEF s8
<1>15. Mixed(s9, t, bp) /\ ToSet(s9) = ToSet(s8) \cup ToSet(j)
  BY <1>4, <1>14, MixedJoined
<1> HIDE DEF s9
<1>16. Mixed(s10, t, bp) /\ ToSet(s10) = ToSet(s9) \cup ToSet(k)
  BY <1>4, <1>15, MixedJoined
<1> HIDE DEF s10
<1>17. Mixed(s11, t, bp) /\ ToSet(s11) = ToSet(s10) \cup ToSet(l)
  BY <1>4, <1>16, MixedJoined
<1> HIDE DEF s11
<1>18. ToSet(s11) = PartsOf(bp, ctx)
  BY <1>5, <1>6, <1>7, <1>8, <1>9, <1>10, <1>11, <1>12, <1>13, <1>14, <1>15, <1>16, <1>17
<1> QED BY <1>1, <1>17, <1>18 DEF t

\* The same composition, packs, voices and tools that are declared: the declarations themselves and
\* the contradictions may be others.
Alike(ctx, other) ==
  /\ other.composition = ctx.composition /\ other.registry = ctx.registry
  /\ other.tenants = ctx.tenants /\ other.packs = ctx.packs /\ other.voices = ctx.voices
  /\ other.rejected = ctx.rejected /\ other.strict = ctx.strict
  /\ {d.tool : d \in other.decls} = {d.tool : d \in ctx.decls}

\* What is not about a permission is found again where contexts are alike.
LEMMA FoundAgain ==
  ASSUME NEW bp \in Drafts, NEW ctx, NEW other, Alike(ctx, other), ctx.conflicts = {},
         ctx.tenants = {}, ctx.rejected = {}
  PROVE  \A f \in ToSet(Findings(bp, ctx, {}, {})) :
           f.path[1] # "tools.permissions" => f \in ToSet(Findings(bp, other, {}, {}))
<1>1. other.tenants = {} /\ other.rejected = {}
  BY DEF Alike
<1>2. _channels_and_composition(bp, other) = _channels_and_composition(bp, ctx)
  <2> DEFINE Of(composition, registry, tenants, strict) ==
               LET bound == composition.adapter
                   disabled == {role \in DOMAIN bound \ {"turn"} : \E t \in tenants : bound[role] \notin t}
                   wanted == Wanted(bp, composition)
                   capability(i) ==
                     LET w == wanted[i]
                         path == <<"composition.bindings=", w.role>>
                         state == _provider_state(registry, composition, w.role, w.cap)
                     IN CASE w.role \notin DOMAIN bound -> Block("INVALID_CONFIG", <<"composition.bindings">>)
                          [] state = "UNSUPPORTED" -> Block(w.reason, path)
                          [] state = "PARTIAL" -> Warn(w.reason, path)
                          [] state = "UNVERIFIED" ->
                               IF strict THEN Block("PROVIDER_CAPABILITY_UNAVAILABLE", path)
                               ELSE Warn("PROVIDER_CAPABILITY_UNAVAILABLE", path)
                          [] OTHER -> <<>>
               IN OfRoles(disabled, "PROVIDER_CAPABILITY_UNAVAILABLE")
                    \o FlattenSeq([i \in DOMAIN wanted |-> capability(i)])
  <2>1. \A k : _channels_and_composition(bp, k) = Of(k.composition, k.registry, k.tenants, k.strict)
    BY DEF _channels_and_composition
  <2> HIDE DEF Of
  <2> QED BY <2>1 DEF Alike
<1>3. _locale_and_voice(bp, other) = _locale_and_voice(bp, ctx)
  BY DEF _locale_and_voice, Alike
<1>4. _licenses(other) = _licenses(ctx)
  BY DEF _licenses, Alike
<1>5. ToSet(_knowledge(bp, ctx)) \subseteq ToSet(_knowledge(bp, other))
  BY KnowledgeFine
<1>6. \A f \in ToSet(_tools(bp, ctx, {})) :
        f.path[1] # "tools.permissions" => f \in ToSet(_tools(bp, other, {}))
  BY ToolsFound DEF Alike
<1>7. ToSet(Findings(bp, ctx, {}, {})) = PartsOf(bp, ctx)
  BY FindingsFound
<1>8. ToSet(Findings(bp, other, {}, {})) = PartsOf(bp, other)
  BY <1>1, FindingsFound
<1>9. \A f \in PartsOf(bp, ctx) : f.path[1] # "tools.permissions" => f \in PartsOf(bp, other)
  <2> SUFFICES ASSUME NEW f \in PartsOf(bp, ctx), f.path[1] # "tools.permissions"
               PROVE  f \in PartsOf(bp, other)
    OBVIOUS
  <2> QED BY <1>2, <1>3, <1>4, <1>5, <1>6 DEF PartsOf
<1> QED BY <1>7, <1>8, <1>9

-----------------------------------------------------------------------------
(***************************************************************************)
(* What the requirements of an activity are mapped to.                     *)
(***************************************************************************)
BargeIn == <<"feature", "barge_in">>
ToolCalls == <<"feature", "tool_calls">>

\* The role that speaks, and what it does of a barge-in.
Speaker(composition) == IF composition.mode = "s2s" THEN "s2s" ELSE "tts"

SpeakerBargeIn(registry, composition) ==
  Result(_provider_state(registry, composition, Speaker(composition), BargeIn), TRUE)

\* These capabilities mean the same for every draft.
Settled(cap) == cap[1] \notin {"language", "knowledge", "handoff"} /\ cap \notin {BargeIn, ToolCalls}

ActionOf(registry, composition, cap) ==
  CASE cap[1] = "tool" -> IF _platform_state(registry, cap) = "UNVERIFIED" THEN "REQUIRES_TOOL"
                          ELSE Result(_platform_state(registry, cap), TRUE)
    [] cap[1] = "audio" -> Result(_provider_state(registry, composition, Speaker(composition), cap), TRUE)
    [] cap = <<"feature", "end_of_turn">> ->
         Result(_provider_state(registry, composition, "turn", cap), TRUE)
    [] OTHER -> Result(_platform_state(registry, cap), TRUE)

\* What a row says, by its capability.
RowKind(r, registry, composition, bp) ==
  LET of(role) == _provider_state(registry, composition, role, r.cap)
  IN \/ Settled(r.cap) /\ r.action = ActionOf(registry, composition, r.cap)
     \/ /\ r.cap = <<"language", bp.language>>
        /\ \E role \in (IF composition.mode = "s2s" THEN {"s2s"} ELSE {"asr", "tts"}) :
             r.action = Result(of(role), TRUE)
     \/ /\ r.cap = BargeIn /\ IsVoice(bp)
        /\ \E role \in {Speaker(composition), "turn"} : r.action = Result(of(role), TRUE)
     \/ /\ r.cap = ToolCalls /\ UsesTools(bp)
        /\ r.action = Result(of(IF composition.mode = "s2s" THEN "s2s" ELSE "llm"), FALSE)
     \/ r.cap[1] = "knowledge" /\ r.action \in {"SUPPORTED", "REQUIRES_KNOWLEDGE"}
     \/ r.cap[1] = "handoff" /\ r.action \in {"SUPPORTED", "REQUIRES_HUMAN"}

\* Rows of these kinds, of which the speaker's comes before the others of a barge-in.
Rows(s, registry, composition, bp) ==
  /\ IsSeq(s)
  /\ \A i \in 1..Len(s) :
       /\ RowKind(s[i], registry, composition, bp)
       /\ s[i].cap = BargeIn =>
            \E j \in 1..i : s[j].cap = BargeIn /\ s[j].action = SpeakerBargeIn(registry, composition)

\* One after the other.
LEMMA RowsJoined ==
  ASSUME NEW s, NEW t, NEW reg, NEW com, NEW bp, Rows(s, reg, com, bp), Rows(t, reg, com, bp)
  PROVE  Rows(s \o t, reg, com, bp)
<1> DEFINE st == s \o t
           m == Len(s)
           n == Len(t)
           N == Len(st)
           led(q, i) == \E j \in 1..i : q[j].cap = BargeIn /\ q[j].action = SpeakerBargeIn(reg, com)
<1>1. IsSeq(s) /\ IsSeq(t)
  BY DEF Rows
<1>2. /\ m \in Nat /\ n \in Nat /\ IsSeq(st) /\ N = m + n
      /\ \A i \in 1..m : st[i] = s[i]
      /\ \A i \in 1..n : st[m + i] = t[i]
      /\ \A k \in 1..N : k \in 1..m \/ \E i \in 1..n : k = m + i
  BY <1>1, Joined, Elements
<1>3. /\ \A i \in 1..m : RowKind(s[i], reg, com, bp) /\ (s[i].cap = BargeIn => led(s, i))
      /\ \A i \in 1..n : RowKind(t[i], reg, com, bp) /\ (t[i].cap = BargeIn => led(t, i))
  BY DEF Rows
<1> HIDE DEF st, m, n, N
<1>4. \A i \in 1..m : led(s, i) => led(st, i)
  <2> SUFFICES ASSUME NEW i \in 1..m, led(s, i) PROVE led(st, i)
    OBVIOUS
  <2>1. PICK j \in 1..i : s[j].cap = BargeIn /\ s[j].action = SpeakerBargeIn(reg, com)
    OBVIOUS
  <2>2. j \in 1..m
    BY <1>2
  <2> QED BY <1>2, <2>1, <2>2
<1>5. \A i \in 1..n : led(t, i) => led(st, m + i)
  <2> SUFFICES ASSUME NEW i \in 1..n, led(t, i) PROVE led(st, m + i)
    OBVIOUS
  <2>1. PICK j \in 1..i : t[j].cap = BargeIn /\ t[j].action = SpeakerBargeIn(reg, com)
    OBVIOUS
  <2>2. j \in 1..n /\ m + j \in 1..(m + i)
    BY <1>2
  <2>3. st[m + j] = t[j]
    BY <1>2, <2>2
  <2> QED BY <2>1, <2>2, <2>3
<1> HIDE DEF led
<1>6. \A k \in 1..N : RowKind(st[k], reg, com, bp) /\ (st[k].cap = BargeIn => led(st, k))
  BY <1>2, <1>3, <1>4, <1>5
<1> QED BY <1>2, <1>6 DEF Rows, st, N, led

\* A sequence of rows none of which is of a barge-in.
LEMMA PlainRows ==
  ASSUME NEW n \in Nat, NEW s, s = [i \in 1..n |-> s[i]], NEW reg, NEW com, NEW bp,
         \A i \in 1..n : RowKind(s[i], reg, com, bp) /\ s[i].cap # BargeIn
  PROVE  Rows(s, reg, com, bp)
<1>1. IsSeq(s) /\ Len(s) = n
  BY FunctionIsSeq
<1> QED BY <1>1 DEF Rows

\* One row, when it is needed.
LEMMA RowWhen ==
  ASSUME NEW c \in BOOLEAN, NEW r, NEW reg, NEW com, NEW bp,
         c => RowKind(r, reg, com, bp) /\ r.cap # BargeIn
  PROVE  Rows(IF c THEN <<r>> ELSE <<>>, reg, com, bp)
<1>1. CASE c
  <2>1. IsSeq(<<r>>) /\ Len(<<r>>) = 1 /\ <<r>>[1] = r
    BY Single
  <2>2. \A i \in 1..1 : i = 1
    OBVIOUS
  <2>3. Rows(<<r>>, reg, com, bp)
    BY <1>1, <2>1, <2>2 DEF Rows
  <2> QED BY <1>1, <2>3
<1>2. CASE ~c
  <2>1. IsSeq(<<>>) /\ Len(<<>>) = 0
    BY Nothing
  <2>2. Rows(<<>>, reg, com, bp)
    BY <2>1 DEF Rows
  <2> QED BY <1>2, <2>2
<1> QED BY <1>1, <1>2

\* A row of the platform is settled.
LEMMA PlatformRow ==
  \A reg, com, bp, x : \A k \in {"channel", "behavior", "locale_pack", "voice_profile"} :
    LET r == Plain(<<k, x>>, _platform_state(reg, <<k, x>>))
    IN RowKind(r, reg, com, bp) /\ r.cap # BargeIn
<1> TAKE reg, com, bp, x
<1> TAKE k \in {"channel", "behavior", "locale_pack", "voice_profile"}
<1> DEFINE cap == <<k, x>>
           r == Plain(cap, _platform_state(reg, cap))
<1>1. cap[1] = k /\ cap # BargeIn /\ cap # ToolCalls /\ cap # <<"feature", "end_of_turn">>
  BY DEF BargeIn, ToolCalls
<1>2. r.cap = cap /\ r.action = Result(_platform_state(reg, cap), TRUE)
  BY DEF Plain, Row
<1> HIDE DEF cap, r
<1>3. Settled(cap)
  BY <1>1 DEF Settled
<1>4. ActionOf(reg, com, cap) = Result(_platform_state(reg, cap), TRUE)
  BY <1>1 DEF ActionOf
<1>5. RowKind(r, reg, com, bp) /\ r.cap # BargeIn
  BY <1>1, <1>2, <1>3, <1>4 DEF RowKind
<1> QED BY <1>5 DEF r, cap

\* So is the row of a tool.
LEMMA ToolRow ==
  ASSUME NEW reg, NEW com, NEW bp, NEW t, NEW o
  PROVE  RowKind(_tool_row(reg, t, o), reg, com, bp) /\ _tool_row(reg, t, o).cap # BargeIn
<1> DEFINE cap == <<"tool", t>>
           r == _tool_row(reg, t, o)
<1>1. /\ cap[1] = "tool" /\ cap # BargeIn /\ cap # ToolCalls
      /\ cap # <<"feature", "end_of_turn">>
  BY DEF BargeIn, ToolCalls
<1>2. /\ r.cap = cap
      /\ r.action = IF _platform_state(reg, cap) = "UNVERIFIED" THEN "REQUIRES_TOOL"
                    ELSE Result(_platform_state(reg, cap), TRUE)
  BY DEF _tool_row, Row
<1> HIDE DEF cap, r
<1>3. Settled(cap)
  BY <1>1 DEF Settled
<1>4. r.action = ActionOf(reg, com, cap)
  BY <1>1, <1>2 DEF ActionOf
<1>5. RowKind(r, reg, com, bp) /\ r.cap # BargeIn
  BY <1>1, <1>2, <1>3, <1>4 DEF RowKind
<1> QED BY <1>5 DEF r

\* The rows of a voice.
LEMMA VoiceRows ==
  ASSUME NEW reg, NEW com, NEW bp, IsVoice(bp)
  PROVE  LET provided(role, cap) == Plain(cap, _provider_state(reg, com, role, cap))
         IN Rows(<<provided(Speaker(com), <<"audio", "pcm16_24k">>), provided(Speaker(com), BargeIn),
                   provided("turn", BargeIn), provided("turn", <<"feature", "end_of_turn">>)>>, reg, com, bp)
<1> DEFINE audio == <<"audio", "pcm16_24k">>
           turn == <<"feature", "end_of_turn">>
           act(role, cap) == Result(_provider_state(reg, com, role, cap), TRUE)
           provided(role, cap) == Plain(cap, _provider_state(reg, com, role, cap))
           a == provided(Speaker(com), audio)
           b == provided(Speaker(com), BargeIn)
           c == provided("turn", BargeIn)
           d == provided("turn", turn)
           s == <<a, b, c, d>>
<1>1. \A role, cap : provided(role, cap).cap = cap /\ provided(role, cap).action = act(role, cap)
  BY DEF Plain, Row
<1>2. /\ a.cap = audio /\ a.action = act(Speaker(com), audio)
      /\ b.cap = BargeIn /\ b.action = act(Speaker(com), BargeIn)
      /\ c.cap = BargeIn /\ c.action = act("turn", BargeIn)
      /\ d.cap = turn /\ d.action = act("turn", turn)
  <2> HIDE DEF provided, act, audio, turn
  <2> QED BY <1>1
<1>3. /\ audio[1] = "audio" /\ audio # BargeIn /\ audio # ToolCalls
      /\ turn[1] = "feature" /\ turn # BargeIn /\ turn # ToolCalls
  BY DEF BargeIn, ToolCalls
<1>4. b.action = SpeakerBargeIn(reg, com)
  BY <1>2 DEF SpeakerBargeIn
<1>5. Settled(audio) /\ Settled(turn)
  BY <1>3 DEF Settled
<1>6. ActionOf(reg, com, audio) = act(Speaker(com), audio) /\ ActionOf(reg, com, turn) = act("turn", turn)
  BY <1>3 DEF ActionOf
<1>7. IsSeq(s) /\ Len(s) = 4 /\ s[1] = a /\ s[2] = b /\ s[3] = c /\ s[4] = d
  <2> HIDE DEF a, b, c, d
  <2>1. s \in Seq({a, b, c, d})
    OBVIOUS
  <2>2. IsSeq(s)
    BY <2>1, TypedIsSeq
  <2> QED BY <2>2
<1> HIDE DEF a, b, c, d, s, audio, turn
<1>8. RowKind(a, reg, com, bp) /\ RowKind(d, reg, com, bp)
  BY <1>2, <1>5, <1>6 DEF RowKind
<1>9. RowKind(b, reg, com, bp) /\ RowKind(c, reg, com, bp)
  BY <1>2 DEF RowKind
<1>10. \A i \in 1..4 : i \in {1, 2, 3, 4}
  OBVIOUS
<1>11. \A i \in 1..4 : RowKind(s[i], reg, com, bp)
  BY <1>7, <1>8, <1>9, <1>10
<1>12. \A i \in 1..4 : s[i].cap = BargeIn => i \in {2, 3}
  BY <1>2, <1>3, <1>7, <1>10
<1>13. \A i \in {2, 3} : 2 \in 1..i
  OBVIOUS
<1>14. Rows(s, reg, com, bp)
  BY <1>2, <1>4, <1>7, <1>11, <1>12, <1>13 DEF Rows
<1> QED BY <1>14 DEF s, a, b, c, d, audio, turn

\* The rows of a blueprint.
LEMMA MappingFound ==
  ASSUME NEW bp \in Drafts, NEW reg, NEW com
  PROVE  Rows(map_requirements(reg, com, bp), reg, com, bp)
<1> DEFINE s2s == com.mode = "s2s"
           speak == IF s2s THEN "s2s" ELSE "tts"
           hear == IF s2s THEN "s2s" ELSE "asr"
           think == IF s2s THEN "s2s" ELSE "llm"
           provided(role, cap) == Plain(cap, _provider_state(reg, com, role, cap))
           platform(cap) == Plain(cap, _platform_state(reg, cap))
           when(c, rows) == IF c THEN rows ELSE <<>>
           language == <<"language", bp.language>>
           bargeIn == <<"feature", "barge_in">>
           toolCalls == _provider_state(reg, com, think, <<"feature", "tool_calls">>)
           Good(s) == Rows(s, reg, com, bp)
           n == Cardinality(bp.channels)
           B == {platform(<<"behavior", b>>) : b \in BehaviorsOf(bp)}
           a == [i \in 1..n |-> platform(<<"channel", SetToSeq(bp.channels)[i]>>)]
           b == <<provided(hear, language)>>
           c == when(~s2s, <<provided(speak, language)>>)
           d == when(IsVoice(bp), <<provided(speak, <<"audio", "pcm16_24k">>), provided(speak, bargeIn),
                                    provided("turn", bargeIn),
                                    provided("turn", <<"feature", "end_of_turn">>)>>)
           e == when(UsesTools(bp), <<Row(<<"feature", "tool_calls">>, toolCalls,
                                          Result(toolCalls, FALSE), FALSE)>>)
           f == [i \in DOMAIN bp.needs |-> _tool_row(reg, bp.needs[i], FALSE)]
           g == [i \in DOMAIN bp.extras |-> _tool_row(reg, bp.extras[i], TRUE)]
           h == [i \in DOMAIN bp.requirements |-> KnowledgeRow(bp.requirements[i])]
           j == SetToSeq(B)
           k == when("OFFER_HUMAN_HANDOFF" \in BehaviorsOf(bp) \/ bp.handoffs # <<>>, <<HandoffRow(bp)>>)
           l == when(bp.pack # Unset, <<platform(<<"locale_pack", bp.pack>>)>>)
           m == when(IsVoice(bp) /\ bp.voice # Unset, <<platform(<<"voice_profile", bp.voice>>)>>)
           s1 == a \o b
           s2 == s1 \o c
           s3 == s2 \o d
           s4 == s3 \o e
           s5 == s4 \o f
           s6 == s5 \o g
           s7 == s6 \o h
           s8 == s7 \o j
           s9 == s8 \o k
           s10 == s9 \o l
           s11 == s10 \o m
<1>1. map_requirements(reg, com, bp) = s11
  BY DEF map_requirements
<1>2. Good(a)
  <2>1. bp.channels \in SUBSET Channels
    BY DEF Drafts
  <2>2. IsFiniteSet(Channels)
    <3>1. IsFiniteSet({"browser_voice"})
      BY FS_Singleton
    <3>2. IsFiniteSet({"browser_voice"} \cup {"text"})
      BY <3>1, FS_AddElement
    <3>3. IsFiniteSet(({"browser_voice"} \cup {"text"}) \cup {"telephony"})
      BY <3>2, FS_AddElement
    <3>4. Channels = ({"browser_voice"} \cup {"text"}) \cup {"telephony"}
      BY DEF Channels
    <3> QED BY <3>3, <3>4
  <2>3. IsFiniteSet(bp.channels)
    BY <2>1, <2>2, FS_Subset
  <2>4. n \in Nat
    BY <2>3, FS_CardinalityType
  <2>5. \A x : RowKind(platform(<<"channel", x>>), reg, com, bp) /\ platform(<<"channel", x>>).cap # BargeIn
    <3> HIDE DEF a, b, c, d, e, f, g, h, j, k, l, m
    <3> QED BY PlatformRow, Zenon
  <2> HIDE DEF platform, n
  <2>6. a = [i \in 1..n |-> a[i]] /\ \A i \in 1..n : RowKind(a[i], reg, com, bp) /\ a[i].cap # BargeIn
    BY <2>5
  <2> HIDE DEF a
  <2> QED BY <2>4, <2>6, PlainRows
<1>3. Good(b) /\ Good(c)
  <2>1. \A role : /\ provided(role, language).cap = language
                  /\ provided(role, language).action = Result(_provider_state(reg, com, role, language), TRUE)
    BY DEF Plain, Row
  <2>2. language # BargeIn
    BY DEF BargeIn
  <2> DEFINE x == provided(hear, language)
             y == provided(speak, language)
  <2>3. RowKind(x, reg, com, bp) /\ x.cap # BargeIn
    <3>1. hear \in IF com.mode = "s2s" THEN {"s2s"} ELSE {"asr", "tts"}
      OBVIOUS
    <3>2. x.cap = language /\ x.action = Result(_provider_state(reg, com, hear, language), TRUE)
      BY <2>1
    <3> HIDE DEF x, hear, provided
    <3> QED BY <2>2, <3>1, <3>2 DEF RowKind
  <2>4. ~s2s => RowKind(y, reg, com, bp) /\ y.cap # BargeIn
    <3>1. ~s2s => speak \in IF com.mode = "s2s" THEN {"s2s"} ELSE {"asr", "tts"}
      OBVIOUS
    <3>2. y.cap = language /\ y.action = Result(_provider_state(reg, com, speak, language), TRUE)
      BY <2>1
    <3> HIDE DEF y, speak, provided
    <3> QED BY <2>2, <3>1, <3>2 DEF RowKind
  <2> HIDE DEF x, y
  <2>5. Good(IF TRUE THEN <<x>> ELSE <<>>) /\ Good(IF ~s2s THEN <<y>> ELSE <<>>)
    BY <2>3, <2>4, RowWhen
  <2> QED BY <2>5 DEF x, y
<1>4. Good(d)
  <2>1. Rows(<<>>, reg, com, bp)
    <3>1. IsSeq(<<>>) /\ Len(<<>>) = 0
      BY Nothing
    <3> QED BY <3>1 DEF Rows
  <2>2. speak = Speaker(com) /\ bargeIn = BargeIn
    BY DEF Speaker, BargeIn
  <2>3. CASE IsVoice(bp)
    <3> DEFINE q == <<provided(Speaker(com), <<"audio", "pcm16_24k">>), provided(Speaker(com), BargeIn),
                      provided("turn", BargeIn), provided("turn", <<"feature", "end_of_turn">>)>>
    <3>1. Good(q)
      BY <2>3, VoiceRows
    <3>2. d = q
      BY <2>2, <2>3
    <3> HIDE DEF q, d
    <3> QED BY <3>1, <3>2
  <2>4. CASE ~IsVoice(bp)
    BY <2>1, <2>4
  <2> QED BY <2>3, <2>4
<1>5. Good(e)
  <2> DEFINE x == Row(<<"feature", "tool_calls">>, toolCalls, Result(toolCalls, FALSE), FALSE)
  <2>1. /\ x.cap = ToolCalls /\ x.cap # BargeIn
        /\ x.action = Result(_provider_state(reg, com, think, x.cap), FALSE)
    BY DEF ToolCalls, BargeIn, Row
  <2> HIDE DEF x
  <2>2. UsesTools(bp) => RowKind(x, reg, com, bp)
    BY <2>1 DEF RowKind
  <2>3. Good(IF UsesTools(bp) THEN <<x>> ELSE <<>>)
    <3>1. UsesTools(bp) \in BOOLEAN
      BY DEF UsesTools
    <3> QED BY <2>1, <2>2, <3>1, RowWhen
  <2> QED BY <2>3 DEF x
<1>6. Good(f) /\ Good(g)
  <2>1. /\ Len(bp.needs) \in Nat /\ DOMAIN bp.needs = 1..Len(bp.needs)
        /\ Len(bp.extras) \in Nat /\ DOMAIN bp.extras = 1..Len(bp.extras)
    BY DEF Drafts
  <2>2. /\ f = [i \in 1..Len(bp.needs) |-> f[i]]
        /\ \A i \in 1..Len(bp.needs) : RowKind(f[i], reg, com, bp) /\ f[i].cap # BargeIn
    BY <2>1, ToolRow
  <2>3. /\ g = [i \in 1..Len(bp.extras) |-> g[i]]
        /\ \A i \in 1..Len(bp.extras) : RowKind(g[i], reg, com, bp) /\ g[i].cap # BargeIn
    BY <2>1, ToolRow
  <2> HIDE DEF f, g
  <2> QED BY <2>1, <2>2, <2>3, PlainRows
<1>7. Good(h)
  <2>1. /\ Len(bp.requirements) \in Nat /\ DOMAIN bp.requirements = 1..Len(bp.requirements)
    BY DEF Drafts
  <2>2. \A r : /\ KnowledgeRow(r).cap = <<"knowledge", r.domain>>
               /\ KnowledgeRow(r).action \in {"SUPPORTED", "REQUIRES_KNOWLEDGE"}
    BY DEF KnowledgeRow, Row
  <2>3. \A r : RowKind(KnowledgeRow(r), reg, com, bp) /\ KnowledgeRow(r).cap # BargeIn
    <3> TAKE r
    <3>1. <<"knowledge", r.domain>>[1] = "knowledge" /\ <<"knowledge", r.domain>> # BargeIn
      BY DEF BargeIn
    <3>2. KnowledgeRow(r).cap[1] = "knowledge" /\ KnowledgeRow(r).cap # BargeIn
      BY <2>2, <3>1
    <3> QED BY <2>2, <3>2 DEF RowKind
  <2>4. /\ h = [i \in 1..Len(bp.requirements) |-> h[i]]
        /\ \A i \in 1..Len(bp.requirements) : RowKind(h[i], reg, com, bp) /\ h[i].cap # BargeIn
    BY <2>1, <2>3
  <2> HIDE DEF h
  <2> QED BY <2>1, <2>4, PlainRows
<1>8. Good(j)
  <2>1. \A x : RowKind(platform(<<"behavior", x>>), reg, com, bp) /\ platform(<<"behavior", x>>).cap # BargeIn
    <3> HIDE DEF a, b, c, d, e, f, g, h, j, k, l, m
    <3> QED BY PlatformRow, Zenon
  <2>2. BehaviorsOf(bp) \subseteq Behaviors \cup {Unset}
    <3>1. /\ bp.default \in Behaviors \cup {Unset} /\ bp.uncertainty \in Behaviors \cup {Unset}
          /\ bp.overrides \in Seq([topic : BOOLEAN, behavior : Behaviors])
      BY DEF Drafts
    <3> DEFINE O == [topic : BOOLEAN, behavior : Behaviors]
               o == bp.overrides
    <3>2. \A i \in DOMAIN o : o[i] \in O
      <4>1. o \in Seq(O)
        BY <3>1
      <4> HIDE DEF O, o
      <4> QED BY <4>1
    <3>3. \A r \in O : r.behavior \in Behaviors
      OBVIOUS
    <3>4. \A i \in DOMAIN bp.overrides : bp.overrides[i].behavior \in Behaviors
      BY <3>2, <3>3
    <3> HIDE DEF O, o
    <3> QED BY <3>1, <3>4 DEF BehaviorsOf, Behaviors
  <2> DEFINE w == platform(<<"behavior", Unset>>)
             x == platform(<<"behavior", "STATE_LIMITATION">>)
             y == platform(<<"behavior", "OFFER_HUMAN_HANDOFF">>)
             z == platform(<<"behavior", "CLOSE_GRACEFULLY">>)
  <2>3. B \subseteq {w, x, y, z}
    BY <2>2 DEF Behaviors
  <2> HIDE DEF w, x, y, z, B
  <2>4. IsFiniteSet({w, x, y, z})
    <3>1. IsFiniteSet({w})
      BY FS_Singleton
    <3>2. IsFiniteSet({w} \cup {x})
      BY <3>1, FS_AddElement
    <3>3. IsFiniteSet(({w} \cup {x}) \cup {y})
      BY <3>2, FS_AddElement
    <3>4. IsFiniteSet((({w} \cup {x}) \cup {y}) \cup {z})
      BY <3>3, FS_AddElement
    <3>5. {w, x, y, z} = (({w} \cup {x}) \cup {y}) \cup {z}
      OBVIOUS
    <3> QED BY <3>4, <3>5
  <2>5. IsFiniteSet(B)
    BY <2>3, <2>4, FS_Subset
  <2>6. IsSeq(j) /\ ToSet(j) = B
    BY <2>5, Listed
  <2>7. \A r \in B : RowKind(r, reg, com, bp) /\ r.cap # BargeIn
    BY <2>1 DEF B
  <2> HIDE DEF j
  <2>8. \A i \in 1..Len(j) : j[i] \in B
    BY <2>6, Elements
  <2> QED BY <2>6, <2>7, <2>8 DEF Rows
<1>9. Good(k)
  <2>1. /\ HandoffRow(bp).cap = <<"handoff", "destination">>
        /\ HandoffRow(bp).action \in {"SUPPORTED", "REQUIRES_HUMAN"}
    BY DEF HandoffRow, Row
  <2>2. HandoffRow(bp).cap[1] = "handoff" /\ HandoffRow(bp).cap # BargeIn
    BY <2>1 DEF BargeIn
  <2>3. RowKind(HandoffRow(bp), reg, com, bp)
    BY <2>1, <2>2 DEF RowKind
  <2> QED BY <2>2, <2>3, RowWhen
<1>10. Good(l) /\ Good(m)
  <2> DEFINE x == platform(<<"locale_pack", bp.pack>>)
             y == platform(<<"voice_profile", bp.voice>>)
  <2>1. RowKind(x, reg, com, bp) /\ x.cap # BargeIn /\ RowKind(y, reg, com, bp) /\ y.cap # BargeIn
    BY PlatformRow
  <2> HIDE DEF x, y
  <2>2. Good(IF bp.pack # Unset THEN <<x>> ELSE <<>>)
    BY <2>1, RowWhen
  <2>3. Good(IF IsVoice(bp) /\ bp.voice # Unset THEN <<y>> ELSE <<>>)
    BY <2>1, RowWhen
  <2> QED BY <2>2, <2>3 DEF x, y
<1> HIDE DEF a, b, c, d, e, f, g, h, j, k, l, m
<1>11. Good(s3)
  BY <1>2, <1>3, <1>4, RowsJoined
<1> HIDE DEF s3
<1>12. Good(s6)
  BY <1>5, <1>6, <1>11, RowsJoined
<1> HIDE DEF s6
<1>13. Good(s9)
  BY <1>7, <1>8, <1>9, <1>12, RowsJoined
<1> HIDE DEF s9
<1>14. Good(s11)
  BY <1>10, <1>13, RowsJoined
<1> QED BY <1>1, <1>14

-----------------------------------------------------------------------------
(***************************************************************************)
(* What is asked.                                                          *)
(***************************************************************************)
\* A question of the kinds there are.
Question1(q) ==
  q.kind \in DOMAIN Band /\ q.blocking \in BOOLEAN /\ q.proposal \in BOOLEAN /\ Len(q.path) \in {1, 2}

\* One question, as it is: a question that blocks, or may wait, without a proposal or with one.
Blocking(k, p, t) == Question(k, p, t, TRUE, FALSE)
Waiting(k, p, t) == Question(k, p, t, FALSE, FALSE)
BlockingOffer(k, p, t) == Question(k, p, t, TRUE, TRUE)
WaitingOffer(k, p, t) == Question(k, p, t, FALSE, TRUE)

\* One question, with its path.
LEMMA QuestionShape ==
  ASSUME NEW k, NEW p, NEW t
  PROVE  /\ IsSeq(Blocking(k, p, t)) /\ Paths(Blocking(k, p, t)) = {p}
         /\ \A q \in ToSet(Blocking(k, p, t)) : /\ q.kind = k /\ q.path = p /\ q.blocking /\ ~q.proposal
                                          /\ q.blocking \in BOOLEAN /\ q.proposal \in BOOLEAN
         /\ IsSeq(Waiting(k, p, t)) /\ Paths(Waiting(k, p, t)) = {p}
         /\ \A q \in ToSet(Waiting(k, p, t)) : /\ q.kind = k /\ q.path = p /\ ~q.blocking /\ ~q.proposal
                                         /\ q.blocking \in BOOLEAN /\ q.proposal \in BOOLEAN
         /\ IsSeq(BlockingOffer(k, p, t)) /\ Paths(BlockingOffer(k, p, t)) = {p}
         /\ \A q \in ToSet(BlockingOffer(k, p, t)) : /\ q.kind = k /\ q.path = p /\ q.blocking /\ q.proposal
                                               /\ q.blocking \in BOOLEAN /\ q.proposal \in BOOLEAN
         /\ IsSeq(WaitingOffer(k, p, t)) /\ Paths(WaitingOffer(k, p, t)) = {p}
         /\ \A q \in ToSet(WaitingOffer(k, p, t)) : /\ q.kind = k /\ q.path = p /\ ~q.blocking /\ q.proposal
                                              /\ q.blocking \in BOOLEAN /\ q.proposal \in BOOLEAN
<1>1. /\ IsSeq(Blocking(k, p, t)) /\ Paths(Blocking(k, p, t)) = {p}
      /\ \A q \in ToSet(Blocking(k, p, t)) : /\ q.kind = k /\ q.path = p /\ q.blocking /\ ~q.proposal
                                       /\ q.blocking \in BOOLEAN /\ q.proposal \in BOOLEAN
  <2> DEFINE x == [kind |-> k, path |-> p, text |-> t, blocking |-> TRUE, proposal |-> FALSE]
  <2>1. /\ x.kind = k /\ x.path = p /\ x.blocking /\ ~x.proposal
        /\ x.blocking \in BOOLEAN /\ x.proposal \in BOOLEAN
    OBVIOUS
  <2>2. Blocking(k, p, t) = <<x>>
    BY DEF Question, Blocking
  <2> HIDE DEF x
  <2>3. IsSeq(<<x>>) /\ ToSet(<<x>>) = {x} /\ Paths(<<x>>) = {x.path}
    BY Single
  <2> QED BY <2>1, <2>2, <2>3
<1>2. /\ IsSeq(Waiting(k, p, t)) /\ Paths(Waiting(k, p, t)) = {p}
      /\ \A q \in ToSet(Waiting(k, p, t)) : /\ q.kind = k /\ q.path = p /\ ~q.blocking /\ ~q.proposal
                                      /\ q.blocking \in BOOLEAN /\ q.proposal \in BOOLEAN
  <2> DEFINE x == [kind |-> k, path |-> p, text |-> t, blocking |-> FALSE, proposal |-> FALSE]
  <2>1. /\ x.kind = k /\ x.path = p /\ ~x.blocking /\ ~x.proposal
        /\ x.blocking \in BOOLEAN /\ x.proposal \in BOOLEAN
    OBVIOUS
  <2>2. Waiting(k, p, t) = <<x>>
    BY DEF Question, Waiting
  <2> HIDE DEF x
  <2>3. IsSeq(<<x>>) /\ ToSet(<<x>>) = {x} /\ Paths(<<x>>) = {x.path}
    BY Single
  <2> QED BY <2>1, <2>2, <2>3
<1>3. /\ IsSeq(BlockingOffer(k, p, t)) /\ Paths(BlockingOffer(k, p, t)) = {p}
      /\ \A q \in ToSet(BlockingOffer(k, p, t)) : /\ q.kind = k /\ q.path = p /\ q.blocking /\ q.proposal
                                            /\ q.blocking \in BOOLEAN /\ q.proposal \in BOOLEAN
  <2> DEFINE x == [kind |-> k, path |-> p, text |-> t, blocking |-> TRUE, proposal |-> TRUE]
  <2>1. /\ x.kind = k /\ x.path = p /\ x.blocking /\ x.proposal
        /\ x.blocking \in BOOLEAN /\ x.proposal \in BOOLEAN
    OBVIOUS
  <2>2. BlockingOffer(k, p, t) = <<x>>
    BY DEF Question, BlockingOffer
  <2> HIDE DEF x
  <2>3. IsSeq(<<x>>) /\ ToSet(<<x>>) = {x} /\ Paths(<<x>>) = {x.path}
    BY Single
  <2> QED BY <2>1, <2>2, <2>3
<1>4. /\ IsSeq(WaitingOffer(k, p, t)) /\ Paths(WaitingOffer(k, p, t)) = {p}
      /\ \A q \in ToSet(WaitingOffer(k, p, t)) : /\ q.kind = k /\ q.path = p /\ ~q.blocking /\ q.proposal
                                           /\ q.blocking \in BOOLEAN /\ q.proposal \in BOOLEAN
  <2> DEFINE x == [kind |-> k, path |-> p, text |-> t, blocking |-> FALSE, proposal |-> TRUE]
  <2>1. /\ x.kind = k /\ x.path = p /\ ~x.blocking /\ x.proposal
        /\ x.blocking \in BOOLEAN /\ x.proposal \in BOOLEAN
    OBVIOUS
  <2>2. WaitingOffer(k, p, t) = <<x>>
    BY DEF Question, WaitingOffer
  <2> HIDE DEF x
  <2>3. IsSeq(<<x>>) /\ ToSet(<<x>>) = {x} /\ Paths(<<x>>) = {x.path}
    BY Single
  <2> QED BY <2>1, <2>2, <2>3
<1> QED BY <1>1, <1>2, <1>3, <1>4

\* A capability nobody vouched for: asking about it may wait.
Unchecked(registry, composition, cap) ==
  \/ cap[1] = "language" \/ cap = ToolCalls
  \/ cap = BargeIn /\ SpeakerBargeIn(registry, composition) # "UNSUPPORTED"
  \/ Settled(cap) /\ ActionOf(registry, composition, cap) = "UNVERIFIED"

Needy == {"REQUIRES_KNOWLEDGE", "REQUIRES_TOOL", "UNSUPPORTED"}

\* The question of a row.
AskOf(r) ==
  LET path == <<"capabilities", r.cap>>
  IN CASE r.action = "REQUIRES_KNOWLEDGE" -> Question("blocking_gap", path, "knowledge", TRUE, FALSE)
       [] r.action = "REQUIRES_HUMAN" ->
            Question("business_decision", <<"handoff_rules">>, "human", TRUE, FALSE)
       [] r.action \in {"REQUIRES_TOOL", "UNSUPPORTED"} ->
            Question("capability_gap", path, r.action, TRUE, FALSE)
       [] r.action = "UNVERIFIED" -> Question("capability_gap", path, "unverified", FALSE, FALSE)
       [] OTHER -> <<>>

\* What is asked of one row.
LEMMA AskedOfRow ==
  ASSUME NEW r
  PROVE  /\ IsSeq(AskOf(r))
         /\ \A q \in ToSet(AskOf(r)) :
              /\ Question1(q) /\ ~q.proposal
              /\ \/ q.path = <<"handoff_rules">> /\ q.blocking
                 \/ q.path = <<"capabilities", r.cap>> /\ (~q.blocking => r.action = "UNVERIFIED")
         /\ r.action = "REQUIRES_HUMAN" => <<"handoff_rules">> \in Paths(AskOf(r))
         /\ r.action \in Needy => <<"capabilities", r.cap>> \in Paths(AskOf(r))
<1> DEFINE path == <<"capabilities", r.cap>>
           human == <<"handoff_rules">>
           k == Blocking("blocking_gap", path, "knowledge")
           h == Blocking("business_decision", human, "human")
           c == Blocking("capability_gap", path, r.action)
           u == Waiting("capability_gap", path, "unverified")
<1>1. Len(path) \in {1, 2} /\ Len(human) \in {1, 2}
  OBVIOUS
<1>2. {"blocking_gap", "business_decision", "capability_gap"} \subseteq DOMAIN Band
  BY DEF Band
<1> HIDE DEF path, human
<1>3. /\ IsSeq(k) /\ Paths(k) = {path}
      /\ \A q \in ToSet(k) : Question1(q) /\ ~q.proposal /\ q.path = path /\ q.blocking
  <2>1. /\ IsSeq(k) /\ Paths(k) = {path}
        /\ \A q \in ToSet(k) : /\ q.kind = "blocking_gap" /\ q.path = path /\ q.blocking /\ ~q.proposal
                              /\ q.blocking \in BOOLEAN /\ q.proposal \in BOOLEAN
    BY QuestionShape
  <2> HIDE DEF k
  <2> QED BY <1>1, <1>2, <2>1 DEF Question1
<1>4. /\ IsSeq(h) /\ Paths(h) = {human}
      /\ \A q \in ToSet(h) : Question1(q) /\ ~q.proposal /\ q.path = human /\ q.blocking
  <2>1. /\ IsSeq(h) /\ Paths(h) = {human}
        /\ \A q \in ToSet(h) : /\ q.kind = "business_decision" /\ q.path = human /\ q.blocking /\ ~q.proposal
                              /\ q.blocking \in BOOLEAN /\ q.proposal \in BOOLEAN
    BY QuestionShape
  <2> HIDE DEF h
  <2> QED BY <1>1, <1>2, <2>1 DEF Question1
<1>5. /\ IsSeq(c) /\ Paths(c) = {path}
      /\ \A q \in ToSet(c) : Question1(q) /\ ~q.proposal /\ q.path = path /\ q.blocking
  <2>1. /\ IsSeq(c) /\ Paths(c) = {path}
        /\ \A q \in ToSet(c) : /\ q.kind = "capability_gap" /\ q.path = path /\ q.blocking /\ ~q.proposal
                              /\ q.blocking \in BOOLEAN /\ q.proposal \in BOOLEAN
    BY QuestionShape
  <2> HIDE DEF c
  <2> QED BY <1>1, <1>2, <2>1 DEF Question1
<1>6. /\ IsSeq(u) /\ Paths(u) = {path}
      /\ \A q \in ToSet(u) : Question1(q) /\ ~q.proposal /\ q.path = path /\ ~q.blocking
  <2>1. /\ IsSeq(u) /\ Paths(u) = {path}
        /\ \A q \in ToSet(u) : /\ q.kind = "capability_gap" /\ q.path = path /\ ~q.blocking /\ ~q.proposal
                              /\ q.blocking \in BOOLEAN /\ q.proposal \in BOOLEAN
    BY QuestionShape
  <2> HIDE DEF u
  <2> QED BY <1>1, <1>2, <2>1 DEF Question1
<1> DEFINE s == AskOf(r)
<1>7. s = CASE r.action = "REQUIRES_KNOWLEDGE" -> k
            [] r.action = "REQUIRES_HUMAN" -> h
            [] r.action \in {"REQUIRES_TOOL", "UNSUPPORTED"} -> c
            [] r.action = "UNVERIFIED" -> u
            [] OTHER -> <<>>
  BY DEF AskOf, Blocking, Waiting, path, human
<1>8. IsSeq(<<>>) /\ ToSet(<<>>) = {}
  BY Nothing
<1> HIDE DEF k, h, c, u, s
<1>9. /\ r.action = "REQUIRES_KNOWLEDGE" => s = k
      /\ r.action = "REQUIRES_HUMAN" => s = h
      /\ r.action \in {"REQUIRES_TOOL", "UNSUPPORTED"} => s = c
      /\ r.action = "UNVERIFIED" => s = u
      /\ r.action \notin {"REQUIRES_KNOWLEDGE", "REQUIRES_HUMAN", "REQUIRES_TOOL", "UNSUPPORTED",
                          "UNVERIFIED"} => s = <<>>
  BY <1>7
<1>10. s \in {k, h, c, <<>>} \/ (s = u /\ r.action = "UNVERIFIED")
  BY <1>9
<1>11. IsSeq(s)
  BY <1>3, <1>4, <1>5, <1>6, <1>8, <1>10
<1>12. \A q \in ToSet(s) :
         /\ Question1(q) /\ ~q.proposal
         /\ (q.path = human /\ q.blocking) \/ (q.path = path /\ (~q.blocking => r.action = "UNVERIFIED"))
  BY <1>3, <1>4, <1>5, <1>6, <1>8, <1>10
<1>13. (r.action = "REQUIRES_HUMAN" => human \in Paths(s)) /\ (r.action \in Needy => path \in Paths(s))
  BY <1>3, <1>4, <1>5, <1>9 DEF Needy
<1> QED BY <1>11, <1>12, <1>13 DEF s, path, human

\* What is asked of the rows: what blocks is asked, and what may wait is unchecked.
LEMMA MappingAsked ==
  ASSUME NEW reg, NEW com, NEW bp, NEW rows, Rows(rows, reg, com, bp)
  PROVE  LET s == _from_mapping(rows)
         IN /\ IsSeq(s)
            /\ \A q \in ToSet(s) :
                 /\ Question1(q) /\ ~q.proposal
                 /\ \/ q.path = <<"handoff_rules">> /\ q.blocking
                    \/ q.path[1] = "capabilities" /\ Len(q.path) = 2
            /\ \A r \in ToSet(rows) :
                 /\ r.action = "REQUIRES_HUMAN" => <<"handoff_rules">> \in Paths(s)
                 /\ r.action \in Needy => <<"capabilities", r.cap>> \in Paths(s)
            /\ \A q \in Firsts(s) : q.path[1] = "capabilities" /\ ~q.blocking =>
                 Unchecked(reg, com, q.path[2])
<1> DEFINE n == Len(rows)
           ss == [i \in DOMAIN rows |-> AskOf(rows[i])]
           s == FlattenSeq(ss)
<1>1. n \in Nat /\ DOMAIN rows = 1..n /\ ToSet(rows) = {rows[i] : i \in 1..n}
  <2>1. IsSeq(rows)
    BY DEF Rows
  <2>2. n \in Nat /\ DOMAIN rows = 1..n
    BY <2>1, Elements
  <2> QED BY <2>2 DEF ToSet
<1>2. _from_mapping(rows) = s
  BY DEF _from_mapping, AskOf
<1>3. \A i \in 1..n :
        /\ RowKind(rows[i], reg, com, bp)
        /\ rows[i].cap = BargeIn =>
             \E j \in 1..i : rows[j].cap = BargeIn /\ rows[j].action = SpeakerBargeIn(reg, com)
  BY DEF Rows
<1> HIDE DEF n
<1>4. ss = [i \in 1..n |-> ss[i]] /\ \A i \in 1..n : ss[i] = AskOf(rows[i])
  BY <1>1
<1> HIDE DEF ss, s
<1>5. \A i \in 1..n : IsSeq(ss[i])
  BY <1>4, AskedOfRow
<1>6. /\ IsSeq(s)
      /\ \A x : x \in ToSet(s) <=> \E i \in 1..n : x \in ToSet(ss[i])
      /\ \A x : x \in Firsts(s) <=>
           \E i \in 1..n : x \in Firsts(ss[i]) /\ \A j \in 1..(i - 1) : x.path \notin Paths(ss[j])
  BY <1>1, <1>4, <1>5, Flattened DEF s
<1>7. \A i \in 1..n : \A q \in ToSet(ss[i]) :
        /\ Question1(q) /\ ~q.proposal
        /\ \/ q.path = <<"handoff_rules">> /\ q.blocking
           \/ q.path = <<"capabilities", rows[i].cap>> /\ (~q.blocking => rows[i].action = "UNVERIFIED")
  BY <1>4, AskedOfRow
<1>8. \A q \in ToSet(s) :
        /\ Question1(q) /\ ~q.proposal
        /\ \/ q.path = <<"handoff_rules">> /\ q.blocking
           \/ q.path[1] = "capabilities" /\ Len(q.path) = 2
  <2>1. \A c : <<"capabilities", c>>[1] = "capabilities" /\ Len(<<"capabilities", c>>) = 2
    OBVIOUS
  <2> SUFFICES ASSUME NEW q \in ToSet(s)
               PROVE  /\ Question1(q) /\ ~q.proposal
                      /\ \/ q.path = <<"handoff_rules">> /\ q.blocking
                         \/ q.path[1] = "capabilities" /\ Len(q.path) = 2
    OBVIOUS
  <2>2. PICK i \in 1..n : q \in ToSet(ss[i])
    BY <1>6
  <2>3. Question1(q) /\ ~q.proposal
    BY <1>7, <2>2
  <2>4. \/ q.path = <<"handoff_rules">> /\ q.blocking
        \/ q.path = <<"capabilities", rows[i].cap>>
    BY <1>7, <2>2
  <2> QED BY <2>1, <2>3, <2>4
<1>9. ASSUME NEW r \in ToSet(rows)
      PROVE  /\ r.action = "REQUIRES_HUMAN" => <<"handoff_rules">> \in Paths(s)
             /\ r.action \in Needy => <<"capabilities", r.cap>> \in Paths(s)
  <2>1. PICK i \in 1..n : r = rows[i]
    BY <1>1
  <2>2. Paths(ss[i]) \subseteq Paths(s)
    BY <1>6 DEF Paths
  <2>3. /\ r.action = "REQUIRES_HUMAN" => <<"handoff_rules">> \in Paths(ss[i])
        /\ r.action \in Needy => <<"capabilities", r.cap>> \in Paths(ss[i])
    BY <1>4, <2>1, AskedOfRow
  <2> QED BY <2>2, <2>3
<1>10. ASSUME NEW q \in Firsts(s), q.path[1] = "capabilities", ~q.blocking
       PROVE  Unchecked(reg, com, q.path[2])
  <2>1. PICK i \in 1..n : q \in Firsts(ss[i]) /\ \A j \in 1..(i - 1) : q.path \notin Paths(ss[j])
    BY <1>6
  <2>2. q \in ToSet(ss[i])
    BY <1>5, <2>1, EveryPathHasFirst
  <2> DEFINE r == rows[i]
  <2>3. q.path = <<"capabilities", r.cap>> /\ r.action = "UNVERIFIED" /\ RowKind(r, reg, com, bp)
    BY <1>3, <1>7, <1>10, <2>2
  <2>4. q.path[2] = r.cap
    BY <2>3
  <2>5. r.cap # BargeIn => Unchecked(reg, com, r.cap)
    <3> HIDE DEF r
    <3>1. r.cap = <<"language", bp.language>> => r.cap[1] = "language"
      BY <2>3
    <3> QED BY <2>3, <3>1 DEF RowKind, Unchecked
  <2>6. CASE r.cap = BargeIn
    <3>1. PICK j \in 1..i : rows[j].cap = BargeIn /\ rows[j].action = SpeakerBargeIn(reg, com)
      BY <1>3, <2>6
    <3>2. j = i \/ j \in 1..(i - 1)
      BY <1>1
    <3>3. j \in 1..n /\ "UNSUPPORTED" \in Needy
      BY <1>1 DEF Needy
    <3>4. rows[j].action \in Needy => q.path \in Paths(ss[j])
      BY <1>4, <2>3, <2>6, <3>1, <3>3, AskedOfRow
    <3>5. rows[j].action # "UNSUPPORTED"
      BY <2>1, <2>3, <3>2, <3>3, <3>4
    <3> QED BY <2>4, <2>6, <3>1, <3>5 DEF Unchecked
  <2> QED BY <2>4, <2>5, <2>6
<1> QED BY <1>2, <1>6, <1>8, <1>9, <1>10

\* A preflight that finds nothing leaves no row unsupported or in need of what it asks may wait.
LEMMA NothingLacks ==
  ASSUME NEW bp \in Drafts, NEW ctx, ctx.tenants = {},
         ToSet(_channels_and_composition(bp, ctx)) = {},
         NEW r, RowKind(r, ctx.registry, ctx.composition, bp), r.action \in Needy
  PROVE  ~Unchecked(ctx.registry, ctx.composition, r.cap)
<1> DEFINE reg == ctx.registry
           com == ctx.composition
           W == ToSet(Wanted(bp, com))
           language == <<"language", bp.language>>
           of(role, cap) == _provider_state(reg, com, role, cap)
           has(role, cap) == role \in DOMAIN com.adapter
                               /\ of(role, cap) \notin {"UNSUPPORTED", "PARTIAL", "UNVERIFIED"}
<1>1. \A w \in W : has(w.role, w.cap)
  BY CompositionFine
<1>2. /\ com.mode = "s2s" =>
           /\ has("s2s", language)
           /\ UsesTools(bp) => has("s2s", ToolCalls)
           /\ IsVoice(bp) => has("s2s", BargeIn)
      /\ com.mode # "s2s" =>
           /\ has("asr", language) /\ has("tts", language)
           /\ UsesTools(bp) => has("llm", ToolCalls)
      /\ IsVoice(bp) => has("turn", BargeIn)
  <2> DEFINE want(role, cap, reason) == [role |-> role, cap |-> cap, reason |-> reason]
  <2>1. \A role, cap, reason : want(role, cap, reason) \in W => has(role, cap)
    <3> TAKE role, cap, reason
    <3>1. want(role, cap, reason).role = role /\ want(role, cap, reason).cap = cap
      OBVIOUS
    <3> HIDE DEF has, W, want
    <3> QED BY <1>1, <3>1
  <2>2. /\ com.mode = "s2s" =>
             /\ want("s2s", language, "UNSUPPORTED_LOCALE_COMBINATION") \in W
             /\ UsesTools(bp) => want("s2s", ToolCalls, "UNSUPPORTED_CAPABILITY") \in W
             /\ IsVoice(bp) => want("s2s", BargeIn, "UNSUPPORTED_CAPABILITY") \in W
        /\ com.mode # "s2s" =>
             /\ want("asr", language, "UNSUPPORTED_LOCALE_COMBINATION") \in W
             /\ want("tts", language, "UNSUPPORTED_LOCALE_COMBINATION") \in W
             /\ UsesTools(bp) => want("llm", ToolCalls, "UNSUPPORTED_CAPABILITY") \in W
        /\ IsVoice(bp) => want("turn", BargeIn, "UNSUPPORTED_CAPABILITY") \in W
    BY WantedHas DEF ToolCalls, BargeIn
  <2> HIDE DEF has, W, want, language
  <2> QED BY <2>1, <2>2
<1> HIDE DEF W
<1>3. \A s, ok : s \notin {"UNSUPPORTED", "PARTIAL"} => Result(s, ok) \notin Needy
  BY DEF Result, Needy
<1>4. \A role, cap, ok : has(role, cap) => Result(of(role, cap), ok) \notin Needy
  BY <1>3
<1> HIDE DEF has, of
<1> SUFFICES ASSUME Unchecked(reg, com, r.cap) PROVE FALSE
  OBVIOUS
<1>5. /\ language[1] = "language" /\ ToolCalls[1] = "feature" /\ BargeIn[1] = "feature"
      /\ ToolCalls # BargeIn
  BY DEF ToolCalls, BargeIn
<1>6. \/ Settled(r.cap) /\ r.action = ActionOf(reg, com, r.cap)
      \/ /\ r.cap = language
         /\ \E role \in (IF com.mode = "s2s" THEN {"s2s"} ELSE {"asr", "tts"}) :
              r.action = Result(of(role, r.cap), TRUE)
      \/ /\ r.cap = BargeIn /\ IsVoice(bp)
         /\ \E role \in {Speaker(com), "turn"} : r.action = Result(of(role, r.cap), TRUE)
      \/ /\ r.cap = ToolCalls /\ UsesTools(bp)
         /\ r.action = Result(of(IF com.mode = "s2s" THEN "s2s" ELSE "llm", r.cap), FALSE)
      \/ r.cap[1] = "knowledge" /\ r.action \in {"SUPPORTED", "REQUIRES_KNOWLEDGE"}
      \/ r.cap[1] = "handoff" /\ r.action \in {"SUPPORTED", "REQUIRES_HUMAN"}
  BY DEF RowKind, of
<1>7. CASE Settled(r.cap) /\ r.action = ActionOf(reg, com, r.cap)
  BY <1>5, <1>7 DEF Unchecked, Settled, Needy
<1>8. CASE /\ r.cap = language
           /\ \E role \in (IF com.mode = "s2s" THEN {"s2s"} ELSE {"asr", "tts"}) :
                r.action = Result(of(role, r.cap), TRUE)
  <2> HIDE DEF language
  <2>1. PICK role \in (IF com.mode = "s2s" THEN {"s2s"} ELSE {"asr", "tts"}) :
          r.action = Result(of(role, language), TRUE)
    BY <1>8
  <2>2. has(role, language)
    BY <1>2, <2>1
  <2> QED BY <1>4, <2>1, <2>2
<1>9. CASE /\ r.cap = BargeIn /\ IsVoice(bp)
           /\ \E role \in {Speaker(com), "turn"} : r.action = Result(of(role, r.cap), TRUE)
  <2>1. r.action # Result(of("turn", r.cap), TRUE)
    <3>1. has("turn", BargeIn)
      BY <1>2, <1>9
    <3> QED BY <1>4, <1>9, <3>1
  <2>2. r.action = SpeakerBargeIn(reg, com)
    BY <1>9, <2>1 DEF SpeakerBargeIn, of
  <2>4. r.action \in {"SUPPORTED", "SUPPORTED_WITH_CONFIGURATION", "UNSUPPORTED", "UNVERIFIED"}
    BY <1>9 DEF Result
  <2>5. SpeakerBargeIn(reg, com) = "UNSUPPORTED"
    BY <2>2, <2>4 DEF Needy
  <2> QED BY <1>5, <1>9, <2>5 DEF Unchecked, Settled
<1>10. CASE /\ r.cap = ToolCalls /\ UsesTools(bp)
            /\ r.action = Result(of(IF com.mode = "s2s" THEN "s2s" ELSE "llm", r.cap), FALSE)
  BY <1>2, <1>4, <1>10
<1>11. CASE r.cap[1] = "knowledge"
  BY <1>5, <1>11 DEF Unchecked, Settled
<1>12. CASE r.action \in {"SUPPORTED", "REQUIRES_HUMAN"}
  BY <1>12 DEF Needy
<1> QED BY <1>6, <1>7, <1>8, <1>9, <1>10, <1>11, <1>12

\* A question about a hole of the draft: those an operator has to fill block, and what is proposed
\* can be written.
AboutHole(q) ==
  /\ Question1(q) /\ Len(q.path) = 1
  /\ q.path[1] \notin {"knowledge.gaps", "knowledge.contradictions", "capabilities", "tools.permissions"}
  /\ q.path[1] \in HoleNames => q.blocking
  /\ q.proposal => q.path \in Proposed

AboutHoles(s) == IsSeq(s) /\ \A q \in ToSet(s) : AboutHole(q)

\* Such questions one after the other.
LEMMA HolesJoined ==
  ASSUME NEW s, NEW t, AboutHoles(s), AboutHoles(t)
  PROVE  AboutHoles(s \o t) /\ Paths(s \o t) = Paths(s) \cup Paths(t)
<1>1. IsSeq(s) /\ IsSeq(t)
  BY DEF AboutHoles
<1>2. /\ IsSeq(s \o t) /\ ToSet(s \o t) = ToSet(s) \cup ToSet(t)
      /\ Paths(s \o t) = Paths(s) \cup Paths(t)
  BY <1>1, Joined, FirstsJoined
<1> QED BY <1>2 DEF AboutHoles

\* Each of the questions, when its hole is open.
LEMMA HoleWhen ==
  ASSUME NEW c \in BOOLEAN, NEW s, AboutHoles(s)
  PROVE  AboutHoles(When(c, s)) /\ (c => Paths(When(c, s)) = Paths(s))
<1>1. AboutHoles(<<>>)
  BY Nothing DEF AboutHoles
<1> QED BY <1>1 DEF When

\* The questions the structure of a draft raises are of this kind.
LEMMA HoleShape ==
  ASSUME NEW k \in DOMAIN Band, NEW a,
         a \notin {"knowledge.gaps", "knowledge.contradictions", "capabilities", "tools.permissions"}
  PROVE  /\ AboutHoles(Blocking(k, <<a>>, "structure")) /\ Paths(Blocking(k, <<a>>, "structure")) = {<<a>>}
         /\ <<a>> \in Proposed => AboutHoles(BlockingOffer(k, <<a>>, "structure"))
         /\ a \notin HoleNames => AboutHoles(Waiting(k, <<a>>, "structure"))
         /\ a \notin HoleNames /\ <<a>> \in Proposed => AboutHoles(WaitingOffer(k, <<a>>, "structure"))
<1> DEFINE p == <<a>>
<1>1. Len(p) = 1 /\ p[1] = a
  OBVIOUS
<1> HIDE DEF p
<1>2. AboutHoles(Blocking(k, p, "structure")) /\ Paths(Blocking(k, p, "structure")) = {p}
  BY <1>1, QuestionShape DEF AboutHoles, AboutHole, Question1
<1>3. p \in Proposed => AboutHoles(BlockingOffer(k, p, "structure"))
  BY <1>1, QuestionShape DEF AboutHoles, AboutHole, Question1
<1>4. a \notin HoleNames => AboutHoles(Waiting(k, p, "structure"))
  BY <1>1, QuestionShape DEF AboutHoles, AboutHole, Question1
<1>5. a \notin HoleNames /\ p \in Proposed => AboutHoles(WaitingOffer(k, p, "structure"))
  BY <1>1, QuestionShape DEF AboutHoles, AboutHole, Question1
<1> QED BY <1>2, <1>3, <1>4, <1>5 DEF p

\* Every hole is asked about.
LEMMA HolesAsked ==
  ASSUME NEW dr
  PROVE  AboutHoles(_structural(dr)) /\ Holes(dr) \subseteq Paths(_structural(dr))
<1> DEFINE
           a1 == Blocking("business_decision", <<"objective.primary">>, "structure")
           b1 == Blocking("business_decision", <<"direction">>, "structure")
           c1 == BlockingOffer("blocking_gap", <<"channels">>, "structure")
           d1 == WaitingOffer("quality", <<"locale">>, "structure")
           e1 == Blocking("policy_risk", <<"policies.contact_policy_hooks">>, "structure")
           f1 == Blocking("business_decision", <<"data.required">>, "structure")
           g1 == Blocking("blocking_gap", <<"knowledge.sources">>, "structure")
           h1 == BlockingOffer("policy_risk", <<"policies.unknown_question_policy.default">>, "structure")
           i1 == WaitingOffer("policy_risk", <<"policies.opt_out">>, "structure")
           j1 == BlockingOffer("business_decision", <<"outcome_schema.primary">>, "structure")
           k1 == Blocking("business_decision", <<"completion.success_rules">>, "structure")
           l1 == Blocking("business_decision", <<"handoff_rules">>, "structure")
           m1 == Waiting("business_decision", <<"coverage.objections">>, "structure")
           a == When(dr.objective = Unset, a1)
           b == When(dr.direction = Unset, b1)
           c == When(dr.channels = {}, c1)
           d == When(dr.language = Unset, d1)
           e == When(CallsOut(dr) /\ dr.hooks = {}, e1)
           f == When(dr.required = <<>>, f1)
           g == When(dr.sources = {}, g1)
           h == When(dr.default = Unset, h1)
           i == When(~dr.opt_out, i1)
           j == When(dr.outcomes = {}, j1)
           k == When(dr.success = <<>>, k1)
           l == When(dr.default = "OFFER_HUMAN_HANDOFF" /\ dr.handoffs = <<>>, l1)
           m == When(dr.objective = "persuasive" /\ dr.objections = <<>>, m1)
           s1 == a \o b
           s2 == s1 \o c
           s3 == s2 \o d
           s4 == s3 \o e
           s5 == s4 \o f
           s6 == s5 \o g
           s7 == s6 \o h
           s8 == s7 \o i
           s9 == s8 \o j
           s10 == s9 \o k
           s11 == s10 \o l
           s12 == s11 \o m
<1>1. _structural(dr) = s12
  BY DEF _structural, Ask, Suggest, Blocking, Waiting, BlockingOffer, WaitingOffer
<1>2. {"business_decision", "blocking_gap", "quality", "policy_risk"} \subseteq DOMAIN Band
  BY DEF Band
<1>3. AboutHoles(a1) /\ Paths(a1) = {<<"objective.primary">>}
  BY <1>2, HoleShape DEF Proposed, HoleNames
<1>4. AboutHoles(b1) /\ Paths(b1) = {<<"direction">>}
  BY <1>2, HoleShape DEF Proposed, HoleNames
<1>5. AboutHoles(c1)
  BY <1>2, HoleShape DEF Proposed, HoleNames
<1>6. AboutHoles(d1)
  BY <1>2, HoleShape DEF Proposed, HoleNames
<1>7. AboutHoles(e1) /\ Paths(e1) = {<<"policies.contact_policy_hooks">>}
  BY <1>2, HoleShape DEF Proposed, HoleNames
<1>8. AboutHoles(f1) /\ Paths(f1) = {<<"data.required">>}
  BY <1>2, HoleShape DEF Proposed, HoleNames
<1>9. AboutHoles(g1) /\ Paths(g1) = {<<"knowledge.sources">>}
  BY <1>2, HoleShape DEF Proposed, HoleNames
<1>10. AboutHoles(h1)
  BY <1>2, HoleShape DEF Proposed, HoleNames
<1>11. AboutHoles(i1)
  BY <1>2, HoleShape DEF Proposed, HoleNames
<1>12. AboutHoles(j1)
  BY <1>2, HoleShape DEF Proposed, HoleNames
<1>13. AboutHoles(k1) /\ Paths(k1) = {<<"completion.success_rules">>}
  BY <1>2, HoleShape DEF Proposed, HoleNames
<1>14. AboutHoles(l1) /\ Paths(l1) = {<<"handoff_rules">>}
  BY <1>2, HoleShape DEF Proposed, HoleNames
<1>15. AboutHoles(m1)
  BY <1>2, HoleShape DEF Proposed, HoleNames
<1> HIDE DEF a1, b1, c1, d1, e1, f1, g1, h1, i1, j1, k1, l1, m1
<1>16. AboutHoles(a)
  BY <1>3, HoleWhen DEF CallsOut
<1>17. AboutHoles(b)
  BY <1>4, HoleWhen DEF CallsOut
<1>18. AboutHoles(c)
  BY <1>5, HoleWhen DEF CallsOut
<1>19. AboutHoles(d)
  BY <1>6, HoleWhen DEF CallsOut
<1>20. AboutHoles(e) /\ (CallsOut(dr) /\ dr.hooks = {} => <<"policies.contact_policy_hooks">> \in Paths(e))
  BY <1>7, HoleWhen DEF CallsOut
<1>21. AboutHoles(f) /\ (dr.required = <<>> => <<"data.required">> \in Paths(f))
  BY <1>8, HoleWhen DEF CallsOut
<1>22. AboutHoles(g) /\ (dr.sources = {} => <<"knowledge.sources">> \in Paths(g))
  BY <1>9, HoleWhen DEF CallsOut
<1>23. AboutHoles(h)
  BY <1>10, HoleWhen DEF CallsOut
<1>24. AboutHoles(i)
  BY <1>11, HoleWhen DEF CallsOut
<1>25. AboutHoles(j)
  BY <1>12, HoleWhen DEF CallsOut
<1>26. AboutHoles(k) /\ (dr.success = <<>> => <<"completion.success_rules">> \in Paths(k))
  BY <1>13, HoleWhen DEF CallsOut
<1>27. /\ AboutHoles(l)
       /\ dr.default = "OFFER_HUMAN_HANDOFF" /\ dr.handoffs = <<>> => <<"handoff_rules">> \in Paths(l)
  BY <1>14, HoleWhen DEF CallsOut
<1>28. AboutHoles(m)
  BY <1>15, HoleWhen DEF CallsOut
<1> HIDE DEF a, b, c, d, e, f, g, h, i, j, k, l, m
<1>29. AboutHoles(s1) /\ Paths(s1) = Paths(a) \cup Paths(b)
  BY <1>16, <1>17, HolesJoined
<1> HIDE DEF s1
<1>30. AboutHoles(s2) /\ Paths(s2) = Paths(s1) \cup Paths(c)
  BY <1>29, <1>18, HolesJoined
<1> HIDE DEF s2
<1>31. AboutHoles(s3) /\ Paths(s3) = Paths(s2) \cup Paths(d)
  BY <1>30, <1>19, HolesJoined
<1> HIDE DEF s3
<1>32. AboutHoles(s4) /\ Paths(s4) = Paths(s3) \cup Paths(e)
  BY <1>31, <1>20, HolesJoined
<1> HIDE DEF s4
<1>33. AboutHoles(s5) /\ Paths(s5) = Paths(s4) \cup Paths(f)
  BY <1>32, <1>21, HolesJoined
<1> HIDE DEF s5
<1>34. AboutHoles(s6) /\ Paths(s6) = Paths(s5) \cup Paths(g)
  BY <1>33, <1>22, HolesJoined
<1> HIDE DEF s6
<1>35. AboutHoles(s7) /\ Paths(s7) = Paths(s6) \cup Paths(h)
  BY <1>34, <1>23, HolesJoined
<1> HIDE DEF s7
<1>36. AboutHoles(s8) /\ Paths(s8) = Paths(s7) \cup Paths(i)
  BY <1>35, <1>24, HolesJoined
<1> HIDE DEF s8
<1>37. AboutHoles(s9) /\ Paths(s9) = Paths(s8) \cup Paths(j)
  BY <1>36, <1>25, HolesJoined
<1> HIDE DEF s9
<1>38. AboutHoles(s10) /\ Paths(s10) = Paths(s9) \cup Paths(k)
  BY <1>37, <1>26, HolesJoined
<1> HIDE DEF s10
<1>39. AboutHoles(s11) /\ Paths(s11) = Paths(s10) \cup Paths(l)
  BY <1>38, <1>27, HolesJoined
<1> HIDE DEF s11
<1>40. AboutHoles(s12) /\ Paths(s12) = Paths(s11) \cup Paths(m)
  BY <1>39, <1>28, HolesJoined
<1> HIDE DEF s12
<1>41. Paths(e) \cup Paths(f) \cup Paths(g) \cup Paths(k) \cup Paths(l) \subseteq Paths(s12)
  BY <1>32, <1>33, <1>34, <1>35, <1>36, <1>37, <1>38, <1>39, <1>40
<1>42. Holes(dr) \subseteq Paths(s12)
  <2> SUFFICES ASSUME NEW p \in Holes(dr) PROVE p \in Paths(s12)
    OBVIOUS
  <2>1. CASE p = <<"data.required">>
    BY <2>1, <1>21, <1>41 DEF Holes
  <2>2. CASE p = <<"knowledge.sources">>
    BY <2>2, <1>22, <1>41 DEF Holes
  <2>3. CASE p = <<"completion.success_rules">>
    BY <2>3, <1>26, <1>41 DEF Holes
  <2>4. CASE p = <<"handoff_rules">>
    BY <2>4, <1>27, <1>41 DEF Holes
  <2>5. CASE p = <<"policies.contact_policy_hooks">>
    BY <2>5, <1>20, <1>41 DEF Holes
  <2> QED BY <2>1, <2>2, <2>3, <2>4, <2>5 DEF Holes
<1> QED BY <1>1, <1>40, <1>42

\* The path of the question in part i is in no part before.
Leads(ss, i) == \A j \in 1..(i - 1) : ss[j][1].path # ss[i][1].path

\* A sequence put together from one question each.
LEMMA OneEach ==
  ASSUME NEW n \in Nat, NEW ss, ss = [i \in 1..n |-> ss[i]], \A i \in 1..n : ss[i] = <<ss[i][1]>>
  PROVE  /\ IsSeq(FlattenSeq(ss))
         /\ \A x : x \in ToSet(FlattenSeq(ss)) <=> \E i \in 1..n : x = ss[i][1]
         /\ \A x : x \in Firsts(FlattenSeq(ss)) <=>
              \E i \in 1..n : x = ss[i][1] /\ Leads(ss, i)
<1> DEFINE s == FlattenSeq(ss)
<1>2. \A i \in 1..n : /\ IsSeq(ss[i]) /\ ToSet(ss[i]) = {ss[i][1]}
                      /\ Paths(ss[i]) = {ss[i][1].path} /\ Firsts(ss[i]) = {ss[i][1]}
  <2> SUFFICES ASSUME NEW i \in 1..n
               PROVE  /\ IsSeq(ss[i]) /\ ToSet(ss[i]) = {ss[i][1]}
                      /\ Paths(ss[i]) = {ss[i][1].path} /\ Firsts(ss[i]) = {ss[i][1]}
    OBVIOUS
  <2> DEFINE x == ss[i][1]
  <2>1. ss[i] = <<x>>
    OBVIOUS
  <2> HIDE DEF x
  <2>2. IsSeq(<<x>>) /\ ToSet(<<x>>) = {x} /\ Paths(<<x>>) = {x.path} /\ Firsts(<<x>>) = {x}
    BY Single
  <2>3. IsSeq(ss[i]) /\ ToSet(ss[i]) = {x} /\ Paths(ss[i]) = {x.path} /\ Firsts(ss[i]) = {x}
    BY ONLY <2>1, <2>2
  <2> QED BY <2>3 DEF x
<1>3. /\ IsSeq(s)
      /\ \A x : x \in ToSet(s) <=> \E i \in 1..n : x \in ToSet(ss[i])
      /\ \A x : x \in Firsts(s) <=>
           \E i \in 1..n : x \in Firsts(ss[i]) /\ \A j \in 1..(i - 1) : x.path \notin Paths(ss[j])
  BY <1>2, Flattened
<1> HIDE DEF s
<1>4. \A x : x \in ToSet(s) <=> \E i \in 1..n : x = ss[i][1]
  BY <1>2, <1>3
<1>5. \A i \in 1..n : \A j \in 1..(i - 1) : j \in 1..n
  OBVIOUS
<1>6. \A x : \A i \in 1..n :
        (x \in Firsts(ss[i]) /\ \A j \in 1..(i - 1) : x.path \notin Paths(ss[j]))
          <=> (x = ss[i][1] /\ Leads(ss, i))
  <2> SUFFICES ASSUME NEW x, NEW i \in 1..n
               PROVE  (x \in Firsts(ss[i]) /\ \A j \in 1..(i - 1) : x.path \notin Paths(ss[j]))
                        <=> (x = ss[i][1] /\ Leads(ss, i))
    OBVIOUS
  <2>1. x \in Firsts(ss[i]) <=> x = ss[i][1]
    BY <1>2
  <2>2. \A j \in 1..(i - 1) : x.path \notin Paths(ss[j]) <=> ss[j][1].path # x.path
    BY <1>2, <1>5
  <2> QED BY <2>1, <2>2 DEF Leads
<1>7. \A x : x \in Firsts(s) <=>
        \E i \in 1..n : x = ss[i][1] /\ Leads(ss, i)
  <2> DEFINE L(x, i) == x \in Firsts(ss[i]) /\ \A j \in 1..(i - 1) : x.path \notin Paths(ss[j])
             R(x, i) == x = ss[i][1] /\ Leads(ss, i)
  <2>1. \A x : x \in Firsts(s) <=> \E i \in 1..n : L(x, i)
    BY <1>3
  <2>2. \A x : \A i \in 1..n : L(x, i) <=> R(x, i)
    BY <1>6
  <2> HIDE DEF L, R
  <2>3. \A x : x \in Firsts(s) <=> \E i \in 1..n : R(x, i)
    BY <2>1, <2>2
  <2> QED BY <2>3 DEF R
<1>8. IsSeq(s)
  BY <1>3
<1> QED BY <1>4, <1>7, <1>8, Zenon DEF s

\* What is asked of a gap: it blocks when the gap does.
LEMMA GapsAsked ==
  ASSUME NEW gaps \in SUBSET Gaps
  PROVE  LET s == _from_gaps(gaps)
         IN /\ IsSeq(s)
            /\ \A q \in ToSet(s) :
                 /\ Question1(q) /\ ~q.proposal
                 /\ \E g \in gaps : q.path = <<"knowledge.gaps", g>> /\ (q.blocking <=> BlockingGap(g))
            /\ \A g \in gaps : <<"knowledge.gaps", g>> \in Paths(s)
<1> DEFINE g == SetToSeq(gaps)
           n == Cardinality(gaps)
           e == [i \in 1..n |-> [kind |-> GapKind[GapClass[g[i]]], path |-> <<"knowledge.gaps", g[i]>>,
                                 text |-> "gap", blocking |-> BlockingGap(g[i]), proposal |-> FALSE]]
           ss == [i \in DOMAIN g |-> Question(GapKind[GapClass[g[i]]], <<"knowledge.gaps", g[i]>>, "gap",
                                              BlockingGap(g[i]), FALSE)]
           s == FlattenSeq(ss)
<1>1. IsFiniteSet(gaps)
  <2>1. IsFiniteSet(Gaps)
    BY CopilotAssumption
  <2> QED BY <2>1, FS_Subset
<1>2. DOMAIN g = 1..n /\ n \in Nat /\ ToSet(g) = gaps
  BY <1>1, Listed
<1>3. \A h : h \in gaps <=> \E i \in 1..n : h = g[i]
  <2>1. \A h : h \in ToSet(g) <=> \E i \in DOMAIN g : h = g[i]
    BY DEF ToSet
  <2> HIDE DEF g, n
  <2> QED BY <1>2, <2>1
<1>4. _from_gaps(gaps) = s
  BY DEF _from_gaps
<1> HIDE DEF g, n
<1>5. ss = [i \in 1..n |-> ss[i]] /\ \A i \in 1..n : ss[i] = <<e[i]>> /\ ss[i][1] = e[i]
  BY <1>2 DEF Question
<1>6. \A i \in 1..n :
        /\ e[i].kind = GapKind[GapClass[g[i]]] /\ e[i].path = <<"knowledge.gaps", g[i]>>
        /\ e[i].blocking = BlockingGap(g[i]) /\ e[i].blocking \in BOOLEAN /\ ~e[i].proposal
        /\ e[i].proposal \in BOOLEAN
  <2> SUFFICES ASSUME NEW i \in 1..n
               PROVE  /\ e[i].kind = GapKind[GapClass[g[i]]] /\ e[i].path = <<"knowledge.gaps", g[i]>>
                      /\ e[i].blocking = BlockingGap(g[i]) /\ e[i].blocking \in BOOLEAN /\ ~e[i].proposal
                      /\ e[i].proposal \in BOOLEAN
    OBVIOUS
  <2> DEFINE b == BlockingGap(g[i])
  <2>1. b \in BOOLEAN
    BY DEF BlockingGap
  <2> HIDE DEF b
  <2>2. e[i] = [kind |-> GapKind[GapClass[g[i]]], path |-> <<"knowledge.gaps", g[i]>>,
                text |-> "gap", blocking |-> b, proposal |-> FALSE]
    BY DEF b
  <2> HIDE DEF e
  <2>3. /\ e[i].kind = GapKind[GapClass[g[i]]] /\ e[i].path = <<"knowledge.gaps", g[i]>>
        /\ e[i].blocking = b /\ ~e[i].proposal /\ e[i].proposal \in BOOLEAN
    BY <2>2
  <2> QED BY <2>1, <2>3 DEF b
<1>7. \A h \in gaps : GapKind[GapClass[h]] \in DOMAIN Band
  <2> SUFFICES ASSUME NEW h \in gaps PROVE GapKind[GapClass[h]] \in DOMAIN Band
    OBVIOUS
  <2>1. GapClass[h] \in GapClasses
    BY DiscoveryAssumption
  <2> QED BY <2>1 DEF GapClasses, GapKind, Band
<1> HIDE DEF e, ss, s
<1>8. /\ IsSeq(s)
      /\ \A x : x \in ToSet(s) <=> \E i \in 1..n : x = e[i]
  <2>1. \A i \in 1..n : ss[i] = <<ss[i][1]>>
    BY <1>5
  <2>2. /\ IsSeq(s)
        /\ \A x : x \in ToSet(s) <=> \E i \in 1..n : x = ss[i][1]
    BY <1>2, <1>5, <2>1, OneEach DEF s
  <2> QED BY <1>5, <2>2
<1>9. ASSUME NEW q \in ToSet(s)
      PROVE  /\ Question1(q) /\ ~q.proposal
             /\ \E h \in gaps : q.path = <<"knowledge.gaps", h>> /\ (q.blocking <=> BlockingGap(h))
  <2>1. PICK i \in 1..n : q = e[i]
    BY <1>8
  <2>2. g[i] \in gaps
    BY <1>3
  <2>3. Len(<<"knowledge.gaps", g[i]>>) = 2
    OBVIOUS
  <2>4. Question1(q)
    BY <1>6, <1>7, <2>1, <2>2, <2>3 DEF Question1
  <2>5. q.path = <<"knowledge.gaps", g[i]>> /\ (q.blocking <=> BlockingGap(g[i])) /\ ~q.proposal
    BY <1>6, <2>1
  <2> QED BY <2>2, <2>4, <2>5
<1>10. ASSUME NEW h \in gaps PROVE <<"knowledge.gaps", h>> \in Paths(s)
  <2>1. PICK i \in 1..n : h = g[i]
    BY <1>3
  <2>2. e[i] \in ToSet(s) /\ e[i].path = <<"knowledge.gaps", h>>
    BY <1>6, <1>8, <2>1
  <2> QED BY <2>2 DEF Paths
<1> QED BY <1>4, <1>8, <1>9, <1>10

\* What is asked of a contradiction blocks.
LEMMA ConflictsAsked ==
  ASSUME NEW conflicts \in SUBSET Conflicts
  PROVE  LET s == _from_contradictions(conflicts)
         IN /\ IsSeq(s)
            /\ \A q \in ToSet(s) :
                 /\ Question1(q) /\ ~q.proposal /\ q.blocking
                 /\ \E c \in conflicts : q.path = <<"knowledge.contradictions", c>>
            /\ \A c \in conflicts : <<"knowledge.contradictions", c>> \in Paths(s)
<1> DEFINE c == SetToSeq(conflicts)
           n == Cardinality(conflicts)
           e == [i \in 1..n |-> [kind |-> "data_conflict", path |-> <<"knowledge.contradictions", c[i]>>,
                                 text |-> "conflict", blocking |-> TRUE, proposal |-> FALSE]]
           ss == [i \in DOMAIN c |-> Question("data_conflict", <<"knowledge.contradictions", c[i]>>,
                                              "conflict", TRUE, FALSE)]
           s == FlattenSeq(ss)
<1>1. IsFiniteSet(conflicts)
  <2>1. IsFiniteSet(Conflicts)
    BY CopilotAssumption
  <2> QED BY <2>1, FS_Subset
<1>2. DOMAIN c = 1..n /\ n \in Nat /\ ToSet(c) = conflicts
  BY <1>1, Listed
<1>3. \A h : h \in conflicts <=> \E i \in 1..n : h = c[i]
  <2>1. \A h : h \in ToSet(c) <=> \E i \in DOMAIN c : h = c[i]
    BY DEF ToSet
  <2> HIDE DEF c, n
  <2> QED BY <1>2, <2>1
<1>4. _from_contradictions(conflicts) = s
  BY DEF _from_contradictions
<1> HIDE DEF c, n
<1>5. ss = [i \in 1..n |-> ss[i]] /\ \A i \in 1..n : ss[i] = <<e[i]>> /\ ss[i][1] = e[i]
  BY <1>2 DEF Question
<1>6. \A i \in 1..n :
        /\ e[i].kind = "data_conflict" /\ e[i].path = <<"knowledge.contradictions", c[i]>>
        /\ e[i].blocking /\ e[i].blocking \in BOOLEAN /\ ~e[i].proposal /\ e[i].proposal \in BOOLEAN
  OBVIOUS
<1>7. "data_conflict" \in DOMAIN Band
  BY DEF Band
<1> HIDE DEF e, ss, s
<1>8. /\ IsSeq(s)
      /\ \A x : x \in ToSet(s) <=> \E i \in 1..n : x = e[i]
  <2>1. \A i \in 1..n : ss[i] = <<ss[i][1]>>
    BY <1>5
  <2>2. /\ IsSeq(s)
        /\ \A x : x \in ToSet(s) <=> \E i \in 1..n : x = ss[i][1]
    BY <1>2, <1>5, <2>1, OneEach DEF s
  <2> QED BY <1>5, <2>2
<1>9. ASSUME NEW q \in ToSet(s)
      PROVE  /\ Question1(q) /\ ~q.proposal /\ q.blocking
             /\ \E h \in conflicts : q.path = <<"knowledge.contradictions", h>>
  <2>1. PICK i \in 1..n : q = e[i]
    BY <1>8
  <2>2. c[i] \in conflicts
    BY <1>3
  <2>3. Len(<<"knowledge.contradictions", c[i]>>) = 2
    OBVIOUS
  <2>4. Question1(q)
    BY <1>6, <1>7, <2>1, <2>2, <2>3 DEF Question1
  <2>5. q.path = <<"knowledge.contradictions", c[i]>> /\ q.blocking /\ ~q.proposal
    BY <1>6, <2>1
  <2> QED BY <2>2, <2>4, <2>5
<1>10. ASSUME NEW h \in conflicts PROVE <<"knowledge.contradictions", h>> \in Paths(s)
  <2>1. PICK i \in 1..n : h = c[i]
    BY <1>3
  <2>2. e[i] \in ToSet(s) /\ e[i].path = <<"knowledge.contradictions", h>>
    BY <1>6, <1>8, <2>1
  <2> QED BY <2>2 DEF Paths
<1> QED BY <1>4, <1>8, <1>9, <1>10

\* What is asked of the findings: it stands where the finding does, and blocks when that does.
LEMMA PreflightAsked ==
  ASSUME NEW fs, IsSeq(fs), \A f \in ToSet(fs) : Len(f.path) \in {1, 2}
  PROVE  LET s == _from_preflight(fs)
             of(q, f) == q.path = f.path /\ (q.blocking <=> f.severity = "BLOCK")
         IN /\ IsSeq(s)
            /\ \A q \in ToSet(s) : Question1(q) /\ ~q.proposal /\ \E f \in ToSet(fs) : of(q, f)
            /\ \A f \in ToSet(fs) : f.path \in Paths(s)
            /\ \A q \in Firsts(s) : \E f \in Firsts(fs) : of(q, f)
<1> DEFINE n == Len(fs)
           kindOf(f) == CASE f.reason \in BusinessReasons -> "business_decision"
                          [] f.reason \in CapabilityReasons -> "capability_gap"
                          [] OTHER -> IF f.severity = "BLOCK" THEN "blocking_gap" ELSE "quality"
           e == [i \in 1..n |-> [kind |-> kindOf(fs[i]), path |-> fs[i].path, text |-> fs[i].reason,
                                 blocking |-> fs[i].severity = "BLOCK", proposal |-> FALSE]]
           ss == [i \in DOMAIN fs |->
                    Question(kindOf(fs[i]), fs[i].path, fs[i].reason, fs[i].severity = "BLOCK", FALSE)]
           s == FlattenSeq(ss)
<1>1. n \in Nat /\ DOMAIN fs = 1..n /\ \A x : x \in ToSet(fs) <=> \E i \in 1..n : x = fs[i]
  BY Elements
<1>2. _from_preflight(fs) = s
  BY DEF _from_preflight
<1>3. \A f : kindOf(f) \in DOMAIN Band
  <2>1. {"business_decision", "capability_gap", "blocking_gap", "quality"} \subseteq DOMAIN Band
    BY DEF Band
  <2> SUFFICES ASSUME NEW f PROVE kindOf(f) \in {"business_decision", "capability_gap", "blocking_gap", "quality"}
    BY <2>1
  <2> QED OBVIOUS
<1> HIDE DEF n, kindOf
<1>4. ss = [i \in 1..n |-> ss[i]] /\ \A i \in 1..n : ss[i] = <<e[i]>> /\ ss[i][1] = e[i]
  BY <1>1 DEF Question
<1>5. ASSUME NEW i \in 1..n
      PROVE  /\ e[i].kind = kindOf(fs[i]) /\ e[i].path = fs[i].path
             /\ (e[i].blocking <=> fs[i].severity = "BLOCK") /\ e[i].blocking \in BOOLEAN
             /\ ~e[i].proposal /\ e[i].proposal \in BOOLEAN
  <2> DEFINE b == fs[i].severity = "BLOCK"
  <2>1. b \in BOOLEAN
    OBVIOUS
  <2> HIDE DEF b
  <2>2. e[i] = [kind |-> kindOf(fs[i]), path |-> fs[i].path, text |-> fs[i].reason,
                blocking |-> b, proposal |-> FALSE]
    BY DEF b
  <2> HIDE DEF e
  <2>3. /\ e[i].kind = kindOf(fs[i]) /\ e[i].path = fs[i].path
        /\ e[i].blocking = b /\ ~e[i].proposal /\ e[i].proposal \in BOOLEAN
    BY <2>2
  <2> QED BY <2>1, <2>3 DEF b
<1> HIDE DEF e, ss, s
<1>6. /\ IsSeq(s)
      /\ \A x : x \in ToSet(s) <=> \E i \in 1..n : x = e[i]
      /\ \A x : x \in Firsts(s) <=>
           \E i \in 1..n : x = e[i] /\ \A j \in 1..(i - 1) : e[j].path # e[i].path
  <2>1. \A i \in 1..n : ss[i] = <<ss[i][1]>>
    BY <1>4
  <2>2. /\ IsSeq(s)
        /\ \A x : x \in ToSet(s) <=> \E i \in 1..n : x = ss[i][1]
        /\ \A x : x \in Firsts(s) <=>
             \E i \in 1..n : x = ss[i][1] /\ Leads(ss, i)
    <3>1. /\ IsSeq(FlattenSeq(ss))
          /\ \A x : x \in ToSet(FlattenSeq(ss)) <=> \E i \in 1..n : x = ss[i][1]
          /\ \A x : x \in Firsts(FlattenSeq(ss)) <=>
               \E i \in 1..n : x = ss[i][1] /\ Leads(ss, i)
      BY <1>1, <1>4, <2>1, OneEach
    <3> QED BY <3>1 DEF s
  <2>3. \A i \in 1..n : ss[i][1] = e[i] /\ \A j \in 1..(i - 1) : j \in 1..n /\ ss[j][1] = e[j]
    <3> SUFFICES ASSUME NEW i \in 1..n
                 PROVE  ss[i][1] = e[i] /\ \A j \in 1..(i - 1) : j \in 1..n /\ ss[j][1] = e[j]
      OBVIOUS
    <3>1. \A j \in 1..(i - 1) : j \in 1..n
      BY <1>1
    <3> QED BY <1>4, <3>1
  <2> QED BY <2>2, <2>3 DEF Leads
<1>7. ASSUME NEW q \in ToSet(s)
      PROVE  /\ Question1(q) /\ ~q.proposal
             /\ \E f \in ToSet(fs) : q.path = f.path /\ (q.blocking <=> f.severity = "BLOCK")
  <2>1. PICK i \in 1..n : q = e[i]
    BY <1>6
  <2>2. fs[i] \in ToSet(fs)
    BY <1>1
  <2>3. Question1(q)
    BY <1>3, <1>5, <2>1, <2>2 DEF Question1
  <2> QED BY <1>5, <2>1, <2>2, <2>3
<1>8. ASSUME NEW f \in ToSet(fs) PROVE f.path \in Paths(s)
  <2>1. PICK i \in 1..n : f = fs[i]
    BY <1>1
  <2>2. e[i] \in ToSet(s) /\ e[i].path = f.path
    BY <1>5, <1>6, <2>1
  <2> QED BY <2>2 DEF Paths
<1>9. ASSUME NEW q \in Firsts(s)
      PROVE  \E f \in Firsts(fs) : q.path = f.path /\ (q.blocking <=> f.severity = "BLOCK")
  <2>1. PICK i \in 1..n : q = e[i] /\ \A j \in 1..(i - 1) : e[j].path # e[i].path
    BY <1>6
  <2>2. \A j \in 1..(i - 1) : j \in 1..n
    BY <1>1
  <2>3. \A j \in 1..(i - 1) : fs[j].path # fs[i].path
    BY <1>5, <2>1, <2>2
  <2>4. fs[i] \in Firsts(fs)
    BY <1>1, <2>3 DEF Firsts
  <2> QED BY <1>5, <2>1, <2>4
<1> QED BY <1>2, <1>6, <1>7, <1>8, <1>9

-----------------------------------------------------------------------------
(***************************************************************************)
(* The questions of a proposal: the structure's, of the gaps, of the       *)
(* contradictions, of the findings and of the rows.                        *)
(***************************************************************************)
\* All of them, before they are ranked.
RawQuestions(dr, gaps, conflicts, fs, rows) ==
  _structural(dr) \o _from_gaps(gaps) \o _from_contradictions(conflicts) \o _from_preflight(fs)
    \o _from_mapping(rows)

\* Findings and rows there can be.
Lawful(fs, rows, dr) ==
  /\ IsSeq(fs)
  /\ \A f \in ToSet(fs) : Ordinary(f, dr) /\ (f.path[1] = "tools.permissions" => Len(f.path) = 2)
  /\ IsSeq(_from_mapping(rows))
  /\ \A q \in ToSet(_from_mapping(rows)) :
       /\ Question1(q) /\ ~q.proposal
       /\ \/ q.path = <<"handoff_rules">> /\ q.blocking
          \/ q.path[1] = "capabilities" /\ Len(q.path) = 2

\* The sources of the questions do not share a path, but the structure, the findings and the rows.
LEMMA RawFirsts ==
  ASSUME NEW dr, NEW gaps \in SUBSET Gaps, NEW conflicts \in SUBSET Conflicts, NEW fs, NEW rows,
         Lawful(fs, rows, dr)
  PROVE  LET raw == RawQuestions(dr, gaps, conflicts, fs, rows)
             S == _structural(dr)
             G == _from_gaps(gaps)
             C == _from_contradictions(conflicts)
             F == _from_preflight(fs)
             M == _from_mapping(rows)
         IN /\ IsSeq(raw)
            /\ \A p : p \in Paths(raw) <=>
                 p \in Paths(S) \/ p \in Paths(G) \/ p \in Paths(C) \/ p \in Paths(F) \/ p \in Paths(M)
            /\ \A q : q \in Firsts(raw) <=>
                 \/ q \in Firsts(S) \/ q \in Firsts(G) \/ q \in Firsts(C)
                 \/ q \in Firsts(F) /\ q.path \notin Paths(S)
                 \/ q \in Firsts(M) /\ q.path \notin Paths(S) \cup Paths(F)
<1> DEFINE S == _structural(dr)
           G == _from_gaps(gaps)
           C == _from_contradictions(conflicts)
           F == _from_preflight(fs)
           M == _from_mapping(rows)
           s1 == S \o G
           s2 == s1 \o C
           s3 == s2 \o F
           s4 == s3 \o M
<1>1. RawQuestions(dr, gaps, conflicts, fs, rows) = s4
  BY DEF RawQuestions
<1>2. IsSeq(S) /\ \A q \in ToSet(S) : AboutHole(q)
  BY HolesAsked DEF AboutHoles
<1>3. /\ IsSeq(G)
      /\ \A q \in ToSet(G) : \E g \in gaps : q.path = <<"knowledge.gaps", g>>
  BY GapsAsked
<1>4. /\ IsSeq(C)
      /\ \A q \in ToSet(C) : \E c \in conflicts : q.path = <<"knowledge.contradictions", c>>
  BY ConflictsAsked
<1>5. \A f \in ToSet(fs) : Len(f.path) \in {1, 2}
  BY DEF Lawful, Ordinary
<1>6. /\ IsSeq(F)
      /\ \A q \in ToSet(F) : \E f \in ToSet(fs) : q.path = f.path
  <2>1. IsSeq(fs)
    BY DEF Lawful
  <2> QED BY <1>5, <2>1, PreflightAsked
<1>7. /\ IsSeq(M)
      /\ \A q \in ToSet(M) : q.path = <<"handoff_rules">> \/ q.path[1] = "capabilities"
  BY DEF Lawful
<1>8. \A p \in Paths(S) : p[1] \notin {"knowledge.gaps", "knowledge.contradictions"}
  BY <1>2 DEF AboutHole, Paths
<1>9. \A p \in Paths(G) : p[1] = "knowledge.gaps"
  <2>1. \A g : <<"knowledge.gaps", g>>[1] = "knowledge.gaps"
    OBVIOUS
  <2> QED BY <1>3, <2>1 DEF Paths
<1>10. \A p \in Paths(C) : p[1] = "knowledge.contradictions"
  <2>1. \A g : <<"knowledge.contradictions", g>>[1] = "knowledge.contradictions"
    OBVIOUS
  <2> QED BY <1>4, <2>1 DEF Paths
<1>11. \A p \in Paths(F) : p[1] \notin {"knowledge.gaps", "knowledge.contradictions"}
  BY <1>6 DEF Lawful, Ordinary, Paths
<1>12. \A p \in Paths(M) : p[1] \notin {"knowledge.gaps", "knowledge.contradictions"}
  <2>1. <<"handoff_rules">>[1] = "handoff_rules"
    OBVIOUS
  <2> QED BY <1>7, <2>1 DEF Paths
<1>13. \A s : IsSeq(s) => \A q \in Firsts(s) : q.path \in Paths(s)
  BY EveryPathHasFirst DEF Paths
<1> HIDE DEF S, G, C, F, M
<1>14. /\ IsSeq(s1) /\ Paths(s1) = Paths(S) \cup Paths(G)
       /\ Firsts(s1) = Firsts(S) \cup {x \in Firsts(G) : x.path \notin Paths(S)}
  BY <1>2, <1>3, Joined, FirstsJoined
<1> HIDE DEF s1
<1>15. /\ IsSeq(s2) /\ Paths(s2) = Paths(s1) \cup Paths(C)
       /\ Firsts(s2) = Firsts(s1) \cup {x \in Firsts(C) : x.path \notin Paths(s1)}
  BY <1>14, <1>4, Joined, FirstsJoined
<1> HIDE DEF s2
<1>16. /\ IsSeq(s3) /\ Paths(s3) = Paths(s2) \cup Paths(F)
       /\ Firsts(s3) = Firsts(s2) \cup {x \in Firsts(F) : x.path \notin Paths(s2)}
  BY <1>15, <1>6, Joined, FirstsJoined
<1> HIDE DEF s3
<1>17. /\ IsSeq(s4) /\ Paths(s4) = Paths(s3) \cup Paths(M)
       /\ Firsts(s4) = Firsts(s3) \cup {x \in Firsts(M) : x.path \notin Paths(s3)}
  BY <1>16, <1>7, Joined, FirstsJoined
<1> HIDE DEF s4
<1>18. \A p : p \in Paths(s4) <=>
         p \in Paths(S) \/ p \in Paths(G) \/ p \in Paths(C) \/ p \in Paths(F) \/ p \in Paths(M)
  BY ONLY <1>14, <1>15, <1>16, <1>17
<1>19. ASSUME NEW q
       PROVE  q \in Firsts(s4) <=>
                 \/ q \in Firsts(S) \/ q \in Firsts(G) \/ q \in Firsts(C)
                 \/ q \in Firsts(F) /\ q.path \notin Paths(S)
                 \/ q \in Firsts(M) /\ q.path \notin Paths(S) \cup Paths(F)
  <2>1. /\ q \in Firsts(s1) <=> q \in Firsts(S) \/ (q \in Firsts(G) /\ q.path \notin Paths(S))
        /\ q \in Firsts(s2) <=> q \in Firsts(s1) \/ (q \in Firsts(C) /\ q.path \notin Paths(s1))
        /\ q \in Firsts(s3) <=> q \in Firsts(s2) \/ (q \in Firsts(F) /\ q.path \notin Paths(s2))
        /\ q \in Firsts(s4) <=> q \in Firsts(s3) \/ (q \in Firsts(M) /\ q.path \notin Paths(s3))
    BY <1>14, <1>15, <1>16, <1>17
  <2>2. q \in Firsts(G) => q.path \notin Paths(S)
    BY <1>3, <1>8, <1>9, <1>13
  <2>3. q \in Firsts(C) => q.path \notin Paths(s1)
    BY <1>4, <1>8, <1>9, <1>10, <1>13, <1>14
  <2>4. q \in Firsts(F) => (q.path \notin Paths(s2) <=> q.path \notin Paths(S))
    BY <1>6, <1>9, <1>10, <1>11, <1>13, <1>14, <1>15
  <2>5. q \in Firsts(M) => (q.path \notin Paths(s3) <=> q.path \notin Paths(S) \cup Paths(F))
    BY <1>7, <1>9, <1>10, <1>12, <1>13, <1>14, <1>15, <1>16
  <2> QED BY <2>1, <2>2, <2>3, <2>4, <2>5
<1> QED BY <1>1, <1>17, <1>18, <1>19 DEF S, G, C, F, M

\* Of them, the first of each path is asked, unless the path is settled.
LEMMA AllAsked ==
  ASSUME NEW dr, NEW gaps \in SUBSET Gaps, NEW conflicts \in SUBSET Conflicts, NEW fs, NEW rows,
         Lawful(fs, rows, dr), NEW done
  PROVE  LET raw == RawQuestions(dr, gaps, conflicts, fs, rows)
             qs == all_questions(dr, gaps, conflicts, fs, rows, done)
         IN /\ IsSeq(qs)
            /\ \A q : q \in ToSet(qs) <=> q \in Firsts(raw) /\ q.path \notin done
<1> DEFINE raw == RawQuestions(dr, gaps, conflicts, fs, rows)
           first(i) == \A j \in 1..(i - 1) : raw[j].path # raw[i].path
           kept == {i \in DOMAIN raw : first(i) /\ raw[i].path \notin done}
<1>1. all_questions(dr, gaps, conflicts, fs, rows, done) = rank(raw, kept)
  BY DEF all_questions, RawQuestions
<1>2. IsSeq(raw)
  BY RawFirsts
<1>3. Len(raw) \in Nat /\ DOMAIN raw = 1..Len(raw)
  <2> HIDE DEF raw
  <2> QED BY <1>2, Elements
<1>4. \A q \in Firsts(raw) : Question1(q)
  <2> SUFFICES ASSUME NEW q \in Firsts(raw) PROVE Question1(q)
    OBVIOUS
  <2>1. \A s : IsSeq(s) => Firsts(s) \subseteq ToSet(s)
    BY EveryPathHasFirst
  <2>2. /\ IsSeq(_structural(dr)) /\ \A x \in ToSet(_structural(dr)) : Question1(x)
    BY HolesAsked DEF AboutHoles, AboutHole
  <2>3. /\ IsSeq(_from_gaps(gaps)) /\ \A x \in ToSet(_from_gaps(gaps)) : Question1(x)
    BY GapsAsked
  <2>4. /\ IsSeq(_from_contradictions(conflicts))
        /\ \A x \in ToSet(_from_contradictions(conflicts)) : Question1(x)
    BY ConflictsAsked
  <2>5. /\ IsSeq(_from_preflight(fs)) /\ \A x \in ToSet(_from_preflight(fs)) : Question1(x)
    <3>1. IsSeq(fs) /\ \A f \in ToSet(fs) : Len(f.path) \in {1, 2}
      BY DEF Lawful, Ordinary
    <3> QED BY <3>1, PreflightAsked
  <2>6. /\ IsSeq(_from_mapping(rows)) /\ \A x \in ToSet(_from_mapping(rows)) : Question1(x)
    BY DEF Lawful
  <2>7. \/ q \in Firsts(_structural(dr)) \/ q \in Firsts(_from_gaps(gaps))
        \/ q \in Firsts(_from_contradictions(conflicts))
        \/ q \in Firsts(_from_preflight(fs)) \/ q \in Firsts(_from_mapping(rows))
    BY RawFirsts
  <2> QED BY <2>1, <2>2, <2>3, <2>4, <2>5, <2>6, <2>7
<1> HIDE DEF raw
<1>5. \A i \in kept : Priority(raw[i]) \in Int
  <2> SUFFICES ASSUME NEW i \in kept PROVE Priority(raw[i]) \in Int
    OBVIOUS
  <2>1. raw[i] \in Firsts(raw)
    BY DEF Firsts
  <2>2. Question1(raw[i])
    BY <1>4, <2>1
  <2> QED BY <2>2, PriorityType DEF Question1
<1>6. kept \subseteq 1..Len(raw)
  BY <1>3
<1>7. \A q : (\E i \in kept : q = raw[i]) <=> q \in Firsts(raw) /\ q.path \notin done
  BY DEF Firsts
<1> HIDE DEF kept
<1>8. IsSeq(rank(raw, kept)) /\ ToSet(rank(raw, kept)) = {raw[i] : i \in kept}
  BY <1>2, <1>5, <1>6, Ranked
<1>9. \A q : q \in ToSet(rank(raw, kept)) <=> q \in Firsts(raw) /\ q.path \notin done
  BY <1>7, <1>8
<1> QED BY <1>1, <1>8, <1>9 DEF raw

\* What may wait at a hole is about hooks that are there.
Patient(q, dr) ==
  ~q.blocking /\ Len(q.path) = 1 /\ q.path[1] \in HoleNames =>
    q.path[1] = "policies.contact_policy_hooks" /\ dr.hooks # {}

\* What is asked of the knowledge is a gap that is open, or a contradiction, which always blocks.
OfKnowledge(q, gaps, conflicts) ==
  /\ q.path[1] = "knowledge.gaps" =>
       \E g \in gaps : q.path = <<"knowledge.gaps", g>> /\ (q.blocking <=> BlockingGap(g))
  /\ q.path[1] = "knowledge.contradictions" =>
       q.blocking /\ \E c \in conflicts : q.path = <<"knowledge.contradictions", c>>

\* What a question is about.
LEMMA RawAsked ==
  ASSUME NEW dr, NEW gaps \in SUBSET Gaps, NEW conflicts \in SUBSET Conflicts, NEW fs, NEW rows,
         Lawful(fs, rows, dr), NEW q \in Firsts(RawQuestions(dr, gaps, conflicts, fs, rows))
  PROVE  /\ Question1(q) /\ (q.proposal => q.path \in Proposed) /\ Patient(q, dr)
         /\ OfKnowledge(q, gaps, conflicts)
         /\ q.path[1] = "tools.permissions" =>
              \E f \in Firsts(fs) : q.path = f.path /\ (q.blocking <=> f.severity = "BLOCK")
         /\ q.path[1] = "capabilities" => q \in Firsts(_from_mapping(rows))
<1> DEFINE S == _structural(dr)
           G == _from_gaps(gaps)
           C == _from_contradictions(conflicts)
           F == _from_preflight(fs)
           M == _from_mapping(rows)
           goal == /\ Question1(q) /\ (q.proposal => q.path \in Proposed) /\ Patient(q, dr)
                   /\ OfKnowledge(q, gaps, conflicts)
                   /\ q.path[1] = "tools.permissions" =>
                        \E f \in Firsts(fs) : q.path = f.path /\ (q.blocking <=> f.severity = "BLOCK")
                   /\ q.path[1] = "capabilities" => q \in Firsts(M)
<1>1. \A s : IsSeq(s) => Firsts(s) \subseteq ToSet(s)
  BY EveryPathHasFirst
<1>2. \/ q \in Firsts(S) \/ q \in Firsts(G) \/ q \in Firsts(C) \/ q \in Firsts(F) \/ q \in Firsts(M)
  BY RawFirsts
<1>3. CASE q \in Firsts(S)
  <2>1. IsSeq(S) /\ \A x \in ToSet(S) : AboutHole(x)
    BY HolesAsked DEF AboutHoles
  <2>2. AboutHole(q)
    BY <1>1, <1>3, <2>1
  <2> QED BY <2>2 DEF AboutHole, Patient, OfKnowledge
<1>4. CASE q \in Firsts(G)
  <2>1. /\ IsSeq(G)
        /\ \A x \in ToSet(G) :
             /\ Question1(x) /\ ~x.proposal
             /\ \E g \in gaps : x.path = <<"knowledge.gaps", g>> /\ (x.blocking <=> BlockingGap(g))
    BY GapsAsked
  <2>2. /\ Question1(q) /\ ~q.proposal
        /\ \E g \in gaps : q.path = <<"knowledge.gaps", g>> /\ (q.blocking <=> BlockingGap(g))
    BY <1>1, <1>4, <2>1
  <2>3. Len(q.path) = 2 /\ q.path[1] = "knowledge.gaps"
    BY <2>2
  <2> QED BY <2>2, <2>3 DEF Patient, OfKnowledge
<1>5. CASE q \in Firsts(C)
  <2>1. /\ IsSeq(C)
        /\ \A x \in ToSet(C) :
             /\ Question1(x) /\ ~x.proposal /\ x.blocking
             /\ \E c \in conflicts : x.path = <<"knowledge.contradictions", c>>
    BY ConflictsAsked
  <2>2. /\ Question1(q) /\ ~q.proposal /\ q.blocking
        /\ \E c \in conflicts : q.path = <<"knowledge.contradictions", c>>
    BY <1>1, <1>5, <2>1
  <2>3. Len(q.path) = 2 /\ q.path[1] = "knowledge.contradictions"
    BY <2>2
  <2> QED BY <2>2, <2>3 DEF Patient, OfKnowledge
<1>6. CASE q \in Firsts(F)
  <2>1. /\ IsSeq(fs)
        /\ \A f \in ToSet(fs) : Ordinary(f, dr) /\ Len(f.path) \in {1, 2}
    BY DEF Lawful, Ordinary
  <2>2. /\ IsSeq(F)
        /\ \A x \in ToSet(F) : Question1(x) /\ ~x.proposal
        /\ \A x \in Firsts(F) : \E f \in Firsts(fs) : x.path = f.path /\ (x.blocking <=> f.severity = "BLOCK")
    BY <2>1, PreflightAsked
  <2>3. Question1(q) /\ ~q.proposal
    BY <1>1, <1>6, <2>2
  <2>4. PICK f \in Firsts(fs) : q.path = f.path /\ (q.blocking <=> f.severity = "BLOCK")
    BY <1>6, <2>2
  <2>5. Ordinary(f, dr)
    BY <1>1, <2>1
  <2>6. /\ Patient(q, dr)
        /\ q.path[1] \notin {"knowledge.gaps", "knowledge.contradictions", "capabilities"}
    BY <2>4, <2>5 DEF Patient, Ordinary
  <2> QED BY <2>3, <2>4, <2>6 DEF OfKnowledge
<1>7. CASE q \in Firsts(M)
  <2>1. /\ Question1(q) /\ ~q.proposal
        /\ \/ q.path = <<"handoff_rules">> /\ q.blocking
           \/ q.path[1] = "capabilities" /\ Len(q.path) = 2
    BY <1>1, <1>7 DEF Lawful
  <2>2. /\ Patient(q, dr)
        /\ q.path[1] \in {"handoff_rules", "capabilities"}
    BY <2>1 DEF Patient
  <2> QED BY <1>7, <2>1, <2>2 DEF OfKnowledge
<1> QED BY <1>2, <1>3, <1>4, <1>5, <1>6, <1>7

\* What is asked, at least: of each hole, each gap, each contradiction, each finding and each row
\* that asks for something.
LEMMA RawAsksAll ==
  ASSUME NEW dr, NEW gaps \in SUBSET Gaps, NEW conflicts \in SUBSET Conflicts, NEW fs, NEW rows,
         Lawful(fs, rows, dr)
  PROVE  LET raw == RawQuestions(dr, gaps, conflicts, fs, rows)
         IN /\ IsSeq(raw)
            /\ \A p \in Holes(dr) : p \in Paths(raw)
            /\ \A g \in gaps : <<"knowledge.gaps", g>> \in Paths(raw)
            /\ \A c \in conflicts : <<"knowledge.contradictions", c>> \in Paths(raw)
            /\ \A f \in ToSet(fs) : f.path \in Paths(raw)
            /\ Paths(_from_mapping(rows)) \subseteq Paths(raw)
<1> DEFINE raw == RawQuestions(dr, gaps, conflicts, fs, rows)
<1>1. /\ IsSeq(raw)
      /\ \A p : p \in Paths(raw) <=>
           \/ p \in Paths(_structural(dr)) \/ p \in Paths(_from_gaps(gaps))
           \/ p \in Paths(_from_contradictions(conflicts)) \/ p \in Paths(_from_preflight(fs))
           \/ p \in Paths(_from_mapping(rows))
  BY RawFirsts
<1>2. Holes(dr) \subseteq Paths(_structural(dr))
  BY HolesAsked
<1>3. \A g \in gaps : <<"knowledge.gaps", g>> \in Paths(_from_gaps(gaps))
  BY GapsAsked, Zenon
<1>4. \A c \in conflicts : <<"knowledge.contradictions", c>> \in Paths(_from_contradictions(conflicts))
  BY ConflictsAsked, Zenon
<1>5. \A f \in ToSet(fs) : f.path \in Paths(_from_preflight(fs))
  <2>1. IsSeq(fs) /\ \A f \in ToSet(fs) : Len(f.path) \in {1, 2}
    BY DEF Lawful, Ordinary
  <2> QED BY <2>1, PreflightAsked
<1> HIDE DEF raw
<1>6. /\ \A p \in Holes(dr) : p \in Paths(raw)
      /\ \A g \in gaps : <<"knowledge.gaps", g>> \in Paths(raw)
      /\ \A c \in conflicts : <<"knowledge.contradictions", c>> \in Paths(raw)
      /\ \A f \in ToSet(fs) : f.path \in Paths(raw)
      /\ Paths(_from_mapping(rows)) \subseteq Paths(raw)
  <2> HIDE DEF Lawful
  <2> QED BY ONLY <1>1, <1>2, <1>3, <1>4, <1>5
<1> QED BY <1>1, <1>6 DEF raw

\* The knowledge changes nothing else that is asked.
LEMMA SameElsewhere ==
  ASSUME NEW dr, NEW gaps \in SUBSET Gaps, NEW conflicts \in SUBSET Conflicts, NEW fs, NEW rows,
         Lawful(fs, rows, dr), NEW gaps2 \in SUBSET Gaps, NEW conflicts2 \in SUBSET Conflicts,
         NEW q \in Firsts(RawQuestions(dr, gaps, conflicts, fs, rows)),
         q.path[1] \notin {"knowledge.gaps", "knowledge.contradictions"}
  PROVE  q \in Firsts(RawQuestions(dr, gaps2, conflicts2, fs, rows))
<1> DEFINE S == _structural(dr)
           F == _from_preflight(fs)
           M == _from_mapping(rows)
           kept(x) == \/ x \in Firsts(S)
                      \/ x \in Firsts(F) /\ x.path \notin Paths(S)
                      \/ x \in Firsts(M) /\ x.path \notin Paths(S) \cup Paths(F)
<1>1. \A s : IsSeq(s) => Firsts(s) \subseteq ToSet(s)
  BY EveryPathHasFirst
<1>2. q \notin Firsts(_from_gaps(gaps))
  <2>1. \A g : <<"knowledge.gaps", g>>[1] = "knowledge.gaps"
    OBVIOUS
  <2>2. /\ IsSeq(_from_gaps(gaps))
        /\ \A x \in ToSet(_from_gaps(gaps)) : \E g \in gaps : x.path = <<"knowledge.gaps", g>>
    BY GapsAsked
  <2> QED BY <1>1, <2>1, <2>2
<1>3. q \notin Firsts(_from_contradictions(conflicts))
  <2>1. \A g : <<"knowledge.contradictions", g>>[1] = "knowledge.contradictions"
    OBVIOUS
  <2>2. /\ IsSeq(_from_contradictions(conflicts))
        /\ \A x \in ToSet(_from_contradictions(conflicts)) :
             \E c \in conflicts : x.path = <<"knowledge.contradictions", c>>
    BY ConflictsAsked
  <2> QED BY <1>1, <2>1, <2>2
<1>4. \/ q \in Firsts(_from_gaps(gaps)) \/ q \in Firsts(_from_contradictions(conflicts))
      \/ kept(q)
  BY RawFirsts
<1>5. kept(q) => q \in Firsts(RawQuestions(dr, gaps2, conflicts2, fs, rows))
  BY RawFirsts
<1> QED BY <1>2, <1>3, <1>4, <1>5

-----------------------------------------------------------------------------
(***************************************************************************)
(* What a proposal shows.                                                  *)
(***************************************************************************)
\* The context of a deployment, and what its preflight finds and its mapping yields of a draft.
ContextOf(dep) ==
  [composition |-> dep.composition, registry |-> dep.registry, tenants |-> {},
   decls |-> ToolDecls, packs |-> PackOf, voices |-> VoiceOf, conflicts |-> {}, rejected |-> {},
   strict |-> FALSE]

FindingsOf(dep, dr) == IF Valid(dr) THEN Findings(dr, ContextOf(dep), {}, {}) ELSE <<>>

RowsOf(dep, dr) == IF Valid(dr) THEN map_requirements(dep.registry, dep.composition, dr) ELSE <<>>

QuestionsOf(dep, dr, open, done) ==
  all_questions(dr, open.gaps, open.conflicts, FindingsOf(dep, dr), RowsOf(dep, dr), done)

\* A proposal made of a draft, when every decision is approved.
Shows(p, dep, dr, open, done) ==
  /\ p.status \in StatusOf /\ p.readiness \in ReadinessOf
  /\ p.valid = Valid(dr)
  /\ p.questions = QuestionsOf(dep, dr, open, done)
  /\ p.findings = ToSet(FindingsOf(dep, dr))
  /\ p.requirements \subseteq ToSet(RowsOf(dep, dr))
  /\ p.status # "asking" <=> Valid(dr) /\ discovery_complete(p.questions)
  /\ p.readiness = "READY_FOR_SIMULATION" => p.status # "asking" /\ FindingsOf(dep, dr) = <<>>

\* The permission of a tool that is read, as it is declared.
WarnedRead(dr, tool) ==
  \E p \in dr.permissions :
    p.tool = tool /\ p.impact = "read" /\ \A d \in ToolDecls : d.tool = tool => d.impact = "read"

\* What was asked stays true of the draft: what may wait is at no hole, blocks no permission, and
\* lacks nothing that is known to lack.
Fact(q, dr, dep) ==
  /\ Question1(q) /\ (q.proposal => q.path \in Proposed) /\ Patient(q, dr)
  /\ ~q.blocking /\ q.path[1] = "tools.permissions" => WarnedRead(dr, q.path[2])
  /\ ~q.blocking /\ q.path[1] = "capabilities" =>
       Unchecked(dep.registry, dep.composition, q.path[2])

\* Every decision is approved, and stands for a section or for what was asked.
DecisionsApproved ==
  \A d \in decisions : d.by \in {"operator", "copilot"} /\ d.approved = TRUE /\ Len(d.path) \in {1, 2}

AskedInv ==
  /\ ToSet(view.questions) \subseteq asked
  /\ \A q \in asked : Fact(q, draft, deployment)
  /\ \A p \in answered : p[1] = "tools.permissions" => draft.spoiled
  /\ \A p \in deferred : \E q \in asked : q.path = p /\ ~q.blocking

\* The invariant of a session.
SessionInv ==
  /\ draft \in Drafts /\ known \in Open /\ knowledge \in Open /\ settled \subseteq Conflicts
  /\ published = <<>> \/ \E p : published = <<p>>
  /\ DecisionsApproved
  /\ Shows(view, deployment, draft, known, answered \cup deferred)
  /\ AskedInv

\* The findings and rows of a draft are lawful.
LEMMA LawfulFound ==
  ASSUME NEW dr \in Drafts, NEW dep
  PROVE  /\ Lawful(FindingsOf(dep, dr), RowsOf(dep, dr), dr)
         /\ Rows(RowsOf(dep, dr), dep.registry, dep.composition, dr)
         /\ Valid(dr) => Mixed(FindingsOf(dep, dr), _tools(dr, ContextOf(dep), {}), dr)
<1> DEFINE fs == FindingsOf(dep, dr)
           rows == RowsOf(dep, dr)
           ctx == ContextOf(dep)
<1>1. ctx.tenants = {} /\ ctx.rejected = {}
  BY DEF ContextOf
<1>2. Valid(dr) => Mixed(fs, _tools(dr, ctx, {}), dr)
  <2> HIDE DEF ctx
  <2>1. Mixed(Findings(dr, ctx, {}, {}), _tools(dr, ctx, {}), dr)
    BY <1>1, FindingsFound
  <2> QED BY <2>1 DEF FindingsOf, ctx
<1>3. IsSeq(fs) /\ \A f \in ToSet(fs) : Ordinary(f, dr) /\ (f.path[1] = "tools.permissions" => Len(f.path) = 2)
  <2>1. CASE Valid(dr)
    BY <1>2, <2>1 DEF Mixed
  <2>2. CASE ~Valid(dr)
    <3>1. fs = <<>>
      BY <2>2 DEF FindingsOf
    <3> QED BY <3>1, Nothing
  <2> QED BY <2>1, <2>2
<1>4. Rows(rows, dep.registry, dep.composition, dr)
  <2>1. CASE Valid(dr)
    BY <2>1, MappingFound DEF RowsOf
  <2>2. CASE ~Valid(dr)
    <3>1. rows = <<>>
      BY <2>2 DEF RowsOf
    <3>2. IsSeq(<<>>) /\ Len(<<>>) = 0
      BY Nothing
    <3> QED BY <3>1, <3>2 DEF Rows
  <2> QED BY <2>1, <2>2
<1> HIDE DEF fs, rows
<1>5. /\ IsSeq(_from_mapping(rows))
      /\ \A q \in ToSet(_from_mapping(rows)) :
           /\ Question1(q) /\ ~q.proposal
           /\ \/ q.path = <<"handoff_rules">> /\ q.blocking
              \/ q.path[1] = "capabilities" /\ Len(q.path) = 2
  BY <1>4, MappingAsked
<1>6. Lawful(fs, rows, dr)
  BY <1>3, <1>5 DEF Lawful
<1> QED BY <1>2, <1>4, <1>6 DEF fs, rows

\* What is shown of the parts of a proposal.
LEMMA PartsShown ==
  ASSUME NEW dr, NEW ds, NEW open, NEW qs, NEW fs, NEW rows
  PROVE  LET p == Shown(dr, ds, open, Valid(dr), qs, fs, rows)
         IN /\ p.status \in StatusOf /\ p.readiness \in ReadinessOf
            /\ p.valid = Valid(dr) /\ p.questions = qs /\ p.findings = ToSet(fs)
            /\ p.requirements \subseteq ToSet(rows)
            /\ p.status # "asking" <=> Valid(dr) /\ discovery_complete(qs)
            /\ p.readiness = "READY_FOR_SIMULATION" => p.status # "asking" /\ fs = <<>>
<1> DEFINE valid == Valid(dr)
           complete == discovery_complete(qs)
           blocked == Blocked(fs) \/ Risks(dr, open.conflicts) # {}
           fine == Unapproved(ds) = {} /\ fs = <<>>
           status == IF ~valid \/ ~complete THEN "asking"
                     ELSE IF blocked THEN "blocked" ELSE "review"
           readiness == CASE status = "asking" ->
                               IF dr = EmptyDraft THEN "DRAFT" ELSE "DISCOVERY_IN_PROGRESS"
                          [] status = "blocked" -> "BLOCKED"
                          [] OTHER -> IF fine THEN "READY_FOR_SIMULATION" ELSE "NEEDS_CONFIGURATION"
           wanting == {r \in ToSet(rows) : r.action # "SUPPORTED"}
           found == ToSet(fs)
<1>1. Shown(dr, ds, open, Valid(dr), qs, fs, rows) =
        [status |-> status, readiness |-> readiness, valid |-> valid, questions |-> qs,
         findings |-> found, requirements |-> wanting]
  BY DEF Shown
<1> HIDE DEF valid
<1>2. status \in StatusOf /\ (status # "asking" <=> valid /\ complete)
  BY DEF StatusOf
<1>3. wanting \subseteq ToSet(rows)
  OBVIOUS
<1> HIDE DEF status
<1>4. readiness \in ReadinessOf /\ (readiness = "READY_FOR_SIMULATION" => status # "asking" /\ fine)
  BY DEF ReadinessOf
<1> HIDE DEF readiness, wanting, complete, found
<1> QED BY <1>1, <1>2, <1>3, <1>4 DEF complete, found, valid

\* No decision is left to approve, and none waives a confirmation.
LEMMA NothingOpen ==
  ASSUME NEW ds, \A d \in ds : d.approved = TRUE /\ Len(d.path) \in {1, 2}
  PROVE  Unapproved(ds) = {} /\ Waived(ds) = {}
<1>1. Unapproved(ds) = {}
  BY DEF Unapproved
<1>2. \A t : Len(<<"tools.permissions", t, "confirmation">>) = 3
  OBVIOUS
<1>3. Waived(ds) = {}
  <2> SUFFICES ASSUME NEW t \in Waived(ds) PROVE FALSE
    OBVIOUS
  <2>1. PICK d \in ds : d.path = <<"tools.permissions", t, "confirmation">>
    BY DEF Waived
  <2> QED BY <1>2, <2>1
<1> QED BY <1>1, <1>3

\* What a proposal shows.
LEMMA ProposeShows ==
  ASSUME NEW dr, NEW ds, \A d \in ds : d.approved = TRUE /\ Len(d.path) \in {1, 2}, NEW open, NEW done
  PROVE  Shows(Propose(dr, ds, open, done), deployment, dr, open, done)
<1> DEFINE valid == Valid(dr)
           fs == FindingsOf(deployment, dr)
           rows == RowsOf(deployment, dr)
           qs == QuestionsOf(deployment, dr, open, done)
           p == Propose(dr, ds, open, done)
<1>1. Unapproved(ds) = {} /\ Waived(ds) = {}
  BY NothingOpen
<1>2. CopilotContext = ContextOf(deployment)
  BY DEF CopilotContext, ContextOf
<1>3. /\ fs = IF valid THEN Findings(dr, CopilotContext, Unapproved(ds), Waived(ds)) ELSE <<>>
      /\ rows = IF valid THEN map_requirements(deployment.registry, deployment.composition, dr) ELSE <<>>
      /\ qs = all_questions(dr, open.gaps, open.conflicts, fs, rows, done)
  BY <1>1, <1>2 DEF FindingsOf, RowsOf, QuestionsOf
<1> HIDE DEF fs, rows, qs
<1>4. p = Shown(dr, ds, open, Valid(dr), qs, fs, rows)
  BY <1>3 DEF Propose
<1> HIDE DEF p
<1>5. LET s == Shown(dr, ds, open, Valid(dr), qs, fs, rows)
      IN /\ s.status \in StatusOf /\ s.readiness \in ReadinessOf
         /\ s.valid = Valid(dr) /\ s.questions = qs /\ s.findings = ToSet(fs)
         /\ s.requirements \subseteq ToSet(rows)
         /\ s.status # "asking" <=> Valid(dr) /\ discovery_complete(qs)
         /\ s.readiness = "READY_FOR_SIMULATION" => s.status # "asking" /\ fs = <<>>
  BY PartsShown, Zenon
<1>6. /\ p.status \in StatusOf /\ p.readiness \in ReadinessOf
      /\ p.valid = Valid(dr) /\ p.questions = qs /\ p.findings = ToSet(fs)
      /\ p.requirements \subseteq ToSet(rows)
      /\ p.status # "asking" <=> Valid(dr) /\ discovery_complete(p.questions)
      /\ p.readiness = "READY_FOR_SIMULATION" => p.status # "asking" /\ fs = <<>>
  BY <1>4, <1>5, Zenon
<1> QED BY <1>6 DEF Shows, p, fs, rows, qs

\* The questions of a proposal before they are ranked.
RawOf(dep, dr, open) == RawQuestions(dr, open.gaps, open.conflicts, FindingsOf(dep, dr), RowsOf(dep, dr))

\* What is asked of a draft is a fact about it, and nothing else is left unless it is settled.
LEMMA ShownAsks ==
  ASSUME NEW dr \in Drafts, NEW open \in Open, NEW dep, NEW done
  PROVE  /\ IsSeq(QuestionsOf(dep, dr, open, done))
         /\ \A q : q \in ToSet(QuestionsOf(dep, dr, open, done)) <=>
                     q \in Firsts(RawOf(dep, dr, open)) /\ q.path \notin done
         /\ \A q \in Firsts(RawOf(dep, dr, open)) : Fact(q, dr, dep)
<1> DEFINE fs == FindingsOf(dep, dr)
           rows == RowsOf(dep, dr)
           qs == all_questions(dr, open.gaps, open.conflicts, fs, rows, done)
           raw == RawQuestions(dr, open.gaps, open.conflicts, fs, rows)
           G == open.gaps
           C == open.conflicts
<1>1. G \in SUBSET Gaps /\ C \in SUBSET Conflicts
  BY DEF Open
<1>2. QuestionsOf(dep, dr, open, done) = qs /\ RawOf(dep, dr, open) = raw
  BY DEF QuestionsOf, RawOf
<1>3. /\ Lawful(fs, rows, dr)
      /\ Rows(rows, dep.registry, dep.composition, dr)
      /\ Valid(dr) => Mixed(fs, _tools(dr, ContextOf(dep), {}), dr)
  BY LawfulFound
<1>4. ~Valid(dr) => Firsts(fs) = {}
  BY Nothing DEF FindingsOf
<1> HIDE DEF fs, rows, G, C
<1>5. /\ IsSeq(qs)
      /\ \A q : q \in ToSet(qs) <=> q \in Firsts(raw) /\ q.path \notin done
  <2>1. LET r == RawQuestions(dr, G, C, fs, rows)
            s == all_questions(dr, G, C, fs, rows, done)
        IN /\ IsSeq(s)
           /\ \A q : q \in ToSet(s) <=> q \in Firsts(r) /\ q.path \notin done
    BY <1>1, <1>3, AllAsked
  <2> QED BY <2>1 DEF G, C
<1>6. ASSUME NEW q \in Firsts(raw) PROVE Fact(q, dr, dep)
  <2>1. q \in Firsts(RawQuestions(dr, G, C, fs, rows))
    BY DEF G, C
  <2>2. /\ Question1(q) /\ (q.proposal => q.path \in Proposed) /\ Patient(q, dr)
        /\ q.path[1] = "tools.permissions" =>
             \E f \in Firsts(fs) : q.path = f.path /\ (q.blocking <=> f.severity = "BLOCK")
        /\ q.path[1] = "capabilities" => q \in Firsts(_from_mapping(rows))
    BY <1>1, <1>3, <2>1, RawAsked
  <2>3. ASSUME ~q.blocking, q.path[1] = "tools.permissions" PROVE WarnedRead(dr, q.path[2])
    <3> DEFINE ctx == ContextOf(dep)
    <3>1. PICK f \in Firsts(fs) : q.path = f.path /\ (q.blocking <=> f.severity = "BLOCK")
      BY <2>2, <2>3
    <3>2. Mixed(fs, _tools(dr, ctx, {}), dr)
      BY <1>3, <1>4, <3>1
    <3>3. ctx.decls = ToolDecls
      BY DEF ContextOf
    <3> HIDE DEF ctx
    <3>4. f \in ToSet(fs)
      BY <3>2, EveryPathHasFirst DEF Mixed
    <3>5. f.severity = "WARN" /\ f \in Firsts(_tools(dr, ctx, {}))
      BY <2>3, <3>1, <3>2, <3>4 DEF Mixed, Ordinary
    <3>6. \E p \in dr.permissions :
            /\ p.tool = f.path[2] /\ p.impact = "read"
            /\ \A d \in ctx.decls : d.tool = p.tool => d.impact = p.impact
      BY <2>3, <3>1, <3>5, ToolsFound
    <3> QED BY <3>1, <3>3, <3>6 DEF WarnedRead
  <2>4. ASSUME ~q.blocking, q.path[1] = "capabilities"
        PROVE  Unchecked(dep.registry, dep.composition, q.path[2])
    BY <1>3, <2>2, <2>4, MappingAsked
  <2> QED BY <2>2, <2>3, <2>4 DEF Fact
<1> QED BY <1>2, <1>5, <1>6

\* When discovery is complete, what blocks is settled.
LEMMA CompleteMeans ==
  ASSUME NEW dr \in Drafts, NEW open \in Open, NEW dep, NEW done
  PROVE  discovery_complete(QuestionsOf(dep, dr, open, done)) <=>
           \A q \in Firsts(RawOf(dep, dr, open)) : q.blocking => q.path \in done
<1> DEFINE qs == QuestionsOf(dep, dr, open, done)
           raw == RawOf(dep, dr, open)
<1>1. /\ IsSeq(qs)
      /\ \A q : q \in ToSet(qs) <=> q \in Firsts(raw) /\ q.path \notin done
  BY ShownAsks
<1> HIDE DEF qs, raw
<1>2. \A q : q \in ToSet(qs) <=> \E i \in DOMAIN qs : q = qs[i]
  BY DEF ToSet
<1>3. discovery_complete(qs) <=> \A q \in ToSet(qs) : ~q.blocking
  BY <1>2 DEF discovery_complete
<1>4. (\A q \in ToSet(qs) : ~q.blocking) <=> \A q \in Firsts(raw) : q.blocking => q.path \in done
  BY <1>1
<1> QED BY <1>3, <1>4 DEF qs, raw

\* What was deferred was asked, and could wait.
Deferred(deferrals, questions) == \A p \in deferrals : \E q \in questions : q.path = p /\ ~q.blocking

\* When discovery is complete, every hole that is left was answered for.
LEMMA HolesAnswered ==
  ASSUME NEW dr \in Drafts, NEW open \in Open, NEW dep, NEW answers, NEW deferrals, NEW questions,
         Deferred(deferrals, questions), \A q \in questions : Fact(q, dr, dep),
         discovery_complete(QuestionsOf(dep, dr, open, answers \cup deferrals)),
         NEW p \in Holes(dr)
  PROVE  p \in answers
<1> DEFINE raw == RawOf(dep, dr, open)
           fs == FindingsOf(dep, dr)
           rows == RowsOf(dep, dr)
           G == open.gaps
           C == open.conflicts
<1>1. G \in SUBSET Gaps /\ C \in SUBSET Conflicts
  BY DEF Open
<1>2. Lawful(fs, rows, dr)
  BY LawfulFound
<1>3. raw = RawQuestions(dr, G, C, fs, rows)
  BY DEF RawOf
<1>4. \A q \in Firsts(raw) : Fact(q, dr, dep)
  BY ShownAsks
<1>5. \A q \in Firsts(raw) : q.blocking => q.path \in answers \cup deferrals
  BY CompleteMeans
<1> HIDE DEF raw, fs, rows, G, C
<1>6. PICK q \in Firsts(raw) : q.path = p
  <2>1. p \in Paths(RawQuestions(dr, G, C, fs, rows))
    BY <1>1, <1>2, RawAsksAll
  <2>2. \E q \in Firsts(RawQuestions(dr, G, C, fs, rows)) : q.path = p
    <3> DEFINE r == RawQuestions(dr, G, C, fs, rows)
    <3>1. IsSeq(r)
      BY <1>1, <1>2, RawAsksAll
    <3>2. p \in Paths(r)
      BY <2>1
    <3> HIDE DEF r
    <3>3. \E q \in Firsts(r) : q.path = p
      BY <3>1, <3>2, EveryPathHasFirst
    <3> QED BY <3>3 DEF r
  <2> QED BY <1>3, <2>2
<1>7. Len(p) = 1 /\ p[1] \in HoleNames
      /\ (p[1] = "policies.contact_policy_hooks" => dr.hooks = {})
  BY DEF Holes, HoleNames
<1>8. ASSUME NEW x, Fact(x, dr, dep), x.path = p PROVE x.blocking
  BY <1>7, <1>8 DEF Fact, Patient
<1>9. p \in answers \cup deferrals
  BY <1>4, <1>5, <1>6, <1>8
<1>10. p \notin deferrals
  BY <1>8 DEF Deferred
<1> QED BY <1>9, <1>10

-----------------------------------------------------------------------------
(***************************************************************************)
(* What an answer writes.                                                  *)
(***************************************************************************)
\* The paths an answer is written at.
Writable ==
  Written \cup {<<"policies.contact_policy_hooks">>, <<"policies.opt_out">>, <<"handoff_rules">>,
                <<"coverage.objections">>, <<"completion">>, <<"policies.unknown_question_policy">>}

\* The paths with an index in the sections whose keys the schema knows.
CompletionKey(path) == Len(path) = 2 /\ path[1] \in Sections["completion"]
UnknownKey(path) == Len(path) = 2 /\ path[1] \in Sections["policies.unknown_question_policy"]

\* A draft with another value in a field, or with a mark.
Updated(dr, f, v) == [dr EXCEPT ![f] = v]
Marked(dr, f) == [dr EXCEPT ![f] = TRUE]

\* What is written when the answer is in words.
SomeHooks == {[consent |-> TRUE, window |-> TRUE]}
SomeHandoff == <<[destination |-> TRUE, context |-> {}]>>
SomeObjection == <<"ASK_OWNER">>

\* An answer that takes the place of a text, and a text that takes the place of a section.
WithRules(dr, v) == Updated(Updated(dr, "success", v), "completion", Mended(dr.completion))
WithDefault(dr, v) == Updated(Updated(dr, "default", v), "unknown", Mended(dr.unknown))
CompletionText(dr) ==
  Updated(Updated(Updated(Updated(dr, "success", <<>>), "failure", <<>>), "exit", <<>>),
          "completion", "text")
UnknownText(dr) == Updated(Updated(Updated(dr, "default", Unset), "overrides", <<>>), "unknown", "text")

\* The fields of a draft.
Fields ==
  {"direction", "channels", "language", "pack", "voice", "objective", "required", "optional", "flow",
   "sources", "pinned", "requirements", "needs", "extras", "permissions", "default", "uncertainty",
   "overrides", "allowed", "prohibited", "opt_out", "respect", "opening", "hooks", "escalation",
   "handoffs", "questions", "objections", "success", "failure", "exit", "outcomes", "fields",
   "completion", "unknown", "spoiled"}

\* The domain of a draft.
LEMMA DraftFields ==
  ASSUME NEW dr \in Drafts
  PROVE  DOMAIN dr = Fields /\ dr = [g \in Fields |-> dr[g]]
<1>1. DOMAIN dr = Fields
  BY DEF Drafts, Fields
<1>2. dr = [g \in Fields |-> dr[g]]
  BY DEF Drafts, Fields
<1> QED BY <1>1, <1>2

\* What stands in these two sections.
LEMMA KeysOf ==
  /\ Sections["completion"] = {"completion", "completion.success_rules", "completion.failure_rules",
                               "completion.exit_rules"}
  /\ Sections["policies.unknown_question_policy"] =
       {"policies.unknown_question_policy", "policies.unknown_question_policy.default",
        "policies.unknown_question_policy.overrides"}
BY DEF Sections

\* Every answer changes one field of the draft, or a few that go together.
LEMMA Writes ==
  ASSUME NEW dr, NEW path, NEW v
  PROVE  /\ path = <<"objective.primary">> => Write(dr, path, v) = Updated(dr, "objective", v)
         /\ path = <<"direction">> => Write(dr, path, v) = Updated(dr, "direction", v)
         /\ path = <<"channels">> => Write(dr, path, v) = Updated(dr, "channels", v)
         /\ path = <<"locale">> =>
              Write(dr, path, v) = Updated(Updated(Updated(dr, "language", v), "pack", Unset), "voice", Unset)
         /\ path = <<"locale.locale_pack_ref">> => Write(dr, path, v) = Updated(dr, "pack", v)
         /\ path = <<"locale.voice_profile_ref">> =>
              Write(dr, path, v) = Updated(dr, "voice", v)
         /\ path = <<"policies.contact_policy_hooks">> =>
              Write(dr, path, v) = Updated(dr, "hooks", SomeHooks)
         /\ path = <<"data.required">> => Write(dr, path, v) = Updated(dr, "required", v)
         /\ path = <<"knowledge.sources">> => Write(dr, path, v) = Updated(dr, "sources", v)
         /\ path = <<"policies.unknown_question_policy.default">> =>
              Write(dr, path, v) = WithDefault(dr, v)
         /\ path = <<"policies.opt_out">> => Write(dr, path, v) = Marked(dr, "opt_out")
         /\ path = <<"outcome_schema.primary">> =>
              Write(dr, path, v) = Updated(dr, "outcomes", v)
         /\ path = <<"completion.success_rules">> =>
              Write(dr, path, v) = WithRules(dr, v)
         /\ path = <<"handoff_rules">> =>
              Write(dr, path, v) = Updated(dr, "handoffs", SomeHandoff)
         /\ path = <<"coverage.objections">> =>
              Write(dr, path, v) = Updated(dr, "objections", SomeObjection)
         /\ path = <<"completion">> => Write(dr, path, v) = CompletionText(dr)
         /\ path = <<"policies.unknown_question_policy">> => Write(dr, path, v) = UnknownText(dr)
         /\ CompletionKey(path) => Write(dr, path, v) = Updated(dr, "completion", "extra")
         /\ UnknownKey(path) => Write(dr, path, v) = Updated(dr, "unknown", "extra")
         /\ path \notin Writable /\ ~CompletionKey(path) /\ ~UnknownKey(path) =>
              Write(dr, path, v) = Marked(dr, "spoiled")
<1>1. ASSUME path = <<"objective.primary">>
      PROVE  Write(dr, path, v) = Updated(dr, "objective", v)
  BY <1>1 DEF Write, Updated, Marked, SomeHooks, SomeHandoff, SomeObjection
<1>2. ASSUME path = <<"direction">>
      PROVE  Write(dr, path, v) = Updated(dr, "direction", v)
  BY <1>2 DEF Write, Updated, Marked, SomeHooks, SomeHandoff, SomeObjection
<1>3. ASSUME path = <<"channels">>
      PROVE  Write(dr, path, v) = Updated(dr, "channels", v)
  BY <1>3 DEF Write, Updated, Marked, SomeHooks, SomeHandoff, SomeObjection
<1>4. ASSUME path = <<"locale">>
      PROVE  Write(dr, path, v) = Updated(Updated(Updated(dr, "language", v), "pack", Unset), "voice", Unset)
  <2>1. Write(dr, path, v) = [dr EXCEPT !.language = v, !.pack = Unset, !.voice = Unset]
    BY <1>4 DEF Write
  <2> QED BY <2>1 DEF Updated
<1>5. ASSUME path = <<"locale.locale_pack_ref">>
      PROVE  Write(dr, path, v) = Updated(dr, "pack", v)
  BY <1>5 DEF Write, Updated, Marked, SomeHooks, SomeHandoff, SomeObjection
<1>6. ASSUME path = <<"locale.voice_profile_ref">>
      PROVE  Write(dr, path, v) = Updated(dr, "voice", v)
  BY <1>6 DEF Write, Updated, Marked, SomeHooks, SomeHandoff, SomeObjection
<1>7. ASSUME path = <<"policies.contact_policy_hooks">>
      PROVE  Write(dr, path, v) = Updated(dr, "hooks", SomeHooks)
  BY <1>7 DEF Write, Updated, Marked, SomeHooks, SomeHandoff, SomeObjection
<1>8. ASSUME path = <<"data.required">>
      PROVE  Write(dr, path, v) = Updated(dr, "required", v)
  BY <1>8 DEF Write, Updated, Marked, SomeHooks, SomeHandoff, SomeObjection
<1>9. ASSUME path = <<"knowledge.sources">>
      PROVE  Write(dr, path, v) = Updated(dr, "sources", v)
  BY <1>9 DEF Write, Updated, Marked, SomeHooks, SomeHandoff, SomeObjection
<1>10. ASSUME path = <<"policies.unknown_question_policy.default">>
       PROVE  Write(dr, path, v) = WithDefault(dr, v)
  <2>1. Write(dr, path, v) = WriteDefault(dr, v)
    BY <1>10 DEF Write
  <2> QED BY <2>1 DEF WriteDefault, Updated, WithDefault
<1>11. ASSUME path = <<"policies.opt_out">>
       PROVE  Write(dr, path, v) = Marked(dr, "opt_out")
  BY <1>11 DEF Write, Updated, Marked, SomeHooks, SomeHandoff, SomeObjection
<1>12. ASSUME path = <<"outcome_schema.primary">>
       PROVE  Write(dr, path, v) = Updated(dr, "outcomes", v)
  BY <1>12 DEF Write, Updated, Marked, SomeHooks, SomeHandoff, SomeObjection
<1>13. ASSUME path = <<"completion.success_rules">>
       PROVE  Write(dr, path, v) = WithRules(dr, v)
  <2>1. Write(dr, path, v) = WriteRules(dr, v)
    BY <1>13 DEF Write
  <2> QED BY <2>1 DEF WriteRules, Updated, WithRules
<1>14. ASSUME path = <<"handoff_rules">>
       PROVE  Write(dr, path, v) = Updated(dr, "handoffs", SomeHandoff)
  BY <1>14 DEF Write, Updated, Marked, SomeHooks, SomeHandoff, SomeObjection
<1>15. ASSUME path = <<"coverage.objections">>
       PROVE  Write(dr, path, v) = Updated(dr, "objections", SomeObjection)
  BY <1>15 DEF Write, Updated, Marked, SomeHooks, SomeHandoff, SomeObjection
<1>16. path \in Writable => Len(path) = 1
  BY DEF Writable, Written
<1>17. ASSUME path \notin Writable \/ path \in {<<"completion">>, <<"policies.unknown_question_policy">>}
       PROVE  Write(dr, path, v) = Misplace(dr, path)
  BY <1>17 DEF Write, Writable, Written
<1>18. ASSUME path = <<"completion">>
       PROVE  Write(dr, path, v) = CompletionText(dr)
  <2>1. Misplace(dr, path) =
          [dr EXCEPT !.success = <<>>, !.failure = <<>>, !.exit = <<>>, !.completion = "text"]
    BY <1>18 DEF Misplace
  <2>2. Write(dr, path, v) = Misplace(dr, path)
    BY <1>17, <1>18
  <2> QED BY <2>1, <2>2 DEF Updated, CompletionText
<1>19. ASSUME path = <<"policies.unknown_question_policy">>
       PROVE  Write(dr, path, v) = UnknownText(dr)
  <2>1. Misplace(dr, path) = [dr EXCEPT !.default = Unset, !.overrides = <<>>, !.unknown = "text"]
    BY <1>19 DEF Misplace
  <2>2. Write(dr, path, v) = Misplace(dr, path)
    BY <1>17, <1>19
  <2> QED BY <2>1, <2>2 DEF Updated, UnknownText
<1>20. ASSUME CompletionKey(path)
       PROVE  Write(dr, path, v) = Updated(dr, "completion", "extra")
  <2>1. /\ path \notin Writable
        /\ path # <<"completion">> /\ path # <<"policies.unknown_question_policy">>
    BY <1>16, <1>20 DEF CompletionKey
  <2>2. ~UnknownKey(path)
    <3>1. path[1] \in {"completion", "completion.success_rules", "completion.failure_rules",
                       "completion.exit_rules"}
      BY <1>20, KeysOf DEF CompletionKey
    <3>2. path[1] \notin Sections["policies.unknown_question_policy"]
      BY <3>1, KeysOf
    <3> QED BY <3>2 DEF UnknownKey
  <2>3. Misplace(dr, path) = [dr EXCEPT !.completion = "extra"]
    BY <1>20, <2>1, <2>2 DEF Misplace, CompletionKey, UnknownKey
  <2>4. Write(dr, path, v) = Misplace(dr, path)
    BY <1>17, <2>1
  <2> QED BY <2>3, <2>4 DEF Updated
<1>21. ASSUME UnknownKey(path)
       PROVE  Write(dr, path, v) = Updated(dr, "unknown", "extra")
  <2>1. /\ path \notin Writable
        /\ path # <<"completion">> /\ path # <<"policies.unknown_question_policy">>
    BY <1>16, <1>21 DEF UnknownKey
  <2>2. ~CompletionKey(path)
    <3>1. path[1] \in {"policies.unknown_question_policy",
                       "policies.unknown_question_policy.default",
                       "policies.unknown_question_policy.overrides"}
      BY <1>21, KeysOf DEF UnknownKey
    <3>2. path[1] \notin Sections["completion"]
      BY <3>1, KeysOf
    <3> QED BY <3>2 DEF CompletionKey
  <2>3. Misplace(dr, path) = [dr EXCEPT !.unknown = "extra"]
    BY <1>21, <2>1, <2>2 DEF Misplace, CompletionKey, UnknownKey
  <2>4. Write(dr, path, v) = Misplace(dr, path)
    BY <1>17, <2>1
  <2> QED BY <2>3, <2>4 DEF Updated
<1>22. ASSUME path \notin Writable, ~CompletionKey(path), ~UnknownKey(path)
       PROVE  Write(dr, path, v) = Marked(dr, "spoiled")
  <2>1. path # <<"completion">> /\ path # <<"policies.unknown_question_policy">>
    BY <1>22 DEF Writable
  <2> QED BY <1>17, <1>22, <2>1 DEF Misplace, Marked, CompletionKey, UnknownKey
<1> QED BY <1>1, <1>2, <1>3, <1>4, <1>5, <1>6, <1>7, <1>8, <1>9, <1>10, <1>11, <1>12, <1>13,
           <1>14, <1>15, <1>18, <1>19, <1>20, <1>21, <1>22

\* The fields an answer changes are independent of the others.
WrittenFields ==
  {"objective", "direction", "channels", "language", "pack", "voice", "hooks", "required",
   "sources", "default", "overrides", "unknown", "opt_out", "outcomes", "success", "failure", "exit",
   "completion", "handoffs", "objections", "spoiled"}

\* A field takes the value it has in another draft.
LEMMA FieldTaken ==
  ASSUME NEW dr \in Drafts, NEW e \in Drafts, NEW f \in WrittenFields
  PROVE  Updated(dr, f, e[f]) \in Drafts
<1>1. Updated(dr, "objective", e["objective"]) \in Drafts
  BY DEF Drafts, Updated
<1>2. Updated(dr, "direction", e["direction"]) \in Drafts
  BY DEF Drafts, Updated
<1>3. Updated(dr, "channels", e["channels"]) \in Drafts
  BY DEF Drafts, Updated
<1>4. Updated(dr, "language", e["language"]) \in Drafts
  BY DEF Drafts, Updated
<1>5. Updated(dr, "pack", e["pack"]) \in Drafts
  BY DEF Drafts, Updated
<1>6. Updated(dr, "voice", e["voice"]) \in Drafts
  BY DEF Drafts, Updated
<1>7. Updated(dr, "hooks", e["hooks"]) \in Drafts
  BY DEF Drafts, Updated
<1>8. Updated(dr, "required", e["required"]) \in Drafts
  BY DEF Drafts, Updated
<1>9. Updated(dr, "sources", e["sources"]) \in Drafts
  BY DEF Drafts, Updated
<1>10. Updated(dr, "default", e["default"]) \in Drafts
  BY DEF Drafts, Updated
<1>11. Updated(dr, "opt_out", e["opt_out"]) \in Drafts
  BY DEF Drafts, Updated
<1>12. Updated(dr, "outcomes", e["outcomes"]) \in Drafts
  BY DEF Drafts, Updated
<1>13. Updated(dr, "success", e["success"]) \in Drafts
  BY DEF Drafts, Updated
<1>14. Updated(dr, "handoffs", e["handoffs"]) \in Drafts
  BY DEF Drafts, Updated
<1>15. Updated(dr, "objections", e["objections"]) \in Drafts
  BY DEF Drafts, Updated
<1>16. Updated(dr, "spoiled", e["spoiled"]) \in Drafts
  BY DEF Drafts, Updated
<1>17. Updated(dr, "completion", e["completion"]) \in Drafts
  BY DEF Drafts, Updated
<1>18. Updated(dr, "unknown", e["unknown"]) \in Drafts
  BY DEF Drafts, Updated
<1>19. Updated(dr, "failure", e["failure"]) \in Drafts
  BY DEF Drafts, Updated
<1>20. Updated(dr, "exit", e["exit"]) \in Drafts
  BY DEF Drafts, Updated
<1>21. Updated(dr, "overrides", e["overrides"]) \in Drafts
  BY DEF Drafts, Updated
<1> QED BY <1>1, <1>2, <1>3, <1>4, <1>5, <1>6, <1>7, <1>8, <1>9, <1>10, <1>11, <1>12, <1>13,
           <1>14, <1>15, <1>16, <1>17, <1>18, <1>19, <1>20, <1>21 DEF WrittenFields

\* An update, or a mark, leaves the other fields as they were.
LEMMA OthersKept ==
  ASSUME NEW dr \in Drafts, NEW f \in Fields, NEW v
  PROVE  /\ Updated(dr, f, v)[f] = v
         /\ \A g \in Fields : g # f => Updated(dr, f, v)[g] = dr[g]
BY DraftFields DEF Updated

\* A value of the right type can be taken from a draft.
LEMMA ValueTaken ==
  ASSUME NEW dr \in Drafts, NEW e \in Drafts, NEW f \in WrittenFields, NEW v, Updated(e, f, v) \in Drafts
  PROVE  Updated(dr, f, v) \in Drafts
<1> DEFINE u == Updated(e, f, v)
<1>1. f \in Fields
  BY DEF WrittenFields, Fields
<1>2. u[f] = v
  BY <1>1, OthersKept
<1> HIDE DEF u
<1>3. u \in Drafts
  BY DEF u
<1>4. Updated(dr, f, u[f]) \in Drafts
  BY <1>3, FieldTaken
<1> QED BY <1>2, <1>4

\* The empty draft is one.
LEMMA EmptyIsDraft == EmptyDraft \in Drafts
BY DEF Drafts, EmptyDraft, Shapes

\* A field takes a value of its type.
LEMMA LanguageTaken ==
  ASSUME NEW dr \in Drafts, NEW x \in Locales \cup {Unset}
  PROVE  Updated(dr, "language", x) \in Drafts
BY DEF Drafts, Updated

\* The same of a locale pack.
LEMMA PackTaken ==
  ASSUME NEW dr \in Drafts, NEW x \in Packs \cup {Unset}
  PROVE  Updated(dr, "pack", x) \in Drafts
BY DEF Drafts, Updated

\* The same of a voice.
LEMMA VoiceTaken ==
  ASSUME NEW dr \in Drafts, NEW x \in Voices \cup {Unset}
  PROVE  Updated(dr, "voice", x) \in Drafts
BY DEF Drafts, Updated

\* The same of the hooks.
LEMMA HooksTaken ==
  ASSUME NEW dr \in Drafts, NEW x \in SUBSET Hooks
  PROVE  Updated(dr, "hooks", x) \in Drafts
BY DEF Drafts, Updated

\* The same of the hand-off rules.
LEMMA HandoffsTaken ==
  ASSUME NEW dr \in Drafts, NEW x \in Seq([destination : BOOLEAN, context : SUBSET FieldNames])
  PROVE  Updated(dr, "handoffs", x) \in Drafts
BY DEF Drafts, Updated

\* The same of the objections.
LEMMA ObjectionsTaken ==
  ASSUME NEW dr \in Drafts, NEW x \in Seq(Statuses)
  PROVE  Updated(dr, "objections", x) \in Drafts
BY DEF Drafts, Updated

\* The same of the behaviour for unknown questions.
LEMMA DefaultTaken ==
  ASSUME NEW dr \in Drafts, NEW x \in Behaviors \cup {Unset}
  PROVE  Updated(dr, "default", x) \in Drafts
BY DEF Drafts, Updated

\* The same of its overrides.
LEMMA OverridesTaken ==
  ASSUME NEW dr \in Drafts, NEW x \in Seq([topic : BOOLEAN, behavior : Behaviors])
  PROVE  Updated(dr, "overrides", x) \in Drafts
BY DEF Drafts, Updated

\* The same of the rules of success.
LEMMA SuccessTaken ==
  ASSUME NEW dr \in Drafts, NEW x \in Seq(CompletionRules)
  PROVE  Updated(dr, "success", x) \in Drafts
BY DEF Drafts, Updated

\* The same of the rules of failure.
LEMMA FailureTaken ==
  ASSUME NEW dr \in Drafts, NEW x \in Seq(CompletionRules)
  PROVE  Updated(dr, "failure", x) \in Drafts
BY DEF Drafts, Updated

\* The same of the exit rules.
LEMMA ExitTaken ==
  ASSUME NEW dr \in Drafts, NEW x \in Seq(CompletionRules)
  PROVE  Updated(dr, "exit", x) \in Drafts
BY DEF Drafts, Updated

\* The same of the shape of the completion.
LEMMA CompletionTaken ==
  ASSUME NEW dr \in Drafts, NEW x \in Shapes
  PROVE  Updated(dr, "completion", x) \in Drafts
BY DEF Drafts, Updated

\* The same of the shape of the policy for unknown questions.
LEMMA UnknownTaken ==
  ASSUME NEW dr \in Drafts, NEW x \in Shapes
  PROVE  Updated(dr, "unknown", x) \in Drafts
BY DEF Drafts, Updated

\* The same of the opt-out.
LEMMA OptOutTaken ==
  ASSUME NEW dr \in Drafts, NEW b \in BOOLEAN
  PROVE  [dr EXCEPT !.opt_out = b] \in Drafts
BY DEF Drafts

\* The same of what spoils a draft.
LEMMA SpoiledTaken ==
  ASSUME NEW dr \in Drafts, NEW b \in BOOLEAN
  PROVE  [dr EXCEPT !.spoiled = b] \in Drafts
BY DEF Drafts

\* What is written has the type of its field: a draft stays one.
LEMMA WriteTyped ==
  ASSUME NEW dr \in Drafts, NEW path, NEW v,
         path \in Written => Write(EmptyDraft, path, v) \in Drafts
  PROVE  Write(dr, path, v) \in Drafts
<1> EmptyDraft \in Drafts
  BY EmptyIsDraft
<1>1. CASE path = <<"objective.primary">>
  <2>1. Updated(EmptyDraft, "objective", v) \in Drafts
    BY <1>1, Writes DEF Written
  <2>2. "objective" \in WrittenFields
    BY DEF WrittenFields
  <2>3. Updated(dr, "objective", v) \in Drafts
    BY <2>1, <2>2, ValueTaken
  <2> QED BY <1>1, <2>3, Writes
<1>2. CASE path = <<"direction">>
  <2>1. Updated(EmptyDraft, "direction", v) \in Drafts
    BY <1>2, Writes DEF Written
  <2>2. "direction" \in WrittenFields
    BY DEF WrittenFields
  <2>3. Updated(dr, "direction", v) \in Drafts
    BY <2>1, <2>2, ValueTaken
  <2> QED BY <1>2, <2>3, Writes
<1>3. CASE path = <<"channels">>
  <2>1. Updated(EmptyDraft, "channels", v) \in Drafts
    BY <1>3, Writes DEF Written
  <2>2. "channels" \in WrittenFields
    BY DEF WrittenFields
  <2>3. Updated(dr, "channels", v) \in Drafts
    BY <2>1, <2>2, ValueTaken
  <2> QED BY <1>3, <2>3, Writes
<1>4. CASE path = <<"locale">>
  <2>1. /\ Write(EmptyDraft, path, v) \in Drafts
        /\ Write(EmptyDraft, path, v) =
             Updated(Updated(Updated(EmptyDraft, "language", v), "pack", Unset), "voice", Unset)
    BY <1>4, Writes DEF Written
  <2>2. "language" \in WrittenFields /\ "pack" \in WrittenFields /\ "voice" \in WrittenFields
    BY DEF WrittenFields
  <2>3. v \in Locales \cup {Unset}
    <3> DEFINE a == Updated(EmptyDraft, "language", v)
               b == Updated(a, "pack", Unset)
               c == Updated(b, "voice", Unset)
    <3>1. c["language"] \in Locales \cup {Unset}
      BY <2>1 DEF Drafts
    <3>2. EmptyDraft = [g \in Fields |-> EmptyDraft[g]]
      BY DraftFields
    <3>3. "language" \in Fields
      BY DEF Fields
    <3>4. c["language"] = v
      BY <3>2, <3>3 DEF Updated
    <3> QED BY <3>1, <3>4
  <2>4. \A d \in Drafts : Updated(d, "language", v) \in Drafts
    BY <2>3, LanguageTaken
  <2> Unset \in Packs \cup {Unset} /\ Unset \in Voices \cup {Unset}
    OBVIOUS
  <2>5. \A d \in Drafts : Updated(d, "pack", Unset) \in Drafts
    BY PackTaken
  <2>6. \A d \in Drafts : Updated(d, "voice", Unset) \in Drafts
    BY VoiceTaken
  <2>7. Write(dr, path, v) = Updated(Updated(Updated(dr, "language", v), "pack", Unset), "voice", Unset)
    BY <1>4, Writes
  <2> QED BY <2>4, <2>5, <2>6, <2>7
<1>5. CASE path = <<"locale.locale_pack_ref">>
  <2>1. Updated(EmptyDraft, "pack", v) \in Drafts
    BY <1>5, Writes DEF Written
  <2>2. "pack" \in WrittenFields
    BY DEF WrittenFields
  <2>3. Updated(dr, "pack", v) \in Drafts
    BY <2>1, <2>2, ValueTaken
  <2> QED BY <1>5, <2>3, Writes
<1>6. CASE path = <<"locale.voice_profile_ref">>
  <2>1. Updated(EmptyDraft, "voice", v) \in Drafts
    BY <1>6, Writes DEF Written
  <2>2. "voice" \in WrittenFields
    BY DEF WrittenFields
  <2>3. Updated(dr, "voice", v) \in Drafts
    BY <2>1, <2>2, ValueTaken
  <2> QED BY <1>6, <2>3, Writes
<1>7. CASE path = <<"policies.contact_policy_hooks">>
  <2>1. SomeHooks \in SUBSET Hooks
    BY DEF SomeHooks, Hooks
  <2>2. Updated(dr, "hooks", SomeHooks) \in Drafts
    BY <2>1, HooksTaken
  <2> QED BY <1>7, <2>2, Writes
<1>8. CASE path = <<"data.required">>
  <2>1. Updated(EmptyDraft, "required", v) \in Drafts
    BY <1>8, Writes DEF Written
  <2>2. "required" \in WrittenFields
    BY DEF WrittenFields
  <2>3. Updated(dr, "required", v) \in Drafts
    BY <2>1, <2>2, ValueTaken
  <2> QED BY <1>8, <2>3, Writes
<1>9. CASE path = <<"knowledge.sources">>
  <2>1. Updated(EmptyDraft, "sources", v) \in Drafts
    BY <1>9, Writes DEF Written
  <2>2. "sources" \in WrittenFields
    BY DEF WrittenFields
  <2>3. Updated(dr, "sources", v) \in Drafts
    BY <2>1, <2>2, ValueTaken
  <2> QED BY <1>9, <2>3, Writes
<1>10. CASE path = <<"policies.unknown_question_policy.default">>
  <2>1. WithDefault(EmptyDraft, v) \in Drafts
    BY <1>10, Writes DEF Written
  <2>2. v \in Behaviors \cup {Unset}
    <3> DEFINE a == Updated(EmptyDraft, "default", v)
               b == Updated(a, "unknown", Mended(EmptyDraft.unknown))
    <3>1. b["default"] \in Behaviors \cup {Unset}
      BY <2>1 DEF Drafts, WithDefault
    <3>2. EmptyDraft = [g \in Fields |-> EmptyDraft[g]]
      BY DraftFields
    <3>3. "default" \in Fields
      BY DEF Fields
    <3>4. b["default"] = v
      BY <3>2, <3>3 DEF Updated
    <3> QED BY <3>1, <3>4
  <2>3. Mended(dr.unknown) \in Shapes
    BY DEF Drafts, Mended, Shapes
  <2>4. \A d \in Drafts : Updated(d, "default", v) \in Drafts
    BY <2>2, DefaultTaken
  <2>5. \A d \in Drafts : Updated(d, "unknown", Mended(dr.unknown)) \in Drafts
    BY <2>3, UnknownTaken
  <2>6. WithDefault(dr, v) \in Drafts
    BY <2>4, <2>5 DEF WithDefault
  <2> QED BY <1>10, <2>6, Writes
<1>11. CASE path = <<"policies.opt_out">>
  <2> TRUE \in BOOLEAN
    OBVIOUS
  <2>1. Marked(dr, "opt_out") \in Drafts
    BY OptOutTaken DEF Marked
  <2> QED BY <1>11, <2>1, Writes
<1>12. CASE path = <<"outcome_schema.primary">>
  <2>1. Updated(EmptyDraft, "outcomes", v) \in Drafts
    BY <1>12, Writes DEF Written
  <2>2. "outcomes" \in WrittenFields
    BY DEF WrittenFields
  <2>3. Updated(dr, "outcomes", v) \in Drafts
    BY <2>1, <2>2, ValueTaken
  <2> QED BY <1>12, <2>3, Writes
<1>13. CASE path = <<"completion.success_rules">>
  <2>1. WithRules(EmptyDraft, v) \in Drafts
    BY <1>13, Writes DEF Written
  <2>2. v \in Seq(CompletionRules)
    <3> DEFINE a == Updated(EmptyDraft, "success", v)
               b == Updated(a, "completion", Mended(EmptyDraft.completion))
    <3>1. b["success"] \in Seq(CompletionRules)
      BY <2>1 DEF Drafts, WithRules
    <3>2. EmptyDraft = [g \in Fields |-> EmptyDraft[g]]
      BY DraftFields
    <3>3. "success" \in Fields
      BY DEF Fields
    <3>4. b["success"] = v
      BY <3>2, <3>3 DEF Updated
    <3> QED BY <3>1, <3>4
  <2>3. Mended(dr.completion) \in Shapes
    BY DEF Drafts, Mended, Shapes
  <2>4. \A d \in Drafts : Updated(d, "success", v) \in Drafts
    BY <2>2, SuccessTaken
  <2>5. \A d \in Drafts : Updated(d, "completion", Mended(dr.completion)) \in Drafts
    BY <2>3, CompletionTaken
  <2>6. WithRules(dr, v) \in Drafts
    BY <2>4, <2>5 DEF WithRules
  <2> QED BY <1>13, <2>6, Writes
<1>14. CASE path = <<"handoff_rules">>
  <2>1. SomeHandoff \in Seq([destination : BOOLEAN, context : SUBSET FieldNames])
    BY DEF SomeHandoff
  <2>2. Updated(dr, "handoffs", SomeHandoff) \in Drafts
    BY <2>1, HandoffsTaken
  <2> QED BY <1>14, <2>2, Writes
<1>15. CASE path = <<"coverage.objections">>
  <2>1. SomeObjection \in Seq(Statuses)
    BY DEF SomeObjection, Statuses
  <2>2. Updated(dr, "objections", SomeObjection) \in Drafts
    BY <2>1, ObjectionsTaken
  <2> QED BY <1>15, <2>2, Writes
<1>16. CASE path = <<"completion">>
  <2> <<>> \in Seq(CompletionRules) /\ "text" \in Shapes
    BY DEF Shapes
  <2>1. \A d \in Drafts : Updated(d, "success", <<>>) \in Drafts
    BY SuccessTaken
  <2>2. \A d \in Drafts : Updated(d, "failure", <<>>) \in Drafts
    BY FailureTaken
  <2>3. \A d \in Drafts : Updated(d, "exit", <<>>) \in Drafts
    BY ExitTaken
  <2>4. \A d \in Drafts : Updated(d, "completion", "text") \in Drafts
    BY CompletionTaken
  <2>5. CompletionText(dr) \in Drafts
    BY <2>1, <2>2, <2>3, <2>4 DEF CompletionText
  <2> QED BY <1>16, <2>5, Writes
<1>17. CASE path = <<"policies.unknown_question_policy">>
  <2> <<>> \in Seq([topic : BOOLEAN, behavior : Behaviors]) /\ "text" \in Shapes
    BY DEF Shapes
  <2> Unset \in Behaviors \cup {Unset}
    OBVIOUS
  <2>1. \A d \in Drafts : Updated(d, "default", Unset) \in Drafts
    BY DefaultTaken
  <2>2. \A d \in Drafts : Updated(d, "overrides", <<>>) \in Drafts
    BY OverridesTaken
  <2>3. \A d \in Drafts : Updated(d, "unknown", "text") \in Drafts
    BY UnknownTaken
  <2>4. UnknownText(dr) \in Drafts
    BY <2>1, <2>2, <2>3 DEF UnknownText
  <2> QED BY <1>17, <2>4, Writes
<1>18. CASE CompletionKey(path)
  <2>1. "extra" \in Shapes
    BY DEF Shapes
  <2>2. Updated(dr, "completion", "extra") \in Drafts
    BY <2>1, CompletionTaken
  <2> QED BY <1>18, <2>2, Writes
<1>19. CASE UnknownKey(path)
  <2>1. "extra" \in Shapes
    BY DEF Shapes
  <2>2. Updated(dr, "unknown", "extra") \in Drafts
    BY <2>1, UnknownTaken
  <2> QED BY <1>19, <2>2, Writes
<1>20. CASE path \notin Writable /\ ~CompletionKey(path) /\ ~UnknownKey(path)
  <2> TRUE \in BOOLEAN
    OBVIOUS
  <2>1. Marked(dr, "spoiled") \in Drafts
    BY SpoiledTaken DEF Marked
  <2> QED BY <1>20, <2>1, Writes
<1> QED BY <1>1, <1>2, <1>3, <1>4, <1>5, <1>6, <1>7, <1>8, <1>9, <1>10, <1>11, <1>12, <1>13,
           <1>14, <1>15, <1>16, <1>17, <1>18, <1>19, <1>20 DEF Writable, Written

\* The fields a section is told by.
FieldsOf(r) ==
  CASE r = "objective" -> {"objective"}
    [] r = "completion" -> {"success", "failure", "exit", "completion"}
    [] r = "coverage" -> {"questions", "objections"}
    [] r = "outcome_schema" -> {"outcomes", "fields"}
    [] r = "policies.unknown_question_policy" -> {"default", "unknown"}
    [] r = "policies.allowed_claims" -> {"allowed"}
    [] r = "policies.prohibited_claims" -> {"prohibited"}
    [] r = "policies.escalation" -> {"escalation"}
    [] r = "policies.opt_out" -> {"opt_out"}
    [] r = "policies.contact_policy_hooks" -> {"hooks"}
    [] r = "handoff_rules" -> {"handoffs"}
    [] r = "data.required" -> {"required"}
    [] r = "data.optional" -> {"optional"}
    [] r = "tools.permissions" -> {"permissions"}

\* Two drafts that differ in these fields only.
ApartIn(w, dr, fs) == \A g \in Fields : g \notin fs => w[g] = dr[g]

\* A draft that differs in some fields says more only in the section of one of them.
LEMMA SaysByFields ==
  ASSUME NEW dr, NEW w, NEW fs, ApartIn(w, dr, fs),
         NEW r \in DOMAIN Sections, Says(w, r), ~Says(dr, r)
  PROVE  \E f \in fs : f \in FieldsOf(r)
<1>1. SUFFICES ASSUME \A f \in fs : f \notin FieldsOf(r) PROVE FALSE
  OBVIOUS
<1>2. FieldsOf(r) \subseteq Fields => \A g \in FieldsOf(r) : w[g] = dr[g]
  BY <1>1 DEF ApartIn
<1>3. CASE r = "objective"
  <2>1. FieldsOf(r) = {"objective"}
    BY <1>3 DEF FieldsOf
  <2>2. FieldsOf(r) \subseteq Fields
    BY <2>1 DEF Fields
  <2>3. w.objective = dr.objective
    BY <1>2, <2>1, <2>2
  <2> QED BY <1>3, <2>3 DEF Says
<1>4. CASE r = "completion"
  <2>1. FieldsOf(r) = {"success", "failure", "exit", "completion"}
    BY <1>4 DEF FieldsOf
  <2>2. FieldsOf(r) \subseteq Fields
    BY <2>1 DEF Fields
  <2>3. /\ w.success = dr.success /\ w.failure = dr.failure /\ w.exit = dr.exit
        /\ w.completion = dr.completion
    BY <1>2, <2>1, <2>2
  <2> QED BY <1>4, <2>3 DEF Says
<1>5. CASE r = "coverage"
  <2>1. FieldsOf(r) = {"questions", "objections"}
    BY <1>5 DEF FieldsOf
  <2>2. FieldsOf(r) \subseteq Fields
    BY <2>1 DEF Fields
  <2>3. w.questions = dr.questions /\ w.objections = dr.objections
    BY <1>2, <2>1, <2>2
  <2> QED BY <1>5, <2>3 DEF Says
<1>6. CASE r = "outcome_schema"
  <2>1. FieldsOf(r) = {"outcomes", "fields"}
    BY <1>6 DEF FieldsOf
  <2>2. FieldsOf(r) \subseteq Fields
    BY <2>1 DEF Fields
  <2>3. w.outcomes = dr.outcomes /\ w.fields = dr.fields
    BY <1>2, <2>1, <2>2
  <2> QED BY <1>6, <2>3 DEF Says
<1>7. CASE r = "policies.unknown_question_policy"
  <2>1. FieldsOf(r) = {"default", "unknown"}
    BY <1>7 DEF FieldsOf
  <2>2. FieldsOf(r) \subseteq Fields
    BY <2>1 DEF Fields
  <2>3. w.default = dr.default /\ w.unknown = dr.unknown
    BY <1>2, <2>1, <2>2
  <2> QED BY <1>7, <2>3 DEF Says
<1>8. CASE r = "policies.allowed_claims"
  <2>1. FieldsOf(r) = {"allowed"}
    BY <1>8 DEF FieldsOf
  <2>2. FieldsOf(r) \subseteq Fields
    BY <2>1 DEF Fields
  <2>3. w.allowed = dr.allowed
    BY <1>2, <2>1, <2>2
  <2> QED BY <1>8, <2>3 DEF Says
<1>9. CASE r = "policies.prohibited_claims"
  <2>1. FieldsOf(r) = {"prohibited"}
    BY <1>9 DEF FieldsOf
  <2>2. FieldsOf(r) \subseteq Fields
    BY <2>1 DEF Fields
  <2>3. w.prohibited = dr.prohibited
    BY <1>2, <2>1, <2>2
  <2> QED BY <1>9, <2>3 DEF Says
<1>10. CASE r = "policies.escalation"
  <2>1. FieldsOf(r) = {"escalation"}
    BY <1>10 DEF FieldsOf
  <2>2. FieldsOf(r) \subseteq Fields
    BY <2>1 DEF Fields
  <2>3. w.escalation = dr.escalation
    BY <1>2, <2>1, <2>2
  <2> QED BY <1>10, <2>3 DEF Says
<1>11. CASE r = "policies.opt_out"
  <2>1. FieldsOf(r) = {"opt_out"}
    BY <1>11 DEF FieldsOf
  <2>2. FieldsOf(r) \subseteq Fields
    BY <2>1 DEF Fields
  <2>3. w.opt_out = dr.opt_out
    BY <1>2, <2>1, <2>2
  <2> QED BY <1>11, <2>3 DEF Says
<1>12. CASE r = "policies.contact_policy_hooks"
  <2>1. FieldsOf(r) = {"hooks"}
    BY <1>12 DEF FieldsOf
  <2>2. FieldsOf(r) \subseteq Fields
    BY <2>1 DEF Fields
  <2>3. w.hooks = dr.hooks
    BY <1>2, <2>1, <2>2
  <2> QED BY <1>12, <2>3 DEF Says
<1>13. CASE r = "handoff_rules"
  <2>1. FieldsOf(r) = {"handoffs"}
    BY <1>13 DEF FieldsOf
  <2>2. FieldsOf(r) \subseteq Fields
    BY <2>1 DEF Fields
  <2>3. w.handoffs = dr.handoffs
    BY <1>2, <2>1, <2>2
  <2> QED BY <1>13, <2>3 DEF Says
<1>14. CASE r = "data.required"
  <2>1. FieldsOf(r) = {"required"}
    BY <1>14 DEF FieldsOf
  <2>2. FieldsOf(r) \subseteq Fields
    BY <2>1 DEF Fields
  <2>3. w.required = dr.required
    BY <1>2, <2>1, <2>2
  <2> QED BY <1>14, <2>3 DEF Says
<1>15. CASE r = "data.optional"
  <2>1. FieldsOf(r) = {"optional"}
    BY <1>15 DEF FieldsOf
  <2>2. FieldsOf(r) \subseteq Fields
    BY <2>1 DEF Fields
  <2>3. w.optional = dr.optional
    BY <1>2, <2>1, <2>2
  <2> QED BY <1>15, <2>3 DEF Says
<1>16. CASE r = "tools.permissions"
  <2>1. FieldsOf(r) = {"permissions"}
    BY <1>16 DEF FieldsOf
  <2>2. FieldsOf(r) \subseteq Fields
    BY <2>1 DEF Fields
  <2>3. w.permissions = dr.permissions
    BY <1>2, <2>1, <2>2
  <2> QED BY <1>16, <2>3 DEF Says
<1> QED BY <1>3, <1>4, <1>5, <1>6, <1>7, <1>8, <1>9, <1>10, <1>11, <1>12, <1>13, <1>14, <1>15,
           <1>16 DEF Sections

\* The default of the unknown questions is taken by the uncertainty policy.
LEMMA UncertaintyTaken ==
  ASSUME NEW dr \in Drafts, NEW x \in Behaviors \cup {Unset}
  PROVE  [dr EXCEPT !.uncertainty = x] \in Drafts
BY DEF Drafts

\* The section of a field that an answer changes, if it has one.
LEMMA SectionTold ==
  ASSUME NEW r \in DOMAIN Sections, NEW f \in WrittenFields, f \in FieldsOf(r)
  PROVE  \/ f = "objective" /\ r = "objective"
         \/ f = "hooks" /\ r = "policies.contact_policy_hooks"
         \/ f = "required" /\ r = "data.required"
         \/ f \in {"default", "unknown"} /\ r = "policies.unknown_question_policy"
         \/ f = "opt_out" /\ r = "policies.opt_out"
         \/ f = "outcomes" /\ r = "outcome_schema"
         \/ f \in {"success", "failure", "exit", "completion"} /\ r = "completion"
         \/ f = "handoffs" /\ r = "handoff_rules"
         \/ f = "objections" /\ r = "coverage"
<1>1. CASE r = "objective"
  BY <1>1 DEF FieldsOf, WrittenFields
<1>2. CASE r = "completion"
  BY <1>2 DEF FieldsOf, WrittenFields
<1>3. CASE r = "coverage"
  BY <1>3 DEF FieldsOf, WrittenFields
<1>4. CASE r = "outcome_schema"
  BY <1>4 DEF FieldsOf, WrittenFields
<1>5. CASE r = "policies.unknown_question_policy"
  BY <1>5 DEF FieldsOf, WrittenFields
<1>6. CASE r = "policies.allowed_claims"
  BY <1>6 DEF FieldsOf, WrittenFields
<1>7. CASE r = "policies.prohibited_claims"
  BY <1>7 DEF FieldsOf, WrittenFields
<1>8. CASE r = "policies.escalation"
  BY <1>8 DEF FieldsOf, WrittenFields
<1>9. CASE r = "policies.opt_out"
  BY <1>9 DEF FieldsOf, WrittenFields
<1>10. CASE r = "policies.contact_policy_hooks"
  BY <1>10 DEF FieldsOf, WrittenFields
<1>11. CASE r = "handoff_rules"
  BY <1>11 DEF FieldsOf, WrittenFields
<1>12. CASE r = "data.required"
  BY <1>12 DEF FieldsOf, WrittenFields
<1>13. CASE r = "data.optional"
  BY <1>13 DEF FieldsOf, WrittenFields
<1>14. CASE r = "tools.permissions"
  BY <1>14 DEF FieldsOf, WrittenFields
<1> QED BY <1>1, <1>2, <1>3, <1>4, <1>5, <1>6, <1>7, <1>8, <1>9, <1>10, <1>11, <1>12, <1>13,
           <1>14 DEF Sections

\* The path of a hole stands in the section of its field.
LEMMA SectionStands ==
  /\ "objective.primary" \in Sections["objective"]
  /\ "policies.contact_policy_hooks" \in Sections["policies.contact_policy_hooks"]
  /\ "data.required" \in Sections["data.required"]
  /\ "policies.unknown_question_policy.default" \in Sections["policies.unknown_question_policy"]
  /\ "policies.opt_out" \in Sections["policies.opt_out"]
  /\ "outcome_schema.primary" \in Sections["outcome_schema"]
  /\ "completion.success_rules" \in Sections["completion"]
  /\ "completion" \in Sections["completion"]
  /\ "policies.unknown_question_policy" \in Sections["policies.unknown_question_policy"]
  /\ "handoff_rules" \in Sections["handoff_rules"]
  /\ "coverage.objections" \in Sections["coverage"]
BY DEF Sections

\* What WithDefault changes.
LEMMA WithDefaultApart ==
  ASSUME NEW dr \in Drafts, NEW v
  PROVE  ApartIn(WithDefault(dr, v), dr, {"default", "unknown"})
<1> DEFINE a == Updated(dr, "default", v)
<1>1. WithDefault(dr, v) = Updated(a, "unknown", Mended(dr.unknown))
  BY DEF WithDefault
<1>2. DOMAIN a = Fields
  BY DraftFields DEF Updated
<1> QED BY <1>1, <1>2, DraftFields DEF Updated, ApartIn

\* What WithRules changes.
LEMMA WithRulesApart ==
  ASSUME NEW dr \in Drafts, NEW v
  PROVE  ApartIn(WithRules(dr, v), dr, {"success", "completion"})
<1> DEFINE a == Updated(dr, "success", v)
<1>1. WithRules(dr, v) = Updated(a, "completion", Mended(dr.completion))
  BY DEF WithRules
<1>2. DOMAIN a = Fields
  BY DraftFields DEF Updated
<1> QED BY <1>1, <1>2, DraftFields DEF Updated, ApartIn

\* What CompletionText changes.
LEMMA CompletionTextApart ==
  ASSUME NEW dr \in Drafts
  PROVE  ApartIn(CompletionText(dr), dr, {"success", "failure", "exit", "completion"})
<1> DEFINE a == Updated(dr, "success", <<>>)
           b == Updated(a, "failure", <<>>)
           c == Updated(b, "exit", <<>>)
<1>1. CompletionText(dr) = Updated(c, "completion", "text")
  BY DEF CompletionText
<1>2. DOMAIN a = Fields /\ DOMAIN b = Fields /\ DOMAIN c = Fields
  BY DraftFields DEF Updated
<1> QED BY <1>1, <1>2, DraftFields DEF Updated, ApartIn

\* What UnknownText changes.
LEMMA UnknownTextApart ==
  ASSUME NEW dr \in Drafts
  PROVE  ApartIn(UnknownText(dr), dr, {"default", "overrides", "unknown"})
<1> DEFINE a == Updated(dr, "default", Unset)
           b == Updated(a, "overrides", <<>>)
<1>1. UnknownText(dr) = Updated(b, "unknown", "text")
  BY DEF UnknownText
<1>2. DOMAIN a = Fields /\ DOMAIN b = Fields
  BY DraftFields DEF Updated
<1> QED BY <1>1, <1>2, DraftFields DEF Updated, ApartIn

\* What an answer makes a section say stands under the path of the answer.
LEMMA SaysWhatIsWritten ==
  ASSUME NEW dr \in Drafts, NEW path, NEW v, NEW r \in DOMAIN Sections,
         Says(Write(dr, path, v), r), ~Says(dr, r)
  PROVE  InSection(path, r)
<1> DEFINE w == Write(dr, path, v)
<1> WrittenFields \subseteq Fields
  BY DEF WrittenFields, Fields
<1>0. ASSUME NEW f \in WrittenFields, \A g \in Fields : g # f => w[g] = dr[g]
      PROVE  f \in FieldsOf(r)
  <2>1. ApartIn(w, dr, {f})
    BY <1>0 DEF ApartIn
  <2> HIDE DEF w
  <2>2. Says(w, r)
    BY DEF w
  <2>3. \E g \in {f} : g \in FieldsOf(r)
    BY <2>1, <2>2, SaysByFields
  <2> QED BY <2>3
<1>00. ASSUME NEW fs, ApartIn(w, dr, fs) PROVE \E f \in fs : f \in FieldsOf(r)
  <2>1. Says(w, r)
    OBVIOUS
  <2> HIDE DEF w
  <2> QED BY <1>00, <2>1, SaysByFields
<1>1. CASE path = <<"objective.primary">>
  <2>1. "objective" \in WrittenFields
    BY DEF WrittenFields
  <2> Updated(dr, "objective", v) = w
    BY <1>1, Writes
  <2>2. \A g \in Fields : g # "objective" => w[g] = dr[g]
    BY <2>1, OthersKept
  <2>3. "objective" \in FieldsOf(r)
    BY <1>0, <2>1, <2>2
  <2>4. r = "objective"
    BY <2>1, <2>3, SectionTold
  <2>5. path[1] \in Sections[r] /\ Len(path) = 1
    BY <1>1, <2>4, SectionStands
  <2> QED BY <2>5 DEF InSection
<1>2. CASE path = <<"direction">>
  <2>1. "direction" \in WrittenFields
    BY DEF WrittenFields
  <2> Updated(dr, "direction", v) = w
    BY <1>2, Writes
  <2>2. \A g \in Fields : g # "direction" => w[g] = dr[g]
    BY <2>1, OthersKept
  <2>3. "direction" \in FieldsOf(r)
    BY <1>0, <2>1, <2>2
  <2> QED BY <2>1, <2>3, SectionTold
<1>3. CASE path = <<"channels">>
  <2>1. "channels" \in WrittenFields
    BY DEF WrittenFields
  <2> Updated(dr, "channels", v) = w
    BY <1>3, Writes
  <2>2. \A g \in Fields : g # "channels" => w[g] = dr[g]
    BY <2>1, OthersKept
  <2>3. "channels" \in FieldsOf(r)
    BY <1>0, <2>1, <2>2
  <2> QED BY <2>1, <2>3, SectionTold
<1>4. CASE path = <<"locale">>
  <2> DEFINE a == Updated(dr, "language", v)
             b == Updated(a, "pack", Unset)
  <2>1. w = Updated(b, "voice", Unset)
    BY <1>4, Writes
  <2>2. DOMAIN a = Fields /\ DOMAIN b = Fields
    BY DraftFields DEF Updated
  <2>3. ApartIn(w, dr, {"language", "pack", "voice"})
    BY <2>1, <2>2, DraftFields DEF Updated, ApartIn
  <2>4. "language" \notin FieldsOf(r) /\ "pack" \notin FieldsOf(r) /\ "voice" \notin FieldsOf(r)
    BY SectionTold DEF WrittenFields
  <2>5. \E f \in {"language", "pack", "voice"} : f \in FieldsOf(r)
    BY <2>3, SaysByFields
  <2> QED BY <2>4, <2>5
<1>5. CASE path = <<"locale.locale_pack_ref">>
  <2>1. "pack" \in WrittenFields
    BY DEF WrittenFields
  <2> Updated(dr, "pack", v) = w
    BY <1>5, Writes
  <2>2. \A g \in Fields : g # "pack" => w[g] = dr[g]
    BY <2>1, OthersKept
  <2>3. "pack" \in FieldsOf(r)
    BY <1>0, <2>1, <2>2
  <2> QED BY <2>1, <2>3, SectionTold
<1>6. CASE path = <<"locale.voice_profile_ref">>
  <2>1. "voice" \in WrittenFields
    BY DEF WrittenFields
  <2> Updated(dr, "voice", v) = w
    BY <1>6, Writes
  <2>2. \A g \in Fields : g # "voice" => w[g] = dr[g]
    BY <2>1, OthersKept
  <2>3. "voice" \in FieldsOf(r)
    BY <1>0, <2>1, <2>2
  <2> QED BY <2>1, <2>3, SectionTold
<1>7. CASE path = <<"policies.contact_policy_hooks">>
  <2>1. "hooks" \in WrittenFields
    BY DEF WrittenFields
  <2> Updated(dr, "hooks", SomeHooks) = w
    BY <1>7, Writes
  <2>2. \A g \in Fields : g # "hooks" => w[g] = dr[g]
    BY <2>1, OthersKept
  <2>3. "hooks" \in FieldsOf(r)
    BY <1>0, <2>1, <2>2
  <2>4. r = "policies.contact_policy_hooks"
    BY <2>1, <2>3, SectionTold
  <2>5. path[1] \in Sections[r] /\ Len(path) = 1
    BY <1>7, <2>4, SectionStands
  <2> QED BY <2>5 DEF InSection
<1>8. CASE path = <<"data.required">>
  <2>1. "required" \in WrittenFields
    BY DEF WrittenFields
  <2> Updated(dr, "required", v) = w
    BY <1>8, Writes
  <2>2. \A g \in Fields : g # "required" => w[g] = dr[g]
    BY <2>1, OthersKept
  <2>3. "required" \in FieldsOf(r)
    BY <1>0, <2>1, <2>2
  <2>4. r = "data.required"
    BY <2>1, <2>3, SectionTold
  <2>5. path[1] \in Sections[r] /\ Len(path) = 1
    BY <1>8, <2>4, SectionStands
  <2> QED BY <2>5 DEF InSection
<1>9. CASE path = <<"knowledge.sources">>
  <2>1. "sources" \in WrittenFields
    BY DEF WrittenFields
  <2> Updated(dr, "sources", v) = w
    BY <1>9, Writes
  <2>2. \A g \in Fields : g # "sources" => w[g] = dr[g]
    BY <2>1, OthersKept
  <2>3. "sources" \in FieldsOf(r)
    BY <1>0, <2>1, <2>2
  <2> QED BY <2>1, <2>3, SectionTold
<1>10. CASE path = <<"policies.unknown_question_policy.default">>
  <2>1. ApartIn(w, dr, {"default", "unknown"})
    BY <1>10, Writes, WithDefaultApart
  <2>2. r = "policies.unknown_question_policy"
    BY <1>00, <2>1, SectionTold DEF WrittenFields
  <2>3. path[1] \in Sections[r] /\ Len(path) = 1
    BY <1>10, <2>2, SectionStands
  <2> QED BY <2>3 DEF InSection
<1>11. CASE path = <<"policies.opt_out">>
  <2>1. "opt_out" \in WrittenFields
    BY DEF WrittenFields
  <2> Marked(dr, "opt_out") = w
    BY <1>11, Writes
  <2>2. \A g \in Fields : g # "opt_out" => w[g] = dr[g]
    BY <1>11, <2>1, Writes, DraftFields DEF Marked
  <2>3. "opt_out" \in FieldsOf(r)
    BY <1>0, <2>1, <2>2
  <2>4. r = "policies.opt_out"
    BY <2>1, <2>3, SectionTold
  <2>5. path[1] \in Sections[r] /\ Len(path) = 1
    BY <1>11, <2>4, SectionStands
  <2> QED BY <2>5 DEF InSection
<1>12. CASE path = <<"outcome_schema.primary">>
  <2>1. "outcomes" \in WrittenFields
    BY DEF WrittenFields
  <2> Updated(dr, "outcomes", v) = w
    BY <1>12, Writes
  <2>2. \A g \in Fields : g # "outcomes" => w[g] = dr[g]
    BY <2>1, OthersKept
  <2>3. "outcomes" \in FieldsOf(r)
    BY <1>0, <2>1, <2>2
  <2>4. r = "outcome_schema"
    BY <2>1, <2>3, SectionTold
  <2>5. path[1] \in Sections[r] /\ Len(path) = 1
    BY <1>12, <2>4, SectionStands
  <2> QED BY <2>5 DEF InSection
<1>13. CASE path = <<"completion.success_rules">>
  <2>1. ApartIn(w, dr, {"success", "completion"})
    BY <1>13, Writes, WithRulesApart
  <2>2. r = "completion"
    BY <1>00, <2>1, SectionTold DEF WrittenFields
  <2>3. path[1] \in Sections[r] /\ Len(path) = 1
    BY <1>13, <2>2, SectionStands
  <2> QED BY <2>3 DEF InSection
<1>14. CASE path = <<"handoff_rules">>
  <2>1. "handoffs" \in WrittenFields
    BY DEF WrittenFields
  <2> Updated(dr, "handoffs", SomeHandoff) = w
    BY <1>14, Writes
  <2>2. \A g \in Fields : g # "handoffs" => w[g] = dr[g]
    BY <2>1, OthersKept
  <2>3. "handoffs" \in FieldsOf(r)
    BY <1>0, <2>1, <2>2
  <2>4. r = "handoff_rules"
    BY <2>1, <2>3, SectionTold
  <2>5. path[1] \in Sections[r] /\ Len(path) = 1
    BY <1>14, <2>4, SectionStands
  <2> QED BY <2>5 DEF InSection
<1>15. CASE path = <<"coverage.objections">>
  <2>1. "objections" \in WrittenFields
    BY DEF WrittenFields
  <2> Updated(dr, "objections", SomeObjection) = w
    BY <1>15, Writes
  <2>2. \A g \in Fields : g # "objections" => w[g] = dr[g]
    BY <2>1, OthersKept
  <2>3. "objections" \in FieldsOf(r)
    BY <1>0, <2>1, <2>2
  <2>4. r = "coverage"
    BY <2>1, <2>3, SectionTold
  <2>5. path[1] \in Sections[r] /\ Len(path) = 1
    BY <1>15, <2>4, SectionStands
  <2> QED BY <2>5 DEF InSection
<1>16. CASE path = <<"completion">>
  <2>1. ApartIn(w, dr, {"success", "failure", "exit", "completion"})
    BY <1>16, Writes, CompletionTextApart
  <2>2. r = "completion"
    BY <1>00, <2>1, SectionTold DEF WrittenFields
  <2>3. path[1] \in Sections[r] /\ Len(path) = 1
    BY <1>16, <2>2, SectionStands
  <2> QED BY <2>3 DEF InSection
<1>17. CASE path = <<"policies.unknown_question_policy">>
  <2>1. ApartIn(w, dr, {"default", "overrides", "unknown"})
    BY <1>17, Writes, UnknownTextApart
  <2>2. r = "policies.unknown_question_policy"
    BY <1>00, <2>1, SectionTold DEF WrittenFields
  <2>3. path[1] \in Sections[r] /\ Len(path) = 1
    BY <1>17, <2>2, SectionStands
  <2> QED BY <2>3 DEF InSection
<1>18. CASE CompletionKey(path)
  <2>1. "completion" \in WrittenFields
    BY DEF WrittenFields
  <2> Updated(dr, "completion", "extra") = w
    BY <1>18, Writes
  <2>2. \A g \in Fields : g # "completion" => w[g] = dr[g]
    BY <2>1, OthersKept
  <2>3. "completion" \in FieldsOf(r)
    BY <1>0, <2>1, <2>2
  <2>4. r = "completion"
    BY <2>1, <2>3, SectionTold
  <2>5. path[1] \in Sections[r] /\ r \notin NotIndexed
    BY <1>18, <2>4 DEF CompletionKey, NotIndexed
  <2> QED BY <2>5 DEF InSection
<1>19. CASE UnknownKey(path)
  <2>1. "unknown" \in WrittenFields
    BY DEF WrittenFields
  <2> Updated(dr, "unknown", "extra") = w
    BY <1>19, Writes
  <2>2. \A g \in Fields : g # "unknown" => w[g] = dr[g]
    BY <2>1, OthersKept
  <2>3. "unknown" \in FieldsOf(r)
    BY <1>0, <2>1, <2>2
  <2>4. r = "policies.unknown_question_policy"
    BY <2>1, <2>3, SectionTold
  <2>5. path[1] \in Sections[r] /\ r \notin NotIndexed
    BY <1>19, <2>4 DEF UnknownKey, NotIndexed
  <2> QED BY <2>5 DEF InSection
<1>20. CASE path \notin Writable /\ ~CompletionKey(path) /\ ~UnknownKey(path)
  <2>1. "spoiled" \in WrittenFields
    BY DEF WrittenFields
  <2> Marked(dr, "spoiled") = w
    BY <1>20, Writes
  <2>2. \A g \in Fields : g # "spoiled" => w[g] = dr[g]
    BY <1>20, <2>1, Writes, DraftFields DEF Marked
  <2>3. "spoiled" \in FieldsOf(r)
    BY <1>0, <2>1, <2>2
  <2> QED BY <2>1, <2>3, SectionTold
<1> QED BY <1>1, <1>2, <1>3, <1>4, <1>5, <1>6, <1>7, <1>8, <1>9, <1>10, <1>11, <1>12, <1>13,
           <1>14, <1>15, <1>16, <1>17, <1>18, <1>19, <1>20 DEF Writable, Written

\* What scaffolding adds says nothing, and leaves what the other parts of the draft say.
LEMMA Scaffolded ==
  ASSUME NEW dr \in Drafts
  PROVE  /\ Scaffold(dr) \in Drafts
         /\ Scaffold(dr).permissions = dr.permissions
         /\ Scaffold(dr).hooks = dr.hooks
         /\ Scaffold(dr).spoiled = dr.spoiled
         /\ \A r \in DOMAIN Sections : Says(Scaffold(dr), r) => Says(dr, r)
<1> DEFINE u == [dr EXCEPT !.uncertainty = dr.default]
<1>1. u \in Drafts
  <2>1. dr.default \in Behaviors \cup {Unset}
    BY DEF Drafts
  <2> QED BY <2>1, UncertaintyTaken
<1>2. u = Updated(dr, "uncertainty", dr.default)
  BY DEF Updated
<1>3. "uncertainty" \in Fields /\ "permissions" \in Fields /\ "hooks" \in Fields /\ "spoiled" \in Fields
  BY DEF Fields
<1>4. \A g \in Fields : g # "uncertainty" => u[g] = dr[g]
  BY <1>2, <1>3, OthersKept
<1>5. Scaffold(dr) = u \/ Scaffold(dr) = dr
  BY DEF Scaffold
<1> HIDE DEF u
<1>6. u.permissions = dr.permissions /\ u.hooks = dr.hooks /\ u.spoiled = dr.spoiled
  BY <1>3, <1>4
<1>7. ASSUME NEW r \in DOMAIN Sections, Says(u, r), ~Says(dr, r) PROVE FALSE
  <2>0. ApartIn(u, dr, {"uncertainty"})
    BY <1>4 DEF ApartIn
  <2>1. \E f \in {"uncertainty"} : f \in FieldsOf(r)
    BY <1>7, <2>0, SaysByFields
  <2> QED BY <2>1 DEF FieldsOf, Sections
<1> QED BY <1>1, <1>5, <1>6, <1>7

\* An answer leaves the permissions, takes no hooks away and cleans nothing; one that points at a
\* permission spoils the draft.
LEMMA WriteKeeps ==
  ASSUME NEW dr \in Drafts, NEW path, NEW v
  PROVE  LET w == Write(dr, path, v)
         IN /\ w.permissions = dr.permissions
            /\ dr.hooks # {} => w.hooks # {}
            /\ dr.spoiled => w.spoiled
            /\ path[1] = "tools.permissions" => w.spoiled
<1> DEFINE w == Write(dr, path, v)
<1>0. {"permissions", "hooks", "spoiled", "opt_out"} \cup WrittenFields \subseteq Fields
  BY DEF Fields, WrittenFields
<1>1. CASE path = <<"objective.primary">>
  <2>1. "objective" \in Fields
    BY DEF Fields
  <2> Updated(dr, "objective", v) = w
    BY <1>1, Writes
  <2>2. w["objective"] = v /\ \A g \in Fields : g # "objective" => w[g] = dr[g]
    BY <2>1, OthersKept
  <2> HIDE DEF w
  <2>3. w.permissions = dr.permissions /\ w.hooks = dr.hooks /\ w.spoiled = dr.spoiled
    BY <1>0, <2>2
  <2> QED BY <1>1, <2>3 DEF w
<1>2. CASE path = <<"direction">>
  <2>1. "direction" \in Fields
    BY DEF Fields
  <2> Updated(dr, "direction", v) = w
    BY <1>2, Writes
  <2>2. w["direction"] = v /\ \A g \in Fields : g # "direction" => w[g] = dr[g]
    BY <2>1, OthersKept
  <2> HIDE DEF w
  <2>3. w.permissions = dr.permissions /\ w.hooks = dr.hooks /\ w.spoiled = dr.spoiled
    BY <1>0, <2>2
  <2> QED BY <1>2, <2>3 DEF w
<1>3. CASE path = <<"channels">>
  <2>1. "channels" \in Fields
    BY DEF Fields
  <2> Updated(dr, "channels", v) = w
    BY <1>3, Writes
  <2>2. w["channels"] = v /\ \A g \in Fields : g # "channels" => w[g] = dr[g]
    BY <2>1, OthersKept
  <2> HIDE DEF w
  <2>3. w.permissions = dr.permissions /\ w.hooks = dr.hooks /\ w.spoiled = dr.spoiled
    BY <1>0, <2>2
  <2> QED BY <1>3, <2>3 DEF w
<1>4. CASE path = <<"locale">>
  <2> DEFINE a == Updated(dr, "language", v)
             b == Updated(a, "pack", Unset)
  <2>1. w = Updated(b, "voice", Unset)
    BY <1>4, Writes
  <2>2. DOMAIN a = Fields /\ DOMAIN b = Fields
    BY DraftFields DEF Updated
  <2>3. \A g \in Fields : g \notin {"language", "pack", "voice"} => w[g] = dr[g]
    BY <2>1, <2>2, DraftFields DEF Updated
  <2> QED BY <1>0, <1>4, <2>3
<1>5. CASE path = <<"locale.locale_pack_ref">>
  <2>1. "pack" \in Fields
    BY DEF Fields
  <2> Updated(dr, "pack", v) = w
    BY <1>5, Writes
  <2>2. w["pack"] = v /\ \A g \in Fields : g # "pack" => w[g] = dr[g]
    BY <2>1, OthersKept
  <2> HIDE DEF w
  <2>3. w.permissions = dr.permissions /\ w.hooks = dr.hooks /\ w.spoiled = dr.spoiled
    BY <1>0, <2>2
  <2> QED BY <1>5, <2>3 DEF w
<1>6. CASE path = <<"locale.voice_profile_ref">>
  <2>1. "voice" \in Fields
    BY DEF Fields
  <2> Updated(dr, "voice", v) = w
    BY <1>6, Writes
  <2>2. w["voice"] = v /\ \A g \in Fields : g # "voice" => w[g] = dr[g]
    BY <2>1, OthersKept
  <2> HIDE DEF w
  <2>3. w.permissions = dr.permissions /\ w.hooks = dr.hooks /\ w.spoiled = dr.spoiled
    BY <1>0, <2>2
  <2> QED BY <1>6, <2>3 DEF w
<1>7. CASE path = <<"policies.contact_policy_hooks">>
  <2>1. "hooks" \in Fields
    BY DEF Fields
  <2> Updated(dr, "hooks", SomeHooks) = w
    BY <1>7, Writes
  <2>2. w["hooks"] = SomeHooks /\ \A g \in Fields : g # "hooks" => w[g] = dr[g]
    BY <2>1, OthersKept
  <2> HIDE DEF w
  <2>3. w.permissions = dr.permissions /\ w.hooks # {} /\ w.spoiled = dr.spoiled
    BY <1>0, <2>2 DEF SomeHooks
  <2> QED BY <1>7, <2>3 DEF w
<1>8. CASE path = <<"data.required">>
  <2>1. "required" \in Fields
    BY DEF Fields
  <2> Updated(dr, "required", v) = w
    BY <1>8, Writes
  <2>2. w["required"] = v /\ \A g \in Fields : g # "required" => w[g] = dr[g]
    BY <2>1, OthersKept
  <2> HIDE DEF w
  <2>3. w.permissions = dr.permissions /\ w.hooks = dr.hooks /\ w.spoiled = dr.spoiled
    BY <1>0, <2>2
  <2> QED BY <1>8, <2>3 DEF w
<1>9. CASE path = <<"knowledge.sources">>
  <2>1. "sources" \in Fields
    BY DEF Fields
  <2> Updated(dr, "sources", v) = w
    BY <1>9, Writes
  <2>2. w["sources"] = v /\ \A g \in Fields : g # "sources" => w[g] = dr[g]
    BY <2>1, OthersKept
  <2> HIDE DEF w
  <2>3. w.permissions = dr.permissions /\ w.hooks = dr.hooks /\ w.spoiled = dr.spoiled
    BY <1>0, <2>2
  <2> QED BY <1>9, <2>3 DEF w
<1>10. CASE path = <<"policies.unknown_question_policy.default">>
  <2>1. \A g \in {"permissions", "hooks", "spoiled"} : w[g] = dr[g]
    BY <1>0, <1>10, Writes, WithDefaultApart DEF ApartIn
  <2> HIDE DEF w
  <2>2. w.permissions = dr.permissions /\ w.hooks = dr.hooks /\ w.spoiled = dr.spoiled
    BY <2>1
  <2> QED BY <1>10, <2>2 DEF w
<1>11. CASE path = <<"policies.opt_out">>
  <2>1. "opt_out" \in Fields
    BY DEF Fields
  <2> Marked(dr, "opt_out") = w
    BY <1>11, Writes
  <2>2. w["opt_out"] /\ \A g \in Fields : g # "opt_out" => w[g] = dr[g]
    BY <1>11, <2>1, Writes, DraftFields DEF Marked
  <2> HIDE DEF w
  <2>3. w.permissions = dr.permissions /\ w.hooks = dr.hooks /\ w.spoiled = dr.spoiled
    BY <1>0, <2>2
  <2> QED BY <1>11, <2>3 DEF w
<1>12. CASE path = <<"outcome_schema.primary">>
  <2>1. "outcomes" \in Fields
    BY DEF Fields
  <2> Updated(dr, "outcomes", v) = w
    BY <1>12, Writes
  <2>2. w["outcomes"] = v /\ \A g \in Fields : g # "outcomes" => w[g] = dr[g]
    BY <2>1, OthersKept
  <2> HIDE DEF w
  <2>3. w.permissions = dr.permissions /\ w.hooks = dr.hooks /\ w.spoiled = dr.spoiled
    BY <1>0, <2>2
  <2> QED BY <1>12, <2>3 DEF w
<1>13. CASE path = <<"completion.success_rules">>
  <2>1. \A g \in {"permissions", "hooks", "spoiled"} : w[g] = dr[g]
    BY <1>0, <1>13, Writes, WithRulesApart DEF ApartIn
  <2> HIDE DEF w
  <2>2. w.permissions = dr.permissions /\ w.hooks = dr.hooks /\ w.spoiled = dr.spoiled
    BY <2>1
  <2> QED BY <1>13, <2>2 DEF w
<1>14. CASE path = <<"handoff_rules">>
  <2>1. "handoffs" \in Fields
    BY DEF Fields
  <2> Updated(dr, "handoffs", SomeHandoff) = w
    BY <1>14, Writes
  <2>2. w["handoffs"] = SomeHandoff /\ \A g \in Fields : g # "handoffs" => w[g] = dr[g]
    BY <2>1, OthersKept
  <2> HIDE DEF w
  <2>3. w.permissions = dr.permissions /\ w.hooks = dr.hooks /\ w.spoiled = dr.spoiled
    BY <1>0, <2>2
  <2> QED BY <1>14, <2>3 DEF w
<1>15. CASE path = <<"coverage.objections">>
  <2>1. "objections" \in Fields
    BY DEF Fields
  <2> Updated(dr, "objections", SomeObjection) = w
    BY <1>15, Writes
  <2>2. w["objections"] = SomeObjection /\ \A g \in Fields : g # "objections" => w[g] = dr[g]
    BY <2>1, OthersKept
  <2> HIDE DEF w
  <2>3. w.permissions = dr.permissions /\ w.hooks = dr.hooks /\ w.spoiled = dr.spoiled
    BY <1>0, <2>2
  <2> QED BY <1>15, <2>3 DEF w
<1>16. CASE path = <<"completion">>
  <2>1. \A g \in {"permissions", "hooks", "spoiled"} : w[g] = dr[g]
    BY <1>0, <1>16, Writes, CompletionTextApart DEF ApartIn
  <2> HIDE DEF w
  <2>2. w.permissions = dr.permissions /\ w.hooks = dr.hooks /\ w.spoiled = dr.spoiled
    BY <2>1
  <2> QED BY <1>16, <2>2 DEF w
<1>17. CASE path = <<"policies.unknown_question_policy">>
  <2>1. \A g \in {"permissions", "hooks", "spoiled"} : w[g] = dr[g]
    BY <1>0, <1>17, Writes, UnknownTextApart DEF ApartIn
  <2> HIDE DEF w
  <2>2. w.permissions = dr.permissions /\ w.hooks = dr.hooks /\ w.spoiled = dr.spoiled
    BY <2>1
  <2> QED BY <1>17, <2>2 DEF w
<1>18. CASE CompletionKey(path)
  <2>1. "completion" \in Fields
    BY DEF Fields
  <2>2. path[1] # "tools.permissions"
    BY <1>18, KeysOf DEF CompletionKey
  <2> Updated(dr, "completion", "extra") = w
    BY <1>18, Writes
  <2>3. \A g \in Fields : g # "completion" => w[g] = dr[g]
    BY <2>1, OthersKept
  <2> HIDE DEF w
  <2>4. w.permissions = dr.permissions /\ w.hooks = dr.hooks /\ w.spoiled = dr.spoiled
    BY <1>0, <2>3
  <2> QED BY <2>2, <2>4 DEF w
<1>19. CASE UnknownKey(path)
  <2>1. "unknown" \in Fields
    BY DEF Fields
  <2>2. path[1] # "tools.permissions"
    BY <1>19, KeysOf DEF UnknownKey
  <2> Updated(dr, "unknown", "extra") = w
    BY <1>19, Writes
  <2>3. \A g \in Fields : g # "unknown" => w[g] = dr[g]
    BY <2>1, OthersKept
  <2> HIDE DEF w
  <2>4. w.permissions = dr.permissions /\ w.hooks = dr.hooks /\ w.spoiled = dr.spoiled
    BY <1>0, <2>3
  <2> QED BY <2>2, <2>4 DEF w
<1>20. CASE path \notin Writable /\ ~CompletionKey(path) /\ ~UnknownKey(path)
  <2>1. "spoiled" \in Fields
    BY DEF Fields
  <2> Marked(dr, "spoiled") = w
    BY <1>20, Writes
  <2>2. w["spoiled"] /\ \A g \in Fields : g # "spoiled" => w[g] = dr[g]
    BY <1>20, <2>1, Writes, DraftFields DEF Marked
  <2> HIDE DEF w
  <2>3. w.permissions = dr.permissions /\ w.hooks = dr.hooks /\ w.spoiled
    BY <1>0, <2>2
  <2> QED BY <2>3 DEF w
<1> QED BY <1>1, <1>2, <1>3, <1>4, <1>5, <1>6, <1>7, <1>8, <1>9, <1>10, <1>11, <1>12, <1>13,
           <1>14, <1>15, <1>16, <1>17, <1>18, <1>19, <1>20 DEF Writable, Written

-----------------------------------------------------------------------------
(***************************************************************************)
(* The invariant of a session, step by step.                               *)
(***************************************************************************)
\* What an answer leaves in a draft: the permissions, the hooks that are there, and what spoils it.
Kept(dr, w) ==
  /\ w.permissions = dr.permissions
  /\ dr.hooks # {} => w.hooks # {}
  /\ dr.spoiled => w.spoiled

\* The draft an answer makes.
Made(dr, path, v) == IF Recorded(path) THEN dr ELSE Scaffold(Write(dr, path, v))

\* A draft stays one, and says more only where it was answered.
LEMMA DraftMade ==
  ASSUME NEW dr \in Drafts, NEW path, NEW v, path \in Written => Write(EmptyDraft, path, v) \in Drafts
  PROVE  /\ Made(dr, path, v) \in Drafts /\ Kept(dr, Made(dr, path, v))
         /\ path[1] = "tools.permissions" => Made(dr, path, v).spoiled
         /\ \A r \in DOMAIN Sections :
              Says(Made(dr, path, v), r) => Says(dr, r) \/ (~Recorded(path) /\ InSection(path, r))
<1>1. CASE Recorded(path)
  <2>1. Made(dr, path, v) = dr /\ path[1] # "tools.permissions"
    BY <1>1 DEF Made, Recorded
  <2> QED BY <2>1 DEF Kept
<1>2. CASE ~Recorded(path)
  <2> DEFINE w == Write(dr, path, v)
             s == Scaffold(w)
  <2>1. w \in Drafts
    BY WriteTyped
  <2>2. /\ w.permissions = dr.permissions
        /\ dr.hooks # {} => w.hooks # {}
        /\ dr.spoiled => w.spoiled
        /\ path[1] = "tools.permissions" => w.spoiled
    BY WriteKeeps
  <2>3. \A r \in DOMAIN Sections : Says(w, r) => Says(dr, r) \/ InSection(path, r)
    BY SaysWhatIsWritten
  <2>4. s = Made(dr, path, v)
    BY <1>2 DEF Made
  <2> HIDE DEF w
  <2>5. /\ s \in Drafts /\ s.permissions = w.permissions /\ s.hooks = w.hooks /\ s.spoiled = w.spoiled
        /\ \A r \in DOMAIN Sections : Says(s, r) => Says(w, r)
    BY <2>1, Scaffolded
  <2> HIDE DEF s
  <2> QED BY <1>2, <2>2, <2>3, <2>4, <2>5 DEF Kept
<1> QED BY <1>1, <1>2

\* What was asked stays a fact.
LEMMA FactStays ==
  ASSUME NEW dr, NEW w, Kept(dr, w), NEW dep, NEW q, Fact(q, dr, dep)
  PROVE  Fact(q, w, dep)
<1>1. Patient(q, dr) => Patient(q, w)
  BY DEF Patient, Kept
<1>2. WarnedRead(dr, q.path[2]) => WarnedRead(w, q.path[2])
  BY DEF WarnedRead, Kept
<1> QED BY <1>1, <1>2 DEF Fact

\* A step that ends with a view keeps the invariant, when what it did before keeps its parts.
LEMMA ViewKeeps ==
  ASSUME SessionInv, View, draft' \in Drafts, Kept(draft, draft'), DecisionsApproved',
         deployment' = deployment, knowledge' = knowledge, settled' = settled, published' = published,
         \A p \in answered' : p[1] = "tools.permissions" => draft'.spoiled,
         \A p \in deferred' : \E q \in asked : q.path = p /\ ~q.blocking
  PROVE  SessionInv'
<1>1. known' = knowledge /\ known' \in Open
  BY DEF SessionInv, View
<1>2. Shows(view', deployment', draft', known', (answered \cup deferred)')
  <2>1. \A d \in decisions' : d.approved = TRUE /\ Len(d.path) \in {1, 2}
    BY DEF DecisionsApproved
  <2>2. Shows(Propose(draft', decisions', knowledge, answered' \cup deferred'), deployment, draft',
              knowledge, answered' \cup deferred')
    BY <2>1, ProposeShows
  <2> QED BY <1>1, <2>2 DEF View
<1>3. \A q \in ToSet(view'.questions) : Fact(q, draft', deployment')
  <2>1. view'.questions = QuestionsOf(deployment, draft', knowledge, answered' \cup deferred')
    BY <1>1, <1>2 DEF Shows
  <2>2. knowledge \in Open
    BY DEF SessionInv
  <2>3. \A q : q \in ToSet(view'.questions) => Fact(q, draft', deployment)
    BY <2>1, <2>2, ShownAsks
  <2> QED BY <2>3
<1>4. \A q \in asked : Fact(q, draft', deployment')
  BY FactStays DEF SessionInv, AskedInv
<1>5. asked' = asked \cup ToSet(view'.questions)
  BY DEF View
<1>6. AskedInv'
  BY <1>3, <1>4, <1>5 DEF AskedInv
<1> QED BY <1>1, <1>2, <1>6 DEF SessionInv

\* A session starts in the invariant.
LEMMA SessionStarts ==
  ASSUME Init
  PROVE  SessionInv
<1>1. draft \in Drafts
  <2>1. PICK s \in Starts : draft = Scaffold(s.draft)
    BY DEF Init
  <2>2. s.draft \in Drafts
    BY CopilotAssumption
  <2> QED BY <2>1, <2>2, Scaffolded
<1>2. /\ known \in Open /\ knowledge \in Open /\ settled \subseteq Conflicts /\ published = <<>>
      /\ known = knowledge /\ answered = {} /\ deferred = {} /\ asked = ToSet(view.questions)
  BY DEF Init
<1>3. DecisionsApproved
  <2>1. ASSUME NEW r PROVE Len(<<r>>) = 1
    OBVIOUS
  <2>2. \A d \in decisions : \E r : d = [path |-> <<r>>, by |-> "operator", approved |-> TRUE]
    BY DEF Init
  <2>3. \A d \in decisions : d.by = "operator" /\ d.approved = TRUE /\ Len(d.path) = 1
    BY <2>1, <2>2
  <2> QED BY <2>3 DEF DecisionsApproved
<1>4. view = Propose(draft, decisions, known, {})
  BY DEF Init
<1>5. Shows(view, deployment, draft, known, {})
  <2>1. \A d \in decisions : d.approved = TRUE /\ Len(d.path) \in {1, 2}
    BY <1>3 DEF DecisionsApproved
  <2> QED BY <1>4, <2>1, ProposeShows
<1>6. \A q \in ToSet(view.questions) : Fact(q, draft, deployment)
  <2>1. view.questions = QuestionsOf(deployment, draft, known, {})
    BY <1>5 DEF Shows
  <2> QED BY <1>1, <1>2, <2>1, ShownAsks
<1>7. AskedInv
  BY <1>2, <1>6 DEF AskedInv
<1>8. answered \cup deferred = {}
  BY <1>2
<1> QED BY <1>1, <1>2, <1>3, <1>5, <1>7, <1>8 DEF SessionInv

\* The session does not change a draft it only looks at.
LEMMA SameKept ==
  ASSUME NEW dr
  PROVE  Kept(dr, dr)
BY DEF Kept

\* An answer keeps the invariant.
LEMMA AnswerKeeps ==
  ASSUME SessionInv, NEW q \in asked, NEW v \in Replies(q.path), Answer(q, v)
  PROVE  SessionInv'
<1>1. draft' = Made(draft, q.path, v)
  BY DEF Answer, Apply, Made
<1>2. draft \in Drafts /\ (q.path \in Written => Write(EmptyDraft, q.path, v) \in Drafts)
  BY CopilotAssumption DEF SessionInv
<1>3. draft' \in Drafts /\ Kept(draft, draft') /\ (q.path[1] = "tools.permissions" => draft'.spoiled)
  BY <1>1, <1>2, DraftMade
<1>4. DecisionsApproved'
  <2>1. Len(q.path) \in {1, 2}
    BY DEF SessionInv, AskedInv, Fact, Question1
  <2>2. decisions' = _record(decisions, q.path, "operator") \/ decisions' = decisions
    BY DEF Answer
  <2>3. \A d \in decisions :
          d.by \in {"operator", "copilot"} /\ d.approved = TRUE /\ Len(d.path) \in {1, 2}
    BY DEF SessionInv, DecisionsApproved
  <2>4. \A d \in _record(decisions, q.path, "operator") :
          d.by \in {"operator", "copilot"} /\ d.approved = TRUE /\ Len(d.path) \in {1, 2}
    BY <2>1, <2>3 DEF _record
  <2> QED BY <2>2, <2>3, <2>4 DEF DecisionsApproved
<1>5. answered' = answered \cup {q.path} /\ deferred' = deferred
  BY DEF Answer
<1>6. \A p \in answered' : p[1] = "tools.permissions" => draft'.spoiled
  BY <1>3, <1>5 DEF SessionInv, AskedInv, Kept
<1>7. \A p \in deferred' : \E x \in asked : x.path = p /\ ~x.blocking
  BY <1>5 DEF SessionInv, AskedInv
<1>8. /\ View /\ deployment' = deployment /\ knowledge' = knowledge
      /\ settled' = settled /\ published' = published
  BY DEF Answer
<1> QED BY <1>3, <1>4, <1>6, <1>7, <1>8, ViewKeeps

\* A proposal that is accepted keeps it.
LEMMA AcceptKeeps ==
  ASSUME SessionInv, NEW q \in asked, Accept(q)
  PROVE  SessionInv'
<1> DEFINE v == Suggestion(q.path)
<1>0. q.proposal /\ q.path \in Proposed
  BY DEF Accept, SessionInv, AskedInv, Fact
<1>1. draft' = Made(draft, q.path, v)
  BY DEF Accept, Apply, Made
<1>2. draft \in Drafts /\ (q.path \in Written => Write(EmptyDraft, q.path, v) \in Drafts)
  BY <1>0, CopilotAssumption DEF SessionInv
<1> HIDE DEF v
<1>3. draft' \in Drafts /\ Kept(draft, draft') /\ (q.path[1] = "tools.permissions" => draft'.spoiled)
  BY <1>1, <1>2, DraftMade
<1>4. DecisionsApproved'
  <2>1. Len(q.path) \in {1, 2}
    BY DEF SessionInv, AskedInv, Fact, Question1
  <2>2. decisions' = _record(decisions, q.path, "copilot")
    BY DEF Accept
  <2>3. \A d \in decisions :
          d.by \in {"operator", "copilot"} /\ d.approved = TRUE /\ Len(d.path) \in {1, 2}
    BY DEF SessionInv, DecisionsApproved
  <2>4. \A d \in _record(decisions, q.path, "copilot") :
          d.by \in {"operator", "copilot"} /\ d.approved = TRUE /\ Len(d.path) \in {1, 2}
    BY <2>1, <2>3 DEF _record
  <2> QED BY <2>2, <2>4 DEF DecisionsApproved
<1>5. answered' = answered \cup {q.path} /\ deferred' = deferred
  BY DEF Accept
<1>6. \A p \in answered' : p[1] = "tools.permissions" => draft'.spoiled
  BY <1>3, <1>5 DEF SessionInv, AskedInv, Kept
<1>7. \A p \in deferred' : \E x \in asked : x.path = p /\ ~x.blocking
  BY <1>5 DEF SessionInv, AskedInv
<1>8. /\ View /\ deployment' = deployment /\ knowledge' = knowledge
      /\ settled' = settled /\ published' = published
  BY DEF Accept
<1> QED BY <1>3, <1>4, <1>6, <1>7, <1>8, ViewKeeps

\* A question that is deferred could wait.
LEMMA DeferKeeps ==
  ASSUME SessionInv, NEW q \in asked, Defer(q)
  PROVE  SessionInv'
<1>1. /\ View /\ draft' = draft /\ decisions' = decisions /\ answered' = answered
      /\ deferred' = deferred \cup {q.path} /\ ~q.blocking
      /\ deployment' = deployment /\ knowledge' = knowledge
      /\ settled' = settled /\ published' = published
  BY DEF Defer
<1>2. draft' \in Drafts /\ Kept(draft, draft')
  BY <1>1, SameKept DEF SessionInv
<1>3. DecisionsApproved'
  BY <1>1 DEF SessionInv, DecisionsApproved
<1>4. \A p \in answered' : p[1] = "tools.permissions" => draft'.spoiled
  BY <1>1 DEF SessionInv, AskedInv
<1>5. \A p \in deferred' : \E x \in asked : x.path = p /\ ~x.blocking
  BY <1>1 DEF SessionInv, AskedInv
<1> QED BY <1>1, <1>2, <1>3, <1>4, <1>5, ViewKeeps

\* A view alone keeps the invariant.
LEMMA LookKeeps ==
  ASSUME SessionInv, Look
  PROVE  SessionInv'
<1>1. /\ View /\ draft' = draft /\ decisions' = decisions /\ answered' = answered
      /\ deferred' = deferred /\ deployment' = deployment /\ knowledge' = knowledge
      /\ settled' = settled /\ published' = published
  BY DEF Look
<1>2. draft' \in Drafts /\ Kept(draft, draft')
  BY <1>1, SameKept DEF SessionInv
<1>3. DecisionsApproved'
  BY <1>1 DEF SessionInv, DecisionsApproved
<1>4. \A p \in answered' : p[1] = "tools.permissions" => draft'.spoiled
  BY <1>1 DEF SessionInv, AskedInv
<1>5. \A p \in deferred' : \E x \in asked : x.path = p /\ ~x.blocking
  BY <1>1 DEF SessionInv, AskedInv
<1> QED BY <1>1, <1>2, <1>3, <1>4, <1>5, ViewKeeps

\* What a publication rests on.
LEMMA PublishShows ==
  ASSUME SessionInv, Publish
  PROVE  \E p :
           /\ Shows(p, deployment, draft, known, answered \cup deferred)
           /\ p.valid /\ discovery_complete(p.questions)
           /\ published' = <<[blueprint |-> draft, findings |-> p.findings]>>
           /\ asked' = asked \cup ToSet(p.questions)
<1> DEFINE p == Propose(draft, decisions, known, answered \cup deferred)
<1>1. /\ p.valid /\ discovery_complete(p.questions)
      /\ published' = <<[blueprint |-> draft, findings |-> p.findings]>>
      /\ asked' = asked \cup ToSet(p.questions)
  BY DEF Publish
<1>2. Shows(p, deployment, draft, known, answered \cup deferred)
  <2>1. \A d \in decisions : d.approved = TRUE /\ Len(d.path) \in {1, 2}
    BY DEF SessionInv, DecisionsApproved
  <2> QED BY <2>1, ProposeShows
<1> HIDE DEF p
<1> QED BY <1>1, <1>2

\* A publication keeps it.
LEMMA PublishKeeps ==
  ASSUME SessionInv, Publish
  PROVE  SessionInv'
<1>1. /\ UNCHANGED <<deployment, draft, decisions, answered, deferred, known, knowledge, settled, view>>
  BY DEF Publish
<1>2. PICK p :
        /\ Shows(p, deployment, draft, known, answered \cup deferred)
        /\ published' = <<[blueprint |-> draft, findings |-> p.findings]>>
        /\ asked' = asked \cup ToSet(p.questions)
  BY PublishShows
<1>3. \A q \in ToSet(p.questions) : Fact(q, draft, deployment)
  <2>1. p.questions = QuestionsOf(deployment, draft, known, answered \cup deferred)
    BY <1>2 DEF Shows
  <2> QED BY <2>1, ShownAsks DEF SessionInv
<1>4. \E x : published' = <<x>>
  BY <1>2
<1>5. AskedInv'
  BY <1>1, <1>2, <1>3 DEF SessionInv, AskedInv
<1>6. DecisionsApproved'
  BY <1>1 DEF SessionInv, DecisionsApproved
<1>7. Shows(view', deployment', draft', known', (answered \cup deferred)')
  BY <1>1 DEF SessionInv
<1> QED BY <1>1, <1>4, <1>5, <1>6, <1>7 DEF SessionInv

\* The knowledge plane keeps it.
LEMMA KnowledgeKeeps ==
  ASSUME SessionInv, KnowledgeOpens \/ KnowledgeSettles
  PROVE  SessionInv'
<1>1. UNCHANGED <<deployment, draft, decisions, answered, deferred, asked, known, view, published>>
  BY DEF KnowledgeOpens, KnowledgeSettles, session
<1>2. knowledge' \in Open /\ settled' \subseteq Conflicts
  <2>1. knowledge \in [gaps : SUBSET Gaps, conflicts : SUBSET Conflicts] /\ settled \subseteq Conflicts
    BY DEF SessionInv, Open
  <2>2. CASE KnowledgeOpens
    BY <2>1, <2>2 DEF KnowledgeOpens, Open
  <2>3. CASE KnowledgeSettles
    BY <2>1, <2>3 DEF KnowledgeSettles, Open
  <2> QED BY <2>2, <2>3
<1>3. AskedInv'
  BY <1>1 DEF SessionInv, AskedInv
<1>4. DecisionsApproved'
  BY <1>1 DEF SessionInv, DecisionsApproved
<1>5. Shows(view', deployment', draft', known', (answered \cup deferred)')
  BY <1>1 DEF SessionInv
<1> QED BY <1>1, <1>2, <1>3, <1>4, <1>5 DEF SessionInv

\* Every step keeps the invariant.
LEMMA SessionStep ==
  ASSUME SessionInv, [Next]_vars
  PROVE  SessionInv'
<1>1. CASE \E q \in asked : \E v \in Replies(q.path) : Answer(q, v)
  BY <1>1, AnswerKeeps
<1>2. CASE \E q \in asked : Accept(q)
  BY <1>2, AcceptKeeps
<1>3. CASE \E q \in asked : Defer(q)
  BY <1>3, DeferKeeps
<1>4. CASE Look
  BY <1>4, LookKeeps
<1>5. CASE Publish
  BY <1>5, PublishKeeps
<1>6. CASE KnowledgeOpens \/ KnowledgeSettles
  BY <1>6, KnowledgeKeeps
<1>7. CASE UNCHANGED vars
  <2>1. UNCHANGED <<deployment, draft, decisions, answered, deferred, asked, known, knowledge, settled,
                    view, published>>
    BY <1>7 DEF vars, session
  <2>2. AskedInv'
    BY <2>1 DEF SessionInv, AskedInv
  <2>3. DecisionsApproved'
    BY <2>1 DEF SessionInv, DecisionsApproved
  <2>4. Shows(view', deployment', draft', known', (answered \cup deferred)')
    BY <2>1 DEF SessionInv
  <2> QED BY <2>1, <2>2, <2>3, <2>4 DEF SessionInv
<1> QED BY <1>1, <1>2, <1>3, <1>4, <1>5, <1>6, <1>7 DEF Next

\* A session keeps its invariant.
THEOREM SessionHolds == Spec => []SessionInv
<1>1. Init => SessionInv
  BY SessionStarts
<1>2. SessionInv /\ [Next]_vars => SessionInv'
  BY SessionStep
<1> QED BY <1>1, <1>2, PTL DEF Spec

\* The invariant has the types of the session, and more.
THEOREM TypeCorrect == Spec => []TypeOK
<1>1. SessionInv => TypeOK
  <2> SUFFICES ASSUME SessionInv PROVE TypeOK
    OBVIOUS
  <2>1. draft \in Drafts /\ known \in Open /\ knowledge \in Open /\ settled \subseteq Conflicts
    BY DEF SessionInv
  <2>2. \A d \in decisions : d.by \in {"operator", "copilot"} /\ d.approved \in BOOLEAN
    BY DEF SessionInv, DecisionsApproved
  <2>3. view.status \in StatusOf /\ view.readiness \in ReadinessOf /\ view.valid \in BOOLEAN
    <3>1. view.status \in StatusOf /\ view.readiness \in ReadinessOf /\ view.valid = Valid(draft)
      BY DEF SessionInv, Shows
    <3>2. Valid(draft) \in BOOLEAN
      BY DEF Valid
    <3> QED BY <3>1, <3>2
  <2>4. ToSet(view.questions) \subseteq asked
    BY DEF SessionInv, AskedInv
  <2>5. Len(published) <= 1
    BY DEF SessionInv
  <2> QED BY <2>1, <2>2, <2>3, <2>4, <2>5 DEF TypeOK
<1> QED BY <1>1, SessionHolds, PTL

-----------------------------------------------------------------------------
(***************************************************************************)
(* What an operator approved.                                              *)
(***************************************************************************)
\* A decision that is recorded stands for its path and takes nothing from the others.
LEMMA Recording ==
  ASSUME NEW ds, NEW path, NEW by, NEW r
  PROVE  /\ InSection(path, r) => \E d \in _record(ds, path, by) : d.approved /\ InSection(d.path, r)
         /\ (\E d \in ds : d.approved /\ InSection(d.path, r)) =>
              \E d \in _record(ds, path, by) : d.approved /\ InSection(d.path, r)
<1> DEFINE new == [path |-> path, by |-> by, approved |-> TRUE]
<1>1. new \in _record(ds, path, by) /\ new.approved /\ new.path = path
  BY DEF _record
<1> HIDE DEF new
<1>2. ASSUME NEW d \in ds, d.approved, InSection(d.path, r)
      PROVE  \E x \in _record(ds, path, by) : x.approved /\ InSection(x.path, r)
  <2>1. CASE d.path = path
    BY <1>1, <1>2, <2>1
  <2>2. CASE d.path # path
    <3>1. d \in _record(ds, path, by)
      BY <2>2 DEF _record
    <3> QED BY <1>2, <3>1
  <2> QED BY <2>1, <2>2
<1> QED BY <1>1, <1>2

\* An answer, or a proposal that is accepted, is decided where it makes a section say something.
LEMMA AnswerDecides ==
  ASSUME SessionInv, NothingInvented, NEW path, NEW v, NEW by,
         path \in Written => Write(EmptyDraft, path, v) \in Drafts,
         draft' = Made(draft, path, v),
         decisions' = _record(decisions, path, by) \/ (~Decides(path) /\ decisions' = decisions)
  PROVE  NothingInvented'
<1> SUFFICES ASSUME NEW r \in DOMAIN Sections, Says(draft', r)
             PROVE  \E d \in decisions' : d.approved /\ InSection(d.path, r)
  BY DEF NothingInvented
<1>1. Says(draft, r) \/ InSection(path, r)
  BY DraftMade DEF SessionInv
<1>2. CASE Says(draft, r)
  <2>1. \E d \in decisions : d.approved /\ InSection(d.path, r)
    BY <1>2 DEF NothingInvented
  <2> QED BY <2>1, Recording
<1>3. CASE InSection(path, r)
  <2>1. Decides(path)
    BY <1>3 DEF Decides
  <2> QED BY <1>3, <2>1, Recording
<1> QED BY <1>1, <1>2, <1>3

\* Nothing is invented: what a draft says in a section was decided and approved.
THEOREM NothingIsInvented == Spec => []NothingInvented
<1>1. Init => NothingInvented
  <2> SUFFICES ASSUME Init, NEW r \in DOMAIN Sections, Says(draft, r)
               PROVE  \E d \in decisions : d.approved /\ InSection(d.path, r)
    BY DEF NothingInvented
  <2> DEFINE new == [path |-> <<r>>, by |-> "operator", approved |-> TRUE]
  <2>1. new \in decisions
    BY DEF Init
  <2>2. new.approved /\ new.path = <<r>>
    OBVIOUS
  <2>3. r \in Sections[r]
    BY DEF Sections
  <2>4. InSection(<<r>>, r)
    BY <2>3 DEF InSection
  <2> HIDE DEF new
  <2> QED BY <2>1, <2>2, <2>4
<1>2. SessionInv /\ NothingInvented /\ [Next]_vars => NothingInvented'
  <2> SUFFICES ASSUME SessionInv, NothingInvented, [Next]_vars
               PROVE  NothingInvented'
    OBVIOUS
  <2>1. ASSUME NEW q \in asked, NEW v \in Replies(q.path), Answer(q, v)
        PROVE  NothingInvented'
    <3>1. draft' = Made(draft, q.path, v)
      BY <2>1 DEF Answer, Apply, Made
    <3>2. q.path \in Written => Write(EmptyDraft, q.path, v) \in Drafts
      BY CopilotAssumption
    <3>3. \/ decisions' = _record(decisions, q.path, "operator")
          \/ ~Decides(q.path) /\ decisions' = decisions
      BY <2>1 DEF Answer
    <3> QED BY <3>1, <3>2, <3>3, AnswerDecides
  <2>2. ASSUME NEW q \in asked, Accept(q) PROVE NothingInvented'
    <3>1. draft' = Made(draft, q.path, Suggestion(q.path))
      BY <2>2 DEF Accept, Apply, Made
    <3>2. q.path \in Proposed
      BY <2>2 DEF Accept, SessionInv, AskedInv, Fact
    <3>3. q.path \in Written => Write(EmptyDraft, q.path, Suggestion(q.path)) \in Drafts
      BY <3>2, CopilotAssumption
    <3>4. decisions' = _record(decisions, q.path, "copilot")
      BY <2>2 DEF Accept
    <3> QED BY <3>1, <3>3, <3>4, AnswerDecides
  <2>3. CASE draft' = draft /\ decisions' = decisions
    BY <2>3 DEF NothingInvented
  <2>4. \/ \E q \in asked : \E v \in Replies(q.path) : Answer(q, v)
        \/ \E q \in asked : Accept(q)
        \/ draft' = draft /\ decisions' = decisions
    BY DEF Next, Defer, Look, Publish, KnowledgeOpens, KnowledgeSettles, vars, session
  <2> QED BY <2>1, <2>2, <2>3, <2>4
<1> QED BY <1>1, <1>2, SessionHolds, PTL DEF Spec

-----------------------------------------------------------------------------
(***************************************************************************)
(* What is published.                                                      *)
(***************************************************************************)
\* A blueprint with its holes answered for.
Whole(bp) == Valid(bp) /\ Holes(bp) \subseteq answered

\* What a publication takes is whole.
LEMMA PublishTakesWhole ==
  ASSUME SessionInv, Publish
  PROVE  Whole(draft) /\ \E f : published' = <<[blueprint |-> draft, findings |-> f]>>
<1>1. PICK p :
        /\ Shows(p, deployment, draft, known, answered \cup deferred)
        /\ p.valid /\ discovery_complete(p.questions)
        /\ published' = <<[blueprint |-> draft, findings |-> p.findings]>>
  BY PublishShows
<1>2. Valid(draft) /\ discovery_complete(QuestionsOf(deployment, draft, known, answered \cup deferred))
  BY <1>1 DEF Shows
<1>3. draft \in Drafts /\ known \in Open /\ Deferred(deferred, asked)
  BY DEF SessionInv, AskedInv, Deferred
<1>4. \A q \in asked : Fact(q, draft, deployment)
  BY DEF SessionInv, AskedInv
<1>5. ASSUME NEW h \in Holes(draft) PROVE h \in answered
  BY <1>2, <1>3, <1>4, HolesAnswered
<1> QED BY <1>1, <1>2, <1>5 DEF Whole

\* A hole is never published but by an operator who answered its question.
THEOREM PublishedWhole == Spec => []PublishedIsWhole
<1>1. Init => PublishedIsWhole
  BY DEF Init, PublishedIsWhole
<1>2. SessionInv /\ PublishedIsWhole /\ [Next]_vars => PublishedIsWhole'
  <2> SUFFICES ASSUME SessionInv, PublishedIsWhole, [Next]_vars
               PROVE  PublishedIsWhole'
    OBVIOUS
  <2>1. CASE Publish
    <3>1. PICK f : published' = <<[blueprint |-> draft, findings |-> f]>>
      BY <2>1, PublishTakesWhole
    <3>2. Whole(draft) /\ answered' = answered
      BY <2>1, PublishTakesWhole DEF Publish
    <3>3. \A i \in DOMAIN published' : published'[i].blueprint = draft
      BY <3>1
    <3> QED BY <3>2, <3>3 DEF Whole, PublishedIsWhole
  <2>2. CASE published' = published /\ answered \subseteq answered'
    BY <2>2 DEF PublishedIsWhole
  <2>3. Publish \/ (published' = published /\ answered \subseteq answered')
    BY DEF Next, Answer, Accept, Defer, Look, KnowledgeOpens, KnowledgeSettles, vars, session
  <2> QED BY <2>1, <2>2, <2>3
<1> QED BY <1>1, <1>2, SessionHolds, PTL DEF Spec

-----------------------------------------------------------------------------
(***************************************************************************)
(* What is ready.                                                          *)
(***************************************************************************)
\* An atom the preflight reads as the rules adapter does, and that refers to something, is true of
\* the best case.
LEMMA RefersHolds ==
  ASSUME NEW bp \in Drafts, NEW a \in Atoms, Refers(bp, a), a.form # "range",
         a.form = "compare" => \A n \in a.names : a.literal \in Comparable(KindIn(bp, n))
  PROVE  Read(a, {}, BestCase(bp)) = "TRUE"
<1> DEFINE e == BestCase(bp)
<1>1. /\ e.recorded = NamesOf(bp) /\ e.accepted = Permitted(bp)
      /\ e.raised = FlagNames /\ e.true = NamesOf(bp)
      /\ e.kind = [n \in FieldNames |-> KindIn(bp, n)]
  BY DEF BestCase
<1>2. a.form \in Forms /\ (a.form = "flag" => a.names \subseteq FlagNames)
  BY DEF Atoms
<1>3. NamesOf(bp) \subseteq FieldNames
  <2>1. bp.required \in Seq(FieldSpecs) /\ bp.optional \in Seq(FieldSpecs)
    BY DEF Drafts
  <2>2. /\ \A i \in DOMAIN bp.required : bp.required[i] \in FieldSpecs
        /\ \A i \in DOMAIN bp.optional : bp.optional[i] \in FieldSpecs
    BY <2>1
  <2>3. \A spec \in FieldSpecs : spec.name \in FieldNames
    BY DEF FieldSpecs
  <2> QED BY <2>2, <2>3 DEF NamesOf
<1> HIDE DEF e
<1>4. CASE a.form = "compare"
  <2>1. a.names \subseteq NamesOf(bp)
    BY <1>4 DEF Refers
  <2>2. \A n \in a.names : a.literal \in Comparable(e.kind[n])
    <3> TAKE n \in a.names
    <3>1. n \in FieldNames
      BY <1>3, <2>1
    <3>2. e.kind[n] = KindIn(bp, n)
      BY <1>1, <3>1
    <3> QED BY <1>4, <3>2
  <2>3. {n \in a.names : a.literal \notin Comparable(e.kind[n])} = {}
    BY <2>2
  <2>4. Compare(a.names, a.literal, e) = "TRUE"
    BY <1>1, <2>1, <2>3 DEF Compare
  <2> QED BY <1>4, <2>4 DEF Read, e
<1>5. CASE a.form = "recorded"
  <2>1. Holds(a, e)
    BY <1>1, <1>5 DEF Refers, Holds
  <2> QED BY <1>5, <2>1 DEF Read, e
<1>6. CASE a.form = "accepted"
  <2>1. Holds(a, e)
    BY <1>1, <1>6 DEF Refers, Holds
  <2> QED BY <1>6, <2>1 DEF Read, e
<1>7. CASE a.form = "flag"
  <2>1. Holds(a, e)
    BY <1>1, <1>2, <1>7 DEF Holds
  <2> QED BY <1>7, <2>1 DEF Read, e
<1>8. CASE a.form = "garbled"
  BY <1>8 DEF Refers
<1> QED BY <1>2, <1>4, <1>5, <1>6, <1>7, <1>8 DEF Forms

\* A rule of such atoms is true of the best case.
LEMMA RuleHolds ==
  ASSUME NEW bp \in Drafts, NEW rule, rule.atoms \in Seq(Atoms), ReadAlike(bp, rule),
         \A a \in ToSet(rule.atoms) : Refers(bp, a)
  PROVE  Evaluate(rule, BestCase(bp)) = "TRUE"
<1> DEFINE n == Len(rule.atoms)
           read(i) == Read(rule.atoms[i], IF i = n THEN rule.target ELSE {}, BestCase(bp))
           all == {read(i) : i \in 1..n}
<1>1. rule.target = {}
  BY DEF ReadAlike
<1>2. n \in Nat /\ DOMAIN rule.atoms = 1..n
  OBVIOUS
<1>3. ASSUME NEW i \in 1..n PROVE read(i) = "TRUE"
  <2> DEFINE a == rule.atoms[i]
  <2>1. a \in ToSet(rule.atoms) /\ a \in Atoms
    BY <1>2 DEF ToSet
  <2>2. /\ Refers(bp, a) /\ a.form # "range"
        /\ a.form = "compare" => \A m \in a.names : a.literal \in Comparable(KindIn(bp, m))
    BY <2>1 DEF ReadAlike
  <2> HIDE DEF a
  <2>3. Read(a, {}, BestCase(bp)) = "TRUE"
    BY <2>1, <2>2, RefersHolds
  <2>4. (IF i = n THEN rule.target ELSE {}) = {}
    BY <1>1
  <2> QED BY <2>3, <2>4 DEF a
<1> HIDE DEF read
<1>4. "RAISES" \notin all /\ "UNKNOWN" \notin all /\ "FALSE" \notin all
  BY <1>3
<1>5. Evaluate(rule, BestCase(bp)) =
        IF "RAISES" \in all THEN "RAISES"
        ELSE IF "UNKNOWN" \in all THEN "UNKNOWN"
        ELSE IF "FALSE" \in all THEN "FALSE" ELSE "TRUE"
  BY DEF Evaluate, read
<1> QED BY <1>4, <1>5

\* What a preflight does not block refers to what is there.
LEMMA UnblockedRefers ==
  ASSUME NEW dr \in Drafts, NEW dep, Valid(dr), ~BlockedBy(ToSet(FindingsOf(dep, dr)))
  PROVE  /\ \A i \in DOMAIN dr.success : \A a \in ToSet(dr.success[i].atoms) : Refers(dr, a)
         /\ \A i \in DOMAIN dr.exit : \A a \in ToSet(dr.exit[i].atoms) : Refers(dr, a)
<1> DEFINE ctx == ContextOf(dep)
<1>1. ctx.tenants = {} /\ ctx.rejected = {}
  BY DEF ContextOf
<1>2. FindingsOf(dep, dr) = Findings(dr, ctx, {}, {})
  BY DEF FindingsOf
<1> HIDE DEF ctx
<1>3. ToSet(FindingsOf(dep, dr)) = PartsOf(dr, ctx)
  BY <1>1, <1>2, FindingsFound
<1>4. \A f \in ToSet(_completion(dr)) : f.severity # "BLOCK"
  BY <1>3 DEF PartsOf, BlockedBy
<1> QED BY <1>4, CompletionFine

\* The rules that pass the preflight, and that it reads as the rules adapter does, can be met: the
\* best session meets each rule of success, and each exit rule once its outcome is taken off.
THEOREM RulesCanHold == Spec => []ReadyRulesCanHold
<1>1. SessionInv => ReadyRulesCanHold
  <2> SUFFICES ASSUME SessionInv, view.valid, ~BlockedBy(view.findings)
               PROVE  /\ \A i \in DOMAIN draft.success :
                           ReadAlike(draft, draft.success[i]) =>
                             Evaluate(draft.success[i], BestCase(draft)) = "TRUE"
                      /\ \A i \in DOMAIN draft.exit :
                           ReadAlike(draft, _split_exit(draft.exit[i])) =>
                             Evaluate(_split_exit(draft.exit[i]), BestCase(draft)) = "TRUE"
    BY DEF ReadyRulesCanHold
  <2>1. /\ draft \in Drafts /\ Valid(draft)
        /\ ~BlockedBy(ToSet(FindingsOf(deployment, draft)))
    BY DEF SessionInv, Shows
  <2>2. /\ \A i \in DOMAIN draft.success : \A a \in ToSet(draft.success[i].atoms) : Refers(draft, a)
        /\ \A i \in DOMAIN draft.exit : \A a \in ToSet(draft.exit[i].atoms) : Refers(draft, a)
    BY <2>1, UnblockedRefers
  <2>3. draft.success \in Seq(CompletionRules) /\ draft.exit \in Seq(CompletionRules)
    BY <2>1 DEF Drafts
  <2>4. \A rule \in CompletionRules : rule.atoms \in Seq(Atoms)
    BY DEF CompletionRules
  <2>5. ASSUME NEW i \in DOMAIN draft.success, ReadAlike(draft, draft.success[i])
        PROVE  Evaluate(draft.success[i], BestCase(draft)) = "TRUE"
    <3>1. draft.success[i] \in CompletionRules
      BY <2>3
    <3> QED BY <2>1, <2>2, <2>4, <2>5, <3>1, RuleHolds
  <2>6. ASSUME NEW i \in DOMAIN draft.exit, ReadAlike(draft, _split_exit(draft.exit[i]))
        PROVE  Evaluate(_split_exit(draft.exit[i]), BestCase(draft)) = "TRUE"
    <3>1. draft.exit[i] \in CompletionRules
      BY <2>3
    <3>2. _split_exit(draft.exit[i]).atoms = draft.exit[i].atoms
      BY <3>1 DEF _split_exit, CompletionRules
    <3> QED BY <2>1, <2>2, <2>4, <2>6, <3>1, <3>2, RuleHolds
  <2> QED BY <2>5, <2>6
<1> QED BY <1>1, SessionHolds, PTL

\* Nothing found, nothing of the composition.
LEMMA NothingOfComposition ==
  ASSUME NEW dr \in Drafts, NEW dep, Valid(dr), FindingsOf(dep, dr) = <<>>
  PROVE  ToSet(_channels_and_composition(dr, ContextOf(dep))) = {}
<1> DEFINE ctx == ContextOf(dep)
<1>1. ctx.tenants = {} /\ ctx.rejected = {}
  BY DEF ContextOf
<1>2. FindingsOf(dep, dr) = Findings(dr, ctx, {}, {})
  BY DEF FindingsOf
<1> HIDE DEF ctx
<1>3. ToSet(FindingsOf(dep, dr)) = PartsOf(dr, ctx)
  BY <1>1, <1>2, FindingsFound
<1>4. ToSet(FindingsOf(dep, dr)) = {}
  BY Nothing
<1> QED BY <1>3, <1>4 DEF PartsOf, ctx

\* What has to be asked about a row that needs something may not wait.
AboutRow(row) == IF row.action = "REQUIRES_HUMAN" THEN <<"handoff_rules">> ELSE <<"capabilities", row.cap>>

\* A row that needs something is not asked about by a question that could wait.
LEMMA RowBlocks ==
  ASSUME NEW dr \in Drafts, NEW dep, Valid(dr), FindingsOf(dep, dr) = <<>>,
         NEW row \in ToSet(RowsOf(dep, dr)), row.action \in Needy \cup {"REQUIRES_HUMAN"},
         NEW q, Fact(q, dr, dep), q.path = AboutRow(row)
  PROVE  q.blocking
<1>1. CASE row.action = "REQUIRES_HUMAN"
  <2>1. q.path[1] = "handoff_rules" /\ Len(q.path) = 1
    BY <1>1 DEF AboutRow
  <2> QED BY <2>1 DEF Fact, Patient, HoleNames
<1>2. CASE row.action \in Needy
  <2>1. q.path[1] = "capabilities" /\ q.path[2] = row.cap
    BY <1>2 DEF AboutRow, Needy
  <2>2. Rows(RowsOf(dep, dr), dep.registry, dep.composition, dr)
    BY LawfulFound
  <2>3. RowKind(row, dep.registry, dep.composition, dr)
    BY <2>2, Elements DEF Rows
  <2> DEFINE ctx == ContextOf(dep)
  <2>4. ctx.registry = dep.registry /\ ctx.composition = dep.composition /\ ctx.tenants = {}
    BY DEF ContextOf
  <2>5. ToSet(_channels_and_composition(dr, ctx)) = {}
    BY NothingOfComposition
  <2> HIDE DEF ctx
  <2>6. RowKind(row, ctx.registry, ctx.composition, dr)
    BY <2>3, <2>4
  <2>7. ~Unchecked(ctx.registry, ctx.composition, row.cap)
    BY <1>2, <2>4, <2>5, <2>6, NothingLacks
  <2> QED BY <2>1, <2>4, <2>7 DEF Fact
<1> QED BY <1>1, <1>2

\* A draft is ready only when every row that needs something was answered for.
LEMMA RowsAnswered ==
  ASSUME NEW dr \in Drafts, NEW open \in Open, NEW dep, NEW answers, NEW deferrals, NEW questions,
         Deferred(deferrals, questions), \A q \in questions : Fact(q, dr, dep),
         Valid(dr), FindingsOf(dep, dr) = <<>>,
         discovery_complete(QuestionsOf(dep, dr, open, answers \cup deferrals)),
         NEW row \in ToSet(RowsOf(dep, dr)), row.action \in Needy \cup {"REQUIRES_HUMAN"}
  PROVE  AboutRow(row) \in answers
<1> DEFINE raw == RawOf(dep, dr, open)
           fs == FindingsOf(dep, dr)
           rows == RowsOf(dep, dr)
           G == open.gaps
           C == open.conflicts
           p == AboutRow(row)
<1>1. G \in SUBSET Gaps /\ C \in SUBSET Conflicts
  BY DEF Open
<1>2. Lawful(fs, rows, dr) /\ Rows(rows, dep.registry, dep.composition, dr)
  BY LawfulFound
<1>3. raw = RawQuestions(dr, G, C, fs, rows)
  BY DEF RawOf
<1>4. \A q \in Firsts(raw) : Fact(q, dr, dep)
  BY ShownAsks
<1>5. \A q \in Firsts(raw) : q.blocking => q.path \in answers \cup deferrals
  BY CompleteMeans
<1>6. \A q : Fact(q, dr, dep) /\ q.path = p => q.blocking
  BY RowBlocks
<1>7. row \in ToSet(rows)
  OBVIOUS
<1> HIDE DEF raw, fs, rows, G, C
<1>8. p \in Paths(_from_mapping(rows))
  <2>1. /\ row.action = "REQUIRES_HUMAN" => <<"handoff_rules">> \in Paths(_from_mapping(rows))
        /\ row.action \in Needy => <<"capabilities", row.cap>> \in Paths(_from_mapping(rows))
    BY <1>2, <1>7, MappingAsked
  <2>2. row.action = "REQUIRES_HUMAN" => row.action \notin Needy
    BY DEF Needy
  <2> QED BY <2>1, <2>2 DEF AboutRow
<1> HIDE DEF p
<1>9. PICK q \in Firsts(raw) : q.path = p
  <2> DEFINE r == RawQuestions(dr, G, C, fs, rows)
  <2>1. IsSeq(r) /\ Paths(_from_mapping(rows)) \subseteq Paths(r)
    BY <1>1, <1>2, RawAsksAll
  <2> HIDE DEF r
  <2>2. p \in Paths(r)
    BY <1>8, <2>1
  <2>3. \E q \in Firsts(r) : q.path = p
    BY <2>1, <2>2, EveryPathHasFirst
  <2> QED BY <1>3, <2>3 DEF r
<1>10. p \in answers \cup deferrals
  BY <1>4, <1>5, <1>6, <1>9
<1>11. p \notin deferrals
  BY <1>6 DEF Deferred
<1> QED BY <1>10, <1>11 DEF p

\* Ready for simulation: nothing is unsupported, and nothing is needed that was not answered for.
THEOREM ReadySupported == Spec => []ReadyIsSupported
<1>1. SessionInv => ReadyIsSupported
  <2> SUFFICES ASSUME SessionInv, view.readiness = "READY_FOR_SIMULATION",
                      NEW row \in view.requirements, Blocks(row), row.action # "UNVERIFIED"
               PROVE  AboutRow(row) \in answered
    BY DEF ReadyIsSupported, AboutRow
  <2>1. /\ draft \in Drafts /\ known \in Open /\ Deferred(deferred, asked)
        /\ \A q \in asked : Fact(q, draft, deployment)
    BY DEF SessionInv, AskedInv, Deferred
  <2>2. /\ FindingsOf(deployment, draft) = <<>> /\ Valid(draft)
        /\ discovery_complete(QuestionsOf(deployment, draft, known, answered \cup deferred))
        /\ row \in ToSet(RowsOf(deployment, draft))
    BY DEF SessionInv, Shows
  <2>3. row.action \in Needy \cup {"REQUIRES_HUMAN"}
    BY DEF Blocks, Needy
  <2> QED BY <2>1, <2>2, <2>3, RowsAnswered
<1> QED BY <1>1, SessionHolds, PTL

-----------------------------------------------------------------------------
(***************************************************************************)
(* Asking again.                                                           *)
(***************************************************************************)
\* A gap or a contradiction that was open is settled once discovery is complete; whatever else
\* blocks was settled too, whatever was open.
LEMMA AskedForKnowledge ==
  ASSUME NEW dr \in Drafts, NEW dep, NEW open \in Open, NEW later \in Open, NEW done,
         discovery_complete(QuestionsOf(dep, dr, open, done)),
         NEW q \in Firsts(RawOf(dep, dr, later)), q.blocking, q.path \notin done
  PROVE  \/ \E g \in later.gaps \ open.gaps : BlockingGap(g)
         \/ later.conflicts \ open.conflicts # {}
<1> DEFINE fs == FindingsOf(dep, dr)
           rows == RowsOf(dep, dr)
           G == open.gaps
           C == open.conflicts
           H == later.gaps
           D == later.conflicts
           raw == RawQuestions(dr, G, C, fs, rows)
           new == RawQuestions(dr, H, D, fs, rows)
<1>1. G \in SUBSET Gaps /\ C \in SUBSET Conflicts /\ H \in SUBSET Gaps /\ D \in SUBSET Conflicts
  BY DEF Open
<1>2. Lawful(fs, rows, dr)
  BY LawfulFound
<1>3. RawOf(dep, dr, open) = raw /\ RawOf(dep, dr, later) = new
  BY DEF RawOf
<1>4. \A x \in Firsts(raw) : x.blocking => x.path \in done
  BY <1>3, CompleteMeans
<1>5. q \in Firsts(new)
  BY <1>3
<1> HIDE DEF fs, rows, G, C, H, D
<1>6. OfKnowledge(q, H, D)
  BY <1>1, <1>2, <1>5, RawAsked
<1>7. /\ IsSeq(raw)
      /\ \A g \in G : <<"knowledge.gaps", g>> \in Paths(raw)
      /\ \A c \in C : <<"knowledge.contradictions", c>> \in Paths(raw)
  BY <1>1, <1>2, RawAsksAll
<1>8. \A x \in Firsts(raw) : OfKnowledge(x, G, C)
  BY <1>1, <1>2, RawAsked
<1>9. CASE q.path[1] \notin {"knowledge.gaps", "knowledge.contradictions"}
  <2>1. q \in Firsts(raw)
    BY <1>1, <1>2, <1>5, <1>9, SameElsewhere
  <2> QED BY <1>4, <2>1
<1> HIDE DEF raw, new
<1>10. CASE q.path[1] = "knowledge.gaps"
  <2>1. PICK g \in H : q.path = <<"knowledge.gaps", g>> /\ BlockingGap(g)
    BY <1>6, <1>10 DEF OfKnowledge
  <2>2. CASE g \in G
    <3>1. q.path \in Paths(raw)
      BY <1>7, <2>1, <2>2
    <3>2. PICK x \in Firsts(raw) : x.path = q.path
      BY <1>7, <3>1, EveryPathHasFirst
    <3>3. PICK h \in G : x.path = <<"knowledge.gaps", h>> /\ (x.blocking <=> BlockingGap(h))
      BY <1>8, <1>10, <3>2 DEF OfKnowledge
    <3>4. h = g
      BY <2>1, <3>2, <3>3
    <3> QED BY <1>4, <2>1, <3>2, <3>3, <3>4
  <2> QED BY <2>1, <2>2 DEF G, H
<1>11. CASE q.path[1] = "knowledge.contradictions"
  <2>1. PICK c \in D : q.path = <<"knowledge.contradictions", c>>
    BY <1>6, <1>11 DEF OfKnowledge
  <2>2. CASE c \in C
    <3>1. q.path \in Paths(raw)
      BY <1>7, <2>1, <2>2
    <3>2. PICK x \in Firsts(raw) : x.path = q.path
      BY <1>7, <3>1, EveryPathHasFirst
    <3>3. x.blocking
      BY <1>8, <1>11, <3>2 DEF OfKnowledge
    <3> QED BY <1>4, <3>2, <3>3
  <2> QED BY <2>1, <2>2 DEF C, D
<1> QED BY <1>9, <1>10, <1>11

\* The Copilot asks again only for a cause.
THEOREM AsksForCause == Spec => AsksAgainForCause
<1> DEFINE again == (view.status # "asking" /\ view'.status = "asking") =>
                       \/ draft' # draft \/ answered' # answered
                       \/ \E g \in known'.gaps \ known.gaps : BlockingGap(g)
                       \/ known'.conflicts \ known.conflicts # {}
<1>1. SessionInv /\ SessionInv' /\ [Next]_vars => [again]_vars
  <2> SUFFICES ASSUME SessionInv, SessionInv', [Next]_vars, view.status # "asking", view'.status = "asking",
                      draft' = draft, answered' = answered
               PROVE  \/ \E g \in known'.gaps \ known.gaps : BlockingGap(g)
                      \/ known'.conflicts \ known.conflicts # {}
    OBVIOUS
  <2>1. deployment' = deployment /\ deferred \subseteq deferred'
    BY DEF Next, Answer, Accept, Defer, Look, Publish, KnowledgeOpens, KnowledgeSettles, vars,
       session
  <2>2. /\ draft \in Drafts /\ known \in Open /\ known' \in Open
        /\ Valid(draft)
        /\ discovery_complete(QuestionsOf(deployment, draft, known, answered \cup deferred))
    BY DEF SessionInv, Shows
  <2>3. Valid(draft) => ~discovery_complete(QuestionsOf(deployment, draft, known', answered \cup deferred'))
    BY <2>1 DEF SessionInv, Shows
  <2>4. PICK q \in Firsts(RawOf(deployment, draft, known')) :
          q.blocking /\ q.path \notin answered \cup deferred'
    BY <2>2, <2>3, CompleteMeans
  <2>5. q.path \notin answered \cup deferred
    BY <2>1, <2>4
  <2> QED BY <2>2, <2>4, <2>5, AskedForKnowledge
<1> QED BY <1>1, SessionHolds, PTL DEF Spec, AsksAgainForCause

-----------------------------------------------------------------------------
(***************************************************************************)
(* The gates behind a publication.                                         *)
(***************************************************************************)
\* The control plane knows the tools the Copilot knows.
LEMMA StoreAlike ==
  ASSUME NEW dr
  PROVE  /\ Alike(ContextOf(deployment), StoreContext(dr))
         /\ StoreContext(dr).conflicts = knowledge.conflicts
         /\ StoreContext(dr).decls = {d \in ToolDecls : d.tool \notin Permitted(dr)}
                                       \cup {p \in dr.permissions : \E d \in ToolDecls : d.tool = p.tool}
<1> DEFINE ctx == ContextOf(deployment)
           decls == {d \in ToolDecls : d.tool \notin Permitted(dr)}
                      \cup {p \in dr.permissions : \E d \in ToolDecls : d.tool = p.tool}
           store == [ctx EXCEPT !.decls = decls, !.conflicts = knowledge.conflicts]
<1>1. StoreContext(dr) = store
  BY DEF StoreContext, CopilotContext, ContextOf
<1>2. {d.tool : d \in decls} = {d.tool : d \in ToolDecls}
  BY DEF Permitted
<1> HIDE DEF decls
<1>3. /\ store.composition = ctx.composition /\ store.registry = ctx.registry
      /\ store.tenants = ctx.tenants /\ store.packs = ctx.packs /\ store.voices = ctx.voices
      /\ store.rejected = ctx.rejected /\ store.strict = ctx.strict
      /\ store.decls = decls /\ store.conflicts = knowledge.conflicts /\ ctx.decls = ToolDecls
  BY DEF ContextOf
<1> HIDE DEF store, ctx
<1>4. Alike(ctx, store)
  BY <1>2, <1>3 DEF Alike
<1> QED BY <1>1, <1>3, <1>4 DEF ctx, decls

\* What blocks in a part of its preflight blocks there.
LEMMA StoreBlocks ==
  ASSUME SessionInv, NEW f, f \in PartsOf(draft, StoreContext(draft)), f.severity = "BLOCK"
  PROVE  BlockedByStore(draft)
<1> DEFINE store == StoreContext(draft)
           fs == Findings(draft, store, {}, {})
<1>1. Unapproved(decisions) = {} /\ Waived(decisions) = {}
  BY NothingOpen DEF SessionInv, DecisionsApproved
<1>2. store.tenants = {} /\ store.rejected = {}
  BY StoreAlike DEF Alike, ContextOf
<1>3. draft \in Drafts /\ f \in PartsOf(draft, store)
  BY DEF SessionInv
<1>4. BlockedByStore(draft) = Blocked(fs)
  BY <1>1 DEF BlockedByStore
<1> HIDE DEF store
<1>5. f \in ToSet(fs)
  BY <1>2, <1>3, FindingsFound
<1> HIDE DEF fs
<1>6. Blocked(fs)
  BY <1>5 DEF Blocked, ToSet
<1> QED BY <1>4, <1>6

\* A tool whose permission is only warned about, and blocks, has two: the control plane sees that
\* they disagree.
LEMMA TwoPermissions ==
  ASSUME NEW dr \in Drafts, NEW dep, NEW f \in ToSet(_tools(dr, ContextOf(dep), {})),
         f.path[1] = "tools.permissions", f.severity = "BLOCK", WarnedRead(dr, f.path[2])
  PROVE  \E g \in ToSet(_tools(dr, StoreContext(dr), {})) : g.severity = "BLOCK"
<1> DEFINE ctx == ContextOf(dep)
           store == StoreContext(dr)
           t == f.path[2]
<1>1. ctx.decls = ToolDecls
  BY DEF ContextOf
<1>2. store.decls = {d \in ToolDecls : d.tool \notin Permitted(dr)}
                      \cup {p \in dr.permissions : \E d \in ToolDecls : d.tool = p.tool}
  BY StoreAlike
<1>3. f \in ToSet(_tools(dr, ctx, {}))
  OBVIOUS
<1> HIDE DEF ctx, store
<1>4. PICK p \in dr.permissions, d \in ToolDecls :
        p.tool = t /\ d.tool = t /\ (d.impact # p.impact \/ p.impact = "write")
  BY <1>1, <1>3, ToolsFound
<1>5. PICK r \in dr.permissions :
        r.tool = t /\ r.impact = "read" /\ \A x \in ToolDecls : x.tool = t => x.impact = "read"
  BY DEF WarnedRead
<1>6. p.impact # "read"
  BY <1>4, <1>5
<1>7. r \in store.decls /\ r.tool = p.tool /\ r.impact # p.impact
  BY <1>2, <1>4, <1>5, <1>6
<1>8. \E g \in ToSet(_tools(dr, store, {})) : g.severity = "BLOCK"
  BY <1>7, ToolsFound
<1> QED BY <1>8 DEF store

\* A permission that blocks is published only when its question could wait: a first finding about
\* the tool only warns.
LEMMA PublishedPermission ==
  ASSUME NEW dr \in Drafts, NEW open \in Open, NEW dep, NEW answers, NEW deferrals, NEW questions,
         Deferred(deferrals, questions), \A q \in questions : Fact(q, dr, dep),
         \A p \in answers : p[1] # "tools.permissions",
         discovery_complete(QuestionsOf(dep, dr, open, answers \cup deferrals)),
         NEW f \in ToSet(FindingsOf(dep, dr)), f.path[1] = "tools.permissions"
  PROVE  WarnedRead(dr, f.path[2])
<1> DEFINE raw == RawOf(dep, dr, open)
           fs == FindingsOf(dep, dr)
           rows == RowsOf(dep, dr)
           G == open.gaps
           C == open.conflicts
<1>1. G \in SUBSET Gaps /\ C \in SUBSET Conflicts
  BY DEF Open
<1>2. Lawful(fs, rows, dr)
  BY LawfulFound
<1>3. raw = RawQuestions(dr, G, C, fs, rows)
  BY DEF RawOf
<1>4. \A q \in Firsts(raw) : Fact(q, dr, dep)
  BY ShownAsks
<1>5. \A q \in Firsts(raw) : q.blocking => q.path \in answers \cup deferrals
  BY CompleteMeans
<1>6. f \in ToSet(fs)
  OBVIOUS
<1> HIDE DEF raw, fs, rows, G, C
<1>7. PICK q \in Firsts(raw) : q.path = f.path
  <2> DEFINE r == RawQuestions(dr, G, C, fs, rows)
  <2>1. IsSeq(r) /\ f.path \in Paths(r)
    BY <1>1, <1>2, <1>6, RawAsksAll
  <2> HIDE DEF r
  <2>2. \E q \in Firsts(r) : q.path = f.path
    BY <2>1, EveryPathHasFirst
  <2> QED BY <1>3, <2>2 DEF r
<1>8. CASE q.blocking
  <2>1. q.path \in deferrals
    BY <1>5, <1>7, <1>8
  <2>2. PICK x \in questions : x.path = q.path /\ ~x.blocking
    BY <2>1 DEF Deferred
  <2> QED BY <1>7, <2>2 DEF Fact
<1>9. CASE ~q.blocking
  BY <1>4, <1>7, <1>9 DEF Fact
<1> QED BY <1>8, <1>9

\* What the Copilot publishes although it blocks, or with a contradiction, the control plane blocks.
LEMMA GatedPublish ==
  ASSUME SessionInv, Publish, BlockedBy(published'[1].findings) \/ knowledge.conflicts # {}
  PROVE  BlockedByStore(published'[1].blueprint)
<1> DEFINE fs == FindingsOf(deployment, draft)
           ctx == ContextOf(deployment)
           store == StoreContext(draft)
<1>1. PICK p :
        /\ Shows(p, deployment, draft, known, answered \cup deferred)
        /\ p.valid /\ discovery_complete(p.questions)
        /\ published' = <<[blueprint |-> draft, findings |-> p.findings]>>
  BY PublishShows
<1>2. published'[1].blueprint = draft /\ published'[1].findings = ToSet(fs)
  BY <1>1 DEF Shows
<1>3. /\ Valid(draft) /\ draft \in Drafts /\ known \in Open /\ Deferred(deferred, asked)
      /\ discovery_complete(QuestionsOf(deployment, draft, known, answered \cup deferred))
      /\ \A q \in asked : Fact(q, draft, deployment)
  BY <1>1 DEF Shows, SessionInv, AskedInv, Deferred
<1>4. \A x \in answered : x[1] # "tools.permissions"
  BY <1>3 DEF SessionInv, AskedInv, Valid
<1>5. /\ Alike(ctx, store) /\ store.conflicts = knowledge.conflicts
      /\ ctx.tenants = {} /\ ctx.rejected = {} /\ ctx.conflicts = {}
  BY StoreAlike DEF ContextOf
<1>6. fs = Findings(draft, ctx, {}, {})
  BY <1>3 DEF FindingsOf
<1>7. store.tenants = {} /\ store.rejected = {}
  BY <1>5 DEF Alike
<1>8. Mixed(fs, _tools(draft, ctx, {}), draft)
  BY <1>3, LawfulFound
<1>9. \A f \in ToSet(fs) : f.path[1] = "tools.permissions" => WarnedRead(draft, f.path[2])
  BY <1>3, <1>4, PublishedPermission
<1>10. ASSUME NEW f, f.severity = "BLOCK", f \in PartsOf(draft, store) PROVE BlockedByStore(draft)
  BY <1>10, StoreBlocks
<1>11. \A f \in ToSet(_tools(draft, ctx, {})) :
         f.path[1] = "tools.permissions" /\ f.severity = "BLOCK" /\ WarnedRead(draft, f.path[2]) =>
           \E g \in ToSet(_tools(draft, store, {})) : g.severity = "BLOCK"
  BY <1>3, TwoPermissions
<1> HIDE DEF fs, ctx, store
<1>12. CASE knowledge.conflicts # {}
  <2>1. PICK f \in ToSet(_knowledge(draft, store)) : f.severity = "BLOCK"
    BY <1>3, <1>5, <1>12, KnowledgeFine
  <2>2. f \in PartsOf(draft, store)
    BY <2>1 DEF PartsOf
  <2> QED BY <1>2, <1>10, <2>1, <2>2
<1>13. CASE BlockedBy(published'[1].findings)
  <2>1. PICK f \in ToSet(fs) : f.severity = "BLOCK"
    BY <1>2, <1>13 DEF BlockedBy
  <2>2. CASE f.path[1] # "tools.permissions"
    <3>1. f \in ToSet(Findings(draft, store, {}, {}))
      BY <1>3, <1>5, <1>6, <2>1, <2>2, FoundAgain
    <3>2. f \in PartsOf(draft, store)
      BY <1>3, <1>7, <3>1, FindingsFound
    <3> QED BY <1>2, <1>10, <2>1, <3>2
  <2>3. CASE f.path[1] = "tools.permissions"
    <3>1. f \in ToSet(_tools(draft, ctx, {})) /\ WarnedRead(draft, f.path[2])
      BY <1>8, <1>9, <2>1, <2>3 DEF Mixed
    <3>2. PICK g \in ToSet(_tools(draft, store, {})) : g.severity = "BLOCK"
      BY <1>11, <2>1, <2>3, <3>1
    <3>3. g \in PartsOf(draft, store)
      BY <3>2 DEF PartsOf
    <3> QED BY <1>2, <1>10, <3>2, <3>3
  <2> QED BY <2>2, <2>3
<1> QED BY <1>12, <1>13

\* The gates of the control plane catch what the Copilot publishes all the same.
THEOREM PublicationGated == Spec => PublicationIsGated
<1> DEFINE gated == (published' # published /\ (BlockedBy(published'[1].findings) \/ knowledge.conflicts # {}))
                      => BlockedByStore(published'[1].blueprint)
<1>1. SessionInv /\ [Next]_vars => [gated]_vars
  <2> SUFFICES ASSUME SessionInv, [Next]_vars, published' # published,
                      BlockedBy(published'[1].findings) \/ knowledge.conflicts # {}
               PROVE  BlockedByStore(published'[1].blueprint)
    OBVIOUS
  <2>1. Publish
    BY DEF Next, Answer, Accept, Defer, Look, KnowledgeOpens, KnowledgeSettles, vars
  <2> QED BY <2>1, GatedPublish
<1> QED BY <1>1, SessionHolds, PTL DEF Spec, PublicationIsGated

=============================================================================
