-------------------------- MODULE ConnectionProofs --------------------------
(***************************************************************************)
(* What holds of a connection for any limit of its queue and any number of *)
(* items.  Two arguments.  What is kept of the input is followed from the  *)
(* transport's queue through the session's inbox to its handler: taking an *)
(* item on changes nothing of it, a full queue takes one audio frame out   *)
(* of its middle.  And nothing of a connection outlives its handler,       *)
(* because a session's task is over only when its close sequence shut the  *)
(* transport, when it failed, or when the handler gave it up.              *)
(***************************************************************************)
EXTENDS Connection, SequenceTheorems, WellFoundedInduction, TLAPS

Input == Items \cup {End}

Accounted == dropped <= Len(accepted) /\ Len(accepted) <= MaxItems

\* A task that is over shut its transport, or its handler no longer receives.
WhyOver ==
  /\ closing = "done" => shut
  /\ run = "teardown" /\ closing = "none" => handler # "receiving"
  /\ run = "done" => shut \/ handler # "receiving"
  /\ handler # "receiving" => ~heartbeat
  /\ handler = "returned" => run = "done" /\ shut

\* The items are numbered as they come in.
Numbered(acc) == \A m \in DOMAIN acc : acc[m].n = m

\* What is kept (k) of what was accepted (acc): nothing else, every control message, in order.
Faithful(k, acc) ==
  /\ \A i \in DOMAIN k : k[i] # End => k[i].n \in DOMAIN acc /\ acc[k[i].n] = k[i]
  /\ \A m \in DOMAIN acc : acc[m].kind = "control" => \E i \in DOMAIN k : k[i] = acc[m]
  /\ \A i, j \in DOMAIN k : i < j /\ k[i] # End /\ k[j] # End => k[i].n < k[j].n

IInv ==
  /\ TypeOK /\ Accounted /\ WhyOver
  /\ Numbered(accepted) /\ Faithful(Kept, accepted)
  /\ Len(Kept) + dropped = Len(accepted) + Ended
  /\ BacklogIsControl

-----------------------------------------------------------------------------
(***************************************************************************)
(* The queue                                                               *)
(***************************************************************************)
\* An item is taken from one queue to the next: both together stay as they were.
LEMMA TakenOn ==
  ASSUME NEW S, NEW a \in Seq(S), NEW b \in Seq(S), b # <<>>
  PROVE  Append(a, Head(b)) \o Tail(b) = a \o b
<1> DEFINE l == Append(a, Head(b)) \o Tail(b)
           r == a \o b
<1>1. Append(a, Head(b)) \in Seq(S) /\ Tail(b) \in Seq(S) /\ Len(b) \in Nat \ {0}
  OBVIOUS
<1>2. l \in Seq(S) /\ r \in Seq(S)
  BY <1>1
<1>3. Len(l) = Len(r)
  BY <1>1
<1>4. \A i \in 1..Len(l) : l[i] = r[i]
  BY <1>1
<1> HIDE DEF l, r
<1>5. l = r
  BY <1>2, <1>3, <1>4, SeqEqual
<1> QED BY <1>5 DEF l, r

\* Appending to the middle of two sequences.
LEMMA AppendedBehind ==
  ASSUME NEW S, NEW a \in Seq(S), NEW b \in Seq(S), NEW x \in S
  PROVE  a \o Append(b, x) = Append(a \o b, x)
<1> DEFINE l == a \o Append(b, x)
           r == Append(a \o b, x)
<1>1. l \in Seq(S) /\ r \in Seq(S) /\ Len(l) = Len(r)
  OBVIOUS
<1>2. \A i \in 1..Len(l) : l[i] = r[i]
  OBVIOUS
<1> HIDE DEF l, r
<1>3. l = r
  BY <1>1, <1>2, SeqEqual
<1> QED BY <1>3 DEF l, r

\* The oldest audio frame of a queue that holds one is in it.
LEMMA OldestAudio ==
  ASSUME NEW S, NEW q \in Seq(S), AudioIn(q) # {},
         NEW i, i = CHOOSE x \in AudioIn(q) : \A y \in AudioIn(q) : x <= y
  PROVE  i \in 1..Len(q) /\ q[i].kind = "audio"
<1>1. AudioIn(q) \subseteq Nat
  BY DEF AudioIn
<1>2. PICK x \in AudioIn(q) : \A y \in AudioIn(q) : ~(<<y, x>> \in OpToRel(<, Nat))
  BY <1>1, NatLessThanWellFounded, WFMin
<1>3. \A y \in AudioIn(q) : x <= y
  <2> SUFFICES ASSUME NEW y \in AudioIn(q), ~(x <= y) PROVE FALSE
    OBVIOUS
  <2>1. x \in Nat /\ y \in Nat
    BY <1>1
  <2>2. <<y, x>> \in OpToRel(<, Nat)
    BY <2>1 DEF OpToRel
  <2> QED BY <1>2, <2>2
<1>4. i \in AudioIn(q)
  BY <1>3
<1>5. i \in DOMAIN q /\ q[i].kind = "audio"
  BY <1>4 DEF AudioIn
<1> QED BY <1>5

\* Without its item at i a sequence is shorter by one, the later items each one place ahead.
LEMMA Removed ==
  ASSUME NEW S, NEW q \in Seq(S), NEW i \in 1..Len(q)
  PROVE  /\ RemoveAt(q, i) \in Seq(S)
         /\ Len(RemoveAt(q, i)) = Len(q) - 1
         /\ \A j \in 1..(Len(q) - 1) : RemoveAt(q, i)[j] = IF j < i THEN q[j] ELSE q[j + 1]
<1> DEFINE b == SubSeq(q, 1, i - 1)
           e == SubSeq(q, i + 1, Len(q))
<1>1. b \in Seq(S) /\ Len(b) = i - 1 /\ \A j \in 1..(i - 1) : b[j] = q[j]
  OBVIOUS
<1>2. e \in Seq(S) /\ Len(e) = Len(q) - i /\ \A j \in 1..(Len(q) - i) : e[j] = q[i + j]
  OBVIOUS
<1>3. RemoveAt(q, i) = b \o e
  BY DEF RemoveAt
<1> HIDE DEF b, e
<1>4. Len(q) \in Nat
  OBVIOUS
<1>5. b \o e \in Seq(S) /\ Len(b \o e) = Len(q) - 1
  <2>1. b \in Seq(S) /\ e \in Seq(S) /\ Len(b) = i - 1 /\ Len(e) = Len(q) - i
    BY <1>1, <1>2
  <2>2. b \o e \in Seq(S) /\ Len(b \o e) = Len(b) + Len(e)
    BY <2>1, ConcatProperties
  <2>3. i \in Nat /\ (i - 1) + (Len(q) - i) = Len(q) - 1
    BY <1>4
  <2> QED BY <2>1, <2>2, <2>3
<1>6. \A j \in 1..(Len(q) - 1) : (b \o e)[j] = IF j <= i - 1 THEN b[j] ELSE e[j - (i - 1)]
  BY <1>1, <1>2, <1>4, ConcatProperties
<1>7. ASSUME NEW j \in 1..(Len(q) - 1) PROVE (b \o e)[j] = IF j < i THEN q[j] ELSE q[j + 1]
  <2>1. CASE j < i
    BY <1>1, <1>4, <1>6, <2>1
  <2>2. CASE ~(j < i)
    <3> DEFINE m == j - (i - 1)
    <3>1. m \in 1..(Len(q) - i) /\ i + m = j + 1
      BY <1>4, <2>2
    <3>2. (b \o e)[j] = e[m]
      <4>1. ~(j <= i - 1)
        BY <1>4, <2>2
      <4> QED BY <1>6, <4>1
    <3> HIDE DEF m
    <3>3. e[m] = q[i + m]
      BY <1>2, <3>1
    <3> QED BY <2>2, <3>1, <3>2, <3>3
  <2> QED BY <2>1, <2>2
<1> QED BY <1>3, <1>5, <1>7

-----------------------------------------------------------------------------
(***************************************************************************)
(* What is kept                                                            *)
(***************************************************************************)
\* Dropping an audio frame leaves what is kept faithful.
LEMMA FaithfulWithout ==
  ASSUME NEW k \in Seq(Input), NEW k2 \in Seq(Input), NEW acc \in Seq(Items), Faithful(k, acc),
         NEW p \in 1..Len(k), k[p].kind = "audio", Len(k2) = Len(k) - 1,
         \A j \in 1..(Len(k) - 1) : k2[j] = IF j < p THEN k[j] ELSE k[j + 1]
  PROVE  Faithful(k2, acc)
<1> DEFINE at(j) == IF j < p THEN j ELSE j + 1
<1>1. Len(k) \in Nat /\ p \in Nat
  OBVIOUS
<1>2. DOMAIN k = 1..Len(k) /\ DOMAIN k2 = 1..(Len(k) - 1)
  OBVIOUS
<1>3. \A j \in DOMAIN k2 : at(j) \in DOMAIN k /\ k2[j] = k[at(j)]
  BY <1>1, <1>2
<1>4. \A j, m \in DOMAIN k2 : j < m => at(j) < at(m)
  BY <1>1, <1>2
<1>5. \A i \in DOMAIN k \ {p} : \E j \in DOMAIN k2 : at(j) = i
  <2> SUFFICES ASSUME NEW i \in DOMAIN k \ {p} PROVE \E j \in DOMAIN k2 : at(j) = i
    OBVIOUS
  <2>1. CASE i < p
    <3>1. i \in DOMAIN k2 /\ at(i) = i
      BY <1>1, <1>2, <2>1
    <3> QED BY <3>1
  <2>2. CASE ~(i < p)
    <3>1. i - 1 \in DOMAIN k2 /\ at(i - 1) = i
      BY <1>1, <1>2, <2>2
    <3> QED BY <3>1
  <2> QED BY <2>1, <2>2
<1> HIDE DEF at
<1>6. \A i \in DOMAIN k2 : k2[i] # End => k2[i].n \in DOMAIN acc /\ acc[k2[i].n] = k2[i]
  BY <1>3 DEF Faithful
<1>7. ASSUME NEW m \in DOMAIN acc, acc[m].kind = "control" PROVE \E j \in DOMAIN k2 : k2[j] = acc[m]
  <2>1. PICK i \in DOMAIN k : k[i] = acc[m]
    BY <1>7 DEF Faithful
  <2>2. i # p
    BY <1>7, <2>1
  <2>3. PICK j \in DOMAIN k2 : at(j) = i
    BY <1>5, <2>2
  <2> QED BY <1>3, <2>1, <2>3
<1>8. \A i, j \in DOMAIN k2 : i < j /\ k2[i] # End /\ k2[j] # End => k2[i].n < k2[j].n
  BY <1>3, <1>4 DEF Faithful
<1> QED BY <1>6, <1>7, <1>8 DEF Faithful

\* So does making room in the queue, which takes one audio frame out of it or nothing.
LEMMA RoomKeeps ==
  ASSUME NEW a \in Seq(Input), NEW q \in Seq(Input), NEW acc \in Seq(Items), Faithful(a \o q, acc)
  PROVE  /\ Room(q) \in Seq(Input)
         /\ Len(Room(q)) = IF Len(q) < QueueMax \/ AudioIn(q) = {} THEN Len(q) ELSE Len(q) - 1
         /\ Faithful(a \o Room(q), acc)
<1>1. CASE Len(q) < QueueMax \/ AudioIn(q) = {}
  BY <1>1 DEF Room
<1>2. CASE ~(Len(q) < QueueMax \/ AudioIn(q) = {})
  <2> DEFINE i == CHOOSE x \in AudioIn(q) : \A y \in AudioIn(q) : x <= y
             k == a \o q
             k2 == a \o RemoveAt(q, i)
             p == Len(a) + i
  <2>1. Room(q) = RemoveAt(q, i)
    BY <1>2 DEF Room
  <2>2. i \in 1..Len(q) /\ q[i].kind = "audio"
    BY <1>2, OldestAudio
  <2> HIDE DEF i
  <2>3. RemoveAt(q, i) \in Seq(Input) /\ Len(RemoveAt(q, i)) = Len(q) - 1
    BY <2>2, Removed
  <2>4. \A j \in 1..(Len(q) - 1) : RemoveAt(q, i)[j] = IF j < i THEN q[j] ELSE q[j + 1]
    BY <2>2, Removed
  <2>5. Len(a) \in Nat /\ Len(q) \in Nat
    OBVIOUS
  <2>6. /\ k \in Seq(Input) /\ Len(k) = Len(a) + Len(q)
        /\ \A j \in 1..(Len(a) + Len(q)) : k[j] = IF j <= Len(a) THEN a[j] ELSE q[j - Len(a)]
    BY ConcatProperties
  <2>7. /\ k2 \in Seq(Input) /\ Len(k2) = Len(a) + (Len(q) - 1)
        /\ \A j \in 1..(Len(a) + (Len(q) - 1)) :
             k2[j] = IF j <= Len(a) THEN a[j] ELSE RemoveAt(q, i)[j - Len(a)]
    <3> DEFINE w == RemoveAt(q, i)
    <3>1. w \in Seq(Input) /\ Len(w) = Len(q) - 1
      BY <2>3
    <3> HIDE DEF w
    <3>2. /\ a \o w \in Seq(Input) /\ Len(a \o w) = Len(a) + Len(w)
          /\ \A j \in 1..(Len(a) + Len(w)) : (a \o w)[j] = IF j <= Len(a) THEN a[j] ELSE w[j - Len(a)]
      BY <3>1, ConcatProperties
    <3>3. k2 = a \o w
      BY DEF w
    <3> HIDE DEF k2
    <3>4. /\ k2 \in Seq(Input) /\ Len(k2) = Len(a) + (Len(q) - 1)
          /\ \A j \in 1..(Len(a) + (Len(q) - 1)) : k2[j] = IF j <= Len(a) THEN a[j] ELSE w[j - Len(a)]
      BY <3>1, <3>2, <3>3
    <3> QED BY <3>4 DEF w
  <2> HIDE DEF k, k2
  <2>8. p \in 1..Len(k) /\ k[p] = q[i]
    <3>1. p \in 1..(Len(a) + Len(q)) /\ ~(p <= Len(a)) /\ p - Len(a) = i
      BY <2>2, <2>5
    <3> HIDE DEF p
    <3> QED BY <2>6, <3>1
  <2>9. ASSUME NEW j \in 1..(Len(k) - 1) PROVE k2[j] = IF j < p THEN k[j] ELSE k[j + 1]
    <3>1. j \in 1..(Len(a) + (Len(q) - 1)) /\ j \in 1..(Len(a) + Len(q)) /\ j + 1 \in 1..(Len(a) + Len(q))
      BY <2>5, <2>6
    <3>2. CASE j <= Len(a)
      <4>1. k2[j] = a[j] /\ k[j] = a[j] /\ j < p
        BY <2>2, <2>5, <2>6, <2>7, <3>1, <3>2
      <4> QED BY <4>1
    <3>3. CASE ~(j <= Len(a))
      <4> DEFINE l == j - Len(a)
      <4>1. l \in 1..(Len(q) - 1) /\ ~(j + 1 <= Len(a)) /\ (j + 1) - Len(a) = l + 1 /\ (l < i <=> j < p)
        BY <2>2, <2>5, <3>1, <3>3
      <4>2. k2[j] = RemoveAt(q, i)[l] /\ k[j] = q[l]
        BY <2>6, <2>7, <3>1, <3>3
      <4>3. k[j + 1] = q[(j + 1) - Len(a)]
        BY <2>6, <3>1, <4>1
      <4> HIDE DEF l, p
      <4> QED BY <2>4, <4>1, <4>2, <4>3
    <3> QED BY <3>2, <3>3
  <2> HIDE DEF p
  <2>10. Len(k2) = Len(k) - 1
    BY <2>5, <2>6, <2>7
  <2>11. Faithful(k, acc)
    BY DEF k
  <2>12. Faithful(k2, acc)
    BY <2>2, <2>6, <2>7, <2>8, <2>9, <2>10, <2>11, FaithfulWithout
  <2> QED BY <1>2, <2>1, <2>3, <2>12 DEF k2
<1> QED BY <1>1, <1>2

\* The next item keeps what is kept faithful, and so does the end of the input.
LEMMA FaithfulWith ==
  ASSUME NEW k \in Seq(Input), NEW acc \in Seq(Items), Numbered(acc), Faithful(k, acc),
         NEW x \in Items, x.n = Len(acc) + 1
  PROVE  Faithful(Append(k, x), Append(acc, x)) /\ Numbered(Append(acc, x))
<1> DEFINE k2 == Append(k, x)
           acc2 == Append(acc, x)
<1>1. Len(k) \in Nat /\ Len(acc) \in Nat /\ DOMAIN k = 1..Len(k) /\ DOMAIN acc = 1..Len(acc)
  OBVIOUS
<1>2. DOMAIN k2 = 1..(Len(k) + 1) /\ k2[Len(k) + 1] = x /\ \A i \in DOMAIN k : k2[i] = k[i]
  OBVIOUS
<1>3. /\ DOMAIN acc2 = 1..(Len(acc) + 1) /\ acc2[Len(acc) + 1] = x
      /\ \A i \in DOMAIN acc : acc2[i] = acc[i]
  OBVIOUS
<1> HIDE DEF k2, acc2
<1>4. \A i \in DOMAIN k2 : i \in DOMAIN k \/ i = Len(k) + 1
  BY <1>1, <1>2
<1>5. \A i \in DOMAIN acc2 : i \in DOMAIN acc \/ i = Len(acc) + 1
  BY <1>1, <1>3
<1>6. Numbered(acc2)
  BY <1>3, <1>5 DEF Numbered
<1>7. \A i \in DOMAIN k2 : k2[i] # End => k2[i].n \in DOMAIN acc2 /\ acc2[k2[i].n] = k2[i]
  <2> SUFFICES ASSUME NEW i \in DOMAIN k2, k2[i] # End
               PROVE  k2[i].n \in DOMAIN acc2 /\ acc2[k2[i].n] = k2[i]
    OBVIOUS
  <2>1. CASE i \in DOMAIN k
    <3>1. k[i].n \in DOMAIN acc /\ acc[k[i].n] = k[i] /\ k2[i] = k[i]
      BY <1>2, <2>1 DEF Faithful
    <3>2. k[i].n \in DOMAIN acc2
      BY <1>1, <1>3, <3>1
    <3> QED BY <1>3, <3>1, <3>2
  <2>2. CASE i = Len(k) + 1
    BY <1>1, <1>2, <1>3, <2>2
  <2> QED BY <1>4, <2>1, <2>2
<1>8. ASSUME NEW m \in DOMAIN acc2, acc2[m].kind = "control" PROVE \E i \in DOMAIN k2 : k2[i] = acc2[m]
  <2>1. CASE m \in DOMAIN acc
    <3>1. PICK i \in DOMAIN k : k[i] = acc[m]
      BY <1>3, <1>8, <2>1 DEF Faithful
    <3>2. i \in DOMAIN k2
      BY <1>1, <1>2
    <3> QED BY <1>2, <1>3, <2>1, <3>1, <3>2
  <2>2. CASE m = Len(acc) + 1
    <3>1. Len(k) + 1 \in DOMAIN k2
      BY <1>1, <1>2
    <3> QED BY <1>2, <1>3, <2>2, <3>1
  <2> QED BY <1>5, <2>1, <2>2
<1>9. ASSUME NEW i \in DOMAIN k2, NEW j \in DOMAIN k2, i < j, k2[i] # End, k2[j] # End
      PROVE  k2[i].n < k2[j].n
  <2>1. i \in DOMAIN k
    BY <1>1, <1>2, <1>4, <1>9
  <2>2. CASE j \in DOMAIN k
    BY <1>2, <1>9, <2>1, <2>2 DEF Faithful
  <2>3. CASE j = Len(k) + 1
    <3>1. k[i].n \in DOMAIN acc
      BY <1>2, <1>9, <2>1 DEF Faithful
    <3>2. k2[i].n \in 1..Len(acc) /\ k2[j].n = Len(acc) + 1
      BY <1>1, <1>2, <2>1, <2>3, <3>1
    <3> QED BY <1>1, <3>2
  <2> QED BY <1>4, <2>2, <2>3
<1>10. Faithful(k2, acc2)
  BY <1>7, <1>8, <1>9 DEF Faithful
<1> QED BY <1>6, <1>10 DEF k2, acc2

\* The end of the input, put behind what is kept, leaves the control messages as they were.
LEMMA FaithfulToTheEnd ==
  ASSUME NEW k \in Seq(Input), NEW acc \in Seq(Items), Faithful(k, acc)
  PROVE  Faithful(Append(k, End), acc)
<1> DEFINE k2 == Append(k, End)
<1>1. Len(k) \in Nat /\ DOMAIN k = 1..Len(k)
  OBVIOUS
<1>2. DOMAIN k2 = 1..(Len(k) + 1) /\ k2[Len(k) + 1] = End /\ \A i \in DOMAIN k : k2[i] = k[i]
  BY DEF Input
<1> HIDE DEF k2
<1>3. \A i \in DOMAIN k2 : k2[i] # End => i \in DOMAIN k
  BY <1>1, <1>2
<1>4. \A i \in DOMAIN k : i \in DOMAIN k2
  BY <1>1, <1>2
<1>5. Faithful(k2, acc)
  BY <1>2, <1>3, <1>4 DEF Faithful
<1> QED BY <1>5 DEF k2


-----------------------------------------------------------------------------
(***************************************************************************)
(* The backlog                                                             *)
(***************************************************************************)
\* At most one audio frame
AudioIsOne(q) == \A i, j \in AudioIn(q) : i = j

\* Room is made until one audio frame is left: after an input has been put, a queue above its
\* bound holds one audio frame at most.
LEMMA RoomForOne ==
  ASSUME NEW q \in Seq(Input), NEW x \in Input, Len(q) > QueueMax => AudioIsOne(q)
  PROVE  Len(Append(Room(q), x)) > QueueMax => AudioIsOne(Append(Room(q), x))
<1> DEFINE q2 == Append(Room(q), x)
<1>0. QueueMax \in Nat /\ Len(q) \in Nat
  BY BoundsAreNat
<1>1. CASE Len(q) < QueueMax
  <2>1. Room(q) = q
    BY <1>1 DEF Room
  <2> QED BY <1>0, <1>1, <2>1
<1>2. CASE ~(Len(q) < QueueMax) /\ AudioIn(q) = {}
  <2>1. Room(q) = q
    BY <1>2 DEF Room
  <2>2. \A i \in AudioIn(q2) : i = Len(q) + 1
    BY <1>0, <1>2, <2>1 DEF AudioIn
  <2> QED BY <2>2 DEF AudioIsOne
<1>3. CASE ~(Len(q) < QueueMax) /\ AudioIn(q) # {}
  <2> DEFINE i == CHOOSE z \in AudioIn(q) : \A y \in AudioIn(q) : z <= y
             w == RemoveAt(q, i)
  <2>1. Room(q) = w
    BY <1>3 DEF Room
  <2>2. i \in 1..Len(q) /\ q[i].kind = "audio"
    BY <1>3, OldestAudio
  <2> HIDE DEF i
  <2>3. w \in Seq(Input) /\ Len(w) = Len(q) - 1
    BY <2>2, Removed
  <2>4. \A j \in 1..(Len(q) - 1) : w[j] = IF j < i THEN q[j] ELSE q[j + 1]
    BY <2>2, Removed
  <2> HIDE DEF w
  <2>5. Len(q2) = Len(q) /\ DOMAIN q2 = 1..Len(q) /\ \A j \in 1..(Len(q) - 1) : q2[j] = w[j]
    BY <1>0, <2>1, <2>2, <2>3
  <2>6. ASSUME Len(q2) > QueueMax, NEW j \in AudioIn(q2) PROVE j = Len(q)
    <3>1. AudioIsOne(q)
      BY <2>5, <2>6
    <3>2. SUFFICES ASSUME j # Len(q) PROVE FALSE
      OBVIOUS
    <3>3. j \in 1..Len(q) /\ q2[j].kind = "audio"
      BY <2>5, <2>6 DEF AudioIn
    <3>4. j \in 1..(Len(q) - 1)
      BY <1>0, <3>2, <3>3
    <3>5. i \in AudioIn(q)
      BY <2>2 DEF AudioIn
    <3>6. CASE j < i
      <4>1. j \in AudioIn(q)
        BY <2>4, <2>5, <3>3, <3>4, <3>6 DEF AudioIn
      <4> QED BY <3>1, <3>5, <3>6, <4>1, <2>2 DEF AudioIsOne
    <3>7. CASE ~(j < i)
      <4>1. q[j + 1].kind = "audio" /\ j + 1 \in 1..Len(q)
        BY <1>0, <2>4, <2>5, <3>3, <3>4, <3>7
      <4>2. j + 1 \in AudioIn(q)
        BY <4>1 DEF AudioIn
      <4> QED BY <1>0, <2>2, <3>1, <3>4, <3>5, <3>7, <4>2 DEF AudioIsOne
    <3> QED BY <3>6, <3>7
  <2> HIDE DEF q2
  <2>7. Len(q2) > QueueMax => AudioIsOne(q2)
    BY <2>6 DEF AudioIsOne
  <2> QED BY <2>7 DEF q2
<1> QED BY <1>1, <1>2, <1>3

\* The end of the input is no audio, and taking an item on adds none.
LEMMA AudioAtTheEnd ==
  ASSUME NEW q \in Seq(Input), AudioIsOne(q)
  PROVE  AudioIsOne(Append(q, End))
<1>1. Len(q) \in Nat /\ DOMAIN Append(q, End) = 1..(Len(q) + 1) /\ Append(q, End)[Len(q) + 1] = End
  BY DEF Input
<1>2. End.kind # "audio"
  BY DEF End
<1>3. AudioIn(Append(q, End)) \subseteq AudioIn(q)
  BY <1>1, <1>2 DEF AudioIn
<1> QED BY <1>3 DEF AudioIsOne

\* A reader that takes the head adds no audio frame to the queue.
LEMMA AudioInTail ==
  ASSUME NEW q \in Seq(Input), q # <<>>, AudioIsOne(q)
  PROVE  AudioIsOne(Tail(q))
<1>1. /\ Len(q) \in Nat \ {0} /\ DOMAIN Tail(q) = 1..(Len(q) - 1)
      /\ \A i \in 1..(Len(q) - 1) : Tail(q)[i] = q[i + 1]
  OBVIOUS
<1>2. \A i \in AudioIn(Tail(q)) : i \in Nat /\ i + 1 \in AudioIn(q)
  BY <1>1 DEF AudioIn
<1> QED BY <1>2 DEF AudioIsOne

-----------------------------------------------------------------------------
(***************************************************************************)
(* The invariant                                                           *)
(***************************************************************************)
\* A connection begins with nothing kept and its heartbeat on.
LEMMA InitInv == Init => IInv
<1> SUFFICES ASSUME Init PROVE IInv
  OBVIOUS
<1> USE BoundsAreNat DEF Init
<1>1. TypeOK /\ Accounted /\ WhyOver
  <2>1. queue \in Seq(Items \cup {End}) /\ inbox \in Seq(Items \cup {End}) /\ handled \in Seq(Items \cup {End})
    OBVIOUS
  <2>2. accepted \in Seq(Items) /\ Len(accepted) = 0 /\ dropped \in 0..MaxItems
    OBVIOUS
  <2>3. TypeOK
    BY <2>1, <2>2 DEF TypeOK
  <2>4. Accounted
    BY <2>2 DEF Accounted
  <2>5. WhyOver
    BY DEF WhyOver
  <2> QED BY <2>3, <2>4, <2>5
<1>2. Kept = <<>>
  BY DEF Kept
<1>3. Numbered(accepted) /\ Faithful(Kept, accepted)
  BY <1>2 DEF Numbered, Faithful
<1>4. Len(Kept) + dropped = Len(accepted) + Ended
  BY <1>2 DEF Ended
<1>5. BacklogIsControl
  BY DEF BacklogIsControl, AudioIn
<1> QED BY <1>1, <1>3, <1>4, <1>5 DEF IInv

\* The steps that leave the input alone, except for what the peer and the handler do.
InputStays == UNCHANGED <<accepted, dropped, queue, inbox, handled, Ended>>

\* What is said of the input only depends on these variables.
LEMMA InputKeeps ==
  ASSUME IInv, InputStays
  PROVE  /\ Accounted' /\ Numbered(accepted)' /\ Faithful(Kept, accepted)'
         /\ (Len(Kept) + dropped = Len(accepted) + Ended)'
         /\ BacklogIsControl'
<1>1. Kept' = Kept
  BY DEF InputStays, Kept
<1> QED BY <1>1 DEF InputStays, IInv, Accounted, BacklogIsControl, AudioIn


\* The sequences of the input and their lengths.
LEMMA InputTypes ==
  ASSUME IInv
  PROVE  /\ queue \in Seq(Input) /\ inbox \in Seq(Input) /\ handled \in Seq(Input)
         /\ accepted \in Seq(Items)
         /\ handled \o inbox \in Seq(Input) /\ Kept \in Seq(Input)
         /\ Len(Kept) = Len(handled \o inbox) + Len(queue)
         /\ Len(accepted) \in Nat /\ Len(queue) \in Nat /\ Len(handled \o inbox) \in Nat
         /\ dropped \in Nat
<1>1. queue \in Seq(Input) /\ inbox \in Seq(Input) /\ handled \in Seq(Input) /\ accepted \in Seq(Items)
  BY DEF IInv, TypeOK, Input
<1>2. handled \o inbox \in Seq(Input)
  BY <1>1
<1>3. Kept \in Seq(Input) /\ Len(Kept) = Len(handled \o inbox) + Len(queue)
  BY <1>1, <1>2 DEF Kept
<1>4. dropped \in Nat
  BY BoundsAreNat DEF IInv, TypeOK
<1> QED BY <1>1, <1>2, <1>3, <1>4

\* Steps that take no item and accept none.
LEMMA OthersKeep ==
  ASSUME IInv, Transport \/ Session \/ UNCHANGED vars,
         ~ \E kind \in {"audio", "control"} : Receive(kind),
         ~ ReceiveDisconnect, ~ ReaderTakes, ~ PumpTakes
  PROVE  IInv'
<1> SUFFICES TypeOK' /\ WhyOver' /\ InputStays
  BY InputKeeps DEF IInv
<1> USE DEF transport, session, vars, InputStays, Ended
<1>0. TypeOK /\ WhyOver
  BY DEF IInv
<1>1. CASE ClientLeaves
  <2>1. TypeOK' /\ InputStays
    BY <1>0, <1>1 DEF ClientLeaves, TypeOK
  <2>2. WhyOver'
    BY <1>0, <1>1 DEF ClientLeaves, WhyOver, TypeOK
  <2> QED BY <2>1, <2>2
<1>2. CASE HeartbeatStale
  <2>1. TypeOK' /\ InputStays
    <3>1. shut' \in BOOLEAN /\ heartbeat' \in BOOLEAN /\ UNCHANGED <<client, handler, queue, accepted, dropped, session>>
      BY <1>2 DEF HeartbeatStale
    <3>2. shut' \in BOOLEAN
      BY <1>0, <1>2 DEF HeartbeatStale, TypeOK
    <3> QED BY <1>0, <3>1, <3>2 DEF TypeOK
  <2>2. WhyOver'
    BY <1>0, <1>2 DEF HeartbeatStale, WhyOver, TypeOK
  <2> QED BY <2>1, <2>2
<1>3. CASE HeartbeatStops
  <2>1. TypeOK' /\ InputStays
    <3>1. heartbeat' \in BOOLEAN /\ UNCHANGED <<client, handler, queue, accepted, dropped, session>>
      BY <1>3 DEF HeartbeatStops
    <3>2. shut' \in BOOLEAN
      BY <1>0, <1>3 DEF HeartbeatStops, TypeOK
    <3> QED BY <1>0, <3>1, <3>2 DEF TypeOK
  <2>2. WhyOver'
    BY <1>0, <1>3 DEF HeartbeatStops, WhyOver, TypeOK
  <2> QED BY <2>1, <2>2
<1>4. CASE SendFails
  <2>1. TypeOK' /\ InputStays
    <3>1. shut' = TRUE /\ UNCHANGED <<client, handler, queue, accepted, dropped, session>>
      BY <1>4 DEF SendFails
    <3>2. heartbeat' \in BOOLEAN
      <4>1. heartbeat' = heartbeat \/ heartbeat' = FALSE
        BY <1>4 DEF SendFails
      <4> QED BY <1>0, <4>1 DEF TypeOK
    <3> QED BY <1>0, <3>1, <3>2 DEF TypeOK
  <2>2. WhyOver'
    <3>1. shut' = TRUE /\ UNCHANGED <<handler, session>>
      BY <1>4 DEF SendFails
    <3>2. heartbeat' = heartbeat \/ heartbeat' = FALSE
      BY <1>4 DEF SendFails
    <3> QED BY <1>0, <3>1, <3>2 DEF WhyOver
  <2> QED BY <2>1, <2>2
<1>5. CASE WaitTimesOut
  <2>1. TypeOK' /\ InputStays
    BY <1>0, <1>5 DEF WaitTimesOut, TypeOK
  <2>2. WhyOver'
    BY <1>0, <1>5 DEF WaitTimesOut, WhyOver, TypeOK
  <2> QED BY <2>1, <2>2
<1>6. CASE HandlerReturns
  <2>1. TypeOK' /\ InputStays
    BY <1>0, <1>6 DEF HandlerReturns, TypeOK
  <2>2. WhyOver'
    BY <1>0, <1>6 DEF HandlerReturns, WhyOver, TypeOK
  <2> QED BY <2>1, <2>2
<1>7. CASE SessionStarts
  <2>1. TypeOK' /\ InputStays
    BY <1>0, <1>7 DEF SessionStarts, TypeOK
  <2>2. WhyOver'
    BY <1>0, <1>7 DEF SessionStarts, WhyOver, TypeOK
  <2> QED BY <2>1, <2>2
<1>8. CASE StartFails
  <2>1. TypeOK' /\ InputStays
    BY <1>0, <1>8 DEF StartFails, TypeOK
  <2>2. WhyOver'
    BY <1>0, <1>8 DEF StartFails, WhyOver, TypeOK
  <2> QED BY <2>1, <2>2
<1>9. CASE PumpGoesOn
  <2>1. TypeOK' /\ InputStays
    BY <1>0, <1>9 DEF PumpGoesOn, TypeOK, PumpsLive
  <2>2. WhyOver'
    BY <1>0, <1>9 DEF PumpGoesOn, WhyOver, TypeOK, PumpsLive
  <2> QED BY <2>1, <2>2
<1>10. CASE PumpClosed
  <2>1. TypeOK' /\ InputStays
    BY <1>0, <1>10 DEF PumpClosed, TypeOK, PumpsLive
  <2>2. WhyOver'
    BY <1>0, <1>10 DEF PumpClosed, WhyOver, TypeOK, PumpsLive
  <2> QED BY <2>1, <2>2
<1>11. CASE OtherPump
  <2>1. TypeOK' /\ InputStays
    <3>1. UNCHANGED <<transport, run, pump, inbox, handled, began, record>>
      BY <1>11 DEF OtherPump
    <3>2. otherEnded' \in BOOLEAN
      <4>1. otherEnded' = TRUE \/ otherEnded' = otherEnded
        BY <1>11 DEF OtherPump
      <4> QED BY <1>0, <4>1 DEF TypeOK
    <3>3. closing' \in {closing, "running"}
      BY <1>11 DEF OtherPump
    <3> QED BY <1>0, <3>1, <3>2, <3>3 DEF TypeOK
  <2>2. WhyOver'
    BY <1>0, <1>11 DEF OtherPump, WhyOver, TypeOK, PumpsLive
  <2> QED BY <2>1, <2>2
<1>12. CASE RunEnds
  <2>1. TypeOK' /\ InputStays
    <3>1. /\ run' \in {"ending", "teardown"} /\ closing' \in {closing, "running"}
          /\ UNCHANGED <<transport, pump, otherEnded, inbox, handled, began, record>>
      BY <1>12 DEF RunEnds
    <3> QED BY <1>0, <3>1 DEF TypeOK
  <2>2. WhyOver'
    <3>1. /\ run = "running"
          /\ \/ run' = "ending" /\ closing' = "running"
             \/ run' = "teardown" /\ closing' = closing /\ closing # "none"
          /\ UNCHANGED <<client, handler, heartbeat, shut>>
      BY <1>12 DEF RunEnds
    <3> QED BY <1>0, <3>1 DEF WhyOver
  <2> QED BY <2>1, <2>2
<1>13. CASE RunClosed
  <2>1. TypeOK' /\ InputStays
    BY <1>0, <1>13 DEF RunClosed, TypeOK
  <2>2. WhyOver'
    BY <1>0, <1>13 DEF RunClosed, Over, WhyOver, TypeOK
  <2> QED BY <2>1, <2>2
<1>14. CASE RunReturns
  <2>1. TypeOK' /\ InputStays
    BY <1>0, <1>14 DEF RunReturns, TypeOK
  <2>2. WhyOver'
    BY <1>0, <1>14 DEF RunReturns, WhyOver, TypeOK
  <2> QED BY <2>1, <2>2
<1>15. CASE RunFails
  <2>1. TypeOK' /\ InputStays
    BY <1>0, <1>15 DEF RunFails, TypeOK
  <2>2. WhyOver'
    BY <1>0, <1>15 DEF RunFails, WhyOver, TypeOK
  <2> QED BY <2>1, <2>2
<1>16. CASE CloseRecords
  <2>1. TypeOK' /\ InputStays
    BY <1>0, <1>16 DEF CloseRecords, TypeOK
  <2>2. WhyOver'
    BY <1>0, <1>16 DEF CloseRecords, WhyOver, TypeOK
  <2> QED BY <2>1, <2>2
<1>17. CASE CloseFinishes
  <2>1. TypeOK' /\ InputStays
    BY <1>0, <1>17 DEF CloseFinishes, TypeOK
  <2>2. WhyOver'
    BY <1>0, <1>17 DEF CloseFinishes, WhyOver, TypeOK
  <2> QED BY <2>1, <2>2
<1>18. CASE CloseFails
  <2>1. TypeOK' /\ InputStays
    BY <1>0, <1>18 DEF CloseFails, TypeOK
  <2>2. WhyOver'
    BY <1>0, <1>18 DEF CloseFails, WhyOver, TypeOK
  <2> QED BY <2>1, <2>2
<1>19. CASE UNCHANGED vars
  <2>1. TypeOK' /\ InputStays
    BY <1>0, <1>19 DEF TypeOK
  <2>2. WhyOver'
    BY <1>0, <1>19 DEF WhyOver
  <2> QED BY <2>1, <2>2
<1> QED BY <1>1, <1>2, <1>3, <1>4, <1>5, <1>6, <1>7, <1>8, <1>9, <1>10, <1>11, <1>12, <1>13, <1>14, <1>15, <1>16, <1>17, <1>18, <1>19 DEF Transport, Session


\* A frame or message: room is made for it, and it is queued.
LEMMA ReceiveKeeps ==
  ASSUME IInv, NEW kind \in {"audio", "control"}, Receive(kind)
  PROVE  IInv'
<1> DEFINE a == handled \o inbox
           item == [kind |-> kind, n |-> Len(accepted) + 1]
           q == Append(Room(queue), item)
<1> USE BoundsAreNat
<1>0. TypeOK /\ Accounted /\ WhyOver
  BY DEF IInv
<1>1. /\ accepted' = Append(accepted, item) /\ dropped' = dropped + (Len(queue) - Len(Room(queue)))
      /\ \/ run = "done" /\ handler' = "waiting" /\ heartbeat' = FALSE /\ queue' = Append(q, End)
         \/ run # "done" /\ queue' = q /\ UNCHANGED <<handler, heartbeat>>
      /\ UNCHANGED <<client, shut, run, pump, otherEnded, inbox, handled, closing, began, record>>
  BY DEF Receive, LeaveLoop, session
<1>2. handler = "receiving" /\ Len(accepted) < MaxItems
  BY DEF Receive
<1>3. item \in Items /\ item.n = Len(accepted) + 1
  BY <1>2, InputTypes DEF Items
<1>4. /\ queue \in Seq(Input) /\ a \in Seq(Input) /\ accepted \in Seq(Items)
      /\ Len(queue) \in Nat /\ Len(accepted) \in Nat /\ Len(a) \in Nat /\ dropped \in Nat
      /\ Len(Kept) = Len(a) + Len(queue) /\ Kept = a \o queue
  BY InputTypes DEF Kept
<1> HIDE DEF item, a
<1>5. /\ Room(queue) \in Seq(Input) /\ Faithful(a \o Room(queue), accepted)
      /\ Len(Room(queue)) = IF Len(queue) < QueueMax \/ AudioIn(queue) = {} THEN Len(queue) ELSE Len(queue) - 1
  BY <1>4, RoomKeeps DEF IInv
<1>6. Len(Room(queue)) \in Nat /\ Len(queue) - Len(Room(queue)) \in 0..1
  BY <1>4, <1>5
<1>7. item \in Input /\ q \in Seq(Input) /\ Len(q) = Len(Room(queue)) + 1
  BY <1>3, <1>5 DEF Input
<1>8. a \o q = Append(a \o Room(queue), item) /\ a \o Room(queue) \in Seq(Input)
  BY <1>4, <1>5, <1>7, AppendedBehind, SMTT(60)
<1>9. Faithful(a \o q, accepted') /\ Numbered(accepted')
  BY <1>1, <1>3, <1>4, <1>5, <1>8, FaithfulWith DEF IInv
<1>10. Len(queue) > QueueMax => AudioIsOne(queue)
  BY <1>2, <1>4 DEF IInv, BacklogIsControl, AudioIsOne, Ended
<1>11. Len(q) > QueueMax => AudioIsOne(q)
  BY <1>4, <1>7, <1>10, RoomForOne
<1>12. a' = a
  BY <1>1 DEF a
<1>13. a \o q \in Seq(Input) /\ Len(a \o q) = Len(a) + Len(q)
  BY <1>4, <1>7
<1> HIDE DEF q
<1>14. /\ queue' \in Seq(Input) /\ Faithful(a \o queue', accepted')
       /\ Len(a \o queue') = Len(a) + Len(queue')
       /\ Len(queue') = Len(q) + Ended'
       /\ Len(queue') > QueueMax + Ended' => AudioIsOne(queue')
  <2>1. CASE queue' = q /\ UNCHANGED handler
    BY <1>2, <1>7, <1>9, <1>11, <1>13, <2>1 DEF Ended
  <2>2. CASE queue' = Append(q, End) /\ handler' = "waiting"
    <3>1. End \in Input /\ queue' \in Seq(Input) /\ Len(queue') = Len(q) + 1
      BY <1>7, <2>2 DEF Input
    <3>2. a \o queue' = Append(a \o q, End)
      BY <1>4, <1>7, <2>2, <3>1, AppendedBehind
    <3>3. Faithful(a \o queue', accepted')
      <4>1. accepted' \in Seq(Items)
        BY <1>1, <1>3, <1>4
      <4> QED BY <1>9, <1>13, <3>2, <4>1, FaithfulToTheEnd
    <3>4. Len(queue') > QueueMax + 1 => AudioIsOne(queue')
      BY <1>7, <1>11, <2>2, <3>1, AudioAtTheEnd
    <3>5. Len(a \o queue') = Len(a) + Len(queue')
      BY <1>4, <3>1, ConcatProperties
    <3> QED BY <2>2, <3>1, <3>3, <3>4, <3>5 DEF Ended
  <2> QED BY <1>1, <2>1, <2>2
<1>15. Kept' = a \o queue'
  BY <1>12 DEF Kept, a
<1>16. Len(accepted') = Len(accepted) + 1 /\ accepted' \in Seq(Items)
  BY <1>1, <1>3, <1>4
<1>17. dropped' \in Nat /\ dropped' <= Len(accepted')
  BY <1>0, <1>1, <1>4, <1>6, <1>16 DEF Accounted
<1>18. Accounted'
  BY <1>2, <1>4, <1>16, <1>17 DEF Accounted
<1>19. TypeOK'
  <2>1. handler' \in {"receiving", "waiting"} /\ heartbeat' \in BOOLEAN
    BY <1>0, <1>1, <1>2 DEF TypeOK
  <2>2. dropped' \in 0..MaxItems
    BY <1>16, <1>17, <1>18, <1>4 DEF Accounted
  <2> QED BY <1>0, <1>1, <1>14, <1>16, <2>1, <2>2 DEF TypeOK, Input
<1>20. WhyOver'
  BY <1>0, <1>1, <1>2 DEF WhyOver
<1>21. Len(Kept') + dropped' = Len(accepted') + Ended'
  <2>1. Len(a) + Len(queue) + dropped = Len(accepted)
    BY <1>2, <1>4 DEF IInv, Ended
  <2>2. Ended' \in Nat /\ Len(Kept') = Len(a) + (Len(Room(queue)) + 1) + Ended'
    BY <1>4, <1>6, <1>7, <1>14, <1>15 DEF Ended
  <2>3. dropped' = dropped + (Len(queue) - Len(Room(queue)))
    BY <1>1
  <2>4. /\ Len(a) \in Nat /\ Len(queue) \in Nat /\ Len(Room(queue)) \in Nat /\ dropped \in Nat
        /\ Len(accepted) \in Nat /\ Len(accepted') = Len(accepted) + 1
    BY <1>4, <1>6, <1>16
  <2> DEFINE la == Len(a)
             lq == Len(queue)
             lr == Len(Room(queue))
             lc == Len(accepted)
             e == Ended'
  <2>5. /\ la \in Nat /\ lq \in Nat /\ lr \in Nat /\ lc \in Nat /\ e \in Nat /\ dropped \in Nat
        /\ la + lq + dropped = lc
    BY <2>1, <2>2, <2>4
  <2>6. /\ Len(Kept') + dropped' = la + (lr + 1) + e + (dropped + (lq - lr))
        /\ Len(accepted') + Ended' = lc + 1 + e
    BY <2>2, <2>3, <2>4
  <2> HIDE DEF la, lq, lr, lc, e
  <2>7. la + (lr + 1) + e + (dropped + (lq - lr)) = lc + 1 + e
    BY ONLY <2>5
  <2> QED BY ONLY <2>6, <2>7
<1>22. BacklogIsControl'
  BY <1>14 DEF BacklogIsControl, AudioIsOne, AudioIn, Ended
<1> QED BY <1>9, <1>14, <1>15, <1>18, <1>19, <1>20, <1>21, <1>22 DEF IInv

\* The end of the input is queued behind everything.
LEMMA DisconnectKeeps ==
  ASSUME IInv, ReceiveDisconnect
  PROVE  IInv'
<1> DEFINE a == handled \o inbox
<1>0. TypeOK /\ Accounted /\ WhyOver
  BY DEF IInv
<1>1. /\ handler = "receiving" /\ handler' = "waiting" /\ heartbeat' = FALSE /\ client' = "gone"
      /\ queue' = Append(queue, End)
      /\ UNCHANGED <<shut, accepted, dropped, run, pump, otherEnded, inbox, handled, closing, began, record>>
  BY DEF ReceiveDisconnect, LeaveLoop, session
<1>2. /\ queue \in Seq(Input) /\ a \in Seq(Input) /\ accepted \in Seq(Items) /\ Kept \in Seq(Input)
      /\ Len(queue) \in Nat /\ Len(accepted) \in Nat /\ Len(Kept) \in Nat /\ dropped \in Nat
      /\ Kept = a \o queue /\ End \in Input
  BY InputTypes DEF Kept, Input
<1> HIDE DEF a
<1>3. a \o Append(queue, End) = Append(Kept, End)
  BY <1>2, AppendedBehind
<1>4. Kept' = Append(Kept, End)
  BY <1>1, <1>3 DEF Kept, a
<1>5. Faithful(Kept', accepted')
  BY <1>1, <1>2, <1>4, FaithfulToTheEnd DEF IInv
<1>6. queue' \in Seq(Input) /\ Len(queue') = Len(queue) + 1 /\ Len(Kept') = Len(Kept) + 1
  BY <1>1, <1>2, <1>4
<1>7. Ended = 0 /\ Ended' = 1
  BY <1>1 DEF Ended
<1>8. BacklogIsControl'
  <2>1. Len(queue) > QueueMax => AudioIsOne(queue)
    BY <1>1, <1>2, BoundsAreNat DEF IInv, BacklogIsControl, AudioIsOne, Ended
  <2>2. Len(queue') > QueueMax + 1 => AudioIsOne(queue')
    BY <1>1, <1>2, <1>6, <2>1, AudioAtTheEnd, BoundsAreNat
  <2> QED BY <1>1, <2>2 DEF BacklogIsControl, AudioIsOne, AudioIn, Ended
<1>9. TypeOK'
  BY <1>0, <1>1, <1>6 DEF TypeOK, Input
<1>10. WhyOver' /\ Accounted'
  BY <1>0, <1>1 DEF WhyOver, Accounted
<1>11. Numbered(accepted') /\ Len(Kept') + dropped' = Len(accepted') + Ended'
  BY <1>1, <1>2, <1>6, <1>7 DEF IInv
<1> QED BY <1>5, <1>8, <1>9, <1>10, <1>11 DEF IInv


\* An item goes from the queue to the inbox, or from the inbox to its handler: what is kept
\* stays as it is.
LEMMA TakenOnKept ==
  ASSUME IInv, ReaderTakes \/ PumpTakes
  PROVE  Kept' = Kept /\ handler' = handler
<1>1. queue \in Seq(Input) /\ inbox \in Seq(Input) /\ handled \in Seq(Input)
  BY InputTypes
<1>2. CASE ReaderTakes
  <2>1. /\ queue # <<>> /\ queue' = Tail(queue) /\ inbox' = Append(inbox, Head(queue))
        /\ UNCHANGED <<handler, handled>>
    BY <1>2 DEF ReaderTakes
  <2>2. Head(queue) \in Input /\ handled \o inbox \in Seq(Input)
    BY <1>1, <2>1
  <2>3. handled \o Append(inbox, Head(queue)) = Append(handled \o inbox, Head(queue))
    BY <1>1, <2>2, AppendedBehind
  <2>4. Append(handled \o inbox, Head(queue)) \o Tail(queue) = (handled \o inbox) \o queue
    BY <1>1, <2>1, <2>2, TakenOn
  <2> QED BY <2>1, <2>3, <2>4 DEF Kept
<1>3. CASE PumpTakes
  <2>1. /\ inbox # <<>> /\ inbox' = Tail(inbox) /\ handled' = Append(handled, Head(inbox))
        /\ UNCHANGED <<handler, queue>>
    BY <1>3 DEF PumpTakes, transport
  <2>2. Append(handled, Head(inbox)) \o Tail(inbox) = handled \o inbox
    BY <1>1, <2>1, TakenOn
  <2> QED BY <2>1, <2>2 DEF Kept
<1> QED BY <1>2, <1>3

\* The invariant is kept with it.
LEMMA TakenKeeps ==
  ASSUME IInv, ReaderTakes \/ PumpTakes
  PROVE  IInv'
<1>0. TypeOK /\ Accounted /\ WhyOver
  BY DEF IInv
<1>1. /\ queue \in Seq(Input) /\ inbox \in Seq(Input) /\ handled \in Seq(Input)
      /\ Len(queue) \in Nat
  BY InputTypes
<1>2. /\ TypeOK' /\ WhyOver' /\ Kept' = Kept /\ UNCHANGED <<accepted, dropped, handler>>
      /\ queue' \in {queue, Tail(queue)} /\ (queue' = Tail(queue) => queue # <<>> \/ queue' = queue)
  <2>1. CASE ReaderTakes
    <3>1. /\ queue # <<>> /\ queue' = Tail(queue) /\ inbox' = Append(inbox, Head(queue))
          /\ UNCHANGED <<client, handler, heartbeat, shut, accepted, dropped,
                         run, pump, otherEnded, handled, closing, began, record>>
      BY <2>1 DEF ReaderTakes
    <3>2. Head(queue) \in Input /\ Tail(queue) \in Seq(Input)
      BY <1>1, <3>1
    <3>3. Kept' = Kept
      BY <2>1, TakenOnKept
    <3>4. TypeOK'
      BY <1>0, <1>1, <3>1, <3>2 DEF TypeOK, Input
    <3>5. WhyOver'
      BY <1>0, <3>1 DEF WhyOver
    <3> QED BY <3>1, <3>3, <3>4, <3>5
  <2>2. CASE PumpTakes
    <3>1. /\ inbox # <<>> /\ inbox' = Tail(inbox) /\ handled' = Append(handled, Head(inbox))
          /\ UNCHANGED <<client, handler, heartbeat, shut, queue, accepted, dropped,
                         run, otherEnded, began, record>>
          /\ pump' \in {"busy", "ended", "closing"}
          /\ closing' = closing \/ (closing = "none" /\ closing' = "running")
      BY <2>2 DEF PumpTakes, transport
    <3>2. Head(inbox) \in Input /\ Tail(inbox) \in Seq(Input)
      BY <1>1, <3>1
    <3>3. Kept' = Kept
      BY <2>2, TakenOnKept
    <3>4. TypeOK'
      BY <1>0, <1>1, <3>1, <3>2 DEF TypeOK, Input
    <3>5. WhyOver'
      BY <1>0, <3>1 DEF WhyOver
    <3> QED BY <3>1, <3>3, <3>4, <3>5
  <2> QED BY <2>1, <2>2
<1>3. BacklogIsControl'
  <2>1. CASE queue' = queue
    BY <1>2, <2>1 DEF IInv, BacklogIsControl, AudioIn, Ended
  <2>2. CASE queue' = Tail(queue) /\ queue # <<>>
    <3>1. Len(queue') = Len(queue) - 1 /\ Ended' = Ended /\ Ended \in Nat
      BY <1>1, <1>2, <2>2 DEF Ended
    <3>2. Len(queue) > QueueMax + Ended => AudioIsOne(queue)
      BY DEF IInv, BacklogIsControl, AudioIsOne
    <3>3. Len(queue') > QueueMax + Ended' => AudioIsOne(queue')
      BY <1>1, <2>2, <3>1, <3>2, AudioInTail, BoundsAreNat
    <3> QED BY <3>3 DEF BacklogIsControl, AudioIsOne, AudioIn
  <2> QED BY <1>2, <2>1, <2>2
<1> QED BY <1>2, <1>3 DEF IInv, Accounted, Ended

\* Every step keeps the invariant.
LEMMA NextKeeps == IInv /\ [Next]_vars => IInv'
<1> SUFFICES ASSUME IInv, [Next]_vars PROVE IInv'
  OBVIOUS
<1>1. CASE \E kind \in {"audio", "control"} : Receive(kind)
  BY <1>1, ReceiveKeeps
<1>2. CASE ReceiveDisconnect
  BY <1>2, DisconnectKeeps
<1>3. CASE ReaderTakes \/ PumpTakes
  BY <1>3, TakenKeeps
<1>4. CASE /\ ~ \E kind \in {"audio", "control"} : Receive(kind)
           /\ ~ ReceiveDisconnect /\ ~ ReaderTakes /\ ~ PumpTakes
  BY <1>4, OthersKeep DEF Next
<1> QED BY <1>1, <1>2, <1>3, <1>4

\* The invariant holds of every connection.
LEMMA Invariance == Spec => []IInv
BY InitInv, NextKeeps, PTL DEF Spec

-----------------------------------------------------------------------------
\* Every variable of a connection has its type, for any limit of its queue.
THEOREM TypeCorrect == Spec => []TypeOK
<1>1. IInv => TypeOK
  BY DEF IInv
<1> QED BY <1>1, Invariance, PTL

\* Whatever the load, control messages reach the session in order, each once and none lost,
\* and audio is lost only by being dropped and counted (WsTransport.push and receive).
THEOREM ControlArrives == Spec => []ControlInOrder
<1>1. IInv => ControlInOrder
  BY DEF IInv, Faithful, ControlInOrder
<1> QED BY <1>1, Invariance, PTL

\* However long the session is busy, a queue over its limit holds one audio frame at most.
THEOREM BacklogHolds == Spec => []BacklogIsControl
<1>1. IInv => BacklogIsControl
  BY DEF IInv
<1> QED BY <1>1, Invariance, PTL

\* Nothing of a connection outlives its handler, in whatever order the session, its close
\* sequence, the heartbeat and the receive loop end (ws_session and Session.run).
THEOREM NothingOutlives == Spec => []NothingLeftBehind
<1>1. IInv => NothingLeftBehind
  BY DEF IInv, WhyOver, NothingLeftBehind
<1> QED BY <1>1, Invariance, PTL

-----------------------------------------------------------------------------
(***************************************************************************)
(* The record                                                              *)
(***************************************************************************)
\* The end of the input is somewhere on its way once nothing more is received.
EndIsKept == handler # "receiving" => \E i \in DOMAIN Kept : Kept[i] = End

\* A session that was started is not torn down before its close sequence was begun, and is not
\* over before that is over; the sequence is not done without a record.
WhyRecorded ==
  /\ run \in {"ending", "done", "failing", "teardown"} /\ began => closing # "none"
  /\ run \in {"failing", "done"} /\ began => Over(closing)
  /\ run = "ending" => closing # "none"
  /\ run = "starting" => ~began
  /\ closing \in {"recorded", "done"} => record

\* The end of the input stays where it is, or is passed on.
LEMMA EndStays ==
  ASSUME IInv, EndIsKept, [Next]_vars
  PROVE  EndIsKept'
<1> USE DEF EndIsKept
<1>1. CASE \E kind \in {"audio", "control"} : Receive(kind)
  <2>1. PICK kind \in {"audio", "control"} : Receive(kind)
    BY <1>1
  <2> DEFINE a == handled \o inbox
             q == Append(Room(queue), [kind |-> kind, n |-> Len(accepted) + 1])
  <2>2. /\ handler' = "receiving" \/ queue' = Append(q, End)
        /\ inbox' = inbox /\ handled' = handled /\ handler = "receiving"
        /\ Len(accepted) < MaxItems
    BY <2>1 DEF Receive, LeaveLoop, session
  <2>3. a \in Seq(Input) /\ queue \in Seq(Input) /\ accepted \in Seq(Items) /\ Len(accepted) \in Nat
    BY InputTypes
  <2>4. Room(queue) \in Seq(Input)
    BY <2>3, RoomKeeps, InputTypes DEF IInv, Kept
  <2>5. q \in Seq(Input)
    <3>1. [kind |-> kind, n |-> Len(accepted) + 1] \in Items
      BY <2>2, <2>3, BoundsAreNat DEF Items
    <3> QED BY <2>4, <3>1 DEF Input
  <2> HIDE DEF a, q
  <2>6. CASE queue' = Append(q, End)
    <3>1. End \in Input
      BY DEF Input
    <3>2. a \o Append(q, End) = Append(a \o q, End) /\ a \o q \in Seq(Input)
      BY <2>3, <2>5, <3>1, AppendedBehind
    <3>3. Kept' = Append(a \o q, End)
      BY <2>2, <2>6, <3>2 DEF Kept, a
    <3> QED BY <3>1, <3>2, <3>3
  <2> QED BY <2>2, <2>6
<1>2. CASE ReceiveDisconnect
  <2> DEFINE a == handled \o inbox
  <2>1. queue' = Append(queue, End) /\ inbox' = inbox /\ handled' = handled
    BY <1>2 DEF ReceiveDisconnect, LeaveLoop, session
  <2>2. a \in Seq(Input) /\ queue \in Seq(Input) /\ End \in Input
    BY InputTypes DEF Input
  <2> HIDE DEF a
  <2>3. a \o Append(queue, End) = Append(a \o queue, End) /\ a \o queue \in Seq(Input)
    BY <2>2, AppendedBehind
  <2>4. Kept' = Append(a \o queue, End)
    BY <2>1, <2>3 DEF Kept, a
  <2> QED BY <2>2, <2>3, <2>4
<1>3. CASE ReaderTakes \/ PumpTakes
  <2>1. Kept' = Kept /\ handler' = handler
    BY <1>3, TakenOnKept
  <2> QED BY <2>1
<1>4. CASE /\ ~ \E kind \in {"audio", "control"} : Receive(kind)
           /\ ~ ReceiveDisconnect /\ ~ ReaderTakes /\ ~ PumpTakes
  <2>1. UNCHANGED <<queue, inbox, handled>> /\ (handler = "receiving" => handler' = "receiving")
    BY <1>4 DEF Next, Transport, Session, ClientLeaves, HeartbeatStale, HeartbeatStops, SendFails,
       WaitTimesOut, HandlerReturns, SessionStarts, StartFails, PumpGoesOn, PumpClosed, OtherPump,
       RunEnds, RunClosed, RunReturns, RunFails, CloseRecords, CloseFinishes, CloseFails,
       vars, transport, session
  <2>2. Kept' = Kept
    BY <2>1 DEF Kept
  <2> QED BY <2>1, <2>2
<1> QED BY <1>1, <1>2, <1>3, <1>4

\* Once the queue is empty the reader has read the end of the input, and run() is not waiting.
LEMMA ReaderIsDone ==
  ASSUME IInv, EndIsKept, handler # "receiving", queue = <<>>
  PROVE  TaskEnded
<1>1. handled \o inbox \in Seq(Input)
  BY InputTypes
<1>2. Kept = handled \o inbox
  BY <1>1 DEF Kept
<1> QED BY <1>1, <1>2 DEF EndIsKept, TaskEnded, ToSet

\* Every step keeps what is said of the record.
LEMMA RecordKeeps ==
  ASSUME IInv, EndIsKept, WhyRecorded, [Next]_vars
  PROVE  WhyRecorded'
<1>0. TypeOK
  BY DEF IInv
<1> USE DEF WhyRecorded, Over
<1>1. CASE WaitTimesOut
  <2>1. run # "running" \/ ~ (queue = <<>> /\ ~TaskEnded)
    BY <1>1, ReaderIsDone DEF WaitTimesOut
  <2>2. run \in {"starting", "failing", "ending", "teardown"}
    BY <1>1, <2>1 DEF WaitTimesOut, Slow
  <2>3. /\ run' = IF run \in {"running", "ending"} THEN "teardown" ELSE "done"
        /\ closing' = IF run = "teardown" THEN "cut" ELSE closing
        /\ began' = began /\ record' = record
    BY <1>1 DEF WaitTimesOut
  <2> QED BY <2>2, <2>3
<1>2. CASE RunEnds \/ RunClosed \/ RunReturns \/ RunFails
  BY <1>0, <1>2 DEF RunEnds, RunClosed, RunReturns, RunFails
<1>3. CASE SessionStarts \/ StartFails
  BY <1>0, <1>3 DEF SessionStarts, StartFails
<1>4. CASE CloseRecords \/ CloseFinishes \/ CloseFails
  BY <1>0, <1>4 DEF CloseRecords, CloseFinishes, CloseFails
<1>5. CASE PumpTakes \/ PumpGoesOn \/ OtherPump
  <2>1. /\ run' = run /\ began' = began /\ record' = record
        /\ closing' = closing \/ (closing = "none" /\ closing' = "running")
    BY <1>5 DEF PumpTakes, PumpGoesOn, OtherPump
  <2>2. run \in {"running", "ending"}
    BY <1>5 DEF PumpTakes, PumpGoesOn, OtherPump, PumpsLive
  <2> QED BY <2>1, <2>2
<1>6. CASE UNCHANGED <<run, closing, began, record>>
  BY <1>6
<1>7. WaitTimesOut \/ RunEnds \/ RunClosed \/ RunReturns \/ RunFails \/ SessionStarts \/ StartFails
        \/ CloseRecords \/ CloseFinishes \/ CloseFails \/ PumpTakes \/ PumpGoesOn \/ OtherPump
        \/ UNCHANGED <<run, closing, began, record>>
  BY DEF Next, Transport, Session, Receive, ReceiveDisconnect, ClientLeaves, HeartbeatStale,
     HeartbeatStops, SendFails, HandlerReturns, ReaderTakes, PumpClosed, vars, session
<1> QED BY <1>1, <1>2, <1>3, <1>4, <1>5, <1>6, <1>7

\* A session that was started is recorded when its handler returns, unless its close sequence
\* raised or was cut off: run() ends with its reader, so that a pump that hangs delays nothing
\* (Session.run, close and the five seconds of _pump).
THEOREM StartedRecorded == Spec => []StartedIsRecorded
<1>1. Init => EndIsKept /\ WhyRecorded
  BY DEF Init, EndIsKept, WhyRecorded
<1>2. IInv /\ EndIsKept /\ WhyRecorded /\ [Next]_vars => EndIsKept' /\ WhyRecorded'
  BY EndStays, RecordKeeps
<1>3. IInv /\ WhyRecorded => StartedIsRecorded
  <2> SUFFICES ASSUME IInv, WhyRecorded, handler = "returned", began
               PROVE  record \/ closing \in {"failed", "cut"}
    BY DEF StartedIsRecorded
  <2>1. run = "done"
    BY DEF IInv, WhyOver
  <2> QED BY <2>1 DEF WhyRecorded, Over
<1> QED BY <1>1, <1>2, <1>3, Invariance, PTL DEF Spec

=============================================================================
