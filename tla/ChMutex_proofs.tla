--------------------------- MODULE ChMutex_proofs ---------------------------
(***************************************************************************)
(* ChMutex for every finite set of threads, every assignment of priorities *)
(* and every set of mutexes: the lists stay ordered, inherited priorities  *)
(* are exact, and each mutex is a lock.                                    *)
(***************************************************************************)
EXTENDS ChMutex, SequenceTheorems, FiniteSetTheorems, WellFoundedInduction, TLAPS

-----------------------------------------------------------------------------
(* Induction *)

Less == {p \in Nat \X Nat : p[1] < p[2]}

\* A set of numbers has a least one.
LEMMA Least ==
  ASSUME NEW S \in SUBSET Nat, S # {}
  PROVE  \E n \in S : \A m \in S : n <= m
<1>1. IsWellFoundedOn(Less, Nat)
  <2>1. IsWellFoundedOn(OpToRel(<, Nat), Nat)
    BY NatLessThanWellFounded
  <2> QED
    BY <2>1 DEF OpToRel, Less
<1>2. \E n \in S : \A m \in S : ~(<<m, n>> \in Less)
  BY <1>1, WFMin
<1>3. PICK n \in S : \A m \in S : ~(<<m, n>> \in Less)
  BY <1>2
<1>4. ASSUME NEW m \in S PROVE n <= m
  <2>1. <<m, n>> \in Nat \X Nat /\ ~(m < n)
    BY <1>3 DEF Less
  <2> QED
    BY <2>1
<1> QED
  BY <1>4

\* Induction over the numbers, for a set.
LEMMA Induction ==
  ASSUME NEW S, 0 \in S, \A n \in Nat : n \in S => n + 1 \in S
  PROVE  \A n \in Nat : n \in S
<1> DEFINE T == {n \in Nat : n \notin S}
<1> SUFFICES ASSUME T # {} PROVE FALSE
  OBVIOUS
<1>1. PICK n \in T : \A m \in T : n <= m
  BY Least
<1>2. n # 0 /\ n - 1 \in Nat /\ n - 1 \notin T
  BY <1>1
<1> QED
  BY <1>2

-----------------------------------------------------------------------------
(* Lists: threads without repetition, ordered by the priorities p *)

Sorted(p, s) == \A i, j \in 1..Len(s) : i < j => p[s[i]] >= p[s[j]]

IsList(p, s) == s \in Seq(Threads) /\ IsInjective(s) /\ Sorted(p, s)

Prios == [Threads -> Nat]

LEMMA InjectiveSeq ==
  ASSUME NEW V, NEW s \in Seq(V)
  PROVE  /\ IsInjective(s) <=> \A i, j \in 1..Len(s) : s[i] = s[j] => i = j
         /\ ToSet(s) = {s[i] : i \in 1..Len(s)} /\ ToSet(s) \subseteq V
<1>1. DOMAIN s = 1..Len(s) /\ \A i \in 1..Len(s) : s[i] \in V
  BY LenProperties, ElementOfSeq
<1> QED
  BY <1>1 DEF IsInjective, ToSet

LEMMA EmptyList ==
  ASSUME NEW p
  PROVE  IsList(p, << >>) /\ ToSet(<< >>) = {}
<1>1. << >> \in Seq(Threads) /\ Len(<< >>) = 0
  BY EmptySeq
<1>2. IsInjective(<< >>) /\ ToSet(<< >>) = {}
  <2>1. DOMAIN << >> = 1..0
    BY <1>1, LenProperties
  <2> QED
    BY <2>1 DEF IsInjective, ToSet
<1> QED
  BY <1>1, <1>2 DEF IsList, Sorted

\* A list stays one as long as the priorities of its threads stay.
LEMMA SamePrio ==
  ASSUME NEW p, NEW q, NEW s, IsList(p, s), \A t \in ToSet(s) : q[t] = p[t]
  PROVE  IsList(q, s)
<1>1. \A i \in 1..Len(s) : q[s[i]] = p[s[i]]
  BY InjectiveSeq DEF IsList
<1> QED
  BY <1>1 DEF IsList, Sorted

\* The first of a sequence without repetition, and the others.
LEMMA TailSeq ==
  ASSUME NEW V, NEW s \in Seq(V), IsInjective(s), s # << >>
  PROVE  /\ Head(s) \in ToSet(s) /\ ToSet(s) \subseteq V
         /\ Tail(s) \in Seq(V) /\ IsInjective(Tail(s)) /\ Len(Tail(s)) = Len(s) - 1
         /\ ToSet(Tail(s)) = ToSet(s) \ {Head(s)}
<1> DEFINE n == Len(s)  u == Tail(s)
<1>1. /\ n \in Nat \ {0} /\ \A i \in 1..n : s[i] \in V
      /\ u \in Seq(V) /\ Len(u) = n - 1 /\ \A i \in 1..n-1 : u[i] = s[i + 1]
      /\ Head(s) = s[1]
  BY HeadTailProperties, EmptySeq, ElementOfSeq
<1>2. \A i, j \in 1..n : s[i] = s[j] => i = j
  BY InjectiveSeq
<1> HIDE DEF n, u
<1>4. ToSet(s) = {s[i] : i \in 1..n} /\ ToSet(u) = {u[i] : i \in 1..n-1} /\ ToSet(s) \subseteq V
  <2>1. ToSet(s) = {s[i] : i \in 1..n} /\ ToSet(s) \subseteq V
    BY <1>1, InjectiveSeq DEF n
  <2>2. ToSet(u) = {u[i] : i \in 1..Len(u)}
    BY <1>1, InjectiveSeq
  <2> QED
    BY <1>1, <2>1, <2>2
<1>5. IsInjective(u)
  <2>1. ASSUME NEW i \in 1..n-1, NEW j \in 1..n-1, u[i] = u[j] PROVE i = j
    <3>1. s[i + 1] = s[j + 1] /\ i + 1 \in 1..n /\ j + 1 \in 1..n
      BY <1>1, <2>1
    <3> QED
      BY <1>2, <3>1
  <2> QED
    BY <1>1, <2>1, InjectiveSeq
<1>7. ToSet(u) = ToSet(s) \ {s[1]}
  <2>1. ASSUME NEW i \in 1..n-1 PROVE u[i] \in ToSet(s) \ {s[1]}
    <3>1. i + 1 \in 1..n /\ 1 \in 1..n /\ i + 1 # 1
      BY <1>1
    <3> QED
      BY <1>1, <1>2, <1>4, <3>1
  <2>2. ASSUME NEW i \in 1..n, s[i] # s[1] PROVE s[i] \in ToSet(u)
    <3>1. i - 1 \in 1..n-1 /\ u[i - 1] = s[i - 1 + 1]
      BY <1>1, <2>2
    <3> QED
      BY <1>4, <3>1
  <2> QED
    BY <1>4, <2>1, <2>2
<1> QED
  BY <1>1, <1>4, <1>5, <1>7 DEF u, n

\* The first of a list has the highest priority.
LEMMA HeadTail ==
  ASSUME NEW p \in Prios, NEW s, IsList(p, s), s # << >>
  PROVE  /\ Head(s) \in ToSet(s) /\ ToSet(s) \subseteq Threads
         /\ IsList(p, Tail(s)) /\ ToSet(Tail(s)) = ToSet(s) \ {Head(s)}
         /\ \A t \in ToSet(s) : p[t] <= p[Head(s)]
<1> DEFINE n == Len(s)  u == Tail(s)
<1>1. /\ s \in Seq(Threads) /\ n \in Nat \ {0} /\ \A i \in 1..n : s[i] \in Threads
      /\ u \in Seq(Threads) /\ Len(u) = n - 1 /\ \A i \in 1..n-1 : u[i] = s[i + 1]
      /\ Head(s) = s[1]
  BY HeadTailProperties, EmptySeq, ElementOfSeq DEF IsList
<1>2. \A i, j \in 1..n : i < j => p[s[i]] >= p[s[j]]
  BY DEF IsList, Sorted
<1>3. /\ Head(s) \in ToSet(s) /\ ToSet(s) \subseteq Threads
      /\ IsInjective(u) /\ ToSet(u) = ToSet(s) \ {Head(s)}
  BY <1>1, TailSeq DEF IsList
<1> HIDE DEF n, u
<1>4. ToSet(s) = {s[i] : i \in 1..n}
  BY <1>1, InjectiveSeq DEF n
<1>5. Sorted(p, u)
  <2>1. ASSUME NEW i \in 1..n-1, NEW j \in 1..n-1, i < j PROVE p[u[i]] >= p[u[j]]
    <3>1. u[i] = s[i + 1] /\ u[j] = s[j + 1] /\ i + 1 \in 1..n /\ j + 1 \in 1..n /\ i + 1 < j + 1
      BY <1>1, <2>1
    <3> QED
      BY <1>2, <3>1
  <2> QED
    BY <1>1, <2>1 DEF Sorted
<1>6. ASSUME NEW i \in 1..n PROVE p[s[i]] <= p[s[1]]
  <2>1. CASE i = 1
    BY <1>1, <2>1 DEF Prios
  <2>2. CASE i # 1
    <3>1. 1 \in 1..n /\ 1 < i /\ s[1] \in Threads /\ s[i] \in Threads
      BY <1>1, <2>2
    <3> QED
      BY <1>2, <3>1 DEF Prios
  <2> QED
    BY <2>1, <2>2
<1> QED
  BY <1>1, <1>3, <1>4, <1>5, <1>6 DEF IsList, u

\* A list with one of its threads cut out, where i is its place.
LEMMA DequeueList ==
  ASSUME NEW p \in Prios, NEW s, IsList(p, s), NEW t \in ToSet(s)
  PROVE  IsList(p, Dequeue(s, t)) /\ ToSet(Dequeue(s, t)) = ToSet(s) \ {t}
<1> DEFINE n == Len(s)  r == Dequeue(s, t)
<1>1. s \in Seq(Threads) /\ n \in Nat /\ \A i \in 1..n : s[i] \in Threads
  BY ElementOfSeq, LenProperties DEF IsList
<1>2. /\ \A i, j \in 1..n : s[i] = s[j] => i = j
      /\ ToSet(s) = {s[i] : i \in 1..n}
  BY <1>1, InjectiveSeq DEF IsList
<1>3. \A i, j \in 1..n : i < j => p[s[i]] >= p[s[j]]
  BY DEF IsList, Sorted
<1>4. PICK k \in 1..n : s[k] = t /\ r = SubSeq(s, 1, k - 1) \o SubSeq(s, k + 1, n)
  <2>1. \E i \in 1..n : s[i] = t
    BY <1>2
  <2> DEFINE k == CHOOSE i \in 1..n : s[i] = t
  <2>2. k \in 1..n /\ s[k] = t
    BY <2>1
  <2>3. r = SubSeq(s, 1, k - 1) \o SubSeq(s, k + 1, n)
    BY DEF Dequeue, RemoveAt
  <2> QED
    BY <2>2, <2>3
<1> HIDE DEF n, r
<1>5. /\ r \in Seq(Threads) /\ Len(r) = n - 1
      /\ \A i \in 1..n-1 : r[i] = IF i < k THEN s[i] ELSE s[i + 1]
  <2> DEFINE a == SubSeq(s, 1, k - 1)  b == SubSeq(s, k + 1, n)
  <2>1. a \in Seq(Threads) /\ Len(a) = k - 1 /\ \A i \in 1..k-1 : a[i] = s[i]
    <3>1. 1 \in Int /\ k - 1 \in Int /\ \A i \in 1..k-1 : s[i] \in Threads
      BY <1>1, <1>4
    <3>2. /\ SubSeq(s, 1, k - 1) \in Seq(Threads)
          /\ Len(SubSeq(s, 1, k - 1)) = IF 1 <= k - 1 THEN k - 1 - 1 + 1 ELSE 0
          /\ \A i \in 1..k-1-1+1 : SubSeq(s, 1, k - 1)[i] = s[1 + i - 1]
      BY <3>1, SubSeqProperties
    <3> QED
      BY <1>1, <3>2
  <2>2. b \in Seq(Threads) /\ Len(b) = n - k /\ \A i \in 1..n-k : b[i] = s[k + i]
    <3>1. k + 1 \in Int /\ n \in Int /\ \A i \in k+1..n : s[i] \in Threads
      BY <1>1, <1>4
    <3>2. /\ SubSeq(s, k + 1, n) \in Seq(Threads)
          /\ Len(SubSeq(s, k + 1, n)) = IF k + 1 <= n THEN n - (k + 1) + 1 ELSE 0
          /\ \A i \in 1..n-(k+1)+1 : SubSeq(s, k + 1, n)[i] = s[k + 1 + i - 1]
      BY <3>1, SubSeqProperties
    <3> QED
      BY <1>1, <3>2
  <2> HIDE DEF a, b
  <2>3. /\ r \in Seq(Threads) /\ Len(r) = Len(a) + Len(b)
        /\ \A i \in 1..Len(a)+Len(b) : r[i] = IF i <= Len(a) THEN a[i] ELSE b[i - Len(a)]
    BY <1>4, <2>1, <2>2, ConcatProperties DEF a, b
  <2>4. Len(r) = n - 1
    BY <1>1, <1>4, <2>1, <2>2, <2>3
  <2>5. ASSUME NEW i \in 1..n-1 PROVE r[i] = IF i < k THEN s[i] ELSE s[i + 1]
    <3>1. r[i] = IF i <= k - 1 THEN a[i] ELSE b[i - (k - 1)]
      <4>1. i \in 1..Len(a)+Len(b) /\ Len(a) = k - 1
        BY <1>1, <1>4, <2>1, <2>2
      <4>2. r[i] = IF i <= Len(a) THEN a[i] ELSE b[i - Len(a)]
        BY <2>3, <4>1
      <4> QED
        BY <4>1, <4>2
    <3>2. CASE i < k
      BY <1>4, <2>1, <3>1, <3>2
    <3>3. CASE ~(i < k)
      <4>1. i - (k - 1) \in 1..n-k /\ k + (i - (k - 1)) = i + 1
        BY <1>1, <1>4, <3>3
      <4>2. b[i - (k - 1)] = s[k + (i - (k - 1))]
        BY <2>2, <4>1
      <4>3. ~(i <= k - 1)
        BY <1>4, <3>3
      <4> QED
        BY <3>1, <3>3, <4>1, <4>2, <4>3
    <3> QED
      BY <3>2, <3>3
  <2> QED
    BY <2>3, <2>4, <2>5
<1> DEFINE at(i) == IF i < k THEN i ELSE i + 1
<1>6. \A i \in 1..n-1 : at(i) \in 1..n /\ at(i) # k /\ r[i] = s[at(i)]
  <2> TAKE i \in 1..n-1
  <2>1. at(i) \in 1..n /\ at(i) # k
    BY <1>1, <1>4
  <2>2. r[i] = IF i < k THEN s[i] ELSE s[i + 1]
    BY <1>5
  <2> QED
    BY <2>1, <2>2
<1>7. \A i, j \in 1..n-1 : i < j => at(i) < at(j)
  BY <1>1, <1>4
<1>8. \A i \in 1..n : i # k => \E j \in 1..n-1 : at(j) = i
  <2> TAKE i \in 1..n
  <2> HAVE i # k
  <2>1. CASE i < k
    <3>1. i \in 1..n-1 /\ at(i) = i
      BY <1>1, <1>4, <2>1
    <3> QED
      BY <3>1
  <2>2. CASE i > k
    <3>1. i - 1 \in 1..n-1 /\ at(i - 1) = i
      BY <1>1, <1>4, <2>2
    <3> QED
      BY <3>1
  <2> QED
    BY <1>1, <1>4, <2>1, <2>2
<1> HIDE DEF at
<1>9. ToSet(r) = {r[i] : i \in 1..n-1}
  BY <1>5, InjectiveSeq
<1>10. IsInjective(r)
  <2>1. ASSUME NEW i \in 1..n-1, NEW j \in 1..n-1, r[i] = r[j] PROVE i = j
    <3>1. at(i) = at(j) /\ at(i) \in Int
      BY <1>2, <1>6, <2>1
    <3>2. ~(at(i) < at(j)) /\ ~(at(j) < at(i))
      BY <3>1
    <3>3. ~(i < j) /\ ~(j < i)
      BY <1>7, <3>2
    <3> QED
      BY <3>3
  <2> QED
    BY <1>5, <2>1, InjectiveSeq
<1>11. Sorted(p, r)
  <2>1. ASSUME NEW i \in 1..n-1, NEW j \in 1..n-1, i < j PROVE p[r[i]] >= p[r[j]]
    BY <1>3, <1>6, <1>7, <2>1
  <2> QED
    BY <1>5, <2>1 DEF Sorted
<1>12. ToSet(r) = ToSet(s) \ {t}
  <2>1. ASSUME NEW i \in 1..n-1 PROVE r[i] \in ToSet(s) /\ r[i] # t
    <3>1. at(i) \in 1..n /\ at(i) # k /\ r[i] = s[at(i)]
      BY <1>6
    <3> QED
      BY <1>2, <1>4, <3>1
  <2>2. ASSUME NEW i \in 1..n, s[i] # t PROVE s[i] \in ToSet(r)
    <3>1. PICK j \in 1..n-1 : at(j) = i
      BY <1>4, <1>8, <2>2
    <3> QED
      BY <1>6, <1>9, <3>1
  <2> QED
    BY <1>2, <1>9, <2>1, <2>2
<1> QED
  BY <1>5, <1>10, <1>11, <1>12 DEF IsList, r

LEMMA InsertAtIs ==
  ASSUME NEW s, NEW t, NEW k \in Nat
  PROVE  InsertAt(s, k + 1, t) = SubSeq(s, 1, k) \o <<t>> \o SubSeq(s, k + 1, Len(s))
<1>1. (k + 1) - 1 = k
  OBVIOUS
<1>2. SubSeq(s, 1, (k + 1) - 1) = SubSeq(s, 1, k)
  BY <1>1, Zenon
<1>3. InsertAt(s, k + 1, t) = SubSeq(s, 1, (k + 1) - 1) \o <<t>> \o SubSeq(s, k + 1, Len(s))
  BY Zenon DEF InsertAt
<1> QED
  BY <1>2, <1>3, Zenon

\* Where InsertPast puts a thread.
LEMMA InsertPlace ==
  ASSUME NEW s \in Seq(Threads), NEW t \in Threads, NEW ahead
  PROVE  \E k \in 0..Len(s) :
           /\ \A i \in 1..k : s[i] \in ahead
           /\ k < Len(s) => s[k + 1] \notin ahead
           /\ InsertPast(s, t, ahead) = SubSeq(s, 1, k) \o <<t>> \o SubSeq(s, k + 1, Len(s))
<1> DEFINE n == Len(s)
           Place(k) == /\ \A i \in 1..k : s[i] \in ahead
                       /\ k < n => s[k + 1] \notin ahead
<1>1. n \in Nat
  BY LenProperties
<1> HIDE DEF n
<1>2. \E k \in 0..n : Place(k)
  <2> DEFINE S == {i \in 1..n : s[i] \notin ahead}
  <2>1. CASE S = {}
    <3>1. n \in 0..n /\ Place(n)
      BY <1>1, <2>1
    <3> QED
      BY <3>1
  <2>2. CASE S # {}
    <3> HIDE DEF S
    <3>0. S \in SUBSET Nat
      BY DEF S
    <3>1. PICK i \in S : \A j \in S : i <= j
      BY <2>2, <3>0, Least
    <3> USE DEF S
    <3>2. i - 1 \in 0..n /\ i - 1 + 1 = i
      BY <1>1, <3>1
    <3>3. ASSUME NEW j \in 1..i-1 PROVE s[j] \in ahead
      <4>1. j \in 1..n /\ ~(i <= j)
        BY <1>1, <3>1
      <4> QED
        BY <3>1, <4>1
    <3> QED
      BY <3>1, <3>2, <3>3
  <2> QED
    BY <2>1, <2>2
<1> DEFINE k == CHOOSE k \in 0..n : Place(k)
<1>3. k \in 0..n /\ Place(k)
  BY <1>2
<1>4. InsertPast(s, t, ahead) = InsertAt(s, k + 1, t)
  BY DEF InsertPast, n
<1> HIDE DEF k
<1>5. k \in Nat
  BY <1>1, <1>3
<1>6. InsertAt(s, k + 1, t) = SubSeq(s, 1, k) \o <<t>> \o SubSeq(s, k + 1, n)
  BY <1>5, InsertAtIs DEF n
<1> QED
  BY <1>3, <1>4, <1>6 DEF n

\* The places of the threads of a list after one is put behind the first k.
LEMMA PlaceSeq ==
  ASSUME NEW s \in Seq(Threads), NEW t \in Threads, NEW k \in 0..Len(s)
  PROVE  LET r == SubSeq(s, 1, k) \o <<t>> \o SubSeq(s, k + 1, Len(s)) IN
         /\ r \in Seq(Threads) /\ Len(r) = Len(s) + 1
         /\ \A i \in 1..k : r[i] = s[i]
         /\ r[k + 1] = t
         /\ \A i \in k+1..Len(s) : r[i + 1] = s[i]
<1> DEFINE n == Len(s)
<1>1. n \in Nat /\ \A i \in 1..n : s[i] \in Threads
  BY ElementOfSeq, LenProperties
<1>4. k \in Nat /\ k <= n
  BY <1>1
<1> DEFINE a == SubSeq(s, 1, k)  b == SubSeq(s, k + 1, n)  at == a \o <<t>>  r == at \o b
<1>9. a \in Seq(Threads) /\ Len(a) = k /\ \A i \in 1..k : a[i] = s[i]
  <2>1. 1 \in Int /\ k \in Int /\ \A i \in 1..k : s[i] \in Threads
    BY <1>1, <1>4
  <2>2. /\ SubSeq(s, 1, k) \in Seq(Threads)
        /\ Len(SubSeq(s, 1, k)) = IF 1 <= k THEN k - 1 + 1 ELSE 0
        /\ \A i \in 1..k-1+1 : SubSeq(s, 1, k)[i] = s[1 + i - 1]
    BY <2>1, SubSeqProperties
  <2> QED
    BY <1>4, <2>2
<1>10. b \in Seq(Threads) /\ Len(b) = n - k /\ \A i \in 1..n-k : b[i] = s[k + i]
  <2>1. k + 1 \in Int /\ n \in Int /\ \A i \in k+1..n : s[i] \in Threads
    BY <1>1, <1>4
  <2>2. /\ SubSeq(s, k + 1, n) \in Seq(Threads)
        /\ Len(SubSeq(s, k + 1, n)) = IF k + 1 <= n THEN n - (k + 1) + 1 ELSE 0
        /\ \A i \in 1..n-(k+1)+1 : SubSeq(s, k + 1, n)[i] = s[k + 1 + i - 1]
    BY <2>1, SubSeqProperties
  <2> QED
    BY <1>1, <1>4, <2>2
<1>11. r = SubSeq(s, 1, k) \o <<t>> \o SubSeq(s, k + 1, Len(s))
  OBVIOUS
<1> HIDE DEF n, a, b, r
<1>12. /\ at \in Seq(Threads) /\ Len(at) = k + 1 /\ at[k + 1] = t
       /\ \A i \in 1..k : at[i] = s[i]
  <2>1. at = Append(a, t)
    BY <1>9, AppendIsConcat
  <2>2. /\ Append(a, t) \in Seq(Threads) /\ Len(Append(a, t)) = Len(a) + 1
        /\ \A i \in 1..Len(a) : Append(a, t)[i] = a[i]
        /\ Append(a, t)[Len(a) + 1] = t
    BY <1>9, AppendProperties
  <2> HIDE DEF at
  <2> QED
    BY <1>9, <2>1, <2>2
<1> HIDE DEF at
<1>13. /\ r \in Seq(Threads) /\ Len(r) = n + 1
       /\ \A i \in 1..k : r[i] = s[i]
       /\ r[k + 1] = t
       /\ \A i \in k+1..n : r[i + 1] = s[i]
  <2>1. /\ r \in Seq(Threads) /\ Len(r) = Len(at) + Len(b)
        /\ \A i \in 1..Len(at)+Len(b) : r[i] = IF i <= Len(at) THEN at[i] ELSE b[i - Len(at)]
    <3>1. \A u, v \in Seq(Threads) :
            /\ u \o v \in Seq(Threads) /\ Len(u \o v) = Len(u) + Len(v)
            /\ \A i \in 1..Len(u)+Len(v) : (u \o v)[i] = IF i <= Len(u) THEN u[i] ELSE v[i - Len(u)]
      BY ConcatProperties
    <3> QED
      BY <1>10, <1>12, <3>1 DEF r
  <2>2. Len(at) = k + 1 /\ Len(at) + Len(b) = n + 1
    BY <1>1, <1>4, <1>10, <1>12
  <2>3. \A i \in 1..n+1 : r[i] = IF i <= k + 1 THEN at[i] ELSE b[i - (k + 1)]
    BY <2>1, <2>2
  <2>4. ASSUME NEW i \in 1..k PROVE r[i] = s[i]
    <3>1. i \in 1..n+1 /\ i <= k + 1
      BY <1>1, <1>4
    <3> QED
      BY <1>12, <2>3, <3>1
  <2>5. r[k + 1] = t
    <3>1. k + 1 \in 1..n+1 /\ k + 1 <= k + 1
      BY <1>1, <1>4
    <3>2. r[k + 1] = at[k + 1]
      BY <2>3, <3>1
    <3> QED
      BY <1>12, <3>2
  <2>6. ASSUME NEW i \in k+1..n PROVE r[i + 1] = s[i]
    <3>1. i + 1 \in 1..n+1 /\ ~(i + 1 <= k + 1) /\ i + 1 - (k + 1) \in 1..n-k /\ k + (i + 1 - (k + 1)) = i
      BY <1>1, <1>4
    <3>2. r[i + 1] = b[i + 1 - (k + 1)]
      <4> DEFINE j == i + 1
      <4>1. j \in 1..n+1 /\ ~(j <= k + 1)
        BY <3>1
      <4> HIDE DEF j
      <4>2. r[j] = b[j - (k + 1)]
        BY <2>3, <4>1
      <4> QED
        BY <4>2 DEF j
    <3>3. b[i + 1 - (k + 1)] = s[k + (i + 1 - (k + 1))]
      BY <1>10, <3>1
    <3> QED
      BY <3>1, <3>2, <3>3
  <2> QED
    BY <2>1, <2>2, <2>4, <2>5, <2>6
<1> QED
  BY <1>11, <1>13 DEF n

\* A thread in its place between others makes a list.
LEMMA PlacedList ==
  ASSUME NEW p \in Prios, NEW s, IsList(p, s), NEW t \in Threads, t \notin ToSet(s),
         NEW k \in 0..Len(s), \A i \in 1..k : p[s[i]] >= p[t],
         k < Len(s) => p[s[k + 1]] <= p[t],
         NEW r \in Seq(Threads), Len(r) = Len(s) + 1,
         \A i \in 1..k : r[i] = s[i], r[k + 1] = t, \A i \in k+1..Len(s) : r[i + 1] = s[i]
  PROVE  IsList(p, r) /\ ToSet(r) = ToSet(s) \cup {t}
<1> DEFINE n == Len(s)
<1>1. s \in Seq(Threads) /\ n \in Nat /\ \A i \in 1..n : s[i] \in Threads
  BY ElementOfSeq, LenProperties DEF IsList
<1>2. /\ \A i, j \in 1..n : s[i] = s[j] => i = j
      /\ ToSet(s) = {s[i] : i \in 1..n} /\ ToSet(s) \subseteq Threads
  BY <1>1, InjectiveSeq DEF IsList
<1>3. \A i, j \in 1..n : i < j => p[s[i]] >= p[s[j]]
  BY DEF IsList, Sorted
<1>4. k \in Nat /\ k <= n
  BY <1>1
<1>5. \A i \in 1..n : p[s[i]] \in Nat
  BY <1>1 DEF Prios
<1>6. p[t] \in Nat
  BY DEF Prios
<1>7. \A i \in k+1..n : p[s[i]] <= p[t]
  <2> TAKE i \in k+1..n
  <2>1. k + 1 \in 1..n /\ i \in 1..n /\ p[s[k + 1]] <= p[t]
    BY <1>1, <1>4
  <2>2. CASE i = k + 1
    BY <2>1, <2>2
  <2>3. CASE i # k + 1
    <3>1. k + 1 < i
      BY <1>4, <2>3
    <3>2. p[s[k + 1]] >= p[s[i]]
      BY <1>3, <2>1, <3>1
    <3> QED
      BY <1>5, <1>6, <2>1, <3>2
  <2> QED
    BY <2>2, <2>3
<1>8. \A i \in 1..k : p[s[i]] >= p[t]
  OBVIOUS
<1>13. /\ r \in Seq(Threads) /\ Len(r) = n + 1
       /\ \A i \in 1..k : r[i] = s[i]
       /\ r[k + 1] = t
       /\ \A i \in k+1..n : r[i + 1] = s[i]
  OBVIOUS
<1> HIDE DEF n
<1> DEFINE from(i) == IF i <= k THEN i ELSE i - 1
<1>14. \A i \in 1..n+1 : i # k + 1 => from(i) \in 1..n /\ r[i] = s[from(i)]
  <2> TAKE i \in 1..n+1
  <2>1. CASE i <= k
    BY <1>1, <1>4, <1>13, <2>1
  <2>2. CASE i > k + 1
    <3>1. i - 1 \in k+1..n /\ i - 1 + 1 = i /\ from(i) = i - 1 /\ i - 1 \in 1..n
      BY <1>1, <1>4, <2>2
    <3>2. r[i - 1 + 1] = s[i - 1]
      BY <1>13, <3>1
    <3> QED
      BY <3>1, <3>2
  <2>3. i # k + 1 => i <= k \/ i > k + 1
    BY <1>4
  <2> QED
    BY <2>1, <2>2, <2>3
<1>15. \A i, j \in 1..n+1 : i < j /\ i # k + 1 /\ j # k + 1 => from(i) < from(j)
  BY <1>1, <1>4
<1>16. \A i \in 1..n+1 : (i < k + 1 => from(i) \in 1..k) /\ (i > k + 1 => from(i) \in k+1..n)
  BY <1>1, <1>4
<1>17. \A i \in 1..n : \E j \in 1..n+1 : j # k + 1 /\ from(j) = i
  <2> TAKE i \in 1..n
  <2>1. CASE i <= k
    <3>1. i \in 1..n+1 /\ i # k + 1 /\ from(i) = i
      BY <1>1, <1>4, <2>1
    <3> QED
      BY <3>1
  <2>2. CASE i > k
    <3>1. i + 1 \in 1..n+1 /\ i + 1 # k + 1 /\ from(i + 1) = i
      BY <1>1, <1>4, <2>2
    <3> QED
      BY <3>1
  <2> QED
    BY <1>4, <2>1, <2>2
<1> HIDE DEF from
<1>18. ToSet(r) = {r[i] : i \in 1..n+1}
  <2>1. ToSet(r) = {r[i] : i \in 1..Len(r)}
    BY <1>13, InjectiveSeq
  <2> QED
    BY <1>13, <2>1
<1>19. \A i \in 1..n+1 : i # k + 1 => r[i] \in ToSet(s) /\ r[i] # t
  BY <1>2, <1>14
<1>20. IsInjective(r)
  <2>1. ASSUME NEW i \in 1..n+1, NEW j \in 1..n+1, r[i] = r[j] PROVE ~(i < j)
    <3>1. CASE i = k + 1 \/ j = k + 1
      <4>1. r[i] = t /\ r[j] = t
        BY <1>13, <2>1, <3>1
      <4>2. i = k + 1 /\ j = k + 1
        BY <1>19, <4>1
      <4> QED
        BY <1>4, <4>2
    <3>2. CASE i # k + 1 /\ j # k + 1
      <4>1. from(i) = from(j) /\ from(i) \in Int
        <5>1. from(i) \in 1..n /\ from(j) \in 1..n /\ r[i] = s[from(i)] /\ r[j] = s[from(j)]
          BY <1>14, <3>2
        <5>2. from(i) = from(j)
          BY <1>2, <2>1, <5>1
        <5> QED
          BY <5>1, <5>2
      <4>2. ~(from(i) < from(j))
        BY <4>1
      <4> QED
        BY <1>15, <3>2, <4>2
    <3> QED
      BY <3>1, <3>2
  <2>2. ASSUME NEW i \in 1..n+1, NEW j \in 1..n+1, r[i] = r[j] PROVE i = j
    <3>1. ~(i < j) /\ ~(j < i)
      BY <2>1, <2>2
    <3> QED
      BY <3>1
  <2> QED
    BY <1>13, <2>2, InjectiveSeq
<1>21. Sorted(p, r)
  <2>1. ASSUME NEW i \in 1..n+1, NEW j \in 1..n+1, i < j PROVE p[r[i]] >= p[r[j]]
    <3>1. CASE i = k + 1
      <4>1. j > k + 1 /\ j # k + 1
        BY <1>4, <2>1, <3>1
      <4>2. from(j) \in k+1..n /\ r[j] = s[from(j)]
        BY <1>14, <1>16, <4>1
      <4>3. p[s[from(j)]] <= p[t] /\ from(j) \in 1..n
        BY <1>7, <1>14, <4>1, <4>2
      <4> QED
        BY <1>5, <1>6, <1>13, <3>1, <4>2, <4>3
    <3>2. CASE j = k + 1
      <4>1. i < k + 1 /\ i # k + 1
        BY <1>4, <2>1, <3>2
      <4>2. from(i) \in 1..k /\ r[i] = s[from(i)]
        BY <1>14, <1>16, <4>1
      <4> QED
        BY <1>8, <1>13, <3>2, <4>2
    <3>3. CASE i # k + 1 /\ j # k + 1
      BY <1>3, <1>14, <1>15, <2>1, <3>3
    <3> QED
      BY <3>1, <3>2, <3>3
  <2> QED
    BY <1>13, <2>1 DEF Sorted
<1>22. ToSet(r) = ToSet(s) \cup {t}
  <2>1. t \in ToSet(r)
    <3>1. k + 1 \in 1..n+1
      BY <1>1, <1>4
    <3> QED
      BY <1>13, <1>18, <3>1
  <2>2. ASSUME NEW i \in 1..n PROVE s[i] \in ToSet(r)
    <3>1. PICK j \in 1..n+1 : j # k + 1 /\ from(j) = i
      BY <1>17
    <3> QED
      BY <1>14, <1>18, <3>1
  <2>3. ASSUME NEW i \in 1..n+1 PROVE r[i] \in ToSet(s) \cup {t}
    BY <1>13, <1>19
  <2>4. ToSet(r) \subseteq ToSet(s) \cup {t}
    BY <1>18, <2>3
  <2>5. ToSet(s) \subseteq ToSet(r)
    BY <1>2, <2>2
  <2> QED
    BY <2>1, <2>4, <2>5
<1> QED
  BY <1>13, <1>20, <1>21, <1>22 DEF IsList

\* Behind and Ahead put a thread into a list.
LEMMA BehindList ==
  ASSUME NEW p \in Prios, NEW s, IsList(p, s), NEW t \in Threads, t \notin ToSet(s)
  PROVE  /\ IsList(p, Behind(p, s, t)) /\ ToSet(Behind(p, s, t)) = ToSet(s) \cup {t}
         /\ IsList(p, Ahead(p, s, t)) /\ ToSet(Ahead(p, s, t)) = ToSet(s) \cup {t}
<1>1. s \in Seq(Threads) /\ Len(s) \in Nat /\ \A i \in 1..Len(s) : s[i] \in Threads /\ p[s[i]] \in Nat
  BY ElementOfSeq, LenProperties DEF IsList, Prios
<1>2. p[t] \in Nat
  BY DEF Prios
<1>3. ASSUME NEW ahead, NEW k \in 0..Len(s),
             \A i \in 1..k : p[s[i]] >= p[t], k < Len(s) => p[s[k + 1]] <= p[t],
             InsertPast(s, t, ahead) = SubSeq(s, 1, k) \o <<t>> \o SubSeq(s, k + 1, Len(s))
      PROVE  IsList(p, InsertPast(s, t, ahead)) /\ ToSet(InsertPast(s, t, ahead)) = ToSet(s) \cup {t}
  <2> DEFINE r == SubSeq(s, 1, k) \o <<t>> \o SubSeq(s, k + 1, Len(s))
  <2>1. /\ r \in Seq(Threads) /\ Len(r) = Len(s) + 1
        /\ \A i \in 1..k : r[i] = s[i]
        /\ r[k + 1] = t
        /\ \A i \in k+1..Len(s) : r[i + 1] = s[i]
    BY <1>1, PlaceSeq
  <2> HIDE DEF r
  <2>2. IsList(p, r) /\ ToSet(r) = ToSet(s) \cup {t}
    BY <1>3, <2>1, PlacedList
  <2> QED
    BY <1>3, <2>2 DEF r
<1>4. IsList(p, Behind(p, s, t)) /\ ToSet(Behind(p, s, t)) = ToSet(s) \cup {t}
  <2> DEFINE ahead == {x \in Threads : p[x] >= p[t]}
  <2>1. PICK k \in 0..Len(s) :
          /\ \A i \in 1..k : s[i] \in ahead
          /\ k < Len(s) => s[k + 1] \notin ahead
          /\ InsertPast(s, t, ahead) = SubSeq(s, 1, k) \o <<t>> \o SubSeq(s, k + 1, Len(s))
    <3> HIDE DEF ahead
    <3> QED
      BY <1>1, InsertPlace
  <2>2. \A i \in 1..k : p[s[i]] >= p[t]
    BY <2>1
  <2>3. k < Len(s) => p[s[k + 1]] <= p[t]
    <3>1. k < Len(s) => k + 1 \in 1..Len(s)
      BY <1>1
    <3> QED
      BY <1>1, <1>2, <2>1, <3>1
  <2> HIDE DEF ahead
  <2>4. IsList(p, InsertPast(s, t, ahead)) /\ ToSet(InsertPast(s, t, ahead)) = ToSet(s) \cup {t}
    BY <1>3, <2>1, <2>2, <2>3
  <2> QED
    BY <2>4 DEF Behind, ahead
<1>5. IsList(p, Ahead(p, s, t)) /\ ToSet(Ahead(p, s, t)) = ToSet(s) \cup {t}
  <2> DEFINE ahead == {x \in Threads : p[x] > p[t]}
  <2>1. PICK k \in 0..Len(s) :
          /\ \A i \in 1..k : s[i] \in ahead
          /\ k < Len(s) => s[k + 1] \notin ahead
          /\ InsertPast(s, t, ahead) = SubSeq(s, 1, k) \o <<t>> \o SubSeq(s, k + 1, Len(s))
    <3> HIDE DEF ahead
    <3> QED
      BY <1>1, InsertPlace
  <2>2. \A i \in 1..k : p[s[i]] >= p[t]
    <3> TAKE i \in 1..k
    <3>1. s[i] \in ahead /\ i \in 1..Len(s)
      BY <1>1, <2>1
    <3> QED
      BY <1>1, <1>2, <3>1
  <2>3. k < Len(s) => p[s[k + 1]] <= p[t]
    <3>1. k < Len(s) => k + 1 \in 1..Len(s)
      BY <1>1
    <3> QED
      BY <1>1, <1>2, <2>1, <3>1
  <2> HIDE DEF ahead
  <2>4. IsList(p, InsertPast(s, t, ahead)) /\ ToSet(InsertPast(s, t, ahead)) = ToSet(s) \cup {t}
    BY <1>3, <2>1, <2>2, <2>3
  <2> QED
    BY <2>4 DEF Ahead, ahead
<1> QED
  BY <1>4, <1>5

\* A mutex put on top of a stack of others.
LEMMA PushSeq ==
  ASSUME NEW V, NEW s \in Seq(V), IsInjective(s), NEW m \in V, m \notin ToSet(s)
  PROVE  /\ <<m>> \o s \in Seq(V) /\ IsInjective(<<m>> \o s)
         /\ ToSet(<<m>> \o s) = ToSet(s) \cup {m}
<1> DEFINE n == Len(s)  r == <<m>> \o s
<1>1. n \in Nat /\ \A i \in 1..n : s[i] \in V
  BY ElementOfSeq, LenProperties
<1>2. /\ r \in Seq(V) /\ Len(r) = n + 1 /\ r[1] = m
      /\ \A i \in 1..n : r[i + 1] = s[i]
  <2>1. <<m>> \in Seq(V) /\ Len(<<m>>) = 1 /\ <<m>>[1] = m
    OBVIOUS
  <2>2. /\ r \in Seq(V) /\ Len(r) = Len(<<m>>) + Len(s)
        /\ \A i \in 1..Len(<<m>>)+Len(s) : r[i] = IF i <= Len(<<m>>) THEN <<m>>[i] ELSE s[i - Len(<<m>>)]
    BY <2>1, ConcatProperties
  <2> HIDE DEF r, n
  <2>3. \A i \in 1..n+1 : r[i] = IF i <= 1 THEN <<m>>[i] ELSE s[i - 1]
    BY <1>1, <2>1, <2>2 DEF n
  <2>4. r[1] = m
    BY <1>1, <2>1, <2>3
  <2>5. ASSUME NEW i \in 1..n PROVE r[i + 1] = s[i]
    <3>1. i + 1 \in 1..n+1 /\ ~(i + 1 <= 1) /\ (i + 1) - 1 = i
      BY <1>1
    <3>2. r[i + 1] = s[(i + 1) - 1]
      BY <2>3, <3>1
    <3> QED
      BY <3>1, <3>2
  <2> QED
    BY <1>1, <2>1, <2>2, <2>4, <2>5 DEF n
<1>3. /\ \A i, j \in 1..n : s[i] = s[j] => i = j
      /\ ToSet(s) = {s[i] : i \in 1..n}
  BY InjectiveSeq
<1> HIDE DEF r, n
<1>4. \A i \in 1..n+1 : i # 1 => i - 1 \in 1..n /\ r[i] = s[i - 1]
  <2> TAKE i \in 1..n+1
  <2> HAVE i # 1
  <2> DEFINE j == i - 1
  <2>1. j \in 1..n /\ j + 1 = i
    BY <1>1
  <2> HIDE DEF j
  <2>2. r[i] = s[j]
    BY <1>2, <2>1
  <2> QED
    BY <2>1, <2>2 DEF j
<1>5. \A i \in 1..n+1 : i # 1 => r[i] \in ToSet(s) /\ r[i] # m
  BY <1>3, <1>4
<1>6. ToSet(r) = {r[i] : i \in 1..n+1}
  <2>1. ToSet(r) = {r[i] : i \in 1..Len(r)}
    BY <1>2, InjectiveSeq
  <2> QED
    BY <1>2, <2>1
<1>7. IsInjective(r)
  <2>1. ASSUME NEW i \in 1..n+1, NEW j \in 1..n+1, r[i] = r[j] PROVE i = j
    <3>1. CASE i = 1 \/ j = 1
      <4>1. r[i] = m /\ r[j] = m
        BY <1>2, <2>1, <3>1
      <4> QED
        BY <1>5, <4>1
    <3>2. CASE i # 1 /\ j # 1
      <4>1. i - 1 = j - 1
        BY <1>3, <1>4, <2>1, <3>2
      <4> QED
        BY <4>1
    <3> QED
      BY <3>1, <3>2
  <2> QED
    BY <1>2, <2>1, InjectiveSeq
<1>8. ToSet(r) = ToSet(s) \cup {m}
  <2>1. m \in ToSet(r)
    <3>1. 1 \in 1..n+1
      BY <1>1
    <3> QED
      BY <1>2, <1>6, <3>1
  <2>2. ASSUME NEW i \in 1..n PROVE s[i] \in ToSet(r)
    <3>1. i + 1 \in 1..n+1
      BY <1>1
    <3> QED
      BY <1>2, <1>6, <3>1
  <2>3. ASSUME NEW i \in 1..n+1 PROVE r[i] \in ToSet(s) \cup {m}
    BY <1>2, <1>5
  <2>4. ToSet(r) \subseteq ToSet(s) \cup {m}
    BY <1>6, <2>3
  <2>5. ToSet(s) \subseteq ToSet(r)
    BY <1>3, <2>2
  <2> QED
    BY <2>1, <2>4, <2>5
<1> QED
  BY <1>2, <1>7, <1>8 DEF r

-----------------------------------------------------------------------------
(* The inductive invariant *)

Runnable == {current} \cup ToSet(rlist)

\* The ready list is in order, and nothing in it has a higher priority than the
\* running thread.
Scheduled ==
  /\ current \in Threads \ ToSet(rlist) /\ IsList(prio, rlist)
  /\ Idle \in Runnable
  /\ \A t \in ToSet(rlist) : prio[t] <= prio[current]

\* A mutex is in the list of its owner.
Owned ==
  /\ owner \in [Mutexes -> Threads \cup {NoThread}]
  /\ mtxlist \in [Threads -> Seq(Mutexes)]
  /\ \A t \in Threads : /\ IsInjective(mtxlist[t])
                        /\ \A m \in Mutexes : m \in ToSet(mtxlist[t]) <=> owner[m] = t

\* The queues are in order; a thread waits for one mutex, which is owned, and does
\* not run.
Queued ==
  /\ queue \in [Mutexes -> Seq(Threads)]
  /\ \A m \in Mutexes : /\ IsList(prio, queue[m])
                        /\ Waiters(m) \cap Runnable = {}
                        /\ Waiters(m) # {} => owner[m] # NoThread
  /\ \A m, n \in Mutexes : Waiters(m) \cap Waiters(n) # {} => m = n

KeptBy(w, t) == \E m \in Mutexes : owner[m] = t /\ w \in Waiters(m)

\* The priority of a thread is the least that is not below its own and not below
\* those of the threads it keeps waiting.
Exact ==
  \A t \in Threads :
    /\ prio[t] >= RealPrio[t]
    /\ \A w \in Threads : KeptBy(w, t) => prio[w] <= prio[t]
    /\ prio[t] = RealPrio[t] \/ \E w \in Threads : KeptBy(w, t) /\ prio[w] = prio[t]

IInv == prio \in Prios /\ Scheduled /\ Owned /\ Queued /\ Exact

LEMMA InitHolds == ASSUME Init PROVE IInv
<1>1. /\ ToSet(<< >>) = {} /\ << >> \in Seq(Threads) /\ << >> \in Seq(Mutexes)
      /\ IsList(prio, << >>) /\ IsInjective(<< >>)
  BY EmptyList, EmptySeq DEF IsList
<1>2. prio \in Prios /\ prio = RealPrio /\ current \in Threads
  BY KernelAssumption DEF Init, Prios
<1>3. Scheduled
  BY <1>1, <1>2 DEF Init, Scheduled, Runnable
<1>4. Owned
  BY <1>1, KernelAssumption DEF Init, Owned
<1>5. \A m \in Mutexes : queue[m] = << >> /\ Waiters(m) = {}
  BY <1>1 DEF Init, Waiters
<1>6. Queued
  BY <1>1, <1>5 DEF Init, Queued
<1>7. Exact
  <2>1. \A t \in Threads : RealPrio[t] \in Nat
    BY KernelAssumption
  <2> QED
    BY <1>2, <1>5, <2>1 DEF Exact, KeptBy
<1> QED
  BY <1>2, <1>3, <1>4, <1>6, <1>7 DEF IInv

\* What the scheduler does to the running thread and the ready threads r.
LEMMA RescheduleStep ==
  ASSUME NEW p \in Prios, NEW r, IsList(p, r), current \in Threads, current \notin ToSet(r),
         Reschedule(p, r)
  PROVE  /\ current' \in Threads /\ IsList(p, rlist') /\ current' \notin ToSet(rlist')
         /\ {current'} \cup ToSet(rlist') = {current} \cup ToSet(r)
         /\ \A t \in ToSet(rlist') : p[t] <= p[current']
<1>0. \A t \in Threads : p[t] \in Nat
  BY DEF Prios
<1>1. CASE r # << >> /\ p[Head(r)] > p[current]
  <2>1. current' = Head(r) /\ rlist' = Ahead(p, Tail(r), current)
    BY <1>1 DEF Reschedule, SwitchAhead
  <2>2. /\ Head(r) \in ToSet(r) /\ ToSet(r) \subseteq Threads
        /\ IsList(p, Tail(r)) /\ ToSet(Tail(r)) = ToSet(r) \ {Head(r)}
        /\ \A t \in ToSet(r) : p[t] <= p[Head(r)]
    BY <1>1, HeadTail
  <2>3. current \notin ToSet(Tail(r))
    BY <2>2
  <2>4. IsList(p, rlist') /\ ToSet(rlist') = ToSet(Tail(r)) \cup {current}
    BY <2>1, <2>2, <2>3, BehindList
  <2>5. \A t \in ToSet(rlist') : p[t] <= p[current']
    <3> TAKE t \in ToSet(rlist')
    <3>1. CASE t = current
      BY <1>0, <1>1, <2>1, <2>2, <3>1
    <3>2. CASE t # current
      BY <2>1, <2>2, <2>4, <3>2
    <3> QED
      BY <3>1, <3>2
  <2> QED
    BY <2>1, <2>2, <2>4, <2>5
<1>2. CASE ~(r # << >> /\ p[Head(r)] > p[current])
  <2>1. current' = current /\ rlist' = r
    BY <1>2 DEF Reschedule
  <2>2. ASSUME NEW t \in ToSet(r) PROVE p[t] <= p[current]
    <3>1. r # << >>
      BY EmptyList
    <3>2. /\ Head(r) \in Threads /\ t \in Threads /\ p[t] <= p[Head(r)]
      BY <3>1, HeadTail
    <3> QED
      BY <1>0, <1>2, <3>1, <3>2
  <2> QED
    BY <2>1, <2>2
<1> QED
  BY <1>1, <1>2

\* Everything but the running thread and the ready list stays.
LEMMA OnlyScheduled ==
  ASSUME IInv, UNCHANGED <<prio, mutexVars>>, Scheduled',
         \A m \in Mutexes : Waiters(m) \cap ({current'} \cup ToSet(rlist')) = {}
  PROVE  IInv'
<1>1. prio' = prio /\ owner' = owner /\ queue' = queue /\ mtxlist' = mtxlist
  BY DEF mutexVars
<1>2. Owned' /\ prio' \in Prios
  BY <1>1 DEF IInv, Owned
<1>3. \A m \in Mutexes : Waiters(m)' = Waiters(m)
  BY <1>1 DEF Waiters
<1>4. Runnable' = {current'} \cup ToSet(rlist')
  BY DEF Runnable
<1>5. Queued'
  BY <1>1, <1>3, <1>4 DEF IInv, Queued
<1>6. \A w, t : KeptBy(w, t)' <=> KeptBy(w, t)
  BY <1>1, <1>3 DEF KeptBy
<1>7. Exact'
  BY <1>1, <1>6 DEF IInv, Exact
<1> QED
  BY <1>2, <1>5, <1>7 DEF IInv

\* The ready list is not empty while another thread than the idle thread runs.
LEMMA ReadyList ==
  ASSUME IInv
  PROVE  /\ prio \in Prios /\ IsList(prio, rlist) /\ current \in Threads \ ToSet(rlist)
         /\ ToSet(rlist) \subseteq Threads
         /\ \A t \in Threads : prio[t] \in Nat
         /\ current # Idle => rlist # << >>
<1>1. prio \in Prios /\ IsList(prio, rlist) /\ current \in Threads \ ToSet(rlist)
  BY DEF IInv, Scheduled
<1>2. current # Idle => rlist # << >>
  BY EmptyList DEF IInv, Scheduled, Runnable
<1> QED
  BY <1>1, <1>2, InjectiveSeq DEF Prios, IsList

LEMMA SleepStep == ASSUME IInv, Sleep PROVE IInv'
<1>1. /\ current # Idle /\ current' = Head(rlist) /\ rlist' = Tail(rlist)
      /\ UNCHANGED <<prio, mutexVars>> /\ prio' = prio
  BY DEF Sleep
<1>2. rlist # << >> /\ prio \in Prios /\ IsList(prio, rlist)
  BY <1>1, ReadyList
<1>3. /\ Head(rlist) \in ToSet(rlist) /\ ToSet(rlist) \subseteq Threads
      /\ IsList(prio, Tail(rlist)) /\ ToSet(Tail(rlist)) = ToSet(rlist) \ {Head(rlist)}
      /\ \A t \in ToSet(rlist) : prio[t] <= prio[Head(rlist)]
  BY <1>2, HeadTail
<1>4. {current'} \cup ToSet(rlist') = ToSet(rlist)
  BY <1>1, <1>3
<1>5. Scheduled'
  BY <1>1, <1>3, <1>4 DEF IInv, Scheduled, Runnable
<1>6. \A m \in Mutexes : Waiters(m) \cap ToSet(rlist) = {}
  BY DEF IInv, Queued, Runnable
<1> QED
  BY <1>1, <1>4, <1>5, <1>6, OnlyScheduled

LEMMA WakeStep == ASSUME IInv, NEW t \in Threads, Wake(t) PROVE IInv'
<1> DEFINE r == Behind(prio, rlist, t)
<1>1. t \in Sleeping /\ Reschedule(prio, r) /\ UNCHANGED <<prio, mutexVars>> /\ prio' = prio
  BY DEF Wake
<1>2. t # current /\ t \notin ToSet(rlist) /\ \A m \in Mutexes : t \notin Waiters(m)
  BY <1>1 DEF Sleeping, WaitsFor
<1>3. prio \in Prios /\ IsList(prio, rlist) /\ current \in Threads \ ToSet(rlist)
  BY ReadyList
<1>4. IsList(prio, r) /\ ToSet(r) = ToSet(rlist) \cup {t}
  BY <1>2, <1>3, BehindList
<1> HIDE DEF r
<1>5. current \notin ToSet(r)
  BY <1>2, <1>3, <1>4
<1>6. /\ current' \in Threads /\ IsList(prio, rlist') /\ current' \notin ToSet(rlist')
      /\ {current'} \cup ToSet(rlist') = {current} \cup ToSet(r)
      /\ \A x \in ToSet(rlist') : prio[x] <= prio[current']
  BY <1>1, <1>3, <1>4, <1>5, RescheduleStep
<1>7. Scheduled'
  BY <1>1, <1>4, <1>6 DEF IInv, Scheduled, Runnable
<1>8. \A m \in Mutexes : Waiters(m) \cap ({current'} \cup ToSet(rlist')) = {}
  BY <1>2, <1>4, <1>6 DEF IInv, Queued, Runnable
<1> QED
  BY <1>1, <1>7, <1>8, OnlyScheduled

LEMMA QuantumEndsStep == ASSUME IInv, QuantumEnds PROVE IInv'
<1>1. /\ rlist # << >> /\ prio[Head(rlist)] >= prio[current]
      /\ current' = Head(rlist) /\ rlist' = Behind(prio, Tail(rlist), current)
      /\ UNCHANGED <<prio, mutexVars>> /\ prio' = prio
  BY DEF QuantumEnds
<1>2. /\ prio \in Prios /\ IsList(prio, rlist) /\ current \in Threads \ ToSet(rlist)
      /\ \A t \in Threads : prio[t] \in Nat
  BY ReadyList
<1>3. /\ Head(rlist) \in ToSet(rlist) /\ ToSet(rlist) \subseteq Threads
      /\ IsList(prio, Tail(rlist)) /\ ToSet(Tail(rlist)) = ToSet(rlist) \ {Head(rlist)}
      /\ \A t \in ToSet(rlist) : prio[t] <= prio[Head(rlist)]
  BY <1>1, <1>2, HeadTail
<1>4. current \in Threads /\ current \notin ToSet(Tail(rlist))
  BY <1>2, <1>3
<1>5. IsList(prio, rlist') /\ ToSet(rlist') = ToSet(Tail(rlist)) \cup {current}
  BY <1>1, <1>2, <1>3, <1>4, BehindList
<1>6. {current'} \cup ToSet(rlist') = Runnable
  BY <1>1, <1>3, <1>5 DEF Runnable
<1>7. \A t \in ToSet(rlist') : prio[t] <= prio[current']
  BY <1>1, <1>2, <1>3, <1>5
<1>8. current' \in Threads /\ current' \notin ToSet(rlist')
  BY <1>1, <1>2, <1>3, <1>5
<1>9. Runnable' = Runnable
  BY <1>6 DEF Runnable
<1>10. Scheduled'
  BY <1>1, <1>5, <1>7, <1>8, <1>9 DEF IInv, Scheduled
<1>11. \A m \in Mutexes : Waiters(m) \cap ({current'} \cup ToSet(rlist')) = {}
  BY <1>6 DEF IInv, Queued
<1> QED
  BY <1>1, <1>10, <1>11, OnlyScheduled

-----------------------------------------------------------------------------
(* Locking: the loop of chMtxLockS *)

\* The thread w waits for t once the running thread waits for the mutex m.
WillKeep(w, t, m) ==
  \E n \in Mutexes : owner[n] = t /\ (w \in Waiters(n) \/ (n = m /\ w = current))

BoostStates ==
  [tp : Threads \cup {NoThread}, prio : Prios, rlist : Seq(Threads), queue : [Mutexes -> Seq(Threads)]]

\* Before and after every turn: the lists hold the threads that they held, in order,
\* and only the thread s.tp may have a priority that is too low.
BoostInv(s, m) ==
  /\ s \in BoostStates
  /\ IsList(s.prio, s.rlist) /\ ToSet(s.rlist) = ToSet(rlist)
  /\ \A n \in Mutexes : IsList(s.prio, s.queue[n]) /\ ToSet(s.queue[n]) = Waiters(n)
  /\ s.prio[current] = prio[current]
  /\ s.tp # NoThread => \E w \in Threads : WillKeep(w, s.tp, m) /\ s.prio[w] = prio[current]
  /\ \A t \in Threads :
       /\ s.prio[t] >= RealPrio[t]
       /\ \A w \in Threads : WillKeep(w, t, m) =>
            s.prio[w] <= s.prio[t] \/ (t = s.tp /\ s.prio[w] <= prio[current])
       /\ \/ s.prio[t] = RealPrio[t]
          \/ \E w \in Threads : WillKeep(w, t, m) /\ s.prio[w] = s.prio[t]
          \/ t = s.tp /\ s.prio[t] < prio[current]

Ended(s) == s.tp = NoThread \/ s.prio[s.tp] >= prio[current]

Low(s) == {t \in Threads : s.prio[t] < prio[current]}

\* A thread that gets another priority and is entered again.
LEMMA MoveList ==
  ASSUME NEW p \in Prios, NEW s, IsList(p, s), NEW t \in ToSet(s), t \in Threads,
         NEW q \in Prios, \A x \in Threads : x # t => q[x] = p[x]
  PROVE  /\ IsList(q, Behind(q, Dequeue(s, t), t))
         /\ ToSet(Behind(q, Dequeue(s, t), t)) = ToSet(s)
<1>1. IsList(p, Dequeue(s, t)) /\ ToSet(Dequeue(s, t)) = ToSet(s) \ {t}
  BY DequeueList
<1>2. ToSet(s) \subseteq Threads
  BY InjectiveSeq DEF IsList
<1>3. IsList(q, Dequeue(s, t)) /\ t \notin ToSet(Dequeue(s, t))
  BY <1>1, <1>2, SamePrio
<1> QED
  BY <1>1, <1>3, BehindList

\* The two ways a turn goes.
LEMMA BoostCases ==
  ASSUME IInv, NEW m \in Mutexes, NEW s, BoostInv(s, m), ~Ended(s)
  PROVE  LET p == [s.prio EXCEPT ![s.tp] = prio[current]]
             b == Boost(s)
         IN /\ b \in BoostStates /\ b.prio = p /\ p \in Prios
            /\ s.tp \in Threads /\ s.tp # current /\ s.prio[s.tp] < prio[current]
            /\ \/ \E n \in Mutexes :
                    /\ s.tp \in Waiters(n)
                    /\ b.tp = owner[n] /\ b.tp \in Threads /\ b.rlist = s.rlist
                    /\ b.queue = [s.queue EXCEPT ![n] = Behind(p, Dequeue(@, s.tp), s.tp)]
               \/ /\ \A n \in Mutexes : s.tp \notin Waiters(n)
                  /\ b.tp = NoThread /\ b.queue = s.queue
                  /\ b.rlist = IF s.tp \in ToSet(s.rlist)
                                 THEN Behind(p, Dequeue(s.rlist, s.tp), s.tp) ELSE s.rlist
<1> DEFINE p == [s.prio EXCEPT ![s.tp] = prio[current]]  b == Boost(s)
<1>1. /\ s \in BoostStates /\ s.tp \in Threads /\ ~(s.prio[s.tp] >= prio[current])
      /\ ~(s.tp = NoThread)
  BY DEF BoostInv, Ended, BoostStates
<1>2. /\ s.prio \in Prios /\ s.rlist \in Seq(Threads) /\ s.queue \in [Mutexes -> Seq(Threads)]
  BY <1>1 DEF BoostStates
<1>3. prio[current] \in Nat /\ \A t \in Threads : s.prio[t] \in Nat
  BY <1>2, ReadyList DEF Prios
<1>4. s.tp # current /\ s.prio[s.tp] < prio[current]
  BY <1>1, <1>3 DEF BoostInv
<1>5. p \in Prios
  BY <1>1, <1>2, <1>3 DEF Prios
<1>6. CASE WaitsFor(s.tp) # {}
  <2> DEFINE n == CHOOSE n \in Mutexes : n \in WaitsFor(s.tp)
  <2>1. n \in Mutexes /\ s.tp \in Waiters(n)
    BY <1>6 DEF WaitsFor
  <2>2. owner[n] \in Threads
    BY <2>1, KernelAssumption DEF IInv, Queued, Owned
  <2>3. b = [s EXCEPT !.prio = p, !.tp = owner[n],
                      !.queue[n] = Behind(p, Dequeue(@, s.tp), s.tp)]
    BY <1>1, <1>6 DEF Boost
  <2> HIDE DEF p, n, b
  <2> DEFINE e == Behind(p, Dequeue(s.queue[n], s.tp), s.tp)
  <2>4. e \in Seq(Threads)
    <3>1. IsList(s.prio, s.queue[n]) /\ s.tp \in ToSet(s.queue[n])
      BY <2>1 DEF BoostInv
    <3>2. \A x \in Threads : x # s.tp => p[x] = s.prio[x]
      BY <1>2 DEF p, Prios
    <3>3. IsList(p, e)
      BY <1>1, <1>2, <1>5, <3>1, <3>2, MoveList
    <3> QED
      BY <3>3 DEF IsList
  <2>5. b = [s EXCEPT !.prio = p, !.tp = owner[n], !.queue = [s.queue EXCEPT ![n] = e]]
    BY <1>1, <2>3 DEF BoostStates
  <2> HIDE DEF e
  <2>6. [s.queue EXCEPT ![n] = e] \in [Mutexes -> Seq(Threads)]
    BY <1>2, <2>4
  <2>7. /\ b \in BoostStates /\ b.prio = p /\ b.tp = owner[n] /\ b.rlist = s.rlist
        /\ b.queue = [s.queue EXCEPT ![n] = e]
    BY <1>1, <1>5, <2>2, <2>5, <2>6 DEF BoostStates
  <2>8. b.queue = [s.queue EXCEPT ![n] = Behind(p, Dequeue(@, s.tp), s.tp)]
    BY <2>7 DEF e
  <2> QED
    BY <1>1, <1>4, <1>5, <2>1, <2>2, <2>7, <2>8 DEF b, p
<1>7. CASE WaitsFor(s.tp) = {}
  <2> DEFINE in == Contains(s.rlist, s.tp)
             r == IF s.tp \in ToSet(s.rlist) THEN Behind(p, Dequeue(s.rlist, s.tp), s.tp) ELSE s.rlist
  <2>1. \A n \in Mutexes : s.tp \notin Waiters(n)
    BY <1>7 DEF WaitsFor
  <2>2. Contains(s.rlist, s.tp) <=> s.tp \in ToSet(s.rlist)
    BY <1>2, InjectiveSeq DEF Contains
  <2>3. b = [s EXCEPT !.prio = p, !.tp = NoThread,
                      !.rlist = IF Contains(@, s.tp) THEN Behind(p, Dequeue(@, s.tp), s.tp) ELSE @]
    BY <1>1, <1>7 DEF Boost
  <2>4. b = [s EXCEPT !.prio = p, !.tp = NoThread, !.rlist = r]
    <3> HIDE DEF p, b
    <3> QED
      BY <1>1, <2>2, <2>3 DEF BoostStates
  <2>5. r \in Seq(Threads)
    <3>1. CASE s.tp \in ToSet(s.rlist)
      <4>1. IsList(s.prio, s.rlist)
        BY DEF BoostInv
      <4>2. \A x \in Threads : x # s.tp => p[x] = s.prio[x]
        BY <1>2 DEF Prios
      <4> HIDE DEF p
      <4>3. IsList(p, Behind(p, Dequeue(s.rlist, s.tp), s.tp))
        BY <1>1, <1>2, <1>5, <3>1, <4>1, <4>2, MoveList
      <4> QED
        BY <3>1, <4>3 DEF IsList
    <3>2. CASE s.tp \notin ToSet(s.rlist)
      BY <1>2, <3>2
    <3> QED
      BY <3>1, <3>2
  <2> HIDE DEF r, p, b
  <2>6. /\ b \in BoostStates /\ b.prio = p /\ b.tp = NoThread /\ b.rlist = r /\ b.queue = s.queue
    BY <1>1, <1>5, <2>4, <2>5 DEF BoostStates
  <2> QED
    BY <1>1, <1>4, <1>5, <2>1, <2>6 DEF b, p, r
<1> QED
  BY <1>6, <1>7

\* A turn keeps the invariant of the loop.
LEMMA BoostStep ==
  ASSUME IInv, NEW m \in Mutexes, NEW s, BoostInv(s, m), ~Ended(s)
  PROVE  BoostInv(Boost(s), m)
<1> DEFINE p == [s.prio EXCEPT ![s.tp] = prio[current]]  b == Boost(s)
<1>1. /\ b \in BoostStates /\ b.prio = p /\ p \in Prios
      /\ s.tp \in Threads /\ s.tp # current /\ s.prio[s.tp] < prio[current]
  BY BoostCases
<1>2. s.prio \in Prios /\ s.queue \in [Mutexes -> Seq(Threads)]
  BY DEF BoostInv, BoostStates
<1>3. /\ p[s.tp] = prio[current] /\ \A t \in Threads : t # s.tp => p[t] = s.prio[t]
      /\ \A t \in Threads : p[t] \in Nat /\ s.prio[t] \in Nat /\ RealPrio[t] \in Nat
      /\ prio[current] \in Nat /\ current \in Threads
  BY <1>1, <1>2, ReadyList, KernelAssumption DEF Prios
<1>4. \/ \E n \in Mutexes :
           /\ s.tp \in Waiters(n)
           /\ b.tp = owner[n] /\ b.tp \in Threads /\ b.rlist = s.rlist
           /\ b.queue = [s.queue EXCEPT ![n] = Behind(p, Dequeue(@, s.tp), s.tp)]
      \/ /\ \A n \in Mutexes : s.tp \notin Waiters(n)
         /\ b.tp = NoThread /\ b.queue = s.queue
         /\ b.rlist = IF s.tp \in ToSet(s.rlist)
                        THEN Behind(p, Dequeue(s.rlist, s.tp), s.tp) ELSE s.rlist
  BY BoostCases
<1> HIDE DEF p, b
<1>5. ASSUME NEW l, IsList(s.prio, l), s.tp \notin ToSet(l)
      PROVE  IsList(p, l)
  <2>1. ToSet(l) \subseteq Threads
    BY <1>5, InjectiveSeq DEF IsList
  <2> QED
    BY <1>3, <1>5, <2>1, SamePrio
<1>6. ASSUME NEW l, IsList(s.prio, l), s.tp \in ToSet(l)
      PROVE  /\ IsList(p, Behind(p, Dequeue(l, s.tp), s.tp))
             /\ ToSet(Behind(p, Dequeue(l, s.tp), s.tp)) = ToSet(l)
  BY <1>1, <1>2, <1>3, <1>6, MoveList
<1>7. IsList(p, b.rlist) /\ ToSet(b.rlist) = ToSet(rlist)
  <2>1. IsList(s.prio, s.rlist) /\ ToSet(s.rlist) = ToSet(rlist)
    BY DEF BoostInv
  <2>2. CASE s.tp \in ToSet(rlist)
    <3>1. \A n \in Mutexes : s.tp \notin Waiters(n)
      BY <2>2 DEF IInv, Queued, Runnable
    <3>2. b.rlist = Behind(p, Dequeue(s.rlist, s.tp), s.tp)
      BY <1>4, <2>1, <2>2, <3>1
    <3> QED
      BY <1>6, <2>1, <2>2, <3>2
  <2>3. CASE s.tp \notin ToSet(rlist)
    <3>1. b.rlist = s.rlist
      BY <1>4, <2>1, <2>3
    <3> QED
      BY <1>5, <2>1, <2>3, <3>1
  <2> QED
    BY <2>2, <2>3
<1>8. \A n \in Mutexes : IsList(p, b.queue[n]) /\ ToSet(b.queue[n]) = Waiters(n)
  <2> TAKE n \in Mutexes
  <2>1. IsList(s.prio, s.queue[n]) /\ ToSet(s.queue[n]) = Waiters(n)
    BY DEF BoostInv
  <2>2. CASE s.tp \in Waiters(n)
    <3>1. PICK k \in Mutexes :
            s.tp \in Waiters(k) /\ b.queue = [s.queue EXCEPT ![k] = Behind(p, Dequeue(@, s.tp), s.tp)]
      BY <1>4, <2>2
    <3>2. k = n
      BY <2>2, <3>1 DEF IInv, Queued
    <3>3. b.queue[n] = Behind(p, Dequeue(s.queue[n], s.tp), s.tp)
      BY <1>2, <3>1, <3>2
    <3> QED
      BY <1>6, <2>1, <2>2, <3>3
  <2>3. CASE s.tp \notin Waiters(n)
    <3>1. b.queue[n] = s.queue[n]
      BY <1>2, <1>4, <2>3
    <3> QED
      BY <1>5, <2>1, <2>3, <3>1
  <2> QED
    BY <2>2, <2>3
<1>9. p[current] = prio[current]
  BY <1>1, <1>3 DEF BoostInv
<1>10. ASSUME NEW t \in Threads, WillKeep(s.tp, t, m) PROVE b.tp = t
  <2>1. PICK k \in Mutexes : owner[k] = t /\ s.tp \in Waiters(k)
    BY <1>1, <1>10 DEF WillKeep
  <2>2. PICK n \in Mutexes : s.tp \in Waiters(n) /\ b.tp = owner[n]
    BY <1>4, <2>1
  <2>3. n = k
    BY <2>1, <2>2 DEF IInv, Queued
  <2> QED
    BY <2>1, <2>2, <2>3
<1>11. b.tp # NoThread => WillKeep(s.tp, b.tp, m)
  BY <1>4 DEF WillKeep
<1>12. b.tp # NoThread => \E w \in Threads : WillKeep(w, b.tp, m) /\ p[w] = prio[current]
  BY <1>1, <1>3, <1>11
<1>13. PICK v \in Threads : WillKeep(v, s.tp, m) /\ s.prio[v] = prio[current]
  BY <1>1, KernelAssumption DEF BoostInv
<1>14. v # s.tp /\ p[v] = prio[current]
  BY <1>1, <1>3, <1>13
<1>15. ASSUME NEW t \in Threads
       PROVE  /\ p[t] >= RealPrio[t]
              /\ \A w \in Threads : WillKeep(w, t, m) =>
                   p[w] <= p[t] \/ (t = b.tp /\ p[w] <= prio[current])
              /\ \/ p[t] = RealPrio[t]
                 \/ \E w \in Threads : WillKeep(w, t, m) /\ p[w] = p[t]
                 \/ t = b.tp /\ p[t] < prio[current]
  <2>1. /\ s.prio[t] >= RealPrio[t]
        /\ \A w \in Threads : WillKeep(w, t, m) =>
             s.prio[w] <= s.prio[t] \/ (t = s.tp /\ s.prio[w] <= prio[current])
        /\ \/ s.prio[t] = RealPrio[t]
           \/ \E w \in Threads : WillKeep(w, t, m) /\ s.prio[w] = s.prio[t]
           \/ t = s.tp /\ s.prio[t] < prio[current]
    BY DEF BoostInv
  <2>2. p[t] >= RealPrio[t]
    <3>1. CASE t = s.tp
      BY <1>1, <1>3, <2>1, <3>1
    <3>2. CASE t # s.tp
      BY <1>3, <2>1, <3>2
    <3> QED
      BY <3>1, <3>2
  <2>3. ASSUME NEW w \in Threads, WillKeep(w, t, m)
        PROVE  p[w] <= p[t] \/ (t = b.tp /\ p[w] <= prio[current])
    <3>1. CASE w = s.tp
      BY <1>3, <1>10, <2>3, <3>1
    <3>2. CASE w # s.tp
      <4>1. p[w] = s.prio[w] /\ p[w] \in Nat
        BY <1>3, <3>2
      <4>2. s.prio[w] <= s.prio[t] \/ (t = s.tp /\ s.prio[w] <= prio[current])
        BY <2>1, <2>3
      <4>3. CASE t = s.tp
        BY <1>1, <1>3, <4>1, <4>2, <4>3
      <4>4. CASE t # s.tp
        BY <1>3, <4>1, <4>2, <4>4
      <4> QED
        BY <4>3, <4>4
    <3> QED
      BY <3>1, <3>2
  <2>4. \/ p[t] = RealPrio[t]
        \/ \E w \in Threads : WillKeep(w, t, m) /\ p[w] = p[t]
        \/ t = b.tp /\ p[t] < prio[current]
    <3>1. CASE t = s.tp
      BY <1>3, <1>13, <1>14, <3>1
    <3>2. CASE t # s.tp
      <4>1. p[t] = s.prio[t]
        BY <1>3, <3>2
      <4>2. CASE s.prio[t] = RealPrio[t]
        BY <4>1, <4>2
      <4>3. CASE \E w \in Threads : WillKeep(w, t, m) /\ s.prio[w] = s.prio[t]
        <5>1. PICK w \in Threads : WillKeep(w, t, m) /\ s.prio[w] = s.prio[t]
          BY <4>3
        <5>2. CASE w = s.tp
          <6>1. t = b.tp /\ p[t] < prio[current]
            BY <1>1, <1>10, <4>1, <5>1, <5>2
          <6> QED
            BY <6>1
        <5>3. CASE w # s.tp
          BY <1>3, <4>1, <5>1, <5>3
        <5> QED
          BY <5>2, <5>3
      <4> QED
        BY <2>1, <3>2, <4>2, <4>3
    <3> QED
      BY <3>1, <3>2
  <2> QED
    BY <2>2, <2>3, <2>4
<1>16. BoostInv(b, m)
  BY <1>1, <1>7, <1>8, <1>9, <1>12, <1>15 DEF BoostInv
<1> QED
  BY <1>16 DEF b

\* A turn after the end changes nothing; one before it leaves fewer threads below
\* the priority of the running thread.
LEMMA BoostLow ==
  ASSUME IInv, NEW m \in Mutexes, NEW s, BoostInv(s, m)
  PROVE  /\ Ended(s) => Boost(s) = s
         /\ ~Ended(s) => s.tp \in Low(s) /\ Low(Boost(s)) \subseteq Low(s) \ {s.tp}
<1>1. Ended(s) => Boost(s) = s
  BY DEF Ended, Boost
<1>2. ASSUME ~Ended(s) PROVE s.tp \in Low(s) /\ Low(Boost(s)) \subseteq Low(s) \ {s.tp}
  <2>1. /\ Boost(s).prio = [s.prio EXCEPT ![s.tp] = prio[current]]
        /\ s.tp \in Threads /\ s.prio[s.tp] < prio[current]
    BY <1>2, BoostCases
  <2>2. s.prio \in Prios /\ prio[current] \in Nat
    BY ReadyList DEF BoostInv, BoostStates
  <2>3. /\ Boost(s).prio[s.tp] = prio[current]
        /\ \A t \in Threads : t # s.tp => Boost(s).prio[t] = s.prio[t]
    BY <2>1, <2>2 DEF Prios
  <2>4. ~(prio[current] < prio[current])
    BY <2>2
  <2> QED
    BY <2>1, <2>3, <2>4 DEF Low
<1> QED
  BY <1>1, <1>2

FirstTurn(m) == [tp |-> owner[m], prio |-> prio, rlist |-> rlist, queue |-> queue]

LEMMA FirstTurnInv ==
  ASSUME IInv, NEW m \in Mutexes, owner[m] \in Threads
  PROVE  BoostInv(FirstTurn(m), m)
<1> DEFINE s == FirstTurn(m)
<1>1. /\ prio \in Prios /\ IsList(prio, rlist) /\ current \in Threads
      /\ \A t \in Threads : prio[t] \in Nat
  BY ReadyList
<1>2. queue \in [Mutexes -> Seq(Threads)] /\ rlist \in Seq(Threads)
  BY <1>1 DEF IInv, Queued, IsList
<1>3. /\ s \in BoostStates
      /\ s.tp = owner[m] /\ s.prio = prio /\ s.rlist = rlist /\ s.queue = queue
  BY <1>1, <1>2 DEF FirstTurn, BoostStates
<1> HIDE DEF s
<1>4. \A n \in Mutexes : IsList(prio, queue[n]) /\ ToSet(queue[n]) = Waiters(n)
  BY DEF IInv, Queued, Waiters
<1>5. WillKeep(current, owner[m], m)
  BY DEF WillKeep
<1>6. \A w, t : WillKeep(w, t, m) => KeptBy(w, t) \/ (t = owner[m] /\ w = current)
  BY DEF WillKeep, KeptBy
<1>7. \A w, t : KeptBy(w, t) => WillKeep(w, t, m)
  BY DEF WillKeep, KeptBy
<1>8. ASSUME NEW t \in Threads
      PROVE  /\ prio[t] >= RealPrio[t]
             /\ \A w \in Threads : WillKeep(w, t, m) =>
                  prio[w] <= prio[t] \/ (t = owner[m] /\ prio[w] <= prio[current])
             /\ \/ prio[t] = RealPrio[t]
                \/ \E w \in Threads : WillKeep(w, t, m) /\ prio[w] = prio[t]
  <2>1. /\ prio[t] >= RealPrio[t]
        /\ \A w \in Threads : KeptBy(w, t) => prio[w] <= prio[t]
        /\ prio[t] = RealPrio[t] \/ \E w \in Threads : KeptBy(w, t) /\ prio[w] = prio[t]
    BY DEF IInv, Exact
  <2>2. prio[current] <= prio[current]
    BY <1>1
  <2>3. \A w \in Threads : WillKeep(w, t, m) =>
          prio[w] <= prio[t] \/ (t = owner[m] /\ prio[w] <= prio[current])
    BY <1>6, <2>1, <2>2
  <2> QED
    BY <1>7, <2>1, <2>3
<1>9. BoostInv(s, m)
  BY <1>1, <1>3, <1>4, <1>5, <1>8 DEF BoostInv
<1> QED
  BY <1>9 DEF s

IsTurns(m, n, g) == g = [k \in 0..n |-> IF k = 0 THEN FirstTurn(m) ELSE Boost(g[k - 1])]

LEMMA TurnsExist ==
  ASSUME NEW m
  PROVE  \A n \in Nat : \E g : IsTurns(m, n, g)
<1> DEFINE S == {n \in Nat : \E g : IsTurns(m, n, g)}
<1>1. 0 \in S
  <2> DEFINE g == [k \in 0..0 |-> FirstTurn(m)]
  <2>1. IsTurns(m, 0, g)
    BY DEF IsTurns
  <2> QED
    BY <2>1
<1>2. ASSUME NEW n \in Nat, n \in S PROVE n + 1 \in S
  <2>1. PICK g : IsTurns(m, n, g)
    BY <1>2
  <2> DEFINE h == [k \in 0..n+1 |-> IF k = n + 1 THEN Boost(g[n]) ELSE g[k]]
             f == [k \in 0..n+1 |-> IF k = 0 THEN FirstTurn(m) ELSE Boost(h[k - 1])]
  <2>2. ASSUME NEW k \in 0..n+1 PROVE h[k] = f[k]
    <3>1. CASE k = n + 1
      <4>1. h[k - 1] = g[n] /\ k # 0 /\ h[k] = Boost(g[n])
        BY <3>1
      <4> HIDE DEF h
      <4> QED
        BY <4>1
    <3>2. CASE k # n + 1
      <4>1. k \in 0..n /\ h[k] = g[k] /\ (k # 0 => h[k - 1] = g[k - 1])
        BY <3>2
      <4>2. g[k] = IF k = 0 THEN FirstTurn(m) ELSE Boost(g[k - 1])
        BY <2>1, <4>1 DEF IsTurns
      <4> HIDE DEF h
      <4> QED
        BY <4>1, <4>2
    <3> QED
      BY <3>1, <3>2
  <2>3. h = f
    BY <2>2
  <2>4. IsTurns(m, n + 1, h)
    BY <2>3 DEF IsTurns
  <2> QED
    BY <2>4
<1> HIDE DEF S
<1>3. \A n \in Nat : n \in S
  BY <1>1, <1>2, Induction
<1> QED
  BY <1>3 DEF S

\* The loop ends, within as many turns as there are threads.
LEMMA BoostedIs ==
  ASSUME IInv, NEW m \in Mutexes, owner[m] \in Threads
  PROVE  BoostInv(Boosted(m), m) /\ Ended(Boosted(m))
<1> DEFINE N == Cardinality(Threads)
           turn == CHOOSE g : IsTurns(m, N, g)
<1>1. N \in Nat /\ IsFiniteSet(Threads)
  BY KernelAssumption, FS_CardinalityType
<1>2. IsTurns(m, N, turn)
  BY <1>1, TurnsExist
<1>3. Boosted(m) = turn[N]
  BY DEF Boosted, IsTurns, FirstTurn
<1> HIDE DEF turn, N
<1>4. turn[0] = FirstTurn(m)
  BY <1>1, <1>2 DEF IsTurns
<1>5. \A n \in Nat : n + 1 <= N => turn[n + 1] = Boost(turn[n])
  <2> TAKE n \in Nat
  <2> HAVE n + 1 <= N
  <2>1. n + 1 \in 0..N /\ n + 1 # 0 /\ (n + 1) - 1 = n
    BY <1>1
  <2>2. turn[n + 1] = Boost(turn[(n + 1) - 1])
    BY <1>2, <2>1 DEF IsTurns
  <2> QED
    BY <2>1, <2>2
<1> DEFINE Fine(n) == /\ BoostInv(turn[n], m)
                      /\ Ended(turn[n]) \/ Cardinality(Low(turn[n])) <= N - n
           S == {n \in Nat : n <= N => Fine(n)}
<1>6. \A s : IsFiniteSet(Low(s)) /\ Cardinality(Low(s)) \in Nat /\ Cardinality(Low(s)) <= N
  <2> TAKE s
  <2>1. Low(s) \in SUBSET Threads
    BY DEF Low
  <2>2. IsFiniteSet(Low(s)) /\ Cardinality(Low(s)) <= N
    BY <1>1, <2>1, FS_Subset DEF N
  <2> QED
    BY <2>2, FS_CardinalityType
<1>7. 0 \in S
  <2>1. BoostInv(turn[0], m)
    BY <1>4, FirstTurnInv
  <2>2. Cardinality(Low(turn[0])) <= N - 0
    BY <1>1, <1>6
  <2> QED
    BY <2>1, <2>2
<1>8. ASSUME NEW n \in Nat, n \in S PROVE n + 1 \in S
  <2> SUFFICES ASSUME n + 1 <= N PROVE Fine(n + 1)
    OBVIOUS
  <2>1. Fine(n)
    BY <1>1, <1>8
  <2> DEFINE s == turn[n]
  <2>2. turn[n + 1] = Boost(s)
    BY <1>5
  <2>3. BoostInv(s, m) /\ (Ended(s) \/ Cardinality(Low(s)) <= N - n)
    BY <2>1
  <2> HIDE DEF s, Fine
  <2>4. CASE Ended(s)
    <3>1. Boost(s) = s
      BY <2>3, <2>4, BoostLow
    <3> QED
      BY <2>2, <2>3, <2>4, <3>1 DEF Fine
  <2>5. CASE ~Ended(s)
    <3>1. BoostInv(Boost(s), m)
      BY <2>3, <2>5, BoostStep
    <3>2. s.tp \in Low(s) /\ Low(Boost(s)) \subseteq Low(s) \ {s.tp}
      BY <2>3, <2>5, BoostLow
    <3>3. IsFiniteSet(Low(s) \ {s.tp}) /\ Cardinality(Low(s) \ {s.tp}) = Cardinality(Low(s)) - 1
      BY <1>6, <3>2, FS_RemoveElement
    <3>4. Cardinality(Low(Boost(s))) <= Cardinality(Low(s) \ {s.tp})
      BY <3>2, <3>3, FS_Subset
    <3>5. Cardinality(Low(Boost(s))) <= N - (n + 1)
      <4>1. Cardinality(Low(Boost(s))) \in Nat /\ Cardinality(Low(s)) \in Nat
        BY <1>6
      <4> QED
        BY <1>1, <2>3, <2>5, <3>3, <3>4, <4>1
    <3> QED
      BY <2>2, <3>1, <3>5 DEF Fine
  <2> QED
    BY <2>4, <2>5
<1> HIDE DEF S
<1>9. \A n \in Nat : n \in S
  BY <1>7, <1>8, Induction
<1>10. Fine(N)
  <2>1. N \in S /\ N <= N
    BY <1>1, <1>9
  <2> QED
    BY <2>1 DEF S
<1>11. Ended(turn[N])
  <2> SUFFICES ASSUME ~Ended(turn[N]) PROVE FALSE
    OBVIOUS
  <2>1. Cardinality(Low(turn[N])) <= N - N /\ N - N = 0
    BY <1>1, <1>10
  <2>2. Cardinality(Low(turn[N])) = 0
    BY <1>6, <2>1
  <2>3. Low(turn[N]) = {}
    BY <1>6, <2>2, FS_EmptySet
  <2> QED
    BY <1>10, <2>3, BoostLow
<1> QED
  BY <1>3, <1>10, <1>11

\* The running thread takes a mutex that nobody owns.
LEMMA TakeStep ==
  ASSUME IInv, NEW m \in Mutexes, owner[m] = NoThread, Take(current, m),
         UNCHANGED <<schedVars, queue>>
  PROVE  IInv'
<1>1. /\ owner' = [owner EXCEPT ![m] = current]
      /\ mtxlist' = [mtxlist EXCEPT ![current] = <<m>> \o @]
      /\ current' = current /\ rlist' = rlist /\ prio' = prio /\ queue' = queue
  BY DEF Take, schedVars
<1>2. current \in Threads /\ prio' \in Prios /\ Scheduled' /\ Runnable' = Runnable
  BY <1>1 DEF IInv, Scheduled, Runnable
<1>3. \A n \in Mutexes : Waiters(n)' = Waiters(n)
  BY <1>1 DEF Waiters
<1>4. Waiters(m) = {}
  BY DEF IInv, Queued
<1>5. /\ owner' \in [Mutexes -> Threads \cup {NoThread}] /\ owner'[m] = current
      /\ \A n \in Mutexes : n # m => owner'[n] = owner[n]
  BY <1>1, <1>2 DEF IInv, Owned
<1>6. Owned'
  <2>1. /\ mtxlist[current] \in Seq(Mutexes) /\ IsInjective(mtxlist[current])
        /\ m \notin ToSet(mtxlist[current])
    BY <1>2, KernelAssumption DEF IInv, Owned
  <2>2. /\ <<m>> \o mtxlist[current] \in Seq(Mutexes) /\ IsInjective(<<m>> \o mtxlist[current])
        /\ ToSet(<<m>> \o mtxlist[current]) = ToSet(mtxlist[current]) \cup {m}
    BY <2>1, PushSeq
  <2> DEFINE l == <<m>> \o mtxlist[current]
  <2> HIDE DEF l
  <2>3. mtxlist' = [mtxlist EXCEPT ![current] = l]
    BY <1>1 DEF l
  <2>4. /\ l \in Seq(Mutexes) /\ IsInjective(l) /\ ToSet(l) = ToSet(mtxlist[current]) \cup {m}
    BY <2>2 DEF l
  <2>5. /\ mtxlist' \in [Threads -> Seq(Mutexes)] /\ mtxlist'[current] = l
        /\ \A t \in Threads : t # current => mtxlist'[t] = mtxlist[t]
    BY <1>2, <2>3, <2>4 DEF IInv, Owned
  <2>6. ASSUME NEW t \in Threads
        PROVE  /\ IsInjective(mtxlist'[t])
               /\ \A n \in Mutexes : n \in ToSet(mtxlist'[t]) <=> owner'[n] = t
    <3>1. /\ IsInjective(mtxlist[t])
          /\ \A n \in Mutexes : n \in ToSet(mtxlist[t]) <=> owner[n] = t
      BY DEF IInv, Owned
    <3>2. CASE t = current
      BY <1>5, <2>4, <2>5, <3>1, <3>2
    <3>3. CASE t # current
      BY <1>5, <2>5, <3>1, <3>3, KernelAssumption
    <3> QED
      BY <3>2, <3>3
  <2> QED
    BY <1>5, <2>5, <2>6 DEF Owned
<1>7. Queued'
  <2>1. \A n \in Mutexes : Waiters(n) # {} => owner'[n] # NoThread
    BY <1>4, <1>5 DEF IInv, Queued
  <2> QED
    BY <1>1, <1>2, <1>3, <2>1 DEF IInv, Queued
<1>8. \A w, t \in Threads : KeptBy(w, t)' <=> KeptBy(w, t)
  <2>1. \A n \in Mutexes : n # m => owner'[n] = owner[n]
    BY <1>5
  <2> QED
    BY <1>3, <1>4, <2>1 DEF KeptBy
<1>9. Exact'
  BY <1>1, <1>8 DEF IInv, Exact
<1> QED
  BY <1>2, <1>6, <1>7, <1>9 DEF IInv

\* The running thread joins the queue of a mutex that another thread owns.
LEMMA WaitStep ==
  ASSUME IInv, NEW m \in Mutexes, MayLock(m), owner[m] # NoThread, chMtxLock(m)
  PROVE  /\ IInv' /\ owner' = owner
         /\ \A n \in Mutexes : Waiters(n)' = IF n = m THEN Waiters(m) \cup {current} ELSE Waiters(n)
<1> DEFINE b == Boosted(m)
<1>1. /\ prio' = b.prio /\ queue' = [b.queue EXCEPT ![m] = Behind(b.prio, @, current)]
      /\ current' = Head(b.rlist) /\ rlist' = Tail(b.rlist)
      /\ owner' = owner /\ mtxlist' = mtxlist
      /\ current # Idle
  BY DEF chMtxLock, MayLock
<1>2. owner[m] \in Threads
  BY DEF IInv, Owned
<1>3. BoostInv(b, m) /\ Ended(b)
  BY <1>2, BoostedIs
<1> HIDE DEF b
<1>4. /\ b.prio \in Prios /\ b.queue \in [Mutexes -> Seq(Threads)]
      /\ IsList(b.prio, b.rlist) /\ ToSet(b.rlist) = ToSet(rlist)
      /\ \A n \in Mutexes : IsList(b.prio, b.queue[n]) /\ ToSet(b.queue[n]) = Waiters(n)
      /\ b.prio[current] = prio[current]
  BY <1>3 DEF BoostInv, BoostStates
<1>5. /\ current \in Threads /\ current \notin ToSet(rlist) /\ Idle \in ToSet(rlist)
      /\ \A n \in Mutexes : current \notin Waiters(n) /\ Waiters(n) \cap ToSet(rlist) = {}
      /\ prio[current] \in Nat /\ \A t \in Threads : b.prio[t] \in Nat
  BY <1>1, <1>4, ReadyList DEF IInv, Scheduled, Queued, Runnable, Prios
<1>6. b.rlist # << >>
  BY <1>4, <1>5, EmptyList
<1>7. /\ Head(b.rlist) \in ToSet(b.rlist) /\ ToSet(b.rlist) \subseteq Threads
      /\ IsList(b.prio, Tail(b.rlist)) /\ ToSet(Tail(b.rlist)) = ToSet(b.rlist) \ {Head(b.rlist)}
      /\ \A t \in ToSet(b.rlist) : b.prio[t] <= b.prio[Head(b.rlist)]
  BY <1>4, <1>6, HeadTail
<1>8. Scheduled' /\ Runnable' = ToSet(rlist)
  <2>1. Runnable' = ToSet(rlist)
    BY <1>1, <1>4, <1>7 DEF Runnable
  <2> QED
    BY <1>1, <1>4, <1>5, <1>7, <2>1 DEF Scheduled
<1>9. Owned' /\ prio' \in Prios
  BY <1>1, <1>4 DEF IInv, Owned
<1> DEFINE q == Behind(b.prio, b.queue[m], current)
<1>10. IsList(b.prio, q) /\ ToSet(q) = Waiters(m) \cup {current}
  BY <1>4, <1>5, BehindList
<1>11. /\ queue' \in [Mutexes -> Seq(Threads)]
       /\ \A n \in Mutexes : queue'[n] = IF n = m THEN q ELSE b.queue[n]
  <2>1. queue' = [b.queue EXCEPT ![m] = q]
    BY <1>1
  <2> HIDE DEF q
  <2> QED
    BY <1>4, <1>10, <2>1 DEF IsList
<1> HIDE DEF q
<1>12. \A n \in Mutexes : Waiters(n)' = IF n = m THEN Waiters(m) \cup {current} ELSE Waiters(n)
  BY <1>4, <1>10, <1>11 DEF Waiters
<1>13. Queued'
  <2>1. ASSUME NEW n \in Mutexes
        PROVE  /\ IsList(prio', queue'[n])
               /\ Waiters(n)' \cap Runnable' = {}
               /\ Waiters(n)' # {} => owner'[n] # NoThread
    <3>1. IsList(prio', queue'[n])
      BY <1>1, <1>4, <1>10, <1>11
    <3>2. Waiters(n)' \cap Runnable' = {}
      BY <1>5, <1>8, <1>12
    <3>3. Waiters(n)' # {} => owner'[n] # NoThread
      BY <1>1, <1>12 DEF IInv, Queued
    <3> QED
      BY <3>1, <3>2, <3>3
  <2>2. ASSUME NEW k \in Mutexes, NEW n \in Mutexes, Waiters(k)' \cap Waiters(n)' # {}
        PROVE  k = n
    <3>1. Waiters(k) \cap Waiters(n) # {} => k = n
      BY DEF IInv, Queued
    <3>2. current \notin Waiters(k) /\ current \notin Waiters(n)
      BY <1>5
    <3> QED
      BY <1>12, <2>2, <3>1, <3>2
  <2> QED
    BY <1>11, <2>1, <2>2 DEF Queued
<1>14. \A w, t \in Threads : KeptBy(w, t)' <=> WillKeep(w, t, m)
  <2>1. \A w, t : KeptBy(w, t)' <=> \E n \in Mutexes : owner[n] = t /\ w \in Waiters(n)'
    BY <1>1 DEF KeptBy
  <2> QED
    BY <1>12, <2>1 DEF WillKeep
<1>15. Exact'
  <2>1. ASSUME NEW t \in Threads
        PROVE  /\ b.prio[t] >= RealPrio[t]
               /\ \A w \in Threads : WillKeep(w, t, m) => b.prio[w] <= b.prio[t]
               /\ b.prio[t] = RealPrio[t] \/ \E w \in Threads : WillKeep(w, t, m) /\ b.prio[w] = b.prio[t]
    <3>1. /\ b.prio[t] >= RealPrio[t]
          /\ \A w \in Threads : WillKeep(w, t, m) =>
               b.prio[w] <= b.prio[t] \/ (t = b.tp /\ b.prio[w] <= prio[current])
          /\ \/ b.prio[t] = RealPrio[t]
             \/ \E w \in Threads : WillKeep(w, t, m) /\ b.prio[w] = b.prio[t]
             \/ t = b.tp /\ b.prio[t] < prio[current]
      BY <1>3 DEF BoostInv
    <3>2. t = b.tp => b.prio[t] >= prio[current]
      BY <1>3, KernelAssumption DEF Ended
    <3>3. \A w \in Threads : WillKeep(w, t, m) => b.prio[w] <= b.prio[t]
      <4> TAKE w \in Threads
      <4>1. b.prio[w] \in Nat /\ b.prio[t] \in Nat /\ prio[current] \in Nat
        BY <1>5
      <4> QED
        BY <3>1, <3>2, <4>1
    <3>4. ~(t = b.tp /\ b.prio[t] < prio[current])
      <4>1. b.prio[t] \in Nat /\ prio[current] \in Nat
        BY <1>5
      <4> QED
        BY <3>2, <4>1
    <3> QED
      BY <3>1, <3>3, <3>4
  <2> QED
    BY <1>1, <1>14, <2>1 DEF Exact
<1> QED
  BY <1>1, <1>8, <1>9, <1>12, <1>13, <1>15 DEF IInv

LEMMA LockStep == ASSUME IInv, NEW m \in Mutexes, chMtxLock(m) \/ chMtxTryLock(m) PROVE IInv'
<1>1. CASE chMtxLock(m) /\ owner[m] # NoThread
  BY <1>1, WaitStep DEF chMtxLock
<1>2. CASE (chMtxLock(m) \/ chMtxTryLock(m)) /\ owner[m] = NoThread
  <2>1. Take(current, m) /\ UNCHANGED <<schedVars, queue>>
    BY <1>2 DEF chMtxLock, chMtxTryLock
  <2> QED
    BY <1>2, <2>1, TakeStep
<1> QED
  BY <1>1, <1>2 DEF chMtxTryLock

-----------------------------------------------------------------------------
(* Unlocking *)

HandStates ==
  [owner : [Mutexes -> Threads \cup {NoThread}], mtxlist : [Threads -> Seq(Mutexes)],
   queue : [Mutexes -> Seq(Threads)], rlist : Seq(Threads)]

\* The mutexes that the running thread has handed over in s, and to whom.
Handed(s, m) == owner[m] = current /\ s.owner[m] # current

NextOwner(m) == IF queue[m] = << >> THEN NoThread ELSE Head(queue[m])

Woken(s) == {t \in Threads : \E m \in Mutexes : Handed(s, m) /\ NextOwner(m) = t}

\* Between two mutexes: those that are done have their next owner, the others and
\* their queues are as they were.
HandInv(s) ==
  /\ s \in HandStates
  /\ \A t \in Threads : /\ IsInjective(s.mtxlist[t])
                        /\ \A m \in Mutexes : m \in ToSet(s.mtxlist[t]) <=> s.owner[m] = t
  /\ \A m \in Mutexes :
       IF Handed(s, m)
         THEN /\ s.owner[m] = NextOwner(m)
              /\ s.queue[m] = IF queue[m] = << >> THEN << >> ELSE Tail(queue[m])
         ELSE s.owner[m] = owner[m] /\ s.queue[m] = queue[m]
  /\ IsList(prio, s.rlist) /\ ToSet(s.rlist) = ToSet(rlist) \cup Woken(s)

\* A thread at the head of a queue.
LEMMA FirstWaiter ==
  ASSUME IInv, NEW m \in Mutexes, queue[m] # << >>
  PROVE  LET tp == Head(queue[m]) IN
         /\ tp \in Threads /\ tp \in Waiters(m) /\ tp \notin Runnable
         /\ \A n \in Mutexes : tp \in Waiters(n) => n = m
         /\ \A w \in Waiters(m) : prio[w] <= prio[tp]
         /\ IsList(prio, Tail(queue[m])) /\ ToSet(Tail(queue[m])) = Waiters(m) \ {tp}
<1>1. prio \in Prios /\ IsList(prio, queue[m]) /\ ToSet(queue[m]) = Waiters(m)
  BY DEF IInv, Queued, Waiters
<1>2. /\ Head(queue[m]) \in ToSet(queue[m]) /\ ToSet(queue[m]) \subseteq Threads
      /\ IsList(prio, Tail(queue[m])) /\ ToSet(Tail(queue[m])) = ToSet(queue[m]) \ {Head(queue[m])}
      /\ \A t \in ToSet(queue[m]) : prio[t] <= prio[Head(queue[m])]
  BY <1>1, HeadTail
<1> QED
  BY <1>1, <1>2 DEF IInv, Queued

LEMMA NowInv ==
  ASSUME IInv
  PROVE  HandInv(Now) /\ Now.mtxlist = mtxlist /\ \A m \in Mutexes : ~Handed(Now, m)
<1>1. IsList(prio, rlist) /\ rlist \in Seq(Threads)
  BY ReadyList DEF IsList
<1>2. /\ Now \in HandStates /\ Now.owner = owner /\ Now.mtxlist = mtxlist
      /\ Now.queue = queue /\ Now.rlist = rlist
  BY <1>1 DEF Now, HandStates, IInv, Owned, Queued
<1>3. \A m \in Mutexes : ~Handed(Now, m)
  BY <1>2 DEF Handed
<1>4. Woken(Now) = {}
  BY <1>3 DEF Woken
<1>5. ToSet(rlist) \cup {} = ToSet(rlist)
  OBVIOUS
<1> QED
  BY <1>1, <1>2, <1>3, <1>4, <1>5 DEF HandInv, IInv, Owned

\* One mutex more.
LEMMA HandStep ==
  ASSUME IInv, NEW s, HandInv(s), s.mtxlist[current] # << >>
  PROVE  LET b == HandOver(s) IN
         /\ HandInv(b)
         /\ b.mtxlist[current] = Tail(s.mtxlist[current])
         /\ Len(b.mtxlist[current]) = Len(s.mtxlist[current]) - 1
         /\ \A m \in Mutexes : Handed(b, m) <=> Handed(s, m) \/ m = Head(s.mtxlist[current])
<1> DEFINE b == HandOver(s)  ump == Head(s.mtxlist[current])  tail == Tail(s.mtxlist[current])
           rest == [s.mtxlist EXCEPT ![current] = tail]
<1>1. /\ s \in HandStates /\ s.owner \in [Mutexes -> Threads \cup {NoThread}]
      /\ s.mtxlist \in [Threads -> Seq(Mutexes)] /\ s.queue \in [Mutexes -> Seq(Threads)]
      /\ s.rlist \in Seq(Threads) /\ current \in Threads
      /\ \A t \in Threads : s.mtxlist[t] \in Seq(Mutexes) /\ IsInjective(s.mtxlist[t])
      /\ NoThread \notin Threads
  BY ReadyList, KernelAssumption DEF HandInv, HandStates
<1>2. /\ ump \in ToSet(s.mtxlist[current]) /\ ump \in Mutexes
      /\ tail \in Seq(Mutexes) /\ IsInjective(tail) /\ Len(tail) = Len(s.mtxlist[current]) - 1
      /\ ToSet(tail) = ToSet(s.mtxlist[current]) \ {ump}
  <2>1. s.mtxlist[current] \in Seq(Mutexes) /\ IsInjective(s.mtxlist[current])
    BY <1>1
  <2>2. ToSet(s.mtxlist[current]) \subseteq Mutexes
    BY <2>1, InjectiveSeq
  <2> QED
    BY <2>1, <2>2, TailSeq
<1>3. s.owner[ump] = current /\ owner[ump] = current /\ s.queue[ump] = queue[ump] /\ ~Handed(s, ump)
  BY <1>1, <1>2 DEF HandInv, Handed
<1>4. /\ rest \in [Threads -> Seq(Mutexes)] /\ rest[current] = tail
      /\ \A t \in Threads : t # current => rest[t] = s.mtxlist[t]
  BY <1>1, <1>2
<1>5. \A t \in Threads, m \in Mutexes : m \in ToSet(s.mtxlist[t]) <=> s.owner[m] = t
  BY DEF HandInv
<1>6. CASE queue[ump] = << >>
  <2>1. b = [s EXCEPT !.owner[ump] = NoThread, !.mtxlist = rest]
    BY <1>3, <1>6 DEF HandOver
  <2> HIDE DEF b, ump, tail, rest
  <2> DEFINE o == [s.owner EXCEPT ![ump] = NoThread]
  <2>2. o \in [Mutexes -> Threads \cup {NoThread}] /\ b = [s EXCEPT !.owner = o, !.mtxlist = rest]
    BY <1>1, <1>2, <2>1 DEF HandStates
  <2>3. /\ o[ump] = NoThread /\ \A m \in Mutexes : m # ump => o[m] = s.owner[m]
    BY <1>1, <1>2
  <2> HIDE DEF o
  <2>4. /\ b \in HandStates /\ b.owner = o /\ b.mtxlist = rest /\ b.queue = s.queue
        /\ b.rlist = s.rlist
    BY <1>1, <1>4, <2>2 DEF HandStates
  <2>5. \A m \in Mutexes : Handed(b, m) <=> Handed(s, m) \/ m = ump
    BY <1>1, <1>3, <2>3, <2>4 DEF Handed
  <2>6. ASSUME NEW t \in Threads
        PROVE  /\ IsInjective(rest[t])
               /\ \A m \in Mutexes : m \in ToSet(rest[t]) <=> o[m] = t
    <3>1. CASE t = current
      BY <1>1, <1>2, <1>4, <1>5, <2>3, <3>1
    <3>2. CASE t # current
      BY <1>1, <1>3, <1>4, <1>5, <2>3, <3>2
    <3> QED
      BY <3>1, <3>2
  <2>7. ASSUME NEW m \in Mutexes
        PROVE  IF Handed(b, m)
                 THEN /\ o[m] = NextOwner(m)
                      /\ s.queue[m] = IF queue[m] = << >> THEN << >> ELSE Tail(queue[m])
                 ELSE o[m] = owner[m] /\ s.queue[m] = queue[m]
    <3>1. CASE m = ump
      BY <1>3, <1>6, <2>3, <2>5, <3>1 DEF NextOwner
    <3>2. CASE m # ump
      BY <2>3, <2>5, <3>2 DEF HandInv
    <3> QED
      BY <3>1, <3>2
  <2>8. Woken(b) = Woken(s)
    BY <1>1, <1>6, <2>5 DEF Woken, NextOwner
  <2>9. HandInv(b)
    BY <2>4, <2>6, <2>7, <2>8 DEF HandInv
  <2> QED
    BY <1>2, <1>4, <2>4, <2>5, <2>9 DEF b, ump, tail
<1>7. CASE queue[ump] # << >>
  <2> DEFINE tp == Head(queue[ump])  r == Behind(prio, s.rlist, tp)
             l == <<ump>> \o s.mtxlist[tp]
  <2>1. /\ tp \in Threads /\ tp \in Waiters(ump) /\ tp \notin Runnable
        /\ \A n \in Mutexes : tp \in Waiters(n) => n = ump
        /\ IsList(prio, Tail(queue[ump]))
    BY <1>2, <1>7, FirstWaiter
  <2>2. tp # current /\ tp \notin ToSet(rlist)
    BY <2>1 DEF Runnable
  <2>3. b = [s EXCEPT !.owner[ump] = tp, !.mtxlist = [rest EXCEPT ![tp] = <<ump>> \o @],
                      !.queue[ump] = Tail(@), !.rlist = Behind(prio, @, tp)]
    BY <1>3, <1>7 DEF HandOver
  <2> HIDE DEF b, ump, tail, rest, tp
  <2> DEFINE o == [s.owner EXCEPT ![ump] = tp]
             x == [rest EXCEPT ![tp] = l]
             q == [s.queue EXCEPT ![ump] = Tail(queue[ump])]
  <2>4. tp \notin ToSet(s.rlist)
    <3>1. ASSUME NEW m \in Mutexes, Handed(s, m), NextOwner(m) = tp PROVE FALSE
      <4>1. queue[m] # << >> /\ tp = Head(queue[m])
        BY <1>1, <2>1, <3>1 DEF NextOwner
      <4>2. tp \in Waiters(m)
        BY <4>1, FirstWaiter
      <4> QED
        BY <1>3, <2>1, <3>1, <4>2
    <3> QED
      BY <2>2, <3>1 DEF HandInv, Woken
  <2>5. IsList(prio, r) /\ ToSet(r) = ToSet(s.rlist) \cup {tp}
    <3>1. prio \in Prios /\ IsList(prio, s.rlist)
      BY ReadyList DEF HandInv
    <3> QED
      BY <2>1, <2>4, <3>1, BehindList
  <2>6. l \in Seq(Mutexes) /\ IsInjective(l) /\ ToSet(l) = ToSet(s.mtxlist[tp]) \cup {ump}
    <3>1. ump \notin ToSet(s.mtxlist[tp])
      BY <1>2, <1>3, <1>5, <2>1, <2>2
    <3>2. s.mtxlist[tp] \in Seq(Mutexes) /\ IsInjective(s.mtxlist[tp])
      BY <1>1, <2>1
    <3> QED
      BY <1>2, <3>1, <3>2, PushSeq
  <2>7. /\ o \in [Mutexes -> Threads \cup {NoThread}]
        /\ o[ump] = tp /\ \A m \in Mutexes : m # ump => o[m] = s.owner[m]
    BY <1>1, <1>2, <2>1
  <2>8. /\ q \in [Mutexes -> Seq(Threads)]
        /\ q[ump] = Tail(queue[ump]) /\ \A m \in Mutexes : m # ump => q[m] = s.queue[m]
    <3>1. Tail(queue[ump]) \in Seq(Threads)
      BY <2>1 DEF IsList
    <3> DEFINE u == Tail(queue[ump])
    <3> HIDE DEF u
    <3> QED
      BY <1>1, <1>2, <3>1 DEF u
  <2>9. rest[tp] = s.mtxlist[tp]
    BY <1>4, <2>1, <2>2
  <2> HIDE DEF l, r
  <2>10. /\ x \in [Threads -> Seq(Mutexes)] /\ x[tp] = l /\ x[current] = tail
         /\ \A t \in Threads : t # tp /\ t # current => x[t] = s.mtxlist[t]
    BY <1>1, <1>4, <2>1, <2>2, <2>6
  <2>11. b = [s EXCEPT !.owner = o, !.mtxlist = x, !.queue = q, !.rlist = r]
    BY <1>1, <1>2, <1>3, <2>3, <2>9 DEF HandStates, r, l
  <2> HIDE DEF o, x, q
  <2>12. r \in Seq(Threads)
    BY <2>5 DEF IsList
  <2>13. b \in HandStates /\ b.owner = o /\ b.mtxlist = x /\ b.queue = q /\ b.rlist = r
    BY <1>1, <2>7, <2>8, <2>10, <2>11, <2>12 DEF HandStates
  <2>14. \A m \in Mutexes : Handed(b, m) <=> Handed(s, m) \/ m = ump
    BY <1>1, <1>3, <2>2, <2>7, <2>13 DEF Handed
  <2>15. ASSUME NEW t \in Threads
         PROVE  /\ IsInjective(x[t])
                /\ \A m \in Mutexes : m \in ToSet(x[t]) <=> o[m] = t
    <3>1. CASE t = current
      BY <1>2, <1>5, <2>2, <2>7, <2>10, <3>1
    <3>2. CASE t = tp
      BY <1>5, <2>1, <2>6, <2>7, <2>10, <3>2
    <3>3. CASE t # current /\ t # tp
      BY <1>1, <1>3, <1>5, <2>7, <2>10, <3>3
    <3> QED
      BY <3>1, <3>2, <3>3
  <2>16. ASSUME NEW m \in Mutexes
         PROVE  IF Handed(b, m)
                  THEN /\ o[m] = NextOwner(m)
                       /\ q[m] = IF queue[m] = << >> THEN << >> ELSE Tail(queue[m])
                  ELSE o[m] = owner[m] /\ q[m] = queue[m]
    <3>1. CASE m = ump
      BY <1>7, <2>7, <2>8, <2>14, <3>1 DEF NextOwner, tp
    <3>2. CASE m # ump
      BY <2>7, <2>8, <2>14, <3>2 DEF HandInv
    <3> QED
      BY <3>1, <3>2
  <2>17. Woken(b) = Woken(s) \cup {tp}
    <3>1. NextOwner(ump) = tp
      BY <1>7 DEF NextOwner, tp
    <3> QED
      BY <1>2, <2>1, <2>14, <3>1 DEF Woken
  <2>18. ToSet(r) = ToSet(rlist) \cup Woken(b)
    BY <2>5, <2>17 DEF HandInv
  <2>19. HandInv(b)
    BY <2>5, <2>13, <2>15, <2>16, <2>18 DEF HandInv
  <2> QED
    BY <1>2, <2>10, <2>13, <2>14, <2>19 DEF b, ump, tail
<1> QED
  BY <1>6, <1>7

\* w will wait for t.
WillBeKept(w, t) == \E n \in Mutexes : owner'[n] = t /\ w \in ToSet(queue'[n])

\* After the hand-overs of s, when the priorities of the other threads are as they were
\* and the priority of the running thread is exact for what it still owns.
LEMMA AfterHandOver ==
  ASSUME IInv, NEW s, HandInv(s), HandedOver(s),
         NEW x \in Nat, prio' = [prio EXCEPT ![current] = x],
         Scheduled', Runnable' = Runnable \cup Woken(s),
         x >= RealPrio[current],
         \A w \in Threads : WillBeKept(w, current) => prio[w] <= x,
         x = RealPrio[current] \/ \E w \in Threads : WillBeKept(w, current) /\ prio[w] = x
  PROVE  IInv'
<1>1. owner' = s.owner /\ mtxlist' = s.mtxlist /\ queue' = s.queue
  BY DEF HandedOver
<1>2. /\ current \in Threads /\ prio \in Prios /\ NoThread \notin Threads
      /\ \A t \in Threads : prio[t] \in Nat
      /\ \A n \in Mutexes : IsList(prio, queue[n]) /\ Waiters(n) \subseteq Threads /\ current \notin Waiters(n)
  <2>1. \A n \in Mutexes : IsList(prio, queue[n]) /\ current \notin Waiters(n)
    BY DEF IInv, Queued, Runnable
  <2>2. \A n \in Mutexes : Waiters(n) \subseteq Threads
    BY <2>1, InjectiveSeq DEF IsList, Waiters
  <2> QED
    BY <2>1, <2>2, ReadyList, KernelAssumption
<1>3. /\ prio' \in Prios /\ prio'[current] = x
      /\ \A t \in Threads : t # current => prio'[t] = prio[t]
  BY <1>2 DEF Prios
<1>4. Owned'
  BY <1>1 DEF Owned, HandInv, HandStates
<1>5. ASSUME NEW n \in Mutexes, ~Handed(s, n)
      PROVE  owner'[n] = owner[n] /\ queue'[n] = queue[n] /\ Waiters(n)' = Waiters(n)
  <2>1. s.owner[n] = owner[n] /\ s.queue[n] = queue[n]
    BY <1>5 DEF HandInv
  <2> QED
    BY <1>1, <2>1 DEF Waiters
<1>6. ASSUME NEW n \in Mutexes, Handed(s, n)
      PROVE  /\ owner'[n] = NextOwner(n) /\ IsList(prio, queue'[n])
             /\ Waiters(n)' = Waiters(n) \ {NextOwner(n)}
             /\ \A w \in Waiters(n)' : NextOwner(n) \in Threads /\ prio[w] <= prio[NextOwner(n)]
  <2>1. /\ s.owner[n] = NextOwner(n)
        /\ s.queue[n] = IF queue[n] = << >> THEN << >> ELSE Tail(queue[n])
    BY <1>6 DEF HandInv
  <2>2. Waiters(n)' = ToSet(queue'[n]) /\ Waiters(n) = ToSet(queue[n])
    BY DEF Waiters
  <2>3. CASE queue[n] = << >>
    <3>1. queue'[n] = << >> /\ Waiters(n) = {} /\ Waiters(n)' = {}
      BY <1>1, <2>1, <2>2, <2>3, EmptyList
    <3> QED
      BY <1>1, <2>1, <3>1, EmptyList
  <2>4. CASE queue[n] # << >>
    <3>1. NextOwner(n) = Head(queue[n]) /\ queue'[n] = Tail(queue[n])
      BY <1>1, <2>1, <2>4 DEF NextOwner
    <3>2. /\ Head(queue[n]) \in Threads /\ \A w \in Waiters(n) : prio[w] <= prio[Head(queue[n])]
          /\ IsList(prio, Tail(queue[n])) /\ ToSet(Tail(queue[n])) = Waiters(n) \ {Head(queue[n])}
      BY <2>4, FirstWaiter
    <3> QED
      BY <1>1, <2>1, <2>2, <3>1, <3>2
  <2> QED
    BY <2>3, <2>4
<1>7. \A n \in Mutexes : Waiters(n)' \subseteq Waiters(n) /\ IsList(prio, queue'[n])
  BY <1>2, <1>5, <1>6
<1>8. Queued'
  <2>1. queue' \in [Mutexes -> Seq(Threads)]
    BY <1>1 DEF HandInv, HandStates
  <2>2. ASSUME NEW n \in Mutexes
        PROVE  /\ IsList(prio', queue'[n])
               /\ Waiters(n)' \cap Runnable' = {}
               /\ Waiters(n)' # {} => owner'[n] # NoThread
    <3>1. IsList(prio', queue'[n])
      <4>1. \A t \in ToSet(queue'[n]) : prio'[t] = prio[t]
        <5>1. ToSet(queue'[n]) \subseteq Threads /\ current \notin ToSet(queue'[n])
          BY <1>2, <1>7 DEF Waiters
        <5> QED
          BY <1>3, <5>1
      <4> QED
        BY <1>7, <4>1, SamePrio
    <3>2. ASSUME NEW w \in Waiters(n)', w \in Runnable' PROVE FALSE
      <4>1. w \in Waiters(n) /\ w \notin Runnable
        BY <1>7 DEF IInv, Queued
      <4>2. PICK m \in Mutexes : Handed(s, m) /\ NextOwner(m) = w /\ w \in Threads
        BY <3>2, <4>1 DEF Woken
      <4>3. queue[m] # << >> /\ w = Head(queue[m])
        BY <1>2, <4>2 DEF NextOwner
      <4>4. m = n
        BY <4>1, <4>3, FirstWaiter
      <4> QED
        BY <1>6, <4>2, <4>4
    <3>3. Waiters(n)' # {} => owner'[n] # NoThread
      <4>1. CASE Handed(s, n)
        BY <1>2, <1>6, <4>1
      <4>2. CASE ~Handed(s, n)
        BY <1>5, <4>2 DEF IInv, Queued
      <4> QED
        BY <4>1, <4>2
    <3> QED
      BY <3>1, <3>2, <3>3
  <2>3. \A k, n \in Mutexes : Waiters(k)' \cap Waiters(n)' # {} => k = n
    BY <1>7 DEF IInv, Queued
  <2> QED
    BY <2>1, <2>2, <2>3 DEF Queued
<1>9. \A w, t : WillBeKept(w, t) <=> \E n \in Mutexes : owner'[n] = t /\ w \in Waiters(n)'
  BY DEF WillBeKept, Waiters
<1>10. \A w, t : WillBeKept(w, t) => w # current
  BY <1>2, <1>7, <1>9
<1>11. ASSUME NEW t \in Threads, t # current
       PROVE  /\ prio[t] >= RealPrio[t]
              /\ \A w \in Threads : WillBeKept(w, t) => prio[w] <= prio[t]
              /\ prio[t] = RealPrio[t] \/ \E w \in Threads : WillBeKept(w, t) /\ prio[w] = prio[t]
  <2>1. /\ prio[t] >= RealPrio[t]
        /\ \A w \in Threads : KeptBy(w, t) => prio[w] <= prio[t]
        /\ prio[t] = RealPrio[t] \/ \E w \in Threads : KeptBy(w, t) /\ prio[w] = prio[t]
    BY DEF IInv, Exact
  <2>2. ASSUME NEW w \in Threads, WillBeKept(w, t) PROVE prio[w] <= prio[t]
    <3>1. PICK n \in Mutexes : owner'[n] = t /\ w \in Waiters(n)'
      BY <1>9, <2>2
    <3>2. CASE Handed(s, n)
      BY <1>6, <3>1, <3>2
    <3>3. CASE ~Handed(s, n)
      <4>1. KeptBy(w, t)
        BY <1>5, <3>1, <3>3 DEF KeptBy
      <4> QED
        BY <2>1, <4>1
    <3> QED
      BY <3>2, <3>3
  <2>3. ASSUME NEW w \in Threads, KeptBy(w, t) PROVE WillBeKept(w, t)
    <3>1. PICK n \in Mutexes : owner[n] = t /\ w \in Waiters(n)
      BY <2>3 DEF KeptBy
    <3>2. ~Handed(s, n)
      BY <1>11, <3>1 DEF Handed
    <3> QED
      BY <1>5, <1>9, <3>1, <3>2
  <2> QED
    BY <2>1, <2>2, <2>3
<1>12. Exact'
  <2>1. \A w, t \in Threads : KeptBy(w, t)' <=> WillBeKept(w, t)
    BY DEF KeptBy, WillBeKept, Waiters
  <2>2. /\ prio'[current] >= RealPrio[current]
        /\ \A w \in Threads : WillBeKept(w, current) => prio'[w] <= prio'[current]
        /\ \/ prio'[current] = RealPrio[current]
           \/ \E w \in Threads : WillBeKept(w, current) /\ prio'[w] = prio'[current]
    <3>1. prio'[current] = x /\ \A w \in Threads : WillBeKept(w, current) => prio'[w] = prio[w]
      BY <1>3, <1>10, <2>1
    <3>2. /\ \A w \in Threads : WillBeKept(w, current) => prio[w] <= x
          /\ x = RealPrio[current] \/ \E w \in Threads : WillBeKept(w, current) /\ prio[w] = x
      BY <2>1
    <3> QED
      BY <3>1, <3>2
  <2>3. ASSUME NEW t \in Threads, t # current
        PROVE  /\ prio'[t] >= RealPrio[t]
               /\ \A w \in Threads : WillBeKept(w, t) => prio'[w] <= prio'[t]
               /\ prio'[t] = RealPrio[t] \/ \E w \in Threads : WillBeKept(w, t) /\ prio'[w] = prio'[t]
    BY <1>3, <1>10, <1>11, <2>1, <2>3
  <2>4. \A t \in Threads :
          /\ prio'[t] >= RealPrio[t]
          /\ \A w \in Threads : WillBeKept(w, t) => prio'[w] <= prio'[t]
          /\ prio'[t] = RealPrio[t] \/ \E w \in Threads : WillBeKept(w, t) /\ prio'[w] = prio'[t]
    BY <2>2, <2>3
  <2> QED
    BY <2>1, <2>4 DEF Exact
<1> QED
  BY <1>3, <1>4, <1>8, <1>12 DEF IInv

\* A bounded set of numbers has a greatest one.
LEMMA MaxOfIs ==
  ASSUME NEW S \in SUBSET Nat, S # {}, NEW z \in Nat, \A y \in S : y <= z
  PROVE  MaxOf(S) \in S /\ \A y \in S : y <= MaxOf(S)
<1> DEFINE T == {z - y : y \in S}
<1>1. T \in SUBSET Nat /\ T # {}
  <2>1. \A y \in S : z - y \in Nat
    OBVIOUS
  <2>2. T # {}
    OBVIOUS
  <2> QED
    BY <2>1, <2>2
<1>2. PICK d \in T : \A e \in T : d <= e
  <2> HIDE DEF T
  <2> QED
    BY <1>1, Least
<1>3. PICK x \in S : d = z - x
  BY <1>2
<1>4. ASSUME NEW y \in S PROVE y <= x
  <2>1. z - y \in T
    OBVIOUS
  <2>2. z - x <= z - y
    BY <1>2, <1>3, <2>1
  <2> QED
    BY <2>2
<1> QED
  BY <1>3, <1>4 DEF MaxOf

\* What chMtxUnlock hands over.
LEMMA UnlockIs ==
  ASSUME IInv, chMtxUnlock
  PROVE  \E s, ump :
           /\ HandInv(s) /\ HandedOver(s)
           /\ ump \in Mutexes /\ ump = Head(mtxlist[current]) /\ owner[ump] = current
           /\ \A m \in Mutexes : Handed(s, m) <=> m = ump
           /\ Woken(s) = IF queue[ump] = << >> THEN {} ELSE {Head(queue[ump])}
           /\ Tail(mtxlist[current]) \in Seq(Mutexes)
           /\ \A m \in Mutexes : m \in ToSet(Tail(mtxlist[current])) <=> owner[m] = current /\ m # ump
<1> DEFINE s == HandOver(Now)  ump == Head(mtxlist[current])
<1>1. HandedOver(s) /\ mtxlist[current] # << >>
  BY DEF chMtxUnlock
<1>2. HandInv(Now) /\ Now.mtxlist = mtxlist /\ \A m \in Mutexes : ~Handed(Now, m)
  BY NowInv
<1>3. HandInv(s) /\ \A m \in Mutexes : Handed(s, m) <=> Handed(Now, m) \/ m = ump
  BY <1>1, <1>2, HandStep
<1>4. /\ current \in Threads /\ mtxlist[current] \in Seq(Mutexes) /\ IsInjective(mtxlist[current])
      /\ \A m \in Mutexes : m \in ToSet(mtxlist[current]) <=> owner[m] = current
  BY ReadyList DEF IInv, Owned
<1>5. /\ ump \in ToSet(mtxlist[current]) /\ ump \in Mutexes
      /\ Tail(mtxlist[current]) \in Seq(Mutexes)
      /\ ToSet(Tail(mtxlist[current])) = ToSet(mtxlist[current]) \ {ump}
  BY <1>1, <1>4, TailSeq
<1> HIDE DEF s, ump
<1>6. \A m \in Mutexes : Handed(s, m) <=> m = ump
  BY <1>2, <1>3
<1>7. Woken(s) = IF queue[ump] = << >> THEN {} ELSE {Head(queue[ump])}
  <2>1. queue[ump] # << >> => Head(queue[ump]) \in Threads
    BY <1>5, FirstWaiter
  <2> QED
    BY <1>5, <1>6, <2>1, KernelAssumption DEF Woken, NextOwner
<1> QED
  BY <1>1, <1>3, <1>4, <1>5, <1>6, <1>7 DEF ump

LEMMA UnlockStep == ASSUME IInv, chMtxUnlock PROVE IInv'
<1>1. PICK s, ump :
        /\ HandInv(s) /\ HandedOver(s)
        /\ ump \in Mutexes /\ ump = Head(mtxlist[current]) /\ owner[ump] = current
        /\ \A m \in Mutexes : Handed(s, m) <=> m = ump
        /\ Woken(s) = IF queue[ump] = << >> THEN {} ELSE {Head(queue[ump])}
        /\ Tail(mtxlist[current]) \in Seq(Mutexes)
        /\ \A m \in Mutexes : m \in ToSet(Tail(mtxlist[current])) <=> owner[m] = current /\ m # ump
  BY UnlockIs
<1>2. /\ prio \in Prios /\ IsList(prio, rlist) /\ current \in Threads \ ToSet(rlist)
      /\ ToSet(rlist) \subseteq Threads /\ NoThread \notin Threads
      /\ \A t \in Threads : prio[t] \in Nat
      /\ RealPrio[current] \in Nat
  BY ReadyList, KernelAssumption
<1>3. /\ prio[current] >= RealPrio[current]
      /\ \A w \in Threads : KeptBy(w, current) => prio[w] <= prio[current]
      /\ prio[current] = RealPrio[current] \/ \E w \in Threads : KeptBy(w, current) /\ prio[w] = prio[current]
  BY <1>2 DEF IInv, Exact
<1>4. \A m \in Mutexes : m # ump => s.owner[m] = owner[m] /\ s.queue[m] = queue[m]
  BY <1>1 DEF HandInv
<1>5. s.owner[ump] # current
  BY <1>1 DEF Handed
<1>6. owner' = s.owner /\ queue' = s.queue
  BY <1>1 DEF HandedOver
<1>7. \A w : WillBeKept(w, current) <=> \E m \in Mutexes : m # ump /\ owner[m] = current /\ w \in Waiters(m)
  BY <1>4, <1>5, <1>6 DEF WillBeKept, Waiters
<1>8. \A w : WillBeKept(w, current) => KeptBy(w, current)
  BY <1>7 DEF KeptBy
<1>9. CASE queue[ump] = << >>
  <2>1. current' = current /\ rlist' = rlist /\ prio' = prio
    BY <1>1, <1>9 DEF chMtxUnlock, schedVars
  <2>2. Scheduled' /\ Runnable' = Runnable \cup Woken(s)
    BY <1>1, <1>9, <2>1 DEF IInv, Scheduled, Runnable
  <2>3. prio' = [prio EXCEPT ![current] = prio[current]]
    BY <1>2, <2>1 DEF Prios
  <2>4. Waiters(ump) = {}
    BY <1>9, EmptyList DEF Waiters
  <2>5. \A w : KeptBy(w, current) => WillBeKept(w, current)
    BY <1>7, <2>4 DEF KeptBy
  <2>6. /\ \A w \in Threads : WillBeKept(w, current) => prio[w] <= prio[current]
        /\ prio[current] = RealPrio[current] \/ \E w \in Threads : WillBeKept(w, current) /\ prio[w] = prio[current]
    BY <1>3, <1>8, <2>5
  <2>7. prio[current] \in Nat
    BY <1>2
  <2> QED
    BY <1>1, <1>3, <2>2, <2>3, <2>6, <2>7, AfterHandOver
<1>10. CASE queue[ump] # << >>
  <2> DEFINE tp == Head(queue[ump])  rest == Tail(mtxlist[current])  x == PrioFrom(rest)
             p == [prio EXCEPT ![current] = x]
  <2>1. /\ tp \in Threads /\ tp \in Waiters(ump) /\ tp \notin Runnable
        /\ \A w \in Waiters(ump) : prio[w] <= prio[tp]
    BY <1>1, <1>10, FirstWaiter
  <2>2. /\ prio' = p
        /\ IF p[tp] <= p[current]
             THEN rlist' = Behind(p, rlist, tp) /\ current' = current
             ELSE current' = tp /\ rlist' = Behind(p, rlist, current)
    BY <1>1, <1>10 DEF chMtxUnlock
  <2> HIDE DEF tp, rest
  <2> DEFINE heads == {m \in ToSet(rest) : queue[m] # << >>}
             S == {RealPrio[current]} \cup {prio[Head(queue[m])] : m \in heads}
  <2>3. \A m \in ToSet(rest) : m \in Mutexes /\ owner[m] = current /\ m # ump
    <3>1. ToSet(rest) \subseteq Mutexes
      BY <1>1, InjectiveSeq DEF rest
    <3> QED
      BY <1>1, <3>1 DEF rest
  <2>4. ASSUME NEW m \in heads
        PROVE  /\ Head(queue[m]) \in Threads /\ Head(queue[m]) \in Waiters(m)
               /\ prio[Head(queue[m])] \in Nat /\ prio[Head(queue[m])] <= prio[current]
               /\ \A w \in Waiters(m) : prio[w] <= prio[Head(queue[m])]
               /\ WillBeKept(Head(queue[m]), current)
    <3>1. m \in Mutexes /\ owner[m] = current /\ m # ump /\ queue[m] # << >>
      BY <2>3
    <3>2. /\ Head(queue[m]) \in Threads /\ Head(queue[m]) \in Waiters(m)
          /\ \A w \in Waiters(m) : prio[w] <= prio[Head(queue[m])]
      BY <3>1, FirstWaiter
    <3>3. KeptBy(Head(queue[m]), current)
      BY <3>1, <3>2 DEF KeptBy
    <3>4. WillBeKept(Head(queue[m]), current)
      BY <1>7, <3>1, <3>2
    <3> QED
      BY <1>2, <1>3, <3>2, <3>3, <3>4
  <2>5. x = MaxOf(S)
    BY DEF PrioFrom
  <2> HIDE DEF x
  <2>6. x \in S /\ \A y \in S : y <= x
    <3>1. S \in SUBSET Nat
      BY <1>2, <2>4
    <3>2. \A y \in S : y <= prio[current]
      BY <1>3, <2>4
    <3>3. S # {} /\ prio[current] \in Nat
      BY <1>2
    <3> HIDE DEF S
    <3> QED
      BY <2>5, <3>1, <3>2, <3>3, MaxOfIs
  <2>7. x \in Nat
    BY <1>2, <2>4, <2>6
  <2>8. x >= RealPrio[current]
    BY <1>2, <2>6, <2>7
  <2>9. ASSUME NEW m \in Mutexes, owner[m] = current, m # ump, NEW w \in Waiters(m)
        PROVE  prio[w] <= x
    <3>1. m \in heads
      <4>1. m \in ToSet(rest)
        BY <1>1, <2>9 DEF rest
      <4>2. queue[m] # << >>
        BY <2>9, EmptyList DEF Waiters
      <4> QED
        BY <4>1, <4>2
    <3>2. prio[Head(queue[m])] \in S
      BY <3>1
    <3>3. prio[w] <= prio[Head(queue[m])] /\ prio[Head(queue[m])] <= x /\ prio[Head(queue[m])] \in Nat
      BY <2>4, <2>6, <3>1, <3>2
    <3>4. prio[w] \in Nat
      <4>1. w \in Threads
        BY InjectiveSeq DEF IInv, Queued, IsList, Waiters
      <4> QED
        BY <1>2, <4>1
    <3> QED
      BY <2>7, <3>3, <3>4
  <2>10. \A w \in Threads : WillBeKept(w, current) => prio[w] <= x
    BY <1>7, <2>9
  <2>11. x = RealPrio[current] \/ \E w \in Threads : WillBeKept(w, current) /\ prio[w] = x
    <3>1. x = RealPrio[current] \/ \E m \in heads : x = prio[Head(queue[m])]
      BY <2>6
    <3> HIDE DEF heads
    <3> QED
      BY <2>4, <3>1
  <2> HIDE DEF S, heads
  <2>12. /\ prio[tp] \in Nat /\ prio[current] \in Nat /\ prio[tp] <= prio[current]
         /\ tp # current /\ tp \notin ToSet(rlist)
    <3>1. KeptBy(tp, current)
      BY <1>1, <2>1 DEF KeptBy
    <3> QED
      BY <1>2, <1>3, <2>1, <3>1 DEF Runnable
  <2>13. prio[current] <= x \/ prio[current] <= prio[tp]
    <3>1. CASE prio[current] = RealPrio[current]
      BY <1>2, <2>7, <2>8, <3>1
    <3>2. CASE \E w \in Threads : KeptBy(w, current) /\ prio[w] = prio[current]
      <4>1. PICK w \in Threads, m \in Mutexes :
              owner[m] = current /\ w \in Waiters(m) /\ prio[w] = prio[current]
        BY <3>2 DEF KeptBy
      <4>2. CASE m = ump
        BY <2>1, <4>1, <4>2
      <4>3. CASE m # ump
        BY <2>9, <4>1, <4>3
      <4> QED
        BY <4>2, <4>3
    <3> QED
      BY <1>3, <3>1, <3>2
  <2>14. /\ p \in Prios /\ p[current] = x /\ \A t \in Threads : t # current => p[t] = prio[t]
    BY <1>2, <2>7 DEF Prios
  <2>15. prio' = [prio EXCEPT ![current] = x]
    BY <2>2
  <2> HIDE DEF p
  <2>16. IsList(p, rlist) /\ \A t \in ToSet(rlist) : p[t] = prio[t] /\ prio[t] \in Nat /\ prio[t] <= prio[current]
    <3>1. \A t \in ToSet(rlist) : p[t] = prio[t] /\ prio[t] \in Nat
      BY <1>2, <2>14
    <3>2. IsList(p, rlist)
      BY <1>2, <3>1, SamePrio
    <3> QED
      BY <3>1, <3>2 DEF IInv, Scheduled
  <2>17. p[tp] = prio[tp]
    BY <2>1, <2>12, <2>14
  <2>18. Scheduled' /\ Runnable' = Runnable \cup {tp}
    <3>1. CASE p[tp] <= p[current]
      <4>1. rlist' = Behind(p, rlist, tp) /\ current' = current
        BY <2>2, <3>1
      <4>2. IsList(p, rlist') /\ ToSet(rlist') = ToSet(rlist) \cup {tp}
        BY <2>1, <2>12, <2>14, <2>16, <4>1, BehindList
      <4>3. prio[current] <= x
        BY <2>7, <2>12, <2>13, <2>14, <2>17, <3>1
      <4>4. \A t \in ToSet(rlist') : p[t] <= p[current]
        <5> TAKE t \in ToSet(rlist')
        <5>1. CASE t = tp
          BY <3>1, <5>1
        <5>2. CASE t # tp
          <6>1. p[t] = prio[t] /\ prio[t] \in Nat /\ prio[t] <= prio[current]
            BY <2>16, <4>2, <5>2
          <6> QED
            BY <2>7, <2>12, <2>14, <4>3, <6>1
        <5> QED
          BY <5>1, <5>2
      <4>5. Runnable' = Runnable \cup {tp}
        BY <4>1, <4>2 DEF Runnable
      <4>6. Idle \in Runnable'
        BY <4>5 DEF IInv, Scheduled
      <4>7. current' \in Threads \ ToSet(rlist')
        BY <1>2, <2>12, <4>1, <4>2
      <4> QED
        BY <2>2, <4>1, <4>2, <4>4, <4>5, <4>6, <4>7 DEF Scheduled
    <3>2. CASE ~(p[tp] <= p[current])
      <4>1. current' = tp /\ rlist' = Behind(p, rlist, current)
        BY <2>2, <3>2
      <4>2. IsList(p, rlist') /\ ToSet(rlist') = ToSet(rlist) \cup {current}
        BY <1>2, <2>14, <2>16, <4>1, BehindList
      <4>3. prio[current] <= prio[tp] /\ x <= prio[tp]
        BY <2>7, <2>12, <2>13, <2>14, <2>17, <3>2
      <4>4. \A t \in ToSet(rlist') : p[t] <= p[tp]
        <5> TAKE t \in ToSet(rlist')
        <5>1. CASE t = current
          BY <2>14, <2>17, <4>3, <5>1
        <5>2. CASE t # current
          <6>1. p[t] = prio[t] /\ prio[t] \in Nat /\ prio[t] <= prio[current]
            BY <2>16, <4>2, <5>2
          <6> QED
            BY <2>12, <2>17, <4>3, <6>1
        <5> QED
          BY <5>1, <5>2
      <4>5. Runnable' = Runnable \cup {tp}
        BY <4>1, <4>2 DEF Runnable
      <4>6. Idle \in Runnable'
        BY <4>5 DEF IInv, Scheduled
      <4>7. current' \in Threads \ ToSet(rlist')
        BY <2>1, <2>12, <4>1, <4>2
      <4> QED
        BY <2>2, <4>1, <4>2, <4>4, <4>5, <4>6, <4>7 DEF Scheduled
    <3> QED
      BY <3>1, <3>2
  <2>19. Woken(s) = {tp}
    BY <1>1, <1>10 DEF tp
  <2> QED
    BY <1>1, <2>7, <2>8, <2>10, <2>11, <2>15, <2>18, <2>19, AfterHandOver
<1> QED
  BY <1>9, <1>10

IsHandOvers(n, g) == g = [k \in 0..n |-> IF k = 0 THEN Now ELSE HandOver(g[k - 1])]

LEMMA HandOversExist == \A n \in Nat : \E g : IsHandOvers(n, g)
<1> DEFINE S == {n \in Nat : \E g : IsHandOvers(n, g)}
<1>1. 0 \in S
  <2> DEFINE g == [k \in 0..0 |-> Now]
  <2>1. IsHandOvers(0, g)
    BY DEF IsHandOvers
  <2> QED
    BY <2>1
<1>2. ASSUME NEW n \in Nat, n \in S PROVE n + 1 \in S
  <2>1. PICK g : IsHandOvers(n, g)
    BY <1>2
  <2> DEFINE h == [k \in 0..n+1 |-> IF k = n + 1 THEN HandOver(g[n]) ELSE g[k]]
             f == [k \in 0..n+1 |-> IF k = 0 THEN Now ELSE HandOver(h[k - 1])]
  <2>2. ASSUME NEW k \in 0..n+1 PROVE h[k] = f[k]
    <3>1. CASE k = n + 1
      <4>1. h[k - 1] = g[n] /\ k # 0 /\ h[k] = HandOver(g[n])
        BY <3>1
      <4> HIDE DEF h
      <4> QED
        BY <4>1
    <3>2. CASE k # n + 1
      <4>1. k \in 0..n /\ h[k] = g[k] /\ (k # 0 => h[k - 1] = g[k - 1])
        BY <3>2
      <4>2. g[k] = IF k = 0 THEN Now ELSE HandOver(g[k - 1])
        BY <2>1, <4>1 DEF IsHandOvers
      <4> HIDE DEF h
      <4> QED
        BY <4>1, <4>2
    <3> QED
      BY <3>1, <3>2
  <2>3. h = f
    BY <2>2
  <2>4. IsHandOvers(n + 1, h)
    BY <2>3 DEF IsHandOvers
  <2> QED
    BY <2>4
<1> HIDE DEF S
<1>3. \A n \in Nat : n \in S
  BY <1>1, <1>2, Induction
<1> QED
  BY <1>3 DEF S

\* What chMtxUnlockAll hands over: every mutex of the running thread.
LEMMA UnlockAllIs ==
  ASSUME IInv, chMtxUnlockAll
  PROVE  \E s :
           /\ HandInv(s) /\ HandedOver(s)
           /\ \A m \in Mutexes : owner[m] = current => Handed(s, m)
           /\ prio' = [prio EXCEPT ![current] = RealPrio[current]]
           /\ Reschedule([prio EXCEPT ![current] = RealPrio[current]], s.rlist)
<1> DEFINE N == Len(mtxlist[current])
           turn == CHOOSE g : IsHandOvers(N, g)
           p == [prio EXCEPT ![current] = RealPrio[current]]
<1>1. /\ current \in Threads /\ mtxlist[current] \in Seq(Mutexes) /\ N \in Nat
  BY ReadyList, LenProperties DEF IInv, Owned
<1>2. IsHandOvers(N, turn)
  BY <1>1, HandOversExist
<1>3. HandedOver(turn[N]) /\ prio' = p /\ Reschedule(p, turn[N].rlist)
  BY DEF chMtxUnlockAll, IsHandOvers
<1> HIDE DEF turn, N, p
<1>4. turn[0] = Now
  BY <1>1, <1>2 DEF IsHandOvers
<1>5. \A n \in Nat : n + 1 <= N => turn[n + 1] = HandOver(turn[n])
  <2> TAKE n \in Nat
  <2> HAVE n + 1 <= N
  <2>1. n + 1 \in 0..N /\ n + 1 # 0 /\ (n + 1) - 1 = n
    BY <1>1
  <2>2. turn[n + 1] = HandOver(turn[(n + 1) - 1])
    BY <1>2, <2>1 DEF IsHandOvers
  <2> QED
    BY <2>1, <2>2
<1> DEFINE Fine(n) == HandInv(turn[n]) /\ Len(turn[n].mtxlist[current]) = N - n
           S == {n \in Nat : n <= N => Fine(n)}
<1>6. 0 \in S
  <2>1. HandInv(Now) /\ Now.mtxlist = mtxlist
    BY NowInv
  <2>2. Len(turn[0].mtxlist[current]) = N - 0
    BY <1>1, <1>4, <2>1 DEF N
  <2> QED
    BY <1>4, <2>1, <2>2
<1>7. ASSUME NEW n \in Nat, n \in S PROVE n + 1 \in S
  <2> SUFFICES ASSUME n + 1 <= N PROVE Fine(n + 1)
    OBVIOUS
  <2>1. Fine(n)
    BY <1>1, <1>7
  <2> DEFINE s == turn[n]
  <2>2. turn[n + 1] = HandOver(s)
    BY <1>5
  <2>3. HandInv(s) /\ Len(s.mtxlist[current]) = N - n
    BY <2>1
  <2> HIDE DEF s, Fine
  <2>4. s.mtxlist[current] # << >>
    BY <1>1, <2>3, EmptySeq
  <2>5. HandInv(HandOver(s)) /\ Len(HandOver(s).mtxlist[current]) = Len(s.mtxlist[current]) - 1
    BY <2>3, <2>4, HandStep
  <2>6. Len(HandOver(s).mtxlist[current]) = N - (n + 1)
    BY <1>1, <2>3, <2>5
  <2> QED
    BY <2>2, <2>5, <2>6 DEF Fine
<1> HIDE DEF S
<1>8. \A n \in Nat : n \in S
  BY <1>6, <1>7, Induction
<1>9. Fine(N)
  <2>1. N \in S /\ N <= N
    BY <1>1, <1>8
  <2> QED
    BY <2>1 DEF S
<1> DEFINE s == turn[N]
<1> HIDE DEF s
<1>10. HandInv(s) /\ Len(s.mtxlist[current]) = 0
  BY <1>1, <1>9 DEF s
<1>11. ASSUME NEW m \in Mutexes, owner[m] = current PROVE Handed(s, m)
  <2>1. s.mtxlist[current] \in Seq(Mutexes)
    BY <1>1, <1>10 DEF HandInv, HandStates
  <2>2. s.mtxlist[current] = << >>
    BY <1>10, <2>1, EmptySeq
  <2>3. m \notin ToSet(s.mtxlist[current])
    BY <2>2, EmptyList
  <2>4. s.owner[m] # current
    BY <1>1, <1>10, <2>3 DEF HandInv
  <2> QED
    BY <1>11, <2>4 DEF Handed
<1> QED
  BY <1>3, <1>10, <1>11 DEF s, p

LEMMA UnlockAllStep == ASSUME IInv, chMtxUnlockAll PROVE IInv'
<1> DEFINE p == [prio EXCEPT ![current] = RealPrio[current]]
<1>1. PICK s :
        /\ HandInv(s) /\ HandedOver(s)
        /\ \A m \in Mutexes : owner[m] = current => Handed(s, m)
        /\ prio' = p /\ Reschedule(p, s.rlist)
  BY UnlockAllIs
<1>2. /\ prio \in Prios /\ current \in Threads \ ToSet(rlist) /\ RealPrio[current] \in Nat
  BY ReadyList, KernelAssumption
<1>3. p \in Prios /\ \A t \in Threads : t # current => p[t] = prio[t]
  BY <1>2 DEF Prios
<1>4. IsList(prio, s.rlist) /\ ToSet(s.rlist) = ToSet(rlist) \cup Woken(s)
  BY <1>1 DEF HandInv
<1>5. current \notin Woken(s)
  <2>1. ASSUME NEW m \in Mutexes, NextOwner(m) = current PROVE FALSE
    <3>1. queue[m] # << >> /\ current = Head(queue[m])
      BY <1>2, <2>1, KernelAssumption DEF NextOwner
    <3>2. current \notin Runnable
      BY <3>1, FirstWaiter
    <3> QED
      BY <3>2 DEF Runnable
  <2> QED
    BY <2>1 DEF Woken
<1> HIDE DEF p
<1>6. IsList(p, s.rlist) /\ current \notin ToSet(s.rlist)
  <2>1. current \notin ToSet(s.rlist)
    BY <1>2, <1>4, <1>5
  <2>2. ToSet(s.rlist) \subseteq Threads
    BY <1>4, InjectiveSeq DEF IsList
  <2> QED
    BY <1>3, <1>4, <2>1, <2>2, SamePrio
<1>7. /\ current' \in Threads /\ IsList(p, rlist') /\ current' \notin ToSet(rlist')
      /\ {current'} \cup ToSet(rlist') = {current} \cup ToSet(s.rlist)
      /\ \A t \in ToSet(rlist') : p[t] <= p[current']
  BY <1>1, <1>2, <1>3, <1>6, RescheduleStep
<1>8. Scheduled' /\ Runnable' = Runnable \cup Woken(s)
  <2>1. Runnable' = Runnable \cup Woken(s)
    BY <1>4, <1>7 DEF Runnable
  <2>2. Idle \in Runnable'
    BY <2>1 DEF IInv, Scheduled
  <2> QED
    BY <1>1, <1>7, <2>1, <2>2 DEF Scheduled
<1>9. \A w : ~WillBeKept(w, current)
  <2>1. ASSUME NEW m \in Mutexes PROVE owner'[m] # current
    <3>1. owner'[m] = s.owner[m]
      BY <1>1 DEF HandedOver
    <3>2. CASE owner[m] = current
      BY <1>1, <3>1, <3>2 DEF Handed
    <3>3. CASE owner[m] # current
      <4>1. s.owner[m] = owner[m]
        BY <1>1, <3>3 DEF HandInv, Handed
      <4> QED
        BY <3>1, <3>3, <4>1
    <3> QED
      BY <3>2, <3>3
  <2> QED
    BY <2>1 DEF WillBeKept
<1>10. RealPrio[current] >= RealPrio[current]
  BY <1>2
<1>11. prio' = [prio EXCEPT ![current] = RealPrio[current]]
  BY <1>1 DEF p
<1> QED
  BY <1>1, <1>2, <1>8, <1>9, <1>10, <1>11, AfterHandOver

-----------------------------------------------------------------------------
(* Theorems *)

LEMMA StepHolds == ASSUME IInv, [Next]_vars PROVE IInv'
<1>1. CASE Sleep
  BY <1>1, SleepStep
<1>2. CASE QuantumEnds
  BY <1>2, QuantumEndsStep
<1>3. CASE chMtxUnlock
  BY <1>3, UnlockStep
<1>4. CASE chMtxUnlockAll
  BY <1>4, UnlockAllStep
<1>5. CASE \E t \in Threads : Wake(t)
  BY <1>5, WakeStep
<1>6. CASE \E m \in Mutexes : chMtxLock(m) \/ chMtxTryLock(m)
  BY <1>6, LockStep
<1>7. CASE UNCHANGED vars
  <2>1. UNCHANGED <<prio, mutexVars>> /\ current' = current /\ rlist' = rlist /\ prio' = prio
    BY <1>7 DEF vars, schedVars
  <2>2. Scheduled'
    BY <2>1 DEF IInv, Scheduled, Runnable
  <2>3. \A m \in Mutexes : Waiters(m) \cap ({current'} \cup ToSet(rlist')) = {}
    BY <2>1 DEF IInv, Queued, Runnable
  <2> QED
    BY <2>1, <2>2, <2>3, OnlyScheduled
<1> QED
  BY <1>1, <1>2, <1>3, <1>4, <1>5, <1>6, <1>7 DEF Next

LEMMA Invariance == Spec => []IInv
  BY InitHolds, StepHolds, PTL DEF Spec

\* The lists of the kernel agree: a mutex is in the list of its owner and of no other
\* thread, only an owned mutex is waited for, and a thread is in one list at most.
THEOREM TypeCorrect == Spec => []TypeOK
<1>1. ASSUME IInv PROVE TypeOK
  <2>1. current \in Threads /\ rlist \in Seq(Threads) /\ prio \in [Threads -> Nat]
    BY <1>1 DEF IInv, Scheduled, IsList, Prios
  <2>2. /\ owner \in [Mutexes -> Threads \cup {NoThread}]
        /\ queue \in [Mutexes -> Seq(Threads)] /\ mtxlist \in [Threads -> Seq(Mutexes)]
    BY <1>1 DEF IInv, Owned, Queued
  <2>3. \A t \in Threads : \A m \in Mutexes : Contains(mtxlist[t], m) <=> owner[m] = t
    <3>1. \A t \in Threads, m \in Mutexes : Contains(mtxlist[t], m) <=> m \in ToSet(mtxlist[t])
      <4> TAKE t \in Threads, m \in Mutexes
      <4>1. mtxlist[t] \in Seq(Mutexes)
        BY <2>2
      <4> QED
        BY <4>1, InjectiveSeq DEF Contains
    <3> QED
      BY <1>1, <3>1 DEF IInv, Owned
  <2>4. \A m \in Mutexes : queue[m] # << >> => owner[m] # NoThread
    <3> TAKE m \in Mutexes
    <3> HAVE queue[m] # << >>
    <3>1. Head(queue[m]) \in Waiters(m)
      BY <1>1, FirstWaiter
    <3> QED
      BY <1>1, <3>1 DEF IInv, Queued
  <2>5. IsInjective(<<current>> \o rlist)
    <3>1. IsInjective(rlist) /\ current \notin ToSet(rlist)
      BY <1>1 DEF IInv, Scheduled, IsList
    <3> QED
      BY <2>1, <3>1, PushSeq
  <2>6. \A t \in {current} \cup ToSet(rlist) : WaitsFor(t) = {}
    BY <1>1 DEF IInv, Queued, Runnable, WaitsFor
  <2>7. \A t \in Threads : Cardinality(WaitsFor(t)) <= 1
    <3> TAKE t \in Threads
    <3>1. CASE WaitsFor(t) = {}
      BY <3>1, FS_EmptySet
    <3>2. CASE WaitsFor(t) # {}
      <4>1. PICK m : m \in WaitsFor(t)
        BY <3>2
      <4>2. WaitsFor(t) = {m}
        BY <1>1, <4>1 DEF IInv, Queued, WaitsFor
      <4>3. Cardinality({m}) = 1
        BY FS_Singleton
      <4> QED
        BY <4>2, <4>3
    <3> QED
      BY <3>1, <3>2
  <2> QED
    BY <2>1, <2>2, <2>3, <2>4, <2>5, <2>6, <2>7 DEF TypeOK
<1> QED
  BY <1>1, Invariance, PTL

\* A thread has its own priority or the highest of the threads it keeps waiting,
\* whatever the chain of owners and the order of the calls.
THEOREM PrioritiesExact == Spec => []InheritanceExact
<1>1. ASSUME IInv PROVE InheritanceExact
  <2> SUFFICES ASSUME NEW t \in Threads
               PROVE  prio[t] = MaxOf({RealPrio[t]} \cup
                        {prio[w] : w \in UNION {Waiters(m) : m \in ToSet(mtxlist[t])}})
    BY DEF InheritanceExact
  <2> DEFINE W == UNION {Waiters(m) : m \in ToSet(mtxlist[t])}
             S == {RealPrio[t]} \cup {prio[w] : w \in W}
  <2>1. \A w : w \in W <=> KeptBy(w, t)
    <3>1. ToSet(mtxlist[t]) \subseteq Mutexes
      BY <1>1, InjectiveSeq DEF IInv, Owned
    <3>2. \A m \in Mutexes : m \in ToSet(mtxlist[t]) <=> owner[m] = t
      BY <1>1 DEF IInv, Owned
    <3> QED
      BY <3>1, <3>2 DEF KeptBy
  <2> HIDE DEF W
  <2>2. \A w : KeptBy(w, t) => w \in Threads
    <3>1. \A m \in Mutexes : Waiters(m) \subseteq Threads
      BY <1>1, InjectiveSeq DEF IInv, Queued, IsList, Waiters
    <3> QED
      BY <3>1 DEF KeptBy
  <2>3. /\ prio[t] >= RealPrio[t]
        /\ \A w \in Threads : KeptBy(w, t) => prio[w] <= prio[t]
        /\ prio[t] = RealPrio[t] \/ \E w \in Threads : KeptBy(w, t) /\ prio[w] = prio[t]
    BY <1>1 DEF IInv, Exact
  <2>4. \A x \in Threads : prio[x] \in Nat /\ RealPrio[x] \in Nat
    BY <1>1, ReadyList, KernelAssumption
  <2>5. prio[t] \in S
    BY <2>1, <2>3
  <2>6. \A y \in S : y \in Nat /\ y <= prio[t]
    BY <2>1, <2>2, <2>3, <2>4
  <2> HIDE DEF S
  <2>7. S \in SUBSET Nat /\ S # {} /\ prio[t] \in Nat /\ \A y \in S : y <= prio[t]
    BY <2>4, <2>5, <2>6
  <2>8. MaxOf(S) \in S /\ \A y \in S : y <= MaxOf(S)
    BY <2>7, MaxOfIs
  <2>9. prio[t] = MaxOf(S)
    <3> DEFINE x == MaxOf(S)
    <3>1. x \in S /\ \A y \in S : y <= x
      BY <2>8
    <3> HIDE DEF x
    <3>2. x <= prio[t] /\ prio[t] <= x
      BY <2>5, <2>6, <3>1
    <3>3. x \in Nat /\ prio[t] \in Nat
      BY <2>6, <2>7, <3>1
    <3>4. x = prio[t]
      BY <3>2, <3>3
    <3> QED
      BY <3>4 DEF x
  <2> QED
    BY <2>9 DEF S, W
<1> QED
  BY <1>1, Invariance, PTL

\* A mutex that is handed over goes to a waiter of the highest priority.
THEOREM HighestNext == Spec => HighestWaiterNext
<1> DEFINE Goes(m) ==
      owner'[m] \notin {owner[m], NoThread} /\ owner[m] # NoThread
        => owner'[m] \in Waiters(m) /\ \A w \in Waiters(m) : prio[w] <= prio[owner'[m]]
<1>1. ASSUME IInv, NEW s, HandInv(s), HandedOver(s), NEW m \in Mutexes PROVE Goes(m)
  <2>1. owner'[m] = s.owner[m]
    BY <1>1 DEF HandedOver
  <2>2. CASE Handed(s, m)
    <3>1. s.owner[m] = NextOwner(m)
      BY <1>1, <2>2 DEF HandInv
    <3>2. CASE queue[m] = << >>
      BY <2>1, <3>1, <3>2 DEF NextOwner
    <3>3. CASE queue[m] # << >>
      BY <1>1, <2>1, <3>1, <3>3, FirstWaiter DEF NextOwner
    <3> QED
      BY <3>2, <3>3
  <2>3. CASE ~Handed(s, m)
    <3>1. s.owner[m] = owner[m]
      BY <1>1, <2>3 DEF HandInv
    <3> QED
      BY <2>1, <3>1
  <2> QED
    BY <2>2, <2>3
<1>2. ASSUME IInv, Next, NEW m \in Mutexes PROVE Goes(m)
  <2>1. CASE Sleep \/ QuantumEnds \/ \E t \in Threads : Wake(t)
    <3>1. owner' = owner
      BY <2>1 DEF Sleep, QuantumEnds, Wake, mutexVars
    <3> QED
      BY <3>1
  <2>2. CASE chMtxUnlock
    BY <1>1, <1>2, <2>2, UnlockIs
  <2>3. CASE chMtxUnlockAll
    BY <1>1, <1>2, <2>3, UnlockAllIs
  <2>4. ASSUME NEW n \in Mutexes, chMtxLock(n) \/ chMtxTryLock(n) PROVE Goes(m)
    <3>1. owner' = owner \/ (owner[n] = NoThread /\ owner' = [owner EXCEPT ![n] = current])
      BY <2>4 DEF chMtxLock, chMtxTryLock, Take
    <3>2. owner \in [Mutexes -> Threads \cup {NoThread}]
      BY <1>2 DEF IInv, Owned
    <3> QED
      BY <3>1, <3>2
  <2> QED
    BY <1>2, <2>1, <2>2, <2>3, <2>4 DEF Next
<1>3. ASSUME IInv, [Next]_vars
      PROVE  [\A m \in Mutexes :
                owner'[m] \notin {owner[m], NoThread} /\ owner[m] # NoThread
                  => /\ owner'[m] \in Waiters(m)
                     /\ \A w \in Waiters(m) : prio[w] <= prio[owner'[m]]]_vars
  BY <1>2, <1>3
<1> QED
  BY <1>3, Invariance, PTL DEF Spec, HighestWaiterNext

\* The thread that t waits for keeps it waiting, and has its priority at least.
LEMMA BlockerIs ==
  ASSUME IInv, NEW t \in Threads, WaitsFor(t) # {}
  PROVE  BlockerOf(t) \in Threads /\ prio[BlockerOf(t)] >= prio[t]
<1> DEFINE m == CHOOSE m \in Mutexes : t \in Waiters(m)
<1>1. m \in Mutexes /\ t \in Waiters(m)
  BY DEF WaitsFor
<1>2. BlockerOf(t) = owner[m]
  BY DEF BlockerOf
<1> HIDE DEF m
<1>3. owner[m] \in Threads
  BY <1>1 DEF IInv, Queued, Owned
<1>4. KeptBy(t, owner[m])
  BY <1>1 DEF KeptBy
<1>5. prio[t] <= prio[owner[m]] /\ prio[t] \in Nat /\ prio[owner[m]] \in Nat
  BY <1>3, <1>4, ReadyList DEF IInv, Exact, Prios
<1> QED
  BY <1>2, <1>3, <1>5

\* The thread that t waits for in the end, through n owners at most.
LastOf(g, k, t) == IF k = 0 \/ WaitsFor(t) = {} THEN t ELSE g[k - 1][BlockerOf(t)]

IsLasts(n, g) == g = [k \in 0..n |-> [t \in Threads |-> LastOf(g, k, t)]]

LEMMA LastsExist == \A n \in Nat : \E g : IsLasts(n, g)
<1> DEFINE S == {n \in Nat : \E g : IsLasts(n, g)}
<1>1. 0 \in S
  <2> DEFINE g == [k \in 0..0 |-> [t \in Threads |-> t]]
  <2>1. IsLasts(0, g)
    BY DEF IsLasts, LastOf
  <2> QED
    BY <2>1
<1>2. ASSUME NEW n \in Nat, n \in S PROVE n + 1 \in S
  <2>1. PICK g : IsLasts(n, g)
    BY <1>2
  <2> DEFINE Row(k) == [t \in Threads |-> LastOf(g, k, t)]
             h == [k \in 0..n+1 |-> Row(k)]
             f == [k \in 0..n+1 |-> [t \in Threads |-> LastOf(h, k, t)]]
  <2>2. ASSUME NEW k \in 0..n+1, k # 0 PROVE h[k - 1] = g[k - 1]
    <3>1. k - 1 \in 0..n /\ k - 1 \in 0..n+1
      BY <2>2
    <3>2. h[k - 1] = Row(k - 1)
      BY <3>1
    <3>3. g[k - 1] = Row(k - 1)
      BY <2>1, <3>1 DEF IsLasts
    <3> QED
      BY <3>2, <3>3
  <2>3. ASSUME NEW k \in 0..n+1 PROVE h[k] = f[k]
    <3>1. \A t \in Threads : LastOf(h, k, t) = LastOf(g, k, t)
      <4>1. k # 0 => h[k - 1] = g[k - 1]
        BY <2>2
      <4> HIDE DEF h
      <4> QED
        BY <4>1 DEF LastOf
    <3>2. h[k] = Row(k) /\ f[k] = [t \in Threads |-> LastOf(h, k, t)]
      OBVIOUS
    <3> HIDE DEF h, f
    <3> QED
      BY <3>1, <3>2
  <2>4. h = f
    BY <2>3
  <2>5. IsLasts(n + 1, h)
    BY <2>4 DEF IsLasts
  <2> QED
    BY <2>5
<1> HIDE DEF S
<1>3. \A n \in Nat : n \in S
  BY <1>1, <1>2, Induction
<1> QED
  BY <1>3 DEF S

\* Along the owners the priority never falls.
LEMMA LastsRise ==
  ASSUME IInv, NEW N \in Nat, NEW g, IsLasts(N, g)
  PROVE  \A t \in Threads : g[N][t] \in Threads /\ prio[g[N][t]] >= prio[t]
<1> DEFINE Fine(n) == \A t \in Threads : g[n][t] \in Threads /\ prio[g[n][t]] >= prio[t]
           S == {n \in Nat : n <= N => Fine(n)}
<1>1. \A n \in 0..N : \A t \in Threads : g[n][t] = LastOf(g, n, t)
  <2> DEFINE Row(k) == [t \in Threads |-> LastOf(g, k, t)]
  <2>1. g = [k \in 0..N |-> Row(k)]
    BY DEF IsLasts
  <2>2. \A k : \A t \in Threads : Row(k)[t] = LastOf(g, k, t)
    OBVIOUS
  <2> HIDE DEF Row
  <2>3. \A n \in 0..N : g[n] = Row(n)
    BY <2>1
  <2> QED
    BY <2>2, <2>3
<1>2. \A t \in Threads : prio[t] \in Nat
  BY ReadyList
<1>3. 0 \in S
  <2>1. \A t \in Threads : g[0][t] = t
    BY <1>1 DEF LastOf
  <2>2. Fine(0)
    BY <1>2, <2>1
  <2> QED
    BY <2>2
<1>4. ASSUME NEW n \in Nat, n \in S PROVE n + 1 \in S
  <2> SUFFICES ASSUME n + 1 <= N PROVE Fine(n + 1)
    OBVIOUS
  <2>1. Fine(n) /\ n + 1 \in 0..N /\ n + 1 # 0 /\ (n + 1) - 1 = n
    BY <1>4
  <2> TAKE t \in Threads
  <2>2. g[n + 1][t] = IF WaitsFor(t) = {} THEN t ELSE g[n][BlockerOf(t)]
    BY <1>1, <2>1 DEF LastOf
  <2>3. CASE WaitsFor(t) = {}
    BY <1>2, <2>2, <2>3
  <2>4. CASE WaitsFor(t) # {}
    <3> DEFINE b == BlockerOf(t)
    <3>1. b \in Threads /\ prio[b] >= prio[t]
      BY <2>4, BlockerIs
    <3>2. g[n + 1][t] = g[n][b]
      BY <2>2, <2>4
    <3> HIDE DEF b
    <3>3. g[n][b] \in Threads /\ prio[g[n][b]] >= prio[b]
      BY <2>1, <3>1
    <3>4. prio[g[n][b]] >= prio[t]
      <4>1. prio[g[n][b]] \in Nat /\ prio[b] \in Nat /\ prio[t] \in Nat
        BY <1>2, <3>1, <3>3
      <4> QED
        BY <3>1, <3>3, <4>1
    <3> QED
      BY <3>2, <3>3, <3>4
  <2> QED
    BY <2>3, <2>4
<1> HIDE DEF S
<1>5. \A n \in Nat : n \in S
  BY <1>3, <1>4, Induction
<1>6. Fine(N)
  <2>1. N \in S /\ N <= N
    BY <1>5
  <2> QED
    BY <2>1 DEF S
<1> QED
  BY <1>6

\* While the thread that t waits for in the end is ready, nothing below t runs.
THEOREM InversionNever == Spec => []NoInversion
<1>1. ASSUME IInv PROVE NoInversion
  <2> DEFINE N == Cardinality(Threads)
             last == CHOOSE g : IsLasts(N, g)
  <2>1. N \in Nat
    BY KernelAssumption, FS_CardinalityType
  <2>2. IsLasts(N, last)
    BY <2>1, LastsExist
  <2>3. \A t \in Threads : last[N][t] \in Threads /\ prio[last[N][t]] >= prio[t]
    <3> HIDE DEF last, N
    <3> QED
      BY <1>1, <2>1, <2>2, LastsRise
  <2>4. ASSUME NEW w \in Threads, last[N][w] \in ToSet(rlist) PROVE prio[current] >= prio[w]
    <3> DEFINE x == last[N][w]
    <3>1. x \in Threads /\ prio[x] >= prio[w] /\ x \in ToSet(rlist)
      BY <2>3, <2>4
    <3> HIDE DEF last, N, x
    <3>2. prio[x] <= prio[current]
      BY <1>1, <3>1 DEF IInv, Scheduled
    <3>3. prio[x] \in Nat /\ prio[w] \in Nat /\ prio[current] \in Nat
      BY <1>1, <3>1, ReadyList
    <3> QED
      BY <3>1, <3>2, <3>3
  <2>5. NoInversion <=> \A w \in Threads : last[N][w] \in ToSet(rlist) => prio[current] >= prio[w]
    BY DEF NoInversion, IsLasts, LastOf
  <2> QED
    BY <2>4, <2>5
<1> QED
  BY <1>1, Invariance, PTL

\* A step of the kernel is a step of each mutex as a lock, or changes nothing of it.
LEMMA LockRefines ==
  ASSUME IInv, Next, NEW m \in Mutexes
  PROVE  [Lock(m)!LockNext]_(Lock(m)!lockVars)
<1>1. /\ current \in Threads /\ queue \in [Mutexes -> Seq(Threads)]
      /\ owner \in [Mutexes -> Threads \cup {NoThread}]
  BY ReadyList DEF IInv, Owned, Queued
<1>2. ASSUME owner'[m] = owner[m], Waiters(m)' = Waiters(m) PROVE UNCHANGED Lock(m)!lockVars
  BY <1>2 DEF Lock!lockVars
<1>3. CASE Sleep \/ QuantumEnds \/ \E t \in Threads : Wake(t)
  <2>1. owner' = owner /\ queue' = queue
    BY <1>3 DEF Sleep, QuantumEnds, Wake, mutexVars
  <2> QED
    BY <1>2, <2>1 DEF Waiters
<1>4. ASSUME NEW n \in Mutexes, chMtxLock(n) \/ chMtxTryLock(n), owner[n] = NoThread
      PROVE  [Lock(m)!LockNext]_(Lock(m)!lockVars)
  <2>1. owner' = [owner EXCEPT ![n] = current] /\ queue' = queue
    BY <1>4 DEF chMtxLock, chMtxTryLock, Take
  <2>2. Waiters(m)' = Waiters(m)
    BY <2>1 DEF Waiters
  <2>3. CASE n = m
    <3>1. owner'[m] = current
      BY <1>1, <2>1, <2>3
    <3>2. Lock(m)!Acquire(current)
      BY <1>4, <2>2, <2>3, <3>1 DEF Lock!Acquire
    <3> QED
      BY <1>1, <3>2 DEF Lock!LockNext
  <2>4. CASE n # m
    BY <1>1, <1>2, <2>1, <2>2, <2>4
  <2> QED
    BY <2>3, <2>4
<1>5. ASSUME NEW n \in Mutexes, chMtxLock(n), owner[n] # NoThread
      PROVE  [Lock(m)!LockNext]_(Lock(m)!lockVars)
  <2>1. MayLock(n)
    BY <1>5 DEF chMtxLock
  <2>2. /\ owner' = owner
        /\ Waiters(m)' = IF m = n THEN Waiters(n) \cup {current} ELSE Waiters(m)
    BY <1>5, <2>1, WaitStep
  <2>3. CASE n = m
    <3>1. Lock(m)!Wait(current)
      BY <1>5, <2>1, <2>2, <2>3 DEF Lock!Wait, MayLock
    <3> QED
      BY <1>1, <3>1 DEF Lock!LockNext
  <2>4. CASE n # m
    BY <1>2, <2>2, <2>4
  <2> QED
    BY <2>3, <2>4
<1>6. ASSUME NEW s, HandInv(s), HandedOver(s)
      PROVE  [Lock(m)!LockNext]_(Lock(m)!lockVars)
  <2>1. owner'[m] = s.owner[m] /\ Waiters(m)' = ToSet(s.queue[m])
    BY <1>6 DEF HandedOver, Waiters
  <2>2. CASE ~Handed(s, m)
    <3>1. s.owner[m] = owner[m] /\ s.queue[m] = queue[m]
      BY <1>6, <2>2 DEF HandInv
    <3> QED
      BY <1>2, <2>1, <3>1 DEF Waiters
  <2>3. CASE Handed(s, m)
    <3>1. /\ owner[m] = current /\ s.owner[m] = NextOwner(m)
          /\ s.queue[m] = IF queue[m] = << >> THEN << >> ELSE Tail(queue[m])
      BY <1>6, <2>3 DEF HandInv, Handed
    <3>2. Lock(m)!Release(current)
      <4>1. CASE queue[m] = << >>
        <5>1. Waiters(m) = {} /\ ToSet(s.queue[m]) = {} /\ s.owner[m] = NoThread
          BY <3>1, <4>1, EmptyList DEF Waiters, NextOwner
        <5> QED
          BY <2>1, <3>1, <5>1 DEF Lock!Release
      <4>2. CASE queue[m] # << >>
        <5> DEFINE tp == Head(queue[m])
        <5>1. tp \in Waiters(m) /\ ToSet(Tail(queue[m])) = Waiters(m) \ {tp}
          BY <4>2, FirstWaiter
        <5>2. s.owner[m] = tp /\ s.queue[m] = Tail(queue[m])
          BY <3>1, <4>2 DEF NextOwner
        <5> HIDE DEF tp
        <5> QED
          BY <2>1, <3>1, <5>1, <5>2 DEF Lock!Release
      <4> QED
        BY <4>1, <4>2
    <3> QED
      BY <1>1, <3>2 DEF Lock!LockNext
  <2> QED
    BY <2>2, <2>3
<1>7. CASE chMtxUnlock
  BY <1>6, <1>7, UnlockIs
<1>8. CASE chMtxUnlockAll
  BY <1>6, <1>8, UnlockAllIs
<1> QED
  BY <1>3, <1>4, <1>5, <1>7, <1>8 DEF Next, chMtxTryLock

\* Each mutex is the lock that BusLock promises its users.
THEOREM MutexIsLock == Spec => ImplementsLock
<1>1. Init => \A m \in Mutexes : Lock(m)!LockInit
  <2> SUFFICES ASSUME Init, NEW m \in Mutexes PROVE Lock(m)!LockInit
    OBVIOUS
  <2>1. owner[m] = NoThread /\ queue[m] = << >>
    BY DEF Init
  <2>2. Waiters(m) = {}
    BY <2>1, EmptyList DEF Waiters
  <2> QED
    BY <2>1, <2>2 DEF Lock!LockInit
<1>2. IInv /\ [Next]_vars => [\A m \in Mutexes : [Lock(m)!LockNext]_(Lock(m)!lockVars)]_vars
  BY LockRefines
<1> QED
  BY <1>1, <1>2, Invariance, PTL DEF Spec, ImplementsLock

=============================================================================
