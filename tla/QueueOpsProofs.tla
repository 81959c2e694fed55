--------------------------- MODULE QueueOpsProofs ---------------------------
(***************************************************************************)
(* Lemmas about the functions of a queue: what each returns, keeps and     *)
(* adds, for every set of elements and every queue of them.                *)
(***************************************************************************)
EXTENDS QueueOps, SequenceTheorems, TLAPS

\* No item is at two indices
Distinct(q) == \A i, j \in 1..Len(q) : q[i] = q[j] => i = j

\* A push adds its item and nothing else
LEMMA PushFrontLemma ==
  ASSUME NEW S, NEW q \in Seq(S), NEW x \in S
  PROVE  /\ PushFront(q, x) \in Seq(S)
         /\ Len(PushFront(q, x)) = Len(q) + 1
         /\ Elements(PushFront(q, x)) = Elements(q) \cup {x}
         /\ Distinct(q) /\ x \notin Elements(q) => Distinct(PushFront(q, x))
<1>. DEFINE r == PushFront(q, x)
<1>1. r \in Seq(S) /\ Len(r) = Len(q) + 1
  BY DEF PushFront
<1>2. r[1] = x /\ \A i \in 1..Len(q) : r[i + 1] = q[i]
  BY DEF PushFront
<1>3. \A i \in 1..Len(r) : i = 1 \/ (i - 1 \in 1..Len(q) /\ r[i] = q[i - 1])
  BY <1>1, <1>2
<1>. HIDE DEF r
<1>4. Elements(r) = Elements(q) \cup {x}
  <2>1. \A y \in Elements(r) : y \in Elements(q) \cup {x}
    BY <1>1, <1>2, <1>3 DEF Elements
  <2>2. \A y \in Elements(q) : y \in Elements(r)
    BY <1>1, <1>2 DEF Elements
  <2>3. x \in Elements(r)
    BY <1>1, <1>2 DEF Elements
  <2>. QED BY <2>1, <2>2, <2>3
<1>5. Distinct(q) /\ x \notin Elements(q) => Distinct(r)
  <2>. SUFFICES ASSUME Distinct(q), x \notin Elements(q),
                       NEW i \in 1..Len(r), NEW j \in 1..Len(r), r[i] = r[j]
                PROVE  i = j
    BY DEF Distinct
  <2>1. CASE i = 1 \/ j = 1
    BY <2>1, <1>1, <1>2, <1>3 DEF Elements
  <2>2. CASE i # 1 /\ j # 1
    <3>1. i - 1 \in 1..Len(q) /\ j - 1 \in 1..Len(q) /\ q[i - 1] = q[j - 1]
      BY <2>2, <1>3
    <3>2. i - 1 = j - 1
      BY <3>1 DEF Distinct
    <3>. QED BY <3>2
  <2>. QED BY <2>1, <2>2
<1>. QED BY <1>1, <1>4, <1>5 DEF r

LEMMA PushBackLemma ==
  ASSUME NEW S, NEW q \in Seq(S), NEW x \in S
  PROVE  /\ PushBack(q, x) \in Seq(S)
         /\ Len(PushBack(q, x)) = Len(q) + 1
         /\ Elements(PushBack(q, x)) = Elements(q) \cup {x}
         /\ Distinct(q) /\ x \notin Elements(q) => Distinct(PushBack(q, x))
<1>. DEFINE r == PushBack(q, x)
<1>1. r \in Seq(S) /\ Len(r) = Len(q) + 1
  BY DEF PushBack
<1>2. r[Len(q) + 1] = x /\ \A i \in 1..Len(q) : r[i] = q[i]
  BY DEF PushBack
<1>. HIDE DEF r
<1>4. Elements(r) = Elements(q) \cup {x}
  <2>1. \A y \in Elements(r) : y \in Elements(q) \cup {x}
    BY <1>1, <1>2 DEF Elements
  <2>2. \A y \in Elements(q) : y \in Elements(r)
    BY <1>1, <1>2 DEF Elements
  <2>3. x \in Elements(r)
    BY <1>1, <1>2 DEF Elements
  <2>. QED BY <2>1, <2>2, <2>3
<1>5. Distinct(q) /\ x \notin Elements(q) => Distinct(r)
  BY <1>1, <1>2 DEF Distinct, Elements
<1>. QED BY <1>1, <1>4, <1>5 DEF r

\* insert never loses an element: an index out of range changes nothing
LEMMA InsertLemma ==
  ASSUME NEW S, NEW q \in Seq(S), NEW x \in S, NEW k \in Int
  PROVE  /\ Insert(q, k, x) \in Seq(S)
         /\ Len(Insert(q, k, x)) >= Len(q)
         /\ Elements(q) \subseteq Elements(Insert(q, k, x))
         /\ Elements(Insert(q, k, x)) \subseteq Elements(q) \cup {x}
         /\ Distinct(q) /\ x \notin Elements(q) => Distinct(Insert(q, k, x))
<1>1. CASE ~InRange(q, k)
  BY <1>1 DEF Insert
<1>2. CASE InRange(q, k)
  <2>. DEFINE a == SubSeq(q, 1, k)
              b == SubSeq(q, k + 1, Len(q))
              c == a \o <<x>>
              r == c \o b
  <2>0. k \in Nat /\ k < Len(q)
    BY <1>2 DEF InRange
  <2>1. a \in Seq(S) /\ Len(a) = k /\ \A i \in 1..k : a[i] = q[i]
    BY <2>0
  <2>2. b \in Seq(S) /\ Len(b) = Len(q) - k /\ \A i \in 1..(Len(q) - k) : b[i] = q[k + i]
    BY <2>0
  <2>. HIDE DEF a, b
  <2>3. /\ c \in Seq(S) /\ Len(c) = k + 1
        /\ c[k + 1] = x /\ \A i \in 1..k : c[i] = q[i]
    BY <2>0, <2>1
  <2>. HIDE DEF c
  <2>4. /\ r \in Seq(S) /\ Len(r) = Len(q) + 1
        /\ \A i \in 1..(k + 1) : r[i] = c[i]
        /\ \A i \in (k + 2)..(Len(q) + 1) : r[i] = b[i - (k + 1)]
    BY <2>0, <2>2, <2>3
  <2>5. \A i \in 1..Len(r) :
          \/ i < k + 1 /\ r[i] = q[i]
          \/ i = k + 1 /\ r[i] = x
          \/ i > k + 1 /\ r[i] = q[i - 1]
    <3>. TAKE i \in 1..Len(r)
    <3>1. CASE i <= k + 1
      BY <3>1, <2>0, <2>3, <2>4
    <3>2. CASE i > k + 1
      <4>1. i \in (k + 2)..(Len(q) + 1) /\ i - (k + 1) \in 1..(Len(q) - k)
        BY <3>2, <2>0, <2>4
      <4>2. r[i] = b[i - (k + 1)]
        BY <4>1, <2>4
      <4>3. b[i - (k + 1)] = q[k + (i - (k + 1))]
        BY <4>1, <2>2
      <4>4. k + (i - (k + 1)) = i - 1
        BY <2>0
      <4>. QED BY <3>2, <4>2, <4>3, <4>4
    <3>. QED BY <3>1, <3>2, <2>0
  <2>6. Insert(q, k, x) = r
    BY <1>2 DEF Insert, a, b, c
  <2>. HIDE DEF r
  <2>7. Elements(r) \subseteq Elements(q) \cup {x}
    <3>1. ASSUME NEW i \in 1..Len(r)
          PROVE  r[i] = x \/ \E j \in 1..Len(q) : r[i] = q[j]
      <4>1. CASE i < k + 1
        BY <4>1, <2>0, <2>5
      <4>2. CASE i > k + 1
        <5>1. i - 1 \in 1..Len(q) /\ r[i] = q[i - 1]
          BY <4>2, <2>0, <2>4, <2>5
        <5>. QED BY <5>1
      <4>3. CASE i = k + 1
        BY <4>3, <2>5
      <4>. QED BY <4>1, <4>2, <4>3, <2>0
    <3>. QED BY <3>1 DEF Elements
  <2>8. Distinct(q) /\ x \notin Elements(q) => Distinct(r)
    <3>. SUFFICES ASSUME Distinct(q), x \notin Elements(q),
                         NEW i \in 1..Len(r), NEW j \in 1..Len(r), r[i] = r[j]
                  PROVE  i = j
      BY DEF Distinct
    <3>. DEFINE g(n) == IF n < k + 1 THEN n ELSE n - 1
    <3>1. ASSUME NEW n \in 1..Len(r), n # k + 1
          PROVE  g(n) \in 1..Len(q) /\ r[n] = q[g(n)]
      BY <3>1, <2>0, <2>4, <2>5
    <3>2. r[k + 1] = x /\ \A n \in 1..Len(r) : n # k + 1 => r[n] \in Elements(q)
      BY <3>1, <2>0, <2>4, <2>5 DEF Elements
    <3>3. CASE i = k + 1 \/ j = k + 1
      BY <3>2, <3>3
    <3>4. CASE i # k + 1 /\ j # k + 1
      <4>1. g(i) = g(j)
        BY <3>1, <3>4 DEF Distinct
      <4>. QED BY <4>1, <3>4, <2>0
    <3>. QED BY <3>3, <3>4
  <2>9. Elements(q) \subseteq Elements(r)
    <3>1. ASSUME NEW i \in 1..Len(q) PROVE \E j \in 1..Len(r) : q[i] = r[j]
      <4>1. CASE i < k + 1
        BY <4>1, <2>0, <2>4, <2>5
      <4>2. CASE i >= k + 1
        <5>1. i + 1 \in 1..Len(r) /\ i + 1 > k + 1 /\ (i + 1) - 1 = i
          BY <4>2, <2>0, <2>4
        <5>2. r[i + 1] = q[i]
          BY <5>1, <2>5
        <5>. QED BY <5>1, <5>2
      <4>. QED BY <4>1, <4>2, <2>0
    <3>. QED BY <3>1 DEF Elements
  <2>. QED BY <2>4, <2>6, <2>7, <2>8, <2>9
<1>. QED BY <1>1, <1>2

\* delete closes the gap: what was behind the index moves up by one
LEMMA DeleteAt ==
  ASSUME NEW S, NEW q \in Seq(S), NEW k \in Int, InRange(q, k)
  PROVE  /\ Delete(q, k) \in Seq(S) /\ Len(Delete(q, k)) = Len(q) - 1
         /\ \A i \in 1..Len(Delete(q, k)) :
              \/ i <= k /\ Delete(q, k)[i] = q[i]
              \/ i > k /\ Delete(q, k)[i] = q[i + 1]
<1>. DEFINE a == SubSeq(q, 1, k)
            b == SubSeq(q, k + 2, Len(q))
            r == a \o b
<1>0. k \in Nat /\ k < Len(q)
  BY DEF InRange
<1>1. a \in Seq(S) /\ Len(a) = k /\ \A i \in 1..k : a[i] = q[i]
  BY <1>0
<1>2. /\ b \in Seq(S) /\ Len(b) = Len(q) - k - 1
      /\ \A i \in 1..(Len(q) - k - 1) : b[i] = q[k + 1 + i]
  BY <1>0
<1>. HIDE DEF a, b
<1>3. /\ r \in Seq(S) /\ Len(r) = Len(q) - 1
      /\ \A i \in 1..k : r[i] = a[i]
      /\ \A i \in (k + 1)..(Len(q) - 1) : r[i] = b[i - k]
  BY <1>0, <1>1, <1>2, ConcatProperties
<1>4. \A i \in 1..Len(r) :
        \/ i <= k /\ r[i] = q[i]
        \/ i > k /\ r[i] = q[i + 1]
  <2>. TAKE i \in 1..Len(r)
  <2>1. CASE i <= k
    BY <2>1, <1>0, <1>1, <1>3
  <2>2. CASE i > k
    <3>1. i \in (k + 1)..(Len(q) - 1) /\ i - k \in 1..(Len(q) - k - 1)
      BY <2>2, <1>0, <1>3
    <3>2. r[i] = b[i - k]
      BY <3>1, <1>3
    <3>3. b[i - k] = q[k + 1 + (i - k)]
      BY <3>1, <1>2
    <3>4. k + 1 + (i - k) = i + 1
      BY <1>0
    <3>. QED BY <2>2, <3>2, <3>3, <3>4
  <2>. QED BY <2>1, <2>2, <1>0
<1>5. Delete(q, k) = r
  <2>1. k # -1
    BY <1>0
  <2>. QED BY <2>1 DEF Delete, a, b
<1>. QED BY <1>3, <1>4, <1>5

\* delete adds nothing, for every index
LEMMA DeleteLemma ==
  ASSUME NEW S, NEW q \in Seq(S), NEW k \in Int
  PROVE  /\ Delete(q, k) \in Seq(S)
         /\ InRange(q, k) => Len(Delete(q, k)) = Len(q) - 1
         /\ Elements(Delete(q, k)) \subseteq Elements(q)
         /\ Distinct(q) => Distinct(Delete(q, k))
<1>1. CASE k = -1
  BY <1>1 DEF Delete, InRange, Elements, Distinct
<1>2. CASE k # -1 /\ ~InRange(q, k)
  BY <1>2 DEF Delete
<1>3. CASE InRange(q, k)
  <2>. DEFINE r == Delete(q, k)
  <2>0. k \in Nat /\ k < Len(q)
    BY <1>3 DEF InRange
  <2>3. r \in Seq(S) /\ Len(r) = Len(q) - 1
    BY <1>3, DeleteAt
  <2>4. \A i \in 1..Len(r) :
          \/ i <= k /\ r[i] = q[i]
          \/ i > k /\ r[i] = q[i + 1]
    BY <1>3, DeleteAt
  <2>. HIDE DEF r
  <2>6. Elements(r) \subseteq Elements(q)
    <3>1. ASSUME NEW i \in 1..Len(r) PROVE \E j \in 1..Len(q) : r[i] = q[j]
      <4>1. i \in 1..Len(q) /\ i + 1 \in 1..Len(q)
        BY <2>0, <2>3
      <4>. QED BY <4>1, <2>4
    <3>. QED BY <3>1 DEF Elements
  <2>7. ASSUME Distinct(q) PROVE Distinct(r)
    <3>. SUFFICES ASSUME NEW i \in 1..Len(r), NEW j \in 1..Len(r), r[i] = r[j]
                  PROVE  i = j
      BY DEF Distinct
    <3>. DEFINE At(n) == IF n <= k THEN n ELSE n + 1
    <3>1. \A n \in 1..Len(r) : At(n) \in 1..Len(q) /\ r[n] = q[At(n)]
      BY <2>0, <2>3, <2>4
    <3>2. At(i) = At(j)
      BY <2>7, <3>1 DEF Distinct
    <3>. QED BY <2>0, <3>2
  <2>. QED BY <2>3, <2>6, <2>7 DEF r
<1>. QED BY <1>1, <1>2, <1>3

\* What stays is in the order it was
LEMMA DeleteOrder ==
  ASSUME NEW S, NEW q \in Seq(S), NEW k \in Nat
  PROVE  \A m, n \in 1..Len(Delete(q, k)) : m < n =>
           \E u, v \in 1..Len(q) :
             u < v /\ q[u] = Delete(q, k)[m] /\ q[v] = Delete(q, k)[n]
<1>1. CASE InRange(q, k)
  <2>. DEFINE r == Delete(q, k)
  <2>1. /\ Len(r) = Len(q) - 1
        /\ \A i \in 1..Len(r) :
             \/ i <= k /\ r[i] = q[i]
             \/ i > k /\ r[i] = q[i + 1]
    BY <1>1, DeleteAt
  <2>2. Len(q) \in Nat
    OBVIOUS
  <2>. HIDE DEF r
  <2>. SUFFICES ASSUME NEW m \in 1..Len(r), NEW n \in 1..Len(r), m < n
                PROVE  \E u, v \in 1..Len(q) : u < v /\ q[u] = r[m] /\ q[v] = r[n]
    BY DEF r
  <2>. DEFINE u == IF m <= k THEN m ELSE m + 1
              v == IF n <= k THEN n ELSE n + 1
  <2>3. u \in 1..Len(q) /\ v \in 1..Len(q) /\ u < v
    BY <2>1, <2>2
  <2>4. q[u] = r[m] /\ q[v] = r[n]
    BY <2>1, <2>2
  <2>. QED BY <2>3, <2>4
<1>2. CASE ~InRange(q, k)
  <2>1. Delete(q, k) = q
    BY <1>2 DEF Delete
  <2>. QED BY <2>1
<1>. QED BY <1>1, <1>2

\* A pop takes an element out of a queue that is not empty; the others stay
LEMMA PopFrontLemma ==
  ASSUME NEW S, NEW q \in Seq(S), NULL \notin S
  PROVE  /\ WithoutFront(q) \in Seq(S)
         /\ FrontOf(q) \in S \cup {NULL}
         /\ FrontOf(q) \in S => FrontOf(q) \in Elements(q)
         /\ Len(q) > 0 => FrontOf(q) \in S
         /\ Elements(WithoutFront(q)) \subseteq Elements(q)
         /\ Elements(q) \subseteq Elements(WithoutFront(q)) \cup {FrontOf(q)}
         /\ Distinct(q) => /\ Distinct(WithoutFront(q))
                           /\ FrontOf(q) \notin Elements(WithoutFront(q))
<1>1. CASE q = <<>>
  BY <1>1 DEF WithoutFront, FrontOf, Elements, Distinct
<1>2. CASE q # <<>>
  <2>. DEFINE r == WithoutFront(q)
  <2>1. Len(q) > 0 /\ FrontOf(q) = q[1]
    BY <1>2 DEF FrontOf
  <2>2. r \in Seq(S) /\ Len(r) = Len(q) - 1 /\ \A i \in 1..Len(r) : r[i] = q[i + 1]
    <3>1. r = Tail(q)
      BY <1>2, TailIsSubSeq DEF WithoutFront
    <3>. HIDE DEF r
    <3>. QED BY <1>2, <3>1, HeadTailProperties
  <2>. HIDE DEF r
  <2>3. Elements(r) \subseteq Elements(q)
    BY <2>2 DEF Elements
  <2>4. Distinct(q) => Distinct(r) /\ q[1] \notin Elements(r)
    BY <2>1, <2>2 DEF Distinct, Elements
  <2>5. q[1] \in S /\ q[1] \in Elements(q)
    BY <2>1 DEF Elements
  <2>6. Elements(q) \subseteq Elements(r) \cup {q[1]}
    <3>1. ASSUME NEW i \in 1..Len(q), i # 1 PROVE \E j \in 1..Len(r) : q[i] = r[j]
      <4>1. i - 1 \in 1..Len(r) /\ (i - 1) + 1 = i
        BY <3>1, <2>1, <2>2
      <4>2. r[i - 1] = q[i]
        BY <4>1, <2>2
      <4>. QED BY <4>1, <4>2
    <3>. QED BY <3>1 DEF Elements
  <2>. QED BY <2>1, <2>2, <2>3, <2>4, <2>5, <2>6 DEF r
<1>. QED BY <1>1, <1>2

LEMMA PopBackLemma ==
  ASSUME NEW S, NEW q \in Seq(S), NULL \notin S
  PROVE  /\ WithoutBack(q) \in Seq(S)
         /\ BackOf(q) \in S \cup {NULL}
         /\ BackOf(q) \in S => BackOf(q) \in Elements(q)
         /\ Len(q) > 0 => BackOf(q) \in S
         /\ Elements(WithoutBack(q)) \subseteq Elements(q)
         /\ Distinct(q) => /\ Distinct(WithoutBack(q))
                           /\ BackOf(q) \notin Elements(WithoutBack(q))
<1>1. CASE q = <<>>
  BY <1>1 DEF WithoutBack, BackOf, Elements, Distinct
<1>2. CASE q # <<>>
  <2>. DEFINE r == WithoutBack(q)
  <2>1. Len(q) > 0 /\ BackOf(q) = q[Len(q)]
    BY <1>2 DEF BackOf
  <2>2. r \in Seq(S) /\ Len(r) = Len(q) - 1 /\ \A i \in 1..Len(r) : r[i] = q[i]
    <3>. DEFINE n == Len(q) - 1
    <3>1. n \in Nat /\ n < Len(q)
      BY <2>1
    <3>2. r = SubSeq(q, 1, n)
      BY <1>2 DEF WithoutBack
    <3>. HIDE DEF r, n
    <3>3. r \in Seq(S) /\ Len(r) = n /\ \A i \in 1..n : r[i] = q[i]
      BY <3>1, <3>2
    <3>. QED BY <3>3 DEF n
  <2>. HIDE DEF r
  <2>3. Elements(r) \subseteq Elements(q)
    BY <2>2 DEF Elements
  <2>4. Distinct(q) => Distinct(r) /\ q[Len(q)] \notin Elements(r)
    BY <2>1, <2>2 DEF Distinct, Elements
  <2>5. q[Len(q)] \in S /\ q[Len(q)] \in Elements(q)
    BY <2>1 DEF Elements
  <2>. QED BY <2>1, <2>2, <2>3, <2>4, <2>5 DEF r
<1>. QED BY <1>1, <1>2

\* Sorting permutes the queue and puts an element of the smallest prio first
LEMMA SortLemma ==
  ASSUME NEW S, NEW prio \in [S -> Int], NEW q \in Seq(S), NEW s \in Sorts(q, prio)
  PROVE  /\ s \in Seq(S) /\ Len(s) = Len(q)
         /\ Elements(s) = Elements(q)
         /\ Distinct(q) => Distinct(s)
         /\ Len(q) > 0 => \A x \in Elements(q) : prio[s[1]] <= prio[x]
<1>1. PICK f \in Bijection(1..Len(q), 1..Len(q)) :
        /\ \A i, j \in 1..Len(q) : i < j => prio[q[f[i]]] <= prio[q[f[j]]]
        /\ s = [i \in 1..Len(q) |-> q[f[i]]]
  BY DEF Sorts
<1>2. /\ f \in [1..Len(q) -> 1..Len(q)]
      /\ \A i, j \in 1..Len(q) : f[i] = f[j] => i = j
      /\ \A j \in 1..Len(q) : \E i \in 1..Len(q) : f[i] = j
  <2>1. f \in Injection(1..Len(q), 1..Len(q)) /\ f \in Surjection(1..Len(q), 1..Len(q))
    BY Zenon DEF Bijection
  <2>2. f \in [1..Len(q) -> 1..Len(q)] /\ IsInjective(f)
    BY <2>1, Zenon DEF Injection
  <2>3. \A i, j \in 1..Len(q) : f[i] = f[j] => i = j
    <3>1. DOMAIN f = 1..Len(q)
      BY <2>2, Zenon
    <3>. QED BY <2>2, <3>1, Zenon DEF IsInjective
  <2>4. \A j \in 1..Len(q) : \E i \in 1..Len(q) : f[i] = j
    BY <2>1, Zenon DEF Surjection
  <2>. QED BY <2>2, <2>3, <2>4
<1>3. \A i \in 1..Len(q) : f[i] \in 1..Len(q) /\ s[i] = q[f[i]] /\ q[f[i]] \in S
  <2>. SUFFICES ASSUME NEW i \in 1..Len(q)
                PROVE  f[i] \in 1..Len(q) /\ s[i] = q[f[i]] /\ q[f[i]] \in S
    OBVIOUS
  <2>1. f[i] \in 1..Len(q)
    BY <1>2, Zenon
  <2>2. s[i] = q[f[i]]
    BY <1>1, Zenon
  <2>. QED BY <2>1, <2>2
<1>4. s \in Seq(S) /\ Len(s) = Len(q)
  BY <1>1, <1>3
<1>5. Elements(s) = Elements(q)
  <2>1. Elements(s) \subseteq Elements(q)
    BY <1>3, <1>4 DEF Elements
  <2>2. ASSUME NEW j \in 1..Len(q) PROVE q[j] \in Elements(s)
    <3>1. PICK i \in 1..Len(q) : f[i] = j
      BY <1>2
    <3>. QED BY <3>1, <1>3, <1>4 DEF Elements
  <2>. QED BY <2>1, <2>2 DEF Elements
<1>6. Distinct(q) => Distinct(s)
  <2>. SUFFICES ASSUME Distinct(q), NEW i \in 1..Len(q), NEW j \in 1..Len(q), s[i] = s[j]
                PROVE  i = j
    BY <1>4 DEF Distinct
  <2>1. f[i] \in 1..Len(q) /\ f[j] \in 1..Len(q)
    BY <1>3
  <2>2. q[f[i]] = q[f[j]]
    BY <1>3
  <2>3. f[i] = f[j]
    BY <2>1, <2>2, Zenon DEF Distinct
  <2>. QED BY <1>2, <2>3, Zenon
<1>7. ASSUME Len(q) > 0, NEW x \in Elements(s) PROVE prio[s[1]] <= prio[x]
  <2>1. 1 \in 1..Len(q) /\ s[1] \in S /\ prio[s[1]] \in Int
    BY <1>3, <1>7
  <2>2. PICK i \in 1..Len(q) : x = s[i]
    BY <1>4 DEF Elements
  <2>3. CASE i = 1
    BY <2>1, <2>2, <2>3
  <2>4. CASE i > 1
    BY <1>1, <1>3, <2>1, <2>2, <2>4
  <2>. QED BY <2>3, <2>4
<1>. QED BY <1>4, <1>5, <1>6, <1>7
=============================================================================
