-------------------------- MODULE ScoreboardProofs --------------------------
(***************************************************************************)
(* Proofs about the scoreboard: its types, that a design that hands every  *)
(* burst on unchanged is not reported unless a watcher dropped an item,    *)
(* and that the count in a parent is the number of its checked beats.      *)
(*                                                                         *)
(* The loop over the beats of a burst is a recursive function; the lemmas  *)
(* on it, and the induction over the beats, come from the fact that a set  *)
(* of naturals that is not empty has a least element.                      *)
(***************************************************************************)
EXTENDS Scoreboard, QueueOpsProofs, FiniteSetTheorems, WellFoundedInduction, TLAPS

-----------------------------------------------------------------------------
(***************************************************************************)
(* Induction                                                               *)
(***************************************************************************)
\* A set of naturals that is not empty has a least element.
LEMMA LeastNatural ==
  ASSUME NEW T \in SUBSET Nat, T # {}
  PROVE  \E m \in T : \A n \in T : m <= n
<1>1. PICK m \in T : \A n \in T : <<n, m>> \notin OpToRel(<, Nat)
  BY NatLessThanWellFounded, WFMin
<1>2. ASSUME NEW n \in T PROVE m <= n
  <2>1. <<n, m>> \notin OpToRel(<, Nat)
    BY <1>1
  <2>2. ~(n < m)
    BY <2>1 DEF OpToRel
  <2> QED
    BY <2>2
<1> QED
  BY <1>2

\* What the loop over the beats changes
State == [checked : SUBSET Atom, num : [Trx -> Nat], error : BOOLEAN]
Start == [checked |-> checked, num |-> check_num, error |-> FALSE]

\* A value computed by a loop of L turns, each applying F of its turn.
LEMMA LoopDefined ==
  ASSUME NEW s0 \in State, NEW L \in Nat, NEW F \in [1..L -> [State -> State]]
  PROVE  \E g \in [0..L -> State] : g[0] = s0 /\ \A n \in 1..L : g[n] = F[n][g[n - 1]]
<1> DEFINE Loop(m, g) == g[0] = s0 /\ \A n \in 1..m : g[n] = F[n][g[n - 1]]
           T == {m \in 0..L : ~ \E g \in [0..m -> State] : Loop(m, g)}
<1>1. SUFFICES ASSUME T # {} PROVE FALSE
  <2>1. L \in 0..L /\ (L \notin T => \E g \in [0..L -> State] : Loop(L, g))
    OBVIOUS
  <2> QED
    BY <2>1 DEF T
<1>2. PICK m \in T : \A n \in T : m <= n
  <2>1. T \in SUBSET Nat
    BY DEF T
  <2> HIDE DEF T
  <2> QED
    BY <1>1, <2>1, LeastNatural
<1>3. m \in 0..L /\ ~ \E g \in [0..m -> State] : Loop(m, g)
  BY <1>2
<1>4. CASE m = 0
  <2> DEFINE g == [n \in 0..0 |-> s0]
  <2>1. g \in [0..m -> State] /\ Loop(m, g)
    BY <1>4
  <2> QED
    BY <2>1, <1>3
<1>5. CASE m # 0
  <2>1. m - 1 \in 0..L /\ m - 1 \notin T
    <3>1. m \in Int /\ m - 1 \in 0..L
      BY <1>3, <1>5
    <3> HIDE DEF T
    <3> QED
      BY <1>2, <3>1
  <2>2. PICK h \in [0..(m - 1) -> State] : Loop(m - 1, h)
    BY <2>1
  <2> DEFINE g == [n \in 0..m |-> IF n = m THEN F[m][h[m - 1]] ELSE h[n]]
  <2>3. F[m][h[m - 1]] \in State
    BY <1>3, <1>5
  <2>4. g \in [0..m -> State]
    <3>1. \A n \in 0..m : n # m => n \in 0..(m - 1)
      BY <1>3
    <3>2. \A n \in 0..m : n # m => h[n] \in State
      BY <2>2, <3>1
    <3> HIDE DEF T, Loop
    <3> QED
      BY <2>3, <3>2
  <2>5. Loop(m, g)
    BY <1>3, <1>5, <2>2
  <2> QED
    BY <2>4, <2>5, <1>3
<1> QED
  BY <1>4, <1>5

\* A finite set of naturals can be written as an ascending sequence.
LEMMA AscendingLemma ==
  ASSUME NEW S \in SUBSET Nat, IsFiniteSet(S)
  PROVE  /\ Cardinality(S) \in Nat
         /\ Ascending(S) \in [1..Cardinality(S) -> S]
         /\ \A i, j \in 1..Cardinality(S) : i < j => Ascending(S)[i] < Ascending(S)[j]
<1> DEFINE Is(U, s) == /\ s \in [1..Cardinality(U) -> U]
                       /\ \A i, j \in DOMAIN s : i < j => s[i] < s[j]
           T == {Cardinality(U) : U \in {V \in SUBSET S : ~ \E s : Is(V, s)}}
<1>1. \A U \in SUBSET S : IsFiniteSet(U) /\ Cardinality(U) \in Nat
  BY FS_Subset, FS_CardinalityType
<1>2. T = {}
  <2>1. SUFFICES ASSUME T # {} PROVE FALSE
    OBVIOUS
  <2>2. PICK m \in T : \A n \in T : m <= n
    <3>1. T \in SUBSET Nat
      BY <1>1
    <3> HIDE DEF T
    <3> QED
      BY <2>1, <3>1, LeastNatural
  <2>3. PICK U \in SUBSET S : m = Cardinality(U) /\ ~ \E s : Is(U, s)
    OBVIOUS
  <2>4. CASE U = {}
    <3>1. Cardinality(U) = 0
      BY <2>4, FS_EmptySet
    <3>2. Is(U, [i \in 1..0 |-> 0])
      BY <3>1, <2>4
    <3> QED
      BY <3>2, <2>3
  <2>5. CASE U # {}
    <3>1. PICK x \in U : \A y \in U : x <= y
      BY <2>5, LeastNatural
    <3> DEFINE V == U \ {x}
    <3>2. Cardinality(V) = m - 1 /\ m \in Nat /\ m # 0
      BY <1>1, <2>3, <3>1, FS_RemoveElement, FS_EmptySet
    <3>3. V \in SUBSET S /\ Cardinality(V) \notin T
      BY <2>2, <3>2
    <3>4. PICK s : Is(V, s)
      BY <3>3
    <3> DEFINE r == [i \in 1..m |-> IF i = 1 THEN x ELSE s[i - 1]]
    <3>5. \A i \in 1..m : i # 1 => i - 1 \in DOMAIN s /\ s[i - 1] \in V
      <4>1. s \in [1..Cardinality(V) -> V]
        BY <3>4
      <4> HIDE DEF V, r
      <4>2. s \in [1..(m - 1) -> V]
        BY <3>2, <4>1
      <4> QED
        BY <3>2, <4>2
    <3>6. r \in [1..m -> U]
      BY <3>5
    <3>7. ASSUME NEW i \in 1..m, NEW j \in 1..m, i < j PROVE r[i] < r[j]
      <4>1. CASE i = 1
        <5>1. s[j - 1] \in U /\ s[j - 1] # x
          BY <3>5, <3>7, <4>1
        <5>2. x <= s[j - 1] /\ x \in Nat /\ s[j - 1] \in Nat
          BY <3>1, <5>1
        <5> QED
          BY <5>1, <5>2, <4>1, <3>7
      <4>2. CASE i # 1
        <5>1. i - 1 \in DOMAIN s /\ j - 1 \in DOMAIN s /\ i - 1 < j - 1
          BY <3>5, <3>7, <4>2
        <5>2. s[i - 1] < s[j - 1]
          BY <5>1, <3>4
        <5> QED
          BY <5>2, <4>2, <3>7
      <4> QED
        BY <4>1, <4>2
    <3>8. Is(U, r)
      <4>1. DOMAIN r = 1..m
        OBVIOUS
      <4> HIDE DEF r
      <4> QED
        BY <2>3, <3>6, <3>7, <4>1
    <3> QED
      BY <3>8, <2>3
  <2> QED
    BY <2>4, <2>5
<1>3. \E s : Is(S, s)
  BY <1>2
<1>4. Is(S, Ascending(S))
  BY <1>3 DEF Ascending
<1> QED
  BY <1>1, <1>4

-----------------------------------------------------------------------------
(***************************************************************************)
(* Types                                                                   *)
(***************************************************************************)
\* A function from 1..n is a sequence of length n.
LEMMA FunctionIsSeq ==
  ASSUME NEW S, NEW n \in Nat, NEW f \in [1..n -> S]
  PROVE  f \in Seq(S) /\ Len(f) = n /\ DOMAIN f = 1..n
OBVIOUS

\* A sequence of length 1 is its only element.
LEMMA SingleSeq ==
  ASSUME NEW S, NEW s \in Seq(S), Len(s) = 1
  PROVE  s = << s[1] >>
<1>1. << s[1] >> \in Seq(S) /\ Len(<< s[1] >>) = 1 /\ << s[1] >>[1] = s[1]
  OBVIOUS
<1> QED
  BY <1>1, SeqEqual

\* An atomic item is a beat of a transfer.
LEMMA AtomLemma ==
  /\ \A t \in Trx : Len(Beats[t]) \in Nat \ {0}
  /\ \A t \in Trx, n \in Nat : n \in 1..Len(Beats[t]) =>
       <<t, n>> \in AtomSet[t] /\ AddrOf(<<t, n>>) \in Addr
  /\ \A t \in Trx : AtomSet[t] \subseteq Atom /\ Atoms[t] \in Seq(AtomSet[t])
                    /\ Len(Atoms[t]) = Len(Beats[t])
                    /\ \A n \in 1..Len(Beats[t]) : Atoms[t][n] = <<t, n>>
  /\ \A t \in Trx : \A x \in AtomSet[t] : x[1] = t
  /\ \A x \in Atom : /\ x[1] \in Trx /\ x \in AtomSet[x[1]]
                     /\ x[2] \in 1..Len(Beats[x[1]])
                     /\ x = <<x[1], x[2]>>
                     /\ AddrOf(x) \in Addr
<1>1. \A t \in Trx : Beats[t] \in Seq(Addr) /\ Len(Beats[t]) \in Nat \ {0}
  BY TrxAssumption
<1>2. \A t \in Trx : \A n \in 1..Len(Beats[t]) : Beats[t][n] \in Addr
  BY <1>1
<1>3. \A t \in Trx : AtomSet[t] = {<<t, n>> : n \in 1..Len(Beats[t])}
  BY <1>1 DEF AtomSet, Atoms, Range
<1>4. \A t \in Trx : Atoms[t] = [n \in 1..Len(Beats[t]) |-> <<t, n>>]
  BY DEF Atoms
<1>5. \A t \in Trx : /\ Atoms[t] \in Seq(AtomSet[t])
                     /\ Len(Atoms[t]) = Len(Beats[t])
                     /\ \A n \in 1..Len(Beats[t]) : Atoms[t][n] = <<t, n>>
  <2> TAKE t \in Trx
  <2>1. Atoms[t] \in [1..Len(Beats[t]) -> AtomSet[t]]
    BY <1>3, <1>4
  <2>2. \A n \in 1..Len(Beats[t]) : Atoms[t][n] = <<t, n>>
    BY <1>4
  <2>3. Len(Beats[t]) \in Nat
    BY <1>1
  <2> QED
    BY <2>1, <2>2, <2>3, FunctionIsSeq
<1>6. \A x \in Atom : \E t \in Trx : \E n \in 1..Len(Beats[t]) : x = <<t, n>>
  BY <1>3 DEF Atom
<1>7. \A t \in Trx : AtomSet[t] \subseteq Atom
  BY DEF Atom
<1>8. \A x \in Atom : /\ x[1] \in Trx /\ x \in AtomSet[x[1]]
                      /\ x[2] \in 1..Len(Beats[x[1]])
                      /\ x = <<x[1], x[2]>>
                      /\ AddrOf(x) \in Addr
  BY <1>2, <1>3, <1>6 DEF AddrOf
<1> QED
  BY <1>1, <1>2, <1>3, <1>5, <1>7, <1>8 DEF AddrOf

\* The beats of a transfer at an address; one at most, if it visits none twice.
LEMMA VisitsLemma ==
  ASSUME NEW t \in Trx, NEW a \in Addr
  PROVE  /\ Visits(t, a) \in Seq({x \in AtomSet[t] : AddrOf(x) = a})
         /\ Visits(t, a) \in Seq(Atom)
         /\ IsInjective(Beats[t]) =>
              \A n \in 1..Len(Beats[t]) :
                Beats[t][n] = a => Visits(t, a) = << <<t, n>> >>
         /\ a \notin Range(Beats[t]) => Visits(t, a) = <<>>
<1> DEFINE N == {n \in 1..Len(Beats[t]) : Beats[t][n] = a}
           c == Cardinality(N)
           A == {x \in AtomSet[t] : AddrOf(x) = a}
<1>1. N \in SUBSET Nat /\ IsFiniteSet(N)
  <2>1. Len(Beats[t]) \in Nat
    BY AtomLemma
  <2>2. IsFiniteSet(1..Len(Beats[t])) /\ N \in SUBSET (1..Len(Beats[t]))
    BY <2>1, FS_Interval
  <2> QED
    BY <2>1, <2>2, FS_Subset
<1>2. c \in Nat /\ Ascending(N) \in [1..c -> N]
  BY <1>1, AscendingLemma
<1>3. Visits(t, a) = [i \in 1..c |-> <<t, Ascending(N)[i]>>]
  BY <1>2 DEF Visits
<1>4. \A i \in 1..c : <<t, Ascending(N)[i]>> \in A
  <2> TAKE i \in 1..c
  <2>1. PICK n \in 1..Len(Beats[t]) : n = Ascending(N)[i] /\ Beats[t][n] = a
    BY <1>2
  <2>2. <<t, n>> \in AtomSet[t]
    BY AtomLemma
  <2>3. AddrOf(<<t, n>>) = a
    BY <2>1 DEF AddrOf
  <2> QED
    BY <2>1, <2>2, <2>3
<1>5. Visits(t, a) \in Seq(A) /\ Visits(t, a) \in Seq(Atom) /\ Len(Visits(t, a)) = c
  <2>1. A \subseteq Atom
    BY AtomLemma
  <2> HIDE DEF A, N, c
  <2>2. Visits(t, a) \in [1..c -> A] /\ Visits(t, a) \in [1..c -> Atom]
    BY <1>3, <1>4, <2>1
  <2> QED
    BY <1>2, <2>2, FunctionIsSeq
<1>6. ASSUME IsInjective(Beats[t]), NEW n \in 1..Len(Beats[t]), Beats[t][n] = a
      PROVE  Visits(t, a) = << <<t, n>> >>
  <2>1. Beats[t] \in Seq(Addr)
    BY TrxAssumption
  <2>2. N = {n}
    BY <1>6, <2>1 DEF IsInjective
  <2>3. c = 1 /\ Ascending(N) \in [1..1 -> {n}]
    BY <2>2, <1>2, FS_Singleton
  <2>4. Len(Visits(t, a)) = 1 /\ Visits(t, a)[1] = <<t, n>>
    <3>1. 1 \in 1..c /\ Ascending(N)[1] = n
      BY <2>3
    <3> HIDE DEF N, c
    <3> QED
      BY <2>3, <1>3, <1>5, <3>1
  <2>5. Visits(t, a) = << Visits(t, a)[1] >>
    <3>1. Visits(t, a) \in Seq(Atom)
      BY <1>5
    <3> QED
      BY <2>4, <3>1, SingleSeq
  <2> QED
    BY <2>4, <2>5
<1>7. ASSUME a \notin Range(Beats[t]) PROVE Visits(t, a) = <<>>
  <2>1. Beats[t] \in Seq(Addr)
    BY TrxAssumption
  <2>2. N = {}
    BY <1>7, <2>1 DEF Range
  <2>3. c = 0
    BY <2>2, FS_EmptySet
  <2> HIDE DEF N, c
  <2> QED
    BY <2>3, <1>5
<1> QED
  BY <1>5, <1>6, <1>7

\* What nocheck_scb_get returns: an item of the queue or null, and the first one
\* that is to be checked.
LEMMA NocheckLemma ==
  ASSUME NEW q \in Seq(Atom), NEW chk, NEW num
  PROVE  /\ NocheckScbGet(q, chk, num) \in Elements(q) \cup {NULL}
         /\ NocheckScbGet(q, chk, num) # NULL =>
              \/ NocheckScbGet(q, chk, num) \notin chk
              \/ ~AllChecked(num, NocheckScbGet(q, chk, num)[1])
         /\ \A p \in 1..Len(q) :
              /\ q[p] \notin chk
              /\ \A n \in 1..Len(q) :
                   q[n] \notin chk \/ ~AllChecked(num, q[n][1]) => p <= n
              => NocheckScbGet(q, chk, num) = q[p]
<1> DEFINE Found == {n \in 1..Len(q) : q[n] \notin chk \/ ~AllChecked(num, q[n][1])}
<1>1. NocheckScbGet(q, chk, num) = IF Found = {} THEN NULL ELSE q[Min(Found)]
  BY DEF NocheckScbGet
<1>2. Found # {} => Min(Found) \in Found /\ \A n \in Found : Min(Found) <= n
  <2>1. Found \in SUBSET Nat
    OBVIOUS
  <2> HIDE DEF Found
  <2> QED
    BY <2>1, LeastNatural DEF Min
<1>3. ASSUME NEW p \in Found, \A n \in Found : p <= n
      PROVE  Min(Found) = p
  BY <1>2, <1>3
<1> QED
  BY <1>1, <1>2, <1>3 DEF Elements

\* One turn of the loop keeps the types.
LEMMA CheckBeatLemma ==
  ASSUME NEW k \in Kinds, NEW a \in Addr, pool[k][a] \in Seq(Atom), NEW data,
         NEW st \in State
  PROVE  CheckBeat(st, k, a, data) \in State
<1> DEFINE it == NocheckScbGet(pool[k][a], st.checked, st.num)
<1>1. CASE it = NULL
  BY <1>1 DEF CheckBeat
<1>2. CASE it # NULL
  <2>1. it \in Atom /\ it[1] \in Trx
    <3>1. it \in Elements(pool[k][a]) \cup {NULL}
      BY NocheckLemma
    <3> HIDE DEF it
    <3> QED
      BY <1>2, <3>1, AtomLemma DEF Elements
  <2>2. CheckBeat(st, k, a, data) =
          [checked |-> st.checked \cup {it},
           num |-> [st.num EXCEPT ![it[1]] = @ + 1],
           error |-> st.error \/ ~Compare(k, it, data)]
    BY <1>2 DEF CheckBeat
  <2> HIDE DEF it
  <2>3. (st.error \/ ~Compare(k, it, data)) \in BOOLEAN
    BY Zenon
  <2>4. st.checked \cup {it} \in SUBSET Atom
    BY <2>1 DEF State
  <2>5. [st.num EXCEPT ![it[1]] = @ + 1] \in [Trx -> Nat]
    BY <2>1 DEF State
  <2> DEFINE c == st.checked \cup {it}
             m == [st.num EXCEPT ![it[1]] = @ + 1]
             e == st.error \/ ~Compare(k, it, data)
  <2>6. c \in SUBSET Atom /\ m \in [Trx -> Nat] /\ e \in BOOLEAN
    BY <2>3, <2>4, <2>5, Zenon
  <2>7. CheckBeat(st, k, a, data) = [checked |-> c, num |-> m, error |-> e]
    BY <2>2, Zenon
  <2> HIDE DEF c, m, e
  <2> QED
    BY <2>6, <2>7 DEF State
<1> QED
  BY <1>1, <1>2

\* The loop over the beats s: the value after every beat.
LEMMA AfterLemma ==
  ASSUME NEW k \in Kinds, \A a \in Addr : pool[k][a] \in Seq(Atom), Start \in State,
         NEW s \in Seq(Atom)
  PROVE  \E g \in [0..Len(s) -> State] :
           /\ g[0] = Start
           /\ \A n \in 1..Len(s) :
                g[n] = CheckBeat(g[n - 1], k, AddrOf(s[n]), DataOf(s[n]))
           /\ After(k, s) = g[Len(s)]
<1> DEFINE L == Len(s)
           F == [n \in 1..L |->
                  [st \in State |-> CheckBeat(st, k, AddrOf(s[n]), DataOf(s[n]))]]
           Eq(h) == h = [n \in 0..L |->
                           IF n = 0
                             THEN Start
                             ELSE CheckBeat(h[n - 1], k, AddrOf(s[n]), DataOf(s[n]))]
           f == CHOOSE h : Eq(h)
<1>1. L \in Nat /\ \A n \in 1..L : s[n] \in Atom /\ AddrOf(s[n]) \in Addr
  BY AtomLemma
<1>2. F \in [1..L -> [State -> State]]
  <2>1. \A n \in 1..L, st \in State :
          CheckBeat(st, k, AddrOf(s[n]), DataOf(s[n])) \in State
    BY <1>1, CheckBeatLemma
  <2> QED
    BY <2>1
<1>3. PICK g \in [0..L -> State] :
        g[0] = Start /\ \A n \in 1..L : g[n] = F[n][g[n - 1]]
  <2>1. L \in Nat
    BY <1>1
  <2> HIDE DEF F, L
  <2>2. Start \in State
    OBVIOUS
  <2> QED
    BY <2>1, <2>2, <1>2, LoopDefined
<1>4. \A n \in 1..L : g[n] = CheckBeat(g[n - 1], k, AddrOf(s[n]), DataOf(s[n]))
  <2> TAKE n \in 1..L
  <2>1. g[n - 1] \in State
    BY <1>1, <1>3
  <2> QED
    BY <1>3, <2>1
<1>5. Eq(g)
  <2>1. \A n \in 0..L : g[n] = IF n = 0 THEN Start
                               ELSE CheckBeat(g[n - 1], k, AddrOf(s[n]), DataOf(s[n]))
    BY <1>1, <1>3, <1>4
  <2> QED
    BY <1>3, <2>1
<1>6. Eq(f)
  BY <1>5
<1>7. f[0] = Start /\ \A n \in 1..L : f[n] = CheckBeat(f[n - 1], k, AddrOf(s[n]), DataOf(s[n]))
  <2> HIDE DEF f
  <2> QED
    BY <1>1, <1>6
<1>8. \A n \in 0..L : f[n] = g[n]
  <2> DEFINE T == {n \in 0..L : f[n] # g[n]}
  <2>1. SUFFICES ASSUME T # {} PROVE FALSE
    OBVIOUS
  <2> HIDE DEF f
  <2>2. PICK m \in T : \A n \in T : m <= n
    <3>1. T \in SUBSET Nat
      BY <1>1
    <3> HIDE DEF T
    <3> QED
      BY <2>1, <3>1, LeastNatural
  <2>3. m \in 1..L
    BY <1>3, <1>7, <1>1
  <2>4. f[m - 1] = g[m - 1]
    BY <2>2, <2>3, <1>1
  <2> QED
    BY <1>4, <1>7, <2>3, <2>4
<1>9. After(k, s) = f[L]
  BY DEF After, Start
<1> HIDE DEF f
<1> QED
  BY <1>1, <1>3, <1>4, <1>8, <1>9

\* A check keeps the types of what the loop changes.
LEMMA CheckTypes ==
  ASSUME TypeOK, NEW t \in Trx, NEW s \in Seq(Atom), Check(t, s)
  PROVE  /\ checked' \subseteq Atom /\ check_num' \in [Trx -> Nat]
         /\ comp_error' \subseteq Trx /\ reported' \subseteq Trx
         /\ box' \in [Kinds -> Seq(Trx)]
<1>1. Kind[t] \in Kinds
  BY TrxAssumption
<1>2. Start \in State
  BY Zenon DEF TypeOK, Start, State
<1>3. After(Kind[t], s) \in State
  <2>1. \A a \in Addr : pool[Kind[t]][a] \in Seq(Atom)
    BY <1>1 DEF TypeOK
  <2>2. Len(s) \in 0..Len(s)
    OBVIOUS
  <2>3. PICK g \in [0..Len(s) -> State] : After(Kind[t], s) = g[Len(s)]
    BY <1>1, <1>2, <2>1, AfterLemma
  <2> QED
    BY <2>2, <2>3
<1>4. checked' \subseteq Atom /\ check_num' \in [Trx -> Nat]
  BY <1>3 DEF Check, State
<1>5. comp_error' \subseteq Trx /\ reported' \subseteq Trx
  <2>1. comp_error' = comp_error \cup {t} \/ comp_error' = comp_error
    BY DEF Check
  <2> QED
    BY <2>1 DEF Check, TypeOK
<1>6. box' \in [Kinds -> Seq(Trx)]
  <2>1. Append(box[Kind[t]], t) \in Seq(Trx)
    BY <1>1 DEF TypeOK
  <2> QED
    BY <1>1, <2>1 DEF Check, TypeOK
<1> QED
  BY <1>4, <1>5, <1>6

\* The queue a watcher is at is a queue of the pool.
LEMMA QueueType ==
  ASSUME TypeOK, NEW k \in Kinds, cursor[k].i <= Len(taddr[k])
  PROVE  taddr[k][cursor[k].i] \in Addr /\ Queue(k) \in Seq(Atom)
<1>1. taddr[k] \in Seq(Addr) /\ cursor[k].i \in Nat \ {0} /\ pool[k] \in [Addr -> Seq(Atom)]
  BY DEF TypeOK
<1>2. taddr[k][cursor[k].i] \in Addr
  BY <1>1
<1> QED
  BY <1>1, <1>2 DEF Queue

\* Every variable has its type, initially and after every step.
LEMMA TypeInit == Init => TypeOK
<1> SUFFICES ASSUME Init PROVE TypeOK
  OBVIOUS
<1>1. life \in [Atom -> -1..LifeTime] /\ resets \in 0..MaxResets
  BY BoundAssumption DEF Init
<1> QED
  BY <1>1 DEF Init, Idle, TypeOK

LEMMA TypeStep == TypeOK /\ [Next]_vars => TypeOK'
<1> SUFFICES ASSUME TypeOK, [Next]_vars PROVE TypeOK'
  OBVIOUS
<1>1. ASSUME NEW t \in Trx, Put(t) PROVE TypeOK'
  <2>1. Kind[t] \in Kinds /\ Range(Beats[t]) \subseteq Addr
    BY TrxAssumption DEF Range
  <2>2. \A a \in Addr : Visits(t, a) \in Seq(Atom)
    BY VisitsLemma
  <2>3. \A a \in Addr : /\ out[Kind[t]][a] \o Visits(t, a) \in Seq(Atom)
                        /\ pool[Kind[t]][a] \o Visits(t, a) \in Seq(Atom)
    BY <2>1, <2>2 DEF TypeOK
  <2>4. pool' \in [Kinds -> [Addr -> Seq(Atom)]]
    BY <1>1, <2>1, <2>3 DEF Put, TypeOK
  <2>5. out' \in [Kinds -> [Addr -> Seq(Atom)]]
    BY <1>1, <2>1, <2>3 DEF Put, Enter, TypeOK
  <2>6. known' \in [Kinds -> SUBSET Addr]
    BY <1>1, <2>1 DEF Put, TypeOK
  <2> QED
    BY <1>1, <2>4, <2>5, <2>6 DEF Put, TypeOK, verdicts, watchVars
<1>2. ASSUME NEW t \in Trx, Report(t) PROVE TypeOK'
  <2>1. Kind[t] \in Kinds
    BY TrxAssumption
  <2>2. Atoms[t] \in Seq(Atom) /\ Check(t, Atoms[t])
    BY <1>2, AtomLemma, SeqMonotonic DEF Report
  <2>3. \A a \in Addr : SubSeq(out[Kind[t]][a], Len(Visits(t, a)) + 1, Len(out[Kind[t]][a]))
                          \in Seq(Atom)
    <3> TAKE a \in Addr
    <3>1. out[Kind[t]][a] \in Seq(Atom)
      BY <2>1 DEF TypeOK
    <3>2. Visits(t, a) \in Seq(Atom)
      BY VisitsLemma
    <3> QED
      BY <3>1, <3>2
  <2>4. out' \in [Kinds -> [Addr -> Seq(Atom)]]
    BY <1>2, <2>1, <2>3 DEF Report, TypeOK
  <2> QED
    BY <2>2, <2>4, CheckTypes DEF Check, TypeOK, watchVars
<1>3. ASSUME NEW t \in Trx, ReportPart(t) PROVE TypeOK'
  <2>1. PICK x \in AtomSet[t] :
          /\ Oldest(out[Kind[t]][AddrOf(x)], <<x>>)
          /\ out' = [out EXCEPT ![Kind[t]][AddrOf(x)] = Tail(@)]
          /\ Check(t, <<x>>)
    BY <1>3 DEF ReportPart
  <2>2. Kind[t] \in Kinds /\ x \in Atom /\ AddrOf(x) \in Addr /\ <<x>> \in Seq(Atom)
    BY TrxAssumption, AtomLemma
  <2>3. Tail(out[Kind[t]][AddrOf(x)]) \in Seq(Atom)
    <3>1. out[Kind[t]][AddrOf(x)] \in Seq(Atom)
      BY <2>2 DEF TypeOK
    <3>2. out[Kind[t]][AddrOf(x)] # <<>>
      BY <2>1 DEF Oldest
    <3> QED
      BY <3>1, <3>2
  <2>4. out' \in [Kinds -> [Addr -> Seq(Atom)]]
    BY <2>1, <2>2, <2>3 DEF TypeOK
  <2> QED
    BY <2>1, <2>2, <2>4, CheckTypes DEF Check, TypeOK, watchVars
<1>4. ASSUME NEW k \in Kinds, BackdoorPop(k) PROVE TypeOK'
  <2>1. WithoutFront(box[k]) \in Seq(Trx)
    BY NullAssumption, PopFrontLemma DEF TypeOK
  <2>2. box' \in [Kinds -> Seq(Trx)]
    BY <1>4, <2>1 DEF BackdoorPop, TypeOK
  <2> QED
    BY <1>4, <2>2 DEF BackdoorPop, TypeOK, verdicts, watchVars
<1>5. ASSUME NEW k \in Kinds, WatchWake(k) PROVE TypeOK'
  <2> DEFINE S == {a \in known[k] : Copies(taddr[k], a) < MaxCopies}
  <2>1. S \in SUBSET Nat /\ IsFiniteSet(S) /\ S \subseteq Addr
    <3>1. S \subseteq Addr
      BY DEF TypeOK
    <3>2. IsFiniteSet(Addr) /\ Addr \subseteq Nat
      BY BoundAssumption, FS_Interval DEF Addr
    <3> HIDE DEF S
    <3> QED
      BY <3>1, <3>2, FS_Subset
  <2> HIDE DEF S
  <2>2. Ascending(S) \in Seq(Addr)
    <3>1. Cardinality(S) \in Nat /\ Ascending(S) \in [1..Cardinality(S) -> Addr]
      BY <2>1, AscendingLemma
    <3> QED
      BY <3>1, FunctionIsSeq
  <2>3. taddr' = [taddr EXCEPT ![k] = @ \o Ascending(S)]
    BY <1>5 DEF WatchWake, S
  <2>4. taddr' \in [Kinds -> Seq(Addr)]
    <3>1. taddr[k] \o Ascending(S) \in Seq(Addr)
      BY <2>2 DEF TypeOK
    <3> QED
      BY <2>3, <3>1 DEF TypeOK
  <2>5. \A l \in Kinds : l # k => taddr'[l] = taddr[l]
    BY <2>3 DEF TypeOK
  <2> QED
    BY <1>5, <2>4, <2>5 DEF WatchWake, TypeOK, verdicts, poolVars
<1>6. ASSUME NEW k \in Kinds, WatchSleep(k) PROVE TypeOK'
  BY <1>6 DEF WatchSleep, TypeOK, verdicts, poolVars
<1>7. ASSUME NEW k \in Kinds, WatchGet(k) PROVE TypeOK'
  <2>1. Get(Queue(k), cursor[k].j) \in Atom
    <3>1. Queue(k) \in Seq(Atom) /\ cursor[k].j \in Nat /\ cursor[k].j < Len(Queue(k))
      BY <1>7, QueueType DEF WatchGet, TypeOK
    <3> QED
      BY <3>1 DEF Get, InRange
  <2>2. Get(Queue(k), cursor[k].j) # NULL
    BY <2>1, NullAssumption
  <2> QED
    BY <1>7, <2>1, <2>2 DEF WatchGet, TypeOK, verdicts, poolVars
<1>8. ASSUME NEW k \in Kinds, WatchLook(k) PROVE TypeOK'
  <2>1. item[k] \in Atom /\ item[k][1] \in Trx
    BY <1>8, AtomLemma DEF WatchLook, TypeOK
  <2>2. dels' \in [Kinds -> Seq(Nat)]
    <3>1. Append(dels[k], cursor[k].j) \in Seq(Nat)
      BY DEF TypeOK
    <3> QED
      BY <1>8, <3>1 DEF WatchLook, TypeOK
  <2>3. life_error' \subseteq Trx
    BY <1>8, <2>1 DEF WatchLook, TypeOK
  <2>4. life' \in [Atom -> -1..LifeTime]
    <3>1. CASE life[item[k]] >= 0
      <4>1. life[item[k]] - 1 \in -1..LifeTime
        BY <2>1, <3>1, BoundAssumption DEF TypeOK
      <4> QED
        BY <1>8, <2>1, <4>1 DEF WatchLook, TypeOK
    <3>2. CASE ~(life[item[k]] >= 0)
      BY <1>8, <3>2 DEF WatchLook, TypeOK
    <3> QED
      BY <3>1, <3>2
  <2>5. cursor' \in [Kinds -> [i : Nat \ {0}, j : Nat]]
    BY <1>8 DEF WatchLook, TypeOK
  <2> QED
    BY <1>8, <2>2, <2>3, <2>4, <2>5 DEF WatchLook, TypeOK, poolVars
<1>9. ASSUME NEW k \in Kinds, WatchDelete(k) PROVE TypeOK'
  <2> DEFINE q == Queue(k)
             left == Delete(q, Head(dels[k]))
  <2>1. cursor[k].i <= Len(taddr[k])
    BY <1>9 DEF WatchDelete, Deleting, TypeOK
  <2>2. q \in Seq(Atom) /\ taddr[k][cursor[k].i] \in Addr
    BY <2>1, QueueType
  <2>3. dels[k] \in Seq(Nat) /\ dels[k] # <<>>
    BY <1>9 DEF WatchDelete, TypeOK
  <2>4. left \in Seq(Atom)
    <3>1. Head(dels[k]) \in Int
      BY <2>3
    <3> QED
      BY <2>2, <3>1, DeleteLemma
  <2>5. pool' \in [Kinds -> [Addr -> Seq(Atom)]]
    BY <1>9, <2>2, <2>4 DEF WatchDelete, TypeOK
  <2>6. dropped' \subseteq Atom
    <3>1. Elements(q) \subseteq Atom
      BY <2>2 DEF Elements
    <3> QED
      BY <1>9, <3>1 DEF WatchDelete, TypeOK
  <2>7. dels' \in [Kinds -> Seq(Nat)]
    BY <1>9, <2>3 DEF WatchDelete, TypeOK
  <2> QED
    BY <1>9, <2>1, <2>5, <2>6, <2>7 DEF WatchDelete, TypeOK
<1>10. ASSUME NEW k \in Kinds, WatchNext(k) PROVE TypeOK'
  <2>1. cursor' \in [Kinds -> [i : Nat \ {0}, j : Nat]]
    BY <1>10 DEF WatchNext, TypeOK
  <2>2. \A l \in Kinds : l # k => cursor'[l] = cursor[l]
    BY <1>10 DEF WatchNext, TypeOK
  <2> QED
    BY <1>10, <2>1, <2>2 DEF WatchNext, TypeOK, verdicts, poolVars
<1>11. ASSUME ResetScoreboard PROVE TypeOK'
  BY <1>11, BoundAssumption DEF ResetScoreboard, TypeOK, verdicts
<1>12. ASSUME UNCHANGED vars PROVE TypeOK'
  BY <1>12 DEF TypeOK, vars, poolVars, verdicts, watchVars
<1> QED
  BY <1>1, <1>2, <1>3, <1>4, <1>5, <1>6, <1>7, <1>8, <1>9, <1>10, <1>11, <1>12
     DEF Next, Deliver, Watch

\* Every variable of the scoreboard keeps its type: no watcher reads an item or a
\* queue that is not there.
THEOREM ScoreboardTypeCorrect == Spec => []TypeOK
  BY TypeInit, TypeStep, PTL DEF Spec

-----------------------------------------------------------------------------
(***************************************************************************)
(* In step                                                                 *)
(***************************************************************************)
(***************************************************************************)
(* The two sides of an address: the queue q of the scoreboard and the      *)
(* beats o inside the design.  What is still to come out is what q holds   *)
(* unchecked, in the same order.                                           *)
(***************************************************************************)
SidesAgree(q, o, chk) ==
  /\ Distinct(q) /\ Distinct(o)
  /\ Elements(o) = Elements(q) \ chk
  /\ \A m, n \in 1..Len(q), i, j \in 1..Len(o) :
       q[m] = o[i] /\ q[n] = o[j] /\ i < j => m < n

\* Items are in the queue of their kind and address, once they have been sent
InPlace(q, k, a) ==
  \A x \in Elements(q) : Kind[x[1]] = k /\ AddrOf(x) = a /\ x[1] \notin unsent

\* No beat of t was checked, or all were
AllOrNone(t, chk, num) ==
  \/ num[t] = 0 /\ AtomSet[t] \cap chk = {}
  \/ num[t] = Len(Beats[t]) /\ AtomSet[t] \subseteq chk /\ t \notin unsent

InStep ==
  /\ \A k \in Kinds, a \in Addr :
       InPlace(pool[k][a], k, a) /\ SidesAgree(pool[k][a], out[k][a], checked)
  /\ \A t \in Trx : AllOrNone(t, checked, check_num)
  /\ comp_error = {}

\* Without bursts the count of a transfer says whether its only beat was checked.
SingleCounted ==
  \A t \in Trx : check_num[t] = IF <<t, 1>> \in checked THEN 1 ELSE 0

IInv == /\ TypeOK
        /\ Whole /\ dropped = {} => InStep
        /\ (\A t \in Trx : Len(Beats[t]) = 1) => SingleCounted

\* A new item goes to the end of both sides.
LEMMA SidesEnter ==
  ASSUME NEW q \in Seq(Atom), NEW o \in Seq(Atom), NEW chk, SidesAgree(q, o, chk),
         NEW x \in Atom, x \notin Elements(q), x \notin chk
  PROVE  SidesAgree(q \o <<x>>, o \o <<x>>, chk)
<1> DEFINE q1 == q \o <<x>>
           o1 == o \o <<x>>
<1>1. /\ Len(q1) = Len(q) + 1 /\ q1[Len(q) + 1] = x /\ \A i \in 1..Len(q) : q1[i] = q[i]
      /\ Len(o1) = Len(o) + 1 /\ o1[Len(o) + 1] = x /\ \A i \in 1..Len(o) : o1[i] = o[i]
  OBVIOUS
<1>2. x \notin Elements(o)
  BY DEF SidesAgree
<1>3. Len(q) \in Nat /\ Len(o) \in Nat
  OBVIOUS
<1> HIDE DEF q1, o1
<1>4. \A i \in 1..Len(q) : q[i] # x
  BY DEF Elements
<1>5. \A i \in 1..Len(o) : o[i] # x
  BY <1>2 DEF Elements
<1>6. Distinct(q1) /\ Distinct(o1)
  BY <1>1, <1>3, <1>4, <1>5 DEF SidesAgree, Distinct
<1>7. Elements(q1) = Elements(q) \cup {x} /\ Elements(o1) = Elements(o) \cup {x}
  BY <1>1, <1>3 DEF Elements
<1>8. Elements(o1) = Elements(q1) \ chk
  BY <1>7 DEF SidesAgree
<1>9. ASSUME NEW m \in 1..Len(q1), NEW n \in 1..Len(q1),
             NEW i \in 1..Len(o1), NEW j \in 1..Len(o1),
             q1[m] = o1[i], q1[n] = o1[j], i < j
      PROVE  m < n
  <2>1. i \in 1..Len(o) /\ o1[i] = o[i] /\ o[i] # x
    BY <1>1, <1>3, <1>5, <1>9
  <2>2. m \in 1..Len(q) /\ q1[m] = q[m]
    BY <1>1, <1>3, <1>9, <2>1
  <2>3. CASE j = Len(o) + 1
    <3>1. n = Len(q) + 1
      BY <1>1, <1>3, <1>4, <1>9, <2>3
    <3> QED
      BY <2>2, <3>1, <1>3
  <2>4. CASE j \in 1..Len(o)
    <3>1. n \in 1..Len(q) /\ q1[n] = q[n] /\ o1[j] = o[j]
      BY <1>1, <1>3, <1>5, <1>9, <2>4
    <3> QED
      BY <1>9, <2>1, <2>2, <2>4, <3>1 DEF SidesAgree
  <2> QED
    BY <1>1, <1>3, <2>3, <2>4
<1> QED
  BY <1>6, <1>8, <1>9 DEF SidesAgree, q1, o1

\* The oldest beat of the design is the first unchecked item of the queue.
LEMMA SidesFirst ==
  ASSUME NEW q \in Seq(Atom), NEW o \in Seq(Atom), NEW chk, SidesAgree(q, o, chk),
         Len(o) >= 1
  PROVE  \E p \in 1..Len(q) : /\ q[p] = o[1] /\ q[p] \notin chk
                              /\ \A n \in 1..Len(q) : q[n] \notin chk => p <= n
<1>1. Len(q) \in Nat /\ Len(o) \in Nat
  OBVIOUS
<1>2. o[1] \in Elements(q) /\ o[1] \notin chk
  BY <1>1 DEF SidesAgree, Elements
<1>3. PICK p \in 1..Len(q) : q[p] = o[1]
  BY <1>2 DEF Elements
<1>4. ASSUME NEW n \in 1..Len(q), q[n] \notin chk PROVE p <= n
  <2>1. q[n] \in Elements(o)
    BY <1>4 DEF SidesAgree, Elements
  <2>2. PICK j \in 1..Len(o) : q[n] = o[j]
    BY <2>1 DEF Elements
  <2>3. CASE j = 1
    BY <1>3, <2>2, <2>3 DEF SidesAgree, Distinct
  <2>4. CASE j > 1
    <3>1. 1 \in 1..Len(o) /\ 1 < j
      BY <1>1, <2>4
    <3>2. p < n
      BY <1>3, <2>2, <3>1 DEF SidesAgree
    <3> QED
      BY <3>2
  <2> QED
    BY <2>3, <2>4
<1> QED
  BY <1>2, <1>3, <1>4

\* The oldest beat comes out and its item is checked.
LEMMA SidesLeave ==
  ASSUME NEW q \in Seq(Atom), NEW o \in Seq(Atom), NEW chk, NEW chk1,
         SidesAgree(q, o, chk), Len(o) >= 1,
         Elements(q) \cap chk1 = Elements(q) \cap (chk \cup {o[1]})
  PROVE  SidesAgree(q, SubSeq(o, 2, Len(o)), chk1)
<1> DEFINE r == SubSeq(o, 2, Len(o))
<1>1. Len(r) = Len(o) - 1 /\ \A i \in 1..Len(r) : r[i] = o[i + 1]
  <2>1. 2 \in Int /\ Len(o) \in Nat /\ \A i \in 2..Len(o) : o[i] \in Atom
    OBVIOUS
  <2>2. /\ r \in Seq(Atom)
        /\ Len(r) = IF 2 <= Len(o) THEN Len(o) - 2 + 1 ELSE 0
        /\ \A i \in 1..(Len(o) - 2 + 1) : r[i] = o[2 + i - 1]
    BY <2>1, SubSeqProperties
  <2> HIDE DEF r
  <2>3. Len(r) = Len(o) - 1
    <3> DEFINE L == Len(o)
    <3>1. L \in Nat /\ L >= 1 /\ Len(r) = IF 2 <= L THEN L - 2 + 1 ELSE 0
      BY <2>1, <2>2
    <3> HIDE DEF L
    <3>2. Len(r) = L - 1
      BY <3>1
    <3> QED
      BY <3>2 DEF L
  <2>4. ASSUME NEW i \in 1..Len(r) PROVE r[i] = o[i + 1]
    <3>1. i \in 1..(Len(o) - 2 + 1) /\ 2 + i - 1 = i + 1
      BY <2>1, <2>3
    <3> QED
      BY <2>2, <3>1
  <2> QED
    BY <2>3, <2>4
<1>2. Len(q) \in Nat /\ Len(o) \in Nat
  OBVIOUS
<1> HIDE DEF r
<1>3. Distinct(r)
  BY <1>1, <1>2 DEF SidesAgree, Distinct
<1>4. Elements(r) = Elements(o) \ {o[1]}
  <2>1. \A i \in 1..Len(o) : i = 1 \/ (i - 1 \in 1..Len(r) /\ o[i] = r[i - 1])
    BY <1>1, <1>2
  <2>2. \A i \in 1..Len(r) : i + 1 \in 1..Len(o) /\ r[i] = o[i + 1] /\ o[i + 1] # o[1]
    BY <1>1, <1>2 DEF SidesAgree, Distinct
  <2>3. \A x \in Elements(r) : x \in Elements(o) \ {o[1]}
    BY <2>2 DEF Elements
  <2>4. \A x \in Elements(o) \ {o[1]} : x \in Elements(r)
    <3> TAKE x \in Elements(o) \ {o[1]}
    <3>1. PICK i \in 1..Len(o) : x = o[i]
      BY DEF Elements
    <3>2. i - 1 \in 1..Len(r) /\ x = r[i - 1]
      BY <2>1, <3>1
    <3> QED
      BY <3>2 DEF Elements
  <2> QED
    BY <2>3, <2>4
<1>5. Elements(r) = Elements(q) \ chk1
  BY <1>4 DEF SidesAgree
<1>6. \A m, n \in 1..Len(q), i, j \in 1..Len(r) :
        q[m] = r[i] /\ q[n] = r[j] /\ i < j => m < n
  <2> TAKE m, n \in 1..Len(q), i, j \in 1..Len(r)
  <2>1. i + 1 \in 1..Len(o) /\ j + 1 \in 1..Len(o) /\ r[i] = o[i + 1] /\ r[j] = o[j + 1]
    BY <1>1, <1>2
  <2> QED
    BY <2>1 DEF SidesAgree
<1> QED
  BY <1>3, <1>5, <1>6 DEF SidesAgree, r

\* A watcher removes items that were checked.
LEMMA SidesDelete ==
  ASSUME NEW q \in Seq(Atom), NEW o \in Seq(Atom), NEW chk, SidesAgree(q, o, chk),
         NEW k \in Nat, Elements(q) \ Elements(Delete(q, k)) \subseteq chk
  PROVE  SidesAgree(Delete(q, k), o, chk)
<1> DEFINE r == Delete(q, k)
<1>1. r \in Seq(Atom) /\ Elements(r) \subseteq Elements(q) /\ Distinct(r)
  <2>1. k \in Int /\ Distinct(q)
    BY DEF SidesAgree
  <2> QED
    BY <2>1, DeleteLemma
<1>2. Elements(o) = Elements(r) \ chk
  BY <1>1 DEF SidesAgree
<1>3. ASSUME NEW m \in 1..Len(r), NEW n \in 1..Len(r),
             NEW i \in 1..Len(o), NEW j \in 1..Len(o),
             r[m] = o[i], r[n] = o[j], i < j
      PROVE  m < n
  <2>1. CASE m = n
    <3>1. o[i] = o[j]
      BY <1>3, <2>1
    <3> QED
      BY <3>1, <1>3 DEF SidesAgree, Distinct
  <2>2. CASE n < m
    <3>1. PICK u, v \in 1..Len(q) : u < v /\ q[u] = r[n] /\ q[v] = r[m]
      BY <2>2, DeleteOrder
    <3>2. v < u
      BY <1>3, <3>1 DEF SidesAgree
    <3> QED
      BY <3>1, <3>2
  <2> QED
    BY <2>1, <2>2
<1> QED
  BY <1>1, <1>2, <1>3 DEF SidesAgree

-----------------------------------------------------------------------------
(***************************************************************************)
(* The check of a burst that comes out whole                               *)
(***************************************************************************)
\* What the loop has done after n beats of t
Turn(t, n) ==
  [checked |-> checked \cup {<<t, i>> : i \in 1..n},
   num |-> [check_num EXCEPT ![t] = n],
   error |-> FALSE]

\* Its beats are the oldest of their addresses, and none was checked.
LEMMA WholeBurst ==
  ASSUME TypeOK, Whole, InStep, NEW t \in Trx,
         \A a \in Addr : Oldest(out[Kind[t]][a], Visits(t, a))
  PROVE  /\ \A n \in 1..Len(Beats[t]) : LET a == AddrOf(<<t, n>>) IN
              Len(out[Kind[t]][a]) >= 1 /\ out[Kind[t]][a][1] = <<t, n>>
         /\ check_num[t] = 0 /\ AtomSet[t] \cap checked = {}
         /\ t \notin unsent
<1>1. ASSUME NEW n \in 1..Len(Beats[t])
      PROVE  LET a == AddrOf(<<t, n>>) IN
             Len(out[Kind[t]][a]) >= 1 /\ out[Kind[t]][a][1] = <<t, n>>
  <2> DEFINE a == AddrOf(<<t, n>>)
  <2>1. a \in Addr /\ Beats[t][n] = a
    BY AtomLemma DEF AddrOf
  <2>2. IsInjective(Beats[t])
    BY DEF Whole
  <2> HIDE DEF a
  <2>3. Visits(t, a) = << <<t, n>> >>
    BY <2>1, <2>2, VisitsLemma
  <2>4. Oldest(out[Kind[t]][a], << <<t, n>> >>)
    BY <2>1, <2>3
  <2> QED
    BY <2>4 DEF Oldest, a
<1>2. 1 \in 1..Len(Beats[t]) /\ <<t, 1>> \in AtomSet[t]
  BY AtomLemma
<1>3. <<t, 1>> \notin checked /\ t \notin unsent
  <2> DEFINE a == AddrOf(<<t, 1>>)
             k == Kind[t]
  <2>1. a \in Addr /\ k \in Kinds
    BY <1>2, AtomLemma, TrxAssumption
  <2>2. Len(out[k][a]) >= 1 /\ out[k][a][1] = <<t, 1>>
    BY <1>1, <1>2
  <2>3. out[k][a] \in Seq(Atom)
    BY <2>1 DEF TypeOK
  <2> HIDE DEF a, k
  <2>4. <<t, 1>> \in Elements(out[k][a])
    BY <2>2, <2>3 DEF Elements
  <2>5. SidesAgree(pool[k][a], out[k][a], checked) /\ InPlace(pool[k][a], k, a)
    BY <2>1 DEF InStep
  <2>6. <<t, 1>> \in Elements(pool[k][a]) /\ <<t, 1>> \notin checked
    BY <2>4, <2>5 DEF SidesAgree
  <2>7. <<t, 1>>[1] \notin unsent
    BY <2>5, <2>6 DEF InPlace
  <2> QED
    BY <2>6, <2>7
<1>4. AllOrNone(t, checked, check_num)
  BY DEF InStep
<1>5. check_num[t] = 0 /\ AtomSet[t] \cap checked = {}
  BY <1>2, <1>3, <1>4 DEF AllOrNone
<1> QED
  BY <1>1, <1>3, <1>5

\* A turn of the loop finds the item of its own beat and sees no difference.
LEMMA TurnLemma ==
  ASSUME TypeOK, Whole, InStep, NEW t \in Trx,
         \A a \in Addr : Oldest(out[Kind[t]][a], Visits(t, a)),
         NEW n \in 1..Len(Beats[t])
  PROVE  CheckBeat(Turn(t, n - 1), Kind[t], AddrOf(<<t, n>>), DataOf(<<t, n>>)) = Turn(t, n)
<1> DEFINE k == Kind[t]
           a == AddrOf(<<t, n>>)
           q == pool[k][a]
           o == out[k][a]
           chk == checked \cup {<<t, i>> : i \in 1..(n - 1)}
           num == [check_num EXCEPT ![t] = n - 1]
<1>1. k \in Kinds /\ a \in Addr /\ <<t, n>> \in AtomSet[t] /\ <<t, n>> \in Atom
  BY AtomLemma, TrxAssumption
<1>2. q \in Seq(Atom) /\ o \in Seq(Atom)
  BY <1>1 DEF TypeOK
<1>3. SidesAgree(q, o, checked) /\ InPlace(q, k, a)
  BY <1>1 DEF InStep
<1>4. Len(o) >= 1 /\ o[1] = <<t, n>> /\ AtomSet[t] \cap checked = {}
  BY WholeBurst
<1>5. n \in Nat /\ n >= 1 /\ check_num \in [Trx -> Nat]
  BY AtomLemma DEF TypeOK
<1> HIDE DEF q, o, a, k
<1>6. PICK p \in 1..Len(q) : /\ q[p] = <<t, n>> /\ q[p] \notin checked
                             /\ \A m \in 1..Len(q) : q[m] \notin checked => p <= m
  BY <1>2, <1>3, <1>4, SidesFirst
<1>7. q[p] \notin chk
  BY <1>5, <1>6
<1>8. ASSUME NEW m \in 1..Len(q), q[m] \notin chk \/ ~AllChecked(num, q[m][1])
      PROVE  p <= m
  <2>1. q[m] \in Atom /\ q[m] \in Elements(q)
    BY <1>2 DEF Elements
  <2>2. /\ q[m][1] \in Trx /\ q[m] \in AtomSet[q[m][1]]
        /\ q[m][2] \in 1..Len(Beats[q[m][1]]) /\ q[m] = <<q[m][1], q[m][2]>>
    BY <2>1, AtomLemma
  <2>3. CASE q[m][1] = t
    <3>1. AddrOf(q[m]) = a
      BY <1>3, <2>1 DEF InPlace
    <3>2. Beats[t][q[m][2]] = Beats[t][n]
      BY <2>3, <3>1 DEF AddrOf, a
    <3>3. IsInjective(Beats[t]) /\ Beats[t] \in Seq(Addr)
      BY TrxAssumption DEF Whole
    <3>4. q[m][2] = n
      BY <2>2, <2>3, <3>2, <3>3 DEF IsInjective
    <3>5. q[m] = q[p]
      BY <1>6, <2>2, <2>3, <3>4
    <3>6. m = p
      BY <3>5, <1>3 DEF SidesAgree, Distinct
    <3> QED
      BY <3>6
  <2>4. CASE q[m][1] # t
    <3> DEFINE u == q[m][1]
    <3>1. AllOrNone(u, checked, check_num)
      BY <2>2 DEF InStep
    <3>2. num[u] = check_num[u]
      BY <1>5, <2>2, <2>4
    <3>3. CASE AtomSet[u] \subseteq checked /\ check_num[u] = Len(Beats[u])
      <4>1. q[m] \in chk
        BY <2>2, <3>3
      <4>2. AllChecked(num, u)
        BY <3>2, <3>3 DEF AllChecked
      <4> QED
        BY <1>8, <4>1, <4>2
    <3>4. CASE AtomSet[u] \cap checked = {}
      <4>1. q[m] \notin checked
        BY <2>2, <3>4
      <4> QED
        BY <1>6, <4>1
    <3> QED
      BY <3>1, <3>3, <3>4 DEF AllOrNone
  <2> QED
    BY <2>3, <2>4
<1>9. NocheckScbGet(q, chk, num) = <<t, n>>
  <2> HIDE DEF chk, num
  <2>1. NocheckScbGet(q, chk, num) = q[p]
    BY <1>2, <1>7, <1>8, NocheckLemma
  <2> QED
    BY <1>6, <2>1
<1>10. <<t, n>> # NULL
  BY <1>1, NullAssumption
<1>11. Compare(k, <<t, n>>, DataOf(<<t, n>>))
  BY DEF Compare
<1>12. /\ Turn(t, n - 1).checked = chk /\ Turn(t, n - 1).num = num
       /\ Turn(t, n - 1).error = FALSE
  BY DEF Turn
<1>13. CheckBeat(Turn(t, n - 1), k, a, DataOf(<<t, n>>)) =
         [checked |-> chk \cup {<<t, n>>},
          num |-> [num EXCEPT ![<<t, n>>[1]] = @ + 1],
          error |-> FALSE]
  <2> HIDE DEF chk, num
  <2>1. (FALSE \/ ~Compare(k, <<t, n>>, DataOf(<<t, n>>))) = FALSE
    BY <1>11, Zenon
  <2>2. NocheckScbGet(pool[k][a], chk, num) = <<t, n>>
    BY <1>9 DEF q
  <2> QED
    BY <2>1, <2>2, <1>10, <1>12, Zenon DEF CheckBeat
<1>14. chk \cup {<<t, n>>} = checked \cup {<<t, i>> : i \in 1..n}
  <2>1. 1..n = (1..(n - 1)) \cup {n}
    BY <1>5
  <2> QED
    BY <2>1
<1>15. [num EXCEPT ![<<t, n>>[1]] = @ + 1] = [check_num EXCEPT ![t] = n]
  <2>1. <<t, n>>[1] = t /\ num[t] = n - 1 /\ (n - 1) + 1 = n
    BY <1>5
  <2> QED
    BY <1>5, <2>1
<1> QED
  BY <1>13, <1>14, <1>15 DEF Turn, a, k

\* The loop marks the beats of the burst, counts them, and reports nothing.
LEMMA LoopLemma ==
  ASSUME TypeOK, Whole, InStep, NEW t \in Trx,
         \A a \in Addr : Oldest(out[Kind[t]][a], Visits(t, a))
  PROVE  After(Kind[t], Atoms[t]) = Turn(t, Len(Beats[t]))
<1> DEFINE L == Len(Beats[t])
           s == Atoms[t]
<1>1. L \in Nat /\ s \in Seq(Atom) /\ Len(s) = L /\ \A n \in 1..L : s[n] = <<t, n>>
  BY AtomLemma, SeqMonotonic
<1>2. PICK g \in [0..Len(s) -> State] :
        /\ g[0] = Start
        /\ \A n \in 1..Len(s) : g[n] = CheckBeat(g[n - 1], Kind[t], AddrOf(s[n]), DataOf(s[n]))
        /\ After(Kind[t], s) = g[Len(s)]
  <2>1. Start \in State /\ Kind[t] \in Kinds
    BY TrxAssumption, Zenon DEF TypeOK, Start, State
  <2>2. \A a \in Addr : pool[Kind[t]][a] \in Seq(Atom)
    BY <2>1 DEF TypeOK
  <2> HIDE DEF s
  <2> QED
    BY <1>1, <2>1, <2>2, AfterLemma
<1>3. g[0] = Turn(t, 0)
  <2>1. {<<t, i>> : i \in 1..0} = {}
    OBVIOUS
  <2>2. [check_num EXCEPT ![t] = 0] = check_num
    BY WholeBurst DEF TypeOK
  <2> QED
    BY <1>2, <2>1, <2>2 DEF Turn, Start
<1>4. \A n \in 1..L : g[n] = CheckBeat(g[n - 1], Kind[t], AddrOf(<<t, n>>), DataOf(<<t, n>>))
  BY <1>1, <1>2
<1> HIDE DEF s
<1>5. \A n \in 0..L : g[n] = Turn(t, n)
  <2> DEFINE T == {n \in 0..L : g[n] # Turn(t, n)}
  <2>1. SUFFICES ASSUME T # {} PROVE FALSE
    OBVIOUS
  <2>2. PICK m \in T : \A n \in T : m <= n
    <3>1. T \in SUBSET Nat
      BY <1>1
    <3> HIDE DEF T
    <3> QED
      BY <2>1, <3>1, LeastNatural
  <2>3. m \in 1..L
    BY <1>1, <1>3
  <2>4. g[m - 1] = Turn(t, m - 1)
    BY <1>1, <2>2, <2>3
  <2>5. g[m] = Turn(t, m)
    BY <1>4, <2>3, <2>4, TurnLemma
  <2> QED
    BY <2>5
<1> QED
  BY <1>1, <1>2, <1>5 DEF s

-----------------------------------------------------------------------------
(***************************************************************************)
(* Steps                                                                   *)
(***************************************************************************)
\* What is checked elsewhere does not concern a queue.
LEMMA SidesSame ==
  ASSUME NEW q, NEW o, NEW chk, NEW chk1, SidesAgree(q, o, chk),
         Elements(q) \cap chk1 = Elements(q) \cap chk
  PROVE  SidesAgree(q, o, chk1)
<1>1. Elements(q) \ chk1 = Elements(q) \ chk
  OBVIOUS
<1> QED
  BY <1>1 DEF SidesAgree

\* What is to be shown of the next state
Held(l, a) ==
  /\ \A x \in Elements(pool'[l][a]) : Kind[x[1]] = l /\ AddrOf(x) = a /\ x[1] \notin unsent'
  /\ SidesAgree(pool'[l][a], out'[l][a], checked')

\* In step in the next state, queue by queue and transfer by transfer.
LEMMA InStepNext ==
  ASSUME \A l \in Kinds, a \in Addr : Held(l, a),
         \A t \in Trx : AllOrNone(t, checked, check_num)', comp_error' = {}
  PROVE  InStep'
BY DEF Held, InStep, InPlace, SidesAgree, Distinct, Elements

\* The steps that leave the pools, the design and the checks alone
LEMMA InStepFrame ==
  ASSUME InStep, UNCHANGED <<unsent, out, pool, checked, check_num, comp_error>>
  PROVE  InStep'
BY DEF InStep, InPlace, SidesAgree, AllOrNone, Distinct

\* A burst that is sent enters both sides of its addresses.
LEMMA InStepPut ==
  ASSUME TypeOK, Whole, InStep, NEW t \in Trx, Put(t)
  PROVE  InStep'
<1> DEFINE k == Kind[t]
<1>1. k \in Kinds /\ t \in unsent /\ unsent' = unsent \ {t} /\ Fate[t] = "ok"
  BY TrxAssumption DEF Put, Whole
<1>2. \A a \in Addr : /\ pool'[k][a] = pool[k][a] \o Visits(t, a)
                      /\ out'[k][a] = out[k][a] \o Visits(t, a)
  BY <1>1 DEF Put, Enter, TypeOK
<1>3. \A l \in Kinds : l # k => pool'[l] = pool[l] /\ out'[l] = out[l]
  BY <1>1 DEF Put, Enter, TypeOK
<1>4. checked' = checked /\ check_num' = check_num /\ comp_error' = comp_error
  BY DEF Put, verdicts
<1>5. AtomSet[t] \cap checked = {}
  BY <1>1 DEF InStep, AllOrNone
<1>6. ASSUME NEW l \in Kinds, NEW a \in Addr
      PROVE  Held(l, a)
  <2> DEFINE q == pool[l][a]
             o == out[l][a]
  <2>1. q \in Seq(Atom) /\ o \in Seq(Atom)
    BY DEF TypeOK
  <2>2. InPlace(q, l, a) /\ SidesAgree(q, o, checked)
    BY DEF InStep
  <2>3. CASE l = k /\ a \in Range(Beats[t])
    <3>1. PICK n \in 1..Len(Beats[t]) : Beats[t][n] = a
      BY <2>3, TrxAssumption DEF Range
    <3> DEFINE x == <<t, n>>
    <3>2. x \in Atom /\ x \in AtomSet[t] /\ AddrOf(x) = a /\ x[1] = t
      BY <3>1, AtomLemma DEF AddrOf
    <3>3. Visits(t, a) = <<x>>
      BY <3>1, VisitsLemma DEF Whole
    <3> HIDE DEF x
    <3>4. x \notin Elements(q) /\ x \notin checked
      BY <1>1, <1>5, <2>2, <3>2 DEF InPlace
    <3>5. SidesAgree(q \o <<x>>, o \o <<x>>, checked)
      BY <2>1, <2>2, <3>2, <3>4, SidesEnter
    <3>6. Elements(q \o <<x>>) = Elements(q) \cup {x}
      <4> HIDE DEF q
      <4>1. q \o <<x>> = PushBack(q, x)
        BY <2>1, <3>2, AppendIsConcat DEF PushBack
      <4>2. Elements(PushBack(q, x)) = Elements(q) \cup {x}
        BY <2>1, <3>2, PushBackLemma
      <4> QED
        BY <4>1, <4>2
    <3>7. pool'[l][a] = q \o <<x>> /\ out'[l][a] = o \o <<x>>
      BY <1>2, <2>3, <3>3
    <3> HIDE DEF q, o
    <3>8. \A y \in Elements(q \o <<x>>) : Kind[y[1]] = l /\ AddrOf(y) = a /\ y[1] \notin unsent'
      BY <1>1, <2>2, <2>3, <3>2, <3>6 DEF InPlace
    <3> QED
      BY <1>4, <3>5, <3>7, <3>8 DEF Held
  <2>4. CASE l = k /\ a \notin Range(Beats[t])
    <3>1. Visits(t, a) = <<>>
      BY <2>4, VisitsLemma
    <3>2. pool'[l][a] = q /\ out'[l][a] = o
      <4>1. pool'[l][a] = q \o <<>> /\ out'[l][a] = o \o <<>>
        BY <1>2, <2>4, <3>1
      <4> QED
        BY <2>1, <4>1, ConcatEmptySeq
    <3> QED
      BY <1>1, <1>4, <2>2, <3>2 DEF InPlace, Held
  <2>5. CASE l # k
    BY <1>1, <1>3, <1>4, <2>2, <2>5 DEF InPlace, Held
  <2> QED
    BY <2>3, <2>4, <2>5
<1>7. ASSUME NEW u \in Trx PROVE AllOrNone(u, checked, check_num)'
  BY <1>1, <1>4 DEF InStep, AllOrNone
<1>8. comp_error' = {}
  BY <1>4 DEF InStep
<1> QED
  BY <1>6, <1>7, <1>8, InStepNext

\* A burst that comes out whole is checked whole.
LEMMA InStepReport ==
  ASSUME TypeOK, Whole, InStep, NEW t \in Trx, Report(t)
  PROVE  InStep'
<1> DEFINE k == Kind[t]
<1>1. k \in Kinds /\ \A a \in Addr : Oldest(out[k][a], Visits(t, a))
  BY TrxAssumption DEF Report
<1>2. After(k, Atoms[t]) = Turn(t, Len(Beats[t]))
  BY <1>1, LoopLemma
<1>3. /\ checked' = checked \cup AtomSet[t]
      /\ check_num' = [check_num EXCEPT ![t] = Len(Beats[t])]
      /\ comp_error' = comp_error
      /\ pool' = pool /\ unsent' = unsent
  <2>1. Check(t, Atoms[t])
    BY DEF Report
  <2>2. AtomSet[t] = {<<t, i>> : i \in 1..Len(Beats[t])}
    BY AtomLemma
  <2> QED
    BY <1>2, <2>1, <2>2 DEF Check, Turn
<1>4. \A a \in Addr :
        out'[k][a] = SubSeq(out[k][a], Len(Visits(t, a)) + 1, Len(out[k][a]))
  BY <1>1 DEF Report, TypeOK
<1>5. \A l \in Kinds : l # k => out'[l] = out[l]
  BY <1>1 DEF Report, TypeOK
<1>6. t \notin unsent
  BY <1>1, WholeBurst
<1>7. ASSUME NEW l \in Kinds, NEW a \in Addr
      PROVE  Held(l, a)
  <2> DEFINE q == pool[l][a]
             o == out[l][a]
             chk == checked \cup AtomSet[t]
  <2>1. q \in Seq(Atom) /\ o \in Seq(Atom)
    BY DEF TypeOK
  <2>2. InPlace(q, l, a) /\ SidesAgree(q, o, checked)
    BY DEF InStep
  <2>3. \A x \in Elements(q) : Kind[x[1]] = l /\ AddrOf(x) = a /\ x[1] \notin unsent'
    BY <1>3, <2>2 DEF InPlace
  <2>4. CASE l = k /\ a \in Range(Beats[t])
    <3>1. PICK n \in 1..Len(Beats[t]) : Beats[t][n] = a
      BY <2>4, TrxAssumption DEF Range
    <3>2. <<t, n>> \in AtomSet[t] /\ AddrOf(<<t, n>>) = a
      BY <3>1, AtomLemma DEF AddrOf
    <3>3. Len(o) >= 1 /\ o[1] = <<t, n>>
      BY <1>1, <2>4, <3>2, WholeBurst
    <3>4. Len(Visits(t, a)) = 1
      <4>1. Visits(t, a) = << <<t, n>> >>
        BY <3>1, VisitsLemma DEF Whole
      <4> QED
        BY <4>1
    <3>5. \A x \in Elements(q) : x \in AtomSet[t] => x = <<t, n>>
      <4> TAKE x \in Elements(q)
      <4> HAVE x \in AtomSet[t]
      <4>1. x[1] = t /\ x[2] \in 1..Len(Beats[t]) /\ x = <<x[1], x[2]>>
        BY AtomLemma
      <4>2. Beats[t][x[2]] = Beats[t][n]
        BY <2>2, <3>1, <4>1 DEF InPlace, AddrOf
      <4>3. IsInjective(Beats[t]) /\ Beats[t] \in Seq(Addr)
        BY TrxAssumption DEF Whole
      <4>4. x[2] = n
        BY <4>1, <4>2, <4>3 DEF IsInjective
      <4> QED
        BY <4>1, <4>4
    <3>6. Elements(q) \cap chk = Elements(q) \cap (checked \cup {o[1]})
      BY <3>2, <3>3, <3>5
    <3> HIDE DEF q, o, chk
    <3>7. SidesAgree(q, SubSeq(o, 2, Len(o)), chk)
      BY <2>1, <2>2, <3>3, <3>6, SidesLeave
    <3>8. out'[l][a] = SubSeq(o, 2, Len(o))
      <4>1. out'[l][a] = SubSeq(o, 1 + 1, Len(o))
        BY <1>4, <2>4, <3>4, Zenon DEF o
      <4> QED
        BY <4>1
    <3> QED
      BY <1>3, <2>3, <3>7, <3>8 DEF Held, q, chk
  <2>5. CASE ~(l = k /\ a \in Range(Beats[t]))
    <3>1. \A x \in Elements(q) : x \notin AtomSet[t]
      <4> SUFFICES ASSUME NEW x \in Elements(q), x \in AtomSet[t] PROVE FALSE
        OBVIOUS
      <4>1. x[1] = t /\ x[2] \in 1..Len(Beats[t])
        BY AtomLemma
      <4>2. Kind[t] = l /\ Beats[t][x[2]] = a
        BY <2>2, <4>1 DEF InPlace, AddrOf
      <4>3. Beats[t] \in Seq(Addr)
        BY TrxAssumption
      <4> QED
        BY <2>5, <4>1, <4>2, <4>3 DEF Range
    <3>2. SidesAgree(q, o, chk)
      <4>1. Elements(q) \cap chk = Elements(q) \cap checked
        BY <3>1
      <4> QED
        BY <2>2, <4>1, SidesSame
    <3>3. out'[l][a] = o
      <4>1. CASE l # k
        BY <1>5, <4>1
      <4>2. CASE l = k
        <5>1. Visits(t, a) = <<>>
          BY <2>5, <4>2, VisitsLemma
        <5>2. out'[l][a] = SubSeq(o, 1, Len(o))
          BY <1>4, <4>2, <5>1
        <5> QED
          BY <2>1, <5>2, SubSeqFull
      <4> QED
        BY <4>1, <4>2
    <3> HIDE DEF q, o, chk
    <3> QED
      BY <1>3, <2>3, <3>2, <3>3 DEF Held, q, chk
  <2> QED
    BY <2>4, <2>5
<1>8. ASSUME NEW u \in Trx PROVE AllOrNone(u, checked, check_num)'
  <2>1. CASE u = t
    BY <1>3, <1>6, <2>1 DEF AllOrNone, TypeOK
  <2>2. CASE u # t
    <3>1. AtomSet[u] \cap AtomSet[t] = {}
      BY <2>2, AtomLemma
    <3>2. check_num'[u] = check_num[u]
      BY <1>3, <2>2 DEF TypeOK
    <3>3. AllOrNone(u, checked, check_num)
      BY DEF InStep
    <3> QED
      BY <1>3, <3>1, <3>2, <3>3 DEF AllOrNone
  <2> QED
    BY <2>1, <2>2
<1>9. comp_error' = {}
  BY <1>3 DEF InStep
<1> QED
  BY <1>7, <1>8, <1>9, InStepNext

\* A watcher that drops nothing keeps the sides in step.
LEMMA InStepDelete ==
  ASSUME TypeOK, InStep, NEW k \in Kinds, WatchDelete(k), dropped' = {}
  PROVE  InStep'
<1> DEFINE b == taddr[k][cursor[k].i]
           q == pool[k][b]
           d == Head(dels[k])
<1>1. b \in Addr /\ q \in Seq(Atom) /\ Queue(k) = q
  <2>1. cursor[k].i <= Len(taddr[k])
    BY DEF WatchDelete, Deleting, TypeOK
  <2> QED
    BY <2>1, QueueType DEF Queue
<1>2. d \in Nat
  <2>1. dels[k] \in Seq(Nat) /\ dels[k] # <<>>
    BY DEF WatchDelete, TypeOK
  <2> QED
    BY <2>1
<1>3. Elements(q) \ Elements(Delete(q, d)) \subseteq checked
  BY <1>1 DEF WatchDelete
<1>4. /\ pool' = [pool EXCEPT ![k][b] = Delete(q, d)]
      /\ UNCHANGED <<unsent, out, checked, check_num, comp_error>>
  BY <1>1 DEF WatchDelete
<1>5. ASSUME NEW l \in Kinds, NEW a \in Addr
      PROVE  Held(l, a)
  <2>1. InPlace(pool[l][a], l, a) /\ SidesAgree(pool[l][a], out[l][a], checked)
    BY DEF InStep
  <2>2. CASE l = k /\ a = b
    <3>1. pool'[l][a] = Delete(q, d)
      BY <1>1, <1>4, <2>2 DEF TypeOK
    <3>2. out[l][a] \in Seq(Atom)
      BY DEF TypeOK
    <3> HIDE DEF b, q, d
    <3>3. SidesAgree(Delete(q, d), out[l][a], checked)
      BY <1>1, <1>2, <1>3, <2>1, <2>2, <3>2, SidesDelete DEF q
    <3>4. Elements(Delete(q, d)) \subseteq Elements(q)
      <4>1. d \in Int
        BY <1>2
      <4> QED
        BY <1>1, <4>1, DeleteLemma
    <3>5. InPlace(Delete(q, d), l, a)
      BY <2>1, <2>2, <3>4 DEF InPlace, q
    <3> QED
      BY <1>4, <3>1, <3>3, <3>5 DEF InPlace, Held
  <2>3. CASE ~(l = k /\ a = b)
    <3>1. pool'[l][a] = pool[l][a]
      BY <1>1, <1>4, <2>3 DEF TypeOK
    <3> QED
      BY <1>4, <2>1, <3>1 DEF InPlace, Held
  <2> QED
    BY <2>2, <2>3
<1>6. ASSUME NEW u \in Trx PROVE AllOrNone(u, checked, check_num)'
  BY <1>4 DEF InStep, AllOrNone
<1>7. comp_error' = {}
  BY <1>4 DEF InStep
<1> QED
  BY <1>5, <1>6, <1>7, InStepNext

\* A reset empties both sides.
LEMMA InStepReset ==
  ASSUME InStep, ResetScoreboard
  PROVE  InStep'
<1>1. \A l \in Kinds, a \in Addr : pool'[l][a] = <<>> /\ out'[l][a] = <<>>
  BY DEF ResetScoreboard
<1>2. UNCHANGED <<unsent, checked, check_num, comp_error>>
  BY DEF ResetScoreboard, verdicts
<1>3. \A chk : SidesAgree(<<>>, <<>>, chk)
  <2>1. Elements(<<>>) = {} /\ Len(<<>>) = 0
    BY DEF Elements
  <2> QED
    BY <2>1 DEF SidesAgree, Distinct
<1>4. \A l \in Kinds, a \in Addr : Held(l, a)
  <2>1. Elements(<<>>) = {}
    BY DEF Elements
  <2> QED
    BY <1>1, <1>3, <2>1 DEF Held
<1>5. \A u \in Trx : AllOrNone(u, checked, check_num)'
  BY <1>2 DEF InStep, AllOrNone
<1>6. comp_error' = {}
  BY <1>2 DEF InStep
<1> QED
  BY <1>4, <1>5, <1>6, InStepNext

\* Every step keeps the two sides in step, unless a watcher drops an item.
LEMMA InStepStep ==
  ASSUME TypeOK, Whole, InStep, [Next]_vars, dropped' = {}
  PROVE  InStep'
<1>1. ASSUME NEW t \in Trx, Put(t) PROVE InStep'
  BY <1>1, InStepPut
<1>2. ASSUME NEW t \in Trx, Report(t) PROVE InStep'
  BY <1>2, InStepReport
<1>3. ASSUME NEW t \in Trx, ReportPart(t) PROVE InStep'
  BY <1>3 DEF ReportPart, Whole
<1>4. ASSUME NEW k \in Kinds, WatchDelete(k) PROVE InStep'
  BY <1>4, InStepDelete
<1>5. ASSUME NEW k \in Kinds,
             WatchWake(k) \/ WatchSleep(k) \/ WatchGet(k) \/ WatchLook(k) \/ WatchNext(k)
               \/ BackdoorPop(k)
      PROVE  InStep'
  <2>1. UNCHANGED <<unsent, out, pool, checked, check_num, comp_error>>
    BY <1>5 DEF WatchWake, WatchSleep, WatchGet, WatchLook, WatchNext, BackdoorPop,
                poolVars, verdicts
  <2> QED
    BY <2>1, InStepFrame
<1>6. ASSUME ResetScoreboard PROVE InStep'
  BY <1>6, InStepReset
<1>7. ASSUME UNCHANGED vars PROVE InStep'
  <2>1. UNCHANGED <<unsent, out, pool, checked, check_num, comp_error>>
    BY <1>7 DEF vars, poolVars, verdicts
  <2> QED
    BY <2>1, InStepFrame
<1> QED
  BY <1>1, <1>2, <1>3, <1>4, <1>5, <1>6, <1>7 DEF Next, Deliver, Watch

\* A drop is remembered.
LEMMA DroppedGrows ==
  ASSUME [Next]_vars
  PROVE  dropped \subseteq dropped'
BY DEF Next, Deliver, Watch, Put, Report, ReportPart, Check, BackdoorPop, WatchWake, WatchSleep,
       WatchGet, WatchLook, WatchDelete, WatchNext, ResetScoreboard, vars, verdicts

-----------------------------------------------------------------------------
(***************************************************************************)
(* Counting                                                                *)
(***************************************************************************)
Single == \A t \in Trx : Len(Beats[t]) = 1

\* SingleCounted of what the loop changes
Counted(st) == \A t \in Trx : st.num[t] = IF <<t, 1>> \in st.checked THEN 1 ELSE 0

\* Without bursts, an item is checked by a turn of the loop only if it was not yet.
LEMMA CountedTurn ==
  ASSUME Single, NEW k \in Kinds, NEW a \in Addr, pool[k][a] \in Seq(Atom), NEW data,
         NEW st \in State, Counted(st)
  PROVE  Counted(CheckBeat(st, k, a, data))
<1> DEFINE it == NocheckScbGet(pool[k][a], st.checked, st.num)
<1>1. CASE it = NULL
  BY <1>1 DEF CheckBeat
<1>2. CASE it # NULL
  <2>1. it \in Atom
    <3>1. it \in Elements(pool[k][a]) \cup {NULL}
      BY NocheckLemma
    <3> HIDE DEF it
    <3> QED
      BY <1>2, <3>1 DEF Elements
  <2>2. it \notin st.checked \/ ~AllChecked(st.num, it[1])
    BY <1>2, NocheckLemma
  <2>3. /\ CheckBeat(st, k, a, data).checked = st.checked \cup {it}
        /\ CheckBeat(st, k, a, data).num = [st.num EXCEPT ![it[1]] = @ + 1]
    BY <1>2 DEF CheckBeat
  <2> HIDE DEF it
  <2> DEFINE u == it[1]
  <2>4. u \in Trx /\ it = <<u, 1>>
    <3>1. /\ it[1] \in Trx /\ it[2] \in 1..Len(Beats[it[1]])
          /\ it = <<it[1], it[2]>>
      BY <2>1, AtomLemma
    <3>2. Len(Beats[it[1]]) = 1
      BY <3>1 DEF Single
    <3>3. it[2] = 1
      BY <3>1, <3>2
    <3> QED
      BY <3>1, <3>3
  <2>5. st.num \in [Trx -> Nat]
    BY DEF State
  <2>6. <<u, 1>> \notin st.checked /\ st.num[u] = 0
    <3>1. AllChecked(st.num, u) <=> st.num[u] = 1
      BY <2>4 DEF AllChecked, Single
    <3>2. st.num[u] = IF <<u, 1>> \in st.checked THEN 1 ELSE 0
      BY <2>4 DEF Counted
    <3> QED
      BY <2>2, <2>4, <3>1, <3>2
  <2>7. ASSUME NEW t \in Trx
        PROVE  CheckBeat(st, k, a, data).num[t] =
                 IF <<t, 1>> \in CheckBeat(st, k, a, data).checked THEN 1 ELSE 0
    <3> HIDE DEF u
    <3>1. CASE t = u
      BY <2>3, <2>4, <2>5, <2>6, <3>1 DEF u
    <3>2. CASE t # u
      <4>1. CheckBeat(st, k, a, data).num[t] = st.num[t]
        BY <2>3, <2>5, <3>2 DEF u
      <4>2. <<t, 1>> \in CheckBeat(st, k, a, data).checked <=> <<t, 1>> \in st.checked
        BY <2>3, <2>4, <3>2
      <4> QED
        BY <4>1, <4>2 DEF Counted
    <3> QED
      BY <3>1, <3>2
  <2> QED
    BY <2>7 DEF Counted
<1> QED
  BY <1>1, <1>2

\* ... and by the loop.
LEMMA CountedCheck ==
  ASSUME TypeOK, Single, SingleCounted, NEW t \in Trx, NEW s \in Seq(Atom), Check(t, s)
  PROVE  SingleCounted'
<1> DEFINE k == Kind[t]
           L == Len(s)
<1>1. L \in Nat /\ \A n \in 1..L : AddrOf(s[n]) \in Addr
  BY AtomLemma
<1>2. Start \in State /\ k \in Kinds
  BY TrxAssumption, Zenon DEF TypeOK, Start, State
<1>3. \A a \in Addr : pool[k][a] \in Seq(Atom)
  BY <1>2 DEF TypeOK
<1> HIDE DEF k
<1>4. PICK g \in [0..L -> State] :
        /\ g[0] = Start
        /\ \A n \in 1..L : g[n] = CheckBeat(g[n - 1], k, AddrOf(s[n]), DataOf(s[n]))
        /\ After(k, s) = g[L]
  BY <1>2, <1>3, AfterLemma
<1> HIDE DEF L
<1>5. \A n \in 0..L : Counted(g[n])
  <2> DEFINE T == {n \in 0..L : ~Counted(g[n])}
  <2>1. SUFFICES ASSUME T # {} PROVE FALSE
    OBVIOUS
  <2>2. PICK m \in T : \A n \in T : m <= n
    <3>1. T \in SUBSET Nat
      BY <1>1
    <3> HIDE DEF T
    <3> QED
      BY <2>1, <3>1, LeastNatural
  <2>3. Counted(g[0])
    <3>1. g[0].checked = checked /\ g[0].num = check_num
      BY <1>4 DEF Start
    <3> QED
      BY <3>1, Zenon DEF SingleCounted, Counted
  <2>4. m \in 1..L /\ m - 1 \in 0..L
    BY <1>1, <2>3
  <2>5. Counted(g[m - 1])
    BY <1>1, <2>2, <2>4
  <2>6. g[m - 1] \in State /\ AddrOf(s[m]) \in Addr
    BY <1>1, <1>4, <2>4
  <2>7. Counted(CheckBeat(g[m - 1], k, AddrOf(s[m]), DataOf(s[m])))
    BY <1>2, <1>3, <2>5, <2>6, CountedTurn
  <2> QED
    BY <1>4, <2>4, <2>7
<1>6. checked' = g[L].checked /\ check_num' = g[L].num
  BY <1>4 DEF Check, k
<1>7. Counted(g[L])
  BY <1>1, <1>5
<1> QED
  BY <1>6, <1>7 DEF SingleCounted, Counted

\* Every step keeps the count, whatever the design and the watchers lose.
LEMMA CountedStep ==
  ASSUME TypeOK, Single, SingleCounted, [Next]_vars
  PROVE  SingleCounted'
<1>1. ASSUME NEW t \in Trx, Report(t) PROVE SingleCounted'
  <2>1. Atoms[t] \in Seq(Atom) /\ Check(t, Atoms[t])
    BY <1>1, AtomLemma, SeqMonotonic DEF Report
  <2> QED
    BY <2>1, CountedCheck
<1>2. ASSUME NEW t \in Trx, ReportPart(t) PROVE SingleCounted'
  <2>1. PICK x \in AtomSet[t] : Check(t, <<x>>)
    BY <1>2 DEF ReportPart
  <2>2. <<x>> \in Seq(Atom)
    BY AtomLemma
  <2> QED
    BY <2>1, <2>2, CountedCheck
<1>3. CASE UNCHANGED <<checked, check_num>>
  BY <1>3 DEF SingleCounted
<1> QED
  BY <1>1, <1>2, <1>3
     DEF Next, Deliver, Watch, Put, BackdoorPop, WatchWake, WatchSleep, WatchGet, WatchLook,
         WatchDelete, WatchNext, ResetScoreboard, vars, verdicts, poolVars

\* A transfer has as many atomic items as beats.
LEMMA AtomCount ==
  ASSUME NEW t \in Trx
  PROVE  Cardinality(AtomSet[t]) = Len(Beats[t])
<1> DEFINE L == Len(Beats[t])
           f == [n \in 1..L |-> <<t, n>>]
<1>1. L \in Nat
  BY AtomLemma
<1>2. AtomSet[t] = {<<t, n>> : n \in 1..L}
  <2>1. Atoms[t] = [n \in 1..L |-> <<t, n>>]
    BY DEF Atoms
  <2> QED
    BY <2>1 DEF AtomSet, Range
<1>3. f \in Bijection(1..L, AtomSet[t])
  <2>1. f \in [1..L -> AtomSet[t]]
    BY <1>2
  <2>2. \A m, n \in 1..L : f[m] = f[n] => m = n
    OBVIOUS
  <2>3. \A x \in AtomSet[t] : \E n \in 1..L : f[n] = x
    BY <1>2
  <2> HIDE DEF f
  <2> QED
    BY <2>1, <2>2, <2>3 DEF Bijection, Injection, Surjection, IsInjective
<1>4. ExistsBijection(1..L, AtomSet[t])
  BY <1>3 DEF ExistsBijection
<1> QED
  BY <1>1, <1>4, FS_CountingElements

-----------------------------------------------------------------------------
(***************************************************************************)
(* The theorems                                                            *)
(***************************************************************************)
\* The inductive invariant holds initially and is kept.
THEOREM ScoreboardInvariant == Spec => []IInv
<1>1. Init => IInv
  <2> SUFFICES ASSUME Init PROVE IInv
    OBVIOUS
  <2>1. TypeOK
    BY TypeInit
  <2>2. InStep
    <3>1. \A chk : SidesAgree(<<>>, <<>>, chk) /\ Elements(<<>>) = {}
      <4>1. Elements(<<>>) = {} /\ Len(<<>>) = 0
        BY DEF Elements
      <4> QED
        BY <4>1 DEF SidesAgree, Distinct
    <3>2. \A k \in Kinds, a \in Addr : pool[k][a] = <<>> /\ out[k][a] = <<>>
      BY DEF Init
    <3> QED
      BY <3>1, <3>2 DEF InStep, InPlace, AllOrNone, Init
  <2>3. SingleCounted
    BY DEF Init, SingleCounted
  <2> QED
    BY <2>1, <2>2, <2>3 DEF IInv
<1>2. IInv /\ [Next]_vars => IInv'
  <2> SUFFICES ASSUME IInv, [Next]_vars PROVE IInv'
    OBVIOUS
  <2>1. TypeOK /\ TypeOK'
    BY TypeStep DEF IInv
  <2>2. ASSUME Whole, dropped' = {} PROVE InStep'
    <3>1. dropped = {}
      BY <2>2, DroppedGrows
    <3> QED
      BY <2>1, <2>2, <3>1, InStepStep DEF IInv
  <2>3. ASSUME Single PROVE SingleCounted'
    BY <2>1, <2>3, CountedStep DEF IInv, Single
  <2> QED
    BY <2>1, <2>2, <2>3 DEF IInv, Whole, Single
<1> QED
  BY <1>1, <1>2, PTL DEF Spec

\* A design that hands every burst on unchanged is not reported for a wrong
\* comparison unless a watcher deleted an item before it was checked.
THEOREM OnlyDropsCanMislead == Spec => []OnlyDropsMislead
<1>1. IInv => OnlyDropsMislead
  BY DEF IInv, InStep, OnlyDropsMislead
<1> QED
  BY <1>1, ScoreboardInvariant, PTL

\* The count in a parent is the number of its beats that were checked, if bursts
\* arrive whole and no item is dropped, and whatever happens if there are no bursts.
THEOREM CountIsChecked == Spec => []CheckedOnce
<1>1. IInv => CheckedOnce
  <2> SUFFICES ASSUME IInv, (Whole /\ dropped = {}) \/ Single, NEW t \in Trx
               PROVE  check_num[t] = Cardinality({x \in checked : x[1] = t})
    BY DEF CheckedOnce, Single
  <2> DEFINE S == {x \in checked : x[1] = t}
  <2>1. checked \subseteq Atom
    BY DEF IInv, TypeOK
  <2>2. S = AtomSet[t] \cap checked
    BY <2>1, AtomLemma
  <2>3. AllOrNone(t, checked, check_num) \/ (Single /\ SingleCounted)
    BY DEF IInv, InStep, Single
  <2>4. \/ S = {} /\ check_num[t] = 0
        \/ S = AtomSet[t] /\ check_num[t] = Len(Beats[t])
    <3>1. CASE AllOrNone(t, checked, check_num)
      BY <2>2, <3>1 DEF AllOrNone
    <3>2. CASE Single /\ SingleCounted
      <4>1. Len(Beats[t]) = 1 /\ AtomSet[t] = {<<t, 1>>}
        <5>1. Len(Beats[t]) = 1
          BY <3>2 DEF Single
        <5>2. \A x \in AtomSet[t] : x = <<t, 1>>
          <6> TAKE x \in AtomSet[t]
          <6>1. x[1] = t /\ x[2] \in 1..Len(Beats[x[1]]) /\ x = <<x[1], x[2]>>
            BY AtomLemma
          <6> DEFINE L == Len(Beats[t])
                     n == x[2]
          <6>2. L = 1 /\ n \in 1..L
            BY <5>1, <6>1
          <6> HIDE DEF L, n
          <6>3. n = 1
            BY <6>2
          <6>4. x = <<t, n>>
            BY <6>1 DEF n
          <6> QED
            BY <6>3, <6>4
        <5>3. <<t, 1>> \in AtomSet[t]
          BY <5>1, AtomLemma
        <5> QED
          BY <5>1, <5>2, <5>3
      <4>2. check_num[t] = IF <<t, 1>> \in checked THEN 1 ELSE 0
        BY <3>2 DEF SingleCounted
      <4> QED
        BY <2>2, <4>1, <4>2
    <3> QED
      BY <2>3, <3>1, <3>2
  <2> HIDE DEF S
  <2>5. check_num[t] = Cardinality(S)
    BY <2>4, AtomCount, FS_EmptySet
  <2> QED
    BY <2>5 DEF S
<1> QED
  BY <1>1, ScoreboardInvariant, PTL
=============================================================================
