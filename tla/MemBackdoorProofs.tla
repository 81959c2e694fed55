------------------------- MODULE MemBackdoorProofs -------------------------
(***************************************************************************)
(* Proofs about MemBackdoor, for every set of writes, word size, timeout   *)
(* and number of resets: its types, that the query for the last write of   *)
(* an address is what the memory holds, and that a write that was stored   *)
(* is reported only behind one that never will be.                         *)
(***************************************************************************)
EXTENDS MemBackdoor, FiniteSetTheorems, SequenceTheorems, TLAPS

-----------------------------------------------------------------------------
(***************************************************************************)
(* The inductive invariant                                                 *)
(***************************************************************************)
\* The box holds the latest of the completed writes, in their order, and the
\* thread has in hand the one before them.
InOrder ==
  LET taken == Len(completed) - Len(wbox) IN
  /\ taken \in Nat
  /\ \A i \in 1..Len(wbox) : wbox[i] = completed[taken + i]
  /\ item # NULL => taken > 0 /\ item = completed[taken]

\* The slave sequence has at most the last write in hand, for less than a clock; the
\* bus moves only before the first reset, and only a reset stops the thread.
OneInHand ==
  /\ \A t \in pending : /\ t = completed[Len(completed)] /\ t \notin unstored
                        /\ quiet = 1 /\ resets = 0
  /\ bus # NULL => bus \notin Range(completed) /\ resets = 0
  /\ ~running => resets > 0

\* The rows of the c-th completed write are those after index b.
Block(b, c) ==
  /\ b + Bytes <= Len(rows)
  /\ \A i \in 1..Bytes : rows[b + i] =
       [addr |-> Addr[completed[c]] + i - 1, data |-> Data[completed[c]][i], cyc |-> c]
  /\ \A j \in 1..Len(rows) : rows[j].cyc = c => j \in (b + 1)..(b + Bytes)

\* Every row is one of a write that was stored, and a stored write has its bytes in
\* consecutive rows.
RowsOfStored ==
  /\ \A c \in 1..Len(completed) : Stored(completed[c]) => \E b \in Nat : Block(b, c)
  /\ \A j \in 1..Len(rows) : Stored(completed[rows[j].cyc])

\* The c-th completed write is the last stored one at the address of t.
Latest(c, t) ==
  /\ Stored(completed[c]) /\ Addr[completed[c]] = Addr[t]
  /\ \A d \in 1..Len(completed) :
       Stored(completed[d]) /\ Addr[completed[d]] = Addr[t] => d <= c

\* A word of the memory holds the bytes of the last write stored there.
MemoryOfLatest ==
  \A t \in Trx : memory[Addr[t]] # NULL =>
    \E c \in 1..Len(completed) :
      /\ Latest(c, t)
      /\ \A i \in 1..Bytes : memory[Addr[t] + i - 1] = Data[completed[c]][i]

\* t was stored over
Overwritten(t) == \E u \in Trx : Stored(u) /\ Addr[u] = Addr[t] /\ Earlier(t, u)

\* t, or a write before it, will never be stored
HeldUp(t) == \E u \in unstored : u = t \/ Earlier(u, t)

\* t is the last write
Newest(t) == completed # <<>> /\ t = completed[Len(completed)]

\* t is held up, or was completed within the last clock: nothing is completed before
\* the clock at which the thread finds it, nor after a reset.
MayWait(t) == HeldUp(t) \/ (Newest(t) /\ (quiet = 1 \/ resets > 0))

\* What the thread has in hand will not be stored, or was stored over, or has all of
\* its time left.
InHand ==
  \/ item = NULL \/ item \in unstored \/ Overwritten(item)
  \/ Newest(item) /\ quiet = 1 /\ resets = 0 /\ left = timeout

\* What the thread waits for, has in hand, and has reported
Backlog ==
  /\ \A t \in Range(wbox) \cup ({item} \ {NULL}) : MayWait(t)
  /\ InHand
  /\ \A t \in reported : t \in unstored \/ (Overwritten(t) /\ HeldUp(t))

IInv == TypeOK /\ InOrder /\ OneInHand /\ RowsOfStored /\ MemoryOfLatest /\ Backlog

-----------------------------------------------------------------------------
(***************************************************************************)
(* Sequences, clocks and words                                             *)
(***************************************************************************)
\* An item that is not in a sequence is appended to it.
LEMMA AppendLemma ==
  ASSUME NEW S, NEW s \in Seq(S), NEW x \in S
  PROVE  /\ Append(s, x) \in Seq(S) /\ Len(Append(s, x)) = Len(s) + 1
         /\ \A i \in 1..Len(s) : Append(s, x)[i] = s[i]
         /\ Append(s, x)[Len(s) + 1] = x
         /\ Range(Append(s, x)) = Range(s) \cup {x}
         /\ IsInjective(s) /\ x \notin Range(s) => IsInjective(Append(s, x))
<1> DEFINE r == Append(s, x)
           L == Len(s)
<1>1. /\ r \in Seq(S) /\ DOMAIN r = 1..(L + 1) /\ r[L + 1] = x
      /\ \A i \in 1..L : r[i] = s[i]
  OBVIOUS
<1>2. DOMAIN s = 1..L /\ L \in Nat
  OBVIOUS
<1>3. Len(r) = L + 1
  OBVIOUS
<1> HIDE DEF r, L
<1>4. \A i \in DOMAIN r : i = L + 1 \/ i \in 1..L
  BY <1>1, <1>2
<1>5. 1..L \subseteq DOMAIN r /\ L + 1 \in DOMAIN r /\ L + 1 \notin 1..L
  BY <1>1, <1>2
<1>6. Range(r) = Range(s) \cup {x}
  BY <1>1, <1>2, <1>4, <1>5 DEF Range
<1>7. IsInjective(s) /\ x \notin Range(s) => IsInjective(r)
  BY <1>1, <1>2, <1>4, <1>5 DEF Range, IsInjective
<1> QED
  BY <1>1, <1>3, <1>6, <1>7 DEF r, L

\* The end of a sequence without repetitions has none either, nor the item before it.
LEMMA SuffixLemma ==
  ASSUME NEW S, NEW s \in Seq(S), IsInjective(s), NEW w \in Seq(S), NEW n \in Nat,
         Len(s) - Len(w) = n, \A i \in 1..Len(w) : w[i] = s[n + i]
  PROVE  IsInjective(w) /\ Range(w) \subseteq Range(s) /\ (n > 0 => s[n] \notin Range(w))
<1> DEFINE L == Len(s)
           W == Len(w)
<1>1. DOMAIN s = 1..L /\ DOMAIN w = 1..W /\ L \in Nat /\ W \in Nat /\ L = W + n
  OBVIOUS
<1> HIDE DEF L, W
<1>2. \A i \in DOMAIN w : n + i \in DOMAIN s /\ n + i # n /\ w[i] = s[n + i] /\ i \in Int
  BY <1>1 DEF W
<1>3. n > 0 => n \in DOMAIN s
  BY <1>1
<1>4. ASSUME NEW i \in DOMAIN w, NEW j \in DOMAIN w, w[i] = w[j] PROVE i = j
  <2>1. n + i = n + j
    BY <1>2, <1>4 DEF IsInjective
  <2> QED
    BY <1>2, <2>1
<1>5. ASSUME n > 0, NEW i \in DOMAIN w, w[i] = s[n] PROVE FALSE
  BY <1>2, <1>3, <1>5 DEF IsInjective
<1> QED
  BY <1>2, <1>4, <1>5 DEF Range, IsInjective

\* The clock of the c-th completed write is c.
LEMMA CycLemma ==
  ASSUME completed \in Seq(Trx), IsInjective(completed), NEW c \in 1..Len(completed)
  PROVE  Cyc(completed[c]) = c
<1>1. \A i \in 1..Len(completed) : completed[i] = completed[c] => i = c
  BY DEF IsInjective
<1> QED
  BY <1>1 DEF Cyc

\* Words are aligned: two of them are the same or have no byte in common.
LEMMA AlignedLemma ==
  ASSUME NEW t \in Trx, NEW u \in Trx, NEW i \in 1..Bytes, Addr[u] + i - 1 \in Word(t)
  PROVE  Addr[u] = Addr[t]
<1> DEFINE a == Addr[t]
           b == Addr[u]
           p == a \div Bytes
           q == b \div Bytes
<1>1. a \in Nat /\ b \in Nat /\ a % Bytes = 0 /\ b % Bytes = 0 /\ Bytes \in Nat \ {0}
  BY TrxAssumption, BytesAssumption
<1>2. b + i - 1 \in a..(a + Bytes - 1)
  BY DEF Word
<1> HIDE DEF a, b
<1>3. a = Bytes * p /\ b = Bytes * q /\ p \in Int /\ q \in Int
  BY <1>1
<1>4. a < b + Bytes /\ b < a + Bytes
  BY <1>1, <1>2
<1> HIDE DEF p, q
<1>5. Bytes * p < Bytes * (q + 1) /\ Bytes * q < Bytes * (p + 1)
  BY <1>1, <1>3, <1>4
<1>6. p < q + 1 /\ q < p + 1
  BY <1>1, <1>3, <1>5
<1>7. p = q
  BY <1>3, <1>6
<1> QED
  BY <1>3, <1>7 DEF a, b

-----------------------------------------------------------------------------
(***************************************************************************)
(* The query                                                               *)
(***************************************************************************)
\* The query finds the bytes of the last write stored at the address, in their order:
\* its rows come first, since no stored write of the address is later, and there are
\* as many of them as the query returns.
LEMMA QueryLemma ==
  ASSUME TypeOK, RowsOfStored, NEW t \in Trx, NEW c \in 1..Len(completed), Latest(c, t)
  PROVE  \A r \in 1..Bytes : LastWrTrx(t)[r] = Data[completed[c]][r]
<1> DEFINE Found == {i \in 1..Len(rows) : rows[i].addr \in Word(t)}
           Before(i) == {j \in Found : Ahead(j, i)}
           Rank(i) == Cardinality(Before(i))
<1>1. /\ Bytes \in Nat \ {0} /\ Len(rows) \in Nat /\ Len(completed) \in Nat
      /\ \A d \in 1..Len(completed) : completed[d] \in Trx
      /\ \A u \in Trx : Addr[u] \in Nat
      /\ \A j \in 1..Len(rows) : rows[j].cyc \in 1..Len(completed)
  <2> DEFINE Row == [addr : Cells, data : 0..255, cyc : 1..Len(completed)]
  <2>1. rows \in Seq(Row) /\ completed \in Seq(Trx)
    BY DEF TypeOK
  <2>2. \A x \in Row : x.cyc \in 1..Len(completed)
    OBVIOUS
  <2> HIDE DEF Row
  <2>3. Len(rows) \in Nat /\ \A j \in 1..Len(rows) : rows[j] \in Row
    BY <2>1
  <2>4. Len(completed) \in Nat /\ \A d \in 1..Len(completed) : completed[d] \in Trx
    BY <2>1
  <2> QED
    BY <2>2, <2>3, <2>4, TrxAssumption, BytesAssumption
<1>2. PICK b \in Nat : Block(b, c)
  BY DEF RowsOfStored, Latest
<1>3. \A i \in 1..Bytes : /\ b + i \in Found /\ rows[b + i].cyc = c
                          /\ rows[b + i].data = Data[completed[c]][i]
  <2> TAKE i \in 1..Bytes
  <2>1. b + i \in 1..Len(rows)
    BY <1>1, <1>2 DEF Block
  <2>2. rows[b + i] = [addr |-> Addr[completed[c]] + i - 1,
                       data |-> Data[completed[c]][i], cyc |-> c]
    BY <1>2 DEF Block
  <2>3. Addr[t] + i - 1 \in Word(t)
    BY <1>1 DEF Word
  <2>4. Addr[completed[c]] = Addr[t]
    BY DEF Latest
  <2> QED
    BY <2>1, <2>2, <2>3, <2>4
<1>4. \A j \in Found : rows[j].cyc <= c /\ (rows[j].cyc = c => j \in (b + 1)..(b + Bytes))
  <2> TAKE j \in Found
  <2> DEFINE d == rows[j].cyc
             u == completed[d]
  <2>1. d \in 1..Len(completed) /\ u \in Trx /\ Stored(u)
    BY <1>1 DEF RowsOfStored
  <2>2. PICK e \in Nat : Block(e, d)
    BY <2>1 DEF RowsOfStored
  <2>3. j \in (e + 1)..(e + Bytes)
    BY <2>2 DEF Block
  <2> DEFINE i == j - e
  <2>4. i \in 1..Bytes /\ j = e + i
    BY <1>1, <2>3
  <2> HIDE DEF i
  <2>5. rows[j].addr = Addr[u] + i - 1 /\ rows[j].addr \in Word(t)
    <3>1. rows[e + i] = [addr |-> Addr[u] + i - 1, data |-> Data[u][i], cyc |-> d]
      BY <2>2, <2>4 DEF Block, u
    <3> HIDE DEF d
    <3>2. rows[j].addr = Addr[u] + i - 1
      BY <2>4, <3>1
    <3> QED
      BY <3>2
  <2> HIDE DEF u
  <2>6. Addr[u] = Addr[t]
    BY <2>1, <2>4, <2>5, AlignedLemma
  <2>7. d <= c
    BY <2>1, <2>6 DEF Latest, u
  <2>8. d = c => j \in (b + 1)..(b + Bytes)
    BY <1>2 DEF Block
  <2> QED
    BY <2>7, <2>8
<1>5. Found \subseteq 1..Len(rows) /\ IsFiniteSet(Found)
  <2>1. Found \subseteq 1..Len(rows) /\ IsFiniteSet(1..Len(rows))
    BY <1>1, FS_Interval
  <2> QED
    BY <2>1, FS_Subset
<1>6. \A j \in Found : j \in Int /\ rows[j].cyc \in Int
  BY <1>1, <1>5
<1> HIDE DEF Found
<1>7. \A i \in 1..Bytes : Rank(b + i) = i - 1
  <2> TAKE i \in 1..Bytes
  <2>1. ASSUME NEW j \in Found PROVE Ahead(j, b + i) <=> j \in (b + 1)..(b + i - 1)
    <3>1. rows[b + i].cyc = c /\ rows[j].cyc <= c /\ j \in Int /\ rows[j].cyc \in Int
          /\ c \in Int
      BY <1>1, <1>3, <1>4, <1>6
    <3>2. Ahead(j, b + i) <=> rows[j].cyc = c /\ j < b + i
      BY <3>1 DEF Ahead
    <3>3. j \in (b + 1)..(b + Bytes) => rows[j].cyc = c
      <4> SUFFICES ASSUME j \in (b + 1)..(b + Bytes) PROVE rows[j].cyc = c
        OBVIOUS
      <4>1. j - b \in 1..Bytes /\ b + (j - b) = j
        BY <1>1
      <4> QED
        BY <1>3, <4>1
    <3> QED
      BY <1>1, <1>4, <3>1, <3>2, <3>3
  <2>2. \A j \in (b + 1)..(b + i - 1) : j \in Found
    <3> TAKE j \in (b + 1)..(b + i - 1)
    <3>1. j - b \in 1..Bytes /\ b + (j - b) = j
      BY <1>1
    <3> QED
      BY <1>3, <3>1
  <2>3. Before(b + i) = (b + 1)..(b + i - 1)
    BY <2>1, <2>2
  <2>4. Cardinality((b + 1)..(b + i - 1)) = i - 1
    BY <1>1, FS_Interval
  <2> QED
    BY <2>3, <2>4
<1>8. /\ IsFiniteSet((b + 1)..(b + Bytes)) /\ Cardinality((b + 1)..(b + Bytes)) = Bytes
      /\ (b + 1)..(b + Bytes) \subseteq Found
  <2>1. ASSUME NEW j \in (b + 1)..(b + Bytes) PROVE j \in Found
    <3>1. j - b \in 1..Bytes /\ b + (j - b) = j
      BY <1>1
    <3> QED
      BY <1>3, <3>1
  <2>2. /\ IsFiniteSet((b + 1)..(b + Bytes))
        /\ Cardinality((b + 1)..(b + Bytes)) = Bytes
    <3> DEFINE lo == b + 1
               hi == b + Bytes
    <3>1. lo \in Int /\ hi \in Int /\ ~(lo > hi) /\ hi - lo + 1 = Bytes
      BY <1>1
    <3> HIDE DEF lo, hi
    <3>2. IsFiniteSet(lo..hi) /\ Cardinality(lo..hi) = Bytes
      BY <3>1, FS_Interval
    <3> QED
      BY <3>2 DEF lo, hi
  <2> QED
    BY <1>1, <2>1, <2>2
<1>9. Cardinality(Found) \in Nat /\ Bytes <= Cardinality(Found)
  BY <1>5, <1>8, FS_Subset, FS_CardinalityType
<1>10. ASSUME NEW r \in 1..Bytes, NEW k \in Found, Rank(k) = r - 1 PROVE k = b + r
  <2>1. CASE rows[k].cyc = c
    <3>1. k - b \in 1..Bytes /\ b + (k - b) = k
      BY <1>1, <1>4, <1>6, <2>1
    <3>2. Rank(k) = (k - b) - 1
      BY <1>7, <3>1
    <3> QED
      BY <1>10, <3>1, <3>2
  <2>2. CASE rows[k].cyc # c
    <3>1. rows[k].cyc < c
      BY <1>1, <1>4, <1>6, <2>2
    <3>2. ASSUME NEW j \in (b + 1)..(b + Bytes) PROVE j \in Before(k)
      <4>1. j - b \in 1..Bytes /\ b + (j - b) = j
        BY <1>1
      <4>2. j \in Found /\ rows[j].cyc = c
        BY <1>3, <4>1
      <4> QED
        BY <3>1, <4>2 DEF Ahead
    <3>3. IsFiniteSet(Before(k))
      BY <1>5, FS_Subset
    <3>4. Bytes <= Rank(k)
      <4> DEFINE block == (b + 1)..(b + Bytes)
                 ahead == Before(k)
      <4>1. block \subseteq ahead /\ IsFiniteSet(ahead) /\ Cardinality(block) = Bytes
        BY <1>8, <3>2, <3>3
      <4> HIDE DEF block, ahead
      <4>2. Bytes <= Cardinality(ahead)
        BY <4>1, FS_Subset
      <4> QED
        BY <4>2 DEF ahead
    <3> QED
      BY <1>1, <1>10, <3>4
  <2> QED
    BY <2>1, <2>2
<1>11. ASSUME NEW r \in 1..Bytes PROVE r \in DOMAIN Pool(t) /\ Pool(t)[r] = rows[b + r]
  <2>1. (CHOOSE i \in Found : Rank(i) = r - 1) = b + r
    <3>1. b + r \in Found /\ Rank(b + r) = r - 1
      BY <1>3, <1>7
    <3> HIDE DEF Rank
    <3> QED
      BY <1>10, <3>1
  <2> DEFINE Size == IF Cardinality(Found) < Bytes THEN Cardinality(Found) ELSE Bytes
  <2>2. Size = Bytes
    BY <1>1, <1>9
  <2>3. Pool(t) = [n \in 1..Size |-> rows[CHOOSE i \in Found : Rank(i) = n - 1]]
    BY DEF Pool, Found
  <2> HIDE DEF Size, Rank
  <2> QED
    BY <2>1, <2>2, <2>3
<1> QED
  BY <1>3, <1>11 DEF LastWrTrx

\* A write that was stored and not stored over compares.
LEMMA CompareLemma ==
  ASSUME TypeOK, RowsOfStored, NEW t \in Trx, Stored(t), ~Overwritten(t)
  PROVE  Compare(t)
<1>1. PICK c \in 1..Len(completed) : completed[c] = t
  BY DEF Stored, Range, TypeOK
<1>2. ASSUME NEW d \in 1..Len(completed), Stored(completed[d]), Addr[completed[d]] = Addr[t]
      PROVE  d <= c
  <2>1. completed[d] \in Trx /\ c \in Int /\ d \in Int
    BY DEF TypeOK
  <2>2. ~Earlier(t, completed[d])
    BY <1>2, <2>1 DEF Overwritten
  <2>3. ~(c < d)
    BY <1>1, <2>2 DEF Earlier
  <2> QED
    BY <2>1, <2>3
<1>3. Latest(c, t)
  BY <1>1, <1>2 DEF Latest
<1>4. \A r \in 1..Bytes : LastWrTrx(t)[r] = Data[t][r]
  BY <1>1, <1>3, QueryLemma
<1>5. LastWrTrx(t) = [r \in 1..Bytes |-> LastWrTrx(t)[r]]
  BY DEF LastWrTrx
<1>6. Data[t] = [r \in 1..Bytes |-> Data[t][r]]
  BY TrxAssumption, BytesAssumption
<1> QED
  BY <1>4, <1>5, <1>6 DEF Compare

-----------------------------------------------------------------------------
(***************************************************************************)
(* What the steps do to the completed and the stored writes                *)
(***************************************************************************)
\* completed, pending and unstored determine what was stored and in which order.
LEMMA SameWrites ==
  ASSUME UNCHANGED <<completed, pending, unstored>>
  PROVE  \A t, u : /\ Stored(t)' <=> Stored(t)
                   /\ Earlier(t, u)' <=> Earlier(t, u)
                   /\ HeldUp(t)' <=> HeldUp(t)
                   /\ Overwritten(t)' <=> Overwritten(t)
                   /\ Newest(t)' <=> Newest(t)
BY DEF Stored, Earlier, HeldUp, Overwritten, Newest

\* A write that completes is not stored yet, and nothing changes for the others.
LEMMA CompleteLemma ==
  ASSUME TypeOK, OneInHand, NEW t \in Trx, Complete(t)
  PROVE  /\ completed' \in Seq(Trx) /\ IsInjective(completed')
         /\ Len(completed') = Len(completed) + 1
         /\ \A i \in 1..Len(completed) : completed'[i] = completed[i]
         /\ completed'[Len(completed')] = t
         /\ Range(completed') = Range(completed) \cup {t} /\ t \notin Range(completed)
         /\ \A u \in Trx : Stored(u)' <=> Stored(u)
         /\ \A u, v : Earlier(u, v) => Earlier(u, v)'
<1>1. completed' = Append(completed, t) /\ completed \in Seq(Trx) /\ IsInjective(completed)
  BY DEF Complete, TypeOK
<1>2. t \notin Range(completed)
  BY TrxAssumption DEF Complete, OneInHand
<1>3. /\ completed' \in Seq(Trx) /\ IsInjective(completed')
      /\ Len(completed') = Len(completed) + 1
      /\ \A i \in 1..Len(completed) : completed'[i] = completed[i]
      /\ completed'[Len(completed) + 1] = t
      /\ Range(completed') = Range(completed) \cup {t}
  BY <1>1, <1>2, AppendLemma
<1>4. \A u \in Trx : Stored(u)' <=> Stored(u)
  <2>1. pending' \cup unstored' = pending \cup unstored \cup {t}
    BY DEF Complete
  <2> QED
    BY <1>2, <1>3, <2>1 DEF Stored
<1>5. \A u, v : Earlier(u, v) => Earlier(u, v)'
  <2>1. Len(completed) \in Nat
    BY <1>1
  <2> QED
    BY <1>3, <2>1 DEF Earlier
<1> QED
  BY <1>2, <1>3, <1>4, <1>5

\* What was stored is what was stored before, and the write of a Store.
LEMMA StoreLemma ==
  ASSUME TypeOK, OneInHand, NEW t \in Trx, Store(t)
  PROVE  /\ t \in Range(completed) /\ t = completed[Len(completed)]
         /\ quiet = 1 /\ resets = 0
         /\ \A u \in Trx : Stored(u)' <=> Stored(u) \/ u = t
         /\ \A u, v : Earlier(u, v)' <=> Earlier(u, v)
<1>1. t \in Range(completed) /\ t = completed[Len(completed)] /\ t \notin unstored
      /\ quiet = 1 /\ resets = 0
  BY DEF Store, TypeOK, OneInHand
<1>2. pending' = pending \ {t} /\ UNCHANGED <<unstored, completed>>
  BY DEF Store, busVars
<1> QED
  BY <1>1, <1>2 DEF Stored, Earlier

\* A reset stores nothing, and nothing it leaves in hand is stored later.
LEMMA ResetLemma ==
  ASSUME Reset
  PROVE  /\ completed' = completed
         /\ \A u : Stored(u)' <=> Stored(u)
         /\ \A u, v : Earlier(u, v)' <=> Earlier(u, v)
BY DEF Reset, Stored, Earlier

-----------------------------------------------------------------------------
(***************************************************************************)
(* Order and types                                                         *)
(***************************************************************************)
\* The box stays the end of the completed writes.
LEMMA InOrderStep ==
  ASSUME TypeOK, InOrder, OneInHand, [Next]_vars
  PROVE  InOrder'
<1> DEFINE n == Len(completed)
           w == Len(wbox)
<1>1. completed \in Seq(Trx) /\ wbox \in Seq(Trx) /\ n \in Nat /\ w \in Nat
      /\ n - w \in Nat
  BY DEF TypeOK, InOrder
<1>2. ASSUME NEW t \in Trx, Complete(t) PROVE InOrder'
  <2>1. /\ Len(completed') = n + 1 /\ completed'[n + 1] = t
        /\ \A i \in 1..n : completed'[i] = completed[i]
    BY <1>2, CompleteLemma
  <2>2. /\ Len(wbox') = w + 1 /\ wbox'[w + 1] = t
        /\ \A i \in 1..w : wbox'[i] = wbox[i]
    BY <1>1, <1>2, AppendLemma DEF Complete
  <2>3. item' = item
    BY <1>2 DEF Complete
  <2>4. \A i \in 1..w : wbox[i] = completed[(n - w) + i]
    BY DEF InOrder
  <2>5. item # NULL => n - w > 0 /\ item = completed[n - w]
    BY DEF InOrder
  <2> HIDE DEF n, w
  <2>6. ASSUME NEW i \in 1..(w + 1) PROVE wbox'[i] = completed'[(n - w) + i]
    <3>1. CASE i \in 1..w
      <4>1. (n - w) + i \in 1..n
        BY <1>1, <3>1
      <4> QED
        BY <2>1, <2>2, <2>4, <3>1, <4>1
    <3>2. CASE i = w + 1
      <4>1. (n - w) + i = n + 1
        BY <1>1, <3>2
      <4> QED
        BY <2>1, <2>2, <3>2, <4>1
    <3> QED
      BY <1>1, <3>1, <3>2
  <2>7. Len(completed') - Len(wbox') = n - w
    BY <1>1, <2>1, <2>2
  <2>8. n - w > 0 => completed'[n - w] = completed[n - w]
    BY <1>1, <2>1
  <2> QED
    BY <1>1, <2>2, <2>3, <2>5, <2>6, <2>7, <2>8 DEF InOrder
<1>3. CASE Take
  <2>1. wbox # <<>> /\ wbox' = Tail(wbox) /\ item' \in {NULL, Head(wbox)}
        /\ completed' = completed
    BY <1>3 DEF Take, busVars
  <2>2. /\ Len(wbox') = w - 1 /\ w > 0 /\ Head(wbox) = wbox[1]
        /\ \A i \in 1..(w - 1) : wbox'[i] = wbox[i + 1]
    BY <1>1, <2>1
  <2>3. \A i \in 1..w : wbox[i] = completed[(n - w) + i]
    BY DEF InOrder
  <2> HIDE DEF w
  <2>4. Len(completed') - Len(wbox') = (n - w) + 1
    BY <1>1, <2>1, <2>2
  <2>5. ASSUME NEW i \in 1..(w - 1) PROVE wbox'[i] = completed[((n - w) + 1) + i]
    <3>1. i + 1 \in 1..w /\ (n - w) + (i + 1) = ((n - w) + 1) + i
      BY <1>1, <2>2
    <3> QED
      BY <2>2, <2>3, <3>1
  <2>6. wbox[1] = completed[(n - w) + 1]
    BY <1>1, <2>2, <2>3
  <2> HIDE DEF n
  <2> QED
    BY <1>1, <2>1, <2>2, <2>4, <2>5, <2>6 DEF InOrder
<1>4. CASE UNCHANGED <<completed, wbox>> /\ item' \in {item, NULL}
  BY <1>4 DEF InOrder
<1> QED
  BY <1>2, <1>3, <1>4
     DEF Next, Bus, Slave, Tick, Begin, Store, TickIdle, TickWait, TickTimeout, Clock, Reset,
         Restart, vars, busVars, slaveVars, threadVars

\* The slave sequence stores what it has in hand within the clock.
LEMMA OneInHandStep ==
  ASSUME TypeOK, OneInHand, [Next]_vars
  PROVE  OneInHand'
<1>1. ASSUME NEW t \in Trx, Begin(t) PROVE OneInHand'
  BY <1>1 DEF OneInHand, Begin, Settled, slaveVars, threadVars
<1>2. ASSUME NEW t \in Trx, Complete(t) PROVE OneInHand'
  <2>1. completed'[Len(completed')] = t /\ t \notin Range(completed)
    BY <1>2, CompleteLemma
  <2>2. pending = {} /\ bus' = NULL /\ quiet' = 1 /\ resets' = resets /\ resets = 0
    BY <1>2, TrxAssumption DEF Complete, Settled, OneInHand
  <2>3. t \in pending' => t \notin unstored'
    BY <2>1, <2>2, <1>2 DEF Complete, TypeOK
  <2>4. pending' \subseteq {t}
    BY <2>2, <1>2 DEF Complete
  <2> QED
    BY <1>2, <2>1, <2>2, <2>3, <2>4 DEF OneInHand, Complete
<1>3. ASSUME NEW t \in Trx, Store(t) PROVE OneInHand'
  BY <1>3 DEF OneInHand, Store, busVars, threadVars
<1>4. CASE Take
  BY <1>4 DEF OneInHand, Take, busVars, slaveVars
<1>5. CASE Tick
  BY <1>5 DEF OneInHand, Tick, TickIdle, TickWait, TickTimeout, Clock, Settled, slaveVars
<1>6. CASE Reset
  <2>1. resets' > 0
    BY <1>6 DEF Reset, TypeOK
  <2> QED
    BY <1>6, <2>1 DEF OneInHand, Reset
<1>7. CASE Restart
  BY <1>7 DEF OneInHand, Restart, busVars, slaveVars
<1>8. CASE UNCHANGED vars
  BY <1>8 DEF OneInHand, vars, busVars, slaveVars, threadVars
<1> QED
  BY <1>1, <1>2, <1>3, <1>4, <1>5, <1>6, <1>7, <1>8 DEF Next, Bus, Slave

\* A row of the table, when n writes are completed
Row(n) == [addr : Cells, data : 0..255, cyc : 1..n]

\* The rows of a write
RowsOf(t, c) == [i \in 1..Bytes |-> [addr |-> Addr[t] + i - 1, data |-> Data[t][i], cyc |-> c]]

\* The data of a write are bytes.
LEMMA DataLemma ==
  ASSUME NEW t \in Trx, NEW i \in 1..Bytes
  PROVE  Data[t][i] \in 0..255
<1> DEFINE d == Data[t]
           B == 0..255
<1>1. d \in Seq(B) /\ Len(d) = Bytes
  BY TrxAssumption
<1> HIDE DEF d, B
<1>2. d[i] \in B
  BY <1>1
<1> QED
  BY <1>2 DEF d, B

\* They are rows, as many as the word has bytes.
LEMMA RowsOfLemma ==
  ASSUME NEW t \in Trx, NEW n \in Nat, NEW c \in 1..n
  PROVE  RowsOf(t, c) \in Seq(Row(n)) /\ Len(RowsOf(t, c)) = Bytes
<1>1. Bytes \in Nat /\ Addr[t] \in Nat
  BY TrxAssumption, BytesAssumption
<1>2. ASSUME NEW i \in 1..Bytes PROVE RowsOf(t, c)[i] \in Row(n)
  <2>1. Addr[t] + i - 1 \in Word(t) /\ Word(t) \subseteq Cells
    BY <1>1 DEF Word, Cells
  <2>2. Data[t][i] \in 0..255
    BY DataLemma
  <2> QED
    BY <2>1, <2>2 DEF RowsOf, Row
<1>3. RowsOf(t, c) \in [1..Bytes -> Row(n)]
  BY <1>2 DEF RowsOf
<1> QED
  BY <1>1, <1>3

\* What has more room holds what has less.
LEMMA RowsMonotonic ==
  ASSUME NEW n \in Nat, NEW s \in Seq(Row(n))
  PROVE  s \in Seq(Row(n + 1))
<1>1. \A x \in Row(n) : x \in Row(n + 1)
  <2>1. \A i \in 1..n : i \in 1..(n + 1)
    OBVIOUS
  <2> QED
    BY <2>1 DEF Row
<1> QED
  BY <1>1

\* A Store appends the rows of the last write to the table.
LEMMA StoreRows ==
  ASSUME TypeOK, OneInHand, NEW t \in Trx, Store(t)
  PROVE  /\ rows' = rows \o RowsOf(t, Len(completed))
         /\ Len(completed) \in Nat /\ Len(completed) \in 1..Len(completed)
<1>1. t \in Range(completed) /\ t = completed[Len(completed)]
  BY StoreLemma
<1>2. Len(completed) \in Nat /\ Len(completed) \in 1..Len(completed)
  BY <1>1 DEF TypeOK, Range
<1>3. Cyc(t) = Len(completed)
  BY <1>1, <1>2, CycLemma DEF TypeOK
<1> QED
  BY <1>2, <1>3 DEF Store, Insert, RowsOf

\* A write waits in one place after a step, if it does so in order.
LEMMA BoxLemma ==
  ASSUME completed' \in Seq(Trx), IsInjective(completed'), wbox' \in Seq(Trx),
         item' \in Trx \cup {NULL}, InOrder'
  PROVE  IsInjective(wbox') /\ item' \in (Trx \ Range(wbox')) \cup {NULL}
<1> DEFINE n == Len(completed') - Len(wbox')
<1>1. n \in Nat /\ \A i \in 1..Len(wbox') : wbox'[i] = completed'[n + i]
  BY DEF InOrder
<1>2. item' # NULL => n > 0 /\ item' = completed'[n]
  BY DEF InOrder
<1>3. Len(completed') - Len(wbox') = n
  OBVIOUS
<1> HIDE DEF n
<1>4. IsInjective(wbox') /\ (n > 0 => completed'[n] \notin Range(wbox'))
  BY <1>1, <1>3, SuffixLemma
<1> QED
  BY <1>2, <1>4

\* The types hold initially.
LEMMA TypeInit == Init => TypeOK
<1> SUFFICES ASSUME Init PROVE TypeOK
  OBVIOUS
<1>1. Range(<<>>) = {} /\ IsInjective(<<>>)
  BY DEF Range, IsInjective
<1>2. timeout \in Nat /\ timeout > 0 /\ resets \in 0..MaxResets
  BY TimeoutsAssumption DEF Init
<1>3. memory \in [Cells -> 0..255 \cup {NULL}]
  BY DEF Init
<1> QED
  BY <1>1, <1>2, <1>3 DEF Init, TypeOK

\* ... and after every step.
LEMMA TypeStep ==
  ASSUME TypeOK, InOrder, OneInHand, [Next]_vars
  PROVE  TypeOK'
<1>1. InOrder' /\ timeout \in Nat /\ timeout >= 2 /\ MaxResets \in Nat /\ resets \in Nat
  BY InOrderStep, TimeoutsAssumption DEF TypeOK
<1>2. ASSUME NEW t \in Trx, Begin(t) PROVE TypeOK'
  <2>1. bus' = t /\ quiet' = 1
    BY <1>2 DEF Begin
  <2>2. UNCHANGED <<timeout, completed, slaveVars, threadVars, resets>>
    BY <1>2 DEF Begin
  <2>3. bus' \in Trx \cup {NULL} /\ quiet' \in 0..1
    BY <2>1
  <2> QED
    BY <2>2, <2>3 DEF TypeOK, slaveVars, threadVars
<1>3. ASSUME NEW t \in Trx, Complete(t) PROVE TypeOK'
  <2>1. /\ completed' \in Seq(Trx) /\ IsInjective(completed')
        /\ Len(completed') = Len(completed) + 1
        /\ Range(completed') = Range(completed) \cup {t}
    BY <1>3, CompleteLemma
  <2>2. rows' \in Seq([addr : Cells, data : 0..255, cyc : 1..Len(completed')])
    <3>1. rows' = rows /\ rows \in Seq(Row(Len(completed))) /\ Len(completed) \in Nat
      BY <1>3 DEF Complete, TypeOK, Row
    <3>2. rows' \in Seq(Row(Len(completed) + 1))
      BY <3>1, RowsMonotonic
    <3> QED
      BY <2>1, <3>2 DEF Row
  <2>3. wbox' \in Seq(Trx)
    BY <1>3 DEF Complete, TypeOK
  <2>4. IsInjective(wbox') /\ item' \in (Trx \ Range(wbox')) \cup {NULL}
    <3>1. item' \in Trx \cup {NULL}
      BY <1>3 DEF Complete, TypeOK
    <3> QED
      BY <1>1, <2>1, <2>3, <3>1, BoxLemma
  <2>5. pending' \subseteq Range(completed') /\ unstored' \subseteq Range(completed')
    BY <1>3, <2>1 DEF Complete, TypeOK
  <2> QED
    BY <1>3, <2>1, <2>2, <2>3, <2>4, <2>5 DEF Complete, TypeOK
<1>4. ASSUME NEW t \in Trx, Store(t) PROVE TypeOK'
  <2>1. rows' \in Seq([addr : Cells, data : 0..255, cyc : 1..Len(completed')])
    <3> DEFINE c == Len(completed)
    <3>1. rows \in Seq(Row(c)) /\ completed' = completed
      BY <1>4 DEF Store, busVars, TypeOK, Row
    <3>2. rows' = rows \o RowsOf(t, c) /\ c \in Nat /\ c \in 1..c
      BY <1>4, StoreRows
    <3>3. RowsOf(t, c) \in Seq(Row(c))
      BY <3>2, RowsOfLemma
    <3>4. rows' \in Seq(Row(c))
      BY <3>1, <3>2, <3>3
    <3> QED
      BY <3>1, <3>4 DEF Row
  <2>2. memory' \in [Cells -> 0..255 \cup {NULL}]
    <3>1. ASSUME NEW a \in Word(t) PROVE Data[t][a - Addr[t] + 1] \in 0..255
      <4>1. Bytes \in Nat /\ Addr[t] \in Nat
        BY TrxAssumption, BytesAssumption
      <4>2. a - Addr[t] + 1 \in 1..Bytes
        BY <3>1, <4>1 DEF Word
      <4> QED
        BY <4>2, DataLemma
    <3>2. memory' = [a \in Cells |->
                       IF a \in Word(t) THEN Data[t][a - Addr[t] + 1] ELSE memory[a]]
      BY <1>4 DEF Store
    <3>3. memory \in [Cells -> 0..255 \cup {NULL}]
      BY DEF TypeOK
    <3> QED
      BY <3>1, <3>2, <3>3
  <2> QED
    BY <1>4, <2>1, <2>2 DEF Store, busVars, threadVars, TypeOK
<1>5. CASE Take
  <2>1. completed' = completed /\ completed \in Seq(Trx) /\ IsInjective(completed)
    BY <1>5 DEF Take, busVars, TypeOK
  <2>2. wbox' \in Seq(Trx) /\ item' \in Trx \cup {NULL}
    <3>1. wbox \in Seq(Trx) /\ wbox # <<>> /\ wbox' = Tail(wbox)
          /\ item' \in {NULL, Head(wbox)}
      BY <1>5 DEF Take, TypeOK
    <3> QED
      BY <3>1
  <2>4. IsInjective(wbox') /\ item' \in (Trx \ Range(wbox')) \cup {NULL}
    BY <1>1, <2>1, <2>2, BoxLemma
  <2>5. left' \in 0..timeout' /\ (item' # NULL => left' > 0)
    BY <1>1, <1>5 DEF Take
  <2>6. UNCHANGED <<timeout, bus, quiet, completed, pending, unstored, rows, memory, running,
                    reported, dropped, resets>>
    BY <1>5 DEF Take, busVars, slaveVars
  <2> QED
    BY <2>2, <2>4, <2>5, <2>6 DEF TypeOK
<1>6. CASE Tick
  <2>1. quiet' \in 0..1 /\ Clock
    BY <1>6 DEF Tick, TickIdle, TickWait, TickTimeout, Clock, TypeOK
  <2>2. left' \in 0..timeout /\ (item' # NULL => left' > 0) /\ item' \in {item, NULL}
    BY <1>1, <1>6 DEF Tick, TickIdle, TickWait, TickTimeout, TypeOK
  <2>3. reported' \subseteq Range(completed)
    <3>1. item # NULL => item \in Range(completed)
      BY DEF TypeOK, InOrder, Range
    <3> QED
      BY <1>6, <3>1 DEF Tick, TickIdle, TickWait, TickTimeout, TypeOK
  <2> QED
    BY <2>1, <2>2, <2>3 DEF Clock, slaveVars, TypeOK
<1>7. CASE Reset
  <2>1. item # NULL => item \in Range(completed)
    BY DEF TypeOK, InOrder, Range
  <2>2. memory' \in [Cells -> 0..255 \cup {NULL}]
    BY <1>7 DEF Reset
  <2>3. resets' \in 0..MaxResets
    BY <1>1, <1>7 DEF Reset
  <2>4. /\ bus' = NULL /\ quiet' = 1 /\ running' = FALSE /\ item' = NULL /\ left' = 0
        /\ pending' = {} /\ unstored' = unstored \cup pending
        /\ dropped' = dropped \cup ({item} \ {NULL})
        /\ UNCHANGED <<timeout, completed, rows, wbox, reported>>
    BY <1>7 DEF Reset
  <2>5. dropped' \subseteq Range(completed') /\ left' \in 0..timeout'
    BY <1>1, <2>1, <2>4 DEF TypeOK
  <2>6. bus' \in Trx \cup {NULL} /\ quiet' \in 0..1
    BY <2>4
  <2>7. running' \in BOOLEAN
    BY <1>7, Zenon DEF Reset
  <2>8. item' \in (Trx \ Range(wbox')) \cup {NULL} /\ (item' # NULL => left' > 0)
    BY <2>4
  <2>9. pending' \subseteq Range(completed') /\ unstored' \subseteq Range(completed')
    BY <2>4 DEF TypeOK
  <2> QED
    BY <2>2, <2>3, <2>4, <2>5, <2>6, <2>7, <2>8, <2>9 DEF TypeOK
<1>8. CASE Restart
  BY <1>8 DEF Restart, busVars, slaveVars, TypeOK
<1>9. CASE UNCHANGED vars
  BY <1>9 DEF vars, busVars, slaveVars, threadVars, TypeOK
<1> QED
  BY <1>2, <1>3, <1>4, <1>5, <1>6, <1>7, <1>8, <1>9 DEF Next, Bus, Slave

-----------------------------------------------------------------------------
(***************************************************************************)
(* The table and the memory                                                *)
(***************************************************************************)
\* The table after a Store: what it was, and a row for every byte.
LEMMA StoredRows ==
  ASSUME TypeOK, OneInHand, NEW t \in Trx, Store(t)
  PROVE  /\ Len(rows) \in Nat /\ Len(rows') = Len(rows) + Bytes
         /\ \A j \in 1..Len(rows) : rows'[j] = rows[j]
         /\ \A i \in 1..Bytes : rows'[Len(rows) + i] =
              [addr |-> Addr[t] + i - 1, data |-> Data[t][i], cyc |-> Len(completed)]
<1> DEFINE c == Len(completed)
           new == RowsOf(t, c)
           R == Row(c)
<1>1. rows' = rows \o new /\ c \in Nat /\ c \in 1..c
  BY StoreRows
<1>2. new \in Seq(R) /\ Len(new) = Bytes
  BY <1>1, RowsOfLemma
<1>3. rows \in Seq(R)
  BY DEF TypeOK, Row
<1>4. \A i \in 1..Bytes : new[i] = [addr |-> Addr[t] + i - 1, data |-> Data[t][i], cyc |-> c]
  BY DEF RowsOf
<1> HIDE DEF new, R
<1>5. /\ Len(rows) \in Nat /\ Len(rows') = Len(rows) + Bytes
      /\ \A j \in 1..Len(rows) : rows'[j] = rows[j]
  BY <1>1, <1>2, <1>3
<1>6. \A i \in 1..Bytes : rows'[Len(rows) + i] = new[i]
  <2> TAKE i \in 1..Bytes
  <2>1. Len(rows) + i \in 1..(Len(rows) + Len(new)) /\ ~(Len(rows) + i <= Len(rows))
        /\ (Len(rows) + i) - Len(rows) = i
    BY <1>2, <1>5, BytesAssumption
  <2> QED
    BY <1>1, <1>2, <1>3, <2>1
<1> QED
  BY <1>4, <1>5, <1>6

\* The clocks of the rows are those of completed writes.
LEMMA CycType ==
  ASSUME TypeOK
  PROVE  \A j \in 1..Len(rows) : rows[j].cyc \in 1..Len(completed)
<1> DEFINE R == Row(Len(completed))
<1>1. rows \in Seq(R)
  BY DEF TypeOK, Row
<1>2. \A x \in R : x.cyc \in 1..Len(completed)
  BY DEF Row
<1> HIDE DEF R
<1> QED
  BY <1>1, <1>2

\* The rows stay those of the stored writes.
LEMMA RowsStep ==
  ASSUME TypeOK, OneInHand, RowsOfStored, [Next]_vars
  PROVE  RowsOfStored'
<1> DEFINE n == Len(completed)
<1>1. completed \in Seq(Trx) /\ n \in Nat /\ \A c \in 1..n : completed[c] \in Trx
  BY DEF TypeOK
<1>2. \A j \in 1..Len(rows) : rows[j].cyc \in 1..n
  BY CycType
<1>3. ASSUME NEW t \in Trx, Complete(t) PROVE RowsOfStored'
  <2>1. /\ Len(completed') = n + 1 /\ completed'[n + 1] = t /\ t \notin Range(completed)
        /\ \A c \in 1..n : completed'[c] = completed[c]
        /\ \A u \in Trx : Stored(u)' <=> Stored(u)
    BY <1>3, CompleteLemma
  <2>2. rows' = rows
    BY <1>3 DEF Complete
  <2>3. \A c \in 1..n : Stored(completed[c])' <=> Stored(completed[c])
    BY <1>1, <2>1
  <2>4. ~Stored(t)'
    BY <2>1 DEF Stored
  <2>5. ASSUME NEW c \in 1..(n + 1), Stored(completed[c])' PROVE \E b \in Nat : Block(b, c)'
    <3>1. c \in 1..n
      BY <1>1, <2>1, <2>4, <2>5
    <3>2. Stored(completed[c])
      BY <2>1, <2>3, <2>5, <3>1
    <3>3. PICK b \in Nat : Block(b, c)
      BY <3>1, <3>2 DEF RowsOfStored
    <3>4. Block(b, c)'
      BY <2>1, <2>2, <3>1, <3>3 DEF Block
    <3> QED
      BY <3>4
  <2>6. ASSUME NEW j \in 1..Len(rows) PROVE Stored(completed[rows[j].cyc])'
    <3>1. Stored(completed[rows[j].cyc])
      BY DEF RowsOfStored
    <3> DEFINE c == rows[j].cyc
    <3>2. c \in 1..n /\ rows'[j].cyc = c
      BY <1>2, <2>2
    <3> HIDE DEF c
    <3>3. Stored(completed[c])'
      BY <2>3, <3>1, <3>2 DEF c
    <3> QED
      BY <2>2, <3>3 DEF c
  <2> HIDE DEF n
  <2> QED
    BY <2>1, <2>2, <2>5, <2>6 DEF RowsOfStored
<1>4. ASSUME NEW t \in Trx, Store(t) PROVE RowsOfStored'
  <2>1. PICK m \in Nat : m = Len(rows)
    BY <1>4, StoredRows
  <2>2. /\ t \in Range(completed) /\ t = completed[n]
        /\ \A u \in Trx : Stored(u)' <=> Stored(u) \/ u = t
    BY <1>4, StoreLemma
  <2>3. completed' = completed /\ ~Stored(t)
    BY <1>4 DEF Store, busVars, Stored
  <2>4. /\ m \in Nat /\ Len(rows') = m + Bytes
        /\ \A j \in 1..m : rows'[j] = rows[j]
        /\ \A i \in 1..Bytes : rows'[m + i] =
             [addr |-> Addr[t] + i - 1, data |-> Data[t][i], cyc |-> n]
    BY <1>4, <2>1, StoredRows
  <2>5. Bytes \in Nat
    BY BytesAssumption
  <2>6. \A j \in 1..(m + Bytes) : j \in 1..m \/ (j - m \in 1..Bytes /\ j = m + (j - m))
    BY <2>4, <2>5
  <2> HIDE DEF n
  <2>7. ASSUME NEW j \in 1..(m + Bytes), j \notin 1..m PROVE rows'[j].cyc = n
    <3> DEFINE i == j - m
    <3>1. i \in 1..Bytes /\ j = m + i
      BY <2>6, <2>7
    <3> HIDE DEF i
    <3>2. rows'[m + i] = [addr |-> Addr[t] + i - 1, data |-> Data[t][i], cyc |-> n]
      BY <2>4, <3>1
    <3> QED
      BY <3>1, <3>2
  <2>8. ASSUME NEW c \in 1..n, Stored(completed[c])' PROVE \E b \in Nat : Block(b, c)'
    <3>1. CASE Stored(completed[c])
      <4>1. PICK b \in Nat : Block(b, c)
        BY <3>1 DEF RowsOfStored, n
      <4>2. c # n
        BY <2>2, <2>3, <3>1
      <4>3. b + Bytes <= m /\ \A i \in 1..Bytes : b + i \in 1..m
        BY <2>1, <2>4, <2>5, <4>1 DEF Block
      <4>4. \A i \in 1..Bytes : rows'[b + i] =
              [addr |-> Addr[completed[c]] + i - 1, data |-> Data[completed[c]][i], cyc |-> c]
        BY <2>4, <4>1, <4>3 DEF Block
      <4>5. \A j \in 1..(m + Bytes) : rows'[j].cyc = c => j \in (b + 1)..(b + Bytes)
        BY <2>1, <2>4, <2>7, <4>1, <4>2 DEF Block
      <4>6. b + Bytes <= m + Bytes
        BY <2>4, <2>5, <4>3
      <4> QED
        BY <2>3, <2>4, <4>4, <4>5, <4>6 DEF Block
    <3>2. CASE ~Stored(completed[c])
      <4>1. completed[c] = t
        BY <1>1, <2>2, <2>3, <2>8, <3>2 DEF n
      <4>2. c = n
        BY <1>1, <2>2, <4>1 DEF IsInjective, TypeOK, n
      <4>3. \A j \in 1..(m + Bytes) : rows'[j].cyc = n => j \in (m + 1)..(m + Bytes)
        <5> TAKE j \in 1..(m + Bytes)
        <5>1. j \in 1..m => rows'[j].cyc # n
          BY <2>1, <2>2, <2>3, <2>4 DEF RowsOfStored
        <5> QED
          BY <2>4, <2>5, <5>1
      <4>4. Block(m, c)'
        BY <2>3, <2>4, <2>5, <4>1, <4>2, <4>3 DEF Block
      <4> QED
        BY <2>4, <4>4
    <3> QED
      BY <3>1, <3>2
  <2>9. ASSUME NEW j \in 1..(m + Bytes) PROVE Stored(completed[rows[j].cyc])'
    <3>1. CASE j \in 1..m
      <4>1. rows'[j] = rows[j] /\ completed[rows[j].cyc] \in Trx
            /\ Stored(completed[rows[j].cyc])
        BY <2>1, <1>1, <1>2, <2>4, <3>1 DEF RowsOfStored, n
      <4> QED
        BY <2>2, <2>3, <4>1
    <3>2. CASE j \notin 1..m
      BY <2>2, <2>3, <2>7, <3>2
    <3> QED
      BY <3>1, <3>2
  <2> QED
    BY <2>3, <2>4, <2>8, <2>9 DEF RowsOfStored, n
<1>5. CASE Reset
  <2>1. completed' = completed /\ rows' = rows /\ \A u : Stored(u)' <=> Stored(u)
    BY <1>5, ResetLemma DEF Reset
  <2> QED
    BY <2>1 DEF RowsOfStored, Block
<1>6. CASE UNCHANGED <<completed, pending, unstored, rows>>
  <2>1. \A u : Stored(u)' <=> Stored(u)
    BY <1>6, SameWrites
  <2> QED
    BY <1>6, <2>1 DEF RowsOfStored, Block
<1> QED
  BY <1>3, <1>4, <1>5, <1>6
     DEF Next, Bus, Slave, Tick, Begin, Take, TickIdle, TickWait, TickTimeout, Clock,
         Restart, vars, busVars, slaveVars, threadVars

\* The cells of a word
LEMMA WordLemma ==
  ASSUME NEW t \in Trx
  PROVE  /\ Addr[t] \in Word(t) /\ \A i \in 1..Bytes : Addr[t] + i - 1 \in Word(t)
         /\ \A i \in 1..Bytes : (Addr[t] + i - 1) - Addr[t] + 1 = i
         /\ Word(t) \subseteq Cells
BY TrxAssumption, BytesAssumption DEF Word, Cells

\* The memory stays that of the last writes, until a reset empties it for good.
LEMMA MemoryStep ==
  ASSUME TypeOK, OneInHand, MemoryOfLatest, [Next]_vars
  PROVE  MemoryOfLatest'
<1> DEFINE n == Len(completed)
<1>1. completed \in Seq(Trx) /\ n \in Nat /\ \A c \in 1..n : completed[c] \in Trx
  BY DEF TypeOK
<1>2. ASSUME NEW t0 \in Trx, Complete(t0) PROVE MemoryOfLatest'
  <2>1. /\ Len(completed') = n + 1 /\ completed'[n + 1] = t0 /\ t0 \notin Range(completed)
        /\ \A c \in 1..n : completed'[c] = completed[c]
        /\ \A u \in Trx : Stored(u)' <=> Stored(u)
    BY <1>2, CompleteLemma
  <2>2. memory' = memory
    BY <1>2 DEF Complete
  <2>3. ~Stored(t0)'
    BY <2>1 DEF Stored
  <2>4. \A c \in 1..n : Stored(completed[c])' <=> Stored(completed[c])
    BY <1>1, <2>1
  <2>5. ASSUME NEW t \in Trx, NEW c \in 1..n, Latest(c, t) PROVE Latest(c, t)'
    <3>1. Stored(completed[c])' /\ Addr[completed'[c]] = Addr[t]
      BY <2>1, <2>4, <2>5 DEF Latest
    <3>2. ASSUME NEW d \in 1..(n + 1), Stored(completed[d])', Addr[completed'[d]] = Addr[t]
          PROVE  d <= c
      <4>1. d \in 1..n
        BY <1>1, <2>1, <2>3, <3>2
      <4> QED
        BY <2>1, <2>4, <2>5, <3>2, <4>1 DEF Latest
    <3> QED
      BY <2>1, <3>1, <3>2 DEF Latest
  <2>6. ASSUME NEW t \in Trx, memory[Addr[t]] # NULL
        PROVE  \E c \in 1..n : /\ Latest(c, t)'
                               /\ \A i \in 1..Bytes :
                                    memory'[Addr[t] + i - 1] = Data[completed'[c]][i]
    <3>1. PICK c \in 1..n :
             /\ Latest(c, t)
             /\ \A i \in 1..Bytes : memory[Addr[t] + i - 1] = Data[completed[c]][i]
      BY <2>6 DEF MemoryOfLatest
    <3> QED
      BY <2>1, <2>2, <2>5, <3>1
  <2>7. \A c \in 1..n : c \in 1..(n + 1)
    BY <1>1
  <2> HIDE DEF n
  <2> QED
    BY <2>1, <2>2, <2>6, <2>7 DEF MemoryOfLatest
<1>3. ASSUME NEW t0 \in Trx, Store(t0) PROVE MemoryOfLatest'
  <2>1. /\ t0 \in Range(completed) /\ t0 = completed[n]
        /\ \A u \in Trx : Stored(u)' <=> Stored(u) \/ u = t0
    BY <1>3, StoreLemma
  <2>2. completed' = completed /\ n \in 1..n
    BY <1>1, <1>3, <2>1 DEF Store, busVars, Range
  <2>3. memory' = [a \in Cells |->
                     IF a \in Word(t0) THEN Data[t0][a - Addr[t0] + 1] ELSE memory[a]]
    BY <1>3 DEF Store
  <2>4. \A c \in 1..n : Stored(completed[c])' <=> Stored(completed[c]) \/ completed[c] = t0
    BY <1>1, <2>1, <2>2
  <2> SUFFICES ASSUME NEW t \in Trx, memory'[Addr[t]] # NULL
               PROVE  \E c \in 1..n : /\ Latest(c, t)'
                                      /\ \A i \in 1..Bytes :
                                           memory'[Addr[t] + i - 1] = Data[completed[c]][i]
    BY <2>2 DEF MemoryOfLatest
  <2>5. CASE Addr[t] = Addr[t0]
    <3>1. Latest(n, t)'
      <4>1. Stored(completed[n])' /\ Addr[completed'[n]] = Addr[t]
        BY <2>1, <2>2, <2>4, <2>5
      <4>2. \A d \in 1..n : d <= n
        BY <1>1
      <4> QED
        BY <2>2, <4>1, <4>2 DEF Latest
    <3>2. ASSUME NEW i \in 1..Bytes PROVE memory'[Addr[t] + i - 1] = Data[completed[n]][i]
      <4> DEFINE a == Addr[t0] + i - 1
      <4>1. a \in Word(t0) /\ a \in Cells /\ a - Addr[t0] + 1 = i
        BY WordLemma
      <4>2. a = Addr[t] + i - 1
        BY <2>5
      <4> HIDE DEF a
      <4>3. memory'[a] = Data[t0][i]
        BY <2>3, <4>1
      <4> QED
        BY <2>1, <4>2, <4>3
    <3> QED
      BY <2>2, <3>1, <3>2
  <2>6. CASE Addr[t] # Addr[t0]
    <3>1. ASSUME NEW i \in 1..Bytes PROVE memory'[Addr[t] + i - 1] = memory[Addr[t] + i - 1]
      <4> DEFINE a == Addr[t] + i - 1
      <4>1. a \in Cells
        BY WordLemma
      <4>2. a \notin Word(t0)
        BY <2>6, AlignedLemma
      <4> HIDE DEF a
      <4>3. memory'[a] = memory[a]
        BY <2>3, <4>1, <4>2
      <4> QED
        BY <4>3 DEF a
    <3>2. memory[Addr[t]] # NULL
      <4>1. 1 \in 1..Bytes /\ Addr[t] + 1 - 1 = Addr[t]
        BY TrxAssumption, BytesAssumption
      <4> QED
        BY <3>1, <4>1
    <3>3. PICK c \in 1..n :
             /\ Latest(c, t)
             /\ \A i \in 1..Bytes : memory[Addr[t] + i - 1] = Data[completed[c]][i]
      BY <3>2 DEF MemoryOfLatest
    <3>4. Latest(c, t)'
      <4>1. Stored(completed[c])' /\ Addr[completed'[c]] = Addr[t]
        BY <2>2, <2>4, <3>3 DEF Latest
      <4>2. ASSUME NEW d \in 1..n, Stored(completed[d])', Addr[completed[d]] = Addr[t]
            PROVE  d <= c
        BY <2>4, <2>6, <3>3, <4>2 DEF Latest
      <4> QED
        BY <2>2, <4>1, <4>2 DEF Latest
    <3> QED
      BY <3>1, <3>3, <3>4
  <2> QED
    BY <2>5, <2>6
<1>4. CASE Reset
  <2>1. ASSUME NEW t \in Trx PROVE memory'[Addr[t]] = NULL
    <3>1. Addr[t] \in Cells
      BY WordLemma
    <3> QED
      BY <1>4, <3>1 DEF Reset
  <2> QED
    BY <2>1 DEF MemoryOfLatest
<1>5. CASE UNCHANGED <<completed, pending, unstored, memory>>
  <2>1. \A u : Stored(u)' <=> Stored(u)
    BY <1>5, SameWrites
  <2> QED
    BY <1>5, <2>1 DEF MemoryOfLatest, Latest
<1> QED
  BY <1>2, <1>3, <1>4, <1>5
     DEF Next, Bus, Slave, Tick, Begin, Take, TickIdle, TickWait, TickTimeout, Clock,
         Restart, vars, busVars, slaveVars, threadVars

-----------------------------------------------------------------------------
(***************************************************************************)
(* The backlog                                                             *)
(***************************************************************************)
\* The last write is not stored over, and what comes after a write that is held up
\* is held up too.
LEMMA NewestLemma ==
  ASSUME TypeOK
  PROVE  /\ \A t \in Trx : Newest(t) => ~Overwritten(t) /\ t \in Range(completed)
         /\ \A t, u : HeldUp(t) /\ Earlier(t, u) => HeldUp(u)
<1>1. /\ completed \in Seq(Trx) /\ Len(completed) \in Nat
      /\ \A i, j \in 1..Len(completed) : completed[i] = completed[j] => i = j
  BY DEF TypeOK, IsInjective
<1>2. ASSUME NEW t \in Trx, Newest(t) PROVE t \in Range(completed)
  BY <1>1, <1>2 DEF Newest, Range
<1>3. ASSUME NEW t \in Trx, Newest(t), NEW u, Earlier(t, u) PROVE FALSE
  <2>1. PICK i, j \in 1..Len(completed) : i < j /\ completed[i] = t
    BY <1>3 DEF Earlier
  <2>2. Len(completed) \in 1..Len(completed) /\ completed[Len(completed)] = t
    BY <1>1, <1>3, <2>1 DEF Newest
  <2>3. i = Len(completed)
    BY <1>1, <2>1, <2>2
  <2> QED
    BY <1>1, <2>1, <2>3
<1>4. ASSUME NEW t, NEW u, NEW v, Earlier(v, t), Earlier(t, u) PROVE Earlier(v, u)
  <2>1. PICK i, j \in 1..Len(completed) : i < j /\ completed[i] = v /\ completed[j] = t
    BY <1>4 DEF Earlier
  <2>2. PICK k, l \in 1..Len(completed) : k < l /\ completed[k] = t /\ completed[l] = u
    BY <1>4 DEF Earlier
  <2>3. j = k
    BY <1>1, <2>1, <2>2
  <2>4. i < l
    BY <1>1, <2>1, <2>2, <2>3
  <2> QED
    BY <2>1, <2>2, <2>4 DEF Earlier
<1>5. ASSUME NEW t, NEW u, HeldUp(t), Earlier(t, u) PROVE HeldUp(u)
  BY <1>4, <1>5 DEF HeldUp
<1> QED
  BY <1>2, <1>3, <1>5 DEF Overwritten

\* What was stored, stored over or held up stays so.
LEMMA FateKept ==
  ASSUME TypeOK, OneInHand, [Next]_vars
  PROVE  /\ unstored \subseteq unstored'
         /\ \A t \in Trx : (HeldUp(t) => HeldUp(t)') /\ (Overwritten(t) => Overwritten(t)')
<1> SUFFICES /\ unstored \subseteq unstored'
             /\ \A u \in Trx : Stored(u) => Stored(u)'
             /\ \A u, v : Earlier(u, v) => Earlier(u, v)'
  BY DEF HeldUp, Overwritten
<1>1. ASSUME NEW t \in Trx, Complete(t)
      PROVE  /\ unstored \subseteq unstored'
             /\ \A u \in Trx : Stored(u) => Stored(u)'
             /\ \A u, v : Earlier(u, v) => Earlier(u, v)'
  BY <1>1, CompleteLemma DEF Complete
<1>2. ASSUME NEW t \in Trx, Store(t)
      PROVE  /\ unstored \subseteq unstored'
             /\ \A u \in Trx : Stored(u) => Stored(u)'
             /\ \A u, v : Earlier(u, v) => Earlier(u, v)'
  BY <1>2, StoreLemma DEF Store
<1>3. CASE Reset
  BY <1>3, ResetLemma DEF Reset
<1>4. CASE UNCHANGED <<completed, pending, unstored>>
  BY <1>4, SameWrites
<1> QED
  BY <1>1, <1>2, <1>3, <1>4
     DEF Next, Bus, Slave, Tick, Begin, Take, TickIdle, TickWait, TickTimeout, Clock,
         Restart, vars, busVars, slaveVars, threadVars

\* What is compared in vain, once nothing is pending, will not be stored or was stored
\* over.
LEMMA InVain ==
  ASSUME TypeOK, RowsOfStored, NEW t \in Trx, t \in Range(completed), t \notin pending,
         ~Compare(t)
  PROVE  t \in unstored \/ Overwritten(t)
BY CompareLemma DEF Stored

\* What waits is completed, and what waits behind another write is later.
LEMMA WaitingLemma ==
  ASSUME TypeOK, InOrder
  PROVE  /\ \A t \in Range(wbox) \cup ({item} \ {NULL}) : t \in Trx /\ t \in Range(completed)
         /\ item # NULL => \A t \in Range(wbox) : Earlier(item, t) /\ ~Newest(item)
<1> DEFINE n == Len(completed)
           w == Len(wbox)
           k == n - w
<1>1. /\ completed \in Seq(Trx) /\ DOMAIN completed = 1..n /\ n \in Nat
      /\ wbox \in Seq(Trx) /\ DOMAIN wbox = 1..w /\ w \in Nat /\ k \in Nat
      /\ \A i, j \in 1..n : completed[i] = completed[j] => i = j
  BY DEF TypeOK, InOrder, IsInjective
<1>2. /\ \A i \in 1..w : wbox[i] = completed[k + i]
      /\ item # NULL => k > 0 /\ item = completed[k]
  BY DEF InOrder
<1>3. n = k + w
  BY <1>1
<1> HIDE DEF k, w, n
<1>4. ASSUME NEW i \in 1..w PROVE k + i \in 1..n /\ i \in Nat /\ i > 0
  BY <1>1, <1>3
<1>5. item # NULL => k \in 1..n
  BY <1>1, <1>2, <1>3
<1>6. \A t \in Range(wbox) : \E i \in 1..w : t = wbox[i]
  BY <1>1 DEF Range
<1>7. ASSUME NEW t \in Range(wbox) \cup ({item} \ {NULL}) PROVE t \in Range(completed)
  <2>1. \A i \in 1..n : completed[i] \in Range(completed)
    BY <1>1 DEF Range
  <2>2. CASE t \in Range(wbox)
    BY <1>2, <1>4, <1>6, <2>1, <2>2
  <2>3. CASE t = item /\ item # NULL
    BY <1>2, <1>5, <2>1, <2>3
  <2> QED
    BY <2>2, <2>3
<1>8. ASSUME NEW t \in Range(wbox) \cup ({item} \ {NULL}) PROVE t \in Trx
  BY <1>1, <1>7 DEF Range
<1>9. ASSUME item # NULL, NEW t \in Range(wbox) PROVE Earlier(item, t) /\ ~Newest(item)
  <2>1. PICK i \in 1..w : t = wbox[i]
    BY <1>6
  <2>2. k \in 1..n /\ k + i \in 1..n /\ k < k + i
    BY <1>1, <1>4, <1>5, <1>9
  <2>3. item = completed[k] /\ t = completed[k + i]
    BY <1>2, <1>9, <2>1
  <2>4. Earlier(item, t)
    BY <2>2, <2>3 DEF Earlier, n
  <2>5. k < n /\ n \in 1..n
    BY <1>1, <2>2
  <2>6. completed[k] # completed[n]
    BY <1>1, <2>2, <2>5
  <2> QED
    BY <2>3, <2>4, <2>6 DEF Newest, n
<1> QED
  BY <1>7, <1>8, <1>9

\* The backlog stays explained.
LEMMA BacklogStep ==
  ASSUME TypeOK, InOrder, OneInHand, RowsOfStored, Backlog, [Next]_vars
  PROVE  Backlog'
<1> DEFINE W == Range(wbox) \cup ({item} \ {NULL})
<1>1. /\ unstored \subseteq unstored'
      /\ \A t \in Trx : (HeldUp(t) => HeldUp(t)') /\ (Overwritten(t) => Overwritten(t)')
  BY FateKept
<1>2. /\ \A t \in W : MayWait(t) /\ t \in Trx /\ t \in Range(completed)
      /\ \A t \in reported : t \in unstored \/ (Overwritten(t) /\ HeldUp(t))
      /\ InHand
  BY WaitingLemma DEF Backlog
<1>3. resets \in Nat /\ reported \subseteq Trx /\ timeout \in Nat /\ timeout >= 2
  BY TimeoutsAssumption DEF TypeOK, Range
<1>4. \A t \in reported : t \in unstored' \/ (Overwritten(t)' /\ HeldUp(t)')
  BY <1>1, <1>2, <1>3
<1>5. item # NULL => item \in W
  OBVIOUS
<1> HIDE DEF W
\* While the bus moves, all that waits is held up.
<1>6. ASSUME quiet = 0, resets = 0, item' = item
      PROVE  (\A t \in W : HeldUp(t)') /\ InHand'
  <2>1. \A t \in W : HeldUp(t)
    BY <1>2, <1>6 DEF MayWait
  <2>2. item = NULL \/ item \in unstored \/ Overwritten(item)
    BY <1>2, <1>6 DEF InHand
  <2>3. InHand'
    <3>1. PICK t : t = item
      OBVIOUS
    <3>2. t = NULL \/ t \in unstored' \/ Overwritten(t)'
      BY <1>1, <1>2, <1>5, <2>2, <3>1
    <3>3. Overwritten(t)' => Overwritten(item)'
      BY <1>6, <3>1
    <3> QED
      BY <1>6, <3>1, <3>2, <3>3 DEF InHand
  <2> QED
    BY <1>1, <1>2, <2>1, <2>3
\* A step that leaves the clock alone leaves the last write the last.
<1>7. ASSUME UNCHANGED <<completed, quiet, resets>>
      PROVE  \A t \in W : MayWait(t)'
  <2>1. \A t : Newest(t)' <=> Newest(t)
    BY <1>7 DEF Newest
  <2> QED
    BY <1>1, <1>2, <1>7, <2>1 DEF MayWait
<1>8. ASSUME UNCHANGED <<completed, quiet, resets, item, left, timeout>>
      PROVE  InHand'
  <2>1. Newest(item)' <=> Newest(item)
    BY <1>8 DEF Newest
  <2>2. PICK t : t = item
    OBVIOUS
  <2>3. Overwritten(t) => t = NULL \/ Overwritten(t)'
    BY <1>1, <1>2, <1>5, <2>2
  <2>4. /\ Overwritten(t)' => Overwritten(item)'
        /\ Overwritten(item) => Overwritten(t)
    BY <1>8, <2>2
  <2> QED
    BY <1>1, <1>2, <1>8, <2>1, <2>2, <2>3, <2>4 DEF InHand
<1>9. ASSUME NEW t \in Trx, Begin(t) PROVE Backlog'
  <2>1. quiet = 0 /\ resets = 0 /\ UNCHANGED <<wbox, item, reported>>
    BY <1>9 DEF Begin, threadVars
  <2>2. \A u \in Range(wbox') \cup ({item'} \ {NULL}) : MayWait(u)'
    BY <1>6, <2>1 DEF MayWait, W
  <2>3. InHand'
    BY <1>6, <2>1
  <2> QED
    BY <1>4, <2>1, <2>2, <2>3 DEF Backlog
<1>10. ASSUME NEW t \in Trx, Complete(t) PROVE Backlog'
  <2>1. quiet = 0 /\ resets = 0 /\ quiet' = 1 /\ UNCHANGED <<item, reported>>
        /\ wbox' = Append(wbox, t) /\ wbox \in Seq(Trx)
    BY <1>10, TrxAssumption DEF Complete, OneInHand, TypeOK
  <2>2. Range(wbox') = Range(wbox) \cup {t}
    BY <2>1, AppendLemma
  <2>3. Newest(t)'
    BY <1>10, CompleteLemma DEF Newest
  <2>4. \A u \in Range(wbox') \cup ({item'} \ {NULL}) : MayWait(u)'
    BY <1>6, <2>1, <2>2, <2>3 DEF MayWait, W
  <2>5. InHand'
    BY <1>6, <2>1
  <2> QED
    BY <1>4, <2>1, <2>4, <2>5 DEF Backlog
<1>11. ASSUME NEW t \in Trx, Store(t) PROVE Backlog'
  <2>1. UNCHANGED <<completed, quiet, resets, item, left, timeout, wbox, reported>>
    BY <1>11 DEF Store, busVars, threadVars
  <2> QED
    BY <1>4, <1>7, <1>8, <2>1 DEF Backlog, W
<1>12. CASE Take
  <2>1. PICK t : t = Head(wbox)
    OBVIOUS
  <2>2. /\ UNCHANGED <<completed, quiet, resets, timeout, pending, unstored, reported>>
        /\ wbox # <<>> /\ wbox' = Tail(wbox) /\ wbox \in Seq(Trx) /\ left' = timeout
        /\ item' = IF Compare(t) THEN NULL ELSE t
    BY <1>12, <2>1 DEF Take, busVars, slaveVars, TypeOK
  <2>3. t \in Range(wbox) /\ Range(wbox') \subseteq Range(wbox)
    <3> DEFINE r == Tail(wbox)
    <3>1. DOMAIN wbox = 1..Len(wbox) /\ Len(wbox) \in Nat /\ Len(wbox) > 0 /\ t = wbox[1]
      BY <2>1, <2>2
    <3>2. DOMAIN r = 1..(Len(wbox) - 1) /\ \A i \in 1..(Len(wbox) - 1) : r[i] = wbox[i + 1]
      BY <2>2
    <3>3. 1 \in DOMAIN wbox /\ \A i \in 1..(Len(wbox) - 1) : i + 1 \in DOMAIN wbox
      BY <3>1
    <3> HIDE DEF r
    <3>4. Range(r) \subseteq Range(wbox) /\ t \in Range(wbox)
      BY <3>1, <3>2, <3>3 DEF Range
    <3> QED
      BY <2>2, <3>4 DEF r
  <2>4. t \in W
    BY <2>3 DEF W
  <2>5. \A u \in Range(wbox') \cup ({item'} \ {NULL}) : MayWait(u)'
    BY <1>7, <2>2, <2>3 DEF W
  <2>6. ASSUME ~Compare(t) PROVE InHand'
    <3>1. item' = t /\ t \in Trx /\ t \in Range(completed)
      BY <1>2, <2>2, <2>4, <2>6
    <3>2. CASE t \in pending
      BY <2>2, <3>1, <3>2 DEF OneInHand, TypeOK, InHand, Newest, Range
    <3>3. CASE t \notin pending
      <4>1. t \in unstored \/ Overwritten(t)
        BY <2>6, <3>1, <3>3, InVain
      <4>2. item' \in unstored' \/ Overwritten(t)'
        BY <1>1, <3>1, <4>1
      <4>3. Overwritten(t)' => Overwritten(item)'
        BY <3>1
      <4> QED
        BY <4>2, <4>3 DEF InHand
    <3> QED
      BY <3>2, <3>3
  <2>7. InHand'
    BY <2>2, <2>6 DEF InHand
  <2> QED
    BY <1>4, <2>2, <2>5, <2>7 DEF Backlog
<1>13. CASE Tick
  <2>1. /\ UNCHANGED <<completed, resets, timeout, pending, unstored, wbox>> /\ pending = {}
        /\ running /\ item = NULL => wbox = <<>>
    BY <1>13 DEF Tick, TickIdle, TickWait, TickTimeout, Clock, Settled, slaveVars
  <2>2. item' \in {item, NULL} /\ (item' # NULL => ~Compare(item))
    BY <1>13 DEF Tick, TickIdle, TickWait, TickTimeout
  <2>3. \A t : (Newest(t) <=> Newest(t)')
    BY <2>1 DEF Newest
  <2>4. PICK w : w = item
    OBVIOUS
  <2>5. item' # NULL => w \in unstored \/ Overwritten(w)
    BY <1>2, <1>5, <2>1, <2>2, <2>4, InVain
  <2>6. ASSUME NEW t \in Range(wbox') \cup ({item'} \ {NULL}) PROVE MayWait(t)'
    <3>1. t \in W
      BY <2>1, <2>2 DEF W
    <3>2. CASE HeldUp(t) \/ resets > 0
      BY <1>1, <1>2, <2>1, <2>3, <3>1, <3>2 DEF MayWait
    <3>3. CASE Newest(t) /\ ~(resets > 0)
      <4>1. running /\ ~Overwritten(t)
        BY <1>2, <3>1, <3>3, NewestLemma DEF OneInHand
      <4>2. CASE t = item
        <5>1. item' # NULL
          <6>1. t \in Trx /\ t # NULL
            BY <1>2, <3>1, TrxAssumption
          <6>2. t \notin Range(wbox')
            BY <2>1, <4>2, <6>1 DEF TypeOK
          <6> QED
            BY <2>6, <6>1, <6>2
        <5>2. t \in unstored
          BY <2>4, <2>5, <4>1, <4>2, <5>1
        <5> QED
          BY <1>1, <1>2, <3>1, <5>2 DEF HeldUp, MayWait
      <4>3. CASE t # item
        <5>1. t \in Range(wbox)
          BY <2>1, <2>2, <2>6, <4>3
        <5>2. item # NULL
          BY <2>1, <4>1, <5>1 DEF Range
        <5>3. Earlier(item, t) /\ ~Newest(item)
          BY <5>1, <5>2, WaitingLemma
        <5>4. HeldUp(item)
          BY <1>2, <1>5, <5>2, <5>3 DEF MayWait
        <5>5. HeldUp(t)
          BY <5>3, <5>4, NewestLemma
        <5> QED
          BY <1>1, <1>2, <3>1, <5>5 DEF MayWait
      <4> QED
        BY <4>2, <4>3
    <3> QED
      BY <1>2, <3>1, <3>2, <3>3 DEF MayWait
  <2>7. InHand'
    <3>1. item' # NULL => w \in unstored' \/ Overwritten(w)'
      BY <1>1, <1>2, <1>5, <2>2, <2>4, <2>5
    <3>2. item' # NULL => (Overwritten(w)' => Overwritten(item)')
      BY <2>2, <2>4
    <3> QED
      BY <2>2, <2>4, <3>1, <3>2 DEF InHand
  <2>8. ASSUME NEW t \in reported' PROVE t \in unstored' \/ (Overwritten(t)' /\ HeldUp(t)')
    <3>1. CASE t \in reported
      BY <1>4, <3>1
    <3>2. CASE t \notin reported
      <4>1. t = item /\ item # NULL /\ left <= 1
        BY <1>13, <2>8, <3>2 DEF Tick, TickIdle, TickWait, TickTimeout
      <4>2. t \in unstored \/ Overwritten(t)
        BY <1>2, <1>3, <4>1 DEF InHand
      <4>3. t \in W /\ t \in Trx
        BY <1>2, <1>5, <4>1
      <4>4. Overwritten(t) => HeldUp(t)
        BY <1>2, <4>3, NewestLemma DEF MayWait
      <4> QED
        BY <1>1, <4>2, <4>3, <4>4
    <3> QED
      BY <3>1, <3>2
  <2> QED
    BY <2>6, <2>7, <2>8 DEF Backlog
<1>14. CASE Reset
  <2>1. /\ UNCHANGED <<completed, wbox, reported>> /\ item' = NULL
        /\ resets' = resets + 1
    BY <1>14 DEF Reset
  <2>2. \A t : Newest(t)' <=> Newest(t)
    BY <2>1 DEF Newest
  <2>3. \A t \in Range(wbox') \cup ({item'} \ {NULL}) : MayWait(t)'
    BY <1>1, <1>2, <1>3, <2>1, <2>2 DEF MayWait, W
  <2> QED
    BY <1>4, <2>1, <2>3 DEF Backlog, InHand
<1>15. CASE Restart \/ UNCHANGED vars
  <2>1. UNCHANGED <<completed, quiet, resets, item, left, timeout, wbox, reported>>
    BY <1>15 DEF Restart, vars, busVars, threadVars
  <2> QED
    BY <1>4, <1>7, <1>8, <2>1 DEF Backlog, W
<1> QED
  BY <1>9, <1>10, <1>11, <1>12, <1>13, <1>14, <1>15 DEF Next, Bus, Slave

-----------------------------------------------------------------------------
(***************************************************************************)
(* The theorems                                                            *)
(***************************************************************************)
\* The inductive invariant holds initially and is kept.
THEOREM MemBackdoorInvariant == Spec => []IInv
<1>1. Init => IInv
  <2> SUFFICES ASSUME Init PROVE IInv
    OBVIOUS
  <2>1. TypeOK
    BY TypeInit
  <2>2. InOrder /\ OneInHand /\ RowsOfStored
    BY DEF Init, InOrder, OneInHand, RowsOfStored
  <2>3. MemoryOfLatest
    BY WordLemma DEF Init, MemoryOfLatest
  <2>4. Backlog
    <3>1. Range(<<>>) = {}
      BY DEF Range
    <3> QED
      BY <3>1 DEF Init, Backlog, InHand
  <2> QED
    BY <2>1, <2>2, <2>3, <2>4 DEF IInv
<1>2. IInv /\ [Next]_vars => IInv'
  <2> SUFFICES ASSUME IInv, [Next]_vars PROVE IInv'
    OBVIOUS
  <2> QED
    BY TypeStep, InOrderStep, OneInHandStep, RowsStep, MemoryStep, BacklogStep DEF IInv
<1> QED
  BY <1>1, <1>2, PTL DEF Spec

\* Every variable has its type, a write waits in one place, and the local timeout never
\* runs below zero.
THEOREM MemBackdoorTypeCorrect == Spec => []TypeOK
<1>1. IInv => TypeOK
  BY DEF IInv
<1> QED
  BY <1>1, MemBackdoorInvariant, PTL

\* The last write that the query finds is what the memory holds.
THEOREM QueryFindsMemory == Spec => []QueryIsMemory
<1>1. IInv => QueryIsMemory
  <2> SUFFICES ASSUME IInv, NEW t \in Trx, memory[Addr[t]] # NULL, NEW i \in 1..Bytes
               PROVE  LastWrTrx(t)[i] = memory[Addr[t] + i - 1]
    BY DEF QueryIsMemory
  <2>1. PICK c \in 1..Len(completed) :
           /\ Latest(c, t)
           /\ memory[Addr[t] + i - 1] = Data[completed[c]][i]
    BY DEF IInv, MemoryOfLatest
  <2> QED
    BY <2>1, QueryLemma DEF IInv
<1> QED
  BY <1>1, MemBackdoorInvariant, PTL

\* A stored write is reported only behind one that never was stored, and when it was
\* stored over.
THEOREM OnlyBacklogCanMislead == Spec => []OnlyBacklogMisleads
<1>1. IInv => OnlyBacklogMisleads
  <2> SUFFICES ASSUME IInv, NEW t \in reported, Stored(t)
               PROVE  /\ \E u \in unstored : Earlier(u, t)
                      /\ \E u \in Trx : Stored(u) /\ Addr[u] = Addr[t] /\ Earlier(t, u)
    BY DEF OnlyBacklogMisleads
  <2>1. Overwritten(t) /\ HeldUp(t) /\ t \notin unstored
    BY DEF IInv, Backlog, Stored
  <2> QED
    BY <2>1 DEF Overwritten, HeldUp
<1> QED
  BY <1>1, MemBackdoorInvariant, PTL
=============================================================================
