--------------------------- MODULE RetrySeqProofs ---------------------------
(***************************************************************************)
(* Proofs about RetrySeq, for any number of items of each phase, every     *)
(* watch table, every max_err and any bound on the errors.                 *)
(***************************************************************************)
EXTENDS RetrySeq, FiniteSetTheorems, TLAPS

(***************************************************************************)
(* The inductive invariant.  The queues hold no item twice, and the        *)
(* virtual sequence sends what belongs to its phase.                       *)
(***************************************************************************)
Queues ==
  /\ IsInjective(todo) /\ IsInjective(mbox) /\ IsInjective(fifo_mon_sqr)
  /\ phase # "end" => Range(todo) \subseteq Range(ItemsOf(phase))
  /\ phase = "end" => todo = <<>>
  /\ finish <=> phase = "end"
  /\ ~watching => finish
  /\ bus # NULL => rsp[bus] = "none"

\* The window of a phase that has started counts the items that have not succeeded
Windows ==
  \A k \in Kinds : phase # "WR" \/ k = "WR" =>
    /\ IsFiniteSet(Range(ItemsOf(k)) \ succeeded)
    /\ win[k] = Cardinality(Range(ItemsOf(k)) \ succeeded)

\* An error the monitor saw and rcv_from_mon has not taken yet
ErrorAhead(x) == InMonitor(x) /\ rsp[x] = "err"

(***************************************************************************)
(* The visit of an address is the number of errors that were taken, less   *)
(* one, of the item of the phase that goes there.                          *)
(***************************************************************************)
Visits ==
  /\ \A x \in Item : ~Sent(x) => errors[x] = 0
  /\ \A x \in Item : Sent(x) /\ ~Over(x) /\ Addr[x] \in Watched =>
       /\ retry[Addr[x]] < MaxErr
       /\ errors[x] = retry[Addr[x]] + (IF ErrorAhead(x) THEN 2 ELSE 1)
  /\ \A a \in Addrs :
       (\A x \in Item : Sent(x) /\ Addr[x] = a => x \in succeeded) => retry[a] = -1
  /\ \A a \in Addrs : a \notin Watched => retry[a] = -1

IInv ==
  /\ TypeOK /\ Queues /\ Windows
  /\ OnePlace /\ PhasesComplete /\ Visits /\ RetriesExhausted

-----------------------------------------------------------------------------
\* Append on an injective sequence
LEMMA AppendLemma ==
  ASSUME NEW S, NEW s \in Seq(S), NEW x \in S
  PROVE  /\ Append(s, x) \in Seq(S)
         /\ Range(Append(s, x)) = Range(s) \cup {x}
         /\ IsInjective(s) /\ x \notin Range(s) => IsInjective(Append(s, x))
<1>. DEFINE t == Append(s, x)
<1>1. /\ t \in Seq(S) /\ Len(t) = Len(s) + 1 /\ t[Len(s) + 1] = x
      /\ \A i \in 1..Len(s) : t[i] = s[i]
  OBVIOUS
<1>2. DOMAIN s = 1..Len(s) /\ DOMAIN t = 1..(Len(s) + 1)
  BY <1>1
<1>3. Range(t) = Range(s) \cup {x}
  BY <1>1, <1>2 DEF Range
<1>4. ASSUME IsInjective(s), x \notin Range(s)
      PROVE  IsInjective(t)
  BY <1>1, <1>2, <1>4 DEF Range, IsInjective
<1>. QED BY <1>1, <1>3, <1>4

\* Head and Tail of an injective sequence
LEMMA TailLemma ==
  ASSUME NEW S, NEW s \in Seq(S), s # <<>>, IsInjective(s)
  PROVE  /\ Head(s) \in S /\ Head(s) \in Range(s)
         /\ Tail(s) \in Seq(S)
         /\ Range(Tail(s)) = Range(s) \ {Head(s)}
         /\ IsInjective(Tail(s))
<1>. DEFINE t == Tail(s)
<1>1. /\ Len(s) > 0 /\ Head(s) = s[1] /\ Head(s) \in S
      /\ t \in Seq(S) /\ Len(t) = Len(s) - 1
      /\ \A i \in 1..(Len(s) - 1) : t[i] = s[i + 1]
  OBVIOUS
<1>2. DOMAIN s = 1..Len(s) /\ DOMAIN t = 1..(Len(s) - 1)
  BY <1>1
<1>3. \A i, j \in 1..Len(s) : s[i] = s[j] => i = j
  BY <1>2 DEF IsInjective
<1>4. \A i \in 1..(Len(s) - 1) : t[i] \in Range(s) /\ t[i] # Head(s)
  BY <1>1, <1>2, <1>3 DEF Range
<1>5. \A i \in 1..Len(s) : s[i] # Head(s) => s[i] = t[i - 1] /\ i - 1 \in 1..(Len(s) - 1)
  BY <1>1
<1>6. Range(t) = Range(s) \ {Head(s)}
  <2>1. Range(t) \subseteq Range(s) \ {Head(s)}
    BY <1>2, <1>4 DEF Range
  <2>2. Range(s) \ {Head(s)} \subseteq Range(t)
    BY <1>2, <1>5 DEF Range
  <2>. QED BY <2>1, <2>2
<1>7. IsInjective(t)
  <2>. SUFFICES ASSUME NEW i \in 1..(Len(s) - 1), NEW j \in 1..(Len(s) - 1), t[i] = t[j]
                PROVE  i = j
    BY <1>2 DEF IsInjective
  <2>. QED BY <1>1, <1>3
<1>8. Head(s) \in Range(s)
  BY <1>1, <1>2 DEF Range
<1>. QED BY <1>1, <1>6, <1>7, <1>8

\* A sequence that holds nothing is empty
LEMMA EmptyLemma ==
  ASSUME NEW S, NEW s \in Seq(S)
  PROVE  /\ s = <<>> <=> Range(s) = {}
         /\ Range(s) \subseteq S
<1>1. DOMAIN s = 1..Len(s)
  OBVIOUS
<1>2. s # <<>> => 1 \in DOMAIN s
  BY <1>1
<1>3. s # <<>> => Range(s) # {}
  BY <1>2 DEF Range
<1>4. s = <<>> => DOMAIN s = {}
  BY <1>1
<1>5. s = <<>> => Range(s) = {}
  BY <1>4 DEF Range
<1>6. \A i \in 1..Len(s) : s[i] \in S
  OBVIOUS
<1>7. Range(s) \subseteq S
  BY <1>1, <1>6 DEF Range
<1>. QED BY <1>3, <1>5, <1>7

-----------------------------------------------------------------------------
\* The items of a phase: each is listed once, and at an address of its own
LEMMA ItemsLemma ==
  /\ \A k \in Kinds :
       /\ ItemsOf(k) \in Seq(Range(ItemsOf(k))) /\ ItemsOf(k) \in Seq(Item)
       /\ Range(ItemsOf(k)) \subseteq Item
       /\ IsInjective(ItemsOf(k))
       /\ \A x, y \in Range(ItemsOf(k)) : Addr[x] = Addr[y] => x = y
  /\ \A x \in Item : Kind(x) \in Kinds /\ x \in Range(ItemsOf(Kind(x))) /\ Addr[x] \in Addrs
  /\ \A k \in Kinds : \A x \in Range(ItemsOf(k)) : Kind(x) = k
<1>1. /\ Writes \in Seq(Range(Writes)) /\ Reads \in Seq(Range(Reads))
      /\ Range(Writes) \cap Range(Reads) = {}
  BY ItemAssumption
<1>2. ASSUME NEW k \in Kinds
      PROVE  /\ ItemsOf(k) \in Seq(Range(ItemsOf(k))) /\ ItemsOf(k) \in Seq(Item)
             /\ Range(ItemsOf(k)) \subseteq Item
             /\ IsInjective(ItemsOf(k))
             /\ \A x, y \in Range(ItemsOf(k)) : Addr[x] = Addr[y] => x = y
  <2>. DEFINE s == ItemsOf(k)
  <2>1. s \in Seq(Range(s)) /\ Range(s) \subseteq Item
    BY <1>1 DEF ItemsOf, Kinds, Item
  <2>2. DOMAIN s = 1..Len(s)
    BY <2>1
  <2>3. \A i \in 1..Len(s) : s[i] \in Item
    BY <2>1, <2>2 DEF Range
  <2>4. s \in Seq(Item)
    BY <2>1, <2>3
  <2>5. \A i, j \in 1..Len(s) : Addr[s[i]] = Addr[s[j]] => i = j
    BY ItemAssumption
  <2>6. IsInjective(s)
    BY <2>2, <2>5 DEF IsInjective
  <2>7. \A x, y \in Range(s) : Addr[x] = Addr[y] => x = y
    BY <2>2, <2>5 DEF Range
  <2>. HIDE DEF s
  <2>. QED BY <2>1, <2>4, <2>6, <2>7 DEF s
<1>3. \A x \in Item : Kind(x) \in Kinds /\ x \in Range(ItemsOf(Kind(x))) /\ Addr[x] \in Addrs
  BY DEF Kind, Kinds, ItemsOf, Item, Addrs
<1>4. \A k \in Kinds : \A x \in Range(ItemsOf(k)) : Kind(x) = k
  BY <1>1 DEF Kind, Kinds, ItemsOf
<1>. QED BY <1>2, <1>3, <1>4

\* A phase has as many items as its list is long
LEMMA ItemCount ==
  ASSUME NEW k \in Kinds
  PROVE  /\ IsFiniteSet(Range(ItemsOf(k)))
         /\ Len(ItemsOf(k)) = Cardinality(Range(ItemsOf(k)))
         /\ Len(ItemsOf(k)) \in Nat
<1>. DEFINE s == ItemsOf(k)
<1>1. s \in Seq(Range(s)) /\ IsInjective(s)
  BY ItemsLemma
<1>. HIDE DEF s
<1>2. DOMAIN s = 1..Len(s) /\ Len(s) \in Nat /\ s \in [1..Len(s) -> Range(s)]
  BY <1>1
<1>3. s \in Bijection(1..Len(s), Range(s))
  BY <1>1, <1>2 DEF Range, IsInjective, Bijection, Injection, Surjection
<1>4. IsFiniteSet(1..Len(s)) /\ Cardinality(1..Len(s)) = Len(s)
  BY <1>2, FS_Interval
<1>5. ExistsBijection(1..Len(s), Range(s))
  BY <1>3 DEF ExistsBijection
<1>6. IsFiniteSet(Range(s)) /\ Cardinality(Range(s)) = Len(s)
  BY <1>4, <1>5, FS_Bijection
<1>. QED BY <1>2, <1>6 DEF s

-----------------------------------------------------------------------------
\* What a phase that has not started, or whose items are not sent, looks like
LEMMA InitInvariant == Init => IInv
<1>. SUFFICES ASSUME Init PROVE IInv
  OBVIOUS
<1>. USE DEF Init
<1>1. \A k \in Kinds : ItemsOf(k) \in Seq(Item) /\ Len(ItemsOf(k)) \in Nat /\ IsInjective(ItemsOf(k))
  BY ItemsLemma, ItemCount
<1>2. Writes \in Seq(Item) /\ Len(Writes) \in Nat /\ IsInjective(Writes)
  BY <1>1 DEF Kinds, ItemsOf
<1>3. Range(<<>>) = {} /\ IsInjective(<<>>)
  BY DEF Range, IsInjective
<1>4. TypeOK
  <2>1. win \in [Kinds -> Nat]
    BY <1>2
  <2>2. retry \in [Addrs -> Nat \cup {-1}]
    <3>1. \A a \in Addrs : -1 \in Nat \cup {-1}
      OBVIOUS
    <3>2. retry = [a \in Addrs |-> -1]
      OBVIOUS
    <3>. HIDE DEF Init
    <3>. QED BY <3>1, <3>2
  <2>3. rsp \in [Item -> {"none", "ok", "err"}] /\ errors \in [Item -> Nat]
    OBVIOUS
  <2>4. mbox \in Seq(Item) /\ fifo_mon_sqr \in Seq(Item)
    OBVIOUS
  <2>5. phase \in {"WR", "RD", "end"} /\ todo \in Seq(Item) /\ finish \in BOOLEAN
        /\ watching \in BOOLEAN /\ bitem \in Item \cup {NULL} /\ bus \in Item \cup {NULL}
        /\ driver = {} /\ succeeded = {} /\ timedout = {} /\ unwatched = {}
    BY <1>2
  <2>. HIDE DEF Init
  <2>. QED BY <2>1, <2>2, <2>3, <2>4, <2>5 DEF TypeOK
<1>5. Queues
  BY <1>2, <1>3 DEF Queues, ItemsOf
<1>6. Windows
  <2>1. Range(Writes) \ {} = Range(Writes)
    OBVIOUS
  <2>2. "WR" \in Kinds /\ ItemsOf("WR") = Writes
    BY DEF Kinds, ItemsOf
  <2>3. IsFiniteSet(Range(Writes)) /\ Len(Writes) = Cardinality(Range(Writes))
    BY <2>2, ItemCount
  <2>. QED BY <2>1, <2>2, <2>3 DEF Windows
<1>7. \A x \in Item : ~Sent(x)
  BY ItemsLemma DEF Sent, Started, ItemsOf
<1>8. OnePlace
  BY <1>3, <1>7, ItemAssumption
     DEF OnePlace, Placed, InDriver, InMonitor, InMbox, Over
<1>9. PhasesComplete
  BY DEF PhasesComplete
<1>10. Visits
  BY <1>7 DEF Visits
<1>11. RetriesExhausted
  BY BoundAssumption DEF RetriesExhausted
<1>. QED BY <1>4, <1>5, <1>6, <1>8, <1>9, <1>10, <1>11 DEF IInv

-----------------------------------------------------------------------------
\* Facts about any state of the invariant
LEMMA StateFacts ==
  ASSUME TypeOK
  PROVE  /\ Range(todo) \subseteq Item /\ Range(mbox) \subseteq Item
         /\ Range(fifo_mon_sqr) \subseteq Item
         /\ todo = <<>> <=> Range(todo) = {}
         /\ mbox = <<>> <=> Range(mbox) = {}
         /\ fifo_mon_sqr = <<>> <=> Range(fifo_mon_sqr) = {}
BY EmptyLemma DEF TypeOK

\* The virtual sequence sends an item
LEMMA SendStep == IInv /\ Send => IInv'
<1>. SUFFICES ASSUME IInv, Send PROVE IInv'
  OBVIOUS
<1>0. PICK x : x = Head(todo)
  OBVIOUS
<1>1. /\ TypeOK /\ Queues /\ Windows
      /\ OnePlace /\ PhasesComplete /\ Visits /\ RetriesExhausted
  BY DEF IInv
<1>2. /\ todo # <<>> /\ bitem = NULL
      /\ driver' = driver \cup {x} /\ todo' = Tail(todo)
      /\ UNCHANGED <<phase, finish, watchVars, noteVars, bus, fifo_mon_sqr, rsp, errors>>
  BY <1>0 DEF Send
<1>. USE DEF watchVars, noteVars
<1>3. /\ x \in Item /\ x \in Range(todo)
      /\ todo' \in Seq(Item) /\ IsInjective(todo')
      /\ Range(todo') = Range(todo) \ {x}
  BY <1>0, <1>1, <1>2, TailLemma DEF TypeOK, Queues
<1>4. TypeOK'
  BY <1>1, <1>2, <1>3 DEF TypeOK
<1>5. Queues'
  BY <1>1, <1>2, <1>3 DEF Queues
<1>6. Windows'
  BY <1>1, <1>2 DEF Windows
<1>7. Started(x) /\ phase # "end" /\ Kind(x) = phase
  <2>1. phase # "end" /\ x \in Range(ItemsOf(phase))
    BY <1>1, <1>2, <1>3 DEF Queues
  <2>2. phase \in Kinds
    BY <1>1, <2>1 DEF TypeOK, Kinds
  <2>3. Kind(x) = phase
    BY <2>1, <2>2, ItemsLemma
  <2>. QED BY <2>1, <2>3 DEF Started, Kinds
<1>8. ~Sent(x) /\ Sent(x)' /\ \A y \in Item : y # x => (Sent(y)' <=> Sent(y))
  BY <1>2, <1>3, <1>7 DEF Sent, Started
<1>9. Placed(x) /\ ~InDriver(x) /\ ~InMonitor(x) /\ ~InMbox(x) /\ bitem # x /\ ~Over(x)
  BY <1>1, <1>3, <1>8 DEF OnePlace, Placed
<1>10. /\ \A y \in Item : InDriver(y)' <=> InDriver(y) \/ y = x
       /\ \A y \in Item : InMonitor(y)' <=> InMonitor(y)
       /\ \A y \in Item : InMbox(y)' <=> InMbox(y)
       /\ \A y \in Item : Over(y)' <=> Over(y)
  BY <1>2 DEF InDriver, InMonitor, InMbox, Over
<1>11. OnePlace'
  <2>. SUFFICES ASSUME NEW y \in Item PROVE Placed(y)'
    BY DEF OnePlace
  <2>1. CASE y = x
    BY <1>2, <1>8, <1>9, <1>10, <2>1 DEF Placed
  <2>2. CASE y # x
    BY <1>1, <1>2, <1>8, <1>10, <2>2 DEF OnePlace, Placed
  <2>. QED BY <2>1, <2>2
<1>12. PhasesComplete'
  <2>1. ~finish
    BY <1>1, <1>7 DEF Queues
  <2>. QED BY <1>1, <1>2, <2>1 DEF PhasesComplete
<1>13. Visits'
  <2>1. \A y \in Item : ErrorAhead(y)' <=> ErrorAhead(y)
    BY <1>2, <1>10 DEF ErrorAhead
  <2>2. ~ErrorAhead(x) /\ errors[x] = 0 /\ x \notin succeeded
    BY <1>1, <1>3, <1>8, <1>9 DEF ErrorAhead, Visits, Over
  <2>3. retry[Addr[x]] = -1
    <3>. SUFFICES ASSUME NEW y \in Item, Sent(y), Addr[y] = Addr[x] PROVE y \in succeeded
      BY <1>1, <1>3, ItemsLemma DEF Visits
    <3>1. Kind(y) # Kind(x)
      BY <1>3, <1>8, ItemsLemma
    <3>2. Kind(x) = phase /\ Kind(x) \in Kinds /\ Kind(y) \in Kinds /\ Started(y)
      BY <1>3, <1>7, ItemsLemma DEF Sent
    <3>3. Kind(y) = "WR" /\ phase # "WR"
      BY <3>1, <3>2 DEF Started, Kinds
    <3>4. y \in Range(Writes)
      BY <3>3, ItemsLemma DEF ItemsOf
    <3>. QED BY <1>1, <3>3, <3>4 DEF PhasesComplete
  <2>4. \A y \in Item : ~Sent(y)' => errors'[y] = 0
    BY <1>1, <1>2, <1>8 DEF Visits
  <2>5. \A y \in Item : Sent(y)' /\ ~Over(y)' /\ Addr[y] \in Watched' =>
          /\ retry'[Addr[y]] < MaxErr
          /\ errors'[y] = retry'[Addr[y]] + (IF ErrorAhead(y)' THEN 2 ELSE 1)
    <3>. SUFFICES ASSUME NEW y \in Item, Sent(y)', ~Over(y)', Addr[y] \in Watched
                  PROVE  /\ retry[Addr[y]] < MaxErr
                         /\ errors[y] = retry[Addr[y]] + (IF ErrorAhead(y) THEN 2 ELSE 1)
      BY <1>2, <2>1
    <3>1. CASE y = x
      BY <2>2, <2>3, <3>1, BoundAssumption
    <3>2. CASE y # x
      BY <1>1, <1>8, <1>10, <3>2 DEF Visits
    <3>. QED BY <3>1, <3>2
  <2>6. \A a \in Addrs :
          (\A y \in Item : Sent(y)' /\ Addr[y] = a => y \in succeeded') => retry'[a] = -1
    BY <1>1, <1>2, <1>8 DEF Visits
  <2>7. \A a \in Addrs : a \notin Watched => retry'[a] = -1
    BY <1>1, <1>2 DEF Visits
  <2>. QED BY <2>4, <2>5, <2>6, <2>7 DEF Visits
<1>14. RetriesExhausted'
  BY <1>1, <1>2 DEF RetriesExhausted
<1>. QED BY <1>4, <1>5, <1>6, <1>11, <1>12, <1>13, <1>14 DEF IInv

\* An empty window of a phase that has started: all its items have succeeded
LEMMA EmptyWindow ==
  ASSUME Windows, NEW k \in Kinds, phase # "WR" \/ k = "WR", win[k] = 0
  PROVE  Range(ItemsOf(k)) \subseteq succeeded
<1>1. /\ IsFiniteSet(Range(ItemsOf(k)) \ succeeded)
      /\ Cardinality(Range(ItemsOf(k)) \ succeeded) = 0
  BY DEF Windows
<1>2. Range(ItemsOf(k)) \ succeeded = {}
  BY <1>1, FS_EmptySet
<1>. QED BY <1>2

\* The virtual sequence goes on to its reads
LEMMA StartReadsStep == IInv /\ StartReads => IInv'
<1>. SUFFICES ASSUME IInv, StartReads PROVE IInv'
  OBVIOUS
<1>1. /\ TypeOK /\ Queues /\ Windows
      /\ OnePlace /\ PhasesComplete /\ Visits /\ RetriesExhausted
  BY DEF IInv
<1>2. /\ phase = "WR" /\ todo = <<>> /\ win["WR"] = 0
      /\ phase' = "RD" /\ todo' = Reads
      /\ win' = [win EXCEPT !["RD"] = Len(Reads)]
      /\ UNCHANGED <<finish, watching, retry, succeeded, timedout, unwatched, noteVars, busVars>>
  BY DEF StartReads
<1>. USE DEF noteVars, busVars
<1>3. /\ "WR" \in Kinds /\ "RD" \in Kinds
      /\ ItemsOf("WR") = Writes /\ ItemsOf("RD") = Reads
  BY DEF Kinds, ItemsOf
<1>4. Range(Writes) \subseteq succeeded
  BY <1>1, <1>2, <1>3, EmptyWindow
<1>5. /\ Reads \in Seq(Item) /\ IsInjective(Reads) /\ Len(Reads) \in Nat
      /\ IsFiniteSet(Range(Reads)) /\ Len(Reads) = Cardinality(Range(Reads))
  BY <1>3, ItemsLemma, ItemCount
<1>6. TypeOK'
  BY <1>1, <1>2, <1>3, <1>5 DEF TypeOK
<1>7. Queues'
  BY <1>1, <1>2, <1>3, <1>5 DEF Queues
<1>8. \A y \in Item : Sent(y)' <=> Sent(y)
  <2>. SUFFICES ASSUME NEW y \in Item PROVE Sent(y)' <=> Sent(y)
    OBVIOUS
  <2>1. Range(todo) = {}
    BY <1>1, <1>2, StateFacts
  <2>2. CASE Kind(y) = "WR"
    <3>1. y \notin Range(Reads)
      BY <1>3, <2>2, ItemsLemma
    <3>. QED BY <1>2, <2>1, <2>2, <3>1 DEF Sent, Started
  <2>3. CASE Kind(y) # "WR"
    <3>1. Kind(y) = "RD"
      BY <2>3, ItemsLemma DEF Kinds
    <3>2. y \in Range(Reads)
      BY <1>3, <3>1, ItemsLemma
    <3>. QED BY <1>2, <2>3, <3>2 DEF Sent, Started
  <2>. QED BY <2>2, <2>3
<1>9. Range(Reads) \cap succeeded = {}
  <2>. SUFFICES ASSUME NEW y \in Range(Reads), y \in succeeded PROVE FALSE
    OBVIOUS
  <2>1. y \in Item /\ Kind(y) = "RD"
    BY <1>3, ItemsLemma
  <2>2. Sent(y)
    BY <1>1, <2>1 DEF OnePlace, Placed, Over
  <2>. QED BY <1>2, <2>1, <2>2 DEF Sent, Started
<1>10. Windows'
  <2>1. ASSUME NEW k \in Kinds
        PROVE  /\ IsFiniteSet(Range(ItemsOf(k)) \ succeeded)
               /\ win'[k] = Cardinality(Range(ItemsOf(k)) \ succeeded)
    <3>1. CASE k = "WR"
      BY <1>1, <1>2, <1>3, <3>1 DEF Windows, TypeOK
    <3>2. CASE k = "RD"
      <4>1. Range(Reads) \ succeeded = Range(Reads)
        BY <1>9
      <4>. QED BY <1>1, <1>2, <1>3, <1>5, <3>2, <4>1 DEF TypeOK
    <3>. QED BY <3>1, <3>2 DEF Kinds
  <2>. QED BY <1>1, <1>2, <2>1 DEF Windows
<1>11. \A y \in Item : /\ InDriver(y)' <=> InDriver(y)
                       /\ InMonitor(y)' <=> InMonitor(y)
                       /\ InMbox(y)' <=> InMbox(y)
                       /\ Over(y)' <=> Over(y)
                       /\ ErrorAhead(y)' <=> ErrorAhead(y)
  BY <1>2 DEF InDriver, InMonitor, InMbox, Over, ErrorAhead
<1>12. OnePlace'
  BY <1>1, <1>2, <1>8, <1>11 DEF OnePlace, Placed
<1>13. PhasesComplete'
  <2>1. ~finish'
    BY <1>1, <1>2 DEF Queues
  <2>. QED BY <1>2, <1>4, <2>1 DEF PhasesComplete
<1>14. Visits'
  BY <1>1, <1>2, <1>8, <1>11 DEF Visits
<1>15. RetriesExhausted'
  BY <1>1, <1>2 DEF RetriesExhausted
<1>. QED BY <1>6, <1>7, <1>10, <1>12, <1>13, <1>14, <1>15 DEF IInv

\* The virtual sequence ends
LEMMA FinishStep == IInv /\ Finish => IInv'
<1>. SUFFICES ASSUME IInv, Finish PROVE IInv'
  OBVIOUS
<1>1. /\ TypeOK /\ Queues /\ Windows
      /\ OnePlace /\ PhasesComplete /\ Visits /\ RetriesExhausted
  BY DEF IInv
<1>2. /\ phase = "RD" /\ todo = <<>> /\ win["RD"] = 0
      /\ phase' = "end" /\ finish' = TRUE
      /\ UNCHANGED <<todo, watchVars, noteVars, busVars>>
  BY DEF Finish
<1>. USE DEF watchVars, noteVars, busVars
<1>3. Range(Writes) \subseteq succeeded /\ Range(Reads) \subseteq succeeded
  <2>1. "RD" \in Kinds /\ ItemsOf("RD") = Reads
    BY DEF Kinds, ItemsOf
  <2>. QED BY <1>1, <1>2, <2>1, EmptyWindow DEF PhasesComplete
<1>4. TypeOK' /\ Queues' /\ Windows'
  <2>1. TypeOK'
    BY <1>1, <1>2 DEF TypeOK
  <2>2. Queues'
    BY <1>1, <1>2 DEF Queues
  <2>3. Windows'
    BY <1>1, <1>2 DEF Windows
  <2>. QED BY <2>1, <2>2, <2>3
<1>5. \A y \in Item : /\ Sent(y)' <=> Sent(y)
                      /\ InDriver(y)' <=> InDriver(y)
                      /\ InMonitor(y)' <=> InMonitor(y)
                      /\ InMbox(y)' <=> InMbox(y)
                      /\ Over(y)' <=> Over(y)
                      /\ ErrorAhead(y)' <=> ErrorAhead(y)
  BY <1>2 DEF Sent, Started, InDriver, InMonitor, InMbox, Over, ErrorAhead
<1>6. OnePlace'
  BY <1>1, <1>2, <1>5 DEF OnePlace, Placed
<1>7. PhasesComplete'
  <2>1. \A y \in Item : Over(y)
    BY <1>3 DEF Item, Over
  <2>2. \A y \in Item : ~InDriver(y) /\ ~InMonitor(y) /\ ~InMbox(y) /\ bitem # y
    BY <1>1, <2>1 DEF OnePlace, Placed
  <2>3. driver = {} /\ bitem = NULL /\ Range(mbox) = {} /\ Range(fifo_mon_sqr) = {}
    BY <1>1, <2>2, StateFacts DEF TypeOK, InDriver, InMonitor, InMbox
  <2>. QED BY <1>1, <1>2, <1>3, <2>3, StateFacts DEF PhasesComplete
<1>8. Visits'
  BY <1>1, <1>2, <1>5 DEF Visits
<1>9. RetriesExhausted'
  BY <1>1, <1>2 DEF RetriesExhausted
<1>. QED BY <1>4, <1>6, <1>7, <1>8, <1>9 DEF IInv

\* The access of an item begins
LEMMA AccessStep == \A x \in Item : IInv /\ Access(x) => IInv'
<1>. SUFFICES ASSUME NEW x \in Item, IInv, Access(x) PROVE IInv'
  OBVIOUS
<1>1. /\ TypeOK /\ Queues /\ Windows
      /\ OnePlace /\ PhasesComplete /\ Visits /\ RetriesExhausted
  BY DEF IInv
<1>2. /\ x \in driver /\ bus = NULL
      /\ driver' = driver \ {x} /\ bus' = x
      /\ fifo_mon_sqr' = Append(fifo_mon_sqr, x)
      /\ rsp' = [rsp EXCEPT ![x] = "none"]
      /\ UNCHANGED <<mainVars, watchVars, noteVars, errors>>
  BY DEF Access
<1>. USE DEF mainVars, watchVars, noteVars
<1>3. Placed(x) /\ InDriver(x) /\ ~InMonitor(x)
  BY <1>1, <1>2 DEF OnePlace, Placed, InDriver
<1>4. /\ fifo_mon_sqr' \in Seq(Item) /\ IsInjective(fifo_mon_sqr')
      /\ Range(fifo_mon_sqr') = Range(fifo_mon_sqr) \cup {x}
  BY <1>1, <1>2, <1>3, AppendLemma DEF TypeOK, Queues, InMonitor
<1>5. TypeOK'
  BY <1>1, <1>2, <1>4 DEF TypeOK
<1>6. Queues' /\ Windows'
  <2>1. rsp'[x] = "none"
    BY <1>1, <1>2 DEF TypeOK
  <2>. QED BY <1>1, <1>2, <1>4, <2>1 DEF Queues, Windows
<1>7. \A y \in Item : /\ Sent(y)' <=> Sent(y)
                      /\ InDriver(y)' <=> InDriver(y) /\ y # x
                      /\ InMonitor(y)' <=> InMonitor(y) \/ y = x
                      /\ InMbox(y)' <=> InMbox(y)
                      /\ Over(y)' <=> Over(y)
  BY <1>2, <1>4 DEF Sent, Started, InDriver, InMonitor, InMbox, Over
<1>8. OnePlace'
  BY <1>1, <1>2, <1>3, <1>7, ItemAssumption DEF OnePlace, Placed
<1>9. PhasesComplete'
  BY <1>1, <1>2 DEF PhasesComplete
<1>10. \A y \in Item : ErrorAhead(y)' <=> ErrorAhead(y)
  BY <1>1, <1>2, <1>3, <1>7 DEF ErrorAhead, TypeOK
<1>11. Visits'
  BY <1>1, <1>2, <1>7, <1>10 DEF Visits
<1>12. RetriesExhausted'
  BY <1>1, <1>2 DEF RetriesExhausted
<1>. QED BY <1>5, <1>6, <1>8, <1>9, <1>11, <1>12 DEF IInv

\* The slave answers
LEMMA ReadyStep == \A r \in {"ok", "err"} : IInv /\ Ready(r) => IInv'
<1>. SUFFICES ASSUME NEW r \in {"ok", "err"}, IInv, Ready(r) PROVE IInv'
  OBVIOUS
<1>1. /\ TypeOK /\ Queues /\ Windows
      /\ OnePlace /\ PhasesComplete /\ Visits /\ RetriesExhausted
  BY DEF IInv
<1>2. /\ bus # NULL
      /\ rsp' = [rsp EXCEPT ![bus] = r]
      /\ errors' = IF r = "err" THEN [errors EXCEPT ![bus] = @ + 1] ELSE errors
      /\ bus' = NULL
      /\ UNCHANGED <<mainVars, watchVars, noteVars, driver, fifo_mon_sqr>>
  BY DEF Ready
<1>. USE DEF mainVars, watchVars, noteVars
<1>3. PICK x \in Item : x = bus
  BY <1>1, <1>2 DEF TypeOK
<1>4. Placed(x) /\ InMonitor(x) /\ Sent(x) /\ ~Over(x) /\ rsp[x] = "none" /\ ~ErrorAhead(x)
  BY <1>1, <1>2, <1>3 DEF OnePlace, Placed, Queues, ErrorAhead
<1>5. TypeOK'
  BY <1>1, <1>2 DEF TypeOK
<1>6. Queues' /\ Windows'
  BY <1>1, <1>2 DEF Queues, Windows
<1>7. \A y \in Item : /\ Sent(y)' <=> Sent(y)
                      /\ InDriver(y)' <=> InDriver(y)
                      /\ InMonitor(y)' <=> InMonitor(y)
                      /\ InMbox(y)' <=> InMbox(y)
                      /\ Over(y)' <=> Over(y)
  BY <1>2 DEF Sent, Started, InDriver, InMonitor, InMbox, Over
<1>8. OnePlace'
  BY <1>1, <1>2, <1>7, ItemAssumption DEF OnePlace, Placed
<1>9. PhasesComplete'
  BY <1>1, <1>2 DEF PhasesComplete
<1>10. /\ \A y \in Item : y # x => (ErrorAhead(y)' <=> ErrorAhead(y)) /\ errors'[y] = errors[y]
       /\ ErrorAhead(x)' <=> r = "err"
       /\ errors'[x] = errors[x] + (IF r = "err" THEN 1 ELSE 0)
  BY <1>1, <1>2, <1>3, <1>4, <1>7 DEF ErrorAhead, TypeOK
<1>11. retry[Addr[x]] \in Int /\ errors[x] \in Nat /\ Addr[x] \in Addrs
  BY <1>1, ItemsLemma DEF TypeOK
<1>12. Visits'
  <2>1. \A y \in Item : ~Sent(y)' => errors'[y] = 0
    BY <1>1, <1>4, <1>7, <1>10 DEF Visits
  <2>2. \A y \in Item : Sent(y)' /\ ~Over(y)' /\ Addr[y] \in Watched' =>
          /\ retry'[Addr[y]] < MaxErr
          /\ errors'[y] = retry'[Addr[y]] + (IF ErrorAhead(y)' THEN 2 ELSE 1)
    <3>. SUFFICES ASSUME NEW y \in Item, Sent(y)', ~Over(y)', Addr[y] \in Watched
                  PROVE  /\ retry[Addr[y]] < MaxErr
                         /\ errors'[y] = retry[Addr[y]] + (IF ErrorAhead(y)' THEN 2 ELSE 1)
      BY <1>2
    <3>1. CASE y = x
      <4>1. retry[Addr[x]] < MaxErr /\ errors[x] = retry[Addr[x]] + 1
        BY <1>1, <1>4, <3>1 DEF Visits
      <4>. QED BY <1>10, <1>11, <3>1, <4>1
    <3>2. CASE y # x
      BY <1>1, <1>7, <1>10, <3>2 DEF Visits
    <3>. QED BY <3>1, <3>2
  <2>3. \A a \in Addrs :
          (\A y \in Item : Sent(y)' /\ Addr[y] = a => y \in succeeded') => retry'[a] = -1
    BY <1>1, <1>2, <1>7 DEF Visits
  <2>4. \A a \in Addrs : a \notin Watched => retry'[a] = -1
    BY <1>1, <1>2 DEF Visits
  <2>. QED BY <2>1, <2>2, <2>3, <2>4 DEF Visits
<1>13. RetriesExhausted'
  <2>1. ASSUME NEW y \in Item
        PROVE  /\ y \in timedout => errors'[y] = MaxErr + 1
               /\ Addr[y] \in Watched => errors'[y] <= MaxErr + 1
    <3>1. CASE y = x
      <4>1. Addr[x] \in Watched => retry[Addr[x]] < MaxErr /\ errors[x] = retry[Addr[x]] + 1
        BY <1>1, <1>4 DEF Visits
      <4>2. x \notin timedout
        BY <1>4 DEF Over
      <4>. QED BY <1>10, <1>11, <3>1, <4>1, <4>2, BoundAssumption
    <3>2. CASE y # x
      BY <1>1, <1>10, <3>2 DEF RetriesExhausted
    <3>. QED BY <3>1, <3>2
  <2>. QED BY <1>2, <2>1 DEF RetriesExhausted
<1>. QED BY <1>5, <1>6, <1>8, <1>9, <1>12, <1>13 DEF IInv

\* note_to_drv takes an item and grabs the sequencer
LEMMA GrabStep == IInv /\ Grab => IInv'
<1>. SUFFICES ASSUME IInv, Grab PROVE IInv'
  OBVIOUS
<1>0. PICK x : x = Head(mbox)
  OBVIOUS
<1>1. /\ TypeOK /\ Queues /\ Windows
      /\ OnePlace /\ PhasesComplete /\ Visits /\ RetriesExhausted
  BY DEF IInv
<1>2. /\ bitem = NULL /\ mbox # <<>>
      /\ bitem' = x /\ mbox' = Tail(mbox)
      /\ UNCHANGED <<mainVars, watchVars, busVars>>
  BY <1>0 DEF Grab
<1>. USE DEF mainVars, watchVars, busVars
<1>3. /\ x \in Item /\ x \in Range(mbox)
      /\ mbox' \in Seq(Item) /\ IsInjective(mbox')
      /\ Range(mbox') = Range(mbox) \ {x}
  BY <1>0, <1>1, <1>2, TailLemma DEF TypeOK, Queues
<1>4. TypeOK' /\ Queues' /\ Windows'
  <2>1. TypeOK'
    BY <1>1, <1>2, <1>3 DEF TypeOK
  <2>. QED BY <1>1, <1>2, <1>3, <2>1 DEF Queues, Windows
<1>5. \A y \in Item : /\ Sent(y)' <=> Sent(y)
                      /\ InDriver(y)' <=> InDriver(y)
                      /\ InMonitor(y)' <=> InMonitor(y)
                      /\ InMbox(y)' <=> InMbox(y) /\ y # x
                      /\ Over(y)' <=> Over(y)
                      /\ ErrorAhead(y)' <=> ErrorAhead(y)
  BY <1>2, <1>3 DEF Sent, Started, InDriver, InMonitor, InMbox, Over, ErrorAhead
<1>6. Placed(x) /\ InMbox(x)
  BY <1>1, <1>3 DEF OnePlace, InMbox
<1>7. OnePlace'
  BY <1>1, <1>2, <1>3, <1>5, <1>6, ItemAssumption DEF OnePlace, Placed
<1>8. PhasesComplete'
  <2>1. ~finish
    BY <1>1, <1>2 DEF PhasesComplete
  <2>. QED BY <1>1, <1>2, <2>1 DEF PhasesComplete
<1>9. Visits' /\ RetriesExhausted'
  BY <1>1, <1>2, <1>5 DEF Visits, RetriesExhausted
<1>. QED BY <1>4, <1>7, <1>8, <1>9 DEF IInv

\* note_to_drv sends the item once more
LEMMA ResendStep == IInv /\ Resend => IInv'
<1>. SUFFICES ASSUME IInv, Resend PROVE IInv'
  OBVIOUS
<1>1. /\ TypeOK /\ Queues /\ Windows
      /\ OnePlace /\ PhasesComplete /\ Visits /\ RetriesExhausted
  BY DEF IInv
<1>2. /\ bitem # NULL
      /\ driver' = driver \cup {bitem} /\ bitem' = NULL
      /\ UNCHANGED <<mainVars, watchVars, mbox, bus, fifo_mon_sqr, rsp, errors>>
  BY DEF Resend
<1>. USE DEF mainVars, watchVars
<1>3. PICK x \in Item : x = bitem
  BY <1>1, <1>2 DEF TypeOK
<1>4. TypeOK' /\ Queues' /\ Windows'
  <2>1. TypeOK'
    BY <1>1, <1>2, <1>3 DEF TypeOK
  <2>. QED BY <1>1, <1>2, <2>1 DEF Queues, Windows
<1>5. \A y \in Item : /\ Sent(y)' <=> Sent(y)
                      /\ InDriver(y)' <=> InDriver(y) \/ y = x
                      /\ InMonitor(y)' <=> InMonitor(y)
                      /\ InMbox(y)' <=> InMbox(y)
                      /\ Over(y)' <=> Over(y)
                      /\ ErrorAhead(y)' <=> ErrorAhead(y)
  BY <1>2, <1>3 DEF Sent, Started, InDriver, InMonitor, InMbox, Over, ErrorAhead
<1>6. OnePlace'
  BY <1>1, <1>2, <1>3, <1>5, ItemAssumption DEF OnePlace, Placed
<1>7. PhasesComplete'
  <2>1. ~finish
    BY <1>1, <1>2 DEF PhasesComplete
  <2>. QED BY <1>1, <1>2, <2>1 DEF PhasesComplete
<1>8. Visits' /\ RetriesExhausted'
  BY <1>1, <1>2, <1>5 DEF Visits, RetriesExhausted
<1>. QED BY <1>4, <1>6, <1>7, <1>8 DEF IInv

\* The two processes are killed
LEMMA StopStep == IInv /\ StopWatching => IInv'
<1>. SUFFICES ASSUME IInv, StopWatching PROVE IInv'
  OBVIOUS
<1>1. /\ TypeOK /\ Queues /\ Windows
      /\ OnePlace /\ PhasesComplete /\ Visits /\ RetriesExhausted
  BY DEF IInv
<1>2. /\ finish /\ watching' = FALSE /\ bitem' = NULL
      /\ UNCHANGED <<mainVars, win, retry, succeeded, timedout, unwatched, mbox, busVars>>
  BY DEF StopWatching
<1>. USE DEF mainVars, busVars
<1>3. bitem' = bitem
  BY <1>1, <1>2 DEF PhasesComplete
<1>4. \A y \in Item : /\ Sent(y)' <=> Sent(y)
                      /\ InDriver(y)' <=> InDriver(y)
                      /\ InMonitor(y)' <=> InMonitor(y)
                      /\ InMbox(y)' <=> InMbox(y)
                      /\ Over(y)' <=> Over(y)
                      /\ ErrorAhead(y)' <=> ErrorAhead(y)
  BY <1>2 DEF Sent, Started, InDriver, InMonitor, InMbox, Over, ErrorAhead
<1>5. TypeOK' /\ Queues' /\ Windows'
  <2>1. TypeOK'
    BY <1>1, <1>2 DEF TypeOK
  <2>. QED BY <1>1, <1>2, <2>1 DEF Queues, Windows
<1>6. OnePlace' /\ PhasesComplete'
  BY <1>1, <1>2, <1>3, <1>4 DEF OnePlace, Placed, PhasesComplete
<1>7. Visits' /\ RetriesExhausted'
  BY <1>1, <1>2, <1>4 DEF Visits, RetriesExhausted
<1>. QED BY <1>5, <1>6, <1>7 DEF IInv

-----------------------------------------------------------------------------
\* An item that is sent and not over is the only one at its address
LEMMA Alone ==
  ASSUME IInv, NEW x \in Item, Sent(x), ~Over(x),
         NEW y \in Item, y # x, Addr[y] = Addr[x], Sent(y)
  PROVE  y \in succeeded
<1>1. PhasesComplete /\ phase \in {"WR", "RD", "end"}
  BY DEF IInv, TypeOK
<1>2. /\ Kind(x) \in Kinds /\ x \in Range(ItemsOf(Kind(x))) /\ Started(x)
      /\ Kind(y) \in Kinds /\ y \in Range(ItemsOf(Kind(y))) /\ Started(y)
  BY ItemsLemma DEF Sent
<1>3. Kind(x) # Kind(y)
  BY <1>2, ItemsLemma
<1>4. x \notin succeeded
  BY DEF Over
<1>5. phase # "WR"
  BY <1>2, <1>3 DEF Started, Kinds
<1>6. Kind(x) = "RD"
  BY <1>1, <1>2, <1>4, <1>5 DEF PhasesComplete, ItemsOf, Kinds
<1>. QED BY <1>1, <1>2, <1>3, <1>5, <1>6 DEF PhasesComplete, ItemsOf, Kinds

\* The item that rcv_from_mon takes
LEMMA Taken ==
  ASSUME IInv, NEW x \in Item, NEW r \in {"ok", "err"}, Received(x, r)
  PROVE  /\ Placed(x) /\ Sent(x) /\ InMonitor(x) /\ ~Over(x) /\ bus # x
         /\ rsp[x] = r /\ ~finish /\ phase # "end"
         /\ fifo_mon_sqr' \in Seq(Item) /\ IsInjective(fifo_mon_sqr')
         /\ Range(fifo_mon_sqr') = Range(fifo_mon_sqr) \ {x}
         /\ Addr[x] \in Addrs /\ Kind(x) \in Kinds /\ x \in Range(ItemsOf(Kind(x)))
<1>1. TypeOK /\ Queues /\ OnePlace /\ PhasesComplete
  BY DEF IInv
<1>2. /\ fifo_mon_sqr # <<>> /\ x = Head(fifo_mon_sqr) /\ rsp[x] = r
      /\ fifo_mon_sqr' = Tail(fifo_mon_sqr)
  BY DEF Received
<1>3. /\ x \in Range(fifo_mon_sqr)
      /\ fifo_mon_sqr' \in Seq(Item) /\ IsInjective(fifo_mon_sqr')
      /\ Range(fifo_mon_sqr') = Range(fifo_mon_sqr) \ {x}
  BY <1>1, <1>2, TailLemma DEF TypeOK, Queues
<1>4. InMonitor(x) /\ Placed(x) /\ ~finish
  BY <1>1, <1>2, <1>3 DEF OnePlace, InMonitor, PhasesComplete
<1>5. bus # x /\ phase # "end"
  BY <1>1, <1>2, <1>4, ItemAssumption DEF Queues
<1>. QED BY <1>2, <1>3, <1>4, <1>5, ItemsLemma DEF Placed

\* A success is counted
LEMMA SuccessStep == \A x \in Item : IInv /\ Success(x) => IInv'
<1>. SUFFICES ASSUME NEW x \in Item, IInv, Success(x) PROVE IInv'
  OBVIOUS
<1>1. /\ TypeOK /\ Queues /\ Windows
      /\ OnePlace /\ PhasesComplete /\ Visits /\ RetriesExhausted
  BY DEF IInv
<1>2. /\ Received(x, "ok")
      /\ retry' = [retry EXCEPT ![Addr[x]] = -1]
      /\ win' = [win EXCEPT ![Kind(x)] = @ - 1]
      /\ succeeded' = succeeded \cup {x}
      /\ UNCHANGED <<mainVars, watching, timedout, unwatched, noteVars, driver, bus, rsp, errors>>
  BY DEF Success
<1>. USE DEF mainVars, noteVars
<1>3. /\ Placed(x) /\ Sent(x) /\ InMonitor(x) /\ ~Over(x) /\ bus # x
      /\ rsp[x] = "ok" /\ ~finish /\ phase # "end"
      /\ fifo_mon_sqr' \in Seq(Item) /\ IsInjective(fifo_mon_sqr')
      /\ Range(fifo_mon_sqr') = Range(fifo_mon_sqr) \ {x}
      /\ Addr[x] \in Addrs /\ Kind(x) \in Kinds /\ x \in Range(ItemsOf(Kind(x)))
  BY <1>2, Taken
<1>4. Windows' /\ win' \in [Kinds -> Nat]
  <2>. DEFINE Rest(k) == Range(ItemsOf(k)) \ succeeded
              Rest1(k) == Range(ItemsOf(k)) \ (succeeded \cup {x})
  <2>1. phase # "WR" \/ Kind(x) = "WR"
    BY <1>3 DEF Sent, Started
  <2>2. IsFiniteSet(Rest(Kind(x))) /\ win[Kind(x)] = Cardinality(Rest(Kind(x)))
    BY <1>1, <1>3, <2>1 DEF Windows
  <2>3. x \in Rest(Kind(x)) /\ Rest1(Kind(x)) = Rest(Kind(x)) \ {x}
    BY <1>3 DEF Over
  <2>4. /\ IsFiniteSet(Rest1(Kind(x))) /\ Cardinality(Rest1(Kind(x))) = win[Kind(x)] - 1
        /\ Cardinality(Rest1(Kind(x))) \in Nat
    <3>1. /\ IsFiniteSet(Rest(Kind(x)) \ {x})
          /\ Cardinality(Rest(Kind(x)) \ {x}) = Cardinality(Rest(Kind(x))) - 1
      BY <2>2, <2>3, FS_RemoveElement
    <3>2. Cardinality(Rest(Kind(x)) \ {x}) \in Nat
      BY <3>1, FS_CardinalityType
    <3>. QED BY <2>2, <2>3, <3>1, <3>2
  <2>5. \A k \in Kinds : k # Kind(x) => Rest1(k) = Rest(k)
    BY <1>3, ItemsLemma
  <2>. HIDE DEF Rest, Rest1
  <2>6. win' \in [Kinds -> Nat]
    BY <1>1, <1>2, <1>3, <2>4 DEF TypeOK
  <2>7. ASSUME NEW k \in Kinds, phase # "WR" \/ k = "WR"
        PROVE  IsFiniteSet(Rest1(k)) /\ win'[k] = Cardinality(Rest1(k))
    <3>1. CASE k = Kind(x)
      BY <1>1, <1>2, <1>3, <2>4, <3>1 DEF TypeOK
    <3>2. CASE k # Kind(x)
      <4>1. IsFiniteSet(Rest(k)) /\ win[k] = Cardinality(Rest(k))
        BY <1>1, <2>7 DEF Windows, Rest
      <4>. QED BY <1>1, <1>2, <2>5, <3>2, <4>1 DEF TypeOK
    <3>. QED BY <3>1, <3>2
  <2>. QED BY <1>2, <2>6, <2>7 DEF Windows, Rest1
<1>5. TypeOK'
  <2>1. retry' \in [Addrs -> Nat \cup {-1}]
    BY <1>1, <1>2, <1>3 DEF TypeOK
  <2>. QED BY <1>1, <1>2, <1>3, <1>4, <2>1 DEF TypeOK
<1>6. Queues'
  BY <1>1, <1>2, <1>3 DEF Queues, Received
<1>7. \A y \in Item : /\ Sent(y)' <=> Sent(y)
                      /\ InDriver(y)' <=> InDriver(y)
                      /\ InMonitor(y)' <=> InMonitor(y) /\ y # x
                      /\ InMbox(y)' <=> InMbox(y)
                      /\ Over(y)' <=> Over(y) \/ y = x
                      /\ y # x => (ErrorAhead(y)' <=> ErrorAhead(y))
  BY <1>2, <1>3 DEF Sent, Started, InDriver, InMonitor, InMbox, Over, ErrorAhead
<1>8. OnePlace'
  BY <1>1, <1>2, <1>3, <1>7 DEF OnePlace, Placed
<1>9. PhasesComplete'
  BY <1>1, <1>2, <1>3 DEF PhasesComplete
<1>10. /\ retry'[Addr[x]] = -1
       /\ \A a \in Addrs : a # Addr[x] => retry'[a] = retry[a]
  BY <1>1, <1>2, <1>3 DEF TypeOK
<1>11. Visits'
  <2>1. ASSUME NEW y \in Item, Sent(y)', ~Over(y)', Addr[y] \in Watched
        PROVE  /\ retry'[Addr[y]] < MaxErr
               /\ errors'[y] = retry'[Addr[y]] + (IF ErrorAhead(y)' THEN 2 ELSE 1)
    <3>1. y # x /\ Sent(y) /\ ~Over(y)
      BY <1>7, <2>1
    <3>2. Addr[y] # Addr[x]
      <4>. SUFFICES ASSUME Addr[y] = Addr[x] PROVE FALSE
        OBVIOUS
      <4>1. y \in succeeded
        BY <1>3, <3>1, Alone
      <4>. QED BY <3>1, <4>1 DEF Over
    <3>3. retry'[Addr[y]] = retry[Addr[y]]
      BY <1>10, <3>2, ItemsLemma
    <3>. QED BY <1>1, <1>2, <1>7, <2>1, <3>1, <3>3 DEF Visits
  <2>2. \A y \in Item : ~Sent(y)' => errors'[y] = 0
    BY <1>1, <1>2, <1>7 DEF Visits
  <2>3. ASSUME NEW a \in Addrs,
               \A y \in Item : Sent(y)' /\ Addr[y] = a => y \in succeeded'
        PROVE  retry'[a] = -1
    <3>1. CASE a = Addr[x]
      BY <1>10, <3>1
    <3>2. CASE a # Addr[x]
      BY <1>1, <1>2, <1>7, <1>10, <2>3, <3>2 DEF Visits
    <3>. QED BY <3>1, <3>2
  <2>4. \A a \in Addrs : a \notin Watched => retry'[a] = -1
    BY <1>1, <1>10 DEF Visits
  <2>. QED BY <2>1, <2>2, <2>3, <2>4 DEF Visits
<1>12. RetriesExhausted'
  BY <1>1, <1>2 DEF RetriesExhausted
<1>. QED BY <1>4, <1>5, <1>6, <1>8, <1>9, <1>11, <1>12 DEF IInv

\* An error is to be retried
LEMMA RetryStep == \A x \in Item : IInv /\ Retry(x) => IInv'
<1>. SUFFICES ASSUME NEW x \in Item, IInv, Retry(x) PROVE IInv'
  OBVIOUS
<1>1. /\ TypeOK /\ Queues /\ Windows
      /\ OnePlace /\ PhasesComplete /\ Visits /\ RetriesExhausted
  BY DEF IInv
<1>2. /\ Received(x, "err")
      /\ Addr[x] \in Watched /\ retry[Addr[x]] + 1 < MaxErr
      /\ retry' = [retry EXCEPT ![Addr[x]] = @ + 1]
      /\ mbox' = Append(mbox, x)
      /\ UNCHANGED <<mainVars, win, watching, succeeded, timedout, unwatched, bitem,
                     driver, bus, rsp, errors>>
  BY DEF Retry
<1>. USE DEF mainVars
<1>3. /\ Placed(x) /\ Sent(x) /\ InMonitor(x) /\ ~Over(x) /\ bus # x
      /\ ErrorAhead(x) /\ ~finish
      /\ fifo_mon_sqr' \in Seq(Item) /\ IsInjective(fifo_mon_sqr')
      /\ Range(fifo_mon_sqr') = Range(fifo_mon_sqr) \ {x}
      /\ Addr[x] \in Addrs
  BY <1>2, Taken DEF ErrorAhead
<1>4. TypeOK' /\ Queues' /\ Windows' /\ Range(mbox') = Range(mbox) \cup {x}
  <2>1. /\ mbox' \in Seq(Item) /\ IsInjective(mbox')
        /\ Range(mbox') = Range(mbox) \cup {x}
    BY <1>1, <1>2, <1>3, AppendLemma DEF TypeOK, Queues, Placed, InMbox
  <2>2. retry' \in [Addrs -> Nat \cup {-1}]
    <3>1. retry \in [Addrs -> Nat \cup {-1}] /\ retry[Addr[x]] \in Nat \cup {-1}
      BY <1>1, <1>3 DEF TypeOK
    <3>2. retry[Addr[x]] + 1 \in Nat \cup {-1}
      BY <3>1
    <3>. QED BY <1>2, <1>3, <3>1, <3>2
  <2>3. TypeOK'
    BY <1>1, <1>2, <1>3, <2>1, <2>2 DEF TypeOK
  <2>. QED BY <1>1, <1>2, <1>3, <2>1, <2>3 DEF Queues, Windows, Received
<1>5. \A y \in Item : /\ Sent(y)' <=> Sent(y)
                      /\ InDriver(y)' <=> InDriver(y)
                      /\ InMonitor(y)' <=> InMonitor(y) /\ y # x
                      /\ InMbox(y)' <=> InMbox(y) \/ y = x
                      /\ Over(y)' <=> Over(y)
                      /\ ErrorAhead(y)' <=> ErrorAhead(y) /\ y # x
  BY <1>2, <1>3, <1>4 DEF Sent, Started, InDriver, InMonitor, InMbox, Over, ErrorAhead
<1>6. OnePlace'
  BY <1>1, <1>2, <1>3, <1>5 DEF OnePlace, Placed
<1>7. PhasesComplete'
  BY <1>1, <1>2, <1>3 DEF PhasesComplete
<1>8. /\ retry'[Addr[x]] = retry[Addr[x]] + 1
      /\ \A a \in Addrs : a # Addr[x] => retry'[a] = retry[a]
      /\ retry[Addr[x]] \in Nat \cup {-1} /\ errors[x] \in Nat
  BY <1>1, <1>2, <1>3 DEF TypeOK
<1>9. Addr[x] \in Watched /\ retry[Addr[x]] < MaxErr /\ errors[x] = retry[Addr[x]] + 2
  BY <1>1, <1>2, <1>3 DEF Visits
<1>10. Visits'
  <2>1. ASSUME NEW y \in Item, Sent(y)', ~Over(y)', Addr[y] \in Watched
        PROVE  /\ retry'[Addr[y]] < MaxErr
               /\ errors'[y] = retry'[Addr[y]] + (IF ErrorAhead(y)' THEN 2 ELSE 1)
    <3>1. CASE y = x
      BY <1>2, <1>5, <1>8, <1>9, <3>1
    <3>2. CASE y # x
      <4>1. Sent(y) /\ ~Over(y)
        BY <1>5, <2>1, <3>2
      <4>2. Addr[y] # Addr[x]
        <5>. SUFFICES ASSUME Addr[y] = Addr[x] PROVE FALSE
          OBVIOUS
        <5>1. y \in succeeded
          BY <1>3, <3>2, <4>1, Alone
        <5>. QED BY <4>1, <5>1 DEF Over
      <4>3. retry'[Addr[y]] = retry[Addr[y]]
        BY <1>8, <4>2, ItemsLemma
      <4>. QED BY <1>1, <1>2, <1>5, <2>1, <3>2, <4>1, <4>3 DEF Visits
    <3>. QED BY <3>1, <3>2
  <2>2. \A y \in Item : ~Sent(y)' => errors'[y] = 0
    BY <1>1, <1>2, <1>5 DEF Visits
  <2>3. ASSUME NEW a \in Addrs,
               \A y \in Item : Sent(y)' /\ Addr[y] = a => y \in succeeded'
        PROVE  retry'[a] = -1
    <3>1. a # Addr[x]
      BY <1>2, <1>3, <1>5, <2>3 DEF Over
    <3>. QED BY <1>1, <1>2, <1>5, <1>8, <2>3, <3>1 DEF Visits
  <2>4. \A a \in Addrs : a \notin Watched => retry'[a] = -1
    BY <1>1, <1>8, <1>9 DEF Visits
  <2>. QED BY <2>1, <2>2, <2>3, <2>4 DEF Visits
<1>11. RetriesExhausted'
  BY <1>1, <1>2 DEF RetriesExhausted
<1>. QED BY <1>4, <1>6, <1>7, <1>10, <1>11 DEF IInv

\* The retries of an item have run out
LEMMA TimeoutStep == \A x \in Item : IInv /\ Timeout(x) => IInv'
<1>. SUFFICES ASSUME NEW x \in Item, IInv, Timeout(x) PROVE IInv'
  OBVIOUS
<1>1. /\ TypeOK /\ Queues /\ Windows
      /\ OnePlace /\ PhasesComplete /\ Visits /\ RetriesExhausted
  BY DEF IInv
<1>2. /\ Received(x, "err")
      /\ Addr[x] \in Watched /\ retry[Addr[x]] + 1 >= MaxErr
      /\ retry' = [retry EXCEPT ![Addr[x]] = @ + 1]
      /\ timedout' = timedout \cup {x}
      /\ UNCHANGED <<mainVars, win, watching, succeeded, unwatched, noteVars,
                     driver, bus, rsp, errors>>
  BY DEF Timeout
<1>. USE DEF mainVars, noteVars
<1>3. /\ Placed(x) /\ Sent(x) /\ InMonitor(x) /\ ~Over(x) /\ bus # x
      /\ ErrorAhead(x) /\ ~finish
      /\ fifo_mon_sqr' \in Seq(Item) /\ IsInjective(fifo_mon_sqr')
      /\ Range(fifo_mon_sqr') = Range(fifo_mon_sqr) \ {x}
      /\ Addr[x] \in Addrs
  BY <1>2, Taken DEF ErrorAhead
<1>4. TypeOK' /\ Queues' /\ Windows'
  <2>1. retry' \in [Addrs -> Nat \cup {-1}]
    <3>1. retry \in [Addrs -> Nat \cup {-1}] /\ retry[Addr[x]] \in Nat \cup {-1}
      BY <1>1, <1>3 DEF TypeOK
    <3>2. retry[Addr[x]] + 1 \in Nat \cup {-1}
      BY <3>1
    <3>. QED BY <1>2, <1>3, <3>1, <3>2
  <2>2. TypeOK'
    BY <1>1, <1>2, <1>3, <2>1 DEF TypeOK
  <2>. QED BY <1>1, <1>2, <1>3, <2>2 DEF Queues, Windows, Received
<1>5. \A y \in Item : /\ Sent(y)' <=> Sent(y)
                      /\ InDriver(y)' <=> InDriver(y)
                      /\ InMonitor(y)' <=> InMonitor(y) /\ y # x
                      /\ InMbox(y)' <=> InMbox(y)
                      /\ Over(y)' <=> Over(y) \/ y = x
                      /\ ErrorAhead(y)' <=> ErrorAhead(y) /\ y # x
  BY <1>2, <1>3 DEF Sent, Started, InDriver, InMonitor, InMbox, Over, ErrorAhead
<1>6. OnePlace'
  BY <1>1, <1>2, <1>3, <1>5 DEF OnePlace, Placed
<1>7. PhasesComplete'
  BY <1>1, <1>2, <1>3 DEF PhasesComplete
<1>8. /\ retry'[Addr[x]] = retry[Addr[x]] + 1
      /\ \A a \in Addrs : a # Addr[x] => retry'[a] = retry[a]
      /\ retry[Addr[x]] \in Nat \cup {-1} /\ errors[x] \in Nat
  BY <1>1, <1>2, <1>3 DEF TypeOK
<1>9. Addr[x] \in Watched /\ retry[Addr[x]] < MaxErr /\ errors[x] = retry[Addr[x]] + 2
  BY <1>1, <1>2, <1>3 DEF Visits
<1>10. Visits'
  <2>1. ASSUME NEW y \in Item, Sent(y)', ~Over(y)', Addr[y] \in Watched
        PROVE  /\ retry'[Addr[y]] < MaxErr
               /\ errors'[y] = retry'[Addr[y]] + (IF ErrorAhead(y)' THEN 2 ELSE 1)
    <3>1. CASE y = x
      BY <1>5, <2>1, <3>1
    <3>2. CASE y # x
      <4>1. Sent(y) /\ ~Over(y)
        BY <1>5, <2>1, <3>2
      <4>2. Addr[y] # Addr[x]
        <5>. SUFFICES ASSUME Addr[y] = Addr[x] PROVE FALSE
          OBVIOUS
        <5>1. y \in succeeded
          BY <1>3, <3>2, <4>1, Alone
        <5>. QED BY <4>1, <5>1 DEF Over
      <4>3. retry'[Addr[y]] = retry[Addr[y]]
        BY <1>8, <4>2, ItemsLemma
      <4>. QED BY <1>1, <1>2, <1>5, <2>1, <3>2, <4>1, <4>3 DEF Visits
    <3>. QED BY <3>1, <3>2
  <2>2. \A y \in Item : ~Sent(y)' => errors'[y] = 0
    BY <1>1, <1>2, <1>5 DEF Visits
  <2>3. ASSUME NEW a \in Addrs,
               \A y \in Item : Sent(y)' /\ Addr[y] = a => y \in succeeded'
        PROVE  retry'[a] = -1
    <3>1. a # Addr[x]
      BY <1>2, <1>3, <1>5, <2>3 DEF Over
    <3>. QED BY <1>1, <1>2, <1>5, <1>8, <2>3, <3>1 DEF Visits
  <2>4. \A a \in Addrs : a \notin Watched => retry'[a] = -1
    BY <1>1, <1>8, <1>9 DEF Visits
  <2>. QED BY <2>1, <2>2, <2>3, <2>4 DEF Visits
<1>11. RetriesExhausted'
  <2>1. errors[x] = MaxErr + 1
    BY <1>2, <1>8, <1>9, BoundAssumption
  <2>. QED BY <1>1, <1>2, <2>1 DEF RetriesExhausted
<1>. QED BY <1>4, <1>6, <1>7, <1>10, <1>11 DEF IInv

\* An error outside of the watch table
LEMMA IgnoreStep == \A x \in Item : IInv /\ Ignore(x) => IInv'
<1>. SUFFICES ASSUME NEW x \in Item, IInv, Ignore(x) PROVE IInv'
  OBVIOUS
<1>1. /\ TypeOK /\ Queues /\ Windows
      /\ OnePlace /\ PhasesComplete /\ Visits /\ RetriesExhausted
  BY DEF IInv
<1>2. /\ Received(x, "err")
      /\ Addr[x] \notin Watched
      /\ unwatched' = unwatched \cup {x}
      /\ UNCHANGED <<mainVars, win, watching, retry, succeeded, timedout, noteVars,
                     driver, bus, rsp, errors>>
  BY DEF Ignore
<1>. USE DEF mainVars, noteVars
<1>3. /\ Placed(x) /\ Sent(x) /\ InMonitor(x) /\ ~Over(x) /\ bus # x
      /\ ErrorAhead(x) /\ ~finish
      /\ fifo_mon_sqr' \in Seq(Item) /\ IsInjective(fifo_mon_sqr')
      /\ Range(fifo_mon_sqr') = Range(fifo_mon_sqr) \ {x}
      /\ Addr[x] \in Addrs
  BY <1>2, Taken DEF ErrorAhead
<1>4. TypeOK' /\ Queues' /\ Windows'
  <2>1. TypeOK'
    BY <1>1, <1>2, <1>3 DEF TypeOK
  <2>. QED BY <1>1, <1>2, <1>3, <2>1 DEF Queues, Windows, Received
<1>5. \A y \in Item : /\ Sent(y)' <=> Sent(y)
                      /\ InDriver(y)' <=> InDriver(y)
                      /\ InMonitor(y)' <=> InMonitor(y) /\ y # x
                      /\ InMbox(y)' <=> InMbox(y)
                      /\ Over(y)' <=> Over(y) \/ y = x
                      /\ ErrorAhead(y)' <=> ErrorAhead(y) /\ y # x
  BY <1>2, <1>3 DEF Sent, Started, InDriver, InMonitor, InMbox, Over, ErrorAhead
<1>6. OnePlace'
  BY <1>1, <1>2, <1>3, <1>5 DEF OnePlace, Placed
<1>7. PhasesComplete'
  BY <1>1, <1>2, <1>3 DEF PhasesComplete
<1>10. Visits'
  BY <1>1, <1>2, <1>5 DEF Visits
<1>11. RetriesExhausted'
  BY <1>1, <1>2 DEF RetriesExhausted
<1>. QED BY <1>4, <1>6, <1>7, <1>10, <1>11 DEF IInv

-----------------------------------------------------------------------------
\* Every step preserves the invariant
LEMMA NextInvariant == IInv /\ [Next]_vars => IInv'
<1>. SUFFICES ASSUME IInv, [Next]_vars PROVE IInv'
  OBVIOUS
<1>1. CASE Main
  BY <1>1, SendStep, StartReadsStep, FinishStep DEF Main
<1>2. CASE Drive
  BY <1>2, AccessStep DEF Drive
<1>3. CASE Slave
  BY <1>3, ReadyStep DEF Slave
<1>4. CASE Rcv
  BY <1>4, SuccessStep, RetryStep, TimeoutStep, IgnoreStep DEF Rcv
<1>5. CASE Note
  BY <1>5, GrabStep, ResendStep DEF Note
<1>6. CASE StopWatching
  BY <1>6, StopStep
<1>7. CASE UNCHANGED vars
  <2>. USE <1>7 DEF vars, mainVars, watchVars, noteVars, busVars
  <2>1. /\ TypeOK /\ Queues /\ Windows
        /\ OnePlace /\ PhasesComplete /\ Visits /\ RetriesExhausted
    BY DEF IInv
  <2>2. \A y \in Item : /\ Sent(y)' <=> Sent(y)
                        /\ InDriver(y)' <=> InDriver(y)
                        /\ InMonitor(y)' <=> InMonitor(y)
                        /\ InMbox(y)' <=> InMbox(y)
                        /\ Over(y)' <=> Over(y)
                        /\ ErrorAhead(y)' <=> ErrorAhead(y)
    BY DEF Sent, Started, InDriver, InMonitor, InMbox, Over, ErrorAhead
  <2>3. TypeOK'
    BY <2>1 DEF TypeOK
  <2>4. Queues' /\ Windows' /\ PhasesComplete' /\ RetriesExhausted'
    BY <2>1 DEF Queues, Windows, PhasesComplete, RetriesExhausted
  <2>5. OnePlace' /\ Visits'
    BY <2>1, <2>2 DEF OnePlace, Placed, Visits
  <2>. QED BY <2>3, <2>4, <2>5 DEF IInv
<1>. QED BY <1>1, <1>2, <1>3, <1>4, <1>5, <1>6, <1>7 DEF Next

(***************************************************************************)
(* The invariant holds in every reachable state.                           *)
(***************************************************************************)
THEOREM RetrySeqInvariant == Spec => []IInv
<1>. QED BY InitInvariant, NextInvariant, PTL DEF Spec

(***************************************************************************)
(* Types, and the windows never run below zero, whatever the slave answers *)
(* (smtdv_master_retry_seq::mid_do_write_item, mid_do_read_item).          *)
(***************************************************************************)
THEOREM RetrySeqTypeCorrect == Spec => []TypeOK
<1>1. IInv => TypeOK
  BY DEF IInv
<1>. QED BY <1>1, RetrySeqInvariant, PTL

(***************************************************************************)
(* No item is in two places: none is retried while its transfer is on the  *)
(* bus, and none that succeeded is sent again (rcv_from_mon, note_to_drv). *)
(***************************************************************************)
THEOREM RetrySeqOnePlace == Spec => []OnePlace
<1>1. IInv => OnePlace
  BY DEF IInv
<1>. QED BY <1>1, RetrySeqInvariant, PTL

(***************************************************************************)
(* When a window is empty every item of the phase has succeeded, and the   *)
(* end of the virtual sequence kills processes with nothing in hand        *)
(* (is_finish_to_watch, smtdv_master_retry_seq::body).                     *)
(***************************************************************************)
THEOREM RetrySeqPhasesComplete == Spec => []PhasesComplete
<1>1. IInv => PhasesComplete
  BY DEF IInv
<1>. QED BY <1>1, RetrySeqInvariant, PTL

(***************************************************************************)
(* An item is given up after max_err + 1 errors, and never earlier (the    *)
(* retry table of mid_do_write_item and mid_do_read_item).                 *)
(***************************************************************************)
THEOREM RetrySeqRetriesExhausted == Spec => []RetriesExhausted
<1>1. IInv => RetriesExhausted
  BY DEF IInv
<1>. QED BY <1>1, RetrySeqInvariant, PTL
=============================================================================
