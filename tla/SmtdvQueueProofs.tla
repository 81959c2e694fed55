-------------------------- MODULE SmtdvQueueProofs --------------------------
(***************************************************************************)
(* Proofs about SmtdvQueue, for every set of processes, every assignment of*)
(* tasks to them and every set of items, indices and priorities.           *)
(***************************************************************************)
EXTENDS SmtdvQueue, QueueOpsProofs

-----------------------------------------------------------------------------
(***************************************************************************)
(* Type correctness.  The type of the queue needs CallOK: a pending add has*)
(* an item to add.                                                         *)
(***************************************************************************)
\* Every step keeps the types and CallOK
LEMMA TypeStep == TypeOK /\ CallOK /\ [Next]_vars => TypeOK' /\ CallOK'
<1>. SUFFICES ASSUME TypeOK, CallOK, [Next]_vars
              PROVE  TypeOK' /\ CallOK'
  OBVIOUS
<1>. USE DEF TypeOK, CallOK
<1>1. CASE UNCHANGED vars
  BY <1>1 DEF vars
<1>2. ASSUME NEW p \in Proc, StartAdd(p)
      PROVE  TypeOK' /\ CallOK'
  BY <1>2, CallsAssumption DEF StartAdd, Op
<1>3. ASSUME NEW p \in Proc, StartOther(p)
      PROVE  TypeOK' /\ CallOK'
  <2>1. PICK o \in Calls[p] \ Adding :
          /\ op' = [op EXCEPT ![p] = o]
          /\ pc' = [pc EXCEPT ![p] = IF o \in Waiting THEN "wait_size" ELSE "wait_lock"]
    BY <1>3 DEF StartOther
  <2>2. o \in Op
    BY CallsAssumption
  <2>3. TypeOK'
    BY <1>3, <2>1, <2>2 DEF StartOther
  <2>4. CallOK'
    BY <1>3, <2>1 DEF StartOther
  <2>. QED BY <2>3, <2>4
<1>4. ASSUME NEW p \in Proc, WaitSize(p)
      PROVE  TypeOK' /\ CallOK'
  <2>1. Waiting \cap Adding = {}
    BY DEF Waiting, Adding, Removing
  <2>. QED BY <1>4, <2>1 DEF WaitSize
<1>5. ASSUME NEW p \in Proc, AsyncPushFront(p)
      PROVE  TypeOK' /\ CallOK'
  BY <1>5, PushFrontLemma DEF AsyncPushFront, Lock, Added, Keep, Adding
<1>6. ASSUME NEW p \in Proc, AsyncPushBack(p)
      PROVE  TypeOK' /\ CallOK'
  BY <1>6, PushBackLemma DEF AsyncPushBack, Lock, Added, Keep, Adding
<1>7. ASSUME NEW p \in Proc, AsyncInsert(p)
      PROVE  TypeOK' /\ CallOK'
  BY <1>7, InsertLemma, IdxAssumption DEF AsyncInsert, Lock, Added, Keep, Adding
<1>8. ASSUME NEW p \in Proc, RawPushBack(p)
      PROVE  TypeOK' /\ CallOK'
  BY <1>8, PushBackLemma DEF RawPushBack, Added, Adding
<1>9. ASSUME NEW p \in Proc, AsyncDelete(p)
      PROVE  TypeOK' /\ CallOK'
  BY <1>9, DeleteLemma, IdxAssumption DEF AsyncDelete, Lock, Keep
<1>10. ASSUME NEW p \in Proc, AsyncPurge(p)
       PROVE  TypeOK' /\ CallOK'
  BY <1>10 DEF AsyncPurge, Lock, Keep
<1>11. ASSUME NEW p \in Proc, AsyncPopFront(p)
       PROVE  TypeOK' /\ CallOK'
  BY <1>11, PopFrontLemma, NullAssumption DEF AsyncPopFront, Lock, Return
<1>12. ASSUME NEW p \in Proc, AsyncPopBack(p)
       PROVE  TypeOK' /\ CallOK'
  BY <1>12, PopBackLemma, NullAssumption DEF AsyncPopBack, Lock, Return
<1>13. ASSUME NEW p \in Proc, AsyncPrioGet(p)
       PROVE  TypeOK' /\ CallOK'
  <2>1. PICK q \in Sorts(queue, Prio) : queue' = WithoutFront(q) /\ Return(p, FrontOf(q))
    BY <1>13 DEF AsyncPrioGet
  <2>2. q \in Seq(Item)
    BY SortLemma, PrioAssumption
  <2>3. WithoutFront(q) \in Seq(Item) /\ FrontOf(q) \in Item \cup {NULL}
    BY <2>2, PopFrontLemma, NullAssumption
  <2>. QED BY <1>13, <2>1, <2>3 DEF AsyncPrioGet, Lock, Return
<1>14. ASSUME NEW p \in Proc, AsyncGet(p)
       PROVE  TypeOK' /\ CallOK'
  BY <1>14, IdxAssumption DEF AsyncGet, Lock, Get, InRange
<1>15. ASSUME NEW p \in Proc, Unlock(p)
       PROVE  TypeOK' /\ CallOK'
  BY <1>15 DEF Unlock
<1>. QED
  BY <1>1, <1>2, <1>3, <1>4, <1>5, <1>6, <1>7, <1>8, <1>9, <1>10, <1>11, <1>12, <1>13,
     <1>14, <1>15
  DEF Next, Step, Start, Add, Take, Discard

-----------------------------------------------------------------------------
(***************************************************************************)
(* The lock                                                                *)
(***************************************************************************)
\* Every step keeps the lock owned by the process between lock and unlock
LEMMA LockStep == TypeOK /\ LockOwned /\ [Next]_vars => LockOwned'
<1>. SUFFICES ASSUME TypeOK, LockOwned, [Next]_vars
              PROVE  LockOwned'
  OBVIOUS
<1>. USE DEF TypeOK, LockOwned
<1>1. CASE UNCHANGED vars
  BY <1>1 DEF vars
<1>2. ASSUME NEW p \in Proc, NEW o, Lock(p, o)
      PROVE  LockOwned'
  BY <1>2 DEF Lock
<1>3. ASSUME NEW p \in Proc, Unlock(p)
      PROVE  LockOwned'
  BY <1>3 DEF Unlock
<1>4. ASSUME NEW p \in Proc, Start(p) \/ WaitSize(p) \/ RawPushBack(p)
      PROVE  LockOwned'
  <2>1. /\ pc[p] # "swap" /\ pc'[p] # "swap" /\ UNCHANGED has_lock
        /\ \A q \in Proc : q # p => pc'[q] = pc[q]
    BY <1>4 DEF Start, StartAdd, StartOther, WaitSize, RawPushBack
  <2>. QED BY <2>1
<1>. QED
  BY <1>1, <1>2, <1>3, <1>4
  DEF Next, Step, Add, Take, Discard, AsyncPushFront, AsyncPushBack, AsyncInsert,
      AsyncDelete, AsyncPurge, AsyncPopFront, AsyncPopBack, AsyncPrioGet, AsyncGet

-----------------------------------------------------------------------------
(***************************************************************************)
(* No null is popped.  SizeStillHolds is the reason: between the size() a  *)
(* pop saw and the lock it waits for, only the same process could shrink   *)
(* the queue.                                                              *)
(***************************************************************************)
\* Every step keeps the queue non-empty for the pops that have seen its size
LEMMA SizeStep ==
  TypeOK /\ CallOK /\ SizeStillHolds /\ [Next]_vars => SizeStillHolds'
<1>. SUFFICES ASSUME TypeOK, CallOK, SizeStillHolds, [Next]_vars, SingleRemover,
                     NEW r \in Proc, pc'[r] = "wait_lock", op'[r] \in Removing
              PROVE  Len(queue') > 0
  BY DEF SizeStillHolds
<1>. USE DEF TypeOK
<1>a. pc[r] = "wait_lock" /\ op[r] \in Removing => Len(queue) > 0
  BY DEF SizeStillHolds
<1>1. CASE UNCHANGED vars
  BY <1>1, <1>a DEF vars
<1>2. ASSUME NEW p \in Proc, Start(p)
      PROVE  Len(queue') > 0
  <2>1. p # r
    BY <1>2 DEF Start, StartAdd, StartOther, Removing, Adding, Waiting
  <2>. QED BY <1>2, <1>a, <2>1 DEF Start, StartAdd, StartOther
<1>3. ASSUME NEW p \in Proc, WaitSize(p)
      PROVE  Len(queue') > 0
  BY <1>3 DEF WaitSize
<1>4. ASSUME NEW p \in Proc, Add(p)
      PROVE  Len(queue') > 0
  <2>1. p # r /\ pc[r] = pc'[r] /\ op[r] = op'[r]
    BY <1>4 DEF Add, AsyncPushFront, AsyncPushBack, AsyncInsert, RawPushBack, Lock, Keep
  <2>2. arg[p] \in Item
    BY <1>4 DEF CallOK, Add, AsyncPushFront, AsyncPushBack, AsyncInsert, RawPushBack, Lock,
                Adding
  <2>3. Len(queue') >= Len(queue)
    <3>1. CASE AsyncPushFront(p)
      BY <2>2, <3>1, PushFrontLemma DEF AsyncPushFront
    <3>2. CASE AsyncPushBack(p) \/ RawPushBack(p)
      BY <2>2, <3>2, PushBackLemma DEF AsyncPushBack, RawPushBack
    <3>3. CASE AsyncInsert(p)
      BY <2>2, <3>3, InsertLemma, IdxAssumption DEF AsyncInsert
    <3>. QED BY <1>4, <3>1, <3>2, <3>3 DEF Add
  <2>4. Len(queue) > 0
    BY <1>a, <2>1
  <2>5. Len(queue) \in Nat /\ Len(queue') \in Nat
    <3>1. queue' \in Seq(Item)
      BY TypeStep DEF TypeOK
    <3>. QED BY <3>1
  <2>. QED BY <2>3, <2>4, <2>5
<1>5. ASSUME NEW p \in Proc, Take(p) \/ Discard(p)
      PROVE  FALSE
  <2>1. p # r /\ op[r] = op'[r]
    BY <1>5 DEF Take, Discard, AsyncPopFront, AsyncPopBack, AsyncPrioGet, AsyncDelete,
                AsyncPurge, Lock, Keep, Return
  <2>2. op[p] \in Removing \cup Discarding
    BY <1>5 DEF Take, Discard, AsyncPopFront, AsyncPopBack, AsyncPrioGet, AsyncDelete,
                AsyncPurge, Lock, Removing, Discarding
  <2>3. "none" \notin Removing \cup Discarding
    BY DEF Removing, Discarding
  <2>4. op[p] \in Calls[p] /\ op[r] \in Calls[r]
    BY <2>1, <2>2, <2>3 DEF CallOK
  <2>. QED BY <2>1, <2>2, <2>4 DEF SingleRemover
<1>6. ASSUME NEW p \in Proc, AsyncGet(p) \/ Unlock(p)
      PROVE  Len(queue') > 0
  BY <1>6, <1>a DEF AsyncGet, Unlock, Lock
<1>. QED
  BY <1>1, <1>2, <1>3, <1>4, <1>5, <1>6 DEF Next, Step

\* A pop finds the queue non-empty, so it returns an item
LEMMA NoNullStep ==
  TypeOK /\ LockOwned /\ SizeStillHolds /\ NoNullPop /\ [Next]_vars => NoNullPop'
<1>. SUFFICES ASSUME TypeOK, LockOwned, SizeStillHolds, NoNullPop, [Next]_vars, SingleRemover,
                     NEW r \in Proc, pc'[r] = "swap", op'[r] \in Removing
              PROVE  item'[r] # NULL
  BY DEF NoNullPop
<1>. USE DEF TypeOK
<1>a. pc[r] = "swap" /\ op[r] \in Removing => item[r] # NULL
  BY DEF NoNullPop
<1>1. CASE UNCHANGED vars
  BY <1>1, <1>a DEF vars
<1>2. ASSUME NEW p \in Proc, Start(p) \/ WaitSize(p) \/ RawPushBack(p) \/ Unlock(p)
      PROVE  item'[r] # NULL
  <2>1. p # r
    BY <1>2 DEF Start, StartAdd, StartOther, WaitSize, RawPushBack, Unlock
  <2>. QED BY <1>2, <1>a, <2>1 DEF Start, StartAdd, StartOther, WaitSize, RawPushBack, Unlock
<1>3. ASSUME NEW p \in Proc, NEW o, Lock(p, o), UNCHANGED op, o \notin Removing
      PROVE  FALSE
  <2>1. pc[r] # "swap"
    BY <1>3 DEF Lock, LockOwned
  <2>2. r = p
    BY <1>3, <2>1 DEF Lock
  <2>. QED BY <1>3, <2>2 DEF Lock
<1>4. ASSUME NEW p \in Proc, Take(p)
      PROVE  item'[r] # NULL
  <2>1. /\ pc[p] = "wait_lock" /\ op[p] \in Removing /\ ~has_lock
        /\ pc' = [pc EXCEPT ![p] = "swap"]
    BY <1>4 DEF Take, AsyncPopFront, AsyncPopBack, AsyncPrioGet, Lock, Removing
  <2>2. r = p
    BY <2>1 DEF LockOwned
  <2>3. Len(queue) > 0
    BY <2>1 DEF SizeStillHolds
  <2>4. CASE AsyncPopFront(p)
    BY <2>2, <2>3, <2>4, PopFrontLemma, NullAssumption DEF AsyncPopFront, Return
  <2>5. CASE AsyncPopBack(p)
    BY <2>2, <2>3, <2>5, PopBackLemma, NullAssumption DEF AsyncPopBack, Return
  <2>6. CASE AsyncPrioGet(p)
    <3>1. PICK q \in Sorts(queue, Prio) : Return(p, FrontOf(q))
      BY <2>6 DEF AsyncPrioGet
    <3>2. q \in Seq(Item) /\ Len(q) > 0
      BY <2>3, SortLemma, PrioAssumption
    <3>3. FrontOf(q) \in Item
      BY <3>2, PopFrontLemma, NullAssumption
    <3>. QED BY <2>2, <3>1, <3>3, NullAssumption DEF Return
  <2>. QED BY <1>4, <2>4, <2>5, <2>6 DEF Take
<1>. QED
  BY <1>1, <1>2, <1>3, <1>4
  DEF Next, Step, Add, Discard, AsyncPushFront, AsyncPushBack, AsyncInsert, AsyncDelete,
      AsyncPurge, AsyncGet, Keep, Removing

-----------------------------------------------------------------------------
(***************************************************************************)
(* Every item is at one place                                              *)
(***************************************************************************)
\* An item that moves from the argument of a push into the queue leaves the
\* argument; insert may drop it.
LEMMA AddKeepsOnePlace ==
  ASSUME TypeOK, TypeOK', OnePlace, NEW p \in Proc, arg[p] \in Item, Distinct(queue'),
         Elements(queue') \subseteq Elements(queue) \cup {arg[p]},
         arg' = [arg EXCEPT ![p] = NULL], UNCHANGED <<fresh, delivered>>
  PROVE  OnePlace'
<1>1. NULL \notin fresh \cup Elements(queue') \cup delivered
  BY NullAssumption DEF TypeOK, Elements
<1>2. \A q \in Proc : q # p => arg'[q] = arg[q] /\ arg[q] # arg[p]
  BY NullAssumption DEF TypeOK, OnePlace
<1>3. arg'[p] = NULL
  BY DEF TypeOK
<1>4. \A q \in Proc : arg'[q] \notin fresh' \cup Elements(queue') \cup delivered'
  BY <1>1, <1>2, <1>3 DEF OnePlace
<1>5. \A q, r \in Proc : arg'[q] = arg'[r] /\ arg'[q] # NULL => q = r
  BY <1>2, <1>3 DEF OnePlace
<1>6. /\ fresh' \cap (Elements(queue') \cup delivered') = {}
      /\ Elements(queue') \cap delivered' = {}
  BY DEF OnePlace
<1>. QED BY <1>4, <1>5, <1>6 DEF OnePlace, Distinct

\* An item that leaves the queue for its receiver is not in it any more
LEMMA TakeKeepsOnePlace ==
  ASSUME TypeOK, OnePlace, NEW x, Distinct(queue'),
         Elements(queue') \subseteq Elements(queue), x \notin Elements(queue'),
         x # NULL => x \in Elements(queue),
         delivered' = delivered \cup ({x} \ {NULL}), UNCHANGED <<arg, fresh>>
  PROVE  OnePlace'
  BY DEF OnePlace, Distinct

\* Items that are discarded, or stay, are at no second place
LEMMA DropKeepsOnePlace ==
  ASSUME OnePlace, Distinct(queue'), Elements(queue') \subseteq Elements(queue),
         UNCHANGED <<arg, fresh, delivered>>
  PROVE  OnePlace'
  BY DEF OnePlace, Distinct

\* Every step leaves every item at one place
LEMMA OnePlaceStep == TypeOK /\ CallOK /\ OnePlace /\ [Next]_vars => OnePlace'
<1>. SUFFICES ASSUME TypeOK, CallOK, OnePlace, [Next]_vars
              PROVE  OnePlace'
  OBVIOUS
<1>a. queue \in Seq(Item) /\ Distinct(queue)
  BY DEF TypeOK, OnePlace, Distinct
<1>b. TypeOK'
  BY TypeStep
<1>1. CASE UNCHANGED vars
  BY <1>1 DEF vars, OnePlace
<1>2. ASSUME NEW p \in Proc, StartAdd(p)
      PROVE  OnePlace'
  <2>1. PICK i \in fresh : arg' = [arg EXCEPT ![p] = i] /\ fresh' = fresh \ {i}
    BY <1>2 DEF StartAdd
  <2>2. UNCHANGED <<queue, delivered>>
    BY <1>2 DEF StartAdd
  <2>3. \A q \in Proc : q # p => arg'[q] = arg[q] /\ arg[q] # i
    BY <2>1 DEF TypeOK, OnePlace
  <2>4. arg'[p] = i /\ i \notin Elements(queue) \cup delivered
    BY <2>1 DEF TypeOK, OnePlace
  <2>. QED BY <2>1, <2>2, <2>3, <2>4 DEF OnePlace
<1>3. ASSUME NEW p \in Proc, StartOther(p) \/ WaitSize(p) \/ AsyncGet(p) \/ Unlock(p)
      PROVE  OnePlace'
  <2>1. UNCHANGED <<queue, arg, fresh, delivered>>
    BY <1>3 DEF StartOther, WaitSize, AsyncGet, Unlock
  <2>. QED BY <2>1 DEF OnePlace
<1>4. ASSUME NEW p \in Proc, Add(p)
      PROVE  OnePlace'
  <2>1. arg' = [arg EXCEPT ![p] = NULL] /\ UNCHANGED <<fresh, delivered>>
    BY <1>4 DEF Add, AsyncPushFront, AsyncPushBack, AsyncInsert, RawPushBack, Added, Keep
  <2>2. arg[p] \in Item
    BY <1>4 DEF CallOK, Add, AsyncPushFront, AsyncPushBack, AsyncInsert, RawPushBack, Lock,
                Adding
  <2>3. arg[p] \notin Elements(queue)
    BY DEF OnePlace
  <2>4. Distinct(queue') /\ Elements(queue') \subseteq Elements(queue) \cup {arg[p]}
    <3>1. CASE AsyncPushFront(p)
      BY <1>a, <2>2, <2>3, <3>1, PushFrontLemma DEF AsyncPushFront
    <3>2. CASE AsyncPushBack(p) \/ RawPushBack(p)
      BY <1>a, <2>2, <2>3, <3>2, PushBackLemma DEF AsyncPushBack, RawPushBack
    <3>3. CASE AsyncInsert(p)
      BY <1>a, <2>2, <2>3, <3>3, InsertLemma, IdxAssumption DEF AsyncInsert
    <3>. QED BY <1>4, <3>1, <3>2, <3>3 DEF Add
  <2>. QED BY <1>b, <2>1, <2>2, <2>4, AddKeepsOnePlace
<1>5. ASSUME NEW p \in Proc, AsyncDelete(p)
      PROVE  OnePlace'
  <2>1. Distinct(queue') /\ Elements(queue') \subseteq Elements(queue)
    BY <1>a, <1>5, DeleteLemma, IdxAssumption DEF AsyncDelete
  <2>. QED BY <1>5, <2>1, DropKeepsOnePlace DEF AsyncDelete, Keep
<1>6. ASSUME NEW p \in Proc, AsyncPurge(p)
      PROVE  OnePlace'
  <2>1. Distinct(queue') /\ Elements(queue') \subseteq Elements(queue)
    BY <1>6 DEF AsyncPurge, Distinct, Elements
  <2>. QED BY <1>6, <2>1, DropKeepsOnePlace DEF AsyncPurge, Keep
<1>7. ASSUME NEW p \in Proc, AsyncPopFront(p)
      PROVE  OnePlace'
  <2>. DEFINE x == FrontOf(queue)
  <2>1. /\ Distinct(queue') /\ Elements(queue') \subseteq Elements(queue)
        /\ x \notin Elements(queue') /\ (x # NULL => x \in Elements(queue))
    BY <1>a, <1>7, PopFrontLemma, NullAssumption DEF AsyncPopFront
  <2>2. delivered' = delivered \cup ({x} \ {NULL}) /\ UNCHANGED <<arg, fresh>>
    BY <1>7 DEF AsyncPopFront, Return
  <2>. HIDE DEF x
  <2>. QED BY <2>1, <2>2, TakeKeepsOnePlace
<1>8. ASSUME NEW p \in Proc, AsyncPopBack(p)
      PROVE  OnePlace'
  <2>. DEFINE x == BackOf(queue)
  <2>1. /\ Distinct(queue') /\ Elements(queue') \subseteq Elements(queue)
        /\ x \notin Elements(queue') /\ (x # NULL => x \in Elements(queue))
    BY <1>a, <1>8, PopBackLemma, NullAssumption DEF AsyncPopBack
  <2>2. delivered' = delivered \cup ({x} \ {NULL}) /\ UNCHANGED <<arg, fresh>>
    BY <1>8 DEF AsyncPopBack, Return
  <2>. HIDE DEF x
  <2>. QED BY <2>1, <2>2, TakeKeepsOnePlace
<1>9. ASSUME NEW p \in Proc, AsyncPrioGet(p)
      PROVE  OnePlace'
  <2>0. PICK q \in Sorts(queue, Prio) : queue' = WithoutFront(q) /\ Return(p, FrontOf(q))
    BY <1>9 DEF AsyncPrioGet
  <2>. DEFINE x == FrontOf(q)
  <2>a. q \in Seq(Item) /\ Distinct(q) /\ Elements(q) \subseteq Elements(queue)
    BY <1>a, SortLemma, PrioAssumption
  <2>1. /\ Distinct(queue') /\ Elements(queue') \subseteq Elements(queue)
        /\ x \notin Elements(queue') /\ (x # NULL => x \in Elements(queue))
    BY <2>0, <2>a, PopFrontLemma, NullAssumption
  <2>2. delivered' = delivered \cup ({x} \ {NULL}) /\ UNCHANGED <<arg, fresh>>
    BY <2>0 DEF Return
  <2>. HIDE DEF x
  <2>. QED BY <2>1, <2>2, TakeKeepsOnePlace
<1>. QED
  BY <1>1, <1>2, <1>3, <1>4, <1>5, <1>6, <1>7, <1>8, <1>9
  DEF Next, Step, Start, Take, Discard

-----------------------------------------------------------------------------
(***************************************************************************)
(* The safety half of the refinement of Mailbox.  It needs neither the     *)
(* lock nor a single remover: a pop that finds nothing is a stutter.       *)
(***************************************************************************)
\* Nobody pops regardless of prio and nobody discards
MailboxUse ==
  \A p \in Proc : Calls[p] \cap ({"pop_front", "pop_back"} \cup Discarding) = {}

\* A step of a queue used as a mailbox puts one item, takes a most urgent one, or
\* leaves the mailbox as it is
LEMMA MailboxStep ==
  ASSUME MailboxUse, TypeOK, CallOK, OnePlace, [Next]_vars
  PROVE  [Mail!Next]_<<Elements(queue), delivered>>
<1>a. queue \in Seq(Item) /\ Distinct(queue)
  BY DEF TypeOK, OnePlace, Distinct
<1>1. CASE UNCHANGED vars
  BY <1>1 DEF vars, Elements
<1>2. ASSUME NEW p \in Proc, Start(p) \/ WaitSize(p) \/ AsyncGet(p) \/ Unlock(p)
      PROVE  UNCHANGED <<Elements(queue), delivered>>
  BY <1>2 DEF Start, StartAdd, StartOther, WaitSize, AsyncGet, Unlock, Elements
<1>3. ASSUME NEW p \in Proc, Add(p)
      PROVE  [Mail!Next]_<<Elements(queue), delivered>>
  <2>1. arg[p] \in Item /\ arg[p] \notin Elements(queue) \cup delivered
    BY <1>3 DEF OnePlace, CallOK, Add, AsyncPushFront, AsyncPushBack, AsyncInsert,
                RawPushBack, Lock, Adding
  <2>2. UNCHANGED delivered
    BY <1>3 DEF Add, AsyncPushFront, AsyncPushBack, AsyncInsert, RawPushBack, Keep
  <2>3. \/ Elements(queue)' = Elements(queue) \cup {arg[p]}
        \/ Elements(queue)' = Elements(queue)
    <3>0. Elements(queue)' = Elements(queue')
      BY DEF Elements
    <3>1. CASE AsyncPushFront(p)
      BY <1>a, <2>1, <3>0, <3>1, PushFrontLemma DEF AsyncPushFront
    <3>2. CASE AsyncPushBack(p) \/ RawPushBack(p)
      <4>1. queue' = PushBack(queue, arg[p])
        BY <3>2 DEF AsyncPushBack, RawPushBack
      <4>. QED BY <1>a, <2>1, <3>0, <4>1, PushBackLemma
    <3>3. CASE AsyncInsert(p)
      <4>1. PICK k \in Idx : queue' = Insert(queue, k, arg[p])
        BY <3>3 DEF AsyncInsert
      <4>2. /\ Elements(queue) \subseteq Elements(queue')
            /\ Elements(queue') \subseteq Elements(queue) \cup {arg[p]}
        BY <1>a, <2>1, <4>1, InsertLemma, IdxAssumption
      <4>. QED BY <3>0, <4>2
    <3>. QED BY <1>3, <3>1, <3>2, <3>3 DEF Add
  <2>. QED BY <2>1, <2>2, <2>3 DEF Mail!Next, Mail!Put
<1>4. ASSUME NEW p \in Proc, AsyncPrioGet(p)
      PROVE  [Mail!Next]_<<Elements(queue), delivered>>
  <2>0. PICK q \in Sorts(queue, Prio) : queue' = WithoutFront(q) /\ Return(p, FrontOf(q))
    BY <1>4 DEF AsyncPrioGet
  <2>1. /\ q \in Seq(Item) /\ Distinct(q) /\ Elements(q) = Elements(queue)
        /\ Len(q) > 0 => \A x \in Elements(queue) : Prio[q[1]] <= Prio[x]
    BY <1>a, SortLemma, PrioAssumption
  <2>2. CASE q = <<>>
    <3>1. queue' = q /\ delivered' = delivered
      BY <2>0, <2>2 DEF WithoutFront, FrontOf, Return
    <3>. QED BY <2>1, <3>1
  <2>3. CASE q # <<>>
    <3>1. Len(q) > 0 /\ FrontOf(q) = q[1] /\ q[1] \in Item /\ q[1] \in Elements(queue)
      BY <2>1, <2>3, PopFrontLemma, NullAssumption DEF FrontOf
    <3>2. Elements(queue)' = Elements(queue) \ {q[1]}
      <4>1. Elements(queue)' = Elements(queue')
        BY DEF Elements
      <4>2. /\ Elements(queue') \subseteq Elements(q) /\ q[1] \notin Elements(queue')
            /\ Elements(q) \subseteq Elements(queue') \cup {q[1]}
        BY <2>0, <2>1, <3>1, PopFrontLemma, NullAssumption
      <4>. QED BY <2>1, <4>1, <4>2
    <3>3. delivered' = delivered \cup {q[1]}
      BY <2>0, <3>1, NullAssumption DEF Return
    <3>. QED BY <2>1, <3>1, <3>2, <3>3 DEF Mail!Next, Mail!Take, Mail!MostUrgent
  <2>. QED BY <2>2, <2>3
<1>5. ASSUME NEW p \in Proc, AsyncPopFront(p) \/ AsyncPopBack(p) \/ Discard(p)
      PROVE  FALSE
  <2>1. op[p] \in {"pop_front", "pop_back"} \cup Discarding
    BY <1>5 DEF AsyncPopFront, AsyncPopBack, Discard, AsyncDelete, AsyncPurge, Lock, Discarding
  <2>2. op[p] \in Calls[p]
    BY <2>1 DEF CallOK, Discarding
  <2>. QED BY <2>1, <2>2 DEF MailboxUse
<1>. QED
  BY <1>1, <1>2, <1>3, <1>4, <1>5 DEF Next, Step, Take

-----------------------------------------------------------------------------
(***************************************************************************)
(* The theorems                                                            *)
(***************************************************************************)
\* IInv is an invariant: true of the empty queue and kept by every step
THEOREM QueueInvariant == Spec => []IInv
<1>1. Init => IInv
  <2>. SUFFICES ASSUME Init PROVE IInv
    OBVIOUS
  <2>1. TypeOK
    <3>1. queue \in Seq(Item)
      BY DEF Init
    <3>2. pc \in [Proc -> {"idle", "wait_size", "wait_lock", "swap"}]
      BY DEF Init
    <3>3. op \in [Proc -> Op \cup {"none"}]
      BY DEF Init
    <3>4. arg \in [Proc -> Item \cup {NULL}] /\ item \in [Proc -> Item \cup {NULL}]
      BY DEF Init
    <3>5. has_lock \in BOOLEAN /\ fresh \subseteq Item /\ delivered \subseteq Item
      BY DEF Init
    <3>. QED BY <3>1, <3>2, <3>3, <3>4, <3>5 DEF TypeOK
  <2>2. CallOK
    BY DEF Init, CallOK
  <2>3. LockOwned
    BY DEF Init, LockOwned
  <2>4. SizeStillHolds /\ NoNullPop
    BY DEF Init, SizeStillHolds, NoNullPop
  <2>5. OnePlace
    BY NullAssumption DEF Init, OnePlace, Elements
  <2>. QED BY <2>1, <2>2, <2>3, <2>4, <2>5 DEF IInv
<1>2. IInv /\ [Next]_vars => IInv'
  BY TypeStep, LockStep, SizeStep, NoNullStep, OnePlaceStep DEF IInv
<1>. QED BY <1>1, <1>2, PTL DEF Spec

\* The queue holds items only, whatever is pushed, inserted, deleted and sorted
THEOREM QueueTypeCorrect == Spec => []TypeOK
<1>1. IInv => TypeOK
  BY DEF IInv
<1>. QED BY <1>1, QueueInvariant, PTL

\* has_lock excludes: two processes are never both between lock() and unlock()
THEOREM QueueLockOwned == Spec => []LockOwned
<1>1. IInv => LockOwned
  BY DEF IInv
<1>. QED BY <1>1, QueueInvariant, PTL

\* With one removing process, an async pop never returns null, although the
\* size it waited for is checked before the lock is taken
THEOREM QueueNoNullPop == Spec => []NoNullPop
<1>1. IInv => NoNullPop
  BY DEF IInv
<1>. QED BY <1>1, QueueInvariant, PTL

\* No interleaving of the tasks duplicates an item or hands it out twice
THEOREM QueueOnePlace == Spec => []OnePlace
<1>1. IInv => OnePlace
  BY DEF IInv
<1>. QED BY <1>1, QueueInvariant, PTL

\* A queue used by prio implements a mailbox whose put and take are single steps:
\* no lost, repeated or overtaken item, for any number of putting and taking
\* processes
THEOREM QueueIsMailbox ==
  MailboxUse => (Spec => Mail!Init /\ [][Mail!Next]_<<Elements(queue), delivered>>)
<1>. SUFFICES ASSUME MailboxUse
              PROVE  Spec => Mail!Init /\ [][Mail!Next]_<<Elements(queue), delivered>>
  OBVIOUS
<1>1. Init => Mail!Init
  BY DEF Init, Mail!Init, Elements
<1>2. IInv /\ [Next]_vars => [Mail!Next]_<<Elements(queue), delivered>>
  BY MailboxStep DEF IInv
<1>. QED BY <1>1, <1>2, QueueInvariant, PTL DEF Spec
=============================================================================
