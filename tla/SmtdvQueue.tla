----------------------------- MODULE SmtdvQueue -----------------------------
(***************************************************************************)
(* smtdv_queue: the shared queue between the concurrent threads of a       *)
(* driver, a label or a scoreboard.  Every async_* task takes the has_lock *)
(* flag, changes the queue, suspends for SMTDV_SWAP(delay) and drops the   *)
(* flag.  The tasks that take an item out first wait for size() > 0, and   *)
(* only then for the flag: the size they saw may be stale when they get it.*)
(*                                                                         *)
(* A process runs without interruption up to its next wait or delay, so    *)
(* "wait(!is_lock()); lock(); <change>" is one step.                       *)
(***************************************************************************)
EXTENDS QueueOps

CONSTANTS
  Proc,      \* the simulation processes that call the queue
  Item,      \* the item handles of a simulation, each created once
  Prio,      \* Prio[i]: the prio field of item i
  Calls,     \* Calls[p]: the tasks process p calls
  Idx        \* the indices passed to get, insert and delete

Removing == {"pop_front", "pop_back", "prio_get"}
Waiting == Removing \cup {"get"}                 \* tasks that wait(size() > 0)
Adding == {"push_front", "push_back", "insert", "raw_push_back"}
Discarding == {"delete", "purge"}
Op == Waiting \cup Adding \cup Discarding

ASSUME PrioAssumption == Prio \in [Item -> Int]
ASSUME CallsAssumption == Calls \in [Proc -> SUBSET Op]
ASSUME IdxAssumption == Idx \subseteq Int
ASSUME NullAssumption == NULL \notin Item

VARIABLES
  queue,      \* uvm_queue::queue
  has_lock,   \* smtdv_queue::has_lock
  pc,         \* where each process is in the task it called
  op,         \* the task it called
  arg,        \* the item it passed (NULL for none)
  item,       \* the ref argument: what the last get or pop returned to it
  fresh,      \* items not created yet
  delivered   \* history: items handed out by a pop

vars == <<queue, has_lock, pc, op, arg, item, fresh, delivered>>

Init ==
  /\ queue = <<>>
  /\ has_lock = FALSE
  /\ pc = [p \in Proc |-> "idle"]
  /\ op = [p \in Proc |-> "none"]
  /\ arg = [p \in Proc |-> NULL]
  /\ item = [p \in Proc |-> NULL]
  /\ fresh = Item
  /\ delivered = {}

-----------------------------------------------------------------------------
\* A process calls one of its tasks and reaches the first wait of the task.
StartAdd(p) ==
  /\ pc[p] = "idle"
  /\ \E o \in Calls[p] \cap Adding, i \in fresh :
       /\ op' = [op EXCEPT ![p] = o]
       /\ arg' = [arg EXCEPT ![p] = i]
       /\ fresh' = fresh \ {i}
  /\ pc' = [pc EXCEPT ![p] = "wait_lock"]
  /\ UNCHANGED <<queue, has_lock, item, delivered>>

StartOther(p) ==
  /\ pc[p] = "idle"
  /\ \E o \in Calls[p] \ Adding :
       /\ op' = [op EXCEPT ![p] = o]
       /\ pc' = [pc EXCEPT ![p] = IF o \in Waiting THEN "wait_size" ELSE "wait_lock"]
  /\ UNCHANGED <<queue, has_lock, arg, item, fresh, delivered>>

\* Mutant: the wait for size() > 0 is missing
WaitSizeUnguarded(p) ==
  /\ pc[p] = "wait_size"
  /\ pc' = [pc EXCEPT ![p] = "wait_lock"]
  /\ UNCHANGED <<queue, has_lock, op, arg, item, fresh, delivered>>

\* wait(size() > 0)
WaitSize(p) ==
  /\ pc[p] = "wait_size"
  /\ Len(queue) > 0
  /\ pc' = [pc EXCEPT ![p] = "wait_lock"]
  /\ UNCHANGED <<queue, has_lock, op, arg, item, fresh, delivered>>

\* Mutant: the wait for the lock is missing
LockUnguarded(p, o) ==
  /\ pc[p] = "wait_lock"
  /\ op[p] = o
  /\ has_lock' = TRUE
  /\ pc' = [pc EXCEPT ![p] = "swap"]

\* wait(!is_lock()); lock(): the process then suspends at SMTDV_SWAP(delay)
Lock(p, o) ==
  /\ pc[p] = "wait_lock"
  /\ op[p] = o
  /\ ~has_lock
  /\ has_lock' = TRUE
  /\ pc' = [pc EXCEPT ![p] = "swap"]

\* What the tasks that add or discard leave alone
Keep == UNCHANGED <<op, item, fresh, delivered>>

\* The item added is in the queue now
Added(p) == arg' = [arg EXCEPT ![p] = NULL]

AsyncPushFront(p) ==
  /\ Lock(p, "push_front")
  /\ queue' = PushFront(queue, arg[p])
  /\ Added(p)
  /\ Keep

\* Mutant: the item of the last get is pushed instead of the argument
AsyncPushBackStale(p) ==
  /\ Lock(p, "push_back")
  /\ queue' = PushBack(queue, item[p])
  /\ Added(p)
  /\ Keep

AsyncPushBack(p) ==
  /\ Lock(p, "push_back")
  /\ queue' = PushBack(queue, arg[p])
  /\ Added(p)
  /\ Keep

AsyncInsert(p) ==
  /\ Lock(p, "insert")
  /\ \E k \in Idx : queue' = Insert(queue, k, arg[p])
  /\ Added(p)
  /\ Keep

AsyncDelete(p) ==
  /\ Lock(p, "delete")
  /\ \E k \in Idx : queue' = Delete(queue, k)
  /\ UNCHANGED arg
  /\ Keep

AsyncPurge(p) ==
  /\ Lock(p, "purge")
  /\ queue' = <<>>
  /\ UNCHANGED arg
  /\ Keep

\* p's ref argument receives x, taken out of the queue (null: nothing was taken)
Return(p, x) ==
  /\ item' = [item EXCEPT ![p] = x]
  /\ delivered' = delivered \cup ({x} \ {NULL})
  /\ UNCHANGED <<op, arg, fresh>>

\* Mutant: the item is read but stays in the queue
AsyncPopFrontKeeps(p) ==
  /\ Lock(p, "pop_front")
  /\ UNCHANGED queue
  /\ Return(p, FrontOf(queue))

AsyncPopFront(p) ==
  /\ Lock(p, "pop_front")
  /\ queue' = WithoutFront(queue)
  /\ Return(p, FrontOf(queue))

AsyncPopBack(p) ==
  /\ Lock(p, "pop_back")
  /\ queue' = WithoutBack(queue)
  /\ Return(p, BackOf(queue))

\* Mutant: the queue is not sorted
AsyncPrioGetUnsorted(p) ==
  /\ Lock(p, "prio_get")
  /\ queue' = WithoutFront(queue)
  /\ Return(p, FrontOf(queue))

AsyncPrioGet(p) ==
  /\ Lock(p, "prio_get")
  /\ \E q \in Sorts(queue, Prio) :
       /\ queue' = WithoutFront(q)
       /\ Return(p, FrontOf(q))

AsyncGet(p) ==
  /\ Lock(p, "get")
  /\ \E k \in Idx : item' = [item EXCEPT ![p] = Get(queue, k)]
  /\ UNCHANGED <<queue, op, arg, fresh, delivered>>

\* uvm_queue::push_back called directly, as the scoreboard fills its pools:
\* the flag is neither waited for nor taken
RawPushBack(p) ==
  /\ pc[p] = "wait_lock"
  /\ op[p] = "raw_push_back"
  /\ queue' = PushBack(queue, arg[p])
  /\ pc' = [pc EXCEPT ![p] = "idle"]
  /\ Added(p)
  /\ UNCHANGED <<has_lock, op, item, fresh, delivered>>

\* The end of SMTDV_SWAP(delay); unlock()
Unlock(p) ==
  /\ pc[p] = "swap"
  /\ has_lock' = FALSE
  /\ pc' = [pc EXCEPT ![p] = "idle"]
  /\ UNCHANGED <<queue, op, arg, item, fresh, delivered>>

Start(p) == StartAdd(p) \/ StartOther(p)

Add(p) == AsyncPushFront(p) \/ AsyncPushBack(p) \/ AsyncInsert(p) \/ RawPushBack(p)

Take(p) == AsyncPopFront(p) \/ AsyncPopBack(p) \/ AsyncPrioGet(p)

Discard(p) == AsyncDelete(p) \/ AsyncPurge(p)

Step(p) == Start(p) \/ WaitSize(p) \/ Add(p) \/ Take(p) \/ AsyncGet(p)
             \/ Discard(p) \/ Unlock(p)

Next == \E p \in Proc : Step(p)

(***************************************************************************)
(* A runnable process runs.  Nothing stronger is assumed: a process waiting*)
(* for the flag may lose every race for it.  A process that only waits for *)
(* items (no adds) calls its task again and again, as the driver and       *)
(* monitor threads do in their forever loops.                              *)
(***************************************************************************)
Fairness ==
  /\ \A p \in Proc : WF_vars(WaitSize(p) \/ Add(p) \/ Take(p) \/ AsyncGet(p)
                               \/ Discard(p) \/ Unlock(p))
  /\ \A p \in Proc : Calls[p] \subseteq Waiting => WF_vars(StartOther(p))

Spec == Init /\ [][Next]_vars /\ Fairness

-----------------------------------------------------------------------------
\* Every variable has its type: the queue holds items, never null
TypeOK ==
  /\ queue \in Seq(Item)
  /\ has_lock \in BOOLEAN
  /\ pc \in [Proc -> {"idle", "wait_size", "wait_lock", "swap"}]
  /\ op \in [Proc -> Op \cup {"none"}]
  /\ arg \in [Proc -> Item \cup {NULL}]
  /\ item \in [Proc -> Item \cup {NULL}]
  /\ fresh \subseteq Item
  /\ delivered \subseteq Item

\* The flag is a mutual exclusion lock: it is up exactly while one process is
\* between lock() and unlock(), so the assertions in lock() and unlock() hold.
LockOwned ==
  /\ has_lock <=> \E p \in Proc : pc[p] = "swap"
  /\ \A p, q \in Proc : pc[p] = "swap" /\ pc[q] = "swap" => p = q

\* At most one process calls the tasks that take items out or discard them
SingleRemover ==
  \A p, q \in Proc :
    /\ Calls[p] \cap (Removing \cup Discarding) # {}
    /\ Calls[q] \cap (Removing \cup Discarding) # {}
    => p = q

\* The size() > 0 a pop waited for is still true while it waits for the flag, if
\* no other process takes items out.
SizeStillHolds ==
  SingleRemover =>
    \A p \in Proc : pc[p] = "wait_lock" /\ op[p] \in Removing => Len(queue) > 0

\* What a process called is one of its tasks, and it passes an item to add
CallOK ==
  \A p \in Proc :
    /\ op[p] \in Calls[p] \cup {"none"}
    /\ pc[p] = "wait_size" => op[p] \in Waiting
    /\ pc[p] = "wait_lock" /\ op[p] \in Adding => arg[p] \in Item

\* So a pop never returns null to its caller, however long it waited for the flag
\* between the size() it saw and its pop_front or pop_back.
NoNullPop ==
  SingleRemover =>
    \A p \in Proc : pc[p] = "swap" /\ op[p] \in Removing => item[p] # NULL

\* An item is at one place: not created, the argument of one pending push, at
\* one index of the queue, or handed out once.
OnePlace ==
  /\ \A i, j \in 1..Len(queue) : queue[i] = queue[j] => i = j
  /\ \A p, q \in Proc : arg[p] = arg[q] /\ arg[p] # NULL => p = q
  /\ \A p \in Proc : arg[p] \notin fresh \cup Elements(queue) \cup delivered
  /\ fresh \cap (Elements(queue) \cup delivered) = {}
  /\ Elements(queue) \cap delivered = {}

\* The inductive invariant behind these properties
IInv == TypeOK /\ CallOK /\ LockOwned /\ SizeStillHolds /\ NoNullPop /\ OnePlace

-----------------------------------------------------------------------------
(***************************************************************************)
(* Used as a mailbox (items added with the async tasks at either end, taken*)
(* with async_prio_get by one process) the queue implements Mailbox: no    *)
(* item is lost, duplicated or overtaken by one of lower urgency, no null  *)
(* comes out, and every item put is eventually taken.                      *)
(***************************************************************************)
Mail == INSTANCE Mailbox WITH box <- Elements(queue), taken <- delivered

MailboxSpec == Mail!Spec
=============================================================================
