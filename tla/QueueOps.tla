------------------------------ MODULE QueueOps ------------------------------
(***************************************************************************)
(* The functions (zero-time operations) of uvm_queue, the base class, and  *)
(* of smtdv_queue, on a queue represented as a sequence.  Indices are the  *)
(* 0-based indices of the code.  An index out of range never fails: get    *)
(* and pop return null, insert and delete only print a warning.            *)
(***************************************************************************)
EXTENDS Integers, Sequences, FiniteSets, Functions

CONSTANT NULL        \* the null handle

Elements(q) == {q[i] : i \in 1..Len(q)}

InRange(q, idx) == idx >= 0 /\ idx < Len(q)

\* uvm_queue::get
Get(q, idx) == IF InRange(q, idx) THEN q[idx + 1] ELSE NULL

\* uvm_queue::insert: also refuses idx = size(), so it never appends
Insert(q, idx, x) ==
  IF InRange(q, idx)
    THEN SubSeq(q, 1, idx) \o <<x>> \o SubSeq(q, idx + 1, Len(q))
    ELSE q

\* uvm_queue::delete: -1 empties the queue
Delete(q, idx) ==
  IF idx = -1
    THEN <<>>
    ELSE IF InRange(q, idx)
           THEN SubSeq(q, 1, idx) \o SubSeq(q, idx + 2, Len(q))
           ELSE q

\* uvm_queue::push_front, push_back
PushFront(q, x) == <<x>> \o q
PushBack(q, x) == Append(q, x)

\* uvm_queue::pop_front, pop_back: the value returned and the queue left
FrontOf(q) == IF q = <<>> THEN NULL ELSE q[1]
BackOf(q) == IF q = <<>> THEN NULL ELSE q[Len(q)]
WithoutFront(q) == IF q = <<>> THEN q ELSE SubSeq(q, 2, Len(q))
WithoutBack(q) == IF q = <<>> THEN q ELSE SubSeq(q, 1, Len(q) - 1)

(***************************************************************************)
(* queue.sort(it) with (it.prio): ascending.  The language does not order  *)
(* elements of equal prio, so every ascending permutation is an outcome.   *)
(***************************************************************************)
Sorts(q, prio) ==
  LET Ascending == {f \in Bijection(1..Len(q), 1..Len(q)) :
                      \A i, j \in 1..Len(q) : i < j => prio[q[f[i]]] <= prio[q[f[j]]]}
  IN  {[i \in 1..Len(q) |-> q[f[i]]] : f \in Ascending}
=============================================================================
