------------------------------ MODULE Mailbox ------------------------------
(***************************************************************************)
(* What the threads of a driver expect of the queue between them: a box of *)
(* items in which put and take are single steps.  take waits for an item   *)
(* and returns one of the smallest prio; an item comes out at most once    *)
(* and, if it was put, some day.                                           *)
(***************************************************************************)
EXTENDS Integers

CONSTANTS Item, Prio

VARIABLES box, taken

Init == box = {} /\ taken = {}

Put(i) ==
  /\ i \notin box \cup taken
  /\ box' = box \cup {i}
  /\ UNCHANGED taken

MostUrgent(i) == \A j \in box : Prio[i] <= Prio[j]

Take(i) ==
  /\ i \in box
  /\ MostUrgent(i)
  /\ box' = box \ {i}
  /\ taken' = taken \cup {i}

Next == \E i \in Item : Put(i) \/ Take(i)

Spec == Init /\ [][Next]_<<box, taken>> /\ WF_<<box, taken>>(\E i \in Item : Take(i))
=============================================================================
