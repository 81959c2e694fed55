---------------------------- MODULE MCSmtdvQueue ----------------------------
(***************************************************************************)
(* Instances of SmtdvQueue for TLC.                                        *)
(***************************************************************************)
EXTENDS SmtdvQueue, TLC

CONSTANTS p1, p2, c1, i1, i2, i3, i4

\* i2 and i3 have the same prio: sorting may swap them
MCPrio3 == i1 :> 1 @@ i2 :> 0 @@ i3 :> 0
MCPrio4 == MCPrio3 @@ i4 :> -1

\* Every task of the class: two processes add, one takes out and discards
MCCallsAll ==
  p1 :> {"push_front", "insert"} @@ p2 :> {"push_back", "raw_push_back"}
    @@ c1 :> Waiting \cup Discarding

\* The box of an AHB driver: drive_bus pushes at the back, redrive_bus at the
\* front, one thread takes by prio
MCCallsMailbox == p1 :> {"push_back"} @@ p2 :> {"push_front"} @@ c1 :> {"prio_get"}

MCIdx == {-1, 0, 1}
=============================================================================
