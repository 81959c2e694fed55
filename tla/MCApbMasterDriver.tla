------------------------- MODULE MCApbMasterDriver -------------------------
(***************************************************************************)
(* Instances of ApbMasterDriver for TLC.                                   *)
(***************************************************************************)
EXTENDS ApbMasterDriver, TLC

CONSTANTS i1, i2, i3

MCPrio == i1 :> 0 @@ i2 :> -1 @@ i3 :> 0
=============================================================================
