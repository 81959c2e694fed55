---------------------------- MODULE MCRetrySeq -----------------------------
(***************************************************************************)
(* An instance of RetrySeq for TLC: three writes and three reads of three  *)
(* addresses, one of them outside of the watch table.                      *)
(***************************************************************************)
EXTENDS RetrySeq

CONSTANTS w1, w2, w3, r1, r2, r3

MCWrites == <<w1, w2, w3>>
MCReads == <<r1, r2, r3>>
MCAddr == w1 :> 1 @@ r1 :> 1 @@ w2 :> 2 @@ r2 :> 2 @@ w3 :> 3 @@ r3 :> 3
MCMaxFail == 1 :> 2 @@ 2 :> 3 @@ 3 :> 1
=============================================================================
