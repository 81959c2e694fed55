--------------------------- MODULE MCMemBackdoor ---------------------------
(***************************************************************************)
(* Instances of MemBackdoor for TLC: writes of two bytes to two words.     *)
(***************************************************************************)
EXTENDS MemBackdoor, TLC

CONSTANTS w1, w2, w3, w4

MCTrx == {w1, w2, w3, w4}
MCAddr == w1 :> 0 @@ w2 :> 2 @@ w3 :> 2 @@ w4 :> 0
MCData == w1 :> <<1, 2>> @@ w2 :> <<3, 0>> @@ w3 :> <<2, 3>> @@ w4 :> <<2, 2>>
MCFate == w1 :> "lost" @@ w2 :> "ok" @@ w3 :> "ok" @@ w4 :> "ok"
=============================================================================
