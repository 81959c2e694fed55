---------------------------- MODULE MCScoreboard ----------------------------
(***************************************************************************)
(* Instances of Scoreboard for TLC: the tests (transfers and their fates). *)
(***************************************************************************)
EXTENDS Scoreboard

\* A table of all transfers, restricted to those of the instance
Of(table) == [t \in Trx |-> table[t]]

MCKind == Of([w1 |-> "WR", w2 |-> "WR", w3 |-> "WR", w4 |-> "WR", r1 |-> "RD"])

\* A burst over both addresses, and single transfers
MCBeats == Of([w1 |-> <<0, 1>>, w2 |-> <<0>>, w3 |-> <<1>>, r1 |-> <<0>>])
MCData == Of([w1 |-> <<"a", "b">>, w2 |-> <<"c">>, w3 |-> <<"d">>, r1 |-> <<"e">>])

\* Writes of one address
MCBeatsOne == Of([w1 |-> <<0>>, w2 |-> <<0>>, w3 |-> <<0>>, w4 |-> <<0>>])
MCDataOne == Of([w1 |-> <<"a">>, w2 |-> <<"b">>, w3 |-> <<"c">>, w4 |-> <<"d">>])

\* What the design does
FateAll(t, f) == [x \in Trx |-> IF x = t THEN f ELSE "ok"]
MCOk == [x \in Trx |-> "ok"]
MCLostW3 == [FateAll("w1", "split") EXCEPT !["w3"] = "lost"]
=============================================================================
