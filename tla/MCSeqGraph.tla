----------------------------- MODULE MCSeqGraph -----------------------------
(***************************************************************************)
(* Instances of SeqGraph for TLC: the edge tables of virtual sequences.    *)
(***************************************************************************)
EXTENDS SeqGraph

\* Every table of up to two edges of three nodes
Pairs == (0..2) \X (0..2)
Short == UNION {[1..n -> Pairs] : n \in 0..2}

MCTables == Short \cup {
  \* apb_master_reset_vseq: two ways from node 0 to node 3
  <<<<0, 2>>, <<0, 1>>, <<2, 3>>, <<1, 3>>>>,
  \* apb_master_polling_vseq
  <<<<0, 1>>, <<1, 3>>>>,
  \* apb_master_interrupt_vseq: a chain; here with a row that has no node
  <<<<0, 1>>, <<1, 9>>, <<1, 2>>, <<2, 3>>>>,
  \* A cycle, and an edge listed twice
  <<<<0, 1>>, <<1, 2>>, <<2, 1>>, <<2, 3>>>>,
  <<<<0, 1>>, <<1, 2>>, <<0, 1>>, <<2, 3>>>>}
=============================================================================
