------------------------------ MODULE SeqGraph ------------------------------
(***************************************************************************)
(* The graph by which a virtual sequence orders its sequences.  The tables *)
(* of the virtual sequence are turned into nodes and edges by the builder; *)
(* then all sequences are started together, and each of them waits in      *)
(* pre_body for the nodes its edges come from, locks its node, runs, and   *)
(* unlocks it in post_body.  A reset kills every sequence of the sequencer.*)
(***************************************************************************)
EXTENDS QueueOps

CONSTANTS
  Node,       \* the nodes, one for each sequence
  Id,         \* the ids that occur in edge tables
  Tables,     \* the edge tables, sequences of <<sourceid, sinkid>>
  MaxResets   \* bound on the resets in a behaviour

ASSUME IdAssumption == Node \subseteq Id /\ NULL \notin Id \X Id
ASSUME TablesAssumption == Tables \subseteq Seq(Id \X Id)
ASSUME MaxResetsAssumption == MaxResets \in Nat

VARIABLES
  edges,      \* graph.edges of the virtual sequence
  row,        \* the row of the table the builder is at
  edgeid,     \* the builder's count of edges
  edge_q,     \* the edges of the graph
  in_q,       \* in_q[n], out_q[n]: edge ids of node n
  out_q,
  has_finalize,
  has_lock,
  has_visit,
  pc,         \* where sequence n is
  k,          \* its index in the list of edges it goes through
  failed,     \* nodes whose assertion in async_try_unlock failed
  resets

buildVars == <<edges, row, edgeid, edge_q, in_q, out_q, has_finalize>>
nodeVars == <<has_lock, has_visit>>
vars == <<buildVars, nodeVars, pc, k, failed, resets>>

Init ==
  /\ edges \in Tables
  /\ row = 1
  /\ edgeid = 0
  /\ edge_q = <<>>
  /\ in_q = [n \in Node |-> <<>>] /\ out_q = [n \in Node |-> <<>>]
  /\ has_finalize = FALSE
  /\ has_lock = [n \in Node |-> FALSE] /\ has_visit = [n \in Node |-> FALSE]
  /\ pc = [n \in Node |-> "wait"]
  /\ k = [n \in Node |-> 1]
  /\ failed = {}
  /\ resets = 0

-----------------------------------------------------------------------------
(***************************************************************************)
(* smtdv_base_vseq::body and the builder                                   *)
(***************************************************************************)
\* smtdv_graph::add_edge: the edge between the same nodes, of which the graph has
\* one at most, is deleted before
AddEdge(q, e) ==
  LET Same == {i \in 1..Len(q) : q[i] = e}
  IN  IF Same = {}
        THEN PushBack(q, e)
        ELSE PushBack(Delete(q, (CHOOSE i \in Same : TRUE) - 1), e)

\* Mutant: the new edge is put in front of the others
CreateSeqEdgeFront ==
  /\ ~has_finalize /\ row <= Len(edges)
  /\ row' = row + 1
  /\ LET e == edges[row] IN
       IF e[1] \in Node /\ e[2] \in Node
         THEN /\ edge_q' = PushFront(edge_q, e)
              /\ out_q' = [out_q EXCEPT ![e[1]] = PushBack(@, edgeid)]
              /\ in_q' = [in_q EXCEPT ![e[2]] = PushBack(@, edgeid)]
              /\ edgeid' = edgeid + 1
         ELSE UNCHANGED <<edge_q, out_q, in_q, edgeid>>
  /\ UNCHANGED <<edges, has_finalize, nodeVars, pc, k, failed, resets>>

\* _create_seq_edge of the next row; an id without a node is skipped
CreateSeqEdge ==
  /\ ~has_finalize /\ row <= Len(edges)
  /\ row' = row + 1
  /\ LET e == edges[row] IN
       IF e[1] \in Node /\ e[2] \in Node
         THEN /\ edge_q' = AddEdge(edge_q, e)
              /\ out_q' = [out_q EXCEPT ![e[1]] = PushBack(@, edgeid)]
              /\ in_q' = [in_q EXCEPT ![e[2]] = PushBack(@, edgeid)]
              /\ edgeid' = edgeid + 1
         ELSE UNCHANGED <<edge_q, out_q, in_q, edgeid>>
  /\ UNCHANGED <<edges, has_finalize, nodeVars, pc, k, failed, resets>>

FinalizeSeqGraph ==
  /\ ~has_finalize /\ row > Len(edges)
  /\ has_finalize' = TRUE
  /\ UNCHANGED <<edges, row, edgeid, edge_q, in_q, out_q, nodeVars, pc, k, failed, resets>>

-----------------------------------------------------------------------------
(***************************************************************************)
(* pre_body: async_try_lock.  get_edge of an id past the end gives null,   *)
(* and the process that reads its sourceid goes no further.                *)
(***************************************************************************)
At(n, place) == has_finalize /\ pc[n] = place
Goto(n, place) == pc' = [pc EXCEPT ![n] = place]
Go(n, place, i) == Goto(n, place) /\ k' = [k EXCEPT ![n] = i]

GetEdge(q, n) == Get(edge_q, q[n][k[n]])

\* Mutant: as in smtdv_node, a node that did not run yet counts as unlocked
WaitSourceUnvisited(n) ==
  /\ At(n, "wait") /\ k[n] <= Len(in_q[n])
  /\ LET e == GetEdge(in_q, n) IN
       e # NULL /\ ~has_lock[e[1]]
  /\ Goto(n, "swap")
  /\ UNCHANGED <<buildVars, nodeVars, k, failed, resets>>

\* wait(!node.is_lock() && node.has_visit)
WaitSource(n) ==
  /\ At(n, "wait") /\ k[n] <= Len(in_q[n])
  /\ LET e == GetEdge(in_q, n) IN
       e # NULL /\ ~has_lock[e[1]] /\ has_visit[e[1]]
  /\ Goto(n, "swap")
  /\ UNCHANGED <<buildVars, nodeVars, k, failed, resets>>

\* SMTDV_SWAP(tedge.attr.delay)
SwapSource(n) ==
  /\ At(n, "swap")
  /\ Go(n, "wait", k[n] + 1)
  /\ UNCHANGED <<buildVars, nodeVars, failed, resets>>

LockNode(n) ==
  /\ At(n, "wait") /\ k[n] > Len(in_q[n])
  /\ has_lock' = [has_lock EXCEPT ![n] = TRUE]
  /\ Goto(n, "locked")
  /\ UNCHANGED <<buildVars, has_visit, k, failed, resets>>

\* Mutant: the node is not marked as visited
StartBodyUnmarked(n) ==
  /\ At(n, "locked")
  /\ Goto(n, "body")
  /\ UNCHANGED <<buildVars, nodeVars, k, failed, resets>>

\* body: mid_do of the node, then the items of the sequence
StartBody(n) ==
  /\ At(n, "locked")
  /\ has_visit' = [has_visit EXCEPT ![n] = TRUE]
  /\ Goto(n, "body")
  /\ UNCHANGED <<buildVars, has_lock, k, failed, resets>>

\* Mutant: the list of output edges is gone through from one past its end
EndBodyPast(n) ==
  /\ At(n, "body")
  /\ Go(n, "release", Len(out_q[n]) + 2)
  /\ UNCHANGED <<buildVars, nodeVars, failed, resets>>

\* post_body: async_try_unlock goes through the output edges
EndBody(n) ==
  /\ At(n, "body")
  /\ Go(n, "release", 1)
  /\ UNCHANGED <<buildVars, nodeVars, failed, resets>>

\* assert(!node.is_lock()) of the sink
CheckSink(n) ==
  /\ At(n, "release") /\ k[n] <= Len(out_q[n])
  /\ LET e == GetEdge(out_q, n) IN
       /\ e # NULL
       /\ failed' = IF has_lock[e[2]] THEN failed \cup {n} ELSE failed
  /\ Goto(n, "yield")
  /\ UNCHANGED <<buildVars, nodeVars, k, resets>>

SwapSink(n) ==
  /\ At(n, "yield")
  /\ Go(n, "release", k[n] + 1)
  /\ UNCHANGED <<buildVars, nodeVars, failed, resets>>

UnlockNode(n) ==
  /\ At(n, "release") /\ k[n] > Len(out_q[n])
  /\ has_lock' = [has_lock EXCEPT ![n] = FALSE]
  /\ Goto(n, "done")
  /\ UNCHANGED <<buildVars, has_visit, k, failed, resets>>

(***************************************************************************)
(* reset_restart_sqr: stop_sequences kills what is alive, wherever it is;  *)
(* the locks stay as they are.                                             *)
(***************************************************************************)
StopSequences ==
  /\ has_finalize /\ resets < MaxResets
  /\ resets' = resets + 1
  /\ pc' = [n \in Node |-> IF pc[n] = "done" THEN "done" ELSE "killed"]
  /\ UNCHANGED <<buildVars, nodeVars, k, failed>>

Build == CreateSeqEdge \/ FinalizeSeqGraph
Step(n) ==
  \/ WaitSource(n) \/ SwapSource(n) \/ LockNode(n) \/ StartBody(n)
  \/ EndBody(n) \/ CheckSink(n) \/ SwapSink(n) \/ UnlockNode(n)
Next == Build \/ (\E n \in Node : Step(n)) \/ StopSequences

\* The simulator runs what can run, and the items of every body are answered
Fairness == WF_vars(Build) /\ \A n \in Node : WF_vars(Step(n))
Spec == Init /\ [][Next]_vars /\ Fairness

-----------------------------------------------------------------------------
\* An edge of the table that has both its nodes
Valid(e) == e[1] \in Node /\ e[2] \in Node

\* No edge is listed twice
Unique == \A i, j \in 1..Len(edges) : edges[i] = edges[j] /\ Valid(edges[i]) => i = j

Places == {"wait", "swap", "locked", "body", "release", "yield", "done", "killed"}
Started == {"locked", "body", "release", "yield", "done"}

(***************************************************************************)
(* Types.  The builder never gives a node the id of an edge it has not     *)
(* counted, and the loops over edges end at most one past their lists      *)
(* (_create_seq_edge, async_try_lock, async_try_unlock).                   *)
(***************************************************************************)
TypeOK ==
  /\ edges \in Tables
  /\ row \in 1..(Len(edges) + 1)
  /\ edgeid \in 0..(row - 1)
  /\ edge_q \in Seq(Node \X Node)
  /\ in_q \in [Node -> Seq(0..(edgeid - 1))] /\ out_q \in [Node -> Seq(0..(edgeid - 1))]
  /\ has_finalize \in BOOLEAN
  /\ has_lock \in [Node -> BOOLEAN] /\ has_visit \in [Node -> BOOLEAN]
  /\ pc \in [Node -> Places]
  /\ k \in [Node -> Nat \ {0}]
  /\ \A n \in Node :
       /\ pc[n] = "wait" => k[n] <= Len(in_q[n]) + 1
       /\ pc[n] = "swap" => k[n] <= Len(in_q[n])
       /\ pc[n] = "release" => k[n] <= Len(out_q[n]) + 1
       /\ pc[n] = "yield" => k[n] <= Len(out_q[n])
  /\ failed \subseteq Node
  /\ resets \in 0..MaxResets

(***************************************************************************)
(* "wait all input nodes, edges are completed": in a table without repeats *)
(* no sequence starts before every sequence with an edge to it has ended,  *)
(* whatever the others do at the waits of async_try_lock, and also when a  *)
(* reset kills some of them.                                               *)
(***************************************************************************)
WaitsForInputs ==
  Unique => \A i \in 1..Len(edges) :
    Valid(edges[i]) /\ pc[edges[i][2]] \in Started => pc[edges[i][1]] = "done"

(***************************************************************************)
(* "make sure all outputs nodes, edges are free to lock": the assertion of *)
(* async_try_unlock, made edge by edge with others running in between,     *)
(* never fails in a table without repeats.                                 *)
(***************************************************************************)
SinksFree == Unique => failed = {}

(***************************************************************************)
(* Nobody waits for ever: with a table that has neither repeats nor cycles *)
(* every sequence ends, unless a reset kills it.                           *)
(***************************************************************************)
Acyclic ==
  LET E == {edges[i] : i \in {j \in 1..Len(edges) : Valid(edges[j])}}
      Closed(S) == S # {} => \E n \in S : \A m \in S : <<m, n>> \notin E
  IN  \A S \in SUBSET Node : Closed(S)

EverySequenceEnds ==
  Unique /\ Acyclic ~> resets > 0 \/ \A n \in Node : pc[n] = "done"
=============================================================================
