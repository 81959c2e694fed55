--------------------------- MODULE SeqGraphProofs ---------------------------
(***************************************************************************)
(* Proofs about SeqGraph, for every set of nodes, every collection of edge *)
(* tables and any number of resets.                                        *)
(***************************************************************************)
EXTENDS SeqGraph, QueueOpsProofs

\* The edge with index id of the graph
Edge(id) == edge_q[id + 1]

(***************************************************************************)
(* The inductive invariant.  Building: before the graph is final nothing   *)
(* has run, and if no edge is listed twice the builder's count is the size *)
(* of the graph, so the ids it gives to the nodes are those of their edges.*)
(***************************************************************************)
NothingRan ==
  ~has_finalize => \A n \in Node :
    pc[n] = "wait" /\ k[n] = 1 /\ ~has_lock[n] /\ ~has_visit[n]

AllBuilt == has_finalize => row = Len(edges) + 1

Counted == Unique => edgeid = Len(edge_q)

FromTable ==
  Unique => \A i \in 1..Len(edge_q) :
    \E j \in 1..(row - 1) : edge_q[i] = edges[j] /\ Valid(edges[j])

InEdges ==
  Unique => \A i \in 1..(row - 1) : Valid(edges[i]) =>
    \E j \in 1..Len(in_q[edges[i][2]]) : Edge(in_q[edges[i][2]][j]) = edges[i]

OutEdges ==
  Unique => \A n \in Node : \A j \in 1..Len(out_q[n]) : Edge(out_q[n][j])[1] = n

GraphBuilt == NothingRan /\ AllBuilt /\ Counted /\ FromTable /\ InEdges /\ OutEdges

(***************************************************************************)
(* Running: a node that was visited and is not locked is done, a sequence  *)
(* is past an edge only if its source is done, and so is every source of a *)
(* node that is locked, killed or not.                                     *)
(***************************************************************************)
HoldsLock ==
  \A n \in Node : pc[n] \in {"locked", "body", "release", "yield"} => has_lock[n]

DoneIfFree == \A n \in Node : has_visit[n] /\ ~has_lock[n] => pc[n] = "done"

Passed(n, j) == (pc[n] = "wait" /\ j < k[n]) \/ (pc[n] = "swap" /\ j <= k[n])
SourceDone ==
  Unique => \A n \in Node : \A j \in 1..Len(in_q[n]) :
    Passed(n, j) => pc[Edge(in_q[n][j])[1]] = "done"

LockedInOrder ==
  Unique => \A i \in 1..Len(edges) :
    Valid(edges[i]) /\ (has_lock[edges[i][2]] \/ pc[edges[i][2]] \in Started)
      => pc[edges[i][1]] = "done"

IInv ==
  /\ TypeOK /\ GraphBuilt
  /\ HoldsLock /\ DoneIfFree /\ SourceDone /\ LockedInOrder /\ SinksFree

-----------------------------------------------------------------------------
\* Adding an edge keeps edges edges; one that is not there yet goes to the end
LEMMA AddEdgeLemma ==
  ASSUME NEW S, NEW q \in Seq(S), NEW e \in S
  PROVE  /\ AddEdge(q, e) \in Seq(S)
         /\ e \notin Elements(q) => AddEdge(q, e) = PushBack(q, e)
<1>. DEFINE Same == {i \in 1..Len(q) : q[i] = e}
            first == CHOOSE i \in Same : TRUE
<1>1. CASE Same = {}
  <2>1. AddEdge(q, e) = PushBack(q, e)
    BY <1>1 DEF AddEdge
  <2>. QED BY <2>1, PushBackLemma
<1>2. CASE Same # {}
  <2>1. AddEdge(q, e) = PushBack(Delete(q, first - 1), e)
    BY <1>2 DEF AddEdge
  <2>2. first \in Same
    BY <1>2
  <2>3. first - 1 \in Int /\ e \in Elements(q)
    BY <2>2 DEF Elements
  <2>. HIDE DEF first
  <2>4. Delete(q, first - 1) \in Seq(S)
    BY <2>3, DeleteLemma
  <2>5. AddEdge(q, e) \in Seq(S)
    BY <2>1, <2>4, PushBackLemma
  <2>. QED BY <2>3, <2>5
<1>. QED BY <1>1, <1>2

\* Ids counted so far stay in the set of ids as the count grows
LEMMA LargerSet ==
  ASSUME NEW S, NEW T, S \subseteq T, NEW q \in Seq(S)
  PROVE  q \in Seq(T)
<1>1. \A i \in 1..Len(q) : q[i] \in T
  OBVIOUS
<1>. QED BY <1>1

\* An id pushed to a list of ids
LEMMA PushedId ==
  ASSUME NEW S, NEW q \in Seq(S), NEW id
  PROVE  /\ Len(PushBack(q, id)) = Len(q) + 1
         /\ PushBack(q, id)[Len(q) + 1] = id
         /\ \A j \in 1..Len(q) : PushBack(q, id)[j] = q[j]
<1>1. q \in Seq(S \cup {id})
  BY LargerSet
<1>. QED BY <1>1 DEF PushBack

\* A row of the table is a pair of ids, and of nodes if it is valid
LEMMA RowLemma ==
  ASSUME edges \in Tables, NEW i \in 1..Len(edges)
  PROVE  /\ edges[i] = <<edges[i][1], edges[i][2]>>
         /\ Valid(edges[i]) => edges[i] \in Node \X Node
<1>1. edges[i] \in Id \X Id
  BY TablesAssumption
<1>. QED BY <1>1 DEF Valid

\* What a row adds to the graph
LEMMA CreateTypes ==
  ASSUME TypeOK, CreateSeqEdge
  PROVE  /\ row' \in 1..(Len(edges) + 1) /\ edgeid' \in 0..(row' - 1)
         /\ edge_q' \in Seq(Node \X Node)
         /\ in_q' \in [Node -> Seq(0..(edgeid' - 1))]
         /\ out_q' \in [Node -> Seq(0..(edgeid' - 1))]
         /\ \A n \in Node : Len(in_q'[n]) >= Len(in_q[n]) /\ Len(out_q'[n]) >= Len(out_q[n])
<1>. DEFINE e == edges[row]
<1>1. row \in 1..Len(edges) /\ row' = row + 1 /\ edges \in Seq(Id \X Id)
  BY TablesAssumption DEF TypeOK, CreateSeqEdge
<1>2. CASE Valid(e)
  <2>1. e \in Node \X Node /\ e[1] \in Node /\ e[2] \in Node
    BY <1>1, <1>2, RowLemma DEF TypeOK, Valid
  <2>2. /\ edge_q' = AddEdge(edge_q, e)
        /\ out_q' = [out_q EXCEPT ![e[1]] = PushBack(@, edgeid)]
        /\ in_q' = [in_q EXCEPT ![e[2]] = PushBack(@, edgeid)]
        /\ edgeid' = edgeid + 1
    BY <1>2 DEF CreateSeqEdge, Valid
  <2>3. edge_q' \in Seq(Node \X Node)
    BY <2>1, <2>2, AddEdgeLemma DEF TypeOK
  <2>4. edgeid' \in 0..(row' - 1)
    BY <1>1, <2>2 DEF TypeOK
  <2>5. ASSUME NEW q \in Seq(0..(edgeid - 1))
        PROVE  /\ q \in Seq(0..(edgeid' - 1)) /\ PushBack(q, edgeid) \in Seq(0..(edgeid' - 1))
               /\ Len(PushBack(q, edgeid)) = Len(q) + 1
    <3>1. edgeid \in 0..(edgeid' - 1) /\ 0..(edgeid - 1) \subseteq 0..(edgeid' - 1)
      BY <2>2 DEF TypeOK
    <3>2. q \in Seq(0..(edgeid' - 1))
      BY <3>1, LargerSet
    <3>. QED BY <3>1, <3>2, PushBackLemma
  <2>6. in_q' \in [Node -> Seq(0..(edgeid' - 1))] /\ out_q' \in [Node -> Seq(0..(edgeid' - 1))]
    BY <2>1, <2>2, <2>5 DEF TypeOK
  <2>7. \A n \in Node : Len(in_q'[n]) >= Len(in_q[n]) /\ Len(out_q'[n]) >= Len(out_q[n])
    <3>. SUFFICES ASSUME NEW n \in Node
                  PROVE  Len(in_q'[n]) >= Len(in_q[n]) /\ Len(out_q'[n]) >= Len(out_q[n])
      OBVIOUS
    <3>1. in_q[n] \in Seq(0..(edgeid - 1)) /\ out_q[n] \in Seq(0..(edgeid - 1))
      BY DEF TypeOK
    <3>2. in_q'[n] = in_q[n] \/ in_q'[n] = PushBack(in_q[n], edgeid)
      BY <2>2 DEF TypeOK
    <3>3. out_q'[n] = out_q[n] \/ out_q'[n] = PushBack(out_q[n], edgeid)
      BY <2>2 DEF TypeOK
    <3>4. Len(in_q[n]) \in Nat /\ Len(out_q[n]) \in Nat
      BY <3>1
    <3>. QED BY <2>5, <3>1, <3>2, <3>3, <3>4
  <2>. QED BY <1>1, <2>3, <2>4, <2>6, <2>7
<1>3. CASE ~Valid(e)
  <2>1. UNCHANGED <<edge_q, out_q, in_q, edgeid>>
    BY <1>3 DEF CreateSeqEdge, Valid
  <2>2. \A n \in Node : Len(in_q[n]) \in Nat /\ Len(out_q[n]) \in Nat
    BY DEF TypeOK
  <2>. QED BY <1>1, <2>1, <2>2 DEF TypeOK
<1>. QED BY <1>2, <1>3

\* Every step keeps the types
LEMMA TypeStep == TypeOK /\ [Next]_vars => TypeOK'
<1>. SUFFICES ASSUME TypeOK, [Next]_vars PROVE TypeOK'
  OBVIOUS
<1>0. \A n \in Node : Len(in_q[n]) \in Nat /\ Len(out_q[n]) \in Nat
  BY DEF TypeOK
<1>1. CASE UNCHANGED vars
  BY <1>1 DEF vars, buildVars, nodeVars, TypeOK
<1>2. CASE CreateSeqEdge
  <2>1. UNCHANGED <<edges, has_finalize, has_lock, has_visit, pc, k, failed, resets>>
    BY <1>2 DEF CreateSeqEdge, nodeVars
  <2>2. /\ row' \in 1..(Len(edges) + 1) /\ edgeid' \in 0..(row' - 1)
        /\ edge_q' \in Seq(Node \X Node)
        /\ in_q' \in [Node -> Seq(0..(edgeid' - 1))]
        /\ out_q' \in [Node -> Seq(0..(edgeid' - 1))]
    BY <1>2, CreateTypes
  <2>3. ASSUME NEW n \in Node
        PROVE  /\ pc[n] = "wait" => k[n] <= Len(in_q'[n]) + 1
               /\ pc[n] = "swap" => k[n] <= Len(in_q'[n])
               /\ pc[n] = "release" => k[n] <= Len(out_q'[n]) + 1
               /\ pc[n] = "yield" => k[n] <= Len(out_q'[n])
    <3>1. Len(in_q'[n]) >= Len(in_q[n]) /\ Len(out_q'[n]) >= Len(out_q[n])
      BY <1>2, CreateTypes
    <3>2. Len(in_q'[n]) \in Nat /\ Len(out_q'[n]) \in Nat
      BY <2>2
    <3>3. /\ k[n] \in Nat
          /\ pc[n] = "wait" => k[n] <= Len(in_q[n]) + 1
          /\ pc[n] = "swap" => k[n] <= Len(in_q[n])
          /\ pc[n] = "release" => k[n] <= Len(out_q[n]) + 1
          /\ pc[n] = "yield" => k[n] <= Len(out_q[n])
      BY DEF TypeOK
    <3>. QED BY <3>1, <3>2, <3>3, <1>0
  <2>. QED BY <2>1, <2>2, <2>3 DEF TypeOK
<1>3. CASE FinalizeSeqGraph
  BY <1>3 DEF FinalizeSeqGraph, nodeVars, TypeOK
<1>4. CASE StopSequences
  BY <1>4, MaxResetsAssumption DEF StopSequences, buildVars, nodeVars, TypeOK, Places
<1>5. ASSUME NEW n \in Node, Step(n) PROVE TypeOK'
  <2>. USE <1>0 DEF At, Go, Goto, buildVars, nodeVars, TypeOK, Places
  <2>1. CASE WaitSource(n)
    BY <2>1 DEF WaitSource
  <2>2. CASE SwapSource(n)
    BY <2>2 DEF SwapSource
  <2>3. CASE LockNode(n)
    BY <2>3 DEF LockNode
  <2>4. CASE StartBody(n)
    BY <2>4 DEF StartBody
  <2>5. CASE EndBody(n)
    BY <2>5 DEF EndBody
  <2>6. CASE CheckSink(n)
    BY <2>6 DEF CheckSink
  <2>7. CASE SwapSink(n)
    BY <2>7 DEF SwapSink
  <2>8. CASE UnlockNode(n)
    BY <2>8 DEF UnlockNode
  <2>. QED BY <1>5, <2>1, <2>2, <2>3, <2>4, <2>5, <2>6, <2>7, <2>8 DEF Step
<1>. QED BY <1>1, <1>2, <1>3, <1>4, <1>5 DEF Next, Build

-----------------------------------------------------------------------------
\* Nobody runs before the graph is final, and running leaves it alone
LEMMA RunKeepsGraph ==
  ASSUME (\E n \in Node : Step(n)) \/ StopSequences
  PROVE  has_finalize /\ UNCHANGED buildVars
<1>1. ASSUME NEW n \in Node, Step(n) PROVE has_finalize /\ UNCHANGED buildVars
  BY <1>1 DEF Step, WaitSource, SwapSource, LockNode, StartBody, EndBody, CheckSink,
    SwapSink, UnlockNode, At
<1>2. CASE StopSequences
  BY <1>2 DEF StopSequences
<1>. QED BY <1>1, <1>2

\* In a table without repeats a new edge goes to the end and keeps the ids of the others
LEMMA NewEdge ==
  ASSUME TypeOK, GraphBuilt, CreateSeqEdge, Unique, Valid(edges[row])
  PROVE  /\ Len(edge_q') = Len(edge_q) + 1 /\ edge_q'[Len(edge_q) + 1] = edges[row]
         /\ \A i \in 1..Len(edge_q) : edge_q'[i] = edge_q[i]
<1>. DEFINE e == edges[row]
<1>1. row \in 1..Len(edges) /\ row \in Nat
  BY DEF TypeOK, CreateSeqEdge
<1>2. e \in Node \X Node
  BY <1>1, RowLemma DEF TypeOK
<1>3. e \notin Elements(edge_q)
  <2>. SUFFICES ASSUME NEW i \in 1..Len(edge_q), edge_q[i] = e PROVE FALSE
    BY DEF Elements
  <2>1. PICK j \in 1..(row - 1) : edge_q[i] = edges[j] /\ Valid(edges[j])
    BY DEF GraphBuilt, FromTable
  <2>2. j \in 1..Len(edges) /\ j # row
    BY <1>1, <2>1
  <2>. QED BY <1>1, <2>1, <2>2 DEF Unique
<1>4. edge_q' = AddEdge(edge_q, e)
  BY DEF CreateSeqEdge, Valid
<1>5. edge_q \in Seq(Node \X Node)
  BY DEF TypeOK
<1>. HIDE DEF e
<1>6. edge_q' = Append(edge_q, e)
  BY <1>2, <1>3, <1>4, <1>5, AddEdgeLemma DEF PushBack
<1>. QED BY <1>2, <1>5, <1>6 DEF e

\* Building keeps what the nodes know of their edges
LEMMA CreateBuilds == TypeOK /\ GraphBuilt /\ CreateSeqEdge => GraphBuilt'
<1>. SUFFICES ASSUME TypeOK, GraphBuilt, CreateSeqEdge PROVE GraphBuilt'
  OBVIOUS
<1>. DEFINE e == edges[row]
<1>1. /\ UNCHANGED <<edges, has_finalize, has_lock, has_visit, pc, k>>
      /\ ~has_finalize /\ row' = row + 1 /\ row \in 1..Len(edges)
  BY DEF CreateSeqEdge, nodeVars, TypeOK
<1>2. NothingRan' /\ AllBuilt'
  BY <1>1 DEF GraphBuilt, NothingRan, AllBuilt
<1>3. CASE ~Unique
  BY <1>1, <1>2, <1>3 DEF GraphBuilt, Counted, FromTable, InEdges, OutEdges, Unique, Valid
<1>4. CASE Unique /\ ~Valid(e)
  <2>1. UNCHANGED <<edge_q, out_q, in_q, edgeid>>
    BY <1>4 DEF CreateSeqEdge, Valid
  <2>2. Counted'
    BY <1>1, <1>4, <2>1 DEF GraphBuilt, Counted
  <2>3. FromTable'
    BY <1>1, <1>4, <2>1 DEF GraphBuilt, FromTable, Valid
  <2>4. InEdges'
    BY <1>1, <1>4, <2>1 DEF GraphBuilt, InEdges, Edge, Valid
  <2>5. OutEdges'
    BY <1>1, <1>4, <2>1 DEF GraphBuilt, OutEdges, Edge
  <2>. QED BY <1>2, <2>2, <2>3, <2>4, <2>5 DEF GraphBuilt
<1>5. CASE Unique /\ Valid(e)
  <2>1. /\ Len(edge_q') = Len(edge_q) + 1 /\ edge_q'[Len(edge_q) + 1] = e
        /\ \A i \in 1..Len(edge_q) : edge_q'[i] = edge_q[i]
    BY <1>5, NewEdge
  <2>2. /\ edgeid' = edgeid + 1 /\ edgeid = Len(edge_q) /\ edgeid \in Nat
        /\ out_q' = [out_q EXCEPT ![e[1]] = PushBack(@, edgeid)]
        /\ in_q' = [in_q EXCEPT ![e[2]] = PushBack(@, edgeid)]
        /\ e[1] \in Node /\ e[2] \in Node
    BY <1>5 DEF CreateSeqEdge, Valid, GraphBuilt, Counted, TypeOK
  <2>3. Counted'
    BY <2>1, <2>2 DEF Counted
  <2>4. FromTable'
    <3>. SUFFICES ASSUME NEW i \in 1..(Len(edge_q) + 1)
                  PROVE  \E j \in 1..row : edge_q'[i] = edges[j] /\ Valid(edges[j])
      BY <1>1, <2>1 DEF FromTable, Valid
    <3>1. CASE i \in 1..Len(edge_q)
      <4>1. PICK j \in 1..(row - 1) : edge_q[i] = edges[j] /\ Valid(edges[j])
        BY <1>5, <3>1 DEF GraphBuilt, FromTable
      <4>2. j \in 1..row
        BY <1>1
      <4>. QED BY <2>1, <3>1, <4>1, <4>2
    <3>2. CASE i = Len(edge_q) + 1
      BY <1>1, <1>5, <2>1, <3>2
    <3>. QED BY <2>2, <3>1, <3>2
  \* Ids given before mean the same edges as before
  <2>5. ASSUME NEW id \in 0..(edgeid - 1) PROVE edge_q'[id + 1] = edge_q[id + 1]
    BY <2>1, <2>2
  <2>6. InEdges'
    <3>. SUFFICES ASSUME NEW i \in 1..row, Valid(edges[i])
                  PROVE  \E j \in 1..Len(in_q'[edges[i][2]]) :
                           edge_q'[in_q'[edges[i][2]][j] + 1] = edges[i]
      BY <1>1 DEF InEdges, Edge, Valid
    <3>. DEFINE n == edges[i][2]
    <3>1. n \in Node /\ in_q[n] \in Seq(0..(edgeid - 1)) /\ Len(in_q[n]) \in Nat
      BY DEF Valid, TypeOK
    <3>2. /\ n = e[2] => in_q'[n] = PushBack(in_q[n], edgeid)
          /\ n # e[2] => in_q'[n] = in_q[n]
      BY <2>2, <3>1 DEF TypeOK
    <3>. HIDE DEF n
    <3>3. /\ Len(PushBack(in_q[n], edgeid)) = Len(in_q[n]) + 1
          /\ PushBack(in_q[n], edgeid)[Len(in_q[n]) + 1] = edgeid
          /\ \A j \in 1..Len(in_q[n]) : PushBack(in_q[n], edgeid)[j] = in_q[n][j]
      BY <3>1, PushedId
    <3>4. CASE i = row
      <4>1. n = e[2] /\ Len(in_q[n]) + 1 \in 1..Len(in_q'[n])
        BY <3>1, <3>2, <3>3, <3>4 DEF n
      <4>2. in_q'[n][Len(in_q[n]) + 1] = edgeid
        BY <3>2, <3>3, <4>1
      <4>3. edge_q'[edgeid + 1] = edges[i]
        BY <2>1, <2>2, <3>4
      <4>. QED BY <4>1, <4>2, <4>3 DEF n
    <3>5. CASE i # row
      <4>1. i \in 1..(row - 1)
        BY <1>1, <3>5
      <4>2. PICK j \in 1..Len(in_q[n]) : edge_q[in_q[n][j] + 1] = edges[i]
        BY <1>5, <4>1 DEF GraphBuilt, InEdges, Edge, n
      <4>3. in_q[n][j] \in 0..(edgeid - 1)
        BY <3>1, <4>2, ElementOfSeq
      <4>4. j \in 1..Len(in_q'[n]) /\ in_q'[n][j] = in_q[n][j]
        BY <3>1, <3>2, <3>3, <4>2
      <4>5. edge_q'[in_q'[n][j] + 1] = edges[i]
        BY <2>5, <4>2, <4>3, <4>4
      <4>. QED BY <4>4, <4>5 DEF n
    <3>. QED BY <3>4, <3>5
  <2>7. OutEdges'
    <3>. SUFFICES ASSUME NEW n \in Node, NEW j \in 1..Len(out_q'[n])
                  PROVE  edge_q'[out_q'[n][j] + 1][1] = n
      BY <1>1 DEF OutEdges, Edge
    <3>1. out_q[n] \in Seq(0..(edgeid - 1)) /\ Len(out_q[n]) \in Nat
      BY DEF TypeOK
    <3>2. /\ n = e[1] => out_q'[n] = PushBack(out_q[n], edgeid)
          /\ n # e[1] => out_q'[n] = out_q[n]
      BY <2>2 DEF TypeOK
    <3>3. /\ Len(PushBack(out_q[n], edgeid)) = Len(out_q[n]) + 1
          /\ PushBack(out_q[n], edgeid)[Len(out_q[n]) + 1] = edgeid
          /\ \A i \in 1..Len(out_q[n]) : PushBack(out_q[n], edgeid)[i] = out_q[n][i]
      BY <3>1, PushedId
    <3>4. CASE j \in 1..Len(out_q[n])
      <4>1. out_q[n][j] \in 0..(edgeid - 1)
        BY <3>1, <3>4, ElementOfSeq
      <4>2. out_q'[n][j] = out_q[n][j]
        BY <3>2, <3>3, <3>4
      <4>3. edge_q[out_q[n][j] + 1][1] = n
        BY <1>5, <3>4 DEF GraphBuilt, OutEdges, Edge
      <4>. QED BY <2>5, <4>1, <4>2, <4>3
    <3>5. CASE j \notin 1..Len(out_q[n])
      <4>1. n = e[1] /\ j = Len(out_q[n]) + 1
        BY <3>1, <3>2, <3>3, <3>5
      <4>2. out_q'[n][j] = edgeid
        BY <3>2, <3>3, <4>1
      <4>3. edge_q'[edgeid + 1] = e
        BY <2>1, <2>2
      <4>. QED BY <4>1, <4>2, <4>3
    <3>. QED BY <3>4, <3>5
  <2>. QED BY <1>2, <2>3, <2>4, <2>6, <2>7 DEF GraphBuilt
<1>. QED BY <1>3, <1>4, <1>5

\* Every step keeps what the nodes know of their edges
LEMMA BuiltStep == TypeOK /\ GraphBuilt /\ [Next]_vars => GraphBuilt'
<1>. SUFFICES ASSUME TypeOK, GraphBuilt, [Next]_vars PROVE GraphBuilt'
  OBVIOUS
<1>1. CASE CreateSeqEdge
  BY <1>1, CreateBuilds
\* The other steps leave the graph alone, so only these two parts are about them
<1>2. ASSUME UNCHANGED <<edges, row, edgeid, edge_q, in_q, out_q>>, NothingRan', AllBuilt'
      PROVE  GraphBuilt'
  <2>1. Unique' = Unique
    BY <1>2 DEF Unique, Valid
  <2>2. Counted' /\ FromTable'
    BY <1>2, <2>1 DEF GraphBuilt, Counted, FromTable, Valid
  <2>3. InEdges' /\ OutEdges'
    BY <1>2, <2>1 DEF GraphBuilt, InEdges, OutEdges, Edge, Valid
  <2>. QED BY <1>2, <2>2, <2>3 DEF GraphBuilt
<1>3. CASE UNCHANGED vars
  BY <1>2, <1>3 DEF vars, buildVars, nodeVars, GraphBuilt, NothingRan, AllBuilt
<1>4. CASE FinalizeSeqGraph
  <2>1. row = Len(edges) + 1
    BY <1>4, TablesAssumption DEF FinalizeSeqGraph, TypeOK
  <2>2. NothingRan' /\ AllBuilt' /\ UNCHANGED <<edges, row, edgeid, edge_q, in_q, out_q>>
    BY <1>4, <2>1 DEF FinalizeSeqGraph, NothingRan, AllBuilt
  <2>. QED BY <1>2, <2>2
<1>5. CASE (\E n \in Node : Step(n)) \/ StopSequences
  <2>1. has_finalize /\ UNCHANGED buildVars
    BY <1>5, RunKeepsGraph
  <2>2. NothingRan' /\ AllBuilt' /\ UNCHANGED <<edges, row, edgeid, edge_q, in_q, out_q>>
    BY <2>1 DEF buildVars, GraphBuilt, NothingRan, AllBuilt
  <2>. QED BY <1>2, <2>2
<1>. QED BY <1>1, <1>3, <1>4, <1>5 DEF Next, Build

-----------------------------------------------------------------------------
\* In a table without repeats the ids of a node are those of edges of the graph
LEMMA EdgeOfId ==
  ASSUME TypeOK, GraphBuilt, has_finalize, Unique, NEW q \in {in_q, out_q},
         NEW n \in Node, NEW j \in 1..Len(q[n])
  PROVE  /\ Edge(q[n][j]) = Get(edge_q, q[n][j]) /\ Edge(q[n][j]) \in Node \X Node
         /\ \E i \in 1..Len(edges) : edges[i] = Edge(q[n][j]) /\ Valid(edges[i])
<1>1. q[n] \in Seq(0..(edgeid - 1)) /\ edgeid = Len(edge_q) /\ edgeid \in Nat
  <2>1. edgeid = Len(edge_q) /\ edgeid \in Nat
    BY DEF TypeOK, GraphBuilt, Counted
  <2>2. CASE q = in_q
    BY <2>1, <2>2 DEF TypeOK
  <2>3. CASE q = out_q
    BY <2>1, <2>3 DEF TypeOK
  <2>. QED BY <2>2, <2>3
<1>. DEFINE id == q[n][j]
<1>2. id \in 0..(edgeid - 1)
  BY <1>1, ElementOfSeq
<1>. HIDE DEF id
<1>3. id + 1 \in 1..Len(edge_q) /\ InRange(edge_q, id)
  BY <1>1, <1>2 DEF InRange
<1>4. Edge(id) = Get(edge_q, id) /\ Edge(id) \in Node \X Node
  <2>1. edge_q[id + 1] \in Node \X Node
    BY <1>3, ElementOfSeq DEF TypeOK
  <2>. QED BY <1>3, <2>1 DEF Get, Edge
<1>5. PICK i \in 1..(row - 1) : edge_q[id + 1] = edges[i] /\ Valid(edges[i])
  BY <1>3 DEF GraphBuilt, FromTable
<1>6. i \in 1..Len(edges)
  BY TablesAssumption DEF TypeOK
<1>. QED BY <1>4, <1>5, <1>6 DEF Edge, id

\* A process that goes on has found the source of its edge done
LEMMA FoundDone ==
  ASSUME IInv, Unique, NEW n \in Node, WaitSource(n)
  PROVE  k[n] \in 1..Len(in_q[n]) /\ pc[Edge(in_q[n][k[n]])[1]] = "done"
<1>1. has_finalize /\ k[n] \in 1..Len(in_q[n])
  BY DEF WaitSource, At, IInv, TypeOK
<1>. DEFINE e == GetEdge(in_q, n)
<1>2. e = Edge(in_q[n][k[n]]) /\ e \in Node \X Node
  BY <1>1, EdgeOfId DEF IInv, GetEdge
<1>3. ~has_lock[e[1]] /\ has_visit[e[1]]
  BY DEF WaitSource
<1>. HIDE DEF e
<1>4. pc[e[1]] = "done"
  BY <1>2, <1>3 DEF IInv, DoneIfFree
<1>. QED BY <1>1, <1>2, <1>4

\* A process past its last edge has found every source done
LEMMA AllFoundDone ==
  ASSUME IInv, Unique, NEW n \in Node, LockNode(n), NEW i \in 1..Len(edges),
         Valid(edges[i]), edges[i][2] = n
  PROVE  pc[edges[i][1]] = "done"
<1>1. has_finalize /\ pc[n] = "wait" /\ k[n] > Len(in_q[n])
  BY DEF LockNode, At
<1>2. i \in 1..(row - 1)
  BY <1>1 DEF IInv, GraphBuilt, AllBuilt, TypeOK
<1>3. PICK j \in 1..Len(in_q[n]) : Edge(in_q[n][j]) = edges[i]
  BY <1>2 DEF IInv, GraphBuilt, InEdges
<1>4. j < k[n] /\ Len(in_q[n]) \in Nat
  BY <1>1, <1>3 DEF IInv, TypeOK
<1>5. Passed(n, j)
  BY <1>1, <1>4 DEF Passed
<1>. QED BY <1>3, <1>5 DEF IInv, SourceDone

\* The sinks of a node that runs are free
LEMMA SinkIsFree ==
  ASSUME IInv, Unique, NEW n \in Node, CheckSink(n)
  PROVE  failed' = failed
<1>1. has_finalize /\ pc[n] = "release" /\ k[n] \in 1..Len(out_q[n])
  BY DEF CheckSink, At, IInv, TypeOK
<1>. DEFINE e == GetEdge(out_q, n)
<1>2. e = Edge(out_q[n][k[n]])
  BY <1>1, EdgeOfId DEF IInv, GetEdge
<1>3. PICK i \in 1..Len(edges) : edges[i] = e /\ Valid(edges[i])
  BY <1>1, <1>2, EdgeOfId DEF IInv
<1>4. e[1] = n
  BY <1>1, <1>2 DEF IInv, GraphBuilt, OutEdges
<1>5. failed' = IF has_lock[e[2]] THEN failed \cup {n} ELSE failed
  BY DEF CheckSink
<1>. HIDE DEF e
<1>6. ~has_lock[e[2]]
  BY <1>1, <1>3, <1>4 DEF IInv, LockedInOrder
<1>. QED BY <1>5, <1>6

\* Every step keeps the order of the sequences, and the free sinks
LEMMA RunStep ==
  IInv /\ [Next]_vars
    => HoldsLock' /\ DoneIfFree' /\ SourceDone' /\ LockedInOrder' /\ SinksFree'
<1>. SUFFICES ASSUME IInv, [Next]_vars
              PROVE  HoldsLock' /\ DoneIfFree' /\ SourceDone' /\ LockedInOrder' /\ SinksFree'
  OBVIOUS
<1>. USE DEF IInv
<1>1. CASE UNCHANGED vars
  BY <1>1 DEF vars, buildVars, nodeVars, HoldsLock, DoneIfFree, SourceDone, Passed, Edge,
    LockedInOrder, SinksFree, Unique, Valid
<1>2. CASE Build
  <2>1. /\ UNCHANGED <<edges, has_lock, has_visit, pc, k, failed>>
        /\ ~has_finalize
    BY <1>2 DEF Build, CreateSeqEdge, FinalizeSeqGraph, nodeVars
  <2>2. HoldsLock' /\ DoneIfFree' /\ SinksFree'
    BY <2>1 DEF HoldsLock, DoneIfFree, SinksFree, Unique, Valid
  <2>3. SourceDone'
    <3>1. ASSUME NEW n \in Node, NEW j \in 1..Len(in_q'[n]) PROVE ~Passed(n, j)'
      BY <2>1 DEF GraphBuilt, NothingRan, Passed
    <3>. QED BY <3>1 DEF SourceDone
  <2>4. LockedInOrder'
    BY <2>1 DEF GraphBuilt, NothingRan, LockedInOrder, Valid, Started
  <2>. QED BY <2>2, <2>3, <2>4
<1>3. CASE StopSequences
  <2>1. /\ UNCHANGED <<buildVars, has_lock, has_visit, k, failed>>
        /\ pc' = [n \in Node |-> IF pc[n] = "done" THEN "done" ELSE "killed"]
    BY <1>3 DEF StopSequences, nodeVars
  <2>2. HoldsLock' /\ DoneIfFree' /\ SinksFree'
    BY <2>1 DEF HoldsLock, DoneIfFree, SinksFree, buildVars, Unique, Valid
  <2>3. SourceDone'
    BY <2>1 DEF SourceDone, Passed
  <2>4. LockedInOrder'
    BY <2>1 DEF LockedInOrder, buildVars, Unique, Valid, Started
  <2>. QED BY <2>2, <2>3, <2>4
<1>4. ASSUME NEW n \in Node, Step(n)
      PROVE  HoldsLock' /\ DoneIfFree' /\ SourceDone' /\ LockedInOrder' /\ SinksFree'
  <2>. USE DEF At, Go, Goto, nodeVars, TypeOK
  <2>0. /\ UNCHANGED <<edges, row, edgeid, edge_q, in_q, out_q, has_finalize>>
        /\ Unique' = Unique /\ \A i \in 1..Len(edges) : Valid(edges[i])' = Valid(edges[i])
        /\ \A m \in Node : \A j \in 1..Len(in_q[m]) :
             Edge(in_q[m][j])' = Edge(in_q[m][j])
    BY <1>4, RunKeepsGraph DEF buildVars, Unique, Valid, Edge
  \* Nobody who is done starts again
  <2>1. /\ pc[n] # "done" /\ \E place \in Places : pc' = [pc EXCEPT ![n] = place]
        /\ \A m \in Node : m # n => pc'[m] = pc[m]
    BY <1>4 DEF Step, WaitSource, SwapSource, LockNode, StartBody, EndBody, CheckSink,
      SwapSink, UnlockNode, Places
  <2>2. HoldsLock'
    BY <1>4 DEF HoldsLock, Step, WaitSource, SwapSource, LockNode, StartBody, EndBody,
      CheckSink, SwapSink, UnlockNode
  <2>3. DoneIfFree'
    BY <1>4 DEF HoldsLock, DoneIfFree, Step, WaitSource, SwapSource, LockNode, StartBody,
      EndBody, CheckSink, SwapSink, UnlockNode
  <2>4. SourceDone'
    <3>. SUFFICES ASSUME Unique, NEW m \in Node, NEW j \in 1..Len(in_q[m]), Passed(m, j)'
                  PROVE  pc'[Edge(in_q[m][j])[1]] = "done"
      BY <2>0 DEF SourceDone
    <3>1. CASE Passed(m, j)
      BY <2>1, <3>1 DEF SourceDone
    <3>2. CASE ~Passed(m, j)
      <4>1. m = n /\ WaitSource(n) /\ j = k[n]
        <5>1. m = n
          BY <1>4, <2>1, <3>2 DEF Passed, Step, WaitSource, SwapSource, LockNode, StartBody,
            EndBody, CheckSink, SwapSink, UnlockNode
        <5>2. CASE WaitSource(n)
          BY <3>2, <5>1, <5>2 DEF Passed, WaitSource
        <5>3. CASE SwapSource(n)
          BY <3>2, <5>1, <5>3 DEF Passed, SwapSource
        <5>4. CASE LockNode(n) \/ StartBody(n) \/ UnlockNode(n) \/ CheckSink(n)
          BY <3>2, <5>1, <5>4 DEF Passed, LockNode, StartBody, UnlockNode, CheckSink
        <5>5. CASE EndBody(n) \/ SwapSink(n)
          BY <3>2, <5>1, <5>5 DEF Passed, EndBody, SwapSink
        <5>. QED BY <1>4, <5>2, <5>3, <5>4, <5>5, <5>1 DEF Step
      <4>2. pc[Edge(in_q[m][j])[1]] = "done"
        BY <4>1, FoundDone
      <4>. QED BY <2>1, <4>2
    <3>. QED BY <3>1, <3>2
  <2>5. LockedInOrder'
    <3>. SUFFICES ASSUME Unique, NEW i \in 1..Len(edges), Valid(edges[i]),
                         has_lock'[edges[i][2]] \/ pc'[edges[i][2]] \in Started
                  PROVE  pc'[edges[i][1]] = "done"
      BY <2>0 DEF LockedInOrder
    <3>1. CASE has_lock[edges[i][2]] \/ pc[edges[i][2]] \in Started
      BY <2>1, <3>1 DEF LockedInOrder
    <3>2. CASE ~has_lock[edges[i][2]] /\ pc[edges[i][2]] \notin Started
      <4>. DEFINE m == edges[i][2]
      <4>1. m \in Node /\ ~has_lock[m] /\ pc[m] \notin Started
            /\ (has_lock'[m] \/ pc'[m] \in Started)
        BY <3>2 DEF Valid
      <4>. HIDE DEF m
      <4>3. m = n /\ LockNode(n)
        BY <1>4, <4>1 DEF Started, Step, WaitSource, SwapSource, LockNode,
          StartBody, EndBody, CheckSink, SwapSink, UnlockNode
      <4>2. pc[edges[i][1]] = "done"
        BY <4>3, AllFoundDone DEF m
      <4>. QED BY <2>1, <4>2
    <3>. QED BY <3>1, <3>2
  <2>6. SinksFree'
    <3>1. Unique => failed' = failed
      BY <1>4, SinkIsFree DEF Step, WaitSource, SwapSource, LockNode, StartBody, EndBody,
        SwapSink, UnlockNode
    <3>. QED BY <2>0, <3>1 DEF SinksFree
  <2>. QED BY <2>2, <2>3, <2>4, <2>5, <2>6
<1>. QED BY <1>1, <1>2, <1>3, <1>4 DEF Next

\* The invariant holds in every state: the ids the builder gives out mean what the
\* nodes take them for, and every sequence runs after those it waits for
THEOREM SeqGraphInvariant == Spec => []IInv
<1>1. Init => IInv
  <2>. SUFFICES ASSUME Init PROVE IInv
    OBVIOUS
  <2>1. TypeOK
    <3>1. row \in 1..(Len(edges) + 1) /\ edgeid \in 0..(row - 1) /\ resets \in 0..MaxResets
      BY TablesAssumption, MaxResetsAssumption DEF Init
    <3>2. edge_q \in Seq(Node \X Node)
      BY DEF Init
    <3>3. in_q \in [Node -> Seq(0..(edgeid - 1))] /\ out_q \in [Node -> Seq(0..(edgeid - 1))]
      BY DEF Init
    <3>4. pc \in [Node -> Places] /\ k \in [Node -> Nat \ {0}]
      BY DEF Init, Places
    <3>5. \A n \in Node : pc[n] = "wait" /\ k[n] <= Len(in_q[n]) + 1
      BY DEF Init
    <3>6. /\ edges \in Tables /\ has_finalize \in BOOLEAN /\ failed \subseteq Node
          /\ has_lock \in [Node -> BOOLEAN] /\ has_visit \in [Node -> BOOLEAN]
      BY DEF Init
    <3>. QED BY <3>1, <3>2, <3>3, <3>4, <3>5, <3>6 DEF TypeOK
  <2>2. GraphBuilt
    BY DEF Init, GraphBuilt, NothingRan, AllBuilt, Counted, FromTable, InEdges, OutEdges
  <2>3. HoldsLock /\ DoneIfFree /\ SinksFree
    BY DEF Init, HoldsLock, DoneIfFree, SinksFree
  <2>4. SourceDone
    BY DEF Init, SourceDone
  <2>5. LockedInOrder
    BY DEF Init, LockedInOrder, Valid, Started
  <2>. QED BY <2>1, <2>2, <2>3, <2>4, <2>5 DEF IInv
<1>2. IInv /\ [Next]_vars => IInv'
  BY TypeStep, BuiltStep, RunStep DEF IInv
<1>. QED BY <1>1, <1>2, PTL DEF Spec

\* Type correctness: nobody is given the id of an edge that does not exist
THEOREM SeqGraphTypeCorrect == Spec => []TypeOK
<1>1. IInv => TypeOK
  BY DEF IInv
<1>. QED BY <1>1, SeqGraphInvariant, PTL

\* No sequence starts before all those with an edge to it are done, for any table
\* without repeats, any interleaving and resets at any moment
THEOREM SeqGraphWaitsForInputs == Spec => []WaitsForInputs
<1>1. IInv => WaitsForInputs
  BY DEF IInv, LockedInOrder, WaitsForInputs
<1>. QED BY <1>1, SeqGraphInvariant, PTL

\* The assertion of async_try_unlock never fails for a table without repeats
THEOREM SeqGraphSinksFree == Spec => []SinksFree
<1>1. IInv => SinksFree
  BY DEF IInv
<1>. QED BY <1>1, SeqGraphInvariant, PTL
=============================================================================
