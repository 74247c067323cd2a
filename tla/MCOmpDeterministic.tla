------------------------- MODULE MCOmpDeterministic -------------------------
EXTENDS OmpDeterministic

Ext == INSTANCE SequencesExt

(***************************************************************************)
(* Every simple graph, as a sorted edge list: the order of the edges makes *)
(* no difference to hooking in any order.  And every list of two edges     *)
(* with self loops, edges that point down and parallel edges among them,   *)
(* of three with parallel edges.                                           *)
(***************************************************************************)
Before(d, e) == d.from < e.from \/ (d.from = e.from /\ d.to < e.to)

MCSimpleGraphs ==
  {Ext!SetToSortSeq(S, Before) : S \in SUBSET {e \in Edge(Node) : e.from < e.to} \ {{}}}

MCPairsOfEdges == [1 .. 2 -> Edge(Node)]

MCTriples == [1 .. 3 -> {e \in Edge(Node) : e.from < e.to}]

MCInputs == MCSimpleGraphs \cup MCPairsOfEdges \cup MCTriples
=============================================================================
