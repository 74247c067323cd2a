-------------------------- MODULE MCOmpRandomized --------------------------
EXTENDS OmpRandomized

Ext == INSTANCE SequencesExt

(***************************************************************************)
(* Simple graphs of three edges, sorted: the iterations run in any order.  *)
(* And edge lists over the first three vertices: of two edges with self    *)
(* loops, edges that point down and parallel edges, of three edges the     *)
(* last of which is the first again.                                       *)
(***************************************************************************)
MCUpward(V) == {e \in Edge(V) : e.from < e.to}

Before(d, e) == d.from < e.from \/ (d.from = e.from /\ d.to < e.to)

MCThreeEdges ==
  {Ext!SetToSortSeq(S, Before) : S \in {T \in SUBSET MCUpward(Node) : Cardinality(T) = 3}}

MCRepeated == {<<d, e, d>> : d, e \in MCUpward(0 .. 2)}

MCInputs == MCThreeEdges \cup [1 .. 2 -> Edge(0 .. 2)] \cup MCRepeated
=============================================================================
