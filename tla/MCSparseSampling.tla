-------------------------- MODULE MCSparseSampling --------------------------
EXTENDS SparseSampling, SequencesExt

(* Which end comes first makes no difference.                              *)
MCUpward == {e \in Edge(Node) : e.from < e.to}
MCLoop == [from |-> 1, to |-> 1]

Position(e) == N * e.from + e.to

(* Every simple graph, its edges in lexicographic order.                   *)
MCSimple ==
  {SetToSortSeq(S, LAMBDA d, e : Position(d) < Position(e)) :
     S \in SUBSET MCUpward \ {{}}}

(* Files shorter than the number of ranks, with a self loop.               *)
MCShort == UNION {[1 .. n -> MCUpward \cup {MCLoop}] : n \in 1 .. 2}

MCTriples ==
  {t \in [1 .. 3 -> MCUpward] :
     Position(t[1]) <= Position(t[2]) /\ Position(t[2]) <= Position(t[3])}

(* Two ranks hold one edge, a self loop perhaps; the third holds any       *)
(* three, parallel ones among them, in order: it draws from all of them.   *)
MCUneven ==
  {<<a, b>> \o t : a, b \in {MCLoop, [from |-> 0, to |-> 1]}, t \in MCTriples}

(* Every rank holds the same three edges: only rank 0 is asked, for two.   *)
MCEven == {t \o t \o t : t \in MCTriples}

MCInputs == MCSimple \cup MCShort \cup MCUneven \cup MCEven
=============================================================================
