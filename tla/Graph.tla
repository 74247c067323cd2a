------------------------------- MODULE Graph -------------------------------
(***************************************************************************)
(* Edges as the programs store them, connectivity of the input graph, and  *)
(* the order-preserving compaction with which every program drops the      *)
(* edges that a round has made internal to a component.                    *)
(*                                                                         *)
(* No definition is recursive, so that the modules built on this one can   *)
(* be proved about.                                                        *)
(***************************************************************************)
EXTENDS Integers, Sequences, FiniteSets, FiniteSetsExt, Sums

(***************************************************************************)
(* struct Edge, identical in the four programs: two endpoints of type      *)
(* uint32_t.  V is the set of vertices 0 .. nNodes-1.                      *)
(***************************************************************************)
Edge(V) == [from : V, to : V]

normalized(e) == e.from <= e.to

normalize(e) == IF normalized(e) THEN e ELSE [from |-> e.to, to |-> e.from]

Pair(e) == {e.from, e.to}

Pairs(s) == {Pair(s[k]) : k \in DOMAIN s}

(***************************************************************************)
(* Connectivity without paths: u and v are connected through the pairs E   *)
(* iff no set of vertices that every pair of E is inside or outside of     *)
(* separates them.                                                         *)
(***************************************************************************)
ClosedUnder(S, E) == \A p \in E : p \subseteq S \/ p \cap S = {}

Connected(V, E, u, v) ==
  \A S \in SUBSET V : ClosedUnder(S, E) /\ u \in S => v \in S

Component(V, E, u) == {v \in V : Connected(V, E, u, v)}

(***************************************************************************)
(* The pairs E by the labels l of their ends, without those that have      *)
(* become internal to a component.                                         *)
(***************************************************************************)
MergedPairs(E, l) == {q \in {{l[v] : v \in p} : p \in E} : \E a, b \in q : a # b}

(***************************************************************************)
(* Compaction: the subsequence of s at the indices K, in order.  Upto is   *)
(* the inclusive prefix sum of the marks of K, Nth its inverse.            *)
(***************************************************************************)
Upto(K, i) == Cardinality({j \in K : j <= i})

Nth(K, k) == CHOOSE i \in K : Upto(K, i) = k

Compact(s, K) == [k \in 1 .. Cardinality(K) |-> s[Nth(K, k)]]

(***************************************************************************)
(* The loop of main over the input file: self loops are dropped, the other *)
(* edges are normalized and pushed back in file order.                     *)
(***************************************************************************)
ReadEdges(file) ==
  LET kept == Compact(file, {k \in DOMAIN file : file[k].to # file[k].from})
  IN  [k \in DOMAIN kept |-> normalize(kept[k])]

(***************************************************************************)
(* The stretch of the file that GraphInputIterator::loadSlice keeps: an    *)
(* equal portion for every rank, and what is left over for the last one.   *)
(* Positions count from 0; slice_to is exclusive.                          *)
(***************************************************************************)
slice_from(lines, rank, group_size) == (lines \div group_size) * rank

slice_to(lines, rank, group_size) ==
  IF rank = group_size - 1 THEN lines ELSE (lines \div group_size) * (rank + 1)

(***************************************************************************)
(* The components of the pairs E over 0 .. n-1, numbered from 0 in the     *)
(* order of their smallest vertices.                                       *)
(***************************************************************************)
DenseMap(n, E) ==
  LET V == 0 .. n-1
      Smallest(v) == Min(Component(V, E, v))
  IN  [v \in V |-> Cardinality({Smallest(u) : u \in {w \in V : Smallest(w) < Smallest(v)}})]
=============================================================================
