---------------------------- MODULE DisjointSets ----------------------------
(***************************************************************************)
(* class DisjointSets of the serial and of the PPoPP program: a forest of  *)
(* parents with union by rank and full path compression, as boost's        *)
(* disjoint_sets has them.  The state is a record of two functions on the  *)
(* elements; the operators return the representative or the new state.     *)
(***************************************************************************)
EXTENDS Integers, FiniteSets, Forest

(* The constructor: every element is its own set.                          *)
Singletons(V) == [parents |-> [v \in V |-> v], ranks |-> [v \in V |-> 0]]

(* The elements on the way from v to the root of its tree.                 *)
Ancestors(parents, v) ==
  {w \in DOMAIN parents : Reaches(DOMAIN parents, parents, v, w)}

Representative(ds, v) ==
  CHOOSE w \in Ancestors(ds.parents, v) : ds.parents[w] = w

(* find_set hangs all of them under the root.                              *)
Compressed(ds, v) ==
  [ds EXCEPT !.parents =
     [w \in DOMAIN @ |-> IF w \in Ancestors(@, v) THEN Representative(ds, v) ELSE @[w]]]

(* The root of lower rank is hung under the other one.                     *)
Linked(ds, a, b) ==
  IF a = b THEN ds
  ELSE IF ds.ranks[a] > ds.ranks[b] THEN [ds EXCEPT !.parents[b] = a]
  ELSE [ds EXCEPT !.parents[a] = b,
                  !.ranks[b] = @ + (IF ds.ranks[a] = ds.ranks[b] THEN 1 ELSE 0)]

(* Definitions named Bug... are plausible slips in the definition that     *)
(* follows them; no specification uses them.  Here the two elements are    *)
(* linked as they come.                                                    *)
BugUnify(ds, a, b) == Linked(ds, a, b)

(***************************************************************************)
(* unify(a, b): boost's link finds (and compresses) both representatives   *)
(* itself, so a and b need not be representatives.                         *)
(***************************************************************************)
unify(ds, a, b) ==
  LET found == Compressed(Compressed(ds, a), b)
  IN  Linked(found, Representative(ds, a), Representative(ds, b))

-----------------------------------------------------------------------------
IsRoot(ds, v) == ds.parents[v] = v

SetOf(ds, v) ==
  {w \in DOMAIN ds.parents : Representative(ds, w) = Representative(ds, v)}

(* The elements of the tree at v.                                          *)
Descendants(ds, v) == {w \in DOMAIN ds.parents : v \in Ancestors(ds.parents, w)}

(* Ranks rise from an element to its parent, and a tree whose root has     *)
(* rank k has at least 2^k elements, so no path is longer than log2 of the *)
(* number of elements.                                                     *)
RanksBalance(ds) ==
  \A v \in DOMAIN ds.parents :
     IF IsRoot(ds, v) THEN Cardinality(Descendants(ds, v)) >= 2^(ds.ranks[v])
                      ELSE ds.ranks[v] < ds.ranks[ds.parents[v]]
=============================================================================
