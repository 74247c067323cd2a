------------------------------- MODULE Forest -------------------------------
(***************************************************************************)
(* Labels as a forest: every vertex of V points to its label, and a root   *)
(* to itself.  All programs hook roots to other vertices and then replace  *)
(* labels by the labels of labels.                                         *)
(***************************************************************************)

(* w is reached from v by following the labels l.                          *)
Reaches(V, l, v, w) ==
  \A S \in SUBSET V : v \in S /\ (\A x \in S : l[x] \in S) => w \in S

(* What find_roots returns (FindRoots shows it, ReturnsRoots): the root of *)
(* every vertex.                                                           *)
Roots(V, l) ==
  [v \in V |-> CHOOSE w \in V : l[w] = w /\ Reaches(V, l, v, w)]
=============================================================================
