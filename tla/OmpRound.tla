------------------------------ MODULE OmpRound ------------------------------
(***************************************************************************)
(* What the two helpers that both OpenMP programs call in every round      *)
(* return: find_roots the Roots of Forest, and find_rank_and_remove_edges  *)
(* what follows.  FindRoots and OmpFilter model the helpers themselves and *)
(* show that they return this (ReturnsRoots, ReturnsCrossing).             *)
(***************************************************************************)
EXTENDS Graph, Forest

(* find_rank_and_remove_edges: the edges between different labels, with    *)
(* the labels for ends, in their old order and normalized.                 *)
Crossing(s, l) == {k \in DOMAIN s : l[s[k].from] # l[s[k].to]}

(* Definitions named Bug... are plausible slips in the definition that     *)
(* follows them; no specification uses them.                               *)
BugRelabelled(e, l) == [from |-> l[e.from], to |-> l[e.to]]

Relabelled(e, l) ==
  IF l[e.from] < l[e.to] THEN [from |-> l[e.from], to |-> l[e.to]]
                         ELSE [from |-> l[e.to], to |-> l[e.from]]

RemoveEdges(s, l) ==
  LET kept == Compact(s, Crossing(s, l))
  IN  [k \in DOMAIN kept |-> Relabelled(kept[k], l)]
=============================================================================
