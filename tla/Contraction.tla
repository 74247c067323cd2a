---------------------------- MODULE Contraction ----------------------------
(***************************************************************************)
(* What every parallel connected-components program of the repository      *)
(* promises, one step per round: starting from one label per vertex, a     *)
(* round merges labels that some remaining edge path connects, rewrites    *)
(* the remaining edges by the merged labels and drops those inside one     *)
(* component; the labels are the result once no edge remains.              *)
(*                                                                         *)
(* How the labels are merged (hooking to the maximum, last writer wins,    *)
(* a coin toss, sampling at the root) is left open: any merge along the    *)
(* remaining edges is allowed.  Edges are unordered pairs of vertices.     *)
(***************************************************************************)
EXTENDS Graph

CONSTANT Node     \* the vertices

VARIABLES
  input,    \* the pairs of the input graph (never changes)
  edges,    \* the pairs that remain, between labels
  labels,   \* the label of every vertex
  done      \* the labels have been returned

vars == <<input, edges, labels, done>>

TypeOK ==
  /\ input \subseteq SUBSET Node
  /\ edges \subseteq SUBSET Node
  /\ labels \in [Node -> Node]
  /\ done \in BOOLEAN

(* Any graph; nothing below needs an edge to have exactly two ends.        *)
Init ==
  /\ input \subseteq SUBSET Node
  /\ edges = input
  /\ labels = [v \in Node |-> v]
  /\ done = FALSE

-----------------------------------------------------------------------------
(***************************************************************************)
(* l merges labels, only along remaining edges, and names every component  *)
(* by one of its own members.                                              *)
(***************************************************************************)
Merges(l) ==
  /\ \A u, v \in Node : labels[u] = labels[v] => l[u] = l[v]
  /\ \A v \in Node : Connected(Node, edges, labels[v], l[v])
  /\ \A v \in Node : l[l[v]] = l[v]

Contract ==
  /\ ~ done
  /\ edges # {}
  /\ labels' \in [Node -> Node]
  /\ Merges(labels')
  /\ edges' = MergedPairs(edges, labels')
  /\ UNCHANGED <<input, done>>

Return ==
  /\ ~ done
  /\ edges = {}
  /\ done' = TRUE
  /\ UNCHANGED <<input, edges, labels>>

Terminated == done /\ UNCHANGED vars

Next == Contract \/ Return \/ Terminated

Spec == Init /\ [][Next]_vars

-----------------------------------------------------------------------------
(***************************************************************************)
(* The returned labels are the connected components of the input: two      *)
(* vertices carry the same label exactly when the input connects them.     *)
(***************************************************************************)
Correct ==
  done => \A u, v \in Node :
             labels[u] = labels[v] <=> Connected(Node, input, u, v)

(***************************************************************************)
(* At the start of every round no merge has gone too far (a vertex and its *)
(* label are connected by the input) and no input edge has been forgotten  *)
(* (its endpoints have one label, or an edge between their labels          *)
(* remains).  The second half is what a lost or misplaced edge breaks.     *)
(***************************************************************************)
NeverTooFar == \A v \in Node : Connected(Node, input, v, labels[v])

NothingForgotten ==
  \A p \in input : \/ \A a, b \in p : labels[a] = labels[b]
                   \/ {labels[v] : v \in p} \in edges

EdgesSound == \A p \in edges : \A a, b \in p : Connected(Node, input, a, b)

Idempotent == \A v \in Node : labels[labels[v]] = labels[v]

(***************************************************************************)
(* The inductive invariant.                                                *)
(***************************************************************************)
IInv ==
  /\ TypeOK
  /\ NeverTooFar
  /\ NothingForgotten
  /\ EdgesSound
  /\ Idempotent
  /\ done => edges = {}
=============================================================================
