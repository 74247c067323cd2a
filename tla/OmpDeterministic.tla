-------------------------- MODULE OmpDeterministic --------------------------
(***************************************************************************)
(* The deterministic OpenMP program: par_deterministic_cc and its main.    *)
(*                                                                         *)
(* In the hooking loop every edge stores its larger end at the label of    *)
(* its smaller end, without comparing and without synchronization: edges   *)
(* with the same smaller end race, and the last store stays.  The loop     *)
(* reads no label, so running the iterations one at a time in any order    *)
(* gives every outcome of every team and schedule.                         *)
(*                                                                         *)
(* find_roots is a call that returns what FindRoots shows it to return;    *)
(* find_rank_and_remove_edges runs loop by loop.                           *)
(***************************************************************************)
EXTENDS OmpFilter

CONSTANTS
  N,         \* number of vertices in the input file
  Inputs     \* the edge lists that an input file can hold

Node == 0 .. N-1

(* As for the MPI program: a file without an edge is not read to its end.  *)
ASSUME ConstantAssumption ==
  /\ N \in Nat \ {0}
  /\ Inputs \subseteq Seq(Edge(Node)) \ {<<>>}

VARIABLES
  input,       \* the edges in the input file (never changes)
  iteration    \* rounds begun

vars == <<input, iteration, pc, args, todo, locals>>

(* main reads the graph before anything is computed.                       *)
Init ==
  /\ input \in Inputs
  /\ edges = ReadEdges(input)
  /\ labels = [v \in Node |-> v]
  /\ iteration = 0
  /\ pc = "call"
  /\ todo = {}
  /\ NoLocals

(* par_deterministic_cc is called: base case, or fork the team.            *)
Call ==
  /\ pc = "call"
  /\ iteration' = iteration + 1
  /\ pc' = IF edges = <<>> THEN "returned" ELSE "hook"
  /\ todo' = DOMAIN edges
  /\ UNCHANGED <<input, args, locals>>

(* Definitions named Bug... are plausible slips in the definition that     *)
(* follows them; no specification uses them.  Here to is hooked to from.   *)
BugHook(k) ==
  /\ pc = "hook"
  /\ k \in todo
  /\ labels' = [labels EXCEPT ![edges[k].to] = edges[k].from]
  /\ todo' = todo \ {k}
  /\ UNCHANGED <<input, edges, iteration, pc, locals>>

Hook(k) ==
  /\ pc = "hook"
  /\ k \in todo
  /\ labels' = [labels EXCEPT ![edges[k].from] = edges[k].to]
  /\ todo' = todo \ {k}
  /\ UNCHANGED <<input, edges, iteration, pc, locals>>

(* The initial thread goes on to find_roots without waiting for the team.  *)
BugFindRoots ==
  /\ pc = "hook"
  /\ labels' = Roots(Node, labels)
  /\ pc' = "remove_edges"
  /\ UNCHANGED <<input, edges, iteration, todo, locals>>

(* The barrier of the loop, then find_roots.                               *)
FindRoots ==
  /\ pc = "hook"
  /\ todo = {}
  /\ labels' = Roots(Node, labels)
  /\ pc' = "remove_edges"
  /\ UNCHANGED <<input, edges, iteration, todo, locals>>

(* find_rank_and_remove_edges ...                                          *)
RemoveEdgesCall ==
  /\ pc = "remove_edges"
  /\ Enter
  /\ UNCHANGED <<input, iteration>>

RemoveEdgesRuns == Filter /\ UNCHANGED <<input, iteration>>

(* ... and the recursive call.                                             *)
Recurse ==
  /\ Leave
  /\ pc' = "call"
  /\ UNCHANGED <<input, iteration>>

Terminated == pc = "returned" /\ UNCHANGED vars

Next ==
  \/ Call
  \/ \E k \in todo : Hook(k)
  \/ FindRoots
  \/ RemoveEdgesCall \/ RemoveEdgesRuns \/ Recurse
  \/ Terminated

Spec == Init /\ [][Next]_vars

-----------------------------------------------------------------------------
TypeOK ==
  /\ input \in Inputs
  /\ edges \in Seq({e \in Edge(Node) : e.from < e.to})
  /\ labels \in [Node -> Node]
  /\ iteration \in Nat
  /\ pc \in {"call", "hook", "remove_edges", "mark", "single", "copy", "returned"}
  /\ todo \subseteq DOMAIN edges
  /\ edges_mark = <<>> \/ edges_mark \in [DOMAIN edges -> {0, 1}]
  /\ prefix_sum = <<>> \/ prefix_sum \in [DOMAIN edges -> 0 .. Len(edges)]
  /\ nextEdges \in Seq({Unwritten} \cup {e \in Edge(Node) : e.from < e.to})

E == Pairs(input)

(***************************************************************************)
(* Whatever store stays, labels point upwards when find_roots is called,   *)
(* as FindRoots assumes: the races build no cycle of labels, on which      *)
(* pointer jumping would not end.                                          *)
(***************************************************************************)
Acyclic == \A v \in Node : labels[v] >= v

(***************************************************************************)
(* The result does not depend on which store stays: every vertex is        *)
(* labelled by the largest vertex of its component.                        *)
(***************************************************************************)
Correct ==
  pc = "returned" => labels = [v \in Node |-> Max(Component(Node, E, v))]

(***************************************************************************)
(* A round hooks every vertex that begins an edge, whatever store stays,   *)
(* so there are no more rounds than vertices; the stack grows by one frame *)
(* and one edge list per round.                                            *)
(***************************************************************************)
RoundsBounded == iteration <= N

(***************************************************************************)
(* A round is one Contract step of Contraction, taken when find_roots      *)
(* returns.  Until then the hooks of the round do not count (before them   *)
(* every end of an edge was its own label), and from then on the edges     *)
(* that remain are those that the filter is about to return.               *)
(***************************************************************************)
Unhooked ==
  [v \in Node |-> IF \E k \in DOMAIN edges : v = edges[k].from THEN v ELSE labels[v]]

Settled == IF pc = "hook" THEN Unhooked ELSE labels

Remaining ==
  IF pc = "remove_edges" \/ Filtering THEN RemoveEdges(edges, labels) ELSE edges

C == INSTANCE Contraction WITH
       input <- Pairs(ReadEdges(input)),
       edges <- Pairs(Remaining),
       labels <- Settled,
       done <- pc = "returned"

(* The program implements Contraction, racing stores and all.              *)
Contracts == C!Spec
=============================================================================
