------------------------------ MODULE SerialCC ------------------------------
(***************************************************************************)
(* The serial program: the main loop over the input file, one pass of      *)
(* unify over the edges it kept, then one pass of find over the vertices   *)
(* that counts the components.  The other user of the input, loadSlice,    *)
(* takes the steps of GraphInput.                                          *)
(***************************************************************************)
EXTENDS GraphInput, DisjointSets

CONSTANT N   \* number of vertices in the input file

Node == 0 .. N-1

(* main asserts that the ends of an edge are vertices.                     *)
ASSUME ConstantAssumption ==
  /\ N \in Nat \ {0}
  /\ Files["main"] \subseteq Seq(Edge(Node))

VARIABLES
  unified,       \* edges that the loop has unified
  disjoint_set,
  i,             \* index of the counting loop
  components     \* representative -> number of its vertices counted

vars == <<inputVars, unified, disjoint_set, i, components>>

edges == slices[0]

Init ==
  /\ InputInit
  /\ unified = 0
  /\ disjoint_set = Singletons(Node)
  /\ i = 0
  /\ components = [v \in {} |-> 0]

Load == InputNext /\ UNCHANGED <<unified, disjoint_set, i, components>>

(* Self loops are dropped; unlike the parallel programs this one does not  *)
(* turn an edge round.                                                     *)
MainLoop ==
  /\ at = "loop"
  /\ user = "main"
  /\ IF edge_.to # edge_.from THEN PushBack ELSE UNCHANGED slices
  /\ Increment
  /\ UNCHANGED <<parameters, rank, unified, disjoint_set, i, components>>

(* The sets are made, and the loop over the edges begins ...               *)
StartUnifying ==
  /\ at = "loaded"
  /\ user = "main"
  /\ at' = "unify"
  /\ UNCHANGED <<parameters, rank, iterator, slices, unified, disjoint_set, i, components>>

Unify ==
  /\ at = "unify"
  /\ unified < Len(edges)
  /\ unified' = unified + 1
  /\ disjoint_set' = unify(disjoint_set, edges[unified'].from, edges[unified'].to)
  /\ UNCHANGED <<inputVars, i, components>>

(* ... and ends.                                                           *)
StartCounting ==
  /\ at = "unify"
  /\ unified = Len(edges)
  /\ at' = "count"
  /\ UNCHANGED <<parameters, rank, iterator, slices, unified, disjoint_set, i, components>>

CountedFor(rep) ==
  components' = [v \in DOMAIN components \cup {rep} |->
                   (IF v \in DOMAIN components THEN components[v] ELSE 0)
                      + (IF v = rep THEN 1 ELSE 0)]

(* Definitions named Bug... are plausible slips in the definition that     *)
(* follows them; no specification uses them.  Here the parent is taken for *)
(* the representative.                                                     *)
BugCount ==
  /\ at = "count"
  /\ i < N
  /\ CountedFor(disjoint_set.parents[i])
  /\ i' = i + 1
  /\ UNCHANGED <<inputVars, unified, disjoint_set>>

(* find compresses the path while the loop counts.                         *)
Count ==
  /\ at = "count"
  /\ i < N
  /\ CountedFor(Representative(disjoint_set, i))
  /\ disjoint_set' = Compressed(disjoint_set, i)
  /\ i' = i + 1
  /\ UNCHANGED <<inputVars, unified>>

PrintCount ==
  /\ at = "count"
  /\ i = N
  /\ at' = "printed"
  /\ UNCHANGED <<parameters, rank, iterator, slices, unified, disjoint_set, i, components>>

Terminated == (at \in {"thrown", "printed"} \/ rank = group_size) /\ UNCHANGED vars

Next ==
  \/ Load
  \/ MainLoop
  \/ StartUnifying \/ Unify \/ StartCounting \/ Count \/ PrintCount
  \/ Terminated

Spec == Init /\ [][Next]_vars

-----------------------------------------------------------------------------
(***************************************************************************)
(* Although unify is called with elements that need not represent their    *)
(* sets, the trees stay balanced and are at all times the components of    *)
(* the edges unified so far.                                               *)
(***************************************************************************)
Balanced == RanksBalance(disjoint_set)

SetsAreComponents ==
  \A v \in Node :
     SetOf(disjoint_set, v) = Component(Node, Pairs(SubSeq(edges, 1, unified)), v)

(***************************************************************************)
(* The number of components that is printed is that of the graph in the    *)
(* file, as far as the file declares its edges, and they have been counted *)
(* with their sizes: dropping self loops loses no vertex, path compression *)
(* during the count changes no representative.  (Of a file that declares   *)
(* no edge but holds one, begin() has read that one, and it counts.)       *)
(***************************************************************************)
Declared == Pairs(SubSeq(file, 1, Max({lines_, 1})))

CountsComponents ==
  at = "printed" =>
     /\ Cardinality(DOMAIN components)
          = Cardinality({Component(Node, Declared, v) : v \in Node})
     /\ \A v \in DOMAIN components :
           components[v] = Cardinality(Component(Node, Declared, v))
=============================================================================
