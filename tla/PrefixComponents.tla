-------------------------- MODULE PrefixComponents --------------------------
(***************************************************************************)
(* SparseSampling::prefixConnectedComponents, called by SparseSampling's   *)
(* rank 0: the vertices are united along the sampled edges until one       *)
(* component is reached or the edges are used up, and the components are   *)
(* numbered from 0 on.  The edges come shuffled, so any of them is next; a *)
(* repeated edge changes nothing, so they are a set.                       *)
(*                                                                         *)
(* The caller's vertices are at least one: the early return for none is    *)
(* not reached, nor is the constructor's exception on an empty vector.     *)
(***************************************************************************)
EXTENDS Graph, DisjointSets

VARIABLES
  to_unite,             \* the edges not looked at yet
  dsets,
  components_active,
  component_labels,     \* of the sets that have one
  next_label,
  relabelled            \* vertex_map, as far as it has been written

prefixVars ==
  <<to_unite, dsets, components_active, component_labels, next_label, relabelled>>

Empty == [v \in {} |-> v]

(* Outside the function its variables do not exist.                        *)
NoFrame ==
  /\ to_unite = {}
  /\ dsets = Singletons({})
  /\ components_active = 0
  /\ component_labels = Empty
  /\ next_label = 0
  /\ relabelled = Empty

(* The function is called with n vertices and the edges S.                 *)
Enter(n, S) ==
  /\ to_unite' = S
  /\ dsets' = Singletons(0 .. n-1)
  /\ components_active' = n
  /\ UNCHANGED <<component_labels, next_label, relabelled>>

Leave ==
  /\ to_unite' = {}
  /\ dsets' = Singletons({})
  /\ components_active' = 0
  /\ component_labels' = Empty
  /\ next_label' = 0
  /\ relabelled' = Empty

(* components_count, the target size of the program.                       *)
ComponentsCount == 1

(* Every edge counts as a merge.  Definitions named Bug... are plausible   *)
(* slips in the definition that follows them; no specification uses them.  *)
BugUnite(e) ==
  /\ components_active > ComponentsCount
  /\ to_unite' = to_unite \ {e}
  /\ dsets' = unify(dsets, e.from, e.to)
  /\ components_active' = components_active - 1
  /\ UNCHANGED <<component_labels, next_label, relabelled>>

(* find at both ends, and unify when they are in different sets.  (found   *)
(* is bound by a quantifier so that TLC evaluates it once.)                *)
Unite(e) ==
  LET v1_set == Representative(dsets, e.from)
      v2_set == Representative(dsets, e.to)
  IN  /\ components_active > ComponentsCount
      /\ to_unite' = to_unite \ {e}
      /\ \E found \in {Compressed(Compressed(dsets, e.from), e.to)} :
            IF v1_set # v2_set
            THEN /\ dsets' = unify(found, v1_set, v2_set)
                 /\ components_active' = components_active - 1
            ELSE /\ dsets' = found
                 /\ UNCHANGED components_active
      /\ UNCHANGED <<component_labels, next_label, relabelled>>

United == to_unite = {} \/ components_active <= ComponentsCount

(* A set is labelled by its first vertex.                                  *)
BugRelabel ==
  LET j == Cardinality(DOMAIN relabelled)
      set == Representative(dsets, j)
      label == IF set \in DOMAIN component_labels THEN component_labels[set] ELSE j
  IN  /\ j \in DOMAIN dsets.parents
      /\ component_labels' = [s \in DOMAIN component_labels \cup {set} |->
                                IF s = set THEN label ELSE component_labels[s]]
      /\ relabelled' = [v \in 0 .. j |-> IF v = j THEN label ELSE relabelled[v]]
      /\ dsets' = Compressed(dsets, j)
      /\ UNCHANGED <<to_unite, components_active, next_label>>

(* Vertices in turn: the set of j gets the next label, unless it has one.  *)
Relabel ==
  LET j == Cardinality(DOMAIN relabelled)
      set == Representative(dsets, j)
      fresh == set \notin DOMAIN component_labels
      label == IF fresh THEN next_label ELSE component_labels[set]
  IN  /\ j \in DOMAIN dsets.parents
      /\ component_labels' = [s \in DOMAIN component_labels \cup {set} |->
                                IF s = set THEN label ELSE component_labels[s]]
      /\ next_label' = next_label + (IF fresh THEN 1 ELSE 0)
      /\ relabelled' = [v \in 0 .. j |-> IF v = j THEN label ELSE relabelled[v]]
      /\ dsets' = Compressed(dsets, j)
      /\ UNCHANGED <<to_unite, components_active>>

Mapped == DOMAIN relabelled = DOMAIN dsets.parents
=============================================================================
