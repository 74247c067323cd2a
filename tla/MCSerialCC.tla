----------------------------- MODULE MCSerialCC -----------------------------
EXTENDS SerialCC

CONSTANTS
  MaxEdges,   \* length of a file for main
  MaxLines    \* length of a file for loadSlice

(* For main: files that hold edges either way round and a self loop, and   *)
(* longer ones of normalized edges.  For loadSlice the edges are told      *)
(* apart by their first vertex.                                            *)
MCEdge == {e \in Edge(Node) : e.from # e.to} \cup {[from |-> 1, to |-> 1]}

MCFiles ==
  [main |-> UNION {[1 .. n -> MCEdge] : n \in 0 .. MaxEdges - 1}
              \cup [1 .. MaxEdges -> {e \in MCEdge : e.from <= e.to}],
   loadSlice |-> {[k \in 1 .. n |-> [from |-> k, to |-> 0]] : n \in 0 .. MaxLines}]

MCGroupSizes == 1 .. 4
=============================================================================
