------------------------------ MODULE MCMpiCC ------------------------------
EXTENDS MpiCC

CONSTANT MaxEdges   \* length of the edge list

(* The order of the two ends in the file and self loops are gone after     *)
(* ReadGraph: one of each is enough.                                       *)
MCEdge == {e \in Edge(Node) : e.from < e.to}
            \cup {[from |-> 0, to |-> 0], [from |-> 1, to |-> 0]}

MCInputs == UNION {[1 .. n -> MCEdge] : n \in 1 .. MaxEdges}
=============================================================================
