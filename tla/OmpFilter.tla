----------------------------- MODULE OmpFilter -----------------------------
(***************************************************************************)
(* find_rank_and_remove_edges of the OpenMP programs: a team of threads    *)
(* marks the edges that cross, sums the marks up, resizes the result and   *)
(* copies every marked edge to its place.  OmpDeterministic calls it; its  *)
(* result, as an operator, is RemoveEdges of OmpRound.                     *)
(*                                                                         *)
(* The iterations of a parallel loop run one at a time in any order.  This *)
(* covers every team and every schedule, since an iteration leaves nothing *)
(* behind in its thread and no two iterations touch the same element,      *)
(* which OwnSlots states for the only loop where it is not obvious.  The   *)
(* loops and the single construct end in a barrier.                        *)
(***************************************************************************)
EXTENDS OmpRound

VARIABLES
  pc,              \* where the initial thread, or its team, is
  edges, labels,   \* the arguments
  todo,            \* the iterations of the loop that have not run yet
  edges_mark,      \* 1 for the edges that cross, empty once it is freed
  prefix_sum,
  nextEdges        \* the result

args == <<edges, labels>>
locals == <<edges_mark, prefix_sum, nextEdges>>

Unwritten == [from |-> 0, to |-> 0]     \* a new element of nextEdges

(* Outside the function its vectors do not exist.                          *)
NoLocals == edges_mark = <<>> /\ prefix_sum = <<>> /\ nextEdges = <<>>

Enter ==
  /\ pc' = "mark"
  /\ todo' = DOMAIN edges
  /\ edges_mark' = [k \in DOMAIN edges |-> 0]
  /\ prefix_sum' = [k \in DOMAIN edges |-> 0]
  /\ UNCHANGED <<args, nextEdges>>

Crosses(k) == labels[edges[k].from] # labels[edges[k].to]

Mark(k) ==
  /\ pc = "mark"
  /\ k \in todo
  /\ todo' = todo \ {k}
  /\ edges_mark' = IF Crosses(k) THEN [edges_mark EXCEPT ![k] = 1] ELSE edges_mark
  /\ UNCHANGED <<args, pc, prefix_sum, nextEdges>>

(* The sum before the mark of the iteration is added: a scan that is       *)
(* exclusive.  Definitions named Bug... are plausible slips in the         *)
(* definition that follows them; no specification uses them.               *)
BugScan ==
  /\ pc = "mark"
  /\ todo = {}
  /\ pc' = "single"
  /\ prefix_sum' =
       [k \in DOMAIN edges |-> Cardinality({j \in 1 .. k-1 : edges_mark[j] = 1})]
  /\ UNCHANGED <<args, todo, edges_mark, nextEdges>>

(* The inclusive scan, an OpenMP construct or the sequential loop of older *)
(* compilers: both leave the sum of the marks up to and including k.       *)
Scan ==
  /\ pc = "mark"
  /\ todo = {}
  /\ pc' = "single"
  /\ prefix_sum' =
       [k \in DOMAIN edges |-> Cardinality({j \in 1 .. k : edges_mark[j] = 1})]
  /\ UNCHANGED <<args, todo, edges_mark, nextEdges>>

Single ==
  /\ pc = "single"
  /\ pc' = "copy"
  /\ edges_mark' = <<>>
  /\ nextEdges' = [k \in 1 .. prefix_sum[Len(edges)] |-> Unwritten]
  /\ todo' = DOMAIN edges
  /\ UNCHANGED <<args, prefix_sum>>

(* Every edge is copied: the test is left to the marks.                    *)
BugCopy(k) ==
  /\ pc = "copy"
  /\ k \in todo
  /\ todo' = todo \ {k}
  /\ nextEdges' = [nextEdges EXCEPT ![prefix_sum[k]] = Relabelled(edges[k], labels)]
  /\ UNCHANGED <<args, pc, edges_mark, prefix_sum>>

(* The mark of an edge is gone: the loop compares the labels again.        *)
Copy(k) ==
  /\ pc = "copy"
  /\ k \in todo
  /\ todo' = todo \ {k}
  /\ nextEdges' = IF Crosses(k)
                  THEN [nextEdges EXCEPT ![prefix_sum[k]] = Relabelled(edges[k], labels)]
                  ELSE nextEdges
  /\ UNCHANGED <<args, pc, edges_mark, prefix_sum>>

(* The result becomes the argument of the caller's recursive call.         *)
Leave ==
  /\ pc = "copy"
  /\ todo = {}
  /\ edges' = nextEdges
  /\ prefix_sum' = <<>>
  /\ nextEdges' = <<>>
  /\ UNCHANGED <<labels, todo, edges_mark>>

Filter ==
  \/ \E k \in todo : Mark(k) \/ Copy(k)
  \/ Scan
  \/ Single

Filtering == pc \in {"mark", "single", "copy"}

(***************************************************************************)
(* "Not a race condition because ...": no two edges that are copied have   *)
(* the same slot, and every slot exists, although the place was computed   *)
(* from the marks and the decision to copy is taken again from the labels. *)
(* So the result is the sequential filter of the edges, in the same order, *)
(* whatever the order of the iterations: no edge is lost, no slot keeps    *)
(* the zeros of resize.                                                    *)
(***************************************************************************)
OwnSlots ==
  \A j, k \in Crossing(edges, labels) :
     /\ prefix_sum[k] \in DOMAIN nextEdges
     /\ j # k => prefix_sum[j] # prefix_sum[k]

ReturnsCrossing ==
  pc = "copy" => /\ OwnSlots
                 /\ todo = {} => nextEdges = RemoveEdges(edges, labels)
=============================================================================
