------------------------------- MODULE MpiCC -------------------------------
(***************************************************************************)
(* The MPI program of the 2018 course assignment (CSE613-MPI): rank 0      *)
(* reads the graph and drives rounds of master(), the other ranks follow   *)
(* in slave().  master and slave are separate functions that must issue    *)
(* the same collective calls in the same order.                            *)
(*                                                                         *)
(* The computation between two calls is part of the call's action.         *)
(***************************************************************************)
EXTENDS Graph, Forest, Collectives

CONSTANTS
  N,        \* number of vertices in the input file
  Inputs,   \* the edge lists that an input file can hold
  IntMax    \* the largest int

Node == 0 .. N-1

(***************************************************************************)
(* main asserts that the ends of every edge are vertices.  A file without  *)
(* an edge makes GraphInputIterator::begin() throw before any MPI call, so *)
(* it is not an input of this module; a file of self loops only is.  The   *)
(* rank that MPI_Comm_rank stores is an int.                               *)
(***************************************************************************)
ASSUME ConstantAssumption ==
  /\ N \in Nat \ {0}
  /\ Inputs \subseteq Seq(Edge(Node)) \ {<<>>}
  /\ IntMax \in Nat
  /\ Rank \subseteq 0 .. IntMax

VARIABLES
  input,                 \* the edges in the input file (never changes)
  edges,                 \* rank 0: the edges of the round
  iteration,             \* rank 0: rounds begun
  node, found,           \* rank 0: loop index and flag of find_roots
  next_edges_per_proc,   \* rank 0: the gathered counts
  nEdges, nEdges_local,  \* slaves: the counts received in this round
  edges_slice,           \* every rank: its edges of the round
  labels,                \* every rank: its copy of the labels
  nextEdges_local        \* every rank: what is left of its edges

masterVars == <<edges, iteration, node, found, next_edges_per_proc>>
slaveVars == <<nEdges, nEdges_local>>
rankVars == <<edges_slice, labels, nextEdges_local>>
vars == <<input, pc, masterVars, slaveVars, rankVars, channels>>

-----------------------------------------------------------------------------
(* Definitions named Bug... are plausible slips in the definition that     *)
(* follows them.  No specification uses them: they show that a property    *)
(* would notice.                                                           *)
BugEqualShares(n) == [r \in Rank |-> n \div P]

(* calculate_edges_per_processor: the first n % group_size ranks get one   *)
(* edge more than the others.                                              *)
calculate_edges_per_processor(n) ==
  [r \in Rank |-> n \div P + (IF r < n % P THEN 1 ELSE 0)]

calculate_displacements(counts) == [r \in Rank |-> Below(counts, r)]

(* The displacements are forgotten.                                        *)
BugSliceFromStart(s, counts, r) == [k \in 1 .. counts[r] |-> s[k]]

(* MPI_Scatterv: rank r gets counts[r] edges from displs[r] on.            *)
Slice(s, counts, r) ==
  LET displs == calculate_displacements(counts)
  IN  [k \in 1 .. counts[r] |-> s[displs[r] + k]]

(* MPI_Gatherv: edge i of the result comes from the rank whose stretch of  *)
(* the result i falls into.                                                *)
Gathered(slices, counts) ==
  LET displs == calculate_displacements(counts)
      Owner(i) == CHOOSE r \in Rank : displs[r] < i /\ i <= displs[r] + counts[r]
  IN  [i \in 1 .. Below(counts, P) |-> slices[Owner(i)][i - displs[Owner(i)]]]

(* hook_nodes: labels[from] is raised to the largest to among its edges.   *)
hook_nodes(s, l) ==
  [v \in Node |-> Max({l[v]} \cup {s[k].to : k \in {j \in DOMAIN s : s[j].from = v}})]

(* MPI_Reduce with MPI_MAX: the element-wise maximum over the ranks.       *)
Reduced(contribution) ==
  [v \in Node |-> Max({contribution[r][v] : r \in Rank})]

(* The edges are not turned round.                                         *)
BugNextEdgeAsIs(e, l) == [from |-> l[e.from], to |-> l[e.to]]

(***************************************************************************)
(* compute_next_edges.  An edge is oriented by its old ends, not by its    *)
(* labels: from > to may come out, and is turned round in the next round.  *)
(***************************************************************************)
NextEdge(e, l) ==
  IF e.from < e.to THEN [from |-> l[e.from], to |-> l[e.to]]
                   ELSE [from |-> l[e.to], to |-> l[e.from]]

(* The edges inside a component are kept.                                  *)
BugKeepAllEdges(s, l) == [k \in DOMAIN s |-> NextEdge(s[k], l)]

compute_next_edges(s, l) ==
  LET kept == Compact(s, {k \in DOMAIN s : l[s[k].from] # l[s[k].to]})
  IN  [k \in DOMAIN kept |-> NextEdge(kept[k], l)]

-----------------------------------------------------------------------------
NoLabels == [v \in {} |-> v]     \* the vector does not exist yet

Init ==
  /\ input \in Inputs
  /\ pc = [r \in Rank |-> IF r = 0 THEN "read" ELSE "nNodes"]
  /\ edges = <<>>
  /\ iteration = 0
  /\ node = 0
  /\ found = FALSE
  /\ next_edges_per_proc = [r \in Rank |-> 0]
  /\ nEdges = [r \in Slave |-> 0]
  /\ nEdges_local = [r \in Slave |-> 0]
  /\ edges_slice = [r \in Rank |-> <<>>]
  /\ labels = [r \in Rank |-> NoLabels]
  /\ nextEdges_local = [r \in Rank |-> <<>>]
  /\ down = [r \in Slave |-> <<>>]
  /\ up = [r \in Slave |-> <<>>]

-----------------------------------------------------------------------------
(* main of rank 0, up to the first MPI call.                               *)
ReadGraph ==
  /\ pc[0] = "read"
  /\ Goto(0, "nNodes")
  /\ edges' = ReadEdges(input)
  /\ labels' = [labels EXCEPT ![0] = [v \in Node |-> v]]
  /\ UNCHANGED <<input, iteration, node, found, next_edges_per_proc, slaveVars,
                 edges_slice, nextEdges_local, channels>>

MasterNNodes ==
  /\ pc[0] = "nNodes"
  /\ Goto(0, "nEdges")
  /\ BcastDown(N)
  /\ UNCHANGED <<input, masterVars, slaveVars, rankVars, up>>

MasterNEdges ==
  /\ pc[0] = "nEdges"
  /\ Goto(0, "nEdges_local")
  /\ BcastDown(Len(edges))
  /\ iteration' = iteration + 1
  /\ UNCHANGED <<input, edges, node, found, next_edges_per_proc, slaveVars, rankVars, up>>

(* MPI_Scatter, then the base case: master returns through all its calls.  *)
MasterScatter ==
  /\ pc[0] = "nEdges_local"
  /\ Goto(0, IF Len(edges) = 0 THEN "barrier" ELSE "edges_slice")
  /\ SendDown(calculate_edges_per_processor(Len(edges)))
  /\ UNCHANGED <<input, masterVars, slaveVars, rankVars, up>>

MasterScatterv ==
  LET counts == calculate_edges_per_processor(Len(edges))
  IN  /\ pc[0] = "edges_slice"
      /\ Goto(0, "labels")
      /\ SendDown([r \in Rank |-> Slice(edges, counts, r)])
      /\ edges_slice' = [edges_slice EXCEPT ![0] = Slice(edges, counts, 0)]
      /\ UNCHANGED <<input, masterVars, slaveVars, labels, nextEdges_local, up>>

(* The slaves get the labels from before rank 0 hooks its own slice.       *)
MasterHook ==
  /\ pc[0] = "labels"
  /\ Goto(0, "hooks")
  /\ BcastDown(labels[0])
  /\ labels' = [labels EXCEPT ![0] = hook_nodes(edges_slice[0], labels[0])]
  /\ UNCHANGED <<input, masterVars, slaveVars, edges_slice, nextEdges_local, up>>

(* MPI_Reduce in place, then find_roots starts its first pass.             *)
MasterReduce ==
  /\ pc[0] = "hooks"
  /\ Goto(0, "find_roots")
  /\ TakeUp
  /\ labels' = [labels EXCEPT ![0] = Reduced(Contributions(labels[0]))]
  /\ node' = 0
  /\ found' = FALSE
  /\ UNCHANGED <<input, edges, iteration, next_edges_per_proc, slaveVars,
                 edges_slice, nextEdges_local, down>>

(* The test is inverted.                                                   *)
BugFindRootsStep ==
  LET l == labels[0]
      jumped == [l EXCEPT ![node] = l[l[node]]]
  IN  /\ pc[0] = "find_roots"
      /\ node < N
      /\ labels' = [labels EXCEPT ![0] = jumped]
      /\ found' = (found \/ jumped[node] = jumped[jumped[node]])
      /\ node' = node + 1
      /\ UNCHANGED <<input, pc, edges, iteration, next_edges_per_proc, slaveVars,
                     edges_slice, nextEdges_local, channels>>

FindRootsStep ==
  LET l == labels[0]
      jumped == [l EXCEPT ![node] = l[l[node]]]
  IN  /\ pc[0] = "find_roots"
      /\ node < N
      /\ labels' = [labels EXCEPT ![0] = jumped]
      /\ found' = (found \/ jumped[node] # jumped[jumped[node]])
      /\ node' = node + 1
      /\ UNCHANGED <<input, pc, edges, iteration, next_edges_per_proc, slaveVars,
                     edges_slice, nextEdges_local, channels>>

FindRootsAgain ==
  /\ pc[0] = "find_roots"
  /\ node = N
  /\ found
  /\ node' = 0
  /\ found' = FALSE
  /\ UNCHANGED <<input, pc, edges, iteration, next_edges_per_proc, slaveVars,
                 rankVars, channels>>

(* One pass only.                                                          *)
BugFindRootsReturn ==
  /\ pc[0] = "find_roots"
  /\ node = N
  /\ Goto(0, "roots")
  /\ UNCHANGED <<input, masterVars, slaveVars, rankVars, channels>>

FindRootsReturn ==
  /\ pc[0] = "find_roots"
  /\ node = N
  /\ ~ found
  /\ Goto(0, "roots")
  /\ UNCHANGED <<input, masterVars, slaveVars, rankVars, channels>>

MasterRelabel ==
  /\ pc[0] = "roots"
  /\ Goto(0, "next_nEdges_local")
  /\ BcastDown(labels[0])
  /\ nextEdges_local' =
        [nextEdges_local EXCEPT ![0] = compute_next_edges(edges_slice[0], labels[0])]
  /\ UNCHANGED <<input, masterVars, slaveVars, edges_slice, labels, up>>

MasterGather ==
  /\ pc[0] = "next_nEdges_local"
  /\ Goto(0, "nextEdges")
  /\ TakeUp
  /\ next_edges_per_proc' = Contributions(Len(nextEdges_local[0]))
  /\ UNCHANGED <<input, edges, iteration, node, found, slaveVars, rankVars, down>>

(* MPI_Gatherv, then the recursive call of master.                         *)
MasterGatherv ==
  /\ pc[0] = "nextEdges"
  /\ Goto(0, "nEdges")
  /\ TakeUp
  /\ edges' = Gathered(Contributions(nextEdges_local[0]), next_edges_per_proc)
  /\ UNCHANGED <<input, iteration, node, found, next_edges_per_proc, slaveVars,
                 rankVars, down>>

-----------------------------------------------------------------------------
SlaveNNodes(r) ==
  /\ pc[r] = "nNodes"
  /\ Goto(r, "nEdges")
  /\ TakeDown(r)
  /\ UNCHANGED <<input, masterVars, slaveVars, rankVars, up>>

SlaveNEdges(r) ==
  /\ pc[r] = "nEdges"
  /\ Goto(r, "nEdges_local")
  /\ TakeDown(r)
  /\ nEdges' = [nEdges EXCEPT ![r] = Head(down[r]).data]
  /\ UNCHANGED <<input, masterVars, nEdges_local, rankVars, up>>

(* The base case looks at the local count.                                 *)
BugSlaveScatter(r) ==
  /\ pc[r] = "nEdges_local"
  /\ TakeDown(r)
  /\ Goto(r, IF Head(down[r]).data = 0 THEN "barrier" ELSE "edges_slice")
  /\ nEdges_local' = [nEdges_local EXCEPT ![r] = Head(down[r]).data]
  /\ UNCHANGED <<input, masterVars, nEdges, rankVars, up>>

(* The base case looks at the number of edges of all ranks.                *)
SlaveScatter(r) ==
  /\ pc[r] = "nEdges_local"
  /\ Goto(r, IF nEdges[r] = 0 THEN "barrier" ELSE "edges_slice")
  /\ TakeDown(r)
  /\ nEdges_local' = [nEdges_local EXCEPT ![r] = Head(down[r]).data]
  /\ UNCHANGED <<input, masterVars, nEdges, rankVars, up>>

SlaveScatterv(r) ==
  /\ pc[r] = "edges_slice"
  /\ Goto(r, "labels")
  /\ TakeDown(r)
  /\ edges_slice' = [edges_slice EXCEPT ![r] = Head(down[r]).data]
  /\ UNCHANGED <<input, masterVars, slaveVars, labels, nextEdges_local, up>>

SlaveHook(r) ==
  /\ pc[r] = "labels"
  /\ Goto(r, "hooks")
  /\ TakeDown(r)
  /\ labels' = [labels EXCEPT ![r] = hook_nodes(edges_slice[r], Head(down[r]).data)]
  /\ UNCHANGED <<input, masterVars, slaveVars, edges_slice, nextEdges_local, up>>

SlaveReduce(r) ==
  /\ pc[r] = "hooks"
  /\ Goto(r, "roots")
  /\ SendUp(r, labels[r])
  /\ UNCHANGED <<input, masterVars, slaveVars, rankVars, down>>

SlaveRelabel(r) ==
  /\ pc[r] = "roots"
  /\ Goto(r, "next_nEdges_local")
  /\ TakeDown(r)
  /\ labels' = [labels EXCEPT ![r] = Head(down[r]).data]
  /\ nextEdges_local' =
        [nextEdges_local EXCEPT ![r] =
           compute_next_edges(edges_slice[r], Head(down[r]).data)]
  /\ UNCHANGED <<input, masterVars, slaveVars, edges_slice, up>>

SlaveGather(r) ==
  /\ pc[r] = "next_nEdges_local"
  /\ Goto(r, "nextEdges")
  /\ SendUp(r, Len(nextEdges_local[r]))
  /\ UNCHANGED <<input, masterVars, slaveVars, rankVars, down>>

(* MPI_Gatherv, then the recursive call of slave.                          *)
SlaveGatherv(r) ==
  /\ pc[r] = "nextEdges"
  /\ Goto(r, "nEdges")
  /\ SendUp(r, nextEdges_local[r])
  /\ UNCHANGED <<input, masterVars, slaveVars, rankVars, down>>

(* MPI_Barrier: no rank leaves before every rank has come.                 *)
Finalize(r) ==
  /\ pc[r] = "barrier"
  /\ \A s \in Rank : pc[s] \in {"barrier", "done"}
  /\ Goto(r, "done")
  /\ UNCHANGED <<input, masterVars, slaveVars, rankVars, channels>>

Terminated == (\A r \in Rank : pc[r] = "done") /\ UNCHANGED vars

MasterStep ==
  \/ ReadGraph \/ MasterNNodes \/ MasterNEdges \/ MasterScatter
  \/ MasterScatterv \/ MasterHook \/ MasterReduce
  \/ FindRootsStep \/ FindRootsAgain \/ FindRootsReturn
  \/ MasterRelabel \/ MasterGather \/ MasterGatherv

SlaveStep(r) ==
  \/ SlaveNNodes(r) \/ SlaveNEdges(r) \/ SlaveScatter(r) \/ SlaveScatterv(r)
  \/ SlaveHook(r) \/ SlaveReduce(r) \/ SlaveRelabel(r)
  \/ SlaveGather(r) \/ SlaveGatherv(r)

Next ==
  \/ MasterStep
  \/ \E r \in Slave : SlaveStep(r)
  \/ \E r \in Rank : Finalize(r)
  \/ Terminated

(* Every process keeps running, and MPI delivers what is sent.             *)
Fairness ==
  /\ WF_vars(MasterStep)
  /\ \A r \in Slave : WF_vars(SlaveStep(r))
  /\ \A r \in Rank : WF_vars(Finalize(r))

Spec == Init /\ [][Next]_vars /\ Fairness

-----------------------------------------------------------------------------
(***************************************************************************)
(* master and slave agree on every collective call: the oldest message in  *)
(* a channel is always for the next call its receiver makes, carries as    *)
(* much as the receiver has been told to expect, and none is left when the *)
(* ranks finalize.                                                         *)
(***************************************************************************)
CollectivesMatch ==
  \A r \in Slave :
     /\ down[r] # <<>> /\ pc[r] \notin {"hooks", "next_nEdges_local", "nextEdges"} =>
           /\ Head(down[r]).op = pc[r]
           /\ pc[r] = "edges_slice" => Len(Head(down[r]).data) = nEdges_local[r]
     /\ up[r] # <<>> /\ pc[0] \in {"hooks", "next_nEdges_local", "nextEdges"} =>
           /\ Head(up[r]).op = pc[0]
           /\ pc[0] = "nextEdges" => Len(Head(up[r]).data) = next_edges_per_proc[r]
     /\ pc[0] = "done" => down[r] = <<>> /\ up[r] = <<>>

(* The graph that was read.                                                *)
E == Pairs(input)

(***************************************************************************)
(* The result: every vertex is labelled by the largest vertex of its       *)
(* component, so the number of distinct labels that main prints is the     *)
(* number of connected components.                                         *)
(***************************************************************************)
Correct ==
  pc[0] \in {"barrier", "done"} =>
    labels[0] = [v \in Node |-> Max(Component(Node, E, v))]

(***************************************************************************)
(* Every second round merges two components: although an edge may come out *)
(* of compute_next_edges pointing down and hook nothing, no more than two  *)
(* rounds are spent per merge, and the recursion depth of master is        *)
(* bounded by it.                                                          *)
(***************************************************************************)
RoundsBounded == iteration <= IF N = 1 THEN 1 ELSE 2 * (N - 1)

(***************************************************************************)
(* Counts and displacements are ints while the file may hold any uint32_t  *)
(* number of edges.  One edge more than an int can count is still served:  *)
(* no slice of several ranks begins or counts that far, and the first      *)
(* round drops an edge, so the ints that are summed for the gather never   *)
(* come to it.  (Twice that many edges would overflow.)                    *)
(***************************************************************************)
IntsSuffice ==
  Len(ReadEdges(input)) <= IntMax + 1 /\ P > 1 =>
     LET counts == calculate_edges_per_processor(Len(edges))
     IN  /\ \A r \in Rank : counts[r] <= IntMax /\ calculate_displacements(counts)[r] <= IntMax
         /\ Below(next_edges_per_proc, P) <= IntMax

(* What the labels were before rank 0 hooked its slice (at "hooks"): they  *)
(* were flat, and an edge starts at a root.                                *)
Unhooked ==
  [v \in Node |-> IF \E k \in DOMAIN edges_slice[0] : edges_slice[0][k].from = v
                  THEN v
                  ELSE labels[0][v]]

(***************************************************************************)
(* The ranks together compute what one process would: the reduction gives  *)
(* the labels of hooking along all edges, and the gathered edges are the   *)
(* next edges of all edges, in the same order.  No edge is lost or done    *)
(* twice, whatever the number of ranks and edges.                          *)
(***************************************************************************)
AsIfSequential ==
  [][ /\ pc[0] = "hooks" /\ pc'[0] = "find_roots" =>
            labels'[0] = hook_nodes(edges, Unhooked)
      /\ pc[0] = "nextEdges" /\ pc'[0] = "nEdges" =>
            edges' = compute_next_edges(edges, labels[0]) ]_vars

(***************************************************************************)
(* A round is one Contract step of Contraction.  The labels are merged at  *)
(* the reduction: from then on every vertex is bound for the root of its   *)
(* tree, and the remaining edges for what those roots make of them.        *)
(***************************************************************************)
MergedLabels ==
  CASE pc[0] = "read" -> [v \in Node |-> v]
    [] pc[0] = "hooks" -> Unhooked
    [] pc[0] = "find_roots" -> Roots(Node, labels[0])
    [] OTHER -> labels[0]

RemainingEdges ==
  CASE pc[0] = "read" -> ReadEdges(input)
    [] pc[0] \in {"find_roots", "roots", "next_nEdges_local", "nextEdges"} ->
         compute_next_edges(edges, MergedLabels)
    [] OTHER -> edges

C == INSTANCE Contraction WITH
       input <- Pairs(ReadEdges(input)),
       edges <- Pairs(RemainingEdges),
       labels <- MergedLabels,
       done <- pc[0] \in {"barrier", "done"}

(* The program implements Contraction.                                     *)
Contracts == C!Spec

(* All ranks come to MPI_Finalize.                                         *)
Termination == <>(\A r \in Rank : pc[r] = "done")
=============================================================================
