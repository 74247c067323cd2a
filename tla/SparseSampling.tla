--------------------------- MODULE SparseSampling ---------------------------
(***************************************************************************)
(* The PPoPP 2018 program: every rank holds a slice of the edges; in every *)
(* round rank 0 gathers a sample of the edges, contracts the vertices that *)
(* it connects, and all ranks rename the ends of their edges.  Vertices    *)
(* are numbered from 0 on in every round, so their number shrinks.         *)
(*                                                                         *)
(* Besides the rooted collectives there is one MPI_Allreduce per round: no *)
(* rank gets the sum before all have contributed to it.  A message of      *)
(* samples is the set of the edges drawn: rank 0 shuffles them, and with a *)
(* target size of one it uses all of them or ends up with one component,   *)
(* so neither their order nor a repetition makes a difference.             *)
(***************************************************************************)
EXTENDS PrefixComponents, Collectives, SampleShares, Functions

CONSTANTS
  N,       \* number of vertices in the input file
  Inputs   \* the edge lists that an input file can hold

Node == 0 .. N-1

(* As in MpiCC, begin() needs an edge in the file.                         *)
ASSUME ConstantAssumption ==
  /\ N \in Nat \ {0}
  /\ Inputs \subseteq Seq(Edge(Node)) \ {<<>>}

VARIABLES
  input,                 \* the edges in the input file (never changes)
  edges_slice_,          \* every rank: its edges
  vertex_count_,         \* every rank: the number of vertices that remain
  vertex_map,            \* every rank: the map of this round
  local_edges,           \* every rank: its contributions to MPI_Allreduce
  samples,               \* every rank: its part of the sample
  edges_per_processor,   \* rank 0: the shares of the sample
  connected_components   \* rank 0: the current vertex of every vertex

graphVars == <<edges_slice_, vertex_count_, vertex_map>>
sampleVars == <<samples, edges_per_processor>>
rootVars == <<connected_components, prefixVars>>
vars == <<input, pc, graphVars, local_edges, sampleVars, rootVars, channels>>

-----------------------------------------------------------------------------
(* Definitions named Bug... are plausible slips in the definition that     *)
(* follows them; no specification uses them.  Here the last rank gets no   *)
(* more than the others.                                                   *)
BugLoadSlice(file, r) ==
  SubSeq(file, slice_from(Len(file), r, P) + 1, (Len(file) \div P) * (r + 1))

(* loadSlice; GraphInput has the loop.                                     *)
loadSlice(file, r) ==
  SubSeq(file, slice_from(Len(file), r, P) + 1, slice_to(Len(file), r, P))

(* sample: the whole slice, or edge_count draws with replacement.          *)
sample(slice, edge_count) ==
  IF edge_count = Len(slice) THEN {Range(slice)}
  ELSE {S \in SUBSET Range(slice) :
          Cardinality(S) <= edge_count /\ (edge_count > 0 => S # {})}

Renamed(e, map) == [from |-> map[e.from], to |-> map[e.to]]

(* The edges that become loops are kept.                                   *)
BugApplyMapping(slice, map) == [k \in DOMAIN slice |-> Renamed(slice[k], map)]

(* applyMapping: the ends are renamed, loops are dropped.                  *)
applyMapping(slice, map) ==
  LET kept == Compact(slice, {k \in DOMAIN slice : map[slice[k].from] # map[slice[k].to]})
  IN  [k \in DOMAIN kept |-> Renamed(kept[k], map)]

Zeros(n) == [v \in 0 .. n-1 |-> 0]

Init ==
  /\ input \in Inputs
  /\ pc = [r \in Rank |-> "edges"]
  /\ edges_slice_ = [r \in Rank |-> loadSlice(input, r)]
  /\ vertex_count_ = [r \in Rank |-> N]
  /\ vertex_map = [r \in Rank |-> Zeros(0)]
  /\ local_edges = [r \in Rank |-> <<>>]
  /\ samples = [r \in Rank |-> {}]
  /\ edges_per_processor = [r \in Rank |-> 0]
  /\ connected_components = [v \in Node |-> v]
  /\ NoFrame
  /\ down = [r \in Slave |-> <<>>]
  /\ up = [r \in Slave |-> <<>>]

-----------------------------------------------------------------------------
(* countEdges: a rank contributes to the sum ...                           *)
CountEdges(r) ==
  /\ pc[r] = "edges"
  /\ Goto(r, "sum")
  /\ local_edges' = [local_edges EXCEPT ![r] = Append(@, Len(edges_slice_[r]))]
  /\ UNCHANGED <<input, graphVars, sampleVars, rootVars, channels>>

Total(r) ==
  SumOver([s \in Rank |-> local_edges[s][Len(local_edges[r])]], Rank)

(* ... and gets it: the loop ends or a round begins, with a map of zeros.  *)
WhileEdges(r) ==
  /\ pc[r] = "sum"
  /\ \A s \in Rank : Len(local_edges[s]) >= Len(local_edges[r])
  /\ IF Total(r) > 0
     THEN /\ Goto(r, "available")
          /\ vertex_map' = [vertex_map EXCEPT ![r] = Zeros(vertex_count_[r])]
     ELSE /\ Goto(r, "done")
          /\ UNCHANGED vertex_map
  /\ UNCHANGED <<input, edges_slice_, vertex_count_, local_edges, sampleVars,
                 rootVars, channels>>

(* The spillover goes round and round.                                     *)
BugMasterAvailable ==
  LET available == Contributions(Len(edges_slice_[0]))
  IN  /\ pc[0] = "available"
      /\ \A r \in Slave : up[r] # <<>>
      /\ IF SparseFit(available)
         THEN /\ TakeUp
              /\ Goto(0, "share")
              /\ edges_per_processor' = edgesToSamplePerProcessor(available)
         ELSE UNCHANGED <<pc, up, edges_per_processor>>
      /\ UNCHANGED <<input, graphVars, local_edges, samples, rootVars, down>>

(***************************************************************************)
(* edgesAvailablePerProcessor, edgesToSamplePerProcessor.  When the sparse *)
(* ranks have more than is wanted, the uncaught exception ends the job.    *)
(***************************************************************************)
MasterAvailable ==
  LET available == Contributions(Len(edges_slice_[0]))
  IN  /\ pc[0] = "available"
      /\ TakeUp
      /\ IF SparseFit(available)
         THEN /\ Goto(0, "share")
              /\ edges_per_processor' = edgesToSamplePerProcessor(available)
         ELSE /\ pc' = [r \in Rank |-> "aborted"]
              /\ UNCHANGED edges_per_processor
      /\ UNCHANGED <<input, graphVars, local_edges, samples, rootVars, down>>

(* initiateSampling: MPI_Scatter of the shares, rank 0 takes part.         *)
MasterShare ==
  /\ pc[0] = "share"
  /\ Goto(0, "samples")
  /\ SendDown(edges_per_processor)
  /\ \E S \in sample(edges_slice_[0], edges_per_processor[0]) :
        samples' = [samples EXCEPT ![0] = S]
  /\ UNCHANGED <<input, graphVars, local_edges, edges_per_processor, rootVars, up>>

(* MPI_Gatherv of the samples, and the call of prefixConnectedComponents.  *)
MasterSamples ==
  /\ pc[0] = "samples"
  /\ Goto(0, "unite")
  /\ TakeUp
  /\ Enter(vertex_count_[0], UNION {Contributions(samples[0])[r] : r \in Rank})
  /\ UNCHANGED <<input, graphVars, local_edges, sampleVars, connected_components, down>>

MasterUnite ==
  /\ pc[0] = "unite"
  /\ \E e \in to_unite : Unite(e)
  /\ UNCHANGED <<input, pc, graphVars, local_edges, sampleVars, connected_components, channels>>

MasterUnited ==
  /\ pc[0] = "unite"
  /\ United
  /\ Goto(0, "relabel")
  /\ UNCHANGED <<input, graphVars, local_edges, sampleVars, rootVars, channels>>

MasterRelabel ==
  /\ pc[0] = "relabel"
  /\ Relabel
  /\ UNCHANGED <<input, pc, graphVars, local_edges, sampleVars, connected_components, channels>>

(* The map and the count are returned; the result is brought up to date.   *)
MasterMapped ==
  /\ pc[0] = "relabel"
  /\ Mapped
  /\ Goto(0, "map")
  /\ vertex_map' = [vertex_map EXCEPT ![0] = relabelled]
  /\ vertex_count_' = [vertex_count_ EXCEPT ![0] = components_active]
  /\ connected_components' = [v \in Node |-> relabelled[connected_components[v]]]
  /\ Leave
  /\ UNCHANGED <<input, edges_slice_, local_edges, sampleVars, channels>>

(* receiveAndApplyMapping: two broadcasts.                                 *)
MasterMap ==
  /\ pc[0] = "map"
  /\ Goto(0, "vertex_count")
  /\ BcastDown(vertex_map[0])
  /\ edges_slice_' = [edges_slice_ EXCEPT ![0] = applyMapping(@, vertex_map[0])]
  /\ UNCHANGED <<input, vertex_count_, vertex_map, local_edges, sampleVars,
                 rootVars, up>>

MasterVertexCount ==
  /\ pc[0] = "vertex_count"
  /\ Goto(0, "edges")
  /\ BcastDown(vertex_count_[0])
  /\ UNCHANGED <<input, graphVars, local_edges, sampleVars, rootVars, up>>

-----------------------------------------------------------------------------
SlaveAvailable(r) ==
  /\ pc[r] = "available"
  /\ Goto(r, "share")
  /\ SendUp(r, Len(edges_slice_[r]))
  /\ UNCHANGED <<input, graphVars, local_edges, sampleVars, rootVars, down>>

(* acceptSamplingRequest                                                   *)
SlaveShare(r) ==
  /\ pc[r] = "share"
  /\ Goto(r, "samples")
  /\ TakeDown(r)
  /\ \E S \in sample(edges_slice_[r], Head(down[r]).data) :
        samples' = [samples EXCEPT ![r] = S]
  /\ UNCHANGED <<input, graphVars, local_edges, edges_per_processor, rootVars, up>>

SlaveSamples(r) ==
  /\ pc[r] = "samples"
  /\ Goto(r, "map")
  /\ SendUp(r, samples[r])
  /\ UNCHANGED <<input, graphVars, local_edges, sampleVars, rootVars, down>>

SlaveMap(r) ==
  /\ pc[r] = "map"
  /\ Goto(r, "vertex_count")
  /\ TakeDown(r)
  /\ vertex_map' = [vertex_map EXCEPT ![r] = Head(down[r]).data]
  /\ edges_slice_' = [edges_slice_ EXCEPT ![r] = applyMapping(@, Head(down[r]).data)]
  /\ UNCHANGED <<input, vertex_count_, local_edges, sampleVars, rootVars, up>>

(* The new count is not stored.                                            *)
BugSlaveVertexCount(r) ==
  /\ pc[r] = "vertex_count"
  /\ Goto(r, "edges")
  /\ TakeDown(r)
  /\ UNCHANGED <<input, graphVars, local_edges, sampleVars, rootVars, up>>

SlaveVertexCount(r) ==
  /\ pc[r] = "vertex_count"
  /\ Goto(r, "edges")
  /\ TakeDown(r)
  /\ vertex_count_' = [vertex_count_ EXCEPT ![r] = Head(down[r]).data]
  /\ UNCHANGED <<input, edges_slice_, vertex_map, local_edges, sampleVars,
                 rootVars, up>>

Terminated == (\A r \in Rank : pc[r] \in {"done", "aborted"}) /\ UNCHANGED vars

MasterStep ==
  \/ CountEdges(0) \/ WhileEdges(0) \/ MasterAvailable \/ MasterShare
  \/ MasterSamples \/ MasterUnite \/ MasterUnited \/ MasterRelabel \/ MasterMapped
  \/ MasterMap \/ MasterVertexCount

SlaveStep(r) ==
  \/ CountEdges(r) \/ WhileEdges(r) \/ SlaveAvailable(r) \/ SlaveShare(r)
  \/ SlaveSamples(r) \/ SlaveMap(r) \/ SlaveVertexCount(r)

Next == MasterStep \/ (\E r \in Slave : SlaveStep(r)) \/ Terminated

(* Every process keeps running, and MPI delivers what is sent.             *)
Fairness == WF_vars(MasterStep) /\ \A r \in Slave : WF_vars(SlaveStep(r))

Spec == Init /\ [][Next]_vars /\ Fairness

-----------------------------------------------------------------------------
(***************************************************************************)
(* Rank 0 and the others run different code between the same collectives:  *)
(* the oldest message in a channel is for the next call of its receiver, a *)
(* map is as long as the receiver expects from the vertex count that it    *)
(* got in the round before, and nothing is left at the end.                *)
(***************************************************************************)
CollectivesMatch ==
  \A r \in Slave :
     /\ down[r] # <<>> /\ pc[r] \in {"share", "map", "vertex_count"} =>
           /\ Head(down[r]).op = pc[r]
           /\ pc[r] = "map" => DOMAIN Head(down[r]).data = DOMAIN vertex_map[r]
     /\ up[r] # <<>> /\ pc[0] \in {"available", "samples"} => Head(up[r]).op = pc[0]
     /\ pc[0] = "done" => down[r] = <<>> /\ up[r] = <<>>

(***************************************************************************)
(* The vertices are renumbered while some ranks still hold edges with the  *)
(* old numbers: every rank's edges stay within the vertices that the rank  *)
(* counts at that time, so no map is read outside its bounds.              *)
(***************************************************************************)
EndsInRange ==
  \A r \in Rank : \A k \in DOMAIN edges_slice_[r] :
     pc[r] \in {"edges", "sum", "available", "share"} =>
        Pair(edges_slice_[r][k]) \subseteq 0 .. vertex_count_[r] - 1

(***************************************************************************)
(* The result: every rank returns the number of components, and rank 0 has *)
(* numbered them from 0 in the order of their smallest vertices.           *)
(***************************************************************************)
Correct ==
  \A r \in Rank : pc[r] = "done" =>
     /\ vertex_count_[r]
          = Cardinality({Component(Node, Pairs(input), v) : v \in Node})
     /\ r = 0 => connected_components = DenseMap(N, Pairs(input))

(***************************************************************************)
(* The map that rank 0 is about to broadcast numbers the components of the *)
(* samples densely, in the order of their smallest vertices, and the count *)
(* kept by hand while uniting is how many numbers are in use: although the *)
(* paths are compressed under the search, and the union stops early.       *)
(***************************************************************************)
MapsDensely ==
  pc[0] = "map" =>
     LET drawn == UNION {samples[r] : r \in Rank}
         n == Cardinality(DOMAIN vertex_map[0])
     IN  /\ vertex_map[0] = DenseMap(n, {Pair(e) : e \in drawn})
         /\ Range(vertex_map[0]) = 0 .. vertex_count_[0] - 1

(***************************************************************************)
(* A round is one Contract step of Contraction.  The vertices are merged   *)
(* when rank 0 has united the samples; from then on the edges of a rank    *)
(* that has not yet renamed them stand for what it will make of them.  A   *)
(* number stands for the smallest vertex that carries it.                  *)
(***************************************************************************)
Remaining(r) ==
  IF pc[r] = "map" /\ pc[0] \notin {"samples", "unite", "relabel"}
  THEN applyMapping(edges_slice_[r], vertex_map[0])
  ELSE edges_slice_[r]

Name(number) == Min({v \in Node : connected_components[v] = number})

RemainingPairs == UNION {Pairs(Remaining(r)) : r \in Rank}

NamedPairs == {{Name(a) : a \in p} : p \in RemainingPairs}

NodeLabels == [v \in Node |-> Name(connected_components[v])]

C == INSTANCE Contraction WITH
       input <- Pairs(input), edges <- NamedPairs, labels <- NodeLabels, done <- pc[0] = "done"

(* The program implements Contraction.                                     *)
Contracts == C!Spec

(* Every rank returns, unless the job is aborted.                          *)
Termination == <>(\A r \in Rank : pc[r] \in {"done", "aborted"})
=============================================================================
