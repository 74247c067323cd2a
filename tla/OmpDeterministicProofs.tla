----------------------- MODULE OmpDeterministicProofs -----------------------
(***************************************************************************)
(* The deterministic OpenMP program, for every graph and every number of   *)
(* vertices: its racing hooks build no cycle, its parallel filter returns  *)
(* what a sequential one would, edges in order, none lost, each of its     *)
(* rounds is a round of Contraction, the labels returned are the           *)
(* components, and there are no more rounds than vertices.  With the       *)
(* threads racing inside find_roots it implements the program with         *)
(* find_roots as a call, for every team and every division of the loops.   *)
(***************************************************************************)
EXTENDS OmpDeterministicTeam, GraphTheorems

(* Vertices are integers, finitely many. *)
LEMMA NodeIsInt == Node \in SUBSET Int /\ IsFiniteSet(Node)
<1>1. N \in Nat /\ 0 \in Int /\ N - 1 \in Int
  BY ConstantAssumption
<1> QED
  BY <1>1, FS_Interval DEF Node

-----------------------------------------------------------------------------
(* Labels are their own labels between the rounds, and the ends of the     *)
(* edges of a round were their own labels when it began.                   *)
RoundsSettle ==
  /\ \A v \in Node : Settled[v] \in Node /\ Settled[Settled[v]] = Settled[v]
  /\ pc \in {"call", "hook"} =>
        \A k \in DOMAIN edges : /\ Settled[edges[k].from] = edges[k].from
                               /\ Settled[edges[k].to] = edges[k].to

(* A label that has been hooked is the upper end of an edge.               *)
HooksAlongEdges ==
  pc = "hook" =>
    \A v \in Node :
       \/ labels[v] = Settled[v]
       \/ \E k \in DOMAIN edges : edges[k].from = v /\ edges[k].to = labels[v]

(* What the loops of the filter have done so far.                          *)
Marked ==
  pc = "mark" =>
    /\ edges_mark \in [DOMAIN edges -> {0, 1}]
    /\ prefix_sum \in [DOMAIN edges -> {0}]
    /\ \A k \in DOMAIN edges :
          edges_mark[k] = 1 <=> k \in Crossing(edges, labels) \ todo

Places == [k \in DOMAIN edges |-> Upto(Crossing(edges, labels), k)]

Summed ==
  /\ pc = "single" => prefix_sum = Places /\ edges_mark \in [DOMAIN edges -> {0, 1}]
  /\ pc \in {"mark", "single"} => nextEdges = <<>>

Copied ==
  pc = "copy" =>
    /\ edges_mark = <<>>
    /\ prefix_sum = Places
    /\ nextEdges \in Seq({Unwritten} \cup UpEdges(Node))
    /\ Len(nextEdges) = Cardinality(Crossing(edges, labels))
    /\ \A k \in Crossing(edges, labels) \ todo :
          nextEdges[Places[k]] = Relabelled(edges[k], labels)

Basics ==
  /\ input \in Inputs
  /\ edges \in Seq(UpEdges(Node))
  /\ Upwards(Node, labels)
  /\ iteration \in Nat
  /\ pc \in {"call", "hook", "remove_edges", "mark", "single", "copy", "returned"}
  /\ todo \subseteq DOMAIN edges
  /\ pc = "returned" => edges = <<>>
  /\ pc \in {"call", "returned", "remove_edges"} => todo = {}
  /\ pc \in {"call", "hook", "remove_edges", "returned"} => NoLocals
  /\ pc \in {"hook", "remove_edges", "mark", "single", "copy"} => edges # <<>>

(* The inductive invariant.  Types alone are not enough: that the edges of *)
(* the next round point upwards needs every slot of nextEdges written.     *)
IInv ==
  /\ Basics
  /\ RoundsSettle
  /\ HooksAlongEdges
  /\ Marked
  /\ Summed
  /\ Copied

-----------------------------------------------------------------------------
(* The copying loop leaves what the sequential filter returns. *)
LEMMA FilterReturns ==
  ASSUME IInv, pc = "copy", todo = {}
  PROVE  nextEdges = RemoveEdges(edges, labels)
<1> DEFINE K == Crossing(edges, labels)
           r == RemoveEdges(edges, labels)
<1>1. edges \in Seq(UpEdges(Node)) /\ labels \in [Node -> Node]
  BY DEF IInv, Basics, Upwards
<1>2. /\ r \in Seq(UpEdges(Node))
      /\ Len(r) = Cardinality(K)
      /\ \A j \in 1 .. Cardinality(K) :
            Nth(K, j) \in K /\ r[j] = Relabelled(edges[Nth(K, j)], labels)
  BY <1>1, NodeIsInt, RemoveEdgesType
<1>3. /\ nextEdges \in Seq({Unwritten} \cup UpEdges(Node))
      /\ Len(nextEdges) = Cardinality(K)
      /\ \A k \in K : nextEdges[Upto(K, k)] = Relabelled(edges[k], labels)
  <2>1. \A k \in K : Places[k] = Upto(K, k)
    BY DEF Crossing, Places
  <2> QED
    BY <2>1 DEF IInv, Copied
<1>4. K \in SUBSET Int /\ IsFiniteSet(K)
  BY <1>1, CrossingFinite
<1> HIDE DEF K, r
<1>5. \A j \in 1 .. Cardinality(K) : Upto(K, Nth(K, j)) = j
  BY <1>4, NthUpto
<1>6. \A j \in 1 .. Cardinality(K) : nextEdges[j] = r[j]
  BY <1>2, <1>3, <1>5
<1>7. r \in Seq({Unwritten} \cup UpEdges(Node))
  BY <1>2, SeqMonotonic
<1>8. nextEdges = r
  BY <1>2, <1>3, <1>6, <1>7, SeqEqual
<1> QED
  BY <1>8 DEF r

(* Copies go to slots of their own, and the filter returns the edges that  *)
(* cross. *)
LEMMA FilterCorrect == IInv => ReturnsCrossing
<1> SUFFICES ASSUME IInv, pc = "copy"
             PROVE  OwnSlots /\ (todo = {} => nextEdges = RemoveEdges(edges, labels))
  BY DEF ReturnsCrossing
<1> DEFINE K == Crossing(edges, labels)
<1>1. edges \in Seq(UpEdges(Node))
  BY DEF IInv, Basics
<1>2. K \in SUBSET Int /\ IsFiniteSet(K)
  BY <1>1, CrossingFinite
<1>3. \A k \in K : prefix_sum[k] = Upto(K, k)
  BY DEF IInv, Copied, Crossing, Places
<1>4. DOMAIN nextEdges = 1 .. Cardinality(K)
  <2>1. nextEdges \in Seq({Unwritten} \cup UpEdges(Node)) /\ Len(nextEdges) = Cardinality(K)
    BY DEF IInv, Copied
  <2> QED
    BY <2>1, LenProperties
<1>5. OwnSlots
  <2> SUFFICES ASSUME NEW j \in K, NEW k \in K
               PROVE  /\ prefix_sum[k] \in DOMAIN nextEdges
                      /\ j # k => prefix_sum[j] # prefix_sum[k]
    BY DEF OwnSlots
  <2> HIDE DEF K
  <2> QED
    BY <1>2, <1>3, <1>4, UptoInRange, UptoInjective
<1> QED
  BY <1>5, FilterReturns

-----------------------------------------------------------------------------
(* What main reads satisfies the invariant. *)
LEMMA InitInv == Init => IInv
<1> SUFFICES ASSUME Init PROVE IInv
  OBVIOUS
<1>1. edges \in Seq(UpEdges(Node)) /\ input \in Inputs
  BY ConstantAssumption, NodeIsInt, ReadEdgesType DEF Init, UpEdges
<1>2. Upwards(Node, labels) /\ \A v \in Node : labels[v] = v
  BY NodeIsInt DEF Init, Upwards
<1>3. pc = "call" /\ todo = {} /\ iteration \in Nat /\ NoLocals
  BY DEF Init
<1>4. Basics
  BY <1>1, <1>2, <1>3 DEF Basics
<1>5. RoundsSettle
  <2>1. Settled = labels
    BY <1>3 DEF Settled
  <2>2. \A k \in DOMAIN edges : edges[k].from \in Node /\ edges[k].to \in Node
    BY <1>1 DEF UpEdges, Edge
  <2> QED
    BY <1>2, <2>1, <2>2 DEF RoundsSettle
<1> QED
  BY <1>3, <1>4, <1>5 DEF IInv, HooksAlongEdges, Marked, Summed, Copied

(* A round starts with the ends of its edges as their own labels. *)
LEMMA CallInv == IInv /\ Call => IInv'
<1> SUFFICES ASSUME IInv, Call PROVE IInv'
  OBVIOUS
<1>1. /\ pc = "call"
      /\ pc' = IF edges = <<>> THEN "returned" ELSE "hook"
      /\ iteration' = iteration + 1 /\ todo' = DOMAIN edges
      /\ input' = input /\ edges' = edges /\ labels' = labels
      /\ edges_mark' = edges_mark /\ prefix_sum' = prefix_sum /\ nextEdges' = nextEdges
  BY DEF Call, args, locals
<1>2. Basics /\ RoundsSettle
  BY DEF IInv
<1>3. Basics'
  BY <1>1, <1>2 DEF Basics, Upwards, NoLocals
<1>4. Settled = labels /\ labels \in [Node -> Node]
  BY <1>1, <1>2 DEF Settled, Basics, Upwards
<1>5. \A k \in DOMAIN edges : edges[k].from \in Node /\ labels[edges[k].from] = edges[k].from
  BY <1>1, <1>2, <1>4 DEF RoundsSettle, Basics, UpEdges, Edge
<1>6. Unhooked' = labels
  BY <1>1, <1>4, <1>5 DEF Unhooked
<1>7. Settled' = labels
  BY <1>1, <1>6 DEF Settled
<1>8. RoundsSettle' /\ HooksAlongEdges'
  BY <1>1, <1>2, <1>4, <1>7 DEF RoundsSettle, HooksAlongEdges
<1> QED
  BY <1>1, <1>3, <1>8 DEF IInv, Marked, Summed, Copied

(* A store of a hook, whichever one it overwrites. *)
LEMMA HookInv == ASSUME NEW k \in todo PROVE IInv /\ Hook(k) => IInv'
<1> SUFFICES ASSUME IInv, Hook(k) PROVE IInv'
  OBVIOUS
<1>1. /\ pc = "hook" /\ pc' = "hook"
      /\ labels' = [labels EXCEPT ![edges[k].from] = edges[k].to]
      /\ todo' = todo \ {k}
      /\ input' = input /\ edges' = edges /\ iteration' = iteration
      /\ edges_mark' = edges_mark /\ prefix_sum' = prefix_sum /\ nextEdges' = nextEdges
  BY DEF Hook, locals
<1>2. Basics /\ RoundsSettle /\ HooksAlongEdges
  BY DEF IInv
<1>3. k \in DOMAIN edges /\ edges[k] \in UpEdges(Node) /\ labels \in [Node -> Node]
  BY <1>2 DEF Basics, Upwards
<1>4. /\ edges[k].from \in Node /\ edges[k].to \in Node
      /\ edges[k].from <= edges[k].to
  <2>1. /\ edges[k].from \in Int /\ edges[k].to \in Int
        /\ edges[k].from < edges[k].to
    BY <1>3, NodeIsInt, UpEdgeEnds
  <2> QED
    BY <1>3, <2>1, NodeIsInt, UpEdgeEnds
<1>5. Upwards(Node, labels')
  BY <1>1, <1>2, <1>3, <1>4 DEF Basics, Upwards
<1>6. Basics'
  BY <1>1, <1>2, <1>5 DEF Basics, NoLocals
<1>7. Unhooked' = Unhooked
  BY <1>1, <1>3, <1>4 DEF Unhooked
<1>8. Settled' = Settled
  BY <1>1, <1>7 DEF Settled
<1>9. RoundsSettle'
  BY <1>1, <1>2, <1>8 DEF RoundsSettle
<1>10. HooksAlongEdges'
  BY <1>1, <1>2, <1>3, <1>4, <1>8 DEF HooksAlongEdges
<1> QED
  BY <1>1, <1>6, <1>9, <1>10 DEF IInv, Marked, Summed, Copied

(* find_roots leaves labels that point upwards and are their own labels. *)
LEMMA FindRootsInv == IInv /\ FindRoots => IInv'
<1> SUFFICES ASSUME IInv, FindRoots PROVE IInv'
  OBVIOUS
<1>1. /\ pc = "hook" /\ pc' = "remove_edges" /\ todo = {} /\ todo' = {}
      /\ labels' = Roots(Node, labels)
      /\ input' = input /\ edges' = edges /\ iteration' = iteration
      /\ edges_mark' = edges_mark /\ prefix_sum' = prefix_sum /\ nextEdges' = nextEdges
  BY DEF FindRoots, locals
<1>2. Basics
  BY DEF IInv
<1>3. Upwards(Node, labels)
  BY <1>2 DEF Basics
<1>4. Upwards(Node, labels') /\ \A v \in Node : labels'[labels'[v]] = labels'[v]
  BY <1>1, <1>3, NodeIsInt, RootsUpwards, RootsOfForest
<1>5. Basics'
  BY <1>1, <1>2, <1>4 DEF Basics, NoLocals
<1>6. Settled' = labels'
  BY <1>1 DEF Settled
<1>7. RoundsSettle'
  BY <1>1, <1>4, <1>6 DEF RoundsSettle, Upwards
<1> QED
  BY <1>1, <1>5, <1>7 DEF IInv, HooksAlongEdges, Marked, Summed, Copied

(* The filter is entered with nothing marked. *)
LEMMA RemoveEdgesCallInv == IInv /\ RemoveEdgesCall => IInv'
<1> SUFFICES ASSUME IInv, RemoveEdgesCall PROVE IInv'
  OBVIOUS
<1>1. /\ pc = "remove_edges" /\ pc' = "mark" /\ todo' = DOMAIN edges
      /\ edges_mark' = [k \in DOMAIN edges |-> 0]
      /\ prefix_sum' = [k \in DOMAIN edges |-> 0]
      /\ nextEdges' = nextEdges /\ edges' = edges /\ labels' = labels
      /\ input' = input /\ iteration' = iteration
  BY DEF RemoveEdgesCall, Enter, args
<1>2. Basics /\ RoundsSettle
  BY DEF IInv
<1>3. Basics'
  BY <1>1, <1>2 DEF Basics, Upwards
<1>4. RoundsSettle'
  BY <1>1, <1>2 DEF RoundsSettle, Settled
<1>5. Marked'
  <2>1. Crossing(edges, labels) \ DOMAIN edges = {}
    BY DEF Crossing
  <2>2. (Crossing(edges, labels))' = Crossing(edges, labels)
    BY <1>1 DEF Crossing
  <2> QED
    BY <1>1, <2>1, <2>2 DEF Marked
<1>6. nextEdges = <<>>
  BY <1>1, <1>2 DEF Basics, NoLocals
<1> QED
  BY <1>1, <1>3, <1>4, <1>5, <1>6 DEF IInv, HooksAlongEdges, Summed, Copied

(* An iteration of the loop that marks. *)
LEMMA MarkInv ==
  ASSUME NEW k \in todo
  PROVE  IInv /\ Mark(k) /\ UNCHANGED <<input, iteration>> => IInv'
<1> SUFFICES ASSUME IInv, Mark(k), UNCHANGED <<input, iteration>> PROVE IInv'
  OBVIOUS
<1>1. /\ pc = "mark" /\ pc' = "mark" /\ todo' = todo \ {k}
      /\ edges_mark' = IF k \in Crossing(edges, labels)
                       THEN [edges_mark EXCEPT ![k] = 1] ELSE edges_mark
      /\ prefix_sum' = prefix_sum
      /\ nextEdges' = nextEdges /\ edges' = edges /\ labels' = labels
      /\ input' = input /\ iteration' = iteration
  BY DEF Mark, args, Crosses, Crossing, IInv, Basics
<1>2. Basics /\ RoundsSettle /\ Marked /\ Summed
  BY DEF IInv
<1>3. k \in DOMAIN edges
  BY <1>2 DEF Basics
<1>4. Basics'
  BY <1>1, <1>2 DEF Basics, Upwards
<1>5. RoundsSettle'
  BY <1>1, <1>2 DEF RoundsSettle, Settled
<1>6. Marked'
  <2>1. (Crossing(edges, labels))' = Crossing(edges, labels)
    BY <1>1 DEF Crossing
  <2>2. Crossing(edges, labels) \in SUBSET DOMAIN edges
    BY DEF Crossing
  <2> QED
    BY <1>1, <1>2, <1>3, <2>1, <2>2 DEF Marked
<1> QED
  BY <1>1, <1>2, <1>4, <1>5, <1>6 DEF IInv, HooksAlongEdges, Summed, Copied

(* The marks that the scan sums up are those of all edges that cross.      *)
LEMMA ScanInv == IInv /\ Scan /\ UNCHANGED <<input, iteration>> => IInv'
<1> SUFFICES ASSUME IInv, Scan, UNCHANGED <<input, iteration>> PROVE IInv'
  OBVIOUS
<1>1. /\ pc = "mark" /\ pc' = "single" /\ todo = {} /\ todo' = todo
      /\ prefix_sum' =
           [k \in DOMAIN edges |-> Cardinality({j \in 1 .. k : edges_mark[j] = 1})]
      /\ edges_mark' = edges_mark
      /\ nextEdges' = nextEdges /\ edges' = edges /\ labels' = labels
      /\ input' = input /\ iteration' = iteration
  BY DEF Scan, args
<1>2. Basics /\ RoundsSettle /\ Marked /\ Summed
  BY DEF IInv
<1>3. Basics'
  BY <1>1, <1>2 DEF Basics, Upwards
<1>4. RoundsSettle'
  BY <1>1, <1>2 DEF RoundsSettle, Settled
<1>5. prefix_sum' = Places
  <2>1. edges \in Seq(UpEdges(Node))
    BY <1>2 DEF Basics
  <2>2. \A k \in DOMAIN edges : edges_mark[k] = 1 <=> k \in Crossing(edges, labels)
    BY <1>1, <1>2 DEF Marked
  <2>3. Crossing(edges, labels) \in SUBSET DOMAIN edges
    BY DEF Crossing
  <2>4. ASSUME NEW k \in DOMAIN edges
        PROVE  {j \in 1 .. k : edges_mark[j] = 1} = {j \in Crossing(edges, labels) : j <= k}
    <3>1. DOMAIN edges = 1 .. Len(edges) /\ Len(edges) \in Nat
      BY <2>1
    <3> QED
      BY <2>2, <2>3, <3>1
  <2> QED
    BY <1>1, <2>4 DEF Places, Upto
<1>6. Places' = Places
  BY <1>1 DEF Places, Crossing
<1>7. Summed'
  BY <1>1, <1>2, <1>5, <1>6 DEF Summed, Marked
<1> QED
  BY <1>1, <1>3, <1>4, <1>7 DEF IInv, HooksAlongEdges, Marked, Copied

(* The last sum is the number of edges that cross: every copy finds a slot. *)
LEMMA SingleInv == IInv /\ Single /\ UNCHANGED <<input, iteration>> => IInv'
<1> SUFFICES ASSUME IInv, Single, UNCHANGED <<input, iteration>> PROVE IInv'
  OBVIOUS
<1> DEFINE K == Crossing(edges, labels)
<1>1. /\ pc = "single" /\ pc' = "copy" /\ todo' = DOMAIN edges
      /\ edges_mark' = <<>> /\ prefix_sum' = prefix_sum
      /\ nextEdges' = [k \in 1 .. prefix_sum[Len(edges)] |-> Unwritten]
      /\ edges' = edges /\ labels' = labels
      /\ input' = input /\ iteration' = iteration
  BY DEF Single, args
<1>2. Basics /\ RoundsSettle /\ Summed
  BY DEF IInv
<1>3. Basics'
  BY <1>1, <1>2 DEF Basics, Upwards
<1>4. RoundsSettle'
  BY <1>1, <1>2 DEF RoundsSettle, Settled
<1>5. edges \in Seq(UpEdges(Node)) /\ edges # <<>>
  BY <1>1, <1>2 DEF Basics
<1>6. K \in SUBSET DOMAIN edges /\ Cardinality(K) \in Nat
  BY <1>5, CrossingFinite
<1>7. prefix_sum[Len(edges)] = Cardinality(K)
  <2>1. DOMAIN edges = 1 .. Len(edges) /\ Len(edges) \in Nat /\ Len(edges) # 0
    BY <1>5
  <2>2. Len(edges) \in DOMAIN edges
    BY <2>1
  <2>3. {j \in K : j <= Len(edges)} = K
    BY <1>6, <2>1
  <2>4. prefix_sum[Len(edges)] = Upto(K, Len(edges))
    BY <1>1, <1>2, <2>2 DEF Summed, Places
  <2> QED
    BY <2>3, <2>4 DEF Upto
<1>8. Places' = Places /\ K' = K
  BY <1>1 DEF Places, Crossing
<1>9. Copied'
  <2>1. K \ DOMAIN edges = {}
    BY <1>6
  <2> HIDE DEF K
  <2>2. nextEdges' = [k \in 1 .. Cardinality(K) |-> Unwritten]
    BY <1>1, <1>7
  <2>3. nextEdges' \in Seq({Unwritten} \cup UpEdges(Node)) /\ Len(nextEdges') = Cardinality(K)
    BY <1>6, <2>2
  <2> USE DEF K
  <2> QED
    BY <1>1, <1>2, <1>8, <2>1, <2>3 DEF Copied, Summed
<1> QED
  BY <1>1, <1>3, <1>4, <1>9 DEF IInv, HooksAlongEdges, Marked, Summed

(* A copy writes a slot that no other edge that crosses has.               *)
LEMMA CopyInv ==
  ASSUME NEW k \in todo
  PROVE  IInv /\ Copy(k) /\ UNCHANGED <<input, iteration>> => IInv'
<1> SUFFICES ASSUME IInv, Copy(k), UNCHANGED <<input, iteration>> PROVE IInv'
  OBVIOUS
<1> DEFINE K == Crossing(edges, labels)
           new == Relabelled(edges[k], labels)
<1>1. /\ pc = "copy" /\ pc' = "copy" /\ todo' = todo \ {k}
      /\ nextEdges' = IF k \in K THEN [nextEdges EXCEPT ![prefix_sum[k]] = new]
                                 ELSE nextEdges
      /\ edges_mark' = edges_mark /\ prefix_sum' = prefix_sum
      /\ edges' = edges /\ labels' = labels
      /\ input' = input /\ iteration' = iteration
  BY DEF Copy, args, Crosses, Crossing, IInv, Basics
<1>2. Basics /\ RoundsSettle /\ Copied
  BY DEF IInv
<1>3. Basics'
  BY <1>1, <1>2 DEF Basics, Upwards
<1>4. RoundsSettle'
  BY <1>1, <1>2 DEF RoundsSettle, Settled
<1>5. edges \in Seq(UpEdges(Node)) /\ labels \in [Node -> Node] /\ k \in DOMAIN edges
  BY <1>2 DEF Basics, Upwards
<1>6. /\ K \in SUBSET DOMAIN edges /\ K \in SUBSET Int
      /\ IsFiniteSet(K) /\ Cardinality(K) \in Nat
  BY <1>5, CrossingFinite
<1>7. Places' = Places /\ K' = K
  BY <1>1 DEF Places, Crossing
<1>8. \A j \in K : Places[j] = Upto(K, j)
  BY <1>6 DEF Places
<1>9. k \in K => new \in UpEdges(Node)
  BY <1>5, NodeIsInt, RelabelledUp DEF Crossing
<1>10. /\ nextEdges \in Seq({Unwritten} \cup UpEdges(Node))
       /\ Len(nextEdges) = Cardinality(K)
       /\ \A j \in K \ todo : nextEdges[Places[j]] = Relabelled(edges[j], labels)
       /\ prefix_sum = Places
  BY <1>1, <1>2 DEF Copied
<1>11. \A j \in K : Upto(K, j) \in 1 .. Cardinality(K) /\ (Upto(K, j) = Upto(K, k) /\ k \in K => j = k)
  <2> HIDE DEF K
  <2> QED
    BY <1>6, UptoInRange, UptoInjective
<1> DEFINE T == {Unwritten} \cup UpEdges(Node)
<1>12. /\ nextEdges' \in Seq(T)
       /\ Len(nextEdges') = Cardinality(K)
       /\ \A j \in K \ (todo \ {k}) : nextEdges'[Places[j]] = Relabelled(edges[j], labels)
  <2>1. CASE k \notin K
    BY <1>1, <1>10, <2>1
  <2>2. CASE k \in K
    <3>1. Places[k] \in 1 .. Len(nextEdges) /\ new \in T
      BY <1>8, <1>9, <1>10, <1>11, <2>2
    <3> HIDE DEF K, new, T
    <3>2. nextEdges' = [nextEdges EXCEPT ![Places[k]] = new]
      BY <1>1, <1>10, <2>2
    <3>3. nextEdges \in Seq(T)
      BY <1>10 DEF T
    <3>4. /\ nextEdges' \in Seq(T) /\ Len(nextEdges') = Len(nextEdges)
          /\ \A i \in 1 .. Len(nextEdges) :
                nextEdges'[i] = IF i = Places[k] THEN new ELSE nextEdges[i]
      BY <3>1, <3>2, <3>3, ExceptSeq
    <3>5. ASSUME NEW j \in K \ (todo \ {k})
          PROVE  nextEdges'[Places[j]] = Relabelled(edges[j], labels)
      <4>1. CASE j = k
        BY <3>1, <3>4, <4>1 DEF new
      <4>2. CASE j # k
        <5>1. Places[j] \in 1 .. Len(nextEdges) /\ Places[j] # Places[k]
          BY <1>8, <1>10, <1>11, <2>2, <4>2
        <5>2. nextEdges'[Places[j]] = nextEdges[Places[j]]
          BY <3>4, <5>1
        <5> QED
          BY <1>10, <4>2, <5>2
      <4> QED
        BY <4>1, <4>2
    <3> QED
      BY <1>10, <3>4, <3>5
  <2> QED
    BY <2>1, <2>2
<1>13. Copied'
  <2>1. \A j \in K : (Relabelled(edges[j], labels))' = Relabelled(edges[j], labels)
    BY <1>1 DEF Relabelled
  <2> QED
    BY <1>1, <1>2, <1>7, <1>12, <2>1 DEF Copied
<1> QED
  BY <1>1, <1>3, <1>4, <1>13 DEF IInv, HooksAlongEdges, Marked, Summed

(* The edges of the next round are between labels, which are their own.    *)
LEMMA RecurseInv == IInv /\ Recurse => IInv'
<1> SUFFICES ASSUME IInv, Recurse PROVE IInv'
  OBVIOUS
<1> DEFINE K == Crossing(edges, labels)
           r == RemoveEdges(edges, labels)
<1>1. /\ pc = "copy" /\ pc' = "call" /\ todo = {} /\ todo' = {}
      /\ edges' = nextEdges /\ labels' = labels
      /\ edges_mark' = edges_mark /\ prefix_sum' = <<>> /\ nextEdges' = <<>>
      /\ input' = input /\ iteration' = iteration
  BY DEF Recurse, Leave
<1>2. Basics /\ RoundsSettle /\ Copied
  BY DEF IInv
<1>3. edges \in Seq(UpEdges(Node)) /\ labels \in [Node -> Node]
  BY <1>2 DEF Basics, Upwards
<1>4. edges' = r
  BY <1>1, FilterReturns
<1>5. /\ r \in Seq(UpEdges(Node))
      /\ Len(r) = Cardinality(K)
      /\ \A j \in 1 .. Cardinality(K) :
            Nth(K, j) \in K /\ r[j] = Relabelled(edges[Nth(K, j)], labels)
  BY <1>3, NodeIsInt, RemoveEdgesType
<1>6. Basics'
  BY <1>1, <1>2, <1>4, <1>5 DEF Basics, Upwards, NoLocals, Copied
<1>7. \A v \in Node : labels[v] \in Node /\ labels[labels[v]] = labels[v]
  BY <1>1, <1>2 DEF RoundsSettle, Settled
<1>8. ASSUME NEW k \in K
      PROVE  LET e == Relabelled(edges[k], labels)
             IN  labels[e.from] = e.from /\ labels[e.to] = e.to
  <2>1. edges[k].from \in Node /\ edges[k].to \in Node
    BY <1>3 DEF Crossing, UpEdges, Edge
  <2> QED
    BY <1>7, <2>1 DEF Relabelled
<1>9. \A j \in DOMAIN edges' :
         labels[edges'[j].from] = edges'[j].from /\ labels[edges'[j].to] = edges'[j].to
  <2> HIDE DEF K, r
  <2>1. DOMAIN r = 1 .. Cardinality(K)
    BY <1>5
  <2> QED
    BY <1>4, <1>5, <1>8, <2>1
<1>10. RoundsSettle'
  BY <1>1, <1>7, <1>9 DEF RoundsSettle, Settled
<1> QED
  BY <1>1, <1>6, <1>10 DEF IInv, HooksAlongEdges, Marked, Summed, Copied

LEMMA NextInv == IInv /\ [Next]_vars => IInv'
<1> SUFFICES ASSUME IInv, [Next]_vars PROVE IInv'
  OBVIOUS
<1>1. CASE Call
  BY <1>1, CallInv
<1>2. ASSUME NEW k \in todo, Hook(k) PROVE IInv'
  BY <1>2, HookInv
<1>3. CASE FindRoots
  BY <1>3, FindRootsInv
<1>4. CASE RemoveEdgesCall
  BY <1>4, RemoveEdgesCallInv
<1>5. CASE RemoveEdgesRuns
  <2>1. UNCHANGED <<input, iteration>>
    BY <1>5 DEF RemoveEdgesRuns
  <2>2. ASSUME NEW k \in todo, Mark(k) PROVE IInv'
    BY <2>1, <2>2, MarkInv
  <2>3. ASSUME NEW k \in todo, Copy(k) PROVE IInv'
    BY <2>1, <2>3, CopyInv
  <2>4. CASE Scan
    BY <2>1, <2>4, ScanInv
  <2>5. CASE Single
    BY <2>1, <2>5, SingleInv
  <2> QED
    BY <1>5, <2>2, <2>3, <2>4, <2>5 DEF RemoveEdgesRuns, Filter
<1>6. CASE Recurse
  BY <1>6, RecurseInv
<1>7. CASE UNCHANGED vars
  BY <1>7 DEF vars, args, locals, IInv, Basics, Upwards, NoLocals, RoundsSettle,
              Settled, Unhooked, HooksAlongEdges, Marked, Summed, Copied, Places,
              Crossing, Relabelled
<1> QED
  BY <1>1, <1>2, <1>3, <1>4, <1>5, <1>6, <1>7 DEF Next, Terminated

(* The invariant says what the variables hold: Unwritten zeros included,   *)
(* the edges of every round are between vertices and point upwards.        *)
LEMMA InvTypeOK == IInv => TypeOK
<1> SUFFICES ASSUME IInv PROVE TypeOK
  OBVIOUS
<1>1. Basics /\ Marked /\ Summed /\ Copied
  BY DEF IInv
<1>2. edges \in Seq(UpEdges(Node)) /\ DOMAIN edges = 1 .. Len(edges) /\ Len(edges) \in Nat
  BY <1>1 DEF Basics
<1>3. Places \in [DOMAIN edges -> 0 .. Len(edges)]
  <2> DEFINE K == Crossing(edges, labels)
  <2>1. K \in SUBSET DOMAIN edges /\ IsFiniteSet(K) /\ Cardinality(K) \in Nat
    BY <1>2, CrossingFinite
  <2>2. Cardinality(K) <= Len(edges)
    <3>1. IsFiniteSet(1 .. Len(edges)) /\ Cardinality(1 .. Len(edges)) = Len(edges)
      BY <1>2, FS_Interval
    <3> HIDE DEF K
    <3> QED
      BY <1>2, <2>1, <3>1, FS_Subset
  <2>3. \A k \in DOMAIN edges : Upto(K, k) \in 0 .. Cardinality(K)
    BY <2>1, UptoType
  <2> HIDE DEF K
  <2>4. \A k \in DOMAIN edges : Upto(K, k) \in 0 .. Len(edges)
    BY <1>2, <2>1, <2>2, <2>3
  <2> QED
    BY <2>4 DEF Places, K
<1>4. edges_mark = <<>> \/ edges_mark \in [DOMAIN edges -> {0, 1}]
  BY <1>1 DEF Basics, NoLocals, Marked, Summed, Copied
<1>5. prefix_sum = <<>> \/ prefix_sum \in [DOMAIN edges -> 0 .. Len(edges)]
  BY <1>1, <1>2, <1>3 DEF Basics, NoLocals, Marked, Summed, Copied
<1>6. nextEdges \in Seq({Unwritten} \cup UpEdges(Node))
  <2>1. pc # "copy" => nextEdges = <<>>
    BY <1>1 DEF Basics, NoLocals, Summed
  <2>2. pc = "copy" => nextEdges \in Seq({Unwritten} \cup UpEdges(Node))
    BY <1>1 DEF Copied
  <2>3. <<>> \in Seq({Unwritten} \cup UpEdges(Node))
    OBVIOUS
  <2> QED
    BY <2>1, <2>2, <2>3
<1> QED
  BY <1>1, <1>2, <1>4, <1>5, <1>6 DEF TypeOK, Basics, Upwards, UpEdges

-----------------------------------------------------------------------------
(* In every reachable state the invariant holds. *)
THEOREM Invariance == Spec => []IInv
<1>1. Init => IInv
  BY InitInv
<1>2. IInv /\ [Next]_vars => IInv'
  BY NextInv
<1> QED
  BY <1>1, <1>2, PTL DEF Spec

(* The variables keep their types: no slot of the filter is left unwritten *)
(* when its result becomes the edges of the next round.                    *)
THEOREM TypeCorrect == Spec => []TypeOK
<1>1. IInv => TypeOK
  BY InvTypeOK
<1> QED
  BY <1>1, Invariance, PTL

(* The racing hooks never build a cycle of labels, so that find_roots is   *)
(* only ever called on the forests it needs.                               *)
THEOREM HooksBuildNoCycle == Spec => []Acyclic
<1>1. IInv => Acyclic
  BY NodeIsInt DEF IInv, Basics, Upwards, Acyclic
<1> QED
  BY <1>1, Invariance, PTL

(* The parallel filter returns what the sequential one would, and copies   *)
(* of different edges never meet in a slot.                                *)
THEOREM FilterIsSequential == Spec => []ReturnsCrossing
<1>1. IInv => ReturnsCrossing
  BY FilterCorrect
<1> QED
  BY <1>1, Invariance, PTL
-----------------------------------------------------------------------------
(***************************************************************************)
(* The program implements Contraction.                                     *)
(***************************************************************************)

(* What find_roots returns merges the labels of the last round, along the  *)
(* edges of this round: whichever store to a label stayed, it was an edge. *)
LEMMA HooksMerge ==
  ASSUME IInv, pc = "hook"
  PROVE  MergesAlong(Node, Pairs(edges), Settled, Roots(Node, labels))
<1>1. Upwards(Node, labels) /\ labels \in [Node -> Node] /\ edges \in Seq(UpEdges(Node))
  BY DEF IInv, Basics, Upwards
<1>2. IsForest(Node, labels)
  BY <1>1, NodeIsInt, RootsUpwards
<1>3. /\ \A v \in Node : Settled[v] \in Node /\ Settled[Settled[v]] = Settled[v]
      /\ \A k \in DOMAIN edges : /\ Settled[edges[k].from] = edges[k].from
                                /\ Settled[edges[k].to] = edges[k].to
  BY DEF IInv, RoundsSettle
<1>4. Settled \in [Node -> Node]
  BY <1>1, <1>3 DEF Settled, Unhooked
<1>5. ASSUME NEW v \in Node
      PROVE  \/ labels[v] = Settled[v]
             \/ /\ Settled[v] = v /\ Settled[labels[v]] = labels[v]
                /\ \E p \in Pairs(edges) : v \in p /\ labels[v] \in p
  <2> SUFFICES ASSUME NEW k \in DOMAIN edges, edges[k].from = v, edges[k].to = labels[v]
               PROVE  /\ Settled[v] = v /\ Settled[labels[v]] = labels[v]
                      /\ \E p \in Pairs(edges) : v \in p /\ labels[v] \in p
    BY DEF IInv, HooksAlongEdges
  <2>1. Pair(edges[k]) \in Pairs(edges) /\ v \in Pair(edges[k]) /\ labels[v] \in Pair(edges[k])
    BY DEF Pairs, Pair
  <2> QED
    BY <1>3, <2>1
<1>6. HookedAlong(Node, Pairs(edges), Settled, labels)
  BY <1>3, <1>4, <1>5 DEF HookedAlong
<1> QED
  BY <1>2, <1>6, RootsMerge

(* The step of find_roots is a round of Contraction. *)
LEMMA FindRootsContracts == IInv /\ IInv' /\ FindRoots => C!Contract
<1> SUFFICES ASSUME IInv, IInv', FindRoots PROVE C!Contract
  OBVIOUS
<1>1. /\ pc = "hook" /\ pc' = "remove_edges"
      /\ labels' = Roots(Node, labels)
      /\ input' = input /\ edges' = edges
  BY DEF FindRoots
<1>2. edges \in Seq(UpEdges(Node)) /\ edges # <<>>
  BY <1>1 DEF IInv, Basics
<1>3. Remaining = edges /\ Remaining' = RemoveEdges(edges, labels') /\ Settled' = labels'
  <2>1. (RemoveEdges(edges, labels))' = RemoveEdges(edges, labels')
    BY <1>1
  <2> QED
    BY <1>1, <2>1 DEF Remaining, Filtering, Settled
<1>4. /\ labels' \in [Node -> Node]
      /\ \A u, v \in Node : Settled[u] = Settled[v] => labels'[u] = labels'[v]
      /\ \A v \in Node : Connected(Node, Pairs(edges), Settled[v], labels'[v])
      /\ \A v \in Node : labels'[labels'[v]] = labels'[v]
  BY <1>1, HooksMerge DEF MergesAlong
<1>5. Pairs(Remaining) # {}
  <2>1. 1 \in DOMAIN edges
    BY <1>2
  <2> QED
    BY <1>3, <2>1 DEF Pairs
<1>6. Pairs(Remaining') = C!MergedPairs(Pairs(Remaining), Settled')
  BY <1>2, <1>3, <1>4, NodeIsInt, FilterRelabels DEF MergedPairs, C!MergedPairs
<1>7. C!Merges(Settled')
  <2>1. ASSUME NEW v \in Node
        PROVE  C!Connected(Node, Pairs(Remaining), Settled[v], labels'[v])
    BY <1>3, <1>4 DEF C!Connected, C!ClosedUnder, Connected, ClosedUnder
  <2> QED
    BY <1>3, <1>4, <2>1 DEF C!Merges
<1>8. (Pairs(Remaining))' = Pairs(Remaining') /\ (Pairs(ReadEdges(input)))' = Pairs(ReadEdges(input))
  BY <1>1
<1> QED
  BY <1>1, <1>3, <1>4, <1>5, <1>6, <1>7, <1>8 DEF C!Contract

(* The steps that hook, mark, sum up and copy change nothing that          *)
(* Contraction sees; the call that finds no edge returns its labels.       *)
LEMMA StepRefines == IInv /\ IInv' /\ [Next]_vars => [C!Next]_(C!vars)
<1> SUFFICES ASSUME IInv, IInv', [Next]_vars
             PROVE  C!Next \/ UNCHANGED C!vars
  OBVIOUS
<1> DEFINE Same == /\ input' = input /\ Remaining' = Remaining /\ Settled' = Settled
                   /\ pc # "returned" /\ pc' # "returned"
<1>1. Same => UNCHANGED C!vars
  <2> SUFFICES ASSUME Same PROVE UNCHANGED C!vars
    OBVIOUS
  <2>1. /\ (Pairs(Remaining))' = Pairs(Remaining)
        /\ (Pairs(ReadEdges(input)))' = Pairs(ReadEdges(input))
        /\ (pc = "returned")' = (pc = "returned")
    OBVIOUS
  <2> QED
    BY <2>1 DEF C!vars
<1>2. Basics /\ RoundsSettle
  BY DEF IInv
<1>3. edges \in Seq(UpEdges(Node)) /\ labels \in [Node -> Node]
  BY <1>2 DEF Basics, Upwards
<1>4. \A k \in DOMAIN edges : edges[k].from \in Node
  BY <1>3, NodeIsInt, UpEdgeEnds
<1>5. CASE Call
  <2>1. /\ pc = "call" /\ edges' = edges /\ labels' = labels /\ input' = input
        /\ pc' = IF edges = <<>> THEN "returned" ELSE "hook"
    BY <1>5 DEF Call, args
  <2>2. Remaining = edges /\ Remaining' = edges /\ Settled = labels
    BY <2>1 DEF Remaining, Filtering, Settled
  <2>3. CASE edges = <<>>
    <3>1. Settled' = labels
      BY <2>1, <2>3 DEF Settled
    <3>2. Pairs(Remaining) = {} /\ (Pairs(Remaining))' = {}
      BY <2>1, <2>2, <2>3 DEF Pairs
    <3>3. (Pairs(ReadEdges(input)))' = Pairs(ReadEdges(input))
      BY <2>1
    <3> QED
      BY <2>1, <2>2, <2>3, <3>1, <3>2, <3>3 DEF C!Next, C!Return
  <2>4. CASE edges # <<>>
    <3>1. \A k \in DOMAIN edges : labels[edges[k].from] = edges[k].from
      BY <1>2, <2>1, <2>2 DEF RoundsSettle
    <3>2. Unhooked' = labels
      BY <1>3, <1>4, <2>1, <3>1 DEF Unhooked
    <3> QED
      BY <1>1, <2>1, <2>2, <2>4, <3>2 DEF Settled
  <2> QED
    BY <2>3, <2>4
<1>6. ASSUME NEW k \in todo, Hook(k) PROVE UNCHANGED C!vars
  <2>1. /\ pc = "hook" /\ pc' = "hook" /\ edges' = edges /\ input' = input
        /\ labels' = [labels EXCEPT ![edges[k].from] = edges[k].to]
        /\ k \in DOMAIN edges
    BY <1>2, <1>6 DEF Hook, Basics
  <2>2. Unhooked' = Unhooked
    BY <1>3, <1>4, <2>1 DEF Unhooked
  <2> QED
    BY <1>1, <2>1, <2>2 DEF Settled, Remaining, Filtering
<1>7. CASE FindRoots
  BY <1>7, FindRootsContracts DEF C!Next
<1>8. CASE RemoveEdgesCall \/ RemoveEdgesRuns
  <2>1. /\ pc \in {"remove_edges", "mark", "single", "copy"}
        /\ pc' \in {"remove_edges", "mark", "single", "copy"}
        /\ edges' = edges /\ labels' = labels /\ input' = input
    BY <1>8 DEF RemoveEdgesCall, RemoveEdgesRuns, Enter, Filter, Mark, Scan,
                Single, Copy, args
  <2>2. (RemoveEdges(edges, labels))' = RemoveEdges(edges, labels)
    BY <2>1
  <2> QED
    BY <1>1, <2>1, <2>2 DEF Settled, Remaining, Filtering
<1>9. CASE Recurse
  <2>1. /\ pc = "copy" /\ pc' = "call" /\ todo = {}
        /\ edges' = nextEdges /\ labels' = labels /\ input' = input
    BY <1>9 DEF Recurse, Leave
  <2>2. nextEdges = RemoveEdges(edges, labels)
    BY <2>1, FilterReturns
  <2> QED
    BY <1>1, <2>1, <2>2 DEF Settled, Remaining, Filtering
<1>10. CASE UNCHANGED vars
  <2>1. edges' = edges /\ labels' = labels /\ input' = input /\ pc' = pc
    BY <1>10 DEF vars, args
  <2>2. Settled' = Settled /\ Remaining' = Remaining
    BY <2>1 DEF Settled, Unhooked, Remaining, Filtering
  <2> QED
    BY <2>1, <2>2 DEF C!vars
<1> QED
  BY <1>5, <1>6, <1>7, <1>8, <1>9, <1>10 DEF Next, Terminated

(* The deterministic OpenMP program implements Contraction: every one of   *)
(* its rounds, racing stores and all, is one of the merges that            *)
(* Contraction allows.                                                     *)
THEOREM ProgramContracts == Spec => Contracts
<1>1. Init => C!Init
  <2> SUFFICES ASSUME Init PROVE C!Init
    OBVIOUS
  <2>1. pc = "call" /\ edges = ReadEdges(input) /\ labels = [v \in Node |-> v]
    BY DEF Init
  <2>2. Remaining = ReadEdges(input) /\ Settled = [v \in Node |-> v]
    BY <2>1 DEF Remaining, Filtering, Settled
  <2>3. Pairs(ReadEdges(input)) \subseteq SUBSET Node
    <3>1. IInv
      BY InitInv
    <3>2. ReadEdges(input) \in Seq(UpEdges(Node))
      BY <2>1, <3>1 DEF IInv, Basics
    <3> QED
      BY <3>2 DEF Pairs, Pair, UpEdges, Edge
  <2> QED
    BY <2>1, <2>2, <2>3 DEF C!Init
<1>2. IInv /\ IInv' /\ [Next]_vars => [C!Next]_(C!vars)
  BY StepRefines
<1> QED
  BY <1>1, <1>2, Invariance, PTL DEF Spec, Contracts, C!Spec

-----------------------------------------------------------------------------
(* Contraction again, with what is proved of it. *)
CP == INSTANCE ContractionProofs WITH
        input <- Pairs(ReadEdges(input)),
        edges <- Pairs(Remaining),
        labels <- Settled,
        done <- pc = "returned"

(* The returned labels are the components of the edges that main kept. *)
LEMMA ComponentsReturned == Spec => []CP!Correct
<1>1. C!Init => CP!Init
  BY DEF C!Init, CP!Init
<1>2. [C!Next]_(C!vars) => [CP!Next]_(CP!vars)
  <2>1. C!vars = CP!vars /\ C!vars' = CP!vars'
    BY DEF C!vars, CP!vars
  <2>2. C!Contract => CP!Contract
    BY DEF C!Contract, CP!Contract, C!Merges, CP!Merges, C!MergedPairs, CP!MergedPairs,
           C!Connected, CP!Connected, C!ClosedUnder, CP!ClosedUnder
  <2>3. C!Return => CP!Return
    BY DEF C!Return, CP!Return
  <2>4. C!Terminated => CP!Terminated
    BY <2>1 DEF C!Terminated, CP!Terminated
  <2> QED
    BY <2>1, <2>2, <2>3, <2>4 DEF C!Next, CP!Next
<1>3. CP!Spec => []CP!Correct
  BY CP!ContractionCorrect
<1> QED
  BY <1>1, <1>2, <1>3, ProgramContracts, PTL DEF Contracts, C!Spec, CP!Spec

(* The returned labels separate the components and point upwards: they     *)
(* name every component by its largest vertex.                             *)
LEMMA LargestReturned == IInv /\ CP!Correct => Correct
<1> SUFFICES ASSUME IInv, CP!Correct, pc = "returned"
             PROVE  labels = [v \in Node |-> Max(Component(Node, E, v))]
  BY DEF Correct
<1>1. /\ Upwards(Node, labels) /\ labels \in [Node -> Node]
      /\ \A v \in Node : labels[v] \in Node /\ labels[labels[v]] = labels[v]
      /\ Settled = labels
  BY DEF IInv, Basics, Upwards, RoundsSettle, Settled
<1>2. input \in Seq(Edge(Node))
  BY ConstantAssumption DEF IInv, Basics
<1>3. ASSUME NEW u \in Node, NEW v \in Node
      PROVE  labels[u] = labels[v] <=> Connected(Node, E, u, v)
  <2>1. labels[u] = labels[v] <=> CP!Connected(Node, Pairs(ReadEdges(input)), u, v)
    BY <1>1 DEF CP!Correct
  <2>2. CP!Connected(Node, Pairs(ReadEdges(input)), u, v)
          <=> Connected(Node, Pairs(ReadEdges(input)), u, v)
    BY DEF CP!Connected, CP!ClosedUnder, Connected, ClosedUnder
  <2>3. Connected(Node, Pairs(ReadEdges(input)), u, v) <=> Connected(Node, E, u, v)
    BY <1>2, NodeIsInt, ReadEdgesConnected DEF E
  <2> QED
    BY <2>1, <2>2, <2>3
<1> QED
  BY <1>1, <1>3, NodeIsInt, LargestLabels

(* Whichever stores the races keep, the program returns for every vertex   *)
(* the largest vertex of its component in the file.                        *)
THEOREM ProgramCorrect == Spec => []Correct
<1>1. IInv /\ CP!Correct => Correct
  BY LargestReturned
<1> QED
  BY <1>1, Invariance, ComponentsReturned, PTL

-----------------------------------------------------------------------------
(***************************************************************************)
(* No more rounds begin than there are vertices: a round takes at least    *)
(* one vertex out of the labels.                                           *)
(***************************************************************************)

(* The vertices that are labels, as of the beginning or end of a round.    *)
Representatives == {v \in Node : Settled[v] = v}

(* An edge whose iteration has run has left a hook, its own or a later one. *)
HooksStay ==
  pc = "hook" => \A k \in DOMAIN edges \ todo : labels[edges[k].from] # edges[k].from

(* The round that has begun has yet to take a vertex out. *)
RoundsLeft ==
  iteration + Cardinality(Representatives)
    <= IF pc \in {"hook", "returned"} THEN N + 1 ELSE N

Progress == HooksStay /\ RoundsLeft

LEMMA SomeVertices ==
  N \in Nat /\ N # 0 /\ IsFiniteSet(Node) /\ Cardinality(Node) = N
<1>1. N \in Nat /\ N # 0 /\ 0 \in Int /\ N - 1 \in Int
  BY ConstantAssumption
<1>2. IsFiniteSet(0 .. N-1) /\ Cardinality(0 .. N-1) = N
  BY <1>1, FS_Interval
<1> QED
  BY <1>1, <1>2 DEF Node

(* The last vertex is always a label. *)
LEMMA RepresentativesType ==
  ASSUME IInv
  PROVE  /\ IsFiniteSet(Representatives)
         /\ Cardinality(Representatives) \in Nat
         /\ Cardinality(Representatives) # 0
<1>1. Representatives \in SUBSET Node
  BY DEF Representatives
<1>2. IsFiniteSet(Representatives) /\ Cardinality(Representatives) \in Nat
  BY <1>1, SomeVertices, FS_Subset, FS_CardinalityType
<1>3. 0 \in Node
  BY SomeVertices DEF Node
<1>4. Settled[0] \in Representatives
  BY <1>3 DEF IInv, RoundsSettle, Representatives
<1> QED
  BY <1>2, <1>4, FS_EmptySet

LEMMA InitProgress == Init => Progress
<1> SUFFICES ASSUME Init PROVE Progress
  OBVIOUS
<1>1. pc = "call" /\ iteration = 0 /\ labels = [v \in Node |-> v]
  BY DEF Init
<1>2. Representatives = Node
  BY <1>1 DEF Representatives, Settled
<1> QED
  BY <1>1, <1>2, SomeVertices DEF Progress, HooksStay, RoundsLeft

(* find_roots leaves a proper part of the labels: the smaller end of an    *)
(* edge of the round is none any more.                                     *)
LEMMA FindRootsProgress ==
  IInv /\ IInv' /\ Progress /\ FindRoots => Progress'
<1> SUFFICES ASSUME IInv, IInv', Progress, FindRoots PROVE Progress'
  OBVIOUS
<1>1. /\ pc = "hook" /\ pc' = "remove_edges" /\ todo = {}
      /\ labels' = Roots(Node, labels)
      /\ edges' = edges /\ iteration' = iteration
  BY DEF FindRoots
<1>2. Upwards(Node, labels) /\ edges \in Seq(UpEdges(Node)) /\ edges # <<>> /\ iteration \in Nat
  BY <1>1 DEF IInv, Basics
<1>3. Settled' = labels'
  BY <1>1 DEF Settled
<1>4. ASSUME NEW k \in DOMAIN edges
      PROVE  /\ edges[k].from \in Node /\ Settled[edges[k].from] = edges[k].from
             /\ edges[k].from # edges[k].to
             /\ labels[edges[k].from] # edges[k].from
  <2>1. /\ edges[k].from \in Node
        /\ edges[k].from # edges[k].to
    BY <1>2, NodeIsInt, UpEdgeEnds
  <2> QED
    BY <1>1, <2>1 DEF IInv, RoundsSettle, Progress, HooksStay
<1>5. ASSUME NEW v \in Representatives'
      PROVE  v \in Representatives /\ labels[v] = v
  <2>1. v \in Node /\ labels'[v] = v
    BY <1>3 DEF Representatives
  <2>2. labels[v] = v
    BY <1>1, <1>2, <2>1, NodeIsInt, RootsUpwards, RootsOfForest
  <2>3. labels[v] = Settled[v]
    BY <1>1, <1>4, <2>1, <2>2 DEF IInv, HooksAlongEdges
  <2> QED
    BY <2>1, <2>2, <2>3 DEF Representatives
<1>6. PICK u \in Representatives : u \notin Representatives'
  <2>1. 1 \in DOMAIN edges
    BY <1>2
  <2>2. edges[1].from \in Representatives
    BY <1>4, <2>1 DEF Representatives
  <2>3. edges[1].from \notin Representatives'
    BY <1>4, <1>5, <2>1
  <2> QED
    BY <2>2, <2>3
<1>7. Cardinality(Representatives') < Cardinality(Representatives)
  <2>1. Representatives' \in SUBSET Representatives /\ Representatives' # Representatives
    BY <1>5, <1>6
  <2>2. IsFiniteSet(Representatives) /\ Cardinality(Representatives) \in Nat
    BY RepresentativesType
  <2>3. IsFiniteSet(Representatives') /\ Cardinality(Representatives') \in Nat
    BY <2>1, <2>2, FS_Subset, FS_CardinalityType
  <2>4. /\ Cardinality(Representatives') <= Cardinality(Representatives)
        /\ Cardinality(Representatives') # Cardinality(Representatives)
    BY <2>1, <2>2, FS_Subset
  <2> QED
    BY <2>2, <2>3, <2>4
<1>8. RoundsLeft'
  <2>1. Cardinality(Representatives) \in Nat /\ Cardinality(Representatives') \in Nat
    BY <1>5, RepresentativesType, FS_Subset, FS_CardinalityType
  <2>2. iteration + Cardinality(Representatives) <= N + 1
    BY <1>1 DEF Progress, RoundsLeft
  <2>3. iteration + Cardinality(Representatives') <= N
    BY <1>2, <1>7, <2>1, <2>2, SomeVertices
  <2>4. iteration' + (Cardinality(Representatives))' <= N
    BY <1>1, <2>3
  <2> QED
    BY <1>1, <2>4 DEF RoundsLeft
<1> QED
  BY <1>1, <1>8 DEF Progress, HooksStay

(* No other step changes the labels as of a round's beginning or end.      *)
LEMMA NextProgress == IInv /\ IInv' /\ Progress /\ [Next]_vars => Progress'
<1> SUFFICES ASSUME IInv, IInv', Progress, [Next]_vars PROVE Progress'
  OBVIOUS
<1>1. edges \in Seq(UpEdges(Node)) /\ labels \in [Node -> Node] /\ iteration \in Nat
  BY DEF IInv, Basics, Upwards
<1>2. \A k \in DOMAIN edges : /\ edges[k].from \in Node /\ edges[k].to \in Node
                             /\ edges[k].from # edges[k].to
  BY <1>1, NodeIsInt, UpEdgeEnds
<1>3. /\ Cardinality(Representatives) \in Nat
      /\ RoundsLeft
  BY RepresentativesType DEF Progress
<1>4. CASE Call
  <2>1. /\ pc = "call" /\ edges' = edges /\ labels' = labels
        /\ todo' = DOMAIN edges /\ iteration' = iteration + 1
        /\ pc' = IF edges = <<>> THEN "returned" ELSE "hook"
    BY <1>4 DEF Call, args
  <2>2. Unhooked' = labels \/ edges = <<>>
    <3>1. \A k \in DOMAIN edges : labels[edges[k].from] = edges[k].from
      BY <2>1 DEF IInv, RoundsSettle, Settled
    <3> QED
      BY <1>1, <1>2, <2>1, <3>1 DEF Unhooked
  <2>3. Settled' = Settled
    BY <2>1, <2>2 DEF Settled
  <2>4. Representatives' = Representatives
    BY <2>3 DEF Representatives
  <2>5. HooksStay'
    BY <2>1 DEF HooksStay
  <2>6. RoundsLeft'
    <3>1. iteration + Cardinality(Representatives) <= N
      BY <1>3, <2>1 DEF RoundsLeft
    <3>2. iteration' + Cardinality(Representatives') <= N + 1
      BY <1>1, <1>3, <2>1, <2>4, <3>1, SomeVertices
    <3> QED
      BY <2>1, <3>2 DEF RoundsLeft
  <2> QED
    BY <2>5, <2>6 DEF Progress
<1>5. ASSUME NEW k \in todo, Hook(k) PROVE Progress'
  <2>1. /\ pc = "hook" /\ pc' = "hook" /\ edges' = edges /\ iteration' = iteration
        /\ labels' = [labels EXCEPT ![edges[k].from] = edges[k].to]
        /\ todo' = todo \ {k} /\ k \in DOMAIN edges
    BY <1>5 DEF Hook, IInv, Basics
  <2>2. Unhooked' = Unhooked
    BY <1>1, <1>2, <2>1 DEF Unhooked
  <2>3. Representatives' = Representatives
    BY <2>1, <2>2 DEF Representatives, Settled
  <2>4. ASSUME NEW j \in DOMAIN edges \ (todo \ {k})
        PROVE  labels'[edges[j].from] # edges[j].from
    <3>1. CASE edges[j].from = edges[k].from
      BY <1>1, <1>2, <2>1, <3>1
    <3>2. CASE edges[j].from # edges[k].from
      BY <1>1, <1>2, <2>1, <3>2 DEF Progress, HooksStay
    <3> QED
      BY <3>1, <3>2
  <2> QED
    BY <1>3, <2>1, <2>3, <2>4 DEF Progress, HooksStay, RoundsLeft
<1>6. CASE FindRoots
  BY <1>6, FindRootsProgress
<1>7. CASE RemoveEdgesCall \/ RemoveEdgesRuns \/ Recurse
  <2>1. /\ pc \in {"remove_edges", "mark", "single", "copy"}
        /\ pc' \in {"mark", "single", "copy", "call"}
        /\ labels' = labels /\ iteration' = iteration
    BY <1>7 DEF RemoveEdgesCall, RemoveEdgesRuns, Recurse, Enter, Filter, Mark,
                Scan, Single, Copy, Leave, args
  <2>2. Representatives' = Representatives
    BY <2>1 DEF Representatives, Settled
  <2> QED
    BY <1>3, <2>1, <2>2 DEF Progress, HooksStay, RoundsLeft
<1>8. CASE UNCHANGED vars
  <2>1. edges' = edges /\ labels' = labels /\ todo' = todo /\ pc' = pc
        /\ iteration' = iteration
    BY <1>8 DEF vars, args
  <2>2. Representatives' = Representatives
    BY <2>1 DEF Representatives, Settled, Unhooked
  <2> QED
    BY <2>1, <2>2 DEF Progress, HooksStay, RoundsLeft
<1> QED
  BY <1>4, <1>5, <1>6, <1>7, <1>8 DEF Next, Terminated

(* However the racing stores fall, the recursion is no deeper than there   *)
(* are vertices.                                                           *)
THEOREM RoundsBound == Spec => []RoundsBounded
<1>1. Init => Progress
  BY InitProgress
<1>2. IInv /\ IInv' /\ Progress /\ [Next]_vars => Progress'
  BY NextProgress
<1>3. IInv /\ Progress => RoundsBounded
  <2> SUFFICES ASSUME IInv, Progress PROVE iteration <= N
    BY DEF RoundsBounded
  <2>1. iteration \in Nat /\ iteration + Cardinality(Representatives) <= N + 1
    BY SomeVertices, RepresentativesType DEF IInv, Basics, Progress, RoundsLeft
  <2> QED
    BY <2>1, SomeVertices, RepresentativesType
<1> QED
  BY <1>1, <1>2, <1>3, Invariance, PTL DEF Spec

-----------------------------------------------------------------------------
(***************************************************************************)
(* The program with the threads of find_roots.  The two halves have been   *)
(* proved apart: what the hooks leave is a forest (Acyclic), and on a      *)
(* forest the racing passes end at the roots (FindRootsProofs).  Here each *)
(* half is what the other assumes.                                         *)
(***************************************************************************)

(* FindRoots again, with what is proved of it. *)
FP == INSTANCE FindRootsProofs WITH
        hooked <- labels, labels <- memory, todo <- iterations

(* The team of the program is a team of FindRoots. *)
LEMMA TeamIsTeam == FP!ConstantAssumption
BY ConstantAssumption, TeamAssumption DEF FP!ConstantAssumption, FP!Node, Node

(* The steps of find_roots are steps of the module that is proved about. *)
LEMMA StepsAgree ==
  /\ F!StartPass => FP!Next
  /\ \A t \in Thread : F!Jump(t) \/ F!Check(t) => FP!Next
  /\ \A v \in Node : F!Commit(v) => FP!Next
<1>1. F!StartPass => FP!StartPass
  BY DEF F!StartPass, FP!StartPass, F!Barrier, FP!Barrier, F!Node, FP!Node, F!None, FP!None
<1>2. ASSUME NEW t \in Thread PROVE F!Jump(t) => FP!Jump(t)
  BY DEF F!Jump, FP!Jump, F!Current, FP!Current, F!Read, FP!Read,
         F!Node, FP!Node, F!None, FP!None
<1>3. ASSUME NEW t \in Thread PROVE F!Check(t) => FP!Check(t)
  BY DEF F!Check, FP!Check, F!Current, FP!Current, F!Read, FP!Read, F!None, FP!None
<1>4. ASSUME NEW v \in Node PROVE F!Commit(v) => FP!Commit(v)
  BY DEF F!Commit, FP!Commit, F!None, FP!None
<1> QED
  BY <1>1, <1>2, <1>3, <1>4 DEF FP!Next, FP!Node, Node

(* Between two calls no thread is in find_roots and no store is late. *)
AtRest ==
  /\ pending = [v \in Node |-> FP!None]
  /\ iterations = [t \in Thread |-> {}]
  /\ jumped = [t \in Thread |-> FP!None]

(* The inductive invariant: that of the program, and while find_roots      *)
(* runs, that of find_roots.                                               *)
TeamInv ==
  /\ IInv
  /\ returned \in BOOLEAN
  /\ returned => AtRest
  /\ ~ returned => pc = "hook" /\ todo = {} /\ FP!IInv

LEMMA TeamInitInv == TeamInit => TeamInv
<1> SUFFICES ASSUME TeamInit PROVE TeamInv
  OBVIOUS
<1>1. IInv
  BY InitInv DEF TeamInit
<1>2. returned = TRUE /\ AtRest
  BY DEF TeamInit, AtRest, F!None, FP!None
<1> QED
  BY <1>1, <1>2 DEF TeamInv

(* Outside of find_roots the composition takes the steps of the program.   *)
LEMMA OutsideStep == TeamInv /\ Outside => Next /\ TeamInv'
<1> SUFFICES ASSUME TeamInv, Outside PROVE Next /\ TeamInv'
  OBVIOUS
<1>1. Next
  BY DEF Outside, Next
<1>2. IInv'
  BY <1>1, NextInv DEF TeamInv
<1>3. returned
  <2>1. ASSUME ~ returned PROVE FALSE
    <3>1. pc = "hook" /\ todo = {}
      BY <2>1 DEF TeamInv
    <3> QED
      BY <3>1 DEF Outside, Call, RemoveEdgesCall, RemoveEdgesRuns, Filter, Scan,
                  Single, Recurse, Leave
  <2> QED
    BY <2>1 DEF TeamInv
<1>4. returned' = returned /\ AtRest'
  BY <1>3 DEF TeamInv, Outside, frame, AtRest
<1> QED
  BY <1>1, <1>2, <1>3, <1>4 DEF TeamInv

(* What find_roots starts from satisfies its invariant, in the state after *)
(* the call too.                                                           *)
LEMMA CallEstablishes == FP!Init' => FP!IInv'
<1>1. FP!Init => FP!IInv
  BY TeamIsTeam, FP!InitInv
<1> QED
  BY <1>1, PTL

(* What the hooks leave is what find_roots can be called with. *)
LEMMA CallStep == TeamInv /\ FindRootsCall => UNCHANGED vars /\ TeamInv'
<1> SUFFICES ASSUME TeamInv, FindRootsCall PROVE UNCHANGED vars /\ TeamInv'
  OBVIOUS
<1>1. /\ UNCHANGED vars /\ pc = "hook" /\ todo = {} /\ returned
      /\ memory' = labels /\ found' = TRUE /\ passes' = 0 /\ returned' = FALSE
      /\ pending' = pending /\ iterations' = iterations /\ jumped' = jumped
  BY DEF FindRootsCall
<1>2. IInv'
  BY <1>1, NextInv DEF TeamInv
<1>3. FP!Init'
  <2>1. labels' = labels /\ Upwards(Node, labels)
    BY <1>1 DEF vars, args, TeamInv, IInv, Basics
  <2>2. labels' \in FP!Forests
    BY <2>1 DEF Upwards, FP!Forests, FP!Node, Node
  <2>3. AtRest
    BY <1>1 DEF TeamInv
  <2> QED
    BY <1>1, <2>1, <2>2, <2>3 DEF FP!Init, AtRest, FP!Node, Node
<1>4. FP!IInv'
  BY <1>3, CallEstablishes
<1> QED
  BY <1>1, <1>2, <1>4 DEF TeamInv, vars

(* While find_roots runs, the program stutters. *)
LEMMA InsideStep ==
  ASSUME TeamInv, ~ returned, FP!Next, UNCHANGED vars, returned' = FALSE
  PROVE  TeamInv'
<1>1. IInv'
  BY NextInv DEF TeamInv
<1>2. FP!IInv'
  BY TeamIsTeam, FP!NextInv DEF TeamInv
<1>3. pc' = "hook" /\ todo' = {}
  BY DEF TeamInv, vars
<1> QED
  BY <1>1, <1>2, <1>3 DEF TeamInv

(* find_roots returns the roots that its caller expects of it. *)
LEMMA ReturnsTheRoots ==
  ASSUME TeamInv, FindRootsReturn
  PROVE  memory = Roots(Node, labels)
<1>1. FP!IInv /\ IInv /\ FP!Barrier /\ ~ found
  BY DEF TeamInv, FindRootsReturn, F!Barrier, FP!Barrier, F!Node, FP!Node, F!None, FP!None
<1>2. Upwards(Node, labels) /\ Node = FP!Node
  BY <1>1 DEF IInv, Basics, FP!Node, Node
<1>3. memory \in [Node -> Node]
  BY <1>1, <1>2 DEF FP!IInv, FP!TypeOK
<1>4. IsForest(Node, labels)
  BY <1>2, NodeIsInt, RootsUpwards
<1>5. ASSUME NEW v \in Node
      PROVE  memory[v] = Roots(Node, labels)[v]
  <2>1. labels[memory[v]] = memory[v] /\ Reaches(Node, labels, v, memory[v])
    BY <1>1, <1>2, TeamIsTeam, FP!LastPass DEF FP!IsRoot, FP!Ancestor, Reaches
  <2> QED
    BY <1>3, <1>4, <2>1, RootsAre
<1>6. Roots(Node, labels) \in [Node -> Node]
  BY <1>4, RootsType
<1> QED
  BY <1>3, <1>5, <1>6

LEMMA ReturnStep == TeamInv /\ FindRootsReturn => FindRoots /\ TeamInv'
<1> SUFFICES ASSUME TeamInv, FindRootsReturn PROVE FindRoots /\ TeamInv'
  OBVIOUS
<1>1. pc = "hook" /\ todo = {} /\ FP!IInv /\ FP!Barrier /\ ~ returned
  BY DEF TeamInv, FindRootsReturn, F!Barrier, FP!Barrier, F!Node, FP!Node, F!None, FP!None
<1>2. FindRoots
  BY <1>1, ReturnsTheRoots DEF FindRootsReturn, FindRoots
<1>3. IInv'
  BY <1>2, NextInv DEF TeamInv, Next
<1>4. AtRest
  <2>1. /\ pending \in [Node -> FP!Node \cup {FP!None}]
        /\ iterations \in [Thread -> SUBSET FP!Node]
        /\ jumped \in [Thread -> FP!Node \cup {FP!None}]
    BY <1>1 DEF FP!IInv, FP!TypeOK, FP!Node, Node
  <2>2. \A t \in Thread : iterations[t] = {} /\ jumped[t] = FP!None
    BY <1>1 DEF FP!Barrier, FP!IInv, FP!JumpedIsNewest, FP!Current
  <2>3. \A v \in Node : pending[v] = FP!None
    BY <1>1 DEF FP!Barrier, FP!Node, Node
  <2> QED
    BY <2>1, <2>2, <2>3 DEF AtRest
<1>5. returned' = TRUE /\ AtRest'
  BY <1>4 DEF FindRootsReturn, AtRest
<1> QED
  BY <1>2, <1>3, <1>5 DEF TeamInv

(* No thread moves, and no store is made, outside of find_roots. *)
LEMMA InsideOnly ==
  ASSUME TeamInv
  PROVE  /\ F!StartPass => ~ returned /\ returned' = FALSE
         /\ \A t \in Thread : F!Jump(t) \/ F!Check(t) => ~ returned /\ returned' = FALSE
         /\ \A v \in Node : F!Commit(v) => ~ returned /\ returned' = FALSE
<1>1. returned \in BOOLEAN /\ (returned => AtRest)
  BY DEF TeamInv
<1>2. F!StartPass => ~ returned /\ returned' = returned
  BY DEF F!StartPass
<1>3. ASSUME NEW t \in Thread, F!Jump(t) \/ F!Check(t)
      PROVE  ~ returned /\ returned' = returned
  BY <1>1, <1>3 DEF F!Jump, F!Check, F!Current, F!None, FP!None, AtRest
<1>4. ASSUME NEW v \in Node, F!Commit(v)
      PROVE  ~ returned /\ returned' = returned
  BY <1>1, <1>4 DEF F!Commit, F!None, FP!None, AtRest
<1> QED
  BY <1>1, <1>2, <1>3, <1>4

(* Every step of the composition is a step of the program or a stutter. *)
LEMMA TeamStep == TeamInv /\ [TeamNext]_teamVars => [Next]_vars /\ TeamInv'
<1> SUFFICES ASSUME TeamInv, [TeamNext]_teamVars PROVE [Next]_vars /\ TeamInv'
  OBVIOUS
<1>1. CASE Outside
  BY <1>1, OutsideStep
<1>2. CASE FindRootsCall
  BY <1>2, CallStep
<1>3. CASE Inside(F!StartPass)
  BY <1>3, StepsAgree, InsideOnly, InsideStep DEF Inside
<1>4. ASSUME NEW t \in Thread, Inside(F!Jump(t)) \/ Inside(F!Check(t))
      PROVE  [Next]_vars /\ TeamInv'
  BY <1>4, StepsAgree, InsideOnly, InsideStep DEF Inside
<1>5. ASSUME NEW v \in Node, Inside(F!Commit(v))
      PROVE  [Next]_vars /\ TeamInv'
  BY <1>5, StepsAgree, InsideOnly, InsideStep DEF Inside
<1>6. CASE FindRootsReturn
  BY <1>6, ReturnStep DEF Next
<1>7. CASE UNCHANGED teamVars
  <2>1. UNCHANGED vars /\ UNCHANGED frame
    BY <1>7 DEF teamVars
  <2>2. IInv'
    BY <2>1, NextInv DEF TeamInv
  <2>3. CASE returned
    BY <2>1, <2>2, <2>3 DEF TeamInv, AtRest, frame
  <2>4. CASE ~ returned
    <3>1. FP!IInv'
      BY <2>1, <2>4, TeamIsTeam, FP!NextInv DEF TeamInv, FP!vars, frame, vars, args
    <3> QED
      BY <2>1, <2>2, <2>4, <3>1 DEF TeamInv, frame, vars
  <2> QED
    BY <2>1, <2>3, <2>4
<1>8. CASE Terminated /\ UNCHANGED frame
  BY <1>7, <1>8 DEF Terminated, teamVars
<1> QED
  BY <1>1, <1>2, <1>3, <1>4, <1>5, <1>6, <1>7, <1>8 DEF TeamNext

(***************************************************************************)
(* The program whose threads race inside find_roots implements the program *)
(* in which find_roots is one call: in every round it returns the roots of *)
(* the labels that the racing hooks left.                                  *)
(***************************************************************************)
THEOREM TeamImplements == TeamSpec => Implements
<1>1. TeamInit => Init /\ TeamInv
  BY TeamInitInv DEF TeamInit
<1>2. TeamInv /\ [TeamNext]_teamVars => [Next]_vars /\ TeamInv'
  BY TeamStep
<1> QED
  BY <1>1, <1>2, PTL DEF TeamSpec, Implements, Spec

(***************************************************************************)
(* So it labels every vertex with the largest vertex of its component,     *)
(* whatever stores the hooks keep, whatever labels the jumps read.         *)
(***************************************************************************)
THEOREM TeamCorrect == TeamSpec => []Correct
BY TeamImplements, ProgramCorrect, PTL DEF Implements
=============================================================================
