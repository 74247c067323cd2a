------------------------ MODULE OmpRandomizedProofs ------------------------
(***************************************************************************)
(* The randomized OpenMP program, for every graph, every coin and every    *)
(* order of its racing iterations: its hooks build stars, a toss that      *)
(* separates an edge takes a root away, mapping back moves no root, every  *)
(* call is a round of Contraction, and the labels returned are the         *)
(* components.                                                             *)
(*                                                                         *)
(* The argument is a level for every vertex: the call in which it has      *)
(* hooked, or the innermost call if it has not.  Labels lead to higher     *)
(* levels along edges that the caller of that level still holds, so they   *)
(* form no cycle, and on the way up the edge is there to map the vertex.   *)
(* No variable of the program holds the levels; the invariant says that    *)
(* they exist.                                                             *)
(*                                                                         *)
(* The loop that tosses the coins is a specification of its own,           *)
(* CoinTosses; its theorems are at the end.                                *)
(***************************************************************************)
EXTENDS OmpRandomized, CoinTosses, GraphTheorems

Depth == Len(callers) + 1

(* Ends of edges of a call have not hooked before it.  A vertex hooks to a *)
(* vertex that has not, along an edge of the call; the label is kept until *)
(* that call maps back.                                                    *)
Kept == IF pc = "map_back" THEN Len(callers) ELSE Depth

Levels(d) ==
  /\ d \in [Node -> 1 .. Depth]
  /\ \A i \in 1 .. Len(callers) : \A p \in Pairs(callers[i]) : \A v \in p : i <= d[v]
  /\ \A v \in Node : d[v] < Depth => d[v] < d[labels[v]]
  /\ \A v \in Node : d[v] < Kept => {v, labels[v]} \in Pairs(callers[d[v]])

(* On the way down, a vertex that has hooked in this call is a tail, along *)
(* an edge to a head.                                                      *)
HasHooked(v) ==
  /\ pc # "call"
  /\ coin_toss[v] /\ ~ coin_toss[labels[v]]
  /\ {v, labels[v]} \in Pairs(edges)

Descending(d) ==
  pc \in {"call", "hook", "remove_edges"} =>
    /\ \A p \in Pairs(edges) : \A v \in p : d[v] = Depth
    /\ \A v \in Node : d[v] = Depth => labels[v] = v \/ HasHooked(v)

(* On the way up, a vertex that has been mapped has a root for its label.  *)
Ascending(d) ==
  pc \in {"return", "map_back", "returned"} =>
    \A v \in Node : d[v] = Depth => /\ labels[labels[v]] = labels[v]
                                    /\ d[labels[v]] = Depth

(* The iterations of the loop that maps back: each one writes the root of  *)
(* its target, ...                                                         *)
MapIteration(d, k) ==
  LET R == Roots(Node, labels)
      i == work[k]
  IN  \/ i.at \in {"test", "test_to", "done"}
      \/ /\ i.at = "load"
         /\ i.target \in Node /\ Len(callers) <= d[i.target]
         /\ i.value \in Node /\ d[i.value] = Depth
         /\ R[i.value] = R[i.target]
      \/ /\ i.at = "store"
         /\ i.target \in Node /\ Len(callers) <= d[i.target]
         /\ i.value = R[i.target]

(* ... and one is on the way to every vertex that is yet to be mapped.     *)
WillMap(k, v) ==
  /\ Pair(Level[k]) = {v, labels[v]}
  /\ \/ work[k].at = "test"
     \/ work[k].at = "test_to" /\ Level[k].to = v
     \/ work[k].at \in {"load", "store"} /\ work[k].target = v

Mapping(d) ==
  pc = "map_back" =>
    /\ DOMAIN work = DOMAIN Level
    /\ \A k \in DOMAIN work : MapIteration(d, k)
    /\ \A v \in Node : d[v] = Len(callers) =>
          \/ labels[labels[v]] = labels[v]
          \/ \E k \in DOMAIN work : WillMap(k, v)

Nested(d) == Levels(d) /\ Descending(d) /\ Ascending(d) /\ Mapping(d)

(* The iterations of the loop that hooks.                                  *)
ChildLost(e) == Separates(coin_toss, e) => labels[Child(e)] # Child(e)

HookIteration(k) ==
  \/ work[k].at = "test"
  \/ /\ work[k].at = "store"
     /\ Separates(coin_toss, edges[k])
     /\ work[k].target = Child(edges[k])
     /\ work[k].value = Parent(edges[k])
  \/ work[k].at = "done" /\ ChildLost(edges[k])

Hooking ==
  /\ pc = "hook" => /\ DOMAIN work = DOMAIN edges
                    /\ \A k \in DOMAIN work : HookIteration(k)
  /\ pc = "remove_edges" => \A k \in DOMAIN edges : ChildLost(edges[k])

Basics ==
  /\ input \in Inputs
  /\ edges \in Seq(UpEdges(Node))
  /\ callers \in Seq(Seq(UpEdges(Node)))
  /\ labels \in [Node -> Node]
  /\ coin_toss \in [Node -> BOOLEAN]
  /\ pc \in {"call", "hook", "remove_edges", "return", "map_back", "returned"}
  /\ pc \in {"call", "remove_edges", "return", "returned"} => work = <<>>
  /\ pc \in {"hook", "remove_edges"} => edges # <<>>
  /\ pc \in {"return", "map_back", "returned"} => edges = <<>>
  /\ pc = "map_back" => callers # <<>>
  /\ pc = "returned" => callers = <<>>

(* The inductive invariant.                                                *)
IInv ==
  /\ Basics
  /\ Hooking
  /\ \E d \in [Node -> 1 .. Depth] : Nested(d)

-----------------------------------------------------------------------------
(* Vertices are integers. *)
LEMMA NodeIsInt == Node \in SUBSET Int
<1>1. N \in Nat
  BY ConstantAssumption
<1> QED
  BY <1>1 DEF Node

(* The ends of an edge, as its pair and by their coins. *)
LEMMA PairOf ==
  ASSUME NEW s \in Seq(UpEdges(Node)), NEW k \in DOMAIN s
  PROVE  /\ Pair(s[k]) \in Pairs(s)
         /\ Pair(s[k]) = {s[k].from, s[k].to}
         /\ s[k] \in UpEdges(Node)
         /\ s[k].from \in Node /\ s[k].to \in Node /\ s[k].from # s[k].to
<1>1. s[k] \in UpEdges(Node)
  OBVIOUS
<1>2. s[k].from \in Node /\ s[k].to \in Node /\ s[k].from # s[k].to
  BY <1>1, NodeIsInt, UpEdgeEnds
<1> QED
  BY <1>1, <1>2 DEF Pairs, Pair

LEMMA PairsIn ==
  ASSUME NEW s \in Seq(UpEdges(Node)), NEW p \in Pairs(s)
  PROVE  /\ p \in SUBSET Node
         /\ \E k \in DOMAIN s : p = Pair(s[k])
<1>1. PICK k \in DOMAIN s : p = Pair(s[k])
  BY DEF Pairs
<1> QED
  BY <1>1, PairOf

LEMMA ChildAndParent ==
  ASSUME Basics, NEW e, e \in UpEdges(Node), Separates(coin_toss, e)
  PROVE  /\ Pair(e) = {Child(e), Parent(e)}
         /\ Child(e) \in Node /\ Parent(e) \in Node /\ Child(e) # Parent(e)
         /\ coin_toss[Child(e)] /\ ~ coin_toss[Parent(e)]
<1>1. coin_toss \in [Node -> BOOLEAN]
  BY DEF Basics
<1>2. /\ Pair(e) = {e.from, e.to} /\ Pair(e) = {e.to, e.from}
      /\ e.from \in Node /\ e.to \in Node /\ e.from # e.to
  BY NodeIsInt, UpEdgeEnds DEF Pair
<1>3. coin_toss[e.from] # coin_toss[e.to]
  BY DEF Separates
<1>4. CASE coin_toss[e.from]
  <2>1. Child(e) = e.from /\ Parent(e) = e.to
    BY <1>4 DEF Child, Parent
  <2>2. ~ coin_toss[e.to]
    BY <1>1, <1>2, <1>3, <1>4, Zenon
  <2> QED
    BY <1>2, <1>4, <2>1, <2>2, Zenon
<1>5. CASE ~ coin_toss[e.from]
  <2>1. Child(e) = e.to /\ Parent(e) = e.from
    BY <1>5 DEF Child, Parent
  <2>2. coin_toss[e.to]
    BY <1>1, <1>2, <1>3, <1>5, Zenon
  <2> QED
    BY <1>2, <1>5, <2>1, <2>2, Zenon
<1> QED
  BY <1>4, <1>5

-----------------------------------------------------------------------------
(* What main reads satisfies the invariant. *)
LEMMA InitInv == Init => IInv
<1> SUFFICES ASSUME Init PROVE IInv
  OBVIOUS
<1>1. /\ edges \in Seq(UpEdges(Node)) /\ input \in Inputs
      /\ pc = "call" /\ work = <<>> /\ callers = <<>>
      /\ labels = [v \in Node |-> v] /\ coin_toss \in [Node -> BOOLEAN]
  BY ConstantAssumption, NodeIsInt, ReadEdgesType DEF Init, UpEdges
<1>2. Depth = 1 /\ Len(callers) = 0
  BY <1>1 DEF Depth
<1>3. Basics /\ Hooking
  BY <1>1 DEF Basics, Hooking
<1>4. PICK d \in [Node -> 1 .. 1] : \A v \in Node : d[v] = 1
  <2>1. [v \in Node |-> 1] \in [Node -> 1 .. 1]
    OBVIOUS
  <2> QED
    BY <2>1
<1>5. Levels(d)
  BY <1>1, <1>2, <1>4 DEF Levels, Kept
<1>6. Descending(d)
  BY <1>1, <1>2, <1>4, PairsIn DEF Descending
<1>7. Ascending(d) /\ Mapping(d)
  BY <1>1 DEF Ascending, Mapping
<1> QED
  BY <1>2, <1>3, <1>5, <1>6, <1>7 DEF IInv, Nested

(* On the way down the vertices that have not hooked are roots, ...        *)
LEMMA CallInv == IInv /\ Call => IInv'
<1> SUFFICES ASSUME IInv, Call PROVE IInv'
  OBVIOUS
<1>1. Basics /\ Hooking
  BY DEF IInv
<1>2. PICK d \in [Node -> 1 .. Depth] : Nested(d)
  BY DEF IInv
<1>3. Levels(d) /\ Descending(d)
  BY <1>2 DEF Nested
<1>4. /\ pc = "call"
      /\ input' = input /\ edges' = edges /\ callers' = callers /\ labels' = labels
  BY DEF Call
<1>5. Depth' = Depth /\ Kept' = Depth /\ Kept = Depth
  BY <1>4 DEF Depth, Kept, Call
<1>6. Levels(d)'
  BY <1>3, <1>4, <1>5 DEF Levels
<1>7. \A v \in Node : d[v] = Depth => labels[v] = v
  BY <1>3, <1>4 DEF Descending, HasHooked
<1>8. CASE edges = <<>>
  <2>1. pc' = "return" /\ coin_toss' = coin_toss /\ work' = work
    BY <1>8 DEF Call
  <2>2. Basics' /\ Hooking' /\ Descending(d)' /\ Mapping(d)'
    BY <1>1, <1>4, <1>8, <2>1 DEF Basics, Hooking, Descending, Mapping
  <2>3. Ascending(d)'
    BY <1>4, <1>5, <1>7 DEF Ascending
  <2> QED
    BY <1>2, <1>5, <1>6, <2>2, <2>3 DEF IInv, Nested
<1>9. CASE edges # <<>>
  <2>1. pc' = "hook" /\ coin_toss' \in [Node -> BOOLEAN] /\ work' = Started(edges)
    BY <1>9 DEF Call
  <2>2. Basics'
    BY <1>1, <1>4, <1>9, <2>1 DEF Basics
  <2>3. Hooking'
    BY <1>4, <2>1 DEF Hooking, HookIteration, Started, At
  <2>4. Descending(d)' /\ Ascending(d)' /\ Mapping(d)'
    BY <1>3, <1>4, <1>5, <1>7, <2>1 DEF Descending, Ascending, Mapping
  <2> QED
    BY <1>2, <1>5, <1>6, <2>2, <2>3, <2>4 DEF IInv, Nested
<1> QED
  BY <1>8, <1>9

(* ... and so are the heads while the tails hook, ...                      *)
LEMMA HeadsStay ==
  ASSUME Basics, NEW d, Levels(d), Descending(d), pc \in {"hook", "remove_edges"},
         NEW v \in Node, d[v] = Depth
  PROVE  /\ labels[labels[v]] = labels[v]
         /\ d[labels[v]] = Depth
         /\ ~ coin_toss[v] => labels[v] = v
<1>1. labels[v] = v \/ HasHooked(v)
  BY DEF Descending
<1>2. CASE labels[v] = v
  BY <1>2
<1>3. CASE labels[v] # v
  <2>1. /\ coin_toss[v] /\ ~ coin_toss[labels[v]]
        /\ {v, labels[v]} \in Pairs(edges)
    BY <1>1, <1>3 DEF HasHooked
  <2>2. labels[v] \in Node /\ d[labels[v]] = Depth
    BY <2>1 DEF Descending, Basics
  <2>3. labels[labels[v]] = labels[v] \/ HasHooked(labels[v])
    BY <2>2 DEF Descending
  <2> QED
    BY <2>1, <2>2, <2>3 DEF HasHooked
<1> QED
  BY <1>2, <1>3

(* An iteration that tests its edge knows what it will store. *)
LEMMA HookTestInv == ASSUME NEW k \in DOMAIN work PROVE IInv /\ HookTest(k) => IInv'
<1> SUFFICES ASSUME IInv, HookTest(k) PROVE IInv'
  OBVIOUS
<1> DEFINE e == edges[k]
           w == IF Separates(coin_toss, e) THEN At("store", Child(e), labels[Parent(e)])
                                           ELSE At("done", 0, 0)
<1>1. Basics /\ Hooking
  BY DEF IInv
<1>2. PICK d \in [Node -> 1 .. Depth] : Nested(d)
  BY DEF IInv
<1>3. Levels(d) /\ Descending(d) /\ Ascending(d)
  BY <1>2 DEF Nested
<1>4. /\ pc = "hook" /\ pc' = "hook" /\ input' = input /\ edges' = edges
      /\ callers' = callers /\ labels' = labels /\ coin_toss' = coin_toss
      /\ work' = [work EXCEPT ![k] = w]
  BY DEF HookTest
<1>5. DOMAIN work = DOMAIN edges /\ \A j \in DOMAIN work : HookIteration(j)
  BY <1>1, <1>4 DEF Hooking
<1>6. edges \in Seq(UpEdges(Node)) /\ e \in UpEdges(Node) /\ Pair(e) \in Pairs(edges)
  BY <1>1, <1>5, PairOf DEF Basics
<1>7. ASSUME Separates(coin_toss, e) PROVE labels[Parent(e)] = Parent(e)
  <2>1. Parent(e) \in Node /\ Parent(e) \in Pair(e) /\ ~ coin_toss[Parent(e)]
    BY <1>1, <1>6, <1>7, ChildAndParent
  <2>2. d[Parent(e)] = Depth
    BY <1>3, <1>4, <1>6, <2>1 DEF Descending
  <2> QED
    BY <1>1, <1>3, <1>4, <2>1, <2>2, HeadsStay
<1>8. Child(e)' = Child(e) /\ Parent(e)' = Parent(e)
  BY <1>4 DEF Child, Parent
<1>9. HookIteration(k)'
  <2>1. work'[k] = w
    BY <1>4
  <2>2. CASE Separates(coin_toss, e)
    <3>1. work'[k] = At("store", Child(e), Parent(e))
      BY <1>7, <2>1, <2>2
    <3> QED
      BY <1>4, <1>8, <2>2, <3>1 DEF HookIteration, At
  <2>3. CASE ~ Separates(coin_toss, e)
    <3>1. work'[k] = At("done", 0, 0)
      BY <2>1, <2>3
    <3> QED
      BY <1>4, <2>3, <3>1 DEF HookIteration, At, ChildLost
  <2> QED
    BY <2>2, <2>3
<1> HIDE DEF w
<1>10. ASSUME NEW j \in DOMAIN work, j # k PROVE HookIteration(j)'
  <2>1. work'[j] = work[j] /\ HookIteration(j)
    BY <1>4, <1>5, <1>10
  <2> QED
    BY <1>4, <2>1 DEF HookIteration, ChildLost, Child, Parent
<1>11. Hooking'
  BY <1>4, <1>5, <1>9, <1>10 DEF Hooking
<1>12. Depth' = Depth /\ Kept' = Kept
  BY <1>4 DEF Depth, Kept
<1>13. Levels(d)' /\ Descending(d)' /\ Ascending(d)' /\ Mapping(d)'
  BY <1>3, <1>4, <1>12 DEF Levels, Descending, HasHooked, Ascending, Mapping
<1>14. Basics'
  BY <1>1, <1>4 DEF Basics
<1> QED
  BY <1>2, <1>11, <1>12, <1>13, <1>14 DEF IInv, Nested

(* ... whichever hook overwrites which: the label of a tail is a head.     *)
LEMMA HookStoreInv ==
  ASSUME NEW k \in DOMAIN work PROVE IInv /\ pc = "hook" /\ Store(k) => IInv'
<1> SUFFICES ASSUME IInv, pc = "hook", Store(k) PROVE IInv'
  OBVIOUS
<1> DEFINE c == Child(edges[k])
           p == Parent(edges[k])
<1>1. Basics /\ Hooking
  BY DEF IInv
<1>2. PICK d \in [Node -> 1 .. Depth] : Nested(d)
  BY DEF IInv
<1>3. Levels(d) /\ Descending(d)
  BY <1>2 DEF Nested
<1>4. DOMAIN work = DOMAIN edges /\ \A j \in DOMAIN work : HookIteration(j)
  BY <1>1 DEF Hooking
<1>5. /\ Separates(coin_toss, edges[k])
      /\ work[k].target = c /\ work[k].value = p
  BY <1>4 DEF HookIteration, Store
<1>6. /\ pc' = "hook" /\ input' = input /\ edges' = edges
      /\ callers' = callers /\ coin_toss' = coin_toss
      /\ labels' = [labels EXCEPT ![c] = p]
      /\ work' = [work EXCEPT ![k] = At("done", 0, 0)]
  BY <1>5 DEF Store
<1>7. edges \in Seq(UpEdges(Node)) /\ edges[k] \in UpEdges(Node) /\ Pair(edges[k]) \in Pairs(edges)
  BY <1>1, <1>4, PairOf DEF Basics
<1>8. /\ Pair(edges[k]) = {c, p} /\ c \in Node /\ p \in Node /\ c # p
      /\ coin_toss[c] /\ ~ coin_toss[p]
  BY <1>1, <1>5, <1>7, ChildAndParent
<1>9. /\ \A e : Child(e)' = Child(e) /\ Parent(e)' = Parent(e)
      /\ \A e : Separates(coin_toss, e)' = Separates(coin_toss, e)
  BY <1>6 DEF Child, Parent, Separates
<1> HIDE DEF c, p
<1>10. d[c] = Depth
  BY <1>3, <1>7, <1>8 DEF Descending
<1>11. /\ labels' \in [Node -> Node] /\ labels'[c] = p
       /\ \A v \in Node : v # c => labels'[v] = labels[v]
  BY <1>1, <1>6, <1>8 DEF Basics
<1>12. Depth' = Depth /\ Kept' = Depth /\ Kept = Depth
  BY <1>6 DEF Depth, Kept
<1>13. Levels(d)'
  <2>1. \A v \in Node : d[v] < Depth => labels'[v] = labels[v]
    BY <1>2, <1>10, <1>11
  <2> QED
    BY <1>3, <1>6, <1>12, <2>1 DEF Levels
<1>14. Descending(d)'
  <2>1. ASSUME NEW v \in Node, d[v] = Depth
        PROVE  labels'[v] = v \/ HasHooked(v)'
    <3>1. CASE v = c
      BY <1>6, <1>7, <1>8, <1>11, <3>1 DEF HasHooked
    <3>2. CASE v # c
      <4>1. labels[v] = v \/ HasHooked(v)
        BY <1>3, <2>1 DEF Descending
      <4> QED
        BY <1>6, <1>11, <3>2, <4>1 DEF HasHooked
    <3> QED
      BY <3>1, <3>2
  <2> QED
    BY <1>3, <1>6, <1>12, <2>1 DEF Descending
<1>15. ASSUME NEW j \in DOMAIN work PROVE HookIteration(j)'
  <2>1. /\ edges[j] \in UpEdges(Node)
        /\ Separates(coin_toss, edges[j]) => Child(edges[j]) \in Node
    BY <1>1, <1>4, <1>7, ChildAndParent
  <2>2. HookIteration(j)
    BY <1>4
  <2>3. CASE j = k
    <3>1. work'[j] = At("done", 0, 0)
      BY <1>6, <2>3
    <3>2. labels'[c] # c
      BY <1>8, <1>11
    <3> QED
      BY <1>6, <1>9, <2>3, <3>1, <3>2 DEF HookIteration, At, ChildLost, c
  <2>4. CASE j # k
    <3>1. work'[j] = work[j]
      BY <1>6, <2>4
    <3>2. ChildLost(edges[j]) => ChildLost(edges[j])'
      BY <1>6, <1>8, <1>9, <1>11, <2>1 DEF ChildLost
    <3> QED
      BY <1>6, <1>9, <2>2, <3>1, <3>2 DEF HookIteration
  <2> QED
    BY <2>3, <2>4
<1>16. Hooking'
  BY <1>4, <1>6, <1>15 DEF Hooking
<1>17. Basics' /\ Ascending(d)' /\ Mapping(d)'
  BY <1>1, <1>6, <1>11 DEF Basics, Ascending, Mapping
<1> QED
  BY <1>2, <1>12, <1>13, <1>14, <1>16, <1>17 DEF IInv, Nested

(* Every edge that the coins separate has then cost a root.                *)
LEMMA HookEndInv == IInv /\ HookEnd => IInv'
<1> SUFFICES ASSUME IInv, HookEnd PROVE IInv'
  OBVIOUS
<1>1. Basics /\ Hooking
  BY DEF IInv
<1>2. PICK d \in [Node -> 1 .. Depth] : Nested(d)
  BY DEF IInv
<1>3. Levels(d) /\ Descending(d)
  BY <1>2 DEF Nested
<1>4. /\ pc = "hook" /\ pc' = "remove_edges" /\ work' = <<>>
      /\ input' = input /\ edges' = edges /\ callers' = callers
      /\ labels' = labels /\ coin_toss' = coin_toss
      /\ \A k \in DOMAIN work : work[k].at = "done"
  BY DEF HookEnd, Finished
<1>5. \A k \in DOMAIN edges : ChildLost(edges[k])
  BY <1>1, <1>4 DEF Hooking, HookIteration
<1>6. Hooking'
  BY <1>4, <1>5 DEF Hooking, ChildLost, Child, Parent
<1>7. Depth' = Depth /\ Kept' = Kept
  BY <1>4 DEF Depth, Kept
<1>8. Levels(d)' /\ Descending(d)' /\ Ascending(d)' /\ Mapping(d)'
  BY <1>3, <1>4, <1>7 DEF Levels, Descending, HasHooked, Ascending, Mapping
<1>9. Basics'
  BY <1>1, <1>4 DEF Basics
<1> QED
  BY <1>2, <1>6, <1>7, <1>8, <1>9 DEF IInv, Nested

(* The next call takes the heads and leaves the tails to this one.         *)
LEMMA RemoveInternalEdgesInv == IInv /\ RemoveInternalEdges => IInv'
<1> SUFFICES ASSUME IInv, RemoveInternalEdges PROVE IInv'
  OBVIOUS
<1> DEFINE n == Depth
<1>1. Basics /\ Hooking
  BY DEF IInv
<1>2. PICK d \in [Node -> 1 .. Depth] : Nested(d)
  BY DEF IInv
<1>3. Levels(d) /\ Descending(d)
  BY <1>2 DEF Nested
<1>4. /\ pc = "remove_edges" /\ pc' = "call" /\ input' = input /\ labels' = labels
      /\ coin_toss' = coin_toss /\ work' = work /\ work = <<>>
      /\ edges' = RemoveEdges(edges, labels) /\ callers' = Append(callers, edges)
  BY <1>1 DEF RemoveInternalEdges, Basics
<1>5. /\ edges \in Seq(UpEdges(Node)) /\ callers \in Seq(Seq(UpEdges(Node)))
      /\ labels \in [Node -> Node]
  BY <1>1 DEF Basics
<1>6. /\ n \in Nat \ {0} /\ Len(callers) = n - 1 /\ Len(callers') = n
      /\ \A i \in 1 .. n-1 : callers'[i] = callers[i]
      /\ callers'[n] = edges /\ callers' \in Seq(Seq(UpEdges(Node)))
  BY <1>4, <1>5 DEF Depth
<1>7. Depth' = n + 1 /\ Kept' = n + 1 /\ Kept = n
  BY <1>4, <1>6 DEF Depth, Kept
<1>8. ASSUME NEW v \in Node, d[v] = n
      PROVE  /\ labels[v] \in Node /\ labels[labels[v]] = labels[v] /\ d[labels[v]] = n
             /\ labels[v] # v => {v, labels[v]} \in Pairs(edges)
  <2>1. labels[v] \in Node
    BY <1>5
  <2>2. labels[labels[v]] = labels[v] /\ d[labels[v]] = n
    BY <1>1, <1>3, <1>4, <1>8, HeadsStay
  <2>3. labels[v] = v \/ HasHooked(v)
    BY <1>3, <1>4, <1>8 DEF Descending
  <2> QED
    BY <2>1, <2>2, <2>3 DEF HasHooked
<1>9. edges' \in Seq(UpEdges(Node)) /\ Pairs(edges') = MergedPairs(Pairs(edges), labels)
  BY <1>4, <1>5, NodeIsInt, RemoveEdgesType, FilterRelabels
<1> HIDE DEF n
<1>10. PICK e \in [Node -> 1 .. n+1] :
          \A v \in Node : e[v] = IF d[v] < n THEN d[v]
                                 ELSE IF labels[v] = v THEN n + 1 ELSE n
  <2> DEFINE f == [v \in Node |-> IF d[v] < n THEN d[v]
                                  ELSE IF labels[v] = v THEN n + 1 ELSE n]
  <2>1. \A v \in Node : d[v] \in 1 .. n
    BY <1>2 DEF n
  <2>2. f \in [Node -> 1 .. n+1]
    BY <1>6, <2>1
  <2> QED
    BY <2>2
<1>11. \A v \in Node : d[v] \in 1 .. n /\ (d[v] < n \/ d[v] = n) /\ d[v] <= e[v]
  <2>1. \A v \in Node : d[v] \in 1 .. n
    BY <1>2 DEF n
  <2> QED
    BY <1>6, <1>10, <2>1
<1>12. ASSUME NEW v \in Node, d[v] = n PROVE e[labels[v]] = n + 1
  <2> DEFINE r == labels[v]
  <2>1. r \in Node /\ labels[r] = r /\ d[r] = n
    BY <1>8, <1>12
  <2> HIDE DEF r
  <2>2. ~ (d[r] < n)
    BY <1>6, <2>1
  <2>3. e[r] = n + 1
    BY <1>10, <2>1, <2>2
  <2> QED
    BY <2>3 DEF r
<1>13. \A p \in Pairs(edges) : \A v \in p : v \in Node /\ d[v] = n
  BY <1>3, <1>4, <1>5, PairsIn DEF Descending, n
<1>14. Levels(e)'
  <2>1. ASSUME NEW i \in 1 .. n, NEW q \in Pairs(callers'[i]), NEW v \in q PROVE i <= e[v]
    <3>1. CASE i = n
      BY <1>6, <1>10, <1>13, <3>1
    <3>2. CASE i # n
      <4>1. i \in 1 .. n-1 /\ callers'[i] = callers[i] /\ callers[i] \in Seq(UpEdges(Node))
        BY <1>5, <1>6, <3>2
      <4>2. v \in Node
        BY <4>1, PairsIn
      <4>3. i <= d[v]
        BY <1>3, <1>6, <4>1 DEF Levels
      <4> QED
        BY <1>10, <1>11, <4>2, <4>3
    <3> QED
      BY <3>1, <3>2
  <2>2. ASSUME NEW v \in Node, e[v] < n + 1
        PROVE  e[v] < e[labels[v]] /\ {v, labels[v]} \in Pairs(callers'[e[v]])
    <3>1. CASE d[v] < n
      <4>1. e[v] = d[v] /\ e[v] \in 1 .. n-1 /\ labels[v] \in Node
        BY <1>5, <1>6, <1>10, <1>11, <3>1
      <4>2. d[v] < d[labels[v]] /\ {v, labels[v]} \in Pairs(callers[d[v]])
        BY <1>3, <1>7, <3>1 DEF Levels, n
      <4> QED
        BY <1>6, <1>10, <1>11, <4>1, <4>2
    <3>2. CASE d[v] = n
      <4>1. e[v] = n /\ labels[v] # v
        BY <1>6, <1>10, <2>2, <3>2
      <4>2. e[labels[v]] = n + 1
        BY <1>12, <3>2
      <4>3. {v, labels[v]} \in Pairs(callers'[n])
        BY <1>6, <1>8, <3>2, <4>1
      <4>4. n < n + 1
        BY <1>6
      <4> QED
        BY <4>1, <4>2, <4>3, <4>4
    <3> QED
      BY <1>11, <3>1, <3>2
  <2> QED
    BY <1>4, <1>6, <1>7, <1>10, <2>1, <2>2 DEF Levels
<1>15. Descending(e)'
  <2>1. ASSUME NEW p \in Pairs(edges'), NEW v \in p PROVE e[v] = n + 1
    <3>1. PICK q \in Pairs(edges) : p = {labels[w] : w \in q}
      BY <1>9 DEF MergedPairs
    <3>2. PICK w \in q : v = labels[w]
      BY <3>1
    <3>3. w \in Node /\ d[w] = n
      BY <1>13
    <3> QED
      BY <1>12, <3>2, <3>3
  <2>2. ASSUME NEW v \in Node, e[v] = n + 1 PROVE labels[v] = v
    BY <1>6, <1>10, <1>11, <2>2
  <2> QED
    BY <1>4, <1>7, <2>1, <2>2 DEF Descending
<1>16. Basics' /\ Hooking' /\ Ascending(e)' /\ Mapping(e)'
  BY <1>1, <1>4, <1>6, <1>9 DEF Basics, Hooking, Ascending, Mapping
<1> QED
  BY <1>7, <1>10, <1>14, <1>15, <1>16 DEF IInv, Nested

-----------------------------------------------------------------------------
(* Labels never form a cycle. *)
LEMMA LabelsForest == IInv => IsForest(Node, labels)
<1> SUFFICES ASSUME IInv PROVE IsForest(Node, labels)
  OBVIOUS
<1>1. Basics
  BY DEF IInv
<1>2. PICK d \in [Node -> 1 .. Depth] : Nested(d)
  BY DEF IInv
<1>3. Levels(d) /\ Descending(d) /\ Ascending(d)
  BY <1>2 DEF Nested
<1>4. labels \in [Node -> Node] /\ Depth \in Nat
  BY <1>1 DEF Basics, Depth
<1>5. ASSUME NEW v \in Node, d[v] = Depth PROVE labels[labels[v]] = labels[v]
  <2>1. CASE pc \in {"hook", "remove_edges"}
    BY <1>1, <1>3, <1>5, <2>1, HeadsStay
  <2>2. CASE pc = "call"
    BY <1>3, <1>5, <2>2 DEF Descending, HasHooked
  <2>3. CASE pc \in {"return", "map_back", "returned"}
    BY <1>3, <1>5, <2>3 DEF Ascending
  <2> QED
    BY <1>1, <2>1, <2>2, <2>3 DEF Basics
<1>6. \A v \in Node : labels[labels[v]] = labels[v] \/ d[v] < d[labels[v]]
  <2>1. \A v \in Node : d[v] \in 1 .. Depth /\ (d[v] = Depth \/ d[v] < Depth)
    BY <1>2, <1>4
  <2> QED
    BY <1>3, <1>5, <2>1 DEF Levels
<1> QED
  BY <1>2, <1>4, <1>6, RankedForest

(* The edges that a caller maps back with. *)
LEMMA LevelType ==
  ASSUME Basics, callers # <<>>
  PROVE  /\ Level \in Seq(UpEdges(Node))
         /\ Len(callers) \in Nat \ {0} /\ Len(callers) \in 1 .. Len(callers)
         /\ Depth = Len(callers) + 1
<1>1. callers \in Seq(Seq(UpEdges(Node))) /\ Len(callers) \in Nat \ {0}
  BY DEF Basics
<1> QED
  BY <1>1 DEF Level, Depth

(* The loop that maps back begins: every vertex that hooked in this call   *)
(* has its edge there.                                                     *)
LEMMA ReturnInv == IInv /\ Return => IInv'
<1> SUFFICES ASSUME IInv, Return PROVE IInv'
  OBVIOUS
<1>1. Basics /\ Hooking
  BY DEF IInv
<1>2. PICK d \in [Node -> 1 .. Depth] : Nested(d)
  BY DEF IInv
<1>3. Levels(d) /\ Ascending(d)
  BY <1>2 DEF Nested
<1>4. /\ pc = "return" /\ input' = input /\ edges' = edges /\ callers' = callers
      /\ labels' = labels /\ coin_toss' = coin_toss /\ Depth' = Depth /\ Kept = Depth
  BY DEF Return, Depth, Kept
<1>5. CASE callers = <<>>
  <2>1. pc' = "returned" /\ work' = work /\ Kept' = Depth
    BY <1>4, <1>5 DEF Return, Kept
  <2>2. Basics' /\ Hooking' /\ Levels(d)' /\ Descending(d)' /\ Ascending(d)' /\ Mapping(d)'
    BY <1>1, <1>3, <1>4, <1>5, <2>1
       DEF Basics, Hooking, Levels, Descending, Ascending, Mapping
  <2> QED
    BY <1>2, <1>4, <2>2 DEF IInv, Nested
<1>6. CASE callers # <<>>
  <2>1. pc' = "map_back" /\ work' = Started(Level) /\ Kept' = Len(callers) /\ Level' = Level
    BY <1>4, <1>6 DEF Return, Kept, Level
  <2>2. /\ Level \in Seq(UpEdges(Node))
        /\ Len(callers) \in Nat \ {0} /\ Depth = Len(callers) + 1
    BY <1>1, <1>6, LevelType
  <2>3. Levels(d)'
    <3>1. \A v \in Node : d[v] < Len(callers) => d[v] < Depth
      BY <1>2, <2>2
    <3> QED
      BY <1>3, <1>4, <2>1, <3>1 DEF Levels
  <2>4. DOMAIN work' = DOMAIN Level /\ \A k \in DOMAIN Level : work'[k].at = "test"
    BY <2>1 DEF Started, At
  <2>5. ASSUME NEW v \in Node, d[v] = Len(callers) PROVE \E k \in DOMAIN Level : WillMap(k, v)'
    <3>1. d[v] < Depth /\ callers[d[v]] = Level
      BY <2>2, <2>5 DEF Level
    <3>2. {v, labels[v]} \in Pairs(Level)
      BY <1>3, <1>4, <3>1 DEF Levels
    <3>3. PICK k \in DOMAIN Level : Pair(Level[k]) = {v, labels[v]}
      BY <3>2 DEF Pairs
    <3> QED
      BY <1>4, <2>1, <2>4, <3>3 DEF WillMap
  <2>6. Mapping(d)'
    BY <1>4, <2>1, <2>4, <2>5 DEF Mapping, MapIteration
  <2>7. Basics' /\ Hooking' /\ Descending(d)' /\ Ascending(d)'
    BY <1>1, <1>3, <1>4, <1>6, <2>1 DEF Basics, Hooking, Descending, Ascending
  <2> QED
    BY <1>2, <1>4, <2>3, <2>6, <2>7 DEF IInv, Nested
<1> QED
  BY <1>5, <1>6

-----------------------------------------------------------------------------
(* While a caller maps back: its edges lie at its level or above, and the  *)
(* labels of their ends above.                                             *)
LEMMA LevelEnds ==
  ASSUME Basics, NEW d \in [Node -> 1 .. Depth], Nested(d), pc = "map_back",
         NEW v \in Node, Len(callers) <= d[v]
  PROVE  /\ labels[v] \in Node /\ d[labels[v]] = Depth /\ d[labels[v]] # Len(callers)
         /\ d[v] = Len(callers) \/ d[v] = Depth
<1>1. Len(callers) \in Nat \ {0} /\ Depth = Len(callers) + 1
  BY LevelType DEF Basics
<1>2. labels[v] \in Node /\ d[labels[v]] \in 1 .. Depth /\ d[v] \in 1 .. Depth
  BY DEF Basics
<1>3. d[v] = Len(callers) \/ d[v] = Depth
  BY <1>1, <1>2
<1>4. d[v] = Len(callers) => d[labels[v]] = Depth
  BY <1>1, <1>2 DEF Nested, Levels
<1>5. d[v] = Depth => d[labels[v]] = Depth
  BY DEF Nested, Ascending
<1> QED
  BY <1>1, <1>2, <1>3, <1>4, <1>5

LEMMA LevelEdge ==
  ASSUME Basics, NEW d, Nested(d), pc = "map_back", NEW k \in DOMAIN Level
  PROVE  /\ Level[k].from \in Node /\ Len(callers) <= d[Level[k].from]
         /\ Level[k].to \in Node /\ Len(callers) <= d[Level[k].to]
         /\ Pair(Level[k]) = {Level[k].from, Level[k].to}
         /\ Level[k].from # Level[k].to
<1>1. Level \in Seq(UpEdges(Node)) /\ Len(callers) \in 1 .. Len(callers)
  BY LevelType DEF Basics
<1>2. /\ Level[k].from \in Node /\ Level[k].to \in Node /\ Level[k].from # Level[k].to
      /\ Pair(Level[k]) = {Level[k].from, Level[k].to}
      /\ Pair(Level[k]) \in Pairs(Level)
  BY <1>1, PairOf
<1>3. \A v \in Pair(Level[k]) : Len(callers) <= d[v]
  BY <1>1, <1>2 DEF Nested, Levels, Level
<1> QED
  BY <1>2, <1>3

(* The steps of an iteration ahead of its write. *)
LEMMA MapAheadInv ==
  ASSUME IInv, NEW d \in [Node -> 1 .. Depth], Nested(d), pc = "map_back", pc' = pc,
         NEW k \in DOMAIN work, NEW w, work' = [work EXCEPT ![k] = w],
         UNCHANGED <<input, edges, callers, labels, coin_toss>>,
         MapIteration(d, k)',
         \A v \in Node : d[v] = Len(callers) /\ WillMap(k, v) => WillMap(k, v)'
  PROVE  IInv'
<1>1. Basics /\ Hooking /\ Levels(d) /\ Descending(d) /\ Ascending(d)
  BY DEF IInv, Nested
<1>2. /\ DOMAIN work = DOMAIN Level
      /\ \A j \in DOMAIN work : MapIteration(d, j)
      /\ \A v \in Node : d[v] = Len(callers) =>
            labels[labels[v]] = labels[v] \/ \E j \in DOMAIN work : WillMap(j, v)
  BY DEF Nested, Mapping
<1>3. Depth' = Depth /\ Kept' = Kept /\ Level' = Level /\ DOMAIN work' = DOMAIN work
  BY DEF Depth, Kept, Level
<1>4. ASSUME NEW j \in DOMAIN work, j # k
      PROVE  /\ MapIteration(d, j)'
             /\ \A v \in Node : WillMap(j, v) => WillMap(j, v)'
  <2>1. work'[j] = work[j] /\ MapIteration(d, j)
    BY <1>2, <1>4
  <2>2. MapIteration(d, j)'
    BY <1>3, <2>1 DEF MapIteration
  <2>3. \A v \in Node : WillMap(j, v) => WillMap(j, v)'
    BY <1>3, <2>1 DEF WillMap
  <2> QED
    BY <2>2, <2>3
<1>5. Mapping(d)'
  <2>1. \A j \in DOMAIN work : MapIteration(d, j)'
    BY <1>4
  <2>2. ASSUME NEW v \in Node, d[v] = Len(callers), labels[labels[v]] # labels[v]
        PROVE  \E j \in DOMAIN work : WillMap(j, v)'
    BY <1>2, <1>4, <2>2
  <2>3. \A v \in Node : d[v] = Len(callers)' =>
           labels'[labels'[v]] = labels'[v] \/ \E j \in DOMAIN work' : WillMap(j, v)'
    BY <1>3, <2>2
  <2> QED
    BY <1>2, <1>3, <2>1, <2>3 DEF Mapping
<1>6. Levels(d)' /\ Descending(d)' /\ Ascending(d)'
  BY <1>1, <1>3 DEF Levels, Descending, Ascending
<1>7. Basics' /\ Hooking'
  BY <1>1 DEF Basics, Hooking
<1> QED
  BY <1>3, <1>5, <1>6, <1>7 DEF IInv, Nested

(* The label of an end of an edge is read: if it is the other end, their   *)
(* root is what the other end leads to.                                    *)
LEMMA LoadIteration ==
  ASSUME IInv, NEW d \in [Node -> 1 .. Depth], Nested(d), pc = "map_back", pc' = pc,
         UNCHANGED <<callers, labels>>,
         NEW k, NEW v \in Node, Len(callers) <= d[v],
         work'[k] = At("load", v, labels[v])
  PROVE  MapIteration(d, k)'
<1>1. Basics /\ IsForest(Node, labels)
  BY LabelsForest DEF IInv
<1>2. labels[v] \in Node /\ d[labels[v]] = Depth
  BY <1>1, LevelEnds
<1>3. Roots(Node, labels)[labels[v]] = Roots(Node, labels)[v]
  BY <1>1, RootsOfForest
<1>4. Depth' = Depth /\ Roots(Node, labels') = Roots(Node, labels)
  BY DEF Depth
<1> QED
  BY <1>2, <1>3, <1>4 DEF MapIteration, At

LEMMA MapTestFromInv == ASSUME NEW k \in DOMAIN work PROVE IInv /\ MapTestFrom(k) => IInv'
<1> SUFFICES ASSUME IInv, MapTestFrom(k) PROVE IInv'
  OBVIOUS
<1> DEFINE a == Level[k].from
           b == Level[k].to
           w == IF b = labels[a] THEN At("load", a, b) ELSE At("test_to", 0, 0)
<1>1. PICK d \in [Node -> 1 .. Depth] : Nested(d)
  BY DEF IInv
<1>2. /\ pc = "map_back" /\ pc' = pc /\ work[k].at = "test"
      /\ work' = [work EXCEPT ![k] = w] /\ work'[k] = w
      /\ UNCHANGED <<input, edges, callers, labels, coin_toss>>
  BY DEF MapTestFrom
<1>3. Basics /\ k \in DOMAIN Level
  BY <1>1, <1>2 DEF IInv, Nested, Mapping
<1>4. /\ a \in Node /\ Len(callers) <= d[a] /\ b \in Node /\ Len(callers) <= d[b]
      /\ Pair(Level[k]) = {a, b} /\ a # b
  BY <1>1, <1>2, <1>3, LevelEdge
<1>5. d[labels[a]] # Len(callers)
  BY <1>1, <1>2, <1>3, <1>4, LevelEnds
<1> HIDE DEF a, b
<1>6. MapIteration(d, k)'
  <2>1. CASE b = labels[a]
    <3>1. work'[k] = At("load", a, labels[a])
      BY <1>2, <2>1
    <3> QED
      BY <1>1, <1>2, <1>4, <3>1, LoadIteration
  <2>2. CASE b # labels[a]
    BY <1>2, <2>2 DEF MapIteration, At
  <2> QED
    BY <2>1, <2>2
<1>7. ASSUME NEW v \in Node, d[v] = Len(callers), WillMap(k, v)
      PROVE  WillMap(k, v)'
  <2>1. {a, b} = {v, labels[v]} /\ Pair(Level[k])' = {v, labels'[v]} /\ Level' = Level
    BY <1>2, <1>4, <1>7 DEF WillMap, Level
  <2>2. CASE v = a
    <3>1. b = labels[a]
      BY <1>4, <2>1, <2>2
    <3>2. work'[k].at = "load" /\ work'[k].target = v
      BY <1>2, <2>2, <3>1 DEF At
    <3> QED
      BY <2>1, <3>2 DEF WillMap
  <2>3. CASE v # a
    <3>1. v = b
      BY <2>1, <2>3
    <3>2. b # labels[a]
      BY <1>5, <1>7, <3>1
    <3>3. work'[k].at = "test_to" /\ Level'[k].to = v
      BY <1>2, <2>1, <3>1, <3>2 DEF At, b
    <3> QED
      BY <2>1, <3>3 DEF WillMap
  <2> QED
    BY <2>2, <2>3
<1> HIDE DEF w
<1> QED
  BY <1>1, <1>2, <1>6, <1>7, MapAheadInv

LEMMA MapTestToInv == ASSUME NEW k \in DOMAIN work PROVE IInv /\ MapTestTo(k) => IInv'
<1> SUFFICES ASSUME IInv, MapTestTo(k) PROVE IInv'
  OBVIOUS
<1> DEFINE a == Level[k].from
           b == Level[k].to
           w == IF a = labels[b] THEN At("load", b, a) ELSE At("done", 0, 0)
<1>1. PICK d \in [Node -> 1 .. Depth] : Nested(d)
  BY DEF IInv
<1>2. /\ pc = "map_back" /\ pc' = pc /\ work[k].at = "test_to"
      /\ work' = [work EXCEPT ![k] = w] /\ work'[k] = w
      /\ UNCHANGED <<input, edges, callers, labels, coin_toss>>
  BY DEF MapTestTo
<1>3. Basics /\ k \in DOMAIN Level
  BY <1>1, <1>2 DEF IInv, Nested, Mapping
<1>4. /\ b \in Node /\ Len(callers) <= d[b] /\ Pair(Level[k]) = {a, b} /\ a # b
  BY <1>1, <1>2, <1>3, LevelEdge
<1> HIDE DEF a
<1>5. MapIteration(d, k)'
  <2>1. CASE a = labels[b]
    <3>1. work'[k] = At("load", b, labels[b])
      BY <1>2, <2>1
    <3> HIDE DEF b
    <3> QED
      BY <1>1, <1>2, <1>4, <3>1, LoadIteration
  <2>2. CASE a # labels[b]
    BY <1>2, <2>2 DEF MapIteration, At
  <2> QED
    BY <2>1, <2>2
<1>6. ASSUME NEW v \in Node, d[v] = Len(callers), WillMap(k, v)
      PROVE  WillMap(k, v)'
  <2>1. /\ {a, b} = {v, labels[v]} /\ b = v
        /\ Pair(Level[k])' = {v, labels'[v]} /\ Level' = Level
    BY <1>2, <1>4, <1>6 DEF WillMap, Level
  <2>2. a = labels[b]
    BY <1>4, <2>1
  <2>3. work'[k].at = "load" /\ work'[k].target = v
    BY <1>2, <2>1, <2>2 DEF At
  <2> QED
    BY <2>1, <2>3 DEF WillMap
<1> HIDE DEF w
<1> QED
  BY <1>1, <1>2, <1>5, <1>6, MapAheadInv

(* The other end has been mapped by its own call, or has not hooked: its   *)
(* label is a root.                                                        *)
LEMMA MapLoadInv == ASSUME NEW k \in DOMAIN work PROVE IInv /\ MapLoad(k) => IInv'
<1> SUFFICES ASSUME IInv, MapLoad(k) PROVE IInv'
  OBVIOUS
<1> DEFINE R == Roots(Node, labels)
           t == work[k].target
           x == work[k].value
           w == At("store", t, labels[x])
<1>1. PICK d \in [Node -> 1 .. Depth] : Nested(d)
  BY DEF IInv
<1>2. /\ pc = "map_back" /\ pc' = pc /\ work[k].at = "load"
      /\ work' = [work EXCEPT ![k] = w] /\ work'[k] = w
      /\ UNCHANGED <<input, edges, callers, labels, coin_toss>>
  BY DEF MapLoad
<1>3. Basics /\ IsForest(Node, labels) /\ MapIteration(d, k)
  BY <1>1, <1>2, LabelsForest DEF IInv, Nested, Mapping
<1>4. /\ t \in Node /\ Len(callers) <= d[t]
      /\ x \in Node /\ d[x] = Depth /\ R[x] = R[t]
  BY <1>2, <1>3 DEF MapIteration
<1>5. labels[x] = R[t]
  <2>1. labels[x] \in Node /\ labels[labels[x]] = labels[x]
    BY <1>1, <1>2, <1>3, <1>4 DEF Basics, Nested, Ascending
  <2>2. R[labels[x]] = labels[x] /\ R[labels[x]] = R[x]
    BY <1>3, <1>4, <2>1, RootsOfForest
  <2> QED
    BY <1>4, <2>2
<1>6. MapIteration(d, k)'
  <2>1. work'[k] = At("store", t, R[t]) /\ Roots(Node, labels') = R
    BY <1>2, <1>5
  <2> HIDE DEF R, t
  <2> QED
    BY <1>2, <1>4, <2>1 DEF MapIteration, At
<1>7. ASSUME NEW v \in Node, WillMap(k, v) PROVE WillMap(k, v)'
  <2>1. Level' = Level /\ t = v /\ Pair(Level[k]) = {v, labels[v]}
    BY <1>2, <1>7 DEF WillMap, Level
  <2>2. work'[k].at = "store" /\ work'[k].target = v
    BY <1>2, <2>1 DEF At
  <2> QED
    BY <1>2, <2>1, <2>2 DEF WillMap
<1> HIDE DEF w
<1> QED
  BY <1>1, <1>2, <1>6, <1>7, MapAheadInv

(* What a write on the way up does: the root of its target is a root still *)
(* and takes the place of its label.                                       *)
LEMMA MapStoreEffect ==
  ASSUME IInv, NEW d \in [Node -> 1 .. Depth], Nested(d), pc = "map_back",
         NEW k \in DOMAIN work, Store(k)
  PROVE  LET R == Roots(Node, labels)
             t == work[k].target
         IN  /\ t \in Node /\ Len(callers) <= d[t]
             /\ labels' = [labels EXCEPT ![t] = R[t]]
             /\ labels' \in [Node -> Node] /\ labels'[t] = R[t] /\ labels'[R[t]] = R[t]
             /\ R[t] \in Node /\ d[R[t]] = Depth
             /\ \A v \in Node : v # t => labels'[v] = labels[v]
             /\ \A v \in Node : labels[v] = v => labels'[v] = v
             /\ Roots(Node, labels') = R
<1> DEFINE R == Roots(Node, labels)
           t == work[k].target
<1>1. Basics /\ IsForest(Node, labels) /\ MapIteration(d, k)
  BY LabelsForest DEF IInv, Nested, Mapping
<1>2. t \in Node /\ Len(callers) <= d[t] /\ labels' = [labels EXCEPT ![t] = R[t]]
  BY <1>1 DEF Store, MapIteration
<1> HIDE DEF t
<1>3. R[t] \in Node /\ labels[R[t]] = R[t] /\ Roots(Node, labels') = R
  <2>1. R[t] \in Node /\ labels[R[t]] = R[t]
    BY <1>1, <1>2, RootsType
  <2>2. Roots(Node, [labels EXCEPT ![t] = R[t]]) = R
    BY <1>1, <1>2, RootKeepsRoots
  <2> QED
    BY <1>2, <2>1, <2>2
<1>4. \A v \in Node : labels[v] = v => R[v] = v
  BY <1>1, RootsOfForest
<1> HIDE DEF R
<1>5. labels \in [Node -> Node]
  BY <1>1 DEF Basics
<1>6. /\ labels' \in [Node -> Node] /\ labels'[t] = R[t]
      /\ \A v \in Node : v # t => labels'[v] = labels[v]
  BY <1>2, <1>3, <1>5
<1>7. \A v \in Node : labels[v] = v => labels'[v] = v
  BY <1>4, <1>6
<1>8. d[R[t]] = Depth
  <2>1. d[R[t]] \in 1 .. Depth /\ Depth \in Nat
    BY <1>1, <1>3 DEF Basics, Depth
  <2>2. d[R[t]] < Depth => d[R[t]] < d[labels[R[t]]]
    BY <1>3 DEF Nested, Levels
  <2> QED
    BY <1>3, <2>1, <2>2
<1>9. labels'[R[t]] = R[t]
  BY <1>3, <1>7
<1>10. /\ t \in Node /\ Len(callers) <= d[t]
       /\ labels' = [labels EXCEPT ![t] = R[t]]
       /\ labels' \in [Node -> Node] /\ labels'[t] = R[t] /\ labels'[R[t]] = R[t]
       /\ R[t] \in Node /\ d[R[t]] = Depth
       /\ \A v \in Node : v # t => labels'[v] = labels[v]
       /\ \A v \in Node : labels[v] = v => labels'[v] = v
       /\ Roots(Node, labels') = R
  BY <1>2, <1>3, <1>6, <1>7, <1>8, <1>9
<1> QED
  BY <1>10 DEF R, t

LEMMA MapStoreInv ==
  ASSUME NEW k \in DOMAIN work PROVE IInv /\ pc = "map_back" /\ Store(k) => IInv'
<1> SUFFICES ASSUME IInv, pc = "map_back", Store(k) PROVE IInv'
  OBVIOUS
<1> DEFINE R == Roots(Node, labels)
           t == work[k].target
<1>1. PICK d \in [Node -> 1 .. Depth] : Nested(d)
  BY DEF IInv
<1>2. Basics /\ Hooking /\ Levels(d) /\ Ascending(d)
  BY <1>1 DEF IInv, Nested
<1>3. /\ pc' = pc /\ input' = input /\ edges' = edges /\ callers' = callers
      /\ coin_toss' = coin_toss /\ work' = [work EXCEPT ![k] = At("done", 0, 0)]
      /\ Depth' = Depth /\ Kept' = Kept /\ Kept = Len(callers) /\ Level' = Level
  BY DEF Store, Depth, Kept, Level
<1>4. /\ t \in Node /\ Len(callers) <= d[t]
      /\ labels' \in [Node -> Node] /\ labels'[t] = R[t] /\ labels'[R[t]] = R[t]
      /\ R[t] \in Node /\ d[R[t]] = Depth
      /\ \A v \in Node : v # t => labels'[v] = labels[v]
      /\ \A v \in Node : labels[v] = v => labels'[v] = v
      /\ Roots(Node, labels') = R
  BY <1>1, MapStoreEffect
<1>5. /\ DOMAIN work = DOMAIN Level
      /\ \A j \in DOMAIN work : MapIteration(d, j)
      /\ \A v \in Node : d[v] = Len(callers) =>
            labels[labels[v]] = labels[v] \/ \E j \in DOMAIN work : WillMap(j, v)
  BY <1>1 DEF Nested, Mapping
<1>6. labels \in [Node -> Node] /\ \A v \in Node : d[v] \in 1 .. Depth
  BY <1>1, <1>2 DEF Basics
<1>7. Len(callers) \in Nat /\ Depth = Len(callers) + 1
  BY <1>2, LevelType DEF Basics
<1> HIDE DEF R
<1>8. \A v \in Node : labels[labels[v]] = labels[v] => labels'[labels'[v]] = labels'[v]
  BY <1>4, <1>6
<1>9. Levels(d)'
  <2>1. ASSUME NEW v \in Node, d[v] < Depth PROVE d[v] < d[labels'[v]]
    <3>1. CASE v = t
      BY <1>4, <2>1, <3>1
    <3>2. CASE v # t
      BY <1>2, <1>4, <2>1, <3>2 DEF Levels
    <3> QED
      BY <3>1, <3>2
  <2>2. ASSUME NEW v \in Node, d[v] < Len(callers) PROVE labels'[v] = labels[v]
    BY <1>4, <1>6, <1>7, <2>2
  <2> QED
    BY <1>2, <1>3, <2>1, <2>2 DEF Levels
<1>10. Ascending(d)'
  <2>1. ASSUME NEW v \in Node, d[v] = Depth
        PROVE  labels'[labels'[v]] = labels'[v] /\ d[labels'[v]] = Depth
    <3>1. labels[labels[v]] = labels[v] /\ d[labels[v]] = Depth
      BY <1>2, <2>1 DEF Ascending
    <3> QED
      BY <1>4, <1>8, <3>1
  <2> QED
    BY <1>3, <2>1 DEF Ascending
<1>11. \A j \in DOMAIN work : MapIteration(d, j)'
  <2>1. MapIteration(d, k)'
    BY <1>3 DEF MapIteration, At
  <2>2. ASSUME NEW j \in DOMAIN work, j # k PROVE MapIteration(d, j)'
    <3>1. work'[j] = work[j] /\ MapIteration(d, j)
      BY <1>3, <1>5, <2>2
    <3> QED
      BY <1>3, <1>4, <3>1 DEF MapIteration, R
  <2> QED
    BY <2>1, <2>2
<1>12. ASSUME NEW v \in Node, d[v] = Len(callers), labels'[labels'[v]] # labels'[v]
       PROVE  \E j \in DOMAIN work : WillMap(j, v)'
  <2>1. v # t
    BY <1>4, <1>12
  <2>2. PICK j \in DOMAIN work : WillMap(j, v)
    BY <1>5, <1>8, <1>12
  <2>3. j # k
    BY <2>1, <2>2 DEF WillMap, Store
  <2>4. work'[j] = work[j] /\ labels'[v] = labels[v]
    BY <1>3, <1>4, <2>1, <2>3
  <2>5. WillMap(j, v)'
    BY <1>3, <2>2, <2>4 DEF WillMap
  <2> QED
    BY <2>5
<1>13. Mapping(d)'
  BY <1>3, <1>5, <1>11, <1>12 DEF Mapping
<1>14. Basics' /\ Hooking' /\ Descending(d)'
  BY <1>2, <1>3, <1>4 DEF Basics, Hooking, Descending
<1> QED
  BY <1>1, <1>3, <1>9, <1>10, <1>13, <1>14 DEF IInv, Nested

(* The loop has mapped every vertex of its level. *)
LEMMA MapEndInv == IInv /\ MapEnd => IInv'
<1> SUFFICES ASSUME IInv, MapEnd PROVE IInv'
  OBVIOUS
<1> DEFINE n == Len(callers)
<1>1. PICK d \in [Node -> 1 .. Depth] : Nested(d)
  BY DEF IInv
<1>2. Basics /\ Hooking /\ Levels(d) /\ Ascending(d)
  BY <1>1 DEF IInv, Nested
<1>3. /\ pc = "map_back" /\ pc' = "return" /\ input' = input /\ edges' = edges
      /\ labels' = labels /\ coin_toss' = coin_toss /\ work' = <<>>
      /\ callers' = SubSeq(callers, 1, n - 1)
      /\ \A k \in DOMAIN work : work[k].at = "done"
  BY DEF MapEnd, Finished
<1>4. n \in Nat \ {0} /\ Depth = n + 1
  BY <1>2, <1>3, LevelType DEF Basics
<1>5. /\ callers' \in Seq(Seq(UpEdges(Node))) /\ Len(callers') = n - 1
      /\ \A i \in 1 .. n-1 : callers'[i] = callers[i]
  <2>1. callers \in Seq(Seq(UpEdges(Node)))
    BY <1>2 DEF Basics
  <2> DEFINE m == n - 1
             S == Seq(UpEdges(Node))
  <2>2. m \in Int /\ 1 \in Int /\ \A i \in 1 .. m : callers[i] \in S
    BY <1>4, <2>1
  <2>3. m - 1 + 1 = m /\ m \in Nat /\ \A i \in 1 .. m : 1 + i - 1 = i
    BY <1>4
  <2> HIDE DEF n, m, S
  <2>4. /\ SubSeq(callers, 1, m) \in Seq(S)
        /\ Len(SubSeq(callers, 1, m)) = IF 1 <= m THEN m - 1 + 1 ELSE 0
        /\ \A i \in 1 .. m - 1 + 1 : SubSeq(callers, 1, m)[i] = callers[1 + i - 1]
    BY <2>2, SubSeqProperties
  <2>5. Len(SubSeq(callers, 1, m)) = m
    BY <2>3, <2>4
  <2>6. \A i \in 1 .. m : SubSeq(callers, 1, m)[i] = callers[i]
    BY <2>3, <2>4
  <2> QED
    BY <1>3, <2>4, <2>5, <2>6 DEF m, S
<1>6. Depth' = n /\ Kept' = n /\ Kept = n
  BY <1>3, <1>4, <1>5 DEF Depth, Kept
<1>7. ASSUME NEW v \in Node, n <= d[v]
      PROVE  labels[v] \in Node /\ d[labels[v]] = n + 1 /\ labels[labels[v]] = labels[v]
  <2>1. labels[v] \in Node /\ d[labels[v]] = n + 1 /\ (d[v] = n \/ d[v] = n + 1)
    BY <1>1, <1>2, <1>3, <1>4, <1>7, LevelEnds
  <2>2. CASE d[v] = n
    <3>1. \A k \in DOMAIN work : ~ WillMap(k, v)
      BY <1>3 DEF WillMap
    <3> QED
      BY <1>1, <1>3, <2>1, <2>2, <3>1 DEF Nested, Mapping
  <2>3. CASE d[v] = n + 1
    BY <1>2, <1>3, <1>4, <2>1, <2>3 DEF Ascending
  <2> QED
    BY <2>1, <2>2, <2>3
<1>8. \A v \in Node : d[v] \in 1 .. n+1 /\ labels[v] \in Node
  BY <1>1, <1>2, <1>4 DEF Basics
<1>9. /\ \A i \in 1 .. n-1 : \A p \in Pairs(callers[i]) : \A v \in p : v \in Node /\ i <= d[v]
      /\ \A v \in Node : d[v] < n => /\ d[v] < d[labels[v]]
                                     /\ {v, labels[v]} \in Pairs(callers[d[v]])
  <2>1. \A i \in 1 .. n-1 : i \in 1 .. n /\ callers[i] \in Seq(UpEdges(Node))
    BY <1>2, <1>4 DEF Basics
  <2>2. \A i \in 1 .. n-1 : \A p \in Pairs(callers[i]) : \A v \in p : v \in Node
    BY <2>1, PairsIn
  <2>3. \A v \in Node : d[v] < n => d[v] < Depth
    BY <1>4, <1>8
  <2> QED
    BY <1>2, <1>6, <2>1, <2>2, <2>3 DEF Levels
<1> HIDE DEF n
<1>10. PICK e \in [Node -> 1 .. n] : \A v \in Node : e[v] = IF d[v] < n THEN d[v] ELSE n
  <2> DEFINE f == [v \in Node |-> IF d[v] < n THEN d[v] ELSE n]
  <2>1. f \in [Node -> 1 .. n]
    BY <1>4, <1>8
  <2> QED
    BY <2>1
<1>11. Levels(e)'
  <2>1. ASSUME NEW i \in 1 .. n-1, NEW p \in Pairs(callers[i]), NEW v \in p PROVE i <= e[v]
    <3>1. v \in Node /\ i <= d[v]
      BY <1>9
    <3>2. e[v] = d[v] \/ e[v] = n
      BY <1>10, <3>1
    <3> QED
      BY <1>4, <3>1, <3>2
  <2>2. ASSUME NEW v \in Node, e[v] < n
        PROVE  e[v] < e[labels[v]] /\ {v, labels[v]} \in Pairs(callers'[e[v]])
    <3>1. d[v] < n /\ e[v] = d[v] /\ d[v] \in 1 .. n-1
      BY <1>4, <1>8, <1>10, <2>2
    <3>2. d[v] < d[labels[v]] /\ {v, labels[v]} \in Pairs(callers'[d[v]])
      BY <1>5, <1>9, <3>1
    <3>3. e[labels[v]] = d[labels[v]] \/ e[labels[v]] = n
      BY <1>8, <1>10
    <3> QED
      BY <3>1, <3>2, <3>3
  <2> QED
    BY <1>3, <1>5, <1>6, <1>10, <2>1, <2>2 DEF Levels
<1>12. Ascending(e)'
  <2>1. ASSUME NEW v \in Node, e[v] = n
        PROVE  labels[labels[v]] = labels[v] /\ e[labels[v]] = n
    <3>1. n <= d[v]
      BY <1>4, <1>8, <1>10, <2>1
    <3>2. labels[v] \in Node /\ d[labels[v]] = n + 1 /\ labels[labels[v]] = labels[v]
      BY <1>7, <3>1
    <3>3. ~ (n + 1 < n)
      BY <1>4
    <3>4. ~ (d[labels[v]] < n)
      BY <3>2, <3>3
    <3> QED
      BY <1>10, <3>2, <3>4
  <2> QED
    BY <1>3, <1>6, <2>1 DEF Ascending
<1>13. Basics' /\ Hooking' /\ Descending(e)' /\ Mapping(e)'
  BY <1>2, <1>3, <1>5 DEF Basics, Hooking, Descending, Mapping
<1> QED
  BY <1>6, <1>10, <1>11, <1>12, <1>13 DEF IInv, Nested

-----------------------------------------------------------------------------
LEMMA NextInv == IInv /\ [Next]_vars => IInv'
<1> SUFFICES ASSUME IInv, [Next]_vars PROVE IInv'
  OBVIOUS
<1>1. CASE Call
  BY <1>1, CallInv
<1>2. ASSUME NEW k \in DOMAIN work, Iteration(k) PROVE IInv'
  <2>1. CASE HookTest(k)
    BY <2>1, HookTestInv
  <2>2. CASE Store(k)
    <3>1. pc \in {"hook", "map_back"}
      <4>1. work # <<>>
        OBVIOUS
      <4> QED
        BY <4>1 DEF IInv, Basics
    <3> QED
      BY <2>2, <3>1, HookStoreInv, MapStoreInv
  <2>3. CASE MapTestFrom(k)
    BY <2>3, MapTestFromInv
  <2>4. CASE MapTestTo(k)
    BY <2>4, MapTestToInv
  <2>5. CASE MapLoad(k)
    BY <2>5, MapLoadInv
  <2> QED
    BY <1>2, <2>1, <2>2, <2>3, <2>4, <2>5 DEF Iteration
<1>3. CASE HookEnd
  BY <1>3, HookEndInv
<1>4. CASE RemoveInternalEdges
  BY <1>4, RemoveInternalEdgesInv
<1>5. CASE Return
  BY <1>5, ReturnInv
<1>6. CASE MapEnd
  BY <1>6, MapEndInv
<1>7. CASE UNCHANGED vars
  <2>1. PICK d \in [Node -> 1 .. Depth] : Nested(d)
    BY DEF IInv
  <2>2. Depth' = Depth /\ Kept' = Kept /\ Level' = Level
    BY <1>7 DEF vars, Depth, Kept, Level
  <2>3. Levels(d)' /\ Descending(d)' /\ Ascending(d)'
    BY <1>7, <2>1, <2>2 DEF vars, Nested, Levels, Descending, HasHooked, Ascending
  <2>4. \A k \in DOMAIN work : MapIteration(d, k)' <=> MapIteration(d, k)
    BY <1>7, <2>2 DEF vars, MapIteration
  <2>5. Mapping(d)'
    BY <1>7, <2>1, <2>2, <2>4 DEF vars, Nested, Mapping, WillMap
  <2>6. Basics' /\ Hooking'
    BY <1>7 DEF vars, IInv, Basics, Hooking, HookIteration, ChildLost, Child, Parent
  <2> QED
    BY <2>1, <2>2, <2>3, <2>5, <2>6 DEF IInv, Nested
<1> QED
  BY <1>1, <1>2, <1>3, <1>4, <1>5, <1>6, <1>7 DEF Next, Terminated

(* In every reachable state the invariant holds. *)
THEOREM Invariance == Spec => []IInv
<1>1. Init => IInv
  BY InitInv
<1>2. IInv /\ [Next]_vars => IInv'
  BY NextInv
<1> QED
  BY <1>1, <1>2, PTL DEF Spec

-----------------------------------------------------------------------------
(* Before this call hooked, the vertices of its level were roots and the   *)
(* others had the labels they have.                                        *)
LEMMA BeforeHooking ==
  ASSUME IInv, pc \in {"hook", "remove_edges"},
         NEW d \in [Node -> 1 .. Depth], Nested(d), NEW v \in Node
  PROVE  /\ d[v] = Depth => Unhooked[v] = v
         /\ d[v] # Depth => /\ Unhooked[v] = labels[v] /\ labels[v] # v
                            /\ d[v] < d[labels[v]]
<1>1. Basics /\ Levels(d) /\ Descending(d)
  BY DEF IInv, Nested
<1>2. edges \in Seq(UpEdges(Node)) /\ labels \in [Node -> Node] /\ Depth \in Nat
  BY <1>1 DEF Basics, Depth
<1>3. Unhooked[v] = v \/ Unhooked[v] = labels[v]
  BY DEF Unhooked
<1>4. ASSUME d[v] = Depth PROVE Unhooked[v] = v
  <2>1. labels[v] = v \/ {v, labels[v]} \in Pairs(edges)
    BY <1>1, <1>4 DEF Descending, HasHooked
  <2>2. CASE {v, labels[v]} \in Pairs(edges)
    <3>1. \E k \in DOMAIN edges : v \in Pair(edges[k])
      BY <1>2, <2>2, PairsIn
    <3> QED
      BY <3>1 DEF Unhooked
  <2> QED
    BY <1>3, <2>1, <2>2
<1>5. ASSUME d[v] # Depth PROVE Unhooked[v] = labels[v] /\ labels[v] # v /\ d[v] < d[labels[v]]
  <2>1. d[v] \in 1 .. Depth /\ d[v] < Depth
    BY <1>2, <1>5
  <2>2. d[v] < d[labels[v]]
    BY <1>1, <2>1 DEF Levels
  <2>3. labels[v] # v
    BY <2>1, <2>2
  <2>4. \A k \in DOMAIN edges : v \notin Pair(edges[k])
    BY <1>1, <1>2, <1>5, PairOf DEF Descending
  <2>5. Unhooked[v] = labels[v]
    BY <2>4 DEF Unhooked
  <2> QED
    BY <2>2, <2>3, <2>5
<1> QED
  BY <1>4, <1>5

(* However the hooks race they build stars, and no hook reads a label that *)
(* another one writes: every label that find_rank_and_remove_edges will    *)
(* look up is a root.                                                      *)
THEOREM HooksBuildStars == Spec => []Stars
<1>1. IInv => Stars
  <2> SUFFICES ASSUME IInv PROVE Stars
    OBVIOUS
  <2>1. Basics /\ Hooking
    BY DEF IInv
  <2>2. PICK d \in [Node -> 1 .. Depth] : Nested(d)
    BY DEF IInv
  <2>3. Levels(d) /\ Descending(d)
    BY <2>2 DEF Nested
  <2>4. edges \in Seq(UpEdges(Node))
    BY <2>1 DEF Basics
  <2>5. ASSUME pc \in {"hook", "remove_edges"}, NEW k \in DOMAIN edges, NEW v \in Pair(edges[k])
        PROVE  /\ labels[labels[v]] = labels[v]
               /\ ~ coin_toss[v] => labels[v] = v
    <3>1. v \in Node /\ d[v] = Depth
      BY <2>3, <2>4, <2>5, PairOf DEF Descending
    <3> QED
      BY <2>1, <2>3, <2>5, <3>1, HeadsStay
  <2>6. ASSUME pc = "hook", NEW k \in DOMAIN work, work[k].at = "store"
        PROVE  /\ work[k].value = labels[Parent(edges[k])]
               /\ work[k].value = Parent(edges[k])
    <3>1. /\ k \in DOMAIN edges /\ Separates(coin_toss, edges[k])
          /\ work[k].value = Parent(edges[k])
      BY <2>1, <2>6 DEF Hooking, HookIteration
    <3>2. edges[k] \in UpEdges(Node)
      BY <2>4, <3>1
    <3>3. Parent(edges[k]) \in Pair(edges[k]) /\ ~ coin_toss[Parent(edges[k])]
      BY <2>1, <3>1, <3>2, ChildAndParent
    <3> QED
      BY <2>5, <2>6, <3>1, <3>3
  <2> QED
    BY <2>5, <2>6 DEF Stars, ReadsStayValid
<1> QED
  BY <1>1, Invariance, PTL

(* An edge whose ends the coins separate costs the call a root, whichever  *)
(* hooks overwrite each other.                                             *)
THEOREM TossTakesARoot == Spec => []TossPays
<1>1. IInv => TossPays
  <2> SUFFICES ASSUME IInv, pc = "remove_edges",
                      NEW k \in DOMAIN edges, Separates(coin_toss, edges[k])
               PROVE  /\ {v \in Node : labels[v] = v} \subseteq {v \in Node : Unhooked[v] = v}
                      /\ {v \in Node : labels[v] = v} # {v \in Node : Unhooked[v] = v}
    BY DEF TossPays
  <2> DEFINE c == Child(edges[k])
  <2>1. Basics /\ Hooking
    BY DEF IInv
  <2>2. PICK d \in [Node -> 1 .. Depth] : Nested(d)
    BY DEF IInv
  <2>3. edges \in Seq(UpEdges(Node))
    BY <2>1 DEF Basics
  <2>4. edges[k] \in UpEdges(Node) /\ Pair(edges[k]) \in Pairs(edges)
    BY <2>3, PairOf
  <2>5. c \in Node /\ c \in Pair(edges[k]) /\ labels[c] # c
    <3>1. c \in Node /\ c \in Pair(edges[k])
      BY <2>1, <2>4, ChildAndParent
    <3>2. ChildLost(edges[k])
      BY <2>1 DEF Hooking
    <3> QED
      BY <3>1, <3>2 DEF ChildLost
  <2>6. d[c] = Depth
    BY <2>2, <2>4, <2>5 DEF Nested, Descending
  <2> HIDE DEF c
  <2>7. Unhooked[c] = c
    BY <2>2, <2>5, <2>6, BeforeHooking
  <2>8. \A v \in Node : labels[v] = v => Unhooked[v] = v
    BY <2>2, BeforeHooking
  <2> QED
    BY <2>5, <2>7, <2>8
<1> QED
  BY <1>1, Invariance, PTL

(* Mapping back moves no vertex to another root, whichever labels its      *)
(* iterations have read before others wrote them.                          *)
THEOREM MapBackKeepsRoots == Spec => MapKeepsRoots
<1>1. IInv /\ [Next]_vars => [pc = "map_back" => Roots(Node, labels') = Roots(Node, labels)]_vars
  <2> SUFFICES ASSUME IInv, Next, pc = "map_back"
               PROVE  Roots(Node, labels') = Roots(Node, labels)
    OBVIOUS
  <2>1. PICK d \in [Node -> 1 .. Depth] : Nested(d)
    BY DEF IInv
  <2>2. ASSUME NEW k \in DOMAIN work, Store(k)
        PROVE  Roots(Node, labels') = Roots(Node, labels)
    BY <2>1, <2>2, MapStoreEffect
  <2>3. ASSUME labels' = labels PROVE Roots(Node, labels') = Roots(Node, labels)
    BY <2>3
  <2> QED
    BY <2>2, <2>3 DEF Next, Iteration, Call, HookTest, MapTestFrom, MapTestTo, MapLoad,
                      HookEnd, RemoveInternalEdges, Return, MapEnd, Terminated, vars
<1> QED
  BY <1>1, Invariance, PTL DEF Spec, MapKeepsRoots

-----------------------------------------------------------------------------
(***************************************************************************)
(* The program implements Contraction.                                     *)
(***************************************************************************)

(* The hooks of a call merge the roots before it, along its edges.         *)
LEMMA HooksMerge ==
  ASSUME IInv, pc = "hook"
  PROVE  /\ IsForest(Node, labels)
         /\ MergesAlong(Node, Pairs(edges), Roots(Node, Unhooked), Roots(Node, labels))
<1>1. Basics
  BY DEF IInv
<1>2. PICK d \in [Node -> 1 .. Depth] : Nested(d)
  BY DEF IInv
<1>3. Levels(d) /\ Descending(d)
  BY <1>2 DEF Nested
<1>4. /\ edges \in Seq(UpEdges(Node)) /\ labels \in [Node -> Node]
      /\ Depth \in Nat /\ \A v \in Node : d[v] \in 1 .. Depth
  BY <1>1, <1>2 DEF Basics, Depth
<1>5. /\ \A v \in Node : d[v] = Depth => Unhooked[v] = v
      /\ \A v \in Node : d[v] # Depth => /\ Unhooked[v] = labels[v] /\ labels[v] # v
                                       /\ d[v] < d[labels[v]]
  BY <1>2, BeforeHooking
<1>6. Unhooked \in [Node -> Node]
  BY <1>4 DEF Unhooked
<1>7. IsForest(Node, Unhooked)
  <2>1. \A v \in Node : \/ Unhooked[Unhooked[v]] = Unhooked[v]
                       \/ d[v] < d[Unhooked[v]]
    BY <1>5
  <2> HIDE DEF Depth
  <2> QED
    BY <1>2, <1>4, <1>6, <2>1, RankedForest
<1>8. ASSUME NEW v \in Node, d[v] = Depth
      PROVE  \/ labels[v] = v
             \/ /\ labels[labels[v]] = labels[v]
                /\ \E p \in Pairs(edges) : v \in p /\ labels[v] \in p
  <2>1. labels[v] = v \/ HasHooked(v)
    BY <1>3, <1>8 DEF Descending
  <2>2. labels[labels[v]] = labels[v]
    BY <1>1, <1>3, <1>8, HeadsStay
  <2> QED
    BY <2>1, <2>2 DEF HasHooked
<1>9. StarsAlong(Node, Pairs(edges), Unhooked, labels)
  BY <1>4, <1>5, <1>8 DEF StarsAlong
<1> QED
  BY <1>7, <1>9, StarsMerge

(* The edges and labels that Contraction sees.                             *)
Remaining == IF pc = "remove_edges" THEN RemoveEdges(edges, labels) ELSE edges
Merged == Roots(Node, IF pc = "hook" THEN Unhooked ELSE labels)

(* The end of the hooking loop is a round of Contraction. *)
LEMMA HookEndContracts == IInv /\ HookEnd => C!Contract
<1> SUFFICES ASSUME IInv, HookEnd PROVE C!Contract
  OBVIOUS
<1> DEFINE R == Roots(Node, labels)
<1>1. /\ pc = "hook" /\ pc' = "remove_edges"
      /\ labels' = labels /\ input' = input /\ edges' = edges
  BY DEF HookEnd
<1>2. Basics
  BY DEF IInv
<1>3. edges \in Seq(UpEdges(Node)) /\ edges # <<>> /\ labels \in [Node -> Node]
  BY <1>1, <1>2 DEF Basics
<1>4. IsForest(Node, labels) /\ MergesAlong(Node, Pairs(edges), Roots(Node, Unhooked), R)
  BY <1>1, HooksMerge
<1>5. /\ Remaining = edges /\ Remaining' = RemoveEdges(edges, labels)
      /\ Merged = Roots(Node, Unhooked) /\ Merged' = R
  BY <1>1 DEF Remaining, Merged
<1>6. /\ R \in [Node -> Node]
      /\ \A u, v \in Node : Merged[u] = Merged[v] => R[u] = R[v]
      /\ \A v \in Node : Connected(Node, Pairs(edges), Merged[v], R[v])
      /\ \A v \in Node : R[R[v]] = R[v]
  BY <1>4, <1>5 DEF MergesAlong
<1>7. Pairs(Remaining) # {}
  <2>1. 1 \in DOMAIN edges
    BY <1>3
  <2> QED
    BY <1>5, <2>1 DEF Pairs
<1>8. \A p \in Pairs(edges) : \A v \in p : labels[v] = R[v]
  <2>1. PICK d \in [Node -> 1 .. Depth] : Nested(d)
    BY DEF IInv
  <2>2. ASSUME NEW p \in Pairs(edges), NEW v \in p PROVE labels[v] = R[v]
    <3>1. v \in Node /\ d[v] = Depth
      BY <1>1, <1>3, <2>1, PairsIn DEF Nested, Descending
    <3>2. labels[v] \in Node /\ labels[labels[v]] = labels[v]
      BY <1>1, <1>2, <1>3, <2>1, <3>1, HeadsStay DEF Nested
    <3> QED
      BY <1>4, <3>1, <3>2, RootsOfForest
  <2> QED
    BY <2>2
<1> HIDE DEF R
<1>9. Pairs(Remaining') = C!MergedPairs(Pairs(Remaining), Merged')
  <2>1. Pairs(RemoveEdges(edges, labels)) = MergedPairs(Pairs(edges), labels)
    BY <1>3, NodeIsInt, FilterRelabels
  <2>2. MergedPairs(Pairs(edges), labels) = MergedPairs(Pairs(edges), R)
    BY <1>8, MergedBy
  <2>3. C!MergedPairs(Pairs(edges), R) = MergedPairs(Pairs(edges), R)
    BY DEF MergedPairs, C!MergedPairs
  <2> QED
    BY <1>5, <2>1, <2>2, <2>3
<1>10. C!Merges(Merged')
  <2>1. ASSUME NEW v \in Node
        PROVE  C!Connected(Node, Pairs(Remaining), Merged[v], R[v])
    BY <1>5, <1>6 DEF C!Connected, C!ClosedUnder, Connected, ClosedUnder
  <2> QED
    BY <1>5, <1>6, <2>1 DEF C!Merges, Remaining, Merged
<1>11. /\ (Pairs(Remaining))' = Pairs(Remaining')
       /\ (Pairs(ReadEdges(input)))' = Pairs(ReadEdges(input))
  BY <1>1
<1> QED
  BY <1>1, <1>5, <1>6, <1>7, <1>9, <1>10, <1>11 DEF C!Contract, Remaining, Merged

(* The other steps change nothing that Contraction sees, but the last      *)
(* return, which returns its labels.                                       *)
LEMMA StepRefines == IInv /\ IInv' /\ [Next]_vars => [C!Next]_(C!vars)
<1> SUFFICES ASSUME IInv, IInv', [Next]_vars
             PROVE  C!Next \/ UNCHANGED C!vars
  OBVIOUS
<1> DEFINE Same == /\ input' = input /\ Remaining' = Remaining /\ Merged' = Merged
                   /\ pc # "returned" /\ pc' # "returned"
<1>1. Same => UNCHANGED C!vars
  <2> SUFFICES ASSUME Same PROVE UNCHANGED C!vars
    OBVIOUS
  <2>1. /\ (Pairs(Remaining))' = Pairs(Remaining)
        /\ (Pairs(ReadEdges(input)))' = Pairs(ReadEdges(input))
        /\ (pc = "returned")' = (pc = "returned")
    OBVIOUS
  <2> QED
    BY <2>1 DEF C!vars, Remaining, Merged
<1>2. Basics /\ Hooking
  BY DEF IInv
<1>3. PICK d \in [Node -> 1 .. Depth] : Nested(d)
  BY DEF IInv
<1>4. edges \in Seq(UpEdges(Node)) /\ labels \in [Node -> Node]
  BY <1>2 DEF Basics
<1>5. CASE Call
  <2>1. /\ pc = "call" /\ edges' = edges /\ labels' = labels /\ input' = input
        /\ pc' = IF edges = <<>> THEN "return" ELSE "hook"
    BY <1>5 DEF Call
  <2>2. Remaining = edges /\ Remaining' = edges /\ Merged = Roots(Node, labels)
    BY <2>1 DEF Remaining, Merged
  <2>3. ASSUME NEW k \in DOMAIN edges, NEW v \in Pair(edges[k]) PROVE labels[v] = v
    <3>1. Pair(edges[k]) \in Pairs(edges) /\ v \in Node
      BY <1>4, PairOf
    <3> QED
      BY <1>3, <2>1, <3>1 DEF Nested, Descending, HasHooked
  <2>4. Unhooked' = labels
    BY <1>4, <2>1, <2>3 DEF Unhooked
  <2> QED
    BY <1>1, <2>1, <2>2, <2>4 DEF Merged
<1>6. ASSUME NEW k \in DOMAIN work, Store(k) PROVE UNCHANGED C!vars
  <2>1. /\ pc \in {"hook", "map_back"} /\ pc' = pc /\ edges' = edges /\ input' = input
        /\ labels' = [labels EXCEPT ![work[k].target] = work[k].value]
    <3>1. work # <<>>
      OBVIOUS
    <3> QED
      BY <1>2, <1>6, <3>1 DEF Basics, Store
  <2>2. CASE pc = "hook"
    <3>1. /\ k \in DOMAIN edges /\ Separates(coin_toss, edges[k])
          /\ work[k].target = Child(edges[k])
      BY <1>2, <1>6, <2>2 DEF Hooking, HookIteration, Store
    <3>2. edges[k] \in UpEdges(Node)
      BY <1>4, <3>1
    <3>3. work[k].target \in Node /\ work[k].target \in Pair(edges[k])
      BY <1>2, <3>1, <3>2, ChildAndParent
    <3>4. \A v \in Node : labels'[v] = labels[v] \/ v = work[k].target
      BY <1>4, <2>1
    <3>5. Unhooked' = Unhooked
      BY <2>1, <3>1, <3>3, <3>4 DEF Unhooked
    <3> QED
      BY <1>1, <2>1, <2>2, <3>5 DEF Remaining, Merged
  <2>3. CASE pc = "map_back"
    <3>1. Roots(Node, labels') = Roots(Node, labels)
      BY <1>3, <1>6, <2>3, MapStoreEffect
    <3> QED
      BY <1>1, <2>1, <2>3, <3>1 DEF Remaining, Merged
  <2> QED
    BY <2>1, <2>2, <2>3
<1>7. ASSUME NEW k \in DOMAIN work,
             HookTest(k) \/ MapTestFrom(k) \/ MapTestTo(k) \/ MapLoad(k)
      PROVE  UNCHANGED C!vars
  <2>1. /\ pc \in {"hook", "map_back"} /\ pc' = pc
        /\ edges' = edges /\ input' = input /\ labels' = labels
    BY <1>7 DEF HookTest, MapTestFrom, MapTestTo, MapLoad
  <2>2. Unhooked' = Unhooked
    BY <2>1 DEF Unhooked
  <2> QED
    BY <1>1, <2>1, <2>2 DEF Remaining, Merged
<1>8. CASE HookEnd
  BY <1>8, HookEndContracts DEF C!Next
<1>9. CASE RemoveInternalEdges
  BY <1>1, <1>9 DEF RemoveInternalEdges, Remaining, Merged
<1>10. CASE Return
  <2>1. /\ pc = "return" /\ edges' = edges /\ labels' = labels /\ input' = input
        /\ edges = <<>> /\ pc' = IF callers = <<>> THEN "returned" ELSE "map_back"
    BY <1>2, <1>10 DEF Return, Basics
  <2>2. Remaining = edges /\ Remaining' = edges /\ Merged' = Merged
    BY <2>1 DEF Remaining, Merged
  <2>3. CASE callers = <<>>
    <3>1. Pairs(Remaining) = {} /\ (Pairs(Remaining))' = {}
      BY <2>1, <2>2 DEF Pairs
    <3>2. (Pairs(ReadEdges(input)))' = Pairs(ReadEdges(input))
      BY <2>1
    <3> QED
      BY <2>1, <2>2, <2>3, <3>1, <3>2 DEF C!Next, C!Return, Remaining, Merged
  <2>4. CASE callers # <<>>
    BY <1>1, <2>1, <2>2, <2>4
  <2> QED
    BY <2>3, <2>4
<1>11. CASE MapEnd
  BY <1>1, <1>11 DEF MapEnd, Remaining, Merged
<1>12. CASE UNCHANGED vars
  <2>1. edges' = edges /\ labels' = labels /\ input' = input /\ pc' = pc
    BY <1>12 DEF vars
  <2>2. Merged' = Merged /\ Remaining' = Remaining
    BY <2>1 DEF Merged, Unhooked, Remaining
  <2> QED
    BY <2>1, <2>2 DEF C!vars, Merged, Remaining
<1> QED
  BY <1>5, <1>6, <1>7, <1>8, <1>9, <1>10, <1>11, <1>12 DEF Next, Iteration, Terminated

(* The randomized OpenMP program implements Contraction: every call, racing *)
(* hooks and useless coins and all, is one of the merges that Contraction   *)
(* allows, and mapping back adds nothing to it.                             *)
THEOREM ProgramContracts == Spec => Contracts
<1>1. Init => C!Init
  <2> SUFFICES ASSUME Init PROVE C!Init
    OBVIOUS
  <2>1. pc = "call" /\ edges = ReadEdges(input) /\ labels = [v \in Node |-> v]
    BY DEF Init
  <2>2. Remaining = ReadEdges(input) /\ Merged = [v \in Node |-> v]
    <3>1. Roots(Node, labels) = labels
      BY <2>1, RootsOfFlat
    <3> QED
      BY <2>1, <3>1 DEF Remaining, Merged
  <2>3. Pairs(ReadEdges(input)) \subseteq SUBSET Node
    <3>1. IInv
      BY InitInv
    <3>2. ReadEdges(input) \in Seq(UpEdges(Node))
      BY <2>1, <3>1 DEF IInv, Basics
    <3> QED
      BY <3>2, PairsIn
  <2> QED
    BY <2>1, <2>2, <2>3 DEF C!Init, Remaining, Merged
<1>2. IInv /\ IInv' /\ [Next]_vars => [C!Next]_(C!vars)
  BY StepRefines
<1> QED
  BY <1>1, <1>2, Invariance, PTL DEF Spec, Contracts, C!Spec

-----------------------------------------------------------------------------
(* Contraction again, with what is proved of it. *)
CP == INSTANCE ContractionProofs WITH
        input <- Pairs(ReadEdges(input)),
        edges <- Pairs(Remaining),
        labels <- Merged,
        done <- pc = "returned"

(* The returned labels lead to roots that tell apart the components of the *)
(* edges that main kept.                                                   *)
LEMMA ComponentsReturned == Spec => []CP!Correct
<1>1. C!Init => CP!Init
  BY DEF C!Init, CP!Init, Remaining, Merged
<1>2. [C!Next]_(C!vars) => [CP!Next]_(CP!vars)
  <2>1. C!vars = CP!vars /\ C!vars' = CP!vars'
    BY DEF C!vars, CP!vars, Remaining, Merged
  <2>2. C!Contract => CP!Contract
    BY DEF C!Contract, CP!Contract, C!Merges, CP!Merges, C!MergedPairs, CP!MergedPairs,
           C!Connected, CP!Connected, C!ClosedUnder, CP!ClosedUnder, Remaining, Merged
  <2>3. C!Return => CP!Return
    BY DEF C!Return, CP!Return, Remaining, Merged
  <2>4. C!Terminated => CP!Terminated
    BY <2>1 DEF C!Terminated, CP!Terminated
  <2> QED
    BY <2>1, <2>2, <2>3, <2>4 DEF C!Next, CP!Next
<1>3. CP!Spec => []CP!Correct
  BY CP!ContractionCorrect
<1> QED
  BY <1>1, <1>2, <1>3, ProgramContracts, PTL DEF Contracts, C!Spec, CP!Spec

(* All levels have been mapped back: the labels are the roots. *)
LEMMA RootsReturned == IInv /\ CP!Correct => Correct
<1> SUFFICES ASSUME IInv, CP!Correct, pc = "returned", NEW u \in Node, NEW v \in Node
             PROVE  /\ labels[u] = labels[v] <=> Connected(Node, E, u, v)
                    /\ labels[labels[v]] = labels[v]
  BY DEF Correct
<1>1. Basics
  BY DEF IInv
<1>2. input \in Seq(Edge(Node)) /\ labels \in [Node -> Node] /\ callers = <<>>
  BY <1>1, ConstantAssumption DEF Basics
<1>3. \A w \in Node : labels[labels[w]] = labels[w]
  <2>1. PICK d \in [Node -> 1 .. Depth] : Nested(d)
    BY DEF IInv
  <2>2. Depth = 1
    BY <1>2 DEF Depth
  <2>3. \A w \in Node : d[w] = Depth
    BY <2>1, <2>2
  <2> QED
    BY <2>1, <2>3 DEF Nested, Ascending
<1>4. Merged = labels
  <2>1. Roots(Node, labels) = labels
    BY <1>2, <1>3, RootsOfFlat
  <2> QED
    BY <2>1 DEF Merged
<1>5. labels[u] = labels[v] <=> CP!Connected(Node, Pairs(ReadEdges(input)), u, v)
  BY <1>4 DEF CP!Correct
<1>6. CP!Connected(Node, Pairs(ReadEdges(input)), u, v)
        <=> Connected(Node, Pairs(ReadEdges(input)), u, v)
  BY DEF CP!Connected, CP!ClosedUnder, Connected, ClosedUnder
<1>7. Connected(Node, Pairs(ReadEdges(input)), u, v) <=> Connected(Node, E, u, v)
  BY <1>2, NodeIsInt, ReadEdgesConnected DEF E
<1> QED
  BY <1>3, <1>5, <1>6, <1>7

(* Whatever the coins and the races, the labels that the program returns   *)
(* are the components of the file, each named by a vertex that carries its *)
(* own label.                                                              *)
THEOREM ProgramCorrect == Spec => []Correct
<1>1. IInv /\ CP!Correct => Correct
  BY RootsReturned
<1> QED
  BY <1>1, Invariance, ComponentsReturned, PTL
-----------------------------------------------------------------------------
(***************************************************************************)
(* The coins themselves: the random numbers of the program, for every      *)
(* number of seeds and coins, every word size and every team: who gets to  *)
(* toss, and which tosses the packed vector keeps.                         *)
(***************************************************************************)

(* A thread has a seed only after the test, and then the one at its index  *)
(* if there is one.                                                        *)
SeedsByIndex ==
  /\ tested \subseteq Thread
  /\ seed \in [Thread -> Prime \cup {NotPrime, Unseeded}]
  /\ \A t \in tested : ~ TooMany(t)
  /\ \A t \in Thread : seed[t] # Unseeded => /\ t \in tested
                                             /\ t < Primes => seed[t] = t

Coins ==
  /\ coins \in [Coin -> BOOLEAN]
  /\ DOMAIN tossed \subseteq Coin
  /\ todo \in [Thread -> SUBSET Coin]
  /\ \A t \in Thread : todo[t] \subseteq team[t]
  /\ DOMAIN word = Thread

(* No coin is tossed twice: one that is still to do has been tossed only   *)
(* between the load and the store of its word.                             *)
TossedOnce ==
  \A t \in Thread : \A i \in todo[t] :
     i \in DOMAIN tossed => Current(t, i) /\ word[t] # NoWord

(* A loaded word holds the new toss and copies of its other coins, which   *)
(* show no tail that was not tossed; if the word is the thread's alone,    *)
(* the copies are up to date.                                              *)
Loaded(t, i) ==
  /\ Current(t, i)
  /\ word[t] \in [WordOf(i) -> BOOLEAN]
  /\ i \in DOMAIN tossed /\ word[t][i] = tossed[i]
  /\ \A k \in WordOf(i) \ {i} :
        /\ word[t][k] => k \in DOMAIN tossed /\ tossed[k]
        /\ ~ Shared(t, i) => word[t][k] = coins[k]

WordsCopied == \A t \in Thread : word[t] # NoWord => \E i \in todo[t] : Loaded(t, i)

(* What a finished iteration leaves.                                       *)
Stored ==
  \A t \in Thread : \A i \in team[t] \ todo[t] :
     /\ i \in DOMAIN tossed
     /\ ~ Shared(t, i) => coins[i] = tossed[i]

TossInv ==
  /\ team \in Teams
  /\ SeedsByIndex
  /\ Coins
  /\ TossedOnce
  /\ WordsCopied
  /\ Stored
  /\ LostTossIsHead

-----------------------------------------------------------------------------
LEMMA TeamType ==
  ASSUME team \in Teams
  PROVE  /\ team \in [Thread -> SUBSET Coin]
         /\ Cardinality(Thread) \in Nat
         /\ Thread = 0 .. Cardinality(Thread) - 1
         /\ \A i \in Coin : \E t \in Thread : i \in team[t]
         /\ \A s, t \in Thread : s # t => team[s] \cap team[t] = {}
<1>1. IsFiniteSet(Thread) /\ team \in [0 .. Cardinality(Thread) - 1 -> SUBSET Coin]
  BY TossAssumption DEF Thread
<1>2. Cardinality(Thread) \in Nat
  BY <1>1, FS_CardinalityType
<1>3. Thread = 0 .. Cardinality(Thread) - 1
  BY <1>1 DEF Thread
<1>4. /\ \A i \in Coin : \E t \in Thread : i \in team[t]
      /\ \A s, t \in Thread : s # t => team[s] \cap team[t] = {}
  BY TossAssumption DEF Thread
<1> QED
  BY <1>1, <1>2, <1>3, <1>4

LEMMA WordHasCoin == \A i \in Coin : i \in WordOf(i) /\ WordOf(i) \subseteq Coin
  BY DEF WordOf

LEMMA SameWord == \A i \in Coin : \A k \in WordOf(i) : WordOf(k) = WordOf(i)
  BY DEF WordOf

LEMMA NoWordIsEmpty ==
  ASSUME NEW i \in Coin, NEW w \in [WordOf(i) -> BOOLEAN]
  PROVE  w # NoWord
<1>1. DOMAIN w = WordOf(i) /\ i \in DOMAIN w
  BY WordHasCoin
<1>2. DOMAIN NoWord = {}
  BY DEF NoWord
<1> QED
  BY <1>1, <1>2

(* The first iteration of a thread is one. *)
LEMMA CurrentUnique ==
  ASSUME Coins, NEW t \in Thread, NEW i, NEW k,
         Current(t, i), Current(t, k)
  PROVE  i = k /\ i \in Coin
<1>1. todo[t] \subseteq Coin /\ i \in todo[t] /\ k \in todo[t] /\ i <= k /\ k <= i
  BY DEF Coins, Current
<1>2. i \in Int /\ k \in Int
  BY <1>1, TossAssumption DEF Coin
<1> QED
  BY <1>1, <1>2

LEMMA TossStart ==
  TossInit => TossInv
<1> SUFFICES ASSUME TossInit PROVE TossInv
  OBVIOUS
<1> USE DEF TossInit
<1>1. team \in Teams /\ team \in [Thread -> SUBSET Coin]
  BY TeamType
<1>2. SeedsByIndex
  BY DEF SeedsByIndex
<1>3. Coins
  BY <1>1 DEF Coins
<1>4. TossedOnce /\ WordsCopied /\ Stored
  BY DEF TossedOnce, WordsCopied, Stored
<1>5. LostTossIsHead
  BY DEF LostTossIsHead
<1> QED
  BY <1>1, <1>2, <1>3, <1>4, <1>5 DEF TossInv

(* Tests and seeds leave the coins alone, and the other way round. *)
LEMMA CoinsUnchanged ==
  TossInv /\ UNCHANGED <<team, coinVars>> =>
     /\ team' \in Teams
     /\ Coins' /\ TossedOnce' /\ WordsCopied' /\ Stored' /\ LostTossIsHead'
<1> SUFFICES ASSUME TossInv, UNCHANGED <<team, coinVars>>
             PROVE  /\ team' \in Teams
                    /\ Coins' /\ TossedOnce' /\ WordsCopied' /\ Stored' /\ LostTossIsHead'
  OBVIOUS
<1> QED
  BY DEF TossInv, coinVars, Coins, TossedOnce, WordsCopied, Stored, LostTossIsHead, Loaded,
         Current, Shared, Thread

LEMMA SeedsUnchanged == TossInv /\ UNCHANGED <<team, seedVars>> => SeedsByIndex'
  BY DEF TossInv, seedVars, SeedsByIndex, Thread

LEMMA SeedStepInv ==
  ASSUME TossInv, NEW t \in Thread, Test(t) \/ Exit(t) \/ Seed(t)
  PROVE  TossInv'
<1>1. UNCHANGED <<team, coinVars>>
  BY DEF Test, Exit, Seed
<1>2. Thread' = Thread
  BY <1>1 DEF Thread
<1>3. SeedsByIndex
  BY DEF TossInv
<1>4. SeedsByIndex'
  <2>1. CASE Test(t)
    BY <1>2, <1>3, <2>1 DEF Test, SeedsByIndex
  <2>2. CASE Exit(t)
    BY <1>2, <1>3, <2>2 DEF Exit, SeedsByIndex
  <2>3. CASE Seed(t)
    <3>1. PICK s \in IF t < Primes THEN {t} ELSE Prime \cup {NotPrime} :
                 seed' = [seed EXCEPT ![t] = s]
      BY <2>3 DEF Seed
    <3>2. t \in tested /\ tested' = tested
      BY <2>3 DEF Seed
    <3>3. t \in Nat
      BY TeamType DEF TossInv
    <3>4. s \in Prime \cup {NotPrime, Unseeded} /\ (t < Primes => s = t)
      BY <3>1, <3>3, TossAssumption DEF Prime
    <3> QED
      BY <1>2, <1>3, <3>1, <3>2, <3>4 DEF SeedsByIndex
  <2> QED
    BY <2>1, <2>2, <2>3
<1> QED
  BY <1>1, <1>4, CoinsUnchanged DEF TossInv

LEMMA LoadInv ==
  ASSUME TossInv, NEW t \in Thread, LoadWord(t)
  PROVE  TossInv'
<1>1. UNCHANGED <<team, seedVars, coins, todo>> /\ word[t] = NoWord
  BY DEF LoadWord
<1>2. PICK i \in Coin, toss \in BOOLEAN :
         /\ Current(t, i)
         /\ word' = [word EXCEPT ![t] =
                       [k \in WordOf(i) |-> IF k = i THEN toss ELSE coins[k]]]
         /\ tossed' = [k \in DOMAIN tossed \cup {i} |-> IF k = i THEN toss ELSE tossed[k]]
  BY Zenon DEF LoadWord
<1> DEFINE w == [k \in WordOf(i) |-> IF k = i THEN toss ELSE coins[k]]
<1>3. /\ team \in Teams /\ Coins /\ TossedOnce /\ WordsCopied /\ Stored /\ LostTossIsHead
      /\ \A r, s \in Thread : r # s => team[r] \cap team[s] = {}
  BY TeamType DEF TossInv
<1>4. Thread' = Thread /\ team' = team /\ todo' = todo /\ coins' = coins
  BY <1>1 DEF Thread
<1>5. i \in todo[t] /\ i \notin DOMAIN tossed
  BY <1>1, <1>2, <1>3 DEF Current, TossedOnce
<1>6. \A k \in DOMAIN tossed : k \in DOMAIN tossed' /\ tossed'[k] = tossed[k]
  BY <1>2, <1>5
<1>7. w \in [WordOf(i) -> BOOLEAN] /\ w # NoWord
  <2>1. w \in [WordOf(i) -> BOOLEAN]
    BY <1>3, WordHasCoin DEF Coins
  <2> QED
    BY <2>1, NoWordIsEmpty
<1>8. word'[t] = w /\ \A s \in Thread \ {t} : word'[s] = word[s]
  BY <1>2, <1>3 DEF Coins
<1> HIDE DEF w
<1>9. \A s, k : Current(s, k)' <=> Current(s, k)
  BY <1>4 DEF Current
<1>10. \A s, k : Shared(s, k)' <=> Shared(s, k)
  BY <1>4 DEF Shared
<1>11. Coins'
  BY <1>2, <1>3, <1>4 DEF Coins
<1>12. TossedOnce'
  <2> SUFFICES ASSUME NEW s \in Thread, NEW k \in todo[s], k \in DOMAIN tossed'
               PROVE  Current(s, k) /\ word'[s] # NoWord
    BY <1>4, <1>9 DEF TossedOnce
  <2>1. CASE k = i
    <3>1. s = t
      BY <1>3, <1>5, <2>1 DEF Coins
    <3> QED
      BY <1>2, <1>7, <1>8, <2>1, <3>1
  <2>2. CASE k # i
    <3>1. k \in DOMAIN tossed
      BY <1>2, <2>2
    <3>2. Current(s, k) /\ word[s] # NoWord
      BY <1>3, <3>1 DEF TossedOnce
    <3> QED
      BY <1>1, <1>8, <3>2
  <2> QED
    BY <2>1, <2>2
<1>13. WordsCopied'
  <2> SUFFICES ASSUME NEW s \in Thread, word'[s] # NoWord
               PROVE  \E k \in todo[s] : Loaded(s, k)'
    BY <1>4 DEF WordsCopied
  <2>1. CASE s = t
    <3>1. Current(t, i)' /\ word'[t] \in [WordOf(i) -> BOOLEAN]
      BY <1>2, <1>7, <1>8, <1>9
    <3>2. i \in DOMAIN tossed' /\ word'[t][i] = tossed'[i]
      BY <1>2, <1>8, WordHasCoin DEF w
    <3>3. ASSUME NEW k \in WordOf(i) \ {i}
          PROVE  word'[t][k] = coins[k] /\ k \in Coin
      BY <1>8, WordHasCoin DEF w
    <3>4. Loaded(t, i)'
      BY <1>3, <1>4, <1>6, <3>1, <3>2, <3>3 DEF Loaded, LostTossIsHead
    <3> QED
      BY <1>5, <2>1, <3>4
  <2>2. CASE s # t
    <3>1. word[s] = word'[s]
      BY <1>8, <2>2
    <3>2. PICK k \in todo[s] : Loaded(s, k)
      BY <1>3, <3>1 DEF WordsCopied
    <3>3. Loaded(s, k)'
      BY <1>4, <1>6, <1>9, <1>10, <3>1, <3>2 DEF Loaded
    <3> QED
      BY <3>3
  <2> QED
    BY <2>1, <2>2
<1>14. Stored' /\ LostTossIsHead'
  BY <1>3, <1>4, <1>6, <1>10 DEF Stored, LostTossIsHead
<1> QED
  BY <1>1, <1>3, <1>4, <1>11, <1>12, <1>13, <1>14, SeedsUnchanged DEF TossInv

LEMMA StoreInv ==
  ASSUME TossInv, NEW t \in Thread, StoreWord(t)
  PROVE  TossInv'
<1>1. /\ UNCHANGED <<team, seedVars, tossed>> /\ word[t] # NoWord
      /\ coins' = [k \in Coin |-> IF k \in DOMAIN word[t] THEN word[t][k] ELSE coins[k]]
      /\ word' = [word EXCEPT ![t] = NoWord]
      /\ todo' = [todo EXCEPT ![t] = {i \in @ : ~ Current(t, i)}]
  BY DEF StoreWord
<1>2. /\ team \in Teams /\ Coins /\ TossedOnce /\ WordsCopied /\ Stored /\ LostTossIsHead
      /\ team \in [Thread -> SUBSET Coin]
      /\ \A r, s \in Thread : r # s => team[r] \cap team[s] = {}
  BY TeamType DEF TossInv
<1>3. PICK i \in todo[t] : Loaded(t, i)
  BY <1>1, <1>2 DEF WordsCopied
<1>4. Thread' = Thread /\ team' = team /\ tossed' = tossed
  BY <1>1 DEF Thread
<1>5. i \in Coin /\ i \in team[t] /\ Current(t, i)
  BY <1>2, <1>3 DEF Coins, Loaded
<1>6. /\ todo'[t] = todo[t] \ {i}
      /\ \A s \in Thread \ {t} : todo'[s] = todo[s]
  BY <1>1, <1>2, <1>5, CurrentUnique DEF Coins
<1>7. word'[t] = NoWord /\ \A s \in Thread \ {t} : word'[s] = word[s]
  BY <1>1, <1>2 DEF Coins
<1>8. \A s \in Thread \ {t} : \A k : Current(s, k)' <=> Current(s, k)
  BY <1>6 DEF Current
<1>9. \A s, k : Shared(s, k)' <=> Shared(s, k)
  BY <1>4 DEF Shared
<1>10. /\ \A k \in WordOf(i) : coins'[k] = word[t][k]
       /\ \A k \in Coin \ WordOf(i) : coins'[k] = coins[k]
  BY <1>1, <1>3, <1>5, WordHasCoin DEF Loaded
<1>11. i \in DOMAIN tossed /\ coins'[i] = tossed[i]
  BY <1>3, <1>5, <1>10, WordHasCoin DEF Loaded
<1>12. ASSUME NEW s \in Thread, NEW k \in team[s], k # i, ~ Shared(s, k)
       PROVE  coins'[k] = coins[k]
  <2>1. CASE k \notin WordOf(i)
    BY <1>2, <1>10, <1>12, <2>1
  <2>2. CASE k \in WordOf(i)
    <3>1. WordOf(k) = WordOf(i) /\ i \in WordOf(k)
      BY <1>5, <2>2, SameWord, WordHasCoin
    <3>2. s = t
      BY <1>5, <1>12, <3>1 DEF Shared
    <3>3. ~ Shared(t, i)
      BY <1>12, <3>1, <3>2 DEF Shared
    <3> QED
      BY <1>3, <1>10, <1>12, <2>2, <3>3 DEF Loaded
  <2> QED
    BY <2>1, <2>2
<1>13. Coins'
  <2>1. coins' \in [Coin -> BOOLEAN]
    BY <1>1, <1>2, <1>3 DEF Coins, Loaded
  <2>2. todo' \in [Thread -> SUBSET Coin] /\ DOMAIN word' = Thread
    BY <1>1, <1>2 DEF Coins
  <2>3. \A s \in Thread : todo'[s] \subseteq team[s]
    BY <1>2, <1>6 DEF Coins
  <2> QED
    BY <1>2, <1>4, <2>1, <2>2, <2>3 DEF Coins
<1>14. TossedOnce'
  <2> SUFFICES ASSUME NEW s \in Thread, NEW k \in todo'[s], k \in DOMAIN tossed
               PROVE  Current(s, k)' /\ word'[s] # NoWord
    BY <1>4 DEF TossedOnce
  <2>1. CASE s = t
    <3>1. k \in todo[t] /\ k # i
      BY <1>6, <2>1
    <3>2. Current(t, k)
      BY <1>2, <3>1 DEF TossedOnce
    <3> QED
      BY <1>2, <1>5, <3>1, <3>2, CurrentUnique
  <2>2. CASE s # t
    BY <1>2, <1>6, <1>7, <1>8, <2>2 DEF TossedOnce
  <2> QED
    BY <2>1, <2>2
<1>15. WordsCopied'
  <2> SUFFICES ASSUME NEW s \in Thread, word'[s] # NoWord
               PROVE  \E k \in todo'[s] : Loaded(s, k)'
    BY <1>4 DEF WordsCopied
  <2>1. s # t /\ word'[s] = word[s] /\ todo'[s] = todo[s]
    BY <1>6, <1>7
  <2>2. PICK k \in todo[s] : Loaded(s, k)
    BY <1>2, <2>1 DEF WordsCopied
  <2>3. k \in team[s] /\ k \in Coin /\ k # i
    BY <1>2, <1>5, <2>1, <2>2 DEF Coins
  <2>4. ASSUME NEW j \in WordOf(k) \ {k}, ~ Shared(s, k)
        PROVE  word'[s][j] = coins'[j]
    <3>1. j \in Coin /\ WordOf(j) = WordOf(k)
      BY <2>3, SameWord, WordHasCoin
    <3>2. i \notin WordOf(k)
      BY <1>5, <2>1, <2>4 DEF Shared
    <3>3. j \notin WordOf(i)
      BY <1>5, <3>1, <3>2, SameWord, WordHasCoin
    <3> QED
      BY <1>10, <2>1, <2>2, <2>4, <3>1, <3>3 DEF Loaded
  <2>5. Loaded(s, k)'
    BY <1>4, <1>8, <1>9, <2>1, <2>2, <2>4 DEF Loaded
  <2> QED
    BY <2>1, <2>5
<1>16. Stored'
  <2> SUFFICES ASSUME NEW s \in Thread, NEW k \in team[s] \ todo'[s]
               PROVE  k \in DOMAIN tossed /\ (~ Shared(s, k) => coins'[k] = tossed[k])
    BY <1>4, <1>9 DEF Stored
  <2>1. CASE k = i
    BY <1>11, <2>1
  <2>2. CASE k # i
    <3>1. k \in team[s] \ todo[s]
      BY <1>6, <2>2
    <3> QED
      BY <1>2, <1>12, <2>2, <3>1 DEF Stored
  <2> QED
    BY <2>1, <2>2
<1>17. LostTossIsHead'
  <2> SUFFICES ASSUME NEW k \in Coin, coins'[k]
               PROVE  k \in DOMAIN tossed /\ tossed[k]
    BY <1>4 DEF LostTossIsHead
  <2>1. CASE k = i
    BY <1>11, <2>1
  <2>2. CASE k \in WordOf(i) \ {i}
    BY <1>3, <1>10, <2>2 DEF Loaded
  <2>3. CASE k \notin WordOf(i)
    BY <1>2, <1>10, <2>3 DEF LostTossIsHead
  <2> QED
    BY <2>1, <2>2, <2>3
<1> QED
  BY <1>1, <1>2, <1>4, <1>13, <1>14, <1>15, <1>16, <1>17, SeedsUnchanged DEF TossInv

LEMMA TossInvariance ==
  TossSpec => []TossInv
<1>1. TossInv /\ [TossNext]_tossVars => TossInv'
  <2> SUFFICES ASSUME TossInv, [TossNext]_tossVars PROVE TossInv'
    OBVIOUS
  <2>1. CASE UNCHANGED tossVars
    <3>1. UNCHANGED <<team, coinVars>> /\ UNCHANGED <<team, seedVars>>
      BY <2>1 DEF tossVars
    <3> QED
      BY <3>1, CoinsUnchanged, SeedsUnchanged DEF TossInv
  <2>2. ASSUME NEW t \in Thread, Test(t) \/ Exit(t) \/ Seed(t)
        PROVE  TossInv'
    BY <2>2, SeedStepInv
  <2>3. ASSUME NEW t \in Thread, LoadWord(t) \/ StoreWord(t)
        PROVE  TossInv'
    BY <2>3, LoadInv, StoreInv
  <2> QED
    BY <2>1, <2>2, <2>3 DEF TossNext, TossesDone
<1> QED
  BY <1>1, TossStart, PTL DEF TossSpec

-----------------------------------------------------------------------------
(* Coins are tossed only by a team with at most one thread more than there *)
(* are seeds, and by different generators if there are seeds for all.      *)
THEOREM EnoughSeeds ==
  TossSpec => []SeedsSuffice
<1>1. TossInv => SeedsSuffice
  <2> SUFFICES ASSUME TossInv, Configured PROVE SeedsSuffice
    BY DEF SeedsSuffice
  <2> DEFINE n == Cardinality(Thread)
  <2>1. n \in Nat /\ Thread = 0 .. n-1 /\ SeedsByIndex /\ Primes \in Nat
    BY TeamType, TossAssumption DEF TossInv
  <2> HIDE DEF n
  <2>2. \A t \in Thread : t <= Primes /\ (t < Primes => seed[t] = t)
    BY <2>1 DEF SeedsByIndex, Configured, TooMany
  <2>3. n <= Primes + 1
    BY <2>1, <2>2
  <2>4. ASSUME n <= Primes PROVE Distinct
    <3>1. \A t \in Thread : seed[t] = t
      BY <2>1, <2>2, <2>4
    <3> QED
      BY <3>1 DEF Distinct
  <2> QED
    BY <2>3, <2>4 DEF SeedsSuffice, n
<1> QED
  BY <1>1, TossInvariance, PTL

(* What was tossed into a word that no other thread writes is there at the *)
(* barrier, ...                                                            *)
THEOREM TossesKept ==
  TossSpec => []OwnWordsKept
<1>1. TossInv => OwnWordsKept
  BY TeamType DEF TossInv, Stored, Barrier, OwnWordsKept
<1> QED
  BY <1>1, TossInvariance, PTL

(* ... and what is lost elsewhere is lost to the initial value: at no time *)
(* does a coin show tail that was not tossed.                              *)
THEOREM NoForeignTail ==
  TossSpec => []LostTossIsHead
BY TossInvariance, PTL DEF TossInv
=============================================================================
