------------------------- MODULE ContractionProofs -------------------------
(***************************************************************************)
(* Round-by-round contraction computes the connected components of every   *)
(* input graph, over any set of vertices.                                  *)
(***************************************************************************)
EXTENDS Contraction, GraphTheorems

(* Before the first step every vertex is its own label. *)
LEMMA InitInv == Init => IInv
<1> SUFFICES ASSUME Init PROVE IInv
  OBVIOUS
<1>1. TypeOK
  <2>1. edges \subseteq SUBSET Node
    BY DEF Init
  <2>2. done \in BOOLEAN
    BY Zenon DEF Init
  <2> QED
    BY <2>1, <2>2 DEF Init, TypeOK
<1>2. NeverTooFar
  BY ConnectedReflexive DEF Init, NeverTooFar
<1>3. NothingForgotten
  <2> SUFFICES ASSUME NEW p \in input
               PROVE  {labels[v] : v \in p} \in edges
    BY DEF NothingForgotten
  <2>1. p \subseteq Node
    BY DEF Init
  <2>2. {labels[v] : v \in p} = p
    BY <2>1 DEF Init
  <2> QED
    BY <2>2 DEF Init
<1>4. EdgesSound
  BY ConnectedPair DEF Init, EdgesSound
<1>5. Idempotent
  BY DEF Init, Idempotent
<1> QED
  BY <1>1, <1>2, <1>3, <1>4, <1>5 DEF IInv, Init

(* One round: labels merged along the remaining edges stay connected to    *)
(* their vertices, and rewriting the edges loses none.                     *)
LEMMA ContractInv == IInv /\ Contract => IInv'
<1> SUFFICES ASSUME IInv, Contract PROVE IInv'
  OBVIOUS
<1> USE DEF IInv
<1>1. PICK l \in [Node -> Node] :
           Merges(l) /\ labels' = l /\ edges' = MergedPairs(edges, l)
  BY DEF Contract
<1>2. input' = input /\ done' = done /\ ~ done
  BY DEF Contract
<1>3. \A u, v \in Node : labels[u] = labels[v] => l[u] = l[v]
  BY <1>1 DEF Merges
<1>4. \A v \in Node : Connected(Node, edges, labels[v], l[v])
  BY <1>1 DEF Merges
<1>5. \A v \in Node : l[labels[v]] = l[v]
  BY <1>3 DEF Idempotent, TypeOK
<1>6. \A p \in edges : p \subseteq Node
  BY DEF TypeOK
<1>7. \A p \in input : p \subseteq Node
  BY DEF TypeOK
<1>8. \A v \in Node : Connected(Node, input, labels[v], l[v])
  BY <1>4, ConnectedThrough DEF EdgesSound
<1>9. NeverTooFar'
  <2> SUFFICES ASSUME NEW v \in Node
               PROVE  Connected(Node, input, v, l[v])
    BY <1>1, <1>2 DEF NeverTooFar
  <2>1. Connected(Node, input, v, labels[v])
    BY DEF NeverTooFar
  <2> QED
    BY <2>1, <1>8, ConnectedTransitive
<1>10. NothingForgotten'
  <2> SUFFICES ASSUME NEW p \in input, ~ \A a, b \in p : l[a] = l[b]
               PROVE  {l[v] : v \in p} \in edges'
    BY <1>1, <1>2 DEF NothingForgotten
  <2> DEFINE q == {labels[v] : v \in p}
  <2>1. q \in edges
    BY <1>3, <1>7 DEF NothingForgotten
  <2>2. {l[w] : w \in q} = {l[v] : v \in p}
    BY <1>5, <1>7
  <2>3. \E a, b \in {l[v] : v \in p} : a # b
    OBVIOUS
  <2>4. {l[w] : w \in q} \in {{l[v] : v \in r} : r \in edges}
    BY <2>1
  <2> QED
    BY <2>2, <2>3, <2>4, <1>1 DEF MergedPairs
<1>11. EdgesSound'
  <2> SUFFICES ASSUME NEW q \in edges', NEW x \in q, NEW y \in q
               PROVE  Connected(Node, input, x, y)
    BY <1>2 DEF EdgesSound
  <2>1. PICK p \in edges : q = {l[v] : v \in p}
    BY <1>1 DEF MergedPairs
  <2>2. PICK a \in p, b \in p : x = l[a] /\ y = l[b]
    BY <2>1
  <2>3. a \in Node /\ b \in Node
    BY <1>6
  <2>4. \A v \in Node : Connected(Node, input, v, l[v]) /\ l[v] \in Node
    BY <1>9, <1>1, <1>2 DEF NeverTooFar
  <2>5. Connected(Node, input, x, a)
    BY <2>2, <2>3, <2>4, <1>7, ConnectedSymmetric
  <2>6. Connected(Node, input, a, b)
    BY DEF EdgesSound
  <2>7. Connected(Node, input, b, y)
    BY <2>2, <2>3, <2>4
  <2> QED
    BY <2>5, <2>6, <2>7, ConnectedTransitive
<1>12. TypeOK'
  <2>1. edges' \subseteq SUBSET Node
    BY <1>1, <1>6 DEF MergedPairs
  <2> QED
    BY <2>1, <1>1, <1>2 DEF TypeOK
<1>13. Idempotent'
  BY <1>1 DEF Merges, Idempotent
<1> QED
  BY <1>2, <1>9, <1>10, <1>11, <1>12, <1>13

(* Neither a contraction nor the end of the program breaks the invariant. *)
LEMMA NextInv == IInv /\ [Next]_vars => IInv'
<1> SUFFICES ASSUME IInv, [Next]_vars PROVE IInv'
  OBVIOUS
<1>1. CASE Contract
  BY <1>1, ContractInv
<1>2. CASE Return
  BY <1>2 DEF Return, IInv, TypeOK, NeverTooFar, NothingForgotten,
              EdgesSound, Idempotent
<1>3. CASE UNCHANGED vars
  BY <1>3 DEF vars, IInv, TypeOK, NeverTooFar, NothingForgotten,
              EdgesSound, Idempotent
<1> QED
  BY <1>1, <1>2, <1>3 DEF Next, Terminated

(* When no edge remains, a label is shared exactly by connected vertices,  *)
(* whether the labels have been returned yet or not.                       *)
AllMerged ==
  edges = {} => \A u, v \in Node :
                   labels[u] = labels[v] <=> Connected(Node, input, u, v)

LEMMA InvMerged == IInv => AllMerged
<1> SUFFICES ASSUME IInv, edges = {}, NEW u \in Node, NEW v \in Node
             PROVE  labels[u] = labels[v] <=> Connected(Node, input, u, v)
  BY DEF AllMerged
<1> USE DEF IInv
<1>1. \A p \in input : p \subseteq Node
  BY DEF TypeOK
<1>2. ASSUME labels[u] = labels[v] PROVE Connected(Node, input, u, v)
  <2>1. Connected(Node, input, u, labels[u])
    BY DEF NeverTooFar
  <2>2. Connected(Node, input, v, labels[v]) /\ labels[v] \in Node
    BY DEF NeverTooFar, TypeOK
  <2>3. Connected(Node, input, labels[v], v)
    BY <1>1, <2>2, ConnectedSymmetric
  <2> QED
    BY <1>2, <2>1, <2>3, ConnectedTransitive
<1>3. ASSUME Connected(Node, input, u, v) PROVE labels[u] = labels[v]
  <2> DEFINE S == {w \in Node : labels[w] = labels[u]}
  <2>1. ClosedUnder(S, input)
    BY <1>1 DEF ClosedUnder, NothingForgotten
  <2>2. v \in S
    BY <1>3, <2>1 DEF Connected
  <2> QED
    BY <2>2
<1> QED
  BY <1>2, <1>3

LEMMA InvCorrect == IInv => Correct
BY InvMerged DEF IInv, AllMerged, Correct

LEMMA MergedWhenDone == Spec => []AllMerged
BY InitInv, NextInv, InvMerged, PTL DEF Spec

(* The labels returned are the connected components of the input, for      *)
(* every set of vertices and every graph.                                  *)
THEOREM ContractionCorrect == Spec => []Correct
<1>1. Init => IInv
  BY InitInv
<1>2. IInv /\ [Next]_vars => IInv'
  BY NextInv
<1>3. IInv => Correct
  BY InvCorrect
<1> QED
  BY <1>1, <1>2, <1>3, PTL DEF Spec
=============================================================================
