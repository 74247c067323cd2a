-------------------------- MODULE FindRootsProofs --------------------------
(***************************************************************************)
(* find_roots leaves every vertex at the root of its tree, for every       *)
(* number of vertices, every team of threads, every assignment of the      *)
(* iterations to the threads and every delay of the stores.                *)
(***************************************************************************)
EXTENDS FindRoots, FiniteSetTheorems, TLAPS

ForestTheorems == INSTANCE GraphTheorems

(* Vertices are integers, and None is not a vertex. *)
LEMMA NodeIsInt == Node \subseteq Int /\ None \notin Node
BY ConstantAssumption DEF Node, None

(* Following the labels composes. *)
LEMMA AncestorTransitive ==
  ASSUME NEW u, NEW v, NEW w, Ancestor(u, v), Ancestor(v, w)
  PROVE  Ancestor(u, w)
BY DEF Ancestor

(* Every vertex is its own ancestor. *)
LEMMA AncestorReflexive == ASSUME NEW v PROVE Ancestor(v, v)
BY DEF Ancestor

(* The label of a vertex when find_roots is called is an ancestor of it. *)
LEMMA AncestorStep ==
  ASSUME NEW v \in Node
  PROVE  Ancestor(v, hooked[v])
BY DEF Ancestor

(* What a thread reads at labels[v] is one of its values. *)
LEMMA ReadIsValue ==
  ASSUME TypeOK, NEW t \in Thread, NEW v \in Node
  PROVE  Read(t, v) \in Values(v) /\ Read(t, v) \in Node
<1>1. CASE v \in Chunk[t] /\ pending[v] # None
  BY <1>1 DEF Read, Values, TypeOK
<1>2. CASE ~ (v \in Chunk[t] /\ pending[v] # None)
  BY <1>2 DEF Read, Values, TypeOK
<1> QED
  BY <1>1, <1>2

(* A thread jumps to an ancestor: strictly upwards, unless at a root. *)
LEMMA JumpUp ==
  ASSUME TypeOK, StaysInTree, RootsAreStable, NEW t \in Thread, NEW v \in Node
  PROVE  LET w == Read(t, Read(t, v)) IN
         /\ w \in Node
         /\ Ancestor(v, w)
         /\ IF IsRoot(v) THEN w = v ELSE w > v
         /\ w >= Read(t, v)
<1> DEFINE p == Read(t, v)
           w == Read(t, p)
<1>1. p \in Values(v) /\ p \in Node
  BY ReadIsValue
<1>2. w \in Values(p) /\ w \in Node
  BY <1>1, ReadIsValue
<1>3. Ancestor(v, p) /\ Ancestor(p, w)
  BY <1>1, <1>2 DEF StaysInTree
<1>4. IF IsRoot(v) THEN p = v ELSE p > v
  BY <1>1 DEF RootsAreStable
<1>5. IF IsRoot(p) THEN w = p ELSE w > p
  BY <1>1, <1>2 DEF RootsAreStable
<1>6. /\ IF IsRoot(v) THEN w = v ELSE w > v
      /\ w >= p
  <2> HIDE DEF p, w
  <2>1. p \in Int /\ w \in Int /\ v \in Int
    BY <1>1, <1>2, NodeIsInt
  <2>2. w >= p
    BY <2>1, <1>5
  <2>3. CASE IsRoot(v)
    BY <2>2, <2>3, <1>4, <1>5
  <2>4. CASE ~ IsRoot(v)
    BY <2>1, <2>2, <2>4, <1>4
  <2> QED
    BY <2>2, <2>3, <2>4
<1> QED
  BY <1>2, <1>3, <1>6, AncestorTransitive

(* Labels that only point upwards, as hooking leaves them, satisfy the invariant. *)
LEMMA InitInv == Init => IInv
<1> SUFFICES ASSUME Init PROVE IInv
  OBVIOUS
<1>1. TypeOK
  <2>1. found \in BOOLEAN /\ returned \in BOOLEAN
    BY Zenon DEF Init
  <2> QED
    BY <2>1 DEF Init, TypeOK, Forests, None
<1>2. \A v \in Node : Values(v) = {hooked[v]}
  BY DEF Init, Values
<1>3. StaysInTree
  BY <1>2, AncestorStep DEF StaysInTree
<1>4. RootsAreStable
  <2> SUFFICES ASSUME NEW v \in Node
               PROVE  IF IsRoot(v) THEN hooked[v] = v ELSE hooked[v] > v
    BY <1>2 DEF RootsAreStable
  <2>1. v <= hooked[v]
    BY DEF Init, Forests
  <2>2. v \in Int /\ hooked[v] \in Int
    BY <1>1, NodeIsInt DEF TypeOK
  <2> QED
    BY <2>1, <2>2 DEF IsRoot
<1>5. DoneAreAtRoot /\ JumpedIsNewest
  BY DEF Init, DoneAreAtRoot, JumpedIsNewest
<1>6. StoresRise
  <2> SUFFICES ASSUME NEW v \in Node PROVE labels[v] <= Newest(v)
    BY DEF StoresRise
  <2>1. Newest(v) = labels[v]
    BY DEF Init, Newest
  <2>2. labels[v] \in Int
    BY <1>1, NodeIsInt DEF TypeOK
  <2> QED
    BY <2>1, <2>2
<1> QED
  BY <1>1, <1>3, <1>4, <1>5, <1>6 DEF IInv, Init

(* The initial thread starts a pass: nothing of it is done yet. *)
LEMMA StartPassInv == IInv /\ StartPass => IInv'
<1> SUFFICES ASSUME IInv, StartPass PROVE IInv'
  OBVIOUS
<1> USE DEF IInv, StartPass
<1>1. TypeOK'
  <2>1. found' \in BOOLEAN
    BY Zenon
  <2>2. todo' \in [Thread -> SUBSET Node] /\ \A t \in Thread : todo'[t] \subseteq Chunk[t]
    BY ConstantAssumption
  <2> QED
    BY <2>1, <2>2 DEF TypeOK
<1>2. StaysInTree' /\ RootsAreStable'
  BY DEF StaysInTree, RootsAreStable, Values, IsRoot, Ancestor
<1>3. DoneAreAtRoot'
  BY DEF DoneAreAtRoot
<1>4. JumpedIsNewest'
  <2>1. \A t \in Thread : jumped[t] = None
    BY DEF JumpedIsNewest, Barrier, Current
  <2> QED
    BY <2>1 DEF JumpedIsNewest
<1>5. StoresRise'
  BY DEF StoresRise, Newest
<1> QED
  BY <1>1, <1>2, <1>3, <1>4, <1>5

(* find_roots returns after a pass that found every vertex at its root. *)
LEMMA ReturnInv == IInv /\ Return => IInv'
<1> SUFFICES ASSUME IInv, Return PROVE IInv'
  OBVIOUS
<1> USE DEF IInv, Return
<1>1. TypeOK'
  BY DEF TypeOK
<1>2. StaysInTree' /\ RootsAreStable'
  BY DEF StaysInTree, RootsAreStable, Values, IsRoot, Ancestor
<1>3. DoneAreAtRoot' /\ JumpedIsNewest' /\ StoresRise'
  BY DEF DoneAreAtRoot, JumpedIsNewest, StoresRise, Newest, Current, IsRoot
<1>4. Barrier'
  BY DEF Barrier
<1> QED
  BY <1>1, <1>2, <1>3, <1>4

(* A jump writes the pending store of the current vertex only. *)
LEMMA JumpInv == ASSUME NEW t \in Thread PROVE IInv /\ Jump(t) => IInv'
<1> SUFFICES ASSUME IInv, Jump(t) PROVE IInv'
  OBVIOUS
<1> USE DEF IInv
<1>1. PICK v \in Node :
        /\ Current(t, v)
        /\ pending' = [pending EXCEPT ![v] = Read(t, Read(t, v))]
        /\ jumped' = [jumped EXCEPT ![t] = Read(t, Read(t, v))]
  BY DEF Jump
<1> DEFINE w == Read(t, Read(t, v))
<1>2. /\ UNCHANGED <<hooked, labels, found, todo, passes, returned>>
      /\ jumped[t] = None
  BY DEF Jump
<1>3. w \in Node /\ Ancestor(v, w) /\ (IF IsRoot(v) THEN w = v ELSE w > v)
  BY JumpUp
<1> HIDE DEF w
<1>4. v \in todo[t] /\ v \in Chunk[t]
  BY <1>1 DEF Current, TypeOK
<1>5. TypeOK'
  BY <1>1, <1>2, <1>3 DEF TypeOK, w
<1>6. pending'[v] = w /\ \A x \in Node \ {v} : pending'[x] = pending[x]
  BY <1>1, <1>3 DEF TypeOK, w
<1>7. \A x \in Node : Values(x)' \subseteq Values(x) \cup (IF x = v THEN {w} ELSE {})
  BY <1>2, <1>6 DEF Values
<1>8. StaysInTree'
  BY <1>2, <1>3, <1>7 DEF StaysInTree, Ancestor
<1>9. RootsAreStable'
  BY <1>2, <1>3, <1>7 DEF RootsAreStable, IsRoot
<1>10. DoneAreAtRoot'
  <2> SUFFICES ASSUME ~ found, NEW s \in Thread, NEW x \in Chunk[s] \ todo[s]
               PROVE  IsRoot(Newest(x))'
    BY <1>2 DEF DoneAreAtRoot
  <2>1. x \in Node
    BY ConstantAssumption
  <2>2. x # v
    BY <1>4, ConstantAssumption
  <2>3. IsRoot(Newest(x))
    BY DEF DoneAreAtRoot
  <2> QED
    BY <2>1, <2>2, <2>3, <1>2, <1>6 DEF Newest, IsRoot
<1>11. JumpedIsNewest'
  <2> SUFFICES ASSUME NEW s \in Thread, jumped'[s] # None
               PROVE  \E x \in Node : Current(s, x)' /\ Newest(x)' = jumped'[s]
    BY DEF JumpedIsNewest
  <2>1. CASE s = t
    <3>1. jumped'[s] = w
      BY <1>1, <2>1 DEF TypeOK, w
    <3>2. Newest(v)' = w
      BY <1>3, <1>6, NodeIsInt DEF Newest
    <3>3. Current(s, v)'
      BY <1>1, <1>2, <2>1 DEF Current
    <3> QED
      BY <3>1, <3>2, <3>3
  <2>2. CASE s # t
    <3>1. jumped'[s] = jumped[s]
      BY <1>1, <2>2 DEF TypeOK
    <3>2. PICK x \in Node : Current(s, x) /\ Newest(x) = jumped[s]
      BY <3>1 DEF JumpedIsNewest
    <3>3. x # v
      BY <3>2, <2>2, <1>4, ConstantAssumption DEF Current, TypeOK
    <3>4. Newest(x)' = Newest(x)
      BY <3>3, <1>2, <1>6 DEF Newest
    <3> QED
      BY <3>1, <3>2, <3>4, <1>2 DEF Current
  <2> QED
    BY <2>1, <2>2
<1>12. returned' => Barrier' /\ ~ found'
  <2>1. ~ returned
    BY <1>4 DEF Barrier
  <2> QED
    BY <2>1, <1>2
<1>13. StoresRise'
  <2> SUFFICES ASSUME NEW x \in Node PROVE labels[x] <= Newest(x)'
    BY <1>2 DEF StoresRise
  <2>1. CASE x # v
    BY <2>1, <1>2, <1>6 DEF StoresRise, Newest
  <2>2. CASE x = v
    <3>1. Read(t, v) = Newest(v)
      BY <1>4 DEF Read, Newest
    <3>2. Newest(v)' = w
      BY <1>3, <1>6, NodeIsInt DEF Newest
    <3>3. w >= Read(t, v)
      BY JumpUp DEF w
    <3>4. labels[v] <= Newest(v)
      BY DEF StoresRise
    <3>5. labels[v] \in Int /\ Newest(v) \in Int /\ w \in Int
      BY <1>3, NodeIsInt DEF Newest, TypeOK
    <3> QED
      BY <2>2, <3>1, <3>2, <3>3, <3>4, <3>5
  <2> QED
    BY <2>1, <2>2
<1> QED
  BY <1>5, <1>8, <1>9, <1>10, <1>11, <1>12, <1>13

(* A check that leaves found alone has seen the current vertex at a root.  *)
LEMMA CheckInv == ASSUME NEW t \in Thread PROVE IInv /\ Check(t) => IInv'
<1> SUFFICES ASSUME IInv, Check(t) PROVE IInv'
  OBVIOUS
<1> USE DEF IInv
<1>1. /\ jumped[t] # None
      /\ found' = (found \/ Read(t, jumped[t]) # jumped[t])
      /\ todo' = [todo EXCEPT ![t] = {x \in @ : ~ Current(t, x)}]
      /\ jumped' = [jumped EXCEPT ![t] = None]
      /\ UNCHANGED <<hooked, labels, pending, passes, returned>>
  BY DEF Check
<1>2. PICK v \in Node : Current(t, v) /\ Newest(v) = jumped[t]
  BY <1>1 DEF JumpedIsNewest
<1>3. todo'[t] = todo[t] \ {v} /\ \A s \in Thread \ {t} : todo'[s] = todo[s]
  <2>1. \A x \in todo[t] : Current(t, x) <=> x = v
    BY <1>2, NodeIsInt DEF Current, TypeOK
  <2>2. todo'[t] = {x \in todo[t] : ~ Current(t, x)}
    BY <1>1 DEF TypeOK
  <2>3. todo'[t] = todo[t] \ {v}
    BY <2>1, <2>2
  <2>4. \A s \in Thread \ {t} : todo'[s] = todo[s]
    BY <1>1 DEF TypeOK
  <2> QED
    BY <2>3, <2>4
<1>4. TypeOK'
  <2>1. found' \in BOOLEAN
    BY <1>1, Zenon
  <2>2. todo' \in [Thread -> SUBSET Node]
    BY <1>1 DEF TypeOK
  <2>3. \A s \in Thread : todo'[s] \subseteq Chunk[s]
    BY <1>3 DEF TypeOK
  <2>4. jumped' \in [Thread -> Node \cup {None}]
    BY <1>1 DEF TypeOK
  <2> QED
    BY <2>1, <2>2, <2>3, <2>4, <1>1 DEF TypeOK
<1>5. StaysInTree' /\ RootsAreStable'
  BY <1>1 DEF StaysInTree, RootsAreStable, Values, IsRoot, Ancestor
<1>6. DoneAreAtRoot'
  <2> SUFFICES ASSUME ~ found', NEW s \in Thread, NEW x \in Chunk[s] \ todo'[s]
               PROVE  IsRoot(Newest(x))
    BY <1>1 DEF DoneAreAtRoot, IsRoot, Newest
  <2>1. ~ found /\ Read(t, jumped[t]) = jumped[t]
    BY <1>1
  <2>2. CASE x \notin todo[s]
    BY <2>1, <2>2 DEF DoneAreAtRoot
  <2>3. CASE x \in todo[s]
    <3>1. x = v
      BY <2>3, <1>3
    <3>2. jumped[t] \in Node
      BY <1>1 DEF TypeOK
    <3>3. jumped[t] \in Values(jumped[t])
      BY <2>1, <3>2, ReadIsValue
    <3>4. IsRoot(jumped[t])
      <4> DEFINE r == jumped[t]
      <4>1. r \in Node /\ r \in Int /\ r \in Values(r)
        BY <3>2, <3>3, NodeIsInt
      <4> HIDE DEF r
      <4>2. ~ IsRoot(r) => r > r
        BY <4>1 DEF RootsAreStable
      <4>3. IsRoot(r)
        BY <4>1, <4>2
      <4> QED
        BY <4>3 DEF r
    <3> QED
      BY <3>1, <3>4, <1>2
  <2> QED
    BY <2>2, <2>3
<1>7. JumpedIsNewest'
  <2> SUFFICES ASSUME NEW s \in Thread, jumped'[s] # None
               PROVE  \E x \in Node : Current(s, x)' /\ Newest(x)' = jumped'[s]
    BY DEF JumpedIsNewest
  <2>1. s # t /\ jumped'[s] = jumped[s]
    BY <1>1 DEF TypeOK
  <2>2. PICK x \in Node : Current(s, x) /\ Newest(x) = jumped[s]
    BY <2>1 DEF JumpedIsNewest
  <2>3. Newest(x)' = Newest(x)
    BY <1>1 DEF Newest
  <2>4. Current(s, x)'
    BY <2>1, <2>2, <1>3 DEF Current
  <2> QED
    BY <2>1, <2>2, <2>3, <2>4
<1>8. returned' => Barrier' /\ ~ found'
  <2>1. ~ returned
    BY <1>2 DEF Barrier, Current
  <2> QED
    BY <2>1, <1>1
<1>9. StoresRise'
  BY <1>1 DEF StoresRise, Newest
<1> QED
  BY <1>4, <1>5, <1>6, <1>7, <1>8, <1>9

(* A store that becomes visible changes no newest value. *)
LEMMA CommitInv == ASSUME NEW v \in Node PROVE IInv /\ Commit(v) => IInv'
<1> SUFFICES ASSUME IInv, Commit(v) PROVE IInv'
  OBVIOUS
<1> USE DEF IInv
<1>1. /\ pending[v] # None
      /\ labels' = [labels EXCEPT ![v] = pending[v]]
      /\ pending' = [pending EXCEPT ![v] = None]
      /\ UNCHANGED <<hooked, found, todo, jumped, passes, returned>>
  BY DEF Commit
<1>2. TypeOK'
  BY <1>1 DEF TypeOK
<1>3. \A x \in Node : Values(x)' \subseteq Values(x)
  BY <1>1 DEF Values, TypeOK
<1>4. \A x \in Node : Newest(x)' = Newest(x)
  BY <1>1 DEF Newest, TypeOK
<1>5. StaysInTree' /\ RootsAreStable'
  BY <1>1, <1>3 DEF StaysInTree, RootsAreStable, IsRoot, Ancestor
<1>6. DoneAreAtRoot'
  BY <1>1, <1>4, ConstantAssumption DEF DoneAreAtRoot, IsRoot
<1>7. JumpedIsNewest'
  BY <1>1, <1>4 DEF JumpedIsNewest, Current
<1>8. returned' => Barrier' /\ ~ found'
  BY <1>1 DEF Barrier
<1>9. StoresRise'
  <2> SUFFICES ASSUME NEW x \in Node PROVE labels'[x] <= Newest(x)
    BY <1>4 DEF StoresRise
  <2>1. CASE x = v
    <3>1. labels'[x] = pending[x] /\ Newest(x) = pending[x]
      BY <2>1, <1>1 DEF Newest, TypeOK
    <3>2. pending[x] \in Int
      BY <2>1, <1>1, NodeIsInt DEF TypeOK
    <3> QED
      BY <3>1, <3>2
  <2>2. CASE x # v
    BY <2>2, <1>1 DEF StoresRise, TypeOK
  <2> QED
    BY <2>1, <2>2
<1> QED
  BY <1>2, <1>5, <1>6, <1>7, <1>8, <1>9

(* The invariant is about the variables of the module only. *)
LEMMA StutterInv == IInv /\ UNCHANGED vars => IInv'
BY DEF vars, IInv, TypeOK, StaysInTree, RootsAreStable, DoneAreAtRoot,
       JumpedIsNewest, StoresRise, Values, Newest, Current, IsRoot, Ancestor, Barrier

(* Every step keeps the invariant: one lemma above for each action. *)
LEMMA NextInv == IInv /\ [Next]_vars => IInv'
BY StartPassInv, ReturnInv, JumpInv, CheckInv, CommitInv, StutterInv
   DEF Next, Terminated

(* The inductive invariant holds: in particular racing jumps keep every    *)
(* label inside its tree (StaysInTree) and no root moves (RootsAreStable). *)
THEOREM FindRootsInv == Spec => []IInv
BY InitInv, NextInv, PTL DEF Spec

(* When a pass has ended without finding a vertex below its root, every    *)
(* label is the root of its vertex.                                        *)
LEMMA LastPass ==
  ASSUME IInv, Barrier, ~ found, NEW v \in Node
  PROVE  IsRoot(labels[v]) /\ Ancestor(v, labels[v])
<1> USE DEF IInv
<1>1. PICK t \in Thread : v \in Chunk[t]
  BY ConstantAssumption
<1>2. IsRoot(Newest(v))
  BY <1>1 DEF Barrier, DoneAreAtRoot
<1>3. Newest(v) = labels[v]
  BY DEF Newest, Barrier
<1>4. Ancestor(v, labels[v])
  BY DEF StaysInTree, Values
<1> QED
  BY <1>2, <1>3, <1>4

(* When find_roots returns, every label is the root of its vertex. *)
THEOREM FindRootsCorrect == Spec => []ReturnsRoots
<1>1. IInv => ReturnsRoots
  BY LastPass DEF IInv, ReturnsRoots
<1> QED
  BY <1>1, FindRootsInv, PTL

(* No step moves a label down. *)
THEOREM FindRootsOnlyUpwards == Spec => OnlyUpwards
<1>1. IInv /\ [Next]_vars => [\A v \in Node : labels'[v] >= labels[v]]_vars
  <2> SUFFICES ASSUME IInv, Next, NEW v \in Node
               PROVE  labels'[v] >= labels[v]
    OBVIOUS
  <2> USE DEF IInv
  <2>1. labels[v] \in Int
    BY NodeIsInt DEF TypeOK
  <2>2. CASE UNCHANGED labels
    BY <2>1, <2>2
  <2>3. ASSUME NEW u \in Node, Commit(u) PROVE labels'[v] >= labels[v]
    <3>1. labels' = [labels EXCEPT ![u] = Newest(u)]
      BY <2>3 DEF Commit, Newest
    <3>2. labels'[v] = labels[v] \/ labels'[v] = Newest(v)
      BY <3>1 DEF TypeOK
    <3>3. labels[v] <= Newest(v) /\ Newest(v) \in Int
      BY NodeIsInt DEF StoresRise, Newest, TypeOK
    <3> QED
      BY <2>1, <3>2, <3>3
  <2> QED
    BY <2>2, <2>3 DEF Next, StartPass, Return, Jump, Check, Terminated, vars
<1> QED
  BY <1>1, FindRootsInv, PTL DEF Spec, OnlyUpwards

-----------------------------------------------------------------------------
(***************************************************************************)
(* Passes.  Distances are bounded from below by the ancestors of a vertex, *)
(* without those of the other one.                                         *)
(***************************************************************************)
Line(v) == {w \in Node : Ancestor(v, w)}

(* w is the root, or n steps up from v.                                    *)
Far(v, w, n) == IsRoot(w) \/ Cardinality(Line(v)) >= Cardinality(Line(w)) + n

(* Some vertex is more than n steps below its root.                        *)
Deeper(n) == \E v \in Node : n < Height(v)

(* The vertices that the pass has dealt with.                              *)
Done == {v \in Node : \A t \in Thread : v \notin todo[t]}

(***************************************************************************)
(* Whatever a thread reads in a pass has got as far as the passes before   *)
(* it took it, and what it has stored twice as far; a vertex that the pass *)
(* did not get to its root proves that the tree is higher than that.       *)
(***************************************************************************)
Halving ==
  /\ hooked \in Forests
  /\ passes = 0 => found /\ \A t \in Thread : todo[t] = {}
  /\ passes # 0 => \A v \in Node : \A w \in Values(v) : Far(v, w, 2^(passes-1))
  /\ \A v \in Done : Far(v, Newest(v), 2^passes)
  /\ \A t \in Thread : \A v \in Node :
        jumped[t] # None /\ Current(t, v) => Far(v, Newest(v), 2^passes)
  /\ passes # 0 /\ found => Deeper(2^passes)
  /\ PassesLogarithmic

LEMMA Powers ==
  /\ 2^0 = 1
  /\ \A n \in Nat : 2^n \in Nat /\ 2^n # 0 /\ 2^(n+1) = 2 * 2^n
BY ForestTheorems!PowersOfTwo

LEMMA LineIs ==
  ASSUME NEW v
  PROVE  /\ IsFiniteSet(Line(v)) /\ Cardinality(Line(v)) \in Nat
         /\ Cardinality(Line(v)) <= N
<1>1. N \in Nat /\ N - 1 \in Int /\ 0 \in Int
  BY ConstantAssumption
<1>2. IsFiniteSet(Node) /\ Cardinality(Node) = N
  <2>1. IsFiniteSet(0 .. N-1) /\ Cardinality(0 .. N-1) = IF 0 > N-1 THEN 0 ELSE N-1-0+1
    BY <1>1, FS_Interval
  <2> QED
    BY <1>1, <2>1 DEF Node
<1>3. Line(v) \in SUBSET Node
  BY DEF Line
<1>4. IsFiniteSet(Line(v)) /\ Cardinality(Line(v)) <= N
  BY <1>2, <1>3, FS_Subset
<1> QED
  BY <1>4, FS_CardinalityType

(* One step up leaves a vertex behind: labels that point upwards have no   *)
(* cycle.                                                                  *)
LEMMA StepUp ==
  ASSUME hooked \in Forests, NEW v \in Node, ~ IsRoot(v)
  PROVE  Cardinality(Line(v)) >= Cardinality(Line(hooked[v])) + 1
<1>1. hooked[v] \in Node /\ hooked[v] # v /\ v <= hooked[v]
  BY DEF Forests, IsRoot
<1>2. v \in Int /\ hooked[v] \in Int
  BY <1>1, NodeIsInt
<1>3. Line(hooked[v]) \subseteq Line(v)
  BY AncestorStep, AncestorTransitive DEF Line
<1>4. v \in Line(v)
  BY AncestorReflexive DEF Line
<1>5. v \notin Line(hooked[v])
  <2> DEFINE S == {x \in Node : x >= hooked[v]}
  <2>1. S \in SUBSET Node /\ hooked[v] \in S /\ v \notin S
    BY <1>1, <1>2
  <2>2. \A x \in S : hooked[x] \in S
    <3> SUFFICES ASSUME NEW x \in S
                 PROVE  hooked[x] \in S
      OBVIOUS
    <3>1. x \in Node /\ hooked[x] \in Node /\ x <= hooked[x] /\ x >= hooked[v]
      BY DEF Forests
    <3>2. x \in Int /\ hooked[x] \in Int
      BY <3>1, NodeIsInt
    <3> QED
      BY <1>2, <3>1, <3>2
  <2> HIDE DEF S
  <2> QED
    BY <2>1, <2>2 DEF Line, Ancestor
<1>6. Cardinality(Line(v) \ {v}) = Cardinality(Line(v)) - 1 /\ IsFiniteSet(Line(v) \ {v})
  BY <1>4, LineIs, FS_RemoveElement
<1>7. Line(hooked[v]) \in SUBSET (Line(v) \ {v})
  BY <1>3, <1>5
<1>8. Cardinality(Line(hooked[v])) <= Cardinality(Line(v) \ {v})
  BY <1>6, <1>7, FS_Subset
<1> QED
  BY <1>6, <1>8, LineIs

(* Two jumps add up.                                                       *)
LEMMA FarTwice ==
  ASSUME NEW u, NEW v, NEW w, NEW n \in Nat, Far(u, v, n), Far(v, w, n), IsRoot(v) => w = v
  PROVE  Far(u, w, 2 * n)
<1>1. CASE IsRoot(w)
  BY <1>1 DEF Far
<1>2. CASE ~ IsRoot(w)
  <2>1. ~ IsRoot(v)
    BY <1>2
  <2>2. /\ Cardinality(Line(u)) >= Cardinality(Line(v)) + n
        /\ Cardinality(Line(v)) >= Cardinality(Line(w)) + n
    BY <1>2, <2>1 DEF Far
  <2> QED
    BY <2>2, LineIs DEF Far
<1> QED
  BY <1>1, <1>2

LEMMA FarLess ==
  ASSUME NEW u, NEW v, NEW n \in Nat, Far(u, v, 2 * n)
  PROVE  Far(u, v, n)
BY LineIs DEF Far

LEMMA HalvingInit == Init => Halving
<1> SUFFICES ASSUME Init PROVE Halving
  OBVIOUS
<1>1. /\ hooked \in Forests /\ passes = 0 /\ found
      /\ todo = [t \in Thread |-> {}] /\ jumped = [t \in Thread |-> None]
  BY Zenon DEF Init
<1>2. \A v \in Node : Newest(v) = hooked[v]
  BY DEF Init, Newest
<1>3. \A v \in Node : Far(v, hooked[v], 2^0)
  <2> SUFFICES ASSUME NEW v \in Node PROVE Far(v, hooked[v], 1)
    BY Powers
  <2>1. CASE IsRoot(v)
    BY <2>1 DEF Far, IsRoot
  <2>2. CASE ~ IsRoot(v)
    BY <1>1, <2>2, StepUp DEF Far
  <2> QED
    BY <2>1, <2>2
<1>4. PassesLogarithmic
  BY <1>1 DEF PassesLogarithmic
<1> QED
  BY <1>1, <1>2, <1>3, <1>4 DEF Halving, Done

LEMMA HalvingStartPass == IInv /\ Halving /\ StartPass => Halving'
<1> SUFFICES ASSUME IInv, Halving, StartPass PROVE Halving'
  OBVIOUS
<1>1. /\ Barrier /\ found /\ ~ found' /\ todo' = Chunk /\ passes' = passes + 1
      /\ UNCHANGED <<hooked, labels, pending, jumped, returned>>
  BY DEF StartPass
<1>2. passes \in Nat /\ passes' # 0 /\ passes' - 1 = passes
  BY <1>1 DEF IInv, TypeOK
<1>3. \A t \in Thread : jumped'[t] = None
  BY <1>1 DEF IInv, JumpedIsNewest, Barrier, Current
<1>4. Done' = {}
  BY <1>1, ConstantAssumption DEF Done
<1>5. \A v \in Node : \A w \in Values(v)' : Far(v, w, 2^(passes-1))'
  <2> SUFFICES ASSUME NEW v \in Node, NEW w \in Values(v)'
               PROVE  Far(v, w, 2^(passes-1))'
    OBVIOUS
  <2>1. w = Newest(v)
    BY <1>1 DEF Values, Newest, Barrier
  <2>2. v \in Done
    BY <1>1 DEF Done, Barrier
  <2>3. Far(v, w, 2^passes)
    BY <2>1, <2>2 DEF Halving
  <2>4. IsRoot(w)' <=> IsRoot(w)
    BY <1>1 DEF IsRoot
  <2>5. Line(v)' = Line(v) /\ Line(w)' = Line(w)
    BY <1>1 DEF Line, Ancestor
  <2> QED
    BY <1>2, <2>3, <2>4, <2>5 DEF Far
<1>6. PassesLogarithmic'
  <2>1. passes' > 1 => passes # 0
    BY <1>1, <1>2
  <2>2. passes # 0 => Deeper(2^passes)
    BY <1>1 DEF Halving
  <2>3. \A v : Height(v)' = Height(v)
    BY <1>1 DEF Height, Ancestor
  <2> QED
    BY <1>2, <2>1, <2>2, <2>3 DEF PassesLogarithmic, Deeper
<1>7. hooked' \in Forests /\ passes' # 0 /\ ~ found'
  BY <1>1, <1>2 DEF Halving
<1>8. \A v \in Done' : Far(v, Newest(v), 2^passes)'
  BY <1>4
<1>9. \A t \in Thread : \A v \in Node :
        jumped'[t] # None /\ Current(t, v)' => Far(v, Newest(v), 2^passes)'
  BY <1>3
<1> QED
  BY <1>5, <1>6, <1>7, <1>8, <1>9 DEF Halving

(* Distances are those of the labels that find_roots was called with.      *)
LEMMA FarStays ==
  ASSUME UNCHANGED <<hooked, passes>>
  PROVE  /\ \A v, w : Far(v, w, 2^(passes-1))' <=> Far(v, w, 2^(passes-1))
         /\ \A v : Far(v, Newest(v), 2^passes)' <=> Far(v, Newest(v)', 2^passes)
         /\ Deeper(2^passes)' <=> Deeper(2^passes)
         /\ PassesLogarithmic' <=> PassesLogarithmic
<1>1. \A v : Line(v)' = Line(v)
  BY DEF Line, Ancestor
<1>2. \A v : Line(Newest(v))' = Line(Newest(v)')
  BY DEF Line, Ancestor
<1>3. \A v : IsRoot(v)' <=> IsRoot(v)
  BY DEF IsRoot
<1>4. \A v : IsRoot(Newest(v))' <=> IsRoot(Newest(v)')
  BY DEF IsRoot
<1>5. \A v : Height(v)' = Height(v)
  BY DEF Height, Ancestor
<1>6. /\ Deeper(2^passes)' <=> Deeper(2^passes)
      /\ PassesLogarithmic' <=> PassesLogarithmic
  BY <1>5 DEF Deeper, PassesLogarithmic
<1> QED
  BY <1>1, <1>2, <1>3, <1>4, <1>6 DEF Far

LEMMA HalvingReturn == IInv /\ Halving /\ Return => Halving'
<1> SUFFICES ASSUME IInv, Halving, Return PROVE Halving'
  OBVIOUS
<1>1. UNCHANGED <<hooked, labels, pending, found, todo, jumped, passes>>
  BY DEF Return
<1>2. /\ \A v : Newest(v)' = Newest(v) /\ Values(v)' = Values(v)
      /\ \A t, v : Current(t, v)' <=> Current(t, v)
      /\ Done' = Done
  BY <1>1 DEF Newest, Values, Current, Done
<1>3. PassesLogarithmic'
  BY <1>1, FarStays DEF Halving
<1> QED
  BY <1>1, <1>2, <1>3, FarStays DEF Halving

LEMMA HalvingCommit == ASSUME NEW v \in Node PROVE IInv /\ Halving /\ Commit(v) => Halving'
<1> SUFFICES ASSUME IInv, Halving, Commit(v) PROVE Halving'
  OBVIOUS
<1>1. /\ pending[v] # None
      /\ labels' = [labels EXCEPT ![v] = pending[v]]
      /\ pending' = [pending EXCEPT ![v] = None]
      /\ UNCHANGED <<hooked, found, todo, jumped, passes>>
  BY DEF Commit
<1>2. /\ \A x \in Node : Newest(x)' = Newest(x) /\ Values(x)' \subseteq Values(x)
      /\ \A t, x : Current(t, x)' <=> Current(t, x)
      /\ Done' = Done
  BY <1>1 DEF IInv, TypeOK, Newest, Values, Current, Done
<1>3. PassesLogarithmic'
  BY <1>1, FarStays DEF Halving
<1>4. Done \subseteq Node
  BY DEF Done
<1> QED
  BY <1>1, <1>2, <1>3, <1>4, FarStays DEF Halving

LEMMA HalvingJump == ASSUME NEW t \in Thread PROVE IInv /\ Halving /\ Jump(t) => Halving'
<1> SUFFICES ASSUME IInv, Halving, Jump(t) PROVE Halving'
  OBVIOUS
<1>1. PICK v \in Node :
        /\ Current(t, v)
        /\ pending' = [pending EXCEPT ![v] = Read(t, Read(t, v))]
        /\ jumped' = [jumped EXCEPT ![t] = Read(t, Read(t, v))]
  BY DEF Jump
<1> DEFINE p == Read(t, v)
           w == Read(t, p)
<1>2. UNCHANGED <<hooked, labels, found, todo, passes>> /\ passes \in Nat
  BY DEF Jump, IInv, TypeOK
<1>3. p \in Node /\ p \in Values(v) /\ w \in Node /\ w \in Values(p)
  BY ReadIsValue DEF IInv
<1>4. v \in todo[t] /\ v \in Chunk[t] /\ passes # 0
  BY <1>1 DEF Current, IInv, TypeOK, Halving
<1>5. pending'[v] = w /\ \A x \in Node \ {v} : pending'[x] = pending[x]
  BY <1>1, <1>3 DEF IInv, TypeOK
<1> HIDE DEF w, p
<1>6. passes - 1 \in Nat /\ 2^(passes-1) \in Nat /\ 2^passes = 2 * 2^(passes-1)
  <2>1. passes - 1 \in Nat /\ (passes - 1) + 1 = passes
    BY <1>2, <1>4
  <2>2. 2^((passes - 1) + 1) = 2 * 2^(passes-1) /\ 2^(passes-1) \in Nat
    BY <2>1, Powers
  <2> QED
    BY <2>1, <2>2
<1>7. \A x \in Node : \A y \in Values(x) : Far(x, y, 2^(passes-1))
  BY <1>4 DEF Halving
<1>8. Far(v, w, 2^passes)
  <2>1. IsRoot(p) => w = p
    BY <1>3 DEF IInv, RootsAreStable
  <2>2. Far(v, p, 2^(passes-1)) /\ Far(p, w, 2^(passes-1))
    BY <1>3, <1>7
  <2> QED
    BY <1>6, <2>1, <2>2, FarTwice
<1>9. Far(v, w, 2^(passes-1))
  BY <1>6, <1>8, FarLess
<1>10. \A x \in Node : Values(x)' \subseteq Values(x) \cup (IF x = v THEN {w} ELSE {})
  BY <1>2, <1>5 DEF Values
<1>11. Newest(v)' = w /\ \A x \in Node \ {v} : Newest(x)' = Newest(x)
  BY <1>2, <1>3, <1>5, NodeIsInt DEF Newest
<1>12. \A x \in Node : \A y \in Values(x)' : Far(x, y, 2^(passes-1))'
  BY <1>2, <1>7, <1>9, <1>10, FarStays
<1>13. \A x \in Done' : Far(x, Newest(x), 2^passes)'
  <2> SUFFICES ASSUME NEW x \in Done'
               PROVE  Far(x, Newest(x), 2^passes)'
    OBVIOUS
  <2>1. x \in Done /\ x \in Node \ {v}
    BY <1>2, <1>4 DEF Done
  <2>2. Far(x, Newest(x), 2^passes)
    BY <2>1 DEF Halving
  <2> QED
    BY <1>2, <1>11, <2>1, <2>2, FarStays
<1>14. ASSUME NEW s \in Thread, NEW x \in Node, jumped'[s] # None, Current(s, x)'
       PROVE  Far(x, Newest(x), 2^passes)'
  <2>1. Current(s, x)
    BY <1>2, <1>14 DEF Current
  <2>2. CASE x = v
    BY <1>2, <1>8, <1>11, <2>2, FarStays
  <2>3. CASE x # v
    <3>1. s # t
      <4> SUFFICES ASSUME s = t PROVE x = v
        BY <2>3
      <4>1. v \in todo[t] /\ x \in todo[t] /\ v <= x /\ x <= v
        BY <1>1, <2>1 DEF Current
      <4>2. v \in Int /\ x \in Int
        BY NodeIsInt
      <4> QED
        BY <4>1, <4>2
    <3>2. jumped'[s] = jumped[s]
      BY <1>1, <3>1 DEF IInv, TypeOK
    <3>3. Far(x, Newest(x), 2^passes)
      BY <1>14, <2>1, <3>2 DEF Halving
    <3>4. Newest(x)' = Newest(x)
      BY <1>11, <2>3
    <3> QED
      BY <1>2, <3>3, <3>4, FarStays
  <2> QED
    BY <2>2, <2>3
<1>15. PassesLogarithmic'
  BY <1>2, FarStays DEF Halving
<1>16. Deeper(2^passes)' <=> Deeper(2^passes)
  BY <1>2, FarStays
<1> QED
  BY <1>2, <1>4, <1>12, <1>13, <1>14, <1>15, <1>16 DEF Halving

LEMMA HalvingCheck == ASSUME NEW t \in Thread PROVE IInv /\ Halving /\ Check(t) => Halving'
<1> SUFFICES ASSUME IInv, Halving, Check(t) PROVE Halving'
  OBVIOUS
<1>1. /\ jumped[t] # None
      /\ found' = (found \/ Read(t, jumped[t]) # jumped[t])
      /\ todo' = [todo EXCEPT ![t] = {x \in @ : ~ Current(t, x)}]
      /\ jumped' = [jumped EXCEPT ![t] = None]
      /\ UNCHANGED <<hooked, labels, pending, passes, returned>>
  BY DEF Check
<1>2. PICK v \in Node : Current(t, v) /\ Newest(v) = jumped[t]
  BY <1>1 DEF IInv, JumpedIsNewest
<1>3. v \in todo[t] /\ v \in Chunk[t] /\ passes # 0 /\ passes \in Nat
  BY <1>2 DEF Current, IInv, TypeOK, Halving
<1>4. todo'[t] = todo[t] \ {v} /\ \A s \in Thread \ {t} : todo'[s] = todo[s]
  <2>1. \A x \in todo[t] : Current(t, x) <=> x = v
    BY <1>2, NodeIsInt DEF Current, IInv, TypeOK
  <2>2. todo'[t] = {x \in todo[t] : ~ Current(t, x)}
    BY <1>1 DEF IInv, TypeOK
  <2>3. todo'[t] = todo[t] \ {v}
    BY <2>1, <2>2
  <2>4. \A s \in Thread \ {t} : todo'[s] = todo[s]
    BY <1>1 DEF IInv, TypeOK
  <2> QED
    BY <2>3, <2>4
<1>5. Far(v, jumped[t], 2^passes) /\ jumped[t] \in Node
  <2>1. Far(v, Newest(v), 2^passes)
    BY <1>1, <1>2 DEF Halving
  <2>2. jumped[t] \in Node
    BY <1>1 DEF IInv, TypeOK
  <2> QED
    BY <1>2, <2>1, <2>2
<1>6. \A x : Newest(x)' = Newest(x) /\ Values(x)' = Values(x)
  BY <1>1 DEF Newest, Values
<1>7. \A x \in Done' : Far(x, Newest(x), 2^passes)'
  <2> SUFFICES ASSUME NEW x \in Done'
               PROVE  Far(x, Newest(x), 2^passes)
    BY <1>1, <1>6, FarStays
  <2>1. CASE x = v
    BY <1>2, <1>5, <2>1
  <2>2. CASE x # v
    <3>1. x \in Done
      BY <1>4, <2>2 DEF Done
    <3> QED
      BY <3>1 DEF Halving
  <2> QED
    BY <2>1, <2>2
<1>8. ASSUME NEW s \in Thread, NEW x \in Node, jumped'[s] # None, Current(s, x)'
      PROVE  Far(x, Newest(x), 2^passes)'
  <2>1. s # t /\ jumped'[s] = jumped[s]
    BY <1>1, <1>8 DEF IInv, TypeOK
  <2>2. Current(s, x)
    BY <1>4, <1>8, <2>1 DEF Current
  <2>3. Far(x, Newest(x), 2^passes)
    BY <1>8, <2>1, <2>2 DEF Halving
  <2> QED
    BY <1>1, <1>6, <2>3, FarStays
<1>9. found' => Deeper(2^passes)
  <2> SUFFICES ASSUME found'
               PROVE  Deeper(2^passes)
    OBVIOUS
  <2>1. CASE found
    BY <1>3, <2>1 DEF Halving
  <2>2. CASE ~ found
    <3> DEFINE j == jumped[t]
    <3>1. Read(t, j) # j /\ Read(t, j) \in Values(j)
      BY <1>1, <1>5, <2>2, ReadIsValue DEF IInv
    <3>2. ~ IsRoot(j)
      BY <1>5, <3>1 DEF IInv, RootsAreStable
    <3>3. Cardinality(Line(v)) >= Cardinality(Line(j)) + 2^passes
      BY <1>5, <3>2 DEF Far
    <3>4. Cardinality(Line(j)) >= Cardinality(Line(hooked[j])) + 1
      BY <1>5, <3>2, StepUp DEF Halving
    <3>5. Cardinality(Line(hooked[j])) >= 1
      <4>1. hooked[j] \in Line(hooked[j])
        BY <1>5, AncestorReflexive DEF IInv, TypeOK, Line
      <4>2. Cardinality(Line(hooked[j])) # 0
        BY <4>1, LineIs, FS_EmptySet
      <4> QED
        BY <4>2, LineIs
    <3>6. 2^passes \in Nat
      BY <1>3, Powers
    <3> HIDE DEF j
    <3>7. Cardinality(Line(v)) \in Nat /\ Cardinality(Line(v)) >= 2 + 2^passes
      BY <3>3, <3>4, <3>5, <3>6, LineIs
    <3>8. v \in Node /\ Height(v) = Cardinality(Line(v)) - 1
      BY <1>2 DEF Height, Line
    <3>9. 2^passes < Height(v)
      BY <3>6, <3>7, <3>8
    <3> QED
      BY <3>8, <3>9 DEF Deeper
  <2> QED
    BY <2>1, <2>2
<1>10. PassesLogarithmic' /\ hooked' \in Forests /\ passes' # 0
  BY <1>1, <1>3, FarStays DEF Halving
<1>11. \A x \in Node : \A y \in Values(x)' : Far(x, y, 2^(passes-1))'
  BY <1>1, <1>3, <1>6, FarStays DEF Halving
<1>12. found' => Deeper(2^passes)'
  BY <1>1, <1>9, FarStays
<1> QED
  BY <1>1, <1>7, <1>8, <1>10, <1>11, <1>12 DEF Halving

LEMMA HalvingStutter == Halving /\ UNCHANGED vars => Halving'
<1> SUFFICES ASSUME Halving, UNCHANGED vars PROVE Halving'
  OBVIOUS
<1>1. UNCHANGED <<hooked, labels, pending, found, todo, jumped, passes>>
  BY DEF vars
<1>2. /\ \A v : Newest(v)' = Newest(v) /\ Values(v)' = Values(v)
      /\ \A t, v : Current(t, v)' <=> Current(t, v)
      /\ Done' = Done
  BY <1>1 DEF Newest, Values, Current, Done
<1>3. PassesLogarithmic'
  BY <1>1, FarStays DEF Halving
<1> QED
  BY <1>1, <1>2, <1>3, FarStays DEF Halving

(* Every pass at least halves the distance to the root, so that there are  *)
(* no more than the logarithm of the height of the highest tree.           *)
THEOREM FewPasses == Spec => []PassesLogarithmic
<1>1. Init => Halving
  BY HalvingInit
<1>2. IInv /\ Halving /\ [Next]_vars => Halving'
  BY HalvingStartPass, HalvingReturn, HalvingJump, HalvingCheck, HalvingCommit, HalvingStutter
     DEF Next, Terminated
<1>3. Halving => PassesLogarithmic
  BY DEF Halving
<1> QED
  BY <1>1, <1>2, <1>3, FindRootsInv, PTL DEF Spec
=============================================================================
