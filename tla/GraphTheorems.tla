--------------------------- MODULE GraphTheorems ---------------------------
(***************************************************************************)
(* Facts about connectivity, about forests of labels, about compaction,    *)
(* about the edges that find_rank_and_remove_edges returns and about       *)
(* disjoint sets, on which the proofs of the programs rest.                *)
(***************************************************************************)
EXTENDS OmpRound, DisjointSets, FunctionTheorems, FiniteSetTheorems, SequenceTheorems,
        WellFoundedInduction, TLAPS

(* A vertex is connected to itself, whatever the edges. *)
LEMMA ConnectedReflexive ==
  ASSUME NEW V, NEW E, NEW u
  PROVE  Connected(V, E, u, u)
BY DEF Connected

(* Connections compose: this is what lets labels be merged round by round. *)
LEMMA ConnectedTransitive ==
  ASSUME NEW V, NEW E, NEW u, NEW v, NEW w,
         Connected(V, E, u, v), Connected(V, E, v, w)
  PROVE  Connected(V, E, u, w)
BY DEF Connected

(* Connections go both ways: a separating set and its complement separate  *)
(* the same vertices.                                                      *)
LEMMA ConnectedSymmetric ==
  ASSUME NEW V, NEW E, NEW u \in V, NEW v \in V,
         \A p \in E : p \subseteq V,
         Connected(V, E, u, v)
  PROVE  Connected(V, E, v, u)
<1> SUFFICES ASSUME NEW S \in SUBSET V, ClosedUnder(S, E), v \in S, u \notin S
             PROVE  FALSE
  BY DEF Connected
<1>1. ClosedUnder(V \ S, E)
  BY DEF ClosedUnder
<1>2. u \in V \ S
  OBVIOUS
<1>3. v \in V \ S
  BY <1>1, <1>2 DEF Connected
<1> QED
  BY <1>3

(* The members of a pair of E are connected through E. *)
LEMMA ConnectedPair ==
  ASSUME NEW V, NEW E, NEW p \in E, NEW a \in p, NEW b \in p
  PROVE  Connected(V, E, a, b)
BY DEF Connected, ClosedUnder

(* If F connects the members of every pair of E, then F connects whatever  *)
(* E connects: an edge that is rewritten by connected labels adds nothing. *)
LEMMA ConnectedThrough ==
  ASSUME NEW V, NEW E, NEW F, NEW u, NEW v,
         \A p \in E : \A a, b \in p : Connected(V, F, a, b),
         Connected(V, E, u, v)
  PROVE  Connected(V, F, u, v)
<1> SUFFICES ASSUME NEW S \in SUBSET V, ClosedUnder(S, F), u \in S
             PROVE  v \in S
  BY DEF Connected
<1>1. ClosedUnder(S, E)
  <2> SUFFICES ASSUME NEW p \in E, NEW a \in p, a \in S, NEW b \in p
               PROVE  b \in S
    BY DEF ClosedUnder
  <2> QED
    BY DEF Connected
<1> QED
  BY <1>1 DEF Connected

(* Without pairs, every vertex is for itself. *)
LEMMA ConnectedByNone ==
  ASSUME NEW V, NEW u \in V, NEW v
  PROVE  Connected(V, {}, u, v) <=> u = v
<1>1. {u} \in SUBSET V /\ ClosedUnder({u}, {})
  BY DEF ClosedUnder
<1> QED
  BY <1>1, ConnectedReflexive DEF Connected

(* More pairs connect more. *)
LEMMA ConnectedByMore ==
  ASSUME NEW V, NEW E, NEW F, E \subseteq F, NEW u, NEW v, Connected(V, E, u, v)
  PROVE  Connected(V, F, u, v)
BY DEF Connected, ClosedUnder

(* A map of the vertices keeps what is connected connected. *)
LEMMA ConnectedImage ==
  ASSUME NEW V, NEW W, NEW f \in [V -> W], NEW E, \A p \in E : p \subseteq V,
         NEW u \in V, NEW v \in V, Connected(V, E, u, v)
  PROVE  Connected(W, {{f[x] : x \in p} : p \in E}, f[u], f[v])
<1> DEFINE F == {{f[x] : x \in p} : p \in E}
<1> SUFFICES ASSUME NEW S \in SUBSET W, ClosedUnder(S, F), f[u] \in S
             PROVE  f[v] \in S
  BY DEF Connected
<1> DEFINE T == {x \in V : f[x] \in S}
<1>1. ASSUME NEW p \in E PROVE p \subseteq T \/ p \cap T = {}
  <2>1. {f[x] : x \in p} \in F
    OBVIOUS
  <2>2. {f[x] : x \in p} \subseteq S \/ {f[x] : x \in p} \cap S = {}
    BY <2>1 DEF ClosedUnder
  <2> QED
    BY <2>2
<1>2. T \in SUBSET V /\ ClosedUnder(T, E) /\ u \in T
  BY <1>1 DEF ClosedUnder
<1>3. v \in T
  BY <1>2 DEF Connected
<1> QED
  BY <1>3

(* A pair more joins the classes of its ends, and no others. *)
LEMMA ConnectedByOneMore ==
  ASSUME NEW V, NEW E, \A p \in E : p \subseteq V, NEW a \in V, NEW b \in V
  PROVE  \A u, v \in V : Connected(V, E \cup {{a, b}}, u, v) <=>
            \/ Connected(V, E, u, v)
            \/ /\ Connected(V, E, u, a) \/ Connected(V, E, u, b)
               /\ Connected(V, E, v, a) \/ Connected(V, E, v, b)
<1> DEFINE F == E \cup {{a, b}}
           C(u, v) == Connected(V, F, u, v)
           c(u, v) == Connected(V, E, u, v)
           J(u, v) == \/ c(u, v)
                      \/ (c(u, a) \/ c(u, b)) /\ (c(v, a) \/ c(v, b))
<1>1. \A p \in F : p \subseteq V
  OBVIOUS
<1>2. \A u, v \in V : c(u, v) => C(u, v)
  BY ConnectedByMore
<1>3. C(a, b) /\ C(b, a)
  <2>1. {a, b} \in F /\ a \in {a, b} /\ b \in {a, b}
    OBVIOUS
  <2> QED
    BY <2>1, ConnectedPair
<1>4. /\ \A u, v, w \in V : C(u, v) /\ C(v, w) => C(u, w)
      /\ \A u, v \in V : C(u, v) => C(v, u)
  BY <1>1, ConnectedTransitive, ConnectedSymmetric
<1>5. /\ \A u \in V : c(u, u)
      /\ \A u, v, w \in V : c(u, v) /\ c(v, w) => c(u, w)
      /\ \A u, v \in V : c(u, v) => c(v, u)
  BY ConnectedReflexive, ConnectedTransitive, ConnectedSymmetric
<1>6. \A p \in E : \A x, y \in p : x \in V /\ y \in V /\ c(x, y)
  BY ConnectedPair
<1>7. ASSUME NEW u \in V, NEW v \in V, J(u, v)
      PROVE  C(u, v)
  <2> HIDE DEF C, c
  <2>1. CASE c(u, v)
    BY <1>2, <2>1
  <2>2. CASE (c(u, a) \/ c(u, b)) /\ (c(v, a) \/ c(v, b))
    <3>1. C(u, a) /\ C(v, a)
      BY <1>2, <1>3, <1>4, <2>2
    <3> QED
      BY <1>4, <3>1
  <2> QED
    BY <1>7, <2>1, <2>2
<1>8. \A x, y, z \in V : J(x, y) /\ J(y, z) => J(x, z)
  <2> HIDE DEF c
  <2> QED
    BY <1>5
<1>9. \A p \in F : \A x, y \in p : J(x, y)
  <2> HIDE DEF c
  <2>1. \A x, y \in {a, b} : J(x, y)
    BY <1>5
  <2>2. \A p \in F : p \in E \/ p = {a, b}
    OBVIOUS
  <2> HIDE DEF F
  <2>3. ASSUME NEW p \in F, NEW x \in p, NEW y \in p PROVE J(x, y)
    <3>1. CASE p \in E
      BY <1>6, <3>1
    <3>2. CASE p = {a, b}
      BY <2>1, <3>2
    <3> QED
      BY <2>2, <3>1, <3>2
  <2> QED
    BY <2>3
<1>10. ASSUME NEW u \in V, NEW v \in V, C(u, v)
       PROVE  J(u, v)
  <2> DEFINE S == {w \in V : J(u, w)}
  <2>1. ASSUME NEW p \in F
        PROVE  p \subseteq S \/ p \cap S = {}
    <3> HIDE DEF J, F
    <3> QED
      BY <1>1, <1>8, <1>9
  <2>2. u \in S
    <3>1. J(u, u)
      BY <1>5
    <3> HIDE DEF J
    <3> QED
      BY <3>1
  <2>3. S \in SUBSET V /\ ClosedUnder(S, F)
    BY <2>1 DEF ClosedUnder
  <2>4. v \in S
    <3> HIDE DEF S, F
    <3> QED
      BY <1>10, <2>2, <2>3 DEF Connected, F
  <2> QED
    BY <2>4
<1>11. \A u, v \in V : C(u, v) <=> J(u, v)
  <2> HIDE DEF C, J
  <2> QED
    BY <1>7, <1>10
<1> QED
  BY <1>11

-----------------------------------------------------------------------------
(* There are n indices up to n. *)
LEMMA FirstFinite ==
  ASSUME NEW n \in Nat
  PROVE  IsFiniteSet(1 .. n) /\ Cardinality(1 .. n) = n
BY FS_Interval

(* A prefix sum counts at most what there is to count. *)
LEMMA UptoType ==
  ASSUME NEW K, IsFiniteSet(K), NEW i
  PROVE  Upto(K, i) \in 0 .. Cardinality(K)
<1>1. {j \in K : j <= i} \in SUBSET K
  OBVIOUS
<1> QED
  BY <1>1, FS_Subset, FS_CardinalityType DEF Upto

(* At every mark the prefix sum is more than it was at the mark before:    *)
(* two marked elements never get the same place.                           *)
LEMMA UptoRises ==
  ASSUME NEW K \in SUBSET Int, IsFiniteSet(K), NEW j \in K, NEW k \in K, j < k
  PROVE  Upto(K, j) < Upto(K, k)
<1> DEFINE J == {i \in K : i <= j}
           L == {i \in K : i <= k}
<1>1. J \in SUBSET L /\ L \in SUBSET K /\ J # L
  <2>1. k \in L /\ k \notin J
    OBVIOUS
  <2>2. \A i \in J : i \in L
    OBVIOUS
  <2> QED
    BY <2>1, <2>2
<1>2. IsFiniteSet(L)
  BY <1>1, FS_Subset
<1>3. IsFiniteSet(J) /\ Cardinality(J) <= Cardinality(L) /\ Cardinality(J) # Cardinality(L)
  BY <1>1, <1>2, FS_Subset
<1>4. Cardinality(J) \in Nat /\ Cardinality(L) \in Nat
  BY <1>2, <1>3, FS_CardinalityType
<1> QED
  BY <1>3, <1>4 DEF Upto

LEMMA UptoInjective ==
  ASSUME NEW K \in SUBSET Int, IsFiniteSet(K), NEW j \in K, NEW k \in K,
         Upto(K, j) = Upto(K, k)
  PROVE  j = k
<1>1. ~ (j < k) /\ ~ (k < j)
  BY UptoRises, UptoType
<1> QED
  BY <1>1

(* The place of a marked element exists ... *)
LEMMA UptoInRange ==
  ASSUME NEW K \in SUBSET Int, IsFiniteSet(K), NEW k \in K
  PROVE  Upto(K, k) \in 1 .. Cardinality(K)
<1> DEFINE J == {i \in K : i <= k}
<1>1. J \in SUBSET K /\ k \in J
  OBVIOUS
<1>2. IsFiniteSet(J) /\ Cardinality(J) # 0
  BY <1>1, FS_Subset, FS_EmptySet
<1>3. Upto(K, k) # 0
  BY <1>2 DEF Upto
<1> QED
  BY <1>3, UptoType, FS_CardinalityType

(* ... and every place is one of a marked element: none stays empty.       *)
LEMMA UptoOnto ==
  ASSUME NEW K \in SUBSET Int, IsFiniteSet(K), NEW s \in 1 .. Cardinality(K)
  PROVE  \E k \in K : Upto(K, k) = s
<1> DEFINE T == 1 .. Cardinality(K)
           f == [k \in K |-> Upto(K, k)]
<1>1. Cardinality(K) \in Nat
  BY FS_CardinalityType
<1>2. f \in [K -> T]
  BY UptoInRange
<1>3. \A j, k \in K : f[j] = f[k] => j = k
  BY UptoInjective
<1>4. f \in Injection(K, T)
  BY <1>2, <1>3 DEF Injection, IsInjective
<1>5. IsFiniteSet(T) /\ Cardinality(T) = Cardinality(K)
  BY <1>1, FS_Interval
<1>6. f \in Surjection(K, T)
  BY <1>4, <1>5, FS_Injection
<1> QED
  BY <1>6 DEF Surjection

(* Prefix sums go on in a stretch of c indices after the first d: the marks *)
(* of the stretch, counted from its beginning, are added to those before.   *)
LEMMA UptoStretch ==
  ASSUME NEW K \in SUBSET Int, IsFiniteSet(K), NEW d \in Int, NEW c \in Nat,
         NEW j \in 0 .. c
  PROVE  LET L == {k \in 1 .. c : d + k \in K}
         IN  Upto(K, d + j) = Upto(K, d) + Upto(L, j)
<1> DEFINE L == {k \in 1 .. c : d + k \in K}
           A == {i \in K : i <= d}
           B == {i \in K : d < i /\ i <= d + j}
           C == {k \in L : k <= j}
           f == [k \in C |-> d + k]
<1>1. IsFiniteSet(A) /\ IsFiniteSet(B)
  <2>1. A \in SUBSET K /\ B \in SUBSET K
    OBVIOUS
  <2> HIDE DEF A, B
  <2> QED
    BY <2>1, FS_Subset
<1>2. {i \in K : i <= d + j} = A \cup B /\ A \cap B = {}
  <2>1. \A i \in K : i <= d + j <=> i \in A \/ i \in B
    OBVIOUS
  <2>2. \A i \in A \cap B : FALSE
    OBVIOUS
  <2>3. A \in SUBSET K /\ B \in SUBSET K
    OBVIOUS
  <2> HIDE DEF A, B
  <2> QED
    BY <2>1, <2>2, <2>3
<1>3. IsFiniteSet(C)
  <2>1. C \in SUBSET (1 .. c) /\ IsFiniteSet(1 .. c)
    BY FS_Interval
  <2> HIDE DEF C
  <2> QED
    BY <2>1, FS_Subset
<1>4. f \in Bijection(C, B)
  <2>1. \A k \in C : d + k \in B
    OBVIOUS
  <2>2. \A x, y \in C : d + x = d + y => x = y
    OBVIOUS
  <2>3. \A i \in B : i - d \in C /\ d + (i - d) = i
    OBVIOUS
  <2> HIDE DEF B, C
  <2>4. f \in [C -> B]
    BY <2>1
  <2>5. f \in Injection(C, B)
    BY <2>2, <2>4 DEF Injection, IsInjective
  <2>6. f \in Surjection(C, B)
    BY <2>3, <2>4 DEF Surjection
  <2> QED
    BY <2>5, <2>6 DEF Bijection
<1> HIDE DEF A, B, C, f
<1>5. Cardinality(B) = Cardinality(C)
  BY <1>3, <1>4, FS_Bijection DEF ExistsBijection
<1>6. Cardinality(A \cup B) = Cardinality(A) + Cardinality(B)
  <2>1. Cardinality(A) \in Nat /\ Cardinality(B) \in Nat
    BY <1>1, FS_CardinalityType
  <2>2. Cardinality(A \cup B) = Cardinality(A) + Cardinality(B) - Cardinality(A \cap B)
    BY <1>1, FS_Union
  <2>3. Cardinality(A \cap B) = 0
    BY <1>2, FS_EmptySet
  <2> QED
    BY <2>1, <2>2, <2>3
<1>7. Upto(K, d + j) = Cardinality(A \cup B) /\ Upto(K, d) = Cardinality(A)
  BY <1>2 DEF Upto, A
<1>8. Upto(L, j) = Cardinality(C)
  BY DEF Upto, C
<1> QED
  BY <1>5, <1>6, <1>7, <1>8

(* Nth and Upto undo each other. *)
LEMMA NthUpto ==
  ASSUME NEW K \in SUBSET Int, IsFiniteSet(K)
  PROVE  /\ \A k \in K : Nth(K, Upto(K, k)) = k
         /\ \A s \in 1 .. Cardinality(K) : Nth(K, s) \in K /\ Upto(K, Nth(K, s)) = s
<1>1. ASSUME NEW s \in 1 .. Cardinality(K)
      PROVE  Nth(K, s) \in K /\ Upto(K, Nth(K, s)) = s
  BY UptoOnto DEF Nth
<1>2. ASSUME NEW k \in K
      PROVE  Nth(K, Upto(K, k)) = k
  <2> DEFINE m == Nth(K, Upto(K, k))
  <2>1. m \in K /\ Upto(K, m) = Upto(K, k)
    BY <1>1, UptoInRange
  <2> HIDE DEF m
  <2>2. m = k
    BY <2>1, UptoInjective
  <2> QED
    BY <2>2 DEF m
<1> QED
  BY <1>1, <1>2

(* The marked elements of a sequence, in order. *)
LEMMA CompactType ==
  ASSUME NEW S, NEW s \in Seq(S), NEW K \in SUBSET DOMAIN s
  PROVE  /\ IsFiniteSet(K)
         /\ K \in SUBSET Int
         /\ Cardinality(K) \in Nat
         /\ Compact(s, K) \in Seq(S)
         /\ DOMAIN Compact(s, K) = 1 .. Cardinality(K)
         /\ \A k \in DOMAIN Compact(s, K) :
               Nth(K, k) \in K /\ Compact(s, K)[k] = s[Nth(K, k)]
<1>1. IsFiniteSet(DOMAIN s) /\ DOMAIN s \in SUBSET Int
  BY FS_Interval
<1>2. IsFiniteSet(K) /\ K \in SUBSET Int /\ Cardinality(K) \in Nat
  BY <1>1, FS_Subset, FS_CardinalityType
<1>3. \A k \in 1 .. Cardinality(K) : Nth(K, k) \in K
  BY <1>2, NthUpto
<1>4. \A k \in 1 .. Cardinality(K) : s[Nth(K, k)] \in S
  BY <1>3
<1> QED
  BY <1>2, <1>3, <1>4 DEF Compact

(* main keeps no self loop and turns every edge upwards. *)
LEMMA ReadEdgesType ==
  ASSUME NEW V \in SUBSET Int, NEW file \in Seq(Edge(V))
  PROVE  ReadEdges(file) \in Seq({e \in Edge(V) : e.from < e.to})
<1> DEFINE K == {k \in DOMAIN file : file[k].to # file[k].from}
           kept == Compact(file, K)
<1>1. /\ kept \in Seq(Edge(V))
      /\ \A k \in DOMAIN kept : Nth(K, k) \in K /\ kept[k] = file[Nth(K, k)]
  BY CompactType, K \in SUBSET DOMAIN file
<1>2. \A k \in DOMAIN kept : kept[k] \in Edge(V) /\ kept[k].to # kept[k].from
  BY <1>1
<1>3. ASSUME NEW e \in Edge(V), e.to # e.from
      PROVE  normalize(e) \in {d \in Edge(V) : d.from < d.to}
  <2>1. e.from \in V /\ e.to \in V /\ e.from \in Int /\ e.to \in Int
    BY DEF Edge
  <2>2. CASE e.from < e.to
    BY <2>1, <2>2 DEF Edge, normalize, normalized
  <2>3. CASE e.to < e.from
    <3>1. normalize(e) = [from |-> e.to, to |-> e.from]
      BY <2>1, <2>3 DEF normalize, normalized
    <3> QED
      BY <2>1, <2>3, <3>1 DEF Edge
  <2> QED
    BY <1>3, <2>1, <2>2, <2>3
<1>4. \A k \in DOMAIN kept : normalize(kept[k]) \in {e \in Edge(V) : e.from < e.to}
  BY <1>2, <1>3
<1>5. ReadEdges(file) = [k \in 1 .. Len(kept) |-> normalize(kept[k])]
  BY <1>1 DEF ReadEdges
<1> HIDE DEF kept
<1> QED
  BY <1>1, <1>4, <1>5

(* The self loops that main drops connect nothing: the components of the   *)
(* file are those of the edges that main keeps.                            *)
LEMMA ReadEdgesConnected ==
  ASSUME NEW V \in SUBSET Int, NEW file \in Seq(Edge(V)), NEW u, NEW v
  PROVE  Connected(V, Pairs(ReadEdges(file)), u, v) <=> Connected(V, Pairs(file), u, v)
<1> DEFINE K == {k \in DOMAIN file : file[k].to # file[k].from}
           kept == Compact(file, K)
           read == ReadEdges(file)
<1>1. /\ IsFiniteSet(K) /\ K \in SUBSET Int
      /\ DOMAIN kept = 1 .. Cardinality(K)
      /\ \A k \in DOMAIN kept : Nth(K, k) \in K /\ kept[k] = file[Nth(K, k)]
  BY CompactType, K \in SUBSET DOMAIN file
<1>2. read = [k \in DOMAIN kept |-> normalize(kept[k])]
  BY DEF ReadEdges
<1>3. \A e \in Edge(V) : Pair(normalize(e)) = Pair(e)
  BY DEF Pair, normalize
<1>4. \A k \in DOMAIN file : file[k] \in Edge(V)
  OBVIOUS
<1>5. ASSUME NEW k \in DOMAIN read
      PROVE  Nth(K, k) \in DOMAIN file /\ Pair(read[k]) = Pair(file[Nth(K, k)])
  <2>1. Nth(K, k) \in K /\ read[k] = normalize(file[Nth(K, k)])
    BY <1>1, <1>2
  <2> QED
    BY <1>3, <1>4, <2>1
<1>6. ASSUME NEW k \in K
      PROVE  \E j \in DOMAIN read : Pair(read[j]) = Pair(file[k])
  <2> HIDE DEF K, kept, read
  <2>1. Upto(K, k) \in 1 .. Cardinality(K) /\ Nth(K, Upto(K, k)) = k
    BY <1>1, UptoInRange, NthUpto
  <2>2. Upto(K, k) \in DOMAIN read
    BY <1>1, <1>2, <2>1
  <2> QED
    BY <1>5, <2>1, <2>2
<1>7. ASSUME NEW S \in SUBSET V
      PROVE  ClosedUnder(S, Pairs(read)) <=> ClosedUnder(S, Pairs(file))
  <2>1. ASSUME ClosedUnder(S, Pairs(file)) PROVE ClosedUnder(S, Pairs(read))
    BY <1>5, <2>1 DEF ClosedUnder, Pairs
  <2>2. ASSUME ClosedUnder(S, Pairs(read)), NEW k \in DOMAIN file
        PROVE  Pair(file[k]) \subseteq S \/ Pair(file[k]) \cap S = {}
    <3>1. CASE k \in K
      BY <1>6, <2>2, <3>1 DEF ClosedUnder, Pairs
    <3>2. CASE k \notin K
      BY <3>2 DEF Pair
    <3> QED
      BY <3>1, <3>2
  <2> QED
    BY <2>1, <2>2 DEF ClosedUnder, Pairs
<1> QED
  BY <1>7 DEF Connected

-----------------------------------------------------------------------------
(* A finite set of integers has a largest member. *)
LEMMA LargestMember ==
  ASSUME NEW S \in SUBSET Int, IsFiniteSet(S), S # {}
  PROVE  \E m \in S : \A x \in S : x <= m
<1> DEFINE Above(m) == {x \in S : m < x}
           T == {Cardinality(Above(m)) : m \in S}
           Less == OpToRel(<, Nat)
<1>1. \A m \in S : IsFiniteSet(Above(m)) /\ Cardinality(Above(m)) \in Nat
  BY FS_Subset, FS_CardinalityType
<1>2. T \subseteq Nat /\ T # {}
  BY <1>1
<1>3. PICK t \in T : \A y \in T : ~ (<<y, t>> \in Less)
  <2>1. IsWellFoundedOn(Less, Nat)
    BY NatLessThanWellFounded
  <2> HIDE DEF T, Less
  <2> QED
    BY <1>2, <2>1, WFMin
<1>4. PICK m \in S : t = Cardinality(Above(m))
  OBVIOUS
<1>5. \A y \in T : ~ (y < t)
  BY <1>2, <1>3 DEF OpToRel
<1>6. ASSUME NEW x \in S, m < x PROVE FALSE
  <2>1. /\ \A y \in Above(x) : y \in Above(m)
        /\ x \in Above(m) /\ x \notin Above(x)
    BY <1>6
  <2> HIDE DEF Above
  <2>2. /\ Cardinality(Above(x)) <= Cardinality(Above(m))
        /\ Cardinality(Above(x)) # Cardinality(Above(m))
    BY <1>1, <2>1, FS_Subset
  <2> QED
    BY <1>1, <1>4, <1>5, <2>2
<1>7. \A x \in S : x <= m
  BY <1>6
<1> QED
  BY <1>7

-----------------------------------------------------------------------------
(* Counting up: a set that holds 0, and i+1 if it holds i. *)
LEMMA CountingUp ==
  ASSUME NEW n \in Nat, NEW S, 0 \in S, \A i \in 0 .. n-1 : i \in S => i + 1 \in S
  PROVE  \A i \in 0 .. n : i \in S
<1> DEFINE T == (0 .. n) \ S
           Less == OpToRel(<, Nat)
<1> SUFFICES ASSUME T # {} PROVE FALSE
  OBVIOUS
<1>1. T \subseteq Nat
  OBVIOUS
<1>2. PICK t \in T : \A y \in T : ~ (<<y, t>> \in Less)
  <2>1. IsWellFoundedOn(Less, Nat)
    BY NatLessThanWellFounded
  <2> HIDE DEF T, Less
  <2> QED
    BY <1>1, <2>1, WFMin
<1>3. \A y \in T : ~ (y < t)
  BY <1>1, <1>2 DEF OpToRel
<1>4. t \in 1 .. n /\ t - 1 \in 0 .. n-1 /\ t - 1 < t
  OBVIOUS
<1>5. t - 1 \in S
  BY <1>3, <1>4
<1>6. (t - 1) + 1 \in S
  BY <1>4, <1>5
<1>7. (t - 1) + 1 = t
  BY <1>4
<1> QED
  BY <1>6, <1>7

(* The maximum of a finite set of integers. *)
LEMMA MaxIs ==
  ASSUME NEW S \in SUBSET Int, NEW m \in S, \A x \in S : x <= m
  PROVE  Max(S) = m
<1>1. \A x \in S : m >= x
  OBVIOUS
<1>2. ASSUME NEW y \in S, \A x \in S : y >= x PROVE y = m
  <2>1. y >= m /\ m >= y /\ y \in Int /\ m \in Int
    BY <1>1, <1>2
  <2> QED
    BY <2>1
<1> QED
  BY <1>1, <1>2 DEF Max

LEMMA MaxOf ==
  ASSUME NEW S \in SUBSET Int, IsFiniteSet(S), S # {}
  PROVE  Max(S) \in S /\ \A x \in S : x <= Max(S)
<1>1. PICK m \in S : \A x \in S : x <= m
  BY LargestMember
<1>2. Max(S) = m
  BY <1>1, MaxIs
<1> QED
  BY <1>1, <1>2

-----------------------------------------------------------------------------
(* Prefix sums add up. *)
LEMMA PrefixSums ==
  ASSUME NEW n \in Nat, NEW c \in [0 .. n-1 -> Nat]
  PROVE  /\ Below(c, 0) = 0
         /\ \A r \in 0 .. n : Below(c, r) \in Nat
         /\ \A r \in 0 .. n-1 : Below(c, r + 1) = Below(c, r) + c[r]
<1> DEFINE Held(r) == {{s} \X (1 .. c[s]) : s \in 0 .. r-1}
           U(r) == UNION Held(r)
<1>1. \A r : Below(c, r) = Cardinality(U(r))
  BY DEF Below, SumOver
<1>2. ASSUME NEW r \in 0 .. n PROVE IsFiniteSet(U(r)) /\ Cardinality(U(r)) \in Nat
  <2>2. \A s \in 0 .. r-1 : s \in 0 .. n-1
    OBVIOUS
  <2>3. \A s \in 0 .. r-1 : IsFiniteSet({s} \X (1 .. c[s]))
    <3> TAKE s \in 0 .. r-1
    <3>1. c[s] \in Nat
      BY <2>2
    <3>2. IsFiniteSet({s})
      BY FS_Singleton
    <3>3. IsFiniteSet(1 .. c[s])
      BY <3>1, FirstFinite
    <3> QED
      BY <3>2, <3>3, FS_Product
  <2>4. IsFiniteSet(Held(r))
    <3> DEFINE f == [s \in 0 .. r-1 |-> {s} \X (1 .. c[s])]
    <3>1. f \in Surjection(0 .. r-1, Held(r))
      BY DEF Surjection
    <3>2. IsFiniteSet(0 .. r-1)
      BY FS_Interval
    <3> HIDE DEF f, Held
    <3> QED
      BY <3>1, <3>2, FS_Surjection
  <2>5. \A T \in Held(r) : IsFiniteSet(T)
    BY <2>3
  <2>6. IsFiniteSet(U(r))
    <3> HIDE DEF Held
    <3> QED
      BY <2>4, <2>5, FS_UNION
  <2> HIDE DEF U
  <2> QED
    BY <2>6, FS_CardinalityType
<1>3. Below(c, 0) = 0
  <2>1. U(0) = {}
    OBVIOUS
  <2> HIDE DEF U
  <2> QED
    BY <1>1, <2>1, FS_EmptySet
<1>4. ASSUME NEW r \in 0 .. n-1 PROVE Below(c, r + 1) = Below(c, r) + c[r]
  <2> DEFINE X == {r} \X (1 .. c[r])
  <2>1. r \in Nat /\ r \in 0 .. n /\ r + 1 \in 0 .. n /\ c[r] \in Nat
    OBVIOUS
  <2>2. U(r + 1) = U(r) \cup X
    <3>1. 0 .. (r + 1) - 1 = (0 .. r-1) \cup {r}
      BY <2>1
    <3>2. Held(r + 1) = Held(r) \cup {X}
      BY <3>1
    <3> HIDE DEF Held, X
    <3> QED
      BY <3>2
  <2>3. U(r) \cap X = {}
    <3>1. \A x \in U(r) : x[1] \in 0 .. r-1
      OBVIOUS
    <3>2. \A x \in X : x[1] = r
      OBVIOUS
    <3> HIDE DEF U, X
    <3> QED
      BY <2>1, <3>1, <3>2
  <2>4. IsFiniteSet(X) /\ Cardinality(X) = c[r]
    <3>1. IsFiniteSet({r}) /\ Cardinality({r}) = 1
      BY FS_Singleton
    <3>2. IsFiniteSet(1 .. c[r]) /\ Cardinality(1 .. c[r]) = c[r]
      BY <2>1, FirstFinite
    <3>3. IsFiniteSet(X) /\ Cardinality(X) = 1 * c[r]
      BY <3>1, <3>2, FS_Product
    <3> QED
      BY <2>1, <3>3
  <2>7. Below(c, r + 1) = Cardinality(U(r + 1)) /\ Below(c, r) = Cardinality(U(r))
    BY <1>1
  <2> HIDE DEF U, X
  <2>5. Cardinality(U(r) \cup X) = Cardinality(U(r)) + Cardinality(X) - Cardinality(U(r) \cap X)
    BY <1>2, <2>1, <2>4, FS_Union
  <2>6. Cardinality(U(r) \cap X) = 0
    BY <2>3, FS_EmptySet
  <2>8. Cardinality(U(r)) \in Nat
    BY <1>2, <2>1
  <2>9. Cardinality(U(r + 1)) = Cardinality(U(r)) + c[r] - 0
    BY <2>2, <2>4, <2>5, <2>6
  <2> QED
    BY <2>1, <2>7, <2>8, <2>9
<1>5. \A r \in 0 .. n : Below(c, r) \in Nat
  BY <1>1, <1>2
<1> HIDE DEF U
<1> QED
  BY <1>3, <1>4, <1>5

(* A sum is a number; it is positive if one of its terms is. *)
LEMMA SumType ==
  ASSUME NEW R, IsFiniteSet(R), NEW f, \A r \in R : f[r] \in Nat
  PROVE  /\ SumOver(f, R) \in Nat
         /\ SumOver(f, R) > 0 <=> \E r \in R : f[r] > 0
<1> DEFINE H == {{r} \X (1 .. f[r]) : r \in R}
           U == UNION H
<1>1. IsFiniteSet(U)
  <2>1. ASSUME NEW r \in R PROVE IsFiniteSet({r} \X (1 .. f[r]))
    <3>1. IsFiniteSet(1 .. f[r])
      BY FirstFinite
    <3>2. IsFiniteSet({r})
      BY FS_Singleton
    <3> QED
      BY <3>1, <3>2, FS_Product
  <2>2. IsFiniteSet(H)
    <3> DEFINE h == [r \in R |-> {r} \X (1 .. f[r])]
    <3>1. h \in Surjection(R, H)
      BY DEF Surjection
    <3> QED
      BY <3>1, FS_Surjection
  <2>3. \A S \in H : IsFiniteSet(S)
    BY <2>1
  <2> HIDE DEF H
  <2> QED
    BY <2>2, <2>3, FS_UNION
<1>2. Cardinality(U) \in Nat /\ (Cardinality(U) = 0 <=> U = {})
  <2> HIDE DEF U
  <2> QED
    BY <1>1, FS_CardinalityType, FS_EmptySet
<1>3. U # {} <=> \E r \in R : f[r] > 0
  <2>1. ASSUME NEW r \in R, f[r] > 0 PROVE U # {}
    <3>1. 1 \in 1 .. f[r]
      BY <2>1
    <3>2. <<r, 1>> \in {r} \X (1 .. f[r])
      BY <3>1
    <3> QED
      BY <3>2
  <2>2. ASSUME U # {} PROVE \E r \in R : f[r] > 0
    <3>1. PICK r \in R : {r} \X (1 .. f[r]) # {}
      BY <2>2
    <3>2. 1 .. f[r] # {}
      BY <3>1
    <3>3. f[r] > 0
      BY <3>2
    <3> QED
      BY <3>3
  <2> QED
    BY <2>1, <2>2
<1>4. SumOver(f, R) = Cardinality(U)
  BY DEF SumOver
<1> HIDE DEF U
<1> QED
  BY <1>2, <1>3, <1>4

(* Sums of vectors that are related number by number.                      *)
LEMMA SumNat ==
  ASSUME NEW n \in Nat, NEW c \in [0 .. n-1 -> Nat]
  PROVE  Below(c, n) \in Nat
<1>1. n \in 0 .. n
  OBVIOUS
<1> QED
  BY <1>1, PrefixSums

LEMMA SumPlus ==
  ASSUME NEW n \in Nat, NEW f \in [0 .. n-1 -> Nat], NEW g \in [0 .. n-1 -> Nat],
         NEW h \in [0 .. n-1 -> Nat],
         \A r \in 0 .. n-1 : h[r] = f[r] + g[r]
  PROVE  Below(h, n) = Below(f, n) + Below(g, n)
<1> DEFINE S == {k \in 0 .. n : Below(h, k) = Below(f, k) + Below(g, k)}
<1>1. /\ Below(f, 0) = 0 /\ Below(g, 0) = 0 /\ Below(h, 0) = 0
      /\ \A k \in 0 .. n : Below(f, k) \in Nat /\ Below(g, k) \in Nat /\ Below(h, k) \in Nat
      /\ \A k \in 0 .. n-1 : /\ Below(f, k + 1) = Below(f, k) + f[k]
                             /\ Below(g, k + 1) = Below(g, k) + g[k]
                             /\ Below(h, k + 1) = Below(h, k) + h[k]
  BY PrefixSums
<1>2. 0 \in S
  BY <1>1
<1>3. ASSUME NEW k \in 0 .. n-1, k \in S
      PROVE  k + 1 \in S
  <2>1. k \in 0 .. n /\ k + 1 \in 0 .. n /\ f[k] \in Nat /\ g[k] \in Nat
    OBVIOUS
  <2> QED
    BY <1>1, <1>3, <2>1
<1> HIDE DEF S
<1>4. \A k \in 0 .. n : k \in S
  BY <1>2, <1>3, CountingUp
<1> QED
  BY <1>4 DEF S

LEMMA SumAtMost ==
  ASSUME NEW n \in Nat, NEW f \in [0 .. n-1 -> Nat], NEW g \in [0 .. n-1 -> Nat],
         \A r \in 0 .. n-1 : f[r] <= g[r]
  PROVE  Below(f, n) <= Below(g, n)
<1> DEFINE d == [r \in 0 .. n-1 |-> g[r] - f[r]]
<1>1. d \in [0 .. n-1 -> Nat] /\ \A r \in 0 .. n-1 : g[r] = f[r] + d[r]
  OBVIOUS
<1> HIDE DEF d
<1>2. Below(g, n) = Below(f, n) + Below(d, n)
  BY <1>1, SumPlus
<1>3. Below(f, n) \in Nat /\ Below(d, n) \in Nat /\ Below(g, n) \in Nat
  BY <1>1, SumNat
<1> QED
  BY <1>2, <1>3

(* Two vectors that differ at one place only. *)
LEMMA SumChange ==
  ASSUME NEW n \in Nat, NEW f \in [0 .. n-1 -> Nat], NEW g \in [0 .. n-1 -> Nat],
         NEW j \in 0 .. n-1, \A r \in 0 .. n-1 : r # j => f[r] = g[r]
  PROVE  Below(f, n) + g[j] = Below(g, n) + f[j]
<1> DEFINE S == {k \in 0 .. n : Below(f, k) + (IF j < k THEN g[j] ELSE 0)
                                  = Below(g, k) + (IF j < k THEN f[j] ELSE 0)}
<1>1. /\ Below(f, 0) = 0 /\ Below(g, 0) = 0
      /\ \A k \in 0 .. n : Below(f, k) \in Nat /\ Below(g, k) \in Nat
      /\ \A k \in 0 .. n-1 : /\ Below(f, k + 1) = Below(f, k) + f[k]
                             /\ Below(g, k + 1) = Below(g, k) + g[k]
  BY PrefixSums
<1>2. 0 \in S
  BY <1>1
<1>3. ASSUME NEW k \in 0 .. n-1, k \in S
      PROVE  k + 1 \in S
  <2>1. /\ k \in 0 .. n /\ k + 1 \in 0 .. n /\ f[k] \in Nat /\ g[k] \in Nat
        /\ f[j] \in Nat /\ g[j] \in Nat /\ j \in Nat
    OBVIOUS
  <2>2. CASE k = j
    BY <1>1, <1>3, <2>1, <2>2
  <2>3. CASE k # j
    <3>1. f[k] = g[k] /\ (j < k + 1 <=> j < k)
      BY <2>1, <2>3
    <3>2. /\ Below(f, k + 1) = Below(f, k) + f[k] /\ Below(g, k + 1) = Below(g, k) + g[k]
          /\ Below(f, k) \in Nat /\ Below(g, k) \in Nat
      BY <1>1, <2>1
    <3>3. Below(f, k) + (IF j < k THEN g[j] ELSE 0) = Below(g, k) + (IF j < k THEN f[j] ELSE 0)
      BY <1>3
    <3>4. Below(f, k + 1) + (IF j < k + 1 THEN g[j] ELSE 0)
             = Below(g, k + 1) + (IF j < k + 1 THEN f[j] ELSE 0)
      <4>1. CASE j < k
        <5>1. j < k + 1
          BY <3>1, <4>1
        <5>2. Below(f, k) + g[j] = Below(g, k) + f[j]
          BY <3>3, <4>1
        <5>4. (Below(f, k) + f[k]) + g[j] = (Below(g, k) + f[k]) + f[j]
          <6> DEFINE x == Below(f, k)
                     y == Below(g, k)
          <6>1. x \in Nat /\ y \in Nat /\ x + g[j] = y + f[j]
            BY <3>2, <5>2
          <6> HIDE DEF x, y
          <6>2. (x + f[k]) + g[j] = (x + g[j]) + f[k] /\ (y + f[k]) + f[j] = (y + f[j]) + f[k]
            BY <2>1, <6>1
          <6>3. (x + f[k]) + g[j] = (y + f[k]) + f[j]
            BY <6>1, <6>2
          <6> QED
            BY <6>3 DEF x, y
        <5>3. Below(f, k + 1) + g[j] = Below(g, k + 1) + f[j]
          BY <3>1, <3>2, <5>4
        <5> QED
          BY <5>1, <5>3
      <4>2. CASE ~ (j < k)
        BY <2>1, <3>1, <3>2, <3>3, <4>2
      <4> QED
        BY <4>1, <4>2
    <3> QED
      BY <2>1, <3>4
  <2> QED
    BY <2>2, <2>3
<1> HIDE DEF S
<1>4. \A k \in 0 .. n : k \in S
  BY <1>2, <1>3, CountingUp
<1>5. n \in S /\ j < n
  BY <1>4
<1> QED
  BY <1>5 DEF S

(* Proportions: what is a fraction of each number is no more of the sum.   *)
LEMMA SumProportion ==
  ASSUME NEW n \in Nat, NEW q \in [0 .. n-1 -> Nat], NEW a \in [0 .. n-1 -> Nat],
         NEW t \in Nat, NEW c \in Nat, \A r \in 0 .. n-1 : t * q[r] <= c * a[r]
  PROVE  t * Below(q, n) <= c * Below(a, n)
<1> DEFINE S == {k \in 0 .. n : t * Below(q, k) <= c * Below(a, k)}
<1>1. /\ Below(q, 0) = 0 /\ Below(a, 0) = 0
      /\ \A k \in 0 .. n : Below(q, k) \in Nat /\ Below(a, k) \in Nat
      /\ \A k \in 0 .. n-1 : /\ Below(q, k + 1) = Below(q, k) + q[k]
                             /\ Below(a, k + 1) = Below(a, k) + a[k]
  BY PrefixSums
<1>2. 0 \in S
  BY <1>1
<1>3. \A x, y, z \in Nat : z * (x + y) = z * x + z * y /\ z * x \in Nat
  OBVIOUS
<1>4. ASSUME NEW k \in 0 .. n-1, k \in S
      PROVE  k + 1 \in S
  <2>1. k \in 0 .. n /\ k + 1 \in 0 .. n /\ q[k] \in Nat /\ a[k] \in Nat
    OBVIOUS
  <2>4. /\ Below(q, k) \in Nat /\ Below(a, k) \in Nat
        /\ Below(q, k + 1) = Below(q, k) + q[k] /\ Below(a, k + 1) = Below(a, k) + a[k]
    BY <1>1, <2>1
  <2>5. /\ t * (Below(q, k) + q[k]) = t * Below(q, k) + t * q[k]
        /\ c * (Below(a, k) + a[k]) = c * Below(a, k) + c * a[k]
    BY <1>3, <2>1, <2>4
  <2>2. /\ t * Below(q, k + 1) = t * Below(q, k) + t * q[k]
        /\ c * Below(a, k + 1) = c * Below(a, k) + c * a[k]
    BY <2>4, <2>5
  <2>3. /\ t * Below(q, k) <= c * Below(a, k) /\ t * q[k] <= c * a[k]
        /\ t * Below(q, k) \in Nat /\ t * q[k] \in Nat
        /\ c * Below(a, k) \in Nat /\ c * a[k] \in Nat
    BY <1>1, <1>3, <1>4, <2>1
  <2> QED
    BY <2>1, <2>2, <2>3
<1> HIDE DEF S
<1>5. \A k \in 0 .. n : k \in S
  BY <1>2, <1>4, CountingUp
<1> QED
  BY <1>5 DEF S

(* A sum over some of the ranks.                                           *)
LEMMA SumOfSome ==
  ASSUME NEW R, NEW T \in SUBSET R, NEW f
  PROVE  SumOver(f, T) = SumOver([r \in R |-> IF r \in T THEN f[r] ELSE 0], R)
<1> DEFINE g == [r \in R |-> IF r \in T THEN f[r] ELSE 0]
           A == UNION {{r} \X (1 .. f[r]) : r \in T}
           B == UNION {{r} \X (1 .. g[r]) : r \in R}
<1>1. \A r \in R \ T : {r} \X (1 .. g[r]) = {}
  OBVIOUS
<1>2. \A r \in T : {r} \X (1 .. g[r]) = {r} \X (1 .. f[r])
  OBVIOUS
<1>3. A = B
  <2>1. \A x : x \in A <=> \E r \in T : x \in {r} \X (1 .. f[r])
    OBVIOUS
  <2>2. \A x : x \in B <=> \E r \in R : x \in {r} \X (1 .. g[r])
    OBVIOUS
  <2>3. \A x : x \in A <=> x \in B
    BY <1>1, <1>2, <2>1, <2>2
  <2> HIDE DEF A, B
  <2> QED
    BY <2>3
<1> QED
  BY <1>3 DEF SumOver

(* The slices lie one behind the other, from the first edge to the last.   *)
LEMMA SliceBounds ==
  ASSUME NEW lines \in Nat, NEW g \in Nat, g # 0, NEW r \in 0 .. g-1
  PROVE  /\ slice_from(lines, r, g) \in Nat
         /\ slice_to(lines, r, g) \in Nat
         /\ slice_from(lines, r, g) <= slice_to(lines, r, g)
         /\ slice_to(lines, r, g) <= lines
         /\ slice_from(lines, 0, g) = 0
         /\ r = g-1 => slice_to(lines, r, g) = lines
         /\ r # g-1 => slice_to(lines, r, g) = slice_from(lines, r+1, g)
PROOF
<1> DEFINE q == lines \div g
<1>1. q \in Nat /\ q * g <= lines
  OBVIOUS
<1> HIDE DEF q
<1>2. \A a \in Nat : q * a \in Nat /\ q * (a + 1) = q * a + q
  BY <1>1
<1>3. \A a, b \in Nat : a <= b => q * a <= q * b
  <2> SUFFICES ASSUME NEW a \in Nat, NEW b \in Nat, a <= b
               PROVE  q * a <= q * b
    OBVIOUS
  <2>1. b - a \in Nat /\ b = a + (b - a)
    OBVIOUS
  <2>2. q * b = q * a + q * (b - a)
    BY <1>1, <2>1
  <2> QED
    BY <1>2, <2>1, <2>2
<1>4. q * r <= q * (r + 1) /\ q * (r + 1) <= q * g /\ r \in Nat /\ r + 1 \in Nat
  BY <1>3
<1>5. q * r <= lines /\ q * (r + 1) <= lines /\ q * r \in Nat /\ q * (r + 1) \in Nat
  BY <1>1, <1>2, <1>4
<1>6. q * 0 = 0
  BY <1>1
<1> QED
  BY <1>4, <1>5, <1>6 DEF slice_from, slice_to, q

-----------------------------------------------------------------------------
(* Labels from which every vertex comes to a root: no cycle but the roots. *)
IsForest(V, l) ==
  /\ l \in [V -> V]
  /\ \A v \in V : \E w \in V : l[w] = w /\ Reaches(V, l, v, w)

(* Labels that point upwards. *)
Upwards(V, l) == l \in [V -> V] /\ \A v \in V : v <= l[v]

(* Following labels that point upwards ends at a root: find_roots, which   *)
(* goes on until every label is one, returns.                              *)
LEMMA UpwardsForest ==
  ASSUME NEW V \in SUBSET Int, IsFiniteSet(V), NEW l, Upwards(V, l)
  PROVE  IsForest(V, l)
<1> SUFFICES ASSUME NEW v \in V
             PROVE  \E w \in V : l[w] = w /\ Reaches(V, l, v, w)
  BY DEF IsForest, Upwards
<1> DEFINE R == {w \in V : Reaches(V, l, v, w)}
<1>1. v \in R
  BY DEF Reaches
<1>2. \A w \in R : l[w] \in R
  BY DEF Reaches, Upwards
<1>3. PICK m \in R : \A x \in R : x <= m
  <2> HIDE DEF R
  <2>1. R \in SUBSET V
    BY DEF R
  <2>2. R \in SUBSET Int /\ IsFiniteSet(R)
    BY <2>1, FS_Subset
  <2> QED
    BY <1>1, <2>2, LargestMember
<1>4. l[m] <= m /\ m <= l[m] /\ m \in Int /\ l[m] \in Int
  BY <1>2, <1>3 DEF Upwards
<1>5. l[m] = m
  BY <1>4
<1> QED
  BY <1>3, <1>5

(* Labels that are their own labels are roots already. *)
LEMMA FlatForest ==
  ASSUME NEW V, NEW l \in [V -> V], \A v \in V : l[l[v]] = l[v]
  PROVE  IsForest(V, l)
BY DEF IsForest, Reaches

(* Following the labels ends at one root only. *)
LEMMA RootUnique ==
  ASSUME NEW V, NEW l \in [V -> V], NEW v \in V,
         NEW a \in V, l[a] = a, Reaches(V, l, v, a),
         NEW b \in V, l[b] = b, Reaches(V, l, v, b)
  PROVE  a = b
<1> DEFINE S == {x \in V : Reaches(V, l, x, a)}
<1>1. ASSUME NEW x \in S PROVE l[x] \in S
  <2>1. ASSUME NEW T \in SUBSET V, l[x] \in T, \A y \in T : l[y] \in T
        PROVE  a \in T
    <3>1. T \cup {x} \in SUBSET V /\ \A y \in T \cup {x} : l[y] \in T \cup {x}
      BY <2>1
    <3>2. a \in T \cup {x}
      BY <3>1 DEF Reaches
    <3> QED
      BY <2>1, <3>2
  <2> QED
    BY <2>1 DEF Reaches
<1>2. b \in S
  BY <1>1, v \in S DEF Reaches
<1>3. {b} \in SUBSET V /\ \A y \in {b} : l[y] \in {b}
  OBVIOUS
<1>4. a \in {b}
  BY <1>2, <1>3 DEF Reaches
<1> QED
  BY <1>4

(* What find_roots returns: roots, reached from the vertex, ...            *)
LEMMA RootsType ==
  ASSUME NEW V, NEW l, IsForest(V, l)
  PROVE  /\ Roots(V, l) \in [V -> V]
         /\ \A v \in V : /\ Roots(V, l)[v] \in V
                         /\ l[Roots(V, l)[v]] = Roots(V, l)[v]
                         /\ Reaches(V, l, v, Roots(V, l)[v])
<1>1. ASSUME NEW v \in V
      PROVE  /\ Roots(V, l)[v] \in V
             /\ l[Roots(V, l)[v]] = Roots(V, l)[v]
             /\ Reaches(V, l, v, Roots(V, l)[v])
  BY DEF IsForest, Roots
<1>2. Roots(V, l) \in [V -> V]
  BY <1>1 DEF Roots
<1> QED
  BY <1>1, <1>2

(* ... which is the only one that is reached from it, ...                  *)
LEMMA RootsAre ==
  ASSUME NEW V, NEW l, IsForest(V, l), NEW v \in V,
         NEW w \in V, l[w] = w, Reaches(V, l, v, w)
  PROVE  Roots(V, l)[v] = w
<1>1. l \in [V -> V]
  BY DEF IsForest
<1>2. /\ Roots(V, l)[v] \in V
      /\ l[Roots(V, l)[v]] = Roots(V, l)[v]
      /\ Reaches(V, l, v, Roots(V, l)[v])
  BY RootsType
<1> QED
  BY <1>1, <1>2, RootUnique

(* ... the same for a vertex and its label, and itself for a root.         *)
LEMMA RootsOfForest ==
  ASSUME NEW V, NEW l, IsForest(V, l), NEW v \in V
  PROVE  /\ Roots(V, l)[l[v]] = Roots(V, l)[v]
         /\ Roots(V, l)[Roots(V, l)[v]] = Roots(V, l)[v]
         /\ l[v] = v <=> Roots(V, l)[v] = v
<1> DEFINE r == Roots(V, l)
<1>1. \A x \in V : r[x] \in V /\ l[r[x]] = r[x] /\ Reaches(V, l, x, r[x])
  BY RootsType
<1>2. l[v] \in V
  BY DEF IsForest
<1>3. \A w \in V : Reaches(V, l, w, w)
  BY DEF Reaches
<1>4. Reaches(V, l, v, r[l[v]])
  <2>1. Reaches(V, l, l[v], r[l[v]])
    BY <1>1, <1>2
  <2> HIDE DEF r
  <2> QED
    BY <2>1 DEF Reaches
<1>5. r[v] = r[l[v]]
  BY <1>1, <1>2, <1>4, RootsAre
<1>6. r[r[v]] = r[v]
  BY <1>1, <1>3, RootsAre
<1>7. l[v] = v => r[v] = v
  BY <1>3, RootsAre
<1> QED
  BY <1>1, <1>5, <1>6, <1>7

(* Roots of labels that point upwards are not below their vertices. *)
LEMMA RootsUpwards ==
  ASSUME NEW V \in SUBSET Int, IsFiniteSet(V), NEW l, Upwards(V, l)
  PROVE  IsForest(V, l) /\ Upwards(V, Roots(V, l))
<1> DEFINE r == Roots(V, l)
<1>1. IsForest(V, l)
  BY UpwardsForest
<1>2. r \in [V -> V] /\ \A v \in V : r[v] \in V /\ Reaches(V, l, v, r[v])
  BY <1>1, RootsType
<1>3. ASSUME NEW v \in V
      PROVE  v <= r[v]
  <2> DEFINE S == {x \in V : v <= x}
  <2>1. ASSUME NEW x \in S PROVE l[x] \in S
    <3>1. v <= x /\ x <= l[x] /\ l[x] \in V
      BY DEF Upwards
    <3>2. v \in Int /\ x \in Int /\ l[x] \in Int
      BY <3>1
    <3> QED
      BY <3>1, <3>2
  <2>2. r[v] \in S
    <3>1. v \in S /\ S \in SUBSET V
      OBVIOUS
    <3> HIDE DEF r, S
    <3> QED
      BY <1>2, <2>1, <3>1 DEF Reaches
  <2> QED
    BY <2>2
<1> QED
  BY <1>1, <1>2, <1>3 DEF Upwards

(* Labels that are their own labels are the roots. *)
LEMMA RootsOfFlat ==
  ASSUME NEW V, NEW l \in [V -> V], \A v \in V : l[l[v]] = l[v]
  PROVE  IsForest(V, l) /\ Roots(V, l) = l
<1>1. IsForest(V, l)
  BY FlatForest
<1>2. ASSUME NEW v \in V PROVE Roots(V, l)[v] = l[v]
  <2>1. l[v] \in V /\ Reaches(V, l, v, l[v])
    BY DEF Reaches
  <2> QED
    BY <1>1, <2>1, RootsAre
<1>3. Roots(V, l) \in [V -> V]
  BY <1>1, RootsType
<1> QED
  BY <1>1, <1>2, <1>3

(* A pointer jump, the step of find_roots, leaves every root where it is.  *)
LEMMA JumpKeepsRoots ==
  ASSUME NEW V, NEW l, IsForest(V, l), NEW j \in V
  PROVE  LET m == [l EXCEPT ![j] = l[l[j]]]
         IN  IsForest(V, m) /\ Roots(V, m) = Roots(V, l)
<1> DEFINE m == [l EXCEPT ![j] = l[l[j]]]
           r == Roots(V, l)
<1>1. l \in [V -> V]
  BY DEF IsForest
<1>2. m \in [V -> V] /\ \A x \in V : m[x] = IF x = j THEN l[l[j]] ELSE l[x]
  BY <1>1
<1>3. r \in [V -> V] /\ \A v \in V : r[v] \in V /\ l[r[v]] = r[v] /\ Reaches(V, l, v, r[v])
  BY RootsType
<1> HIDE DEF m, r
<1>4. ASSUME NEW v \in V PROVE m[r[v]] = r[v]
  BY <1>2, <1>3
<1>5. ASSUME NEW v \in V PROVE Reaches(V, m, v, r[v])
  <2> SUFFICES ASSUME NEW S \in SUBSET V, v \in S, \A x \in S : m[x] \in S
               PROVE  r[v] \in S
    BY DEF Reaches
  <2> DEFINE T == IF j \in S THEN S \cup {l[j]} ELSE S
  <2>1. T \in SUBSET V /\ v \in T
    BY <1>1
  <2>2. \A x \in T : l[x] \in T
    BY <1>1, <1>2
  <2>3. r[v] \in T
    <3> HIDE DEF T
    <3> QED
      BY <1>3, <2>1, <2>2 DEF Reaches
  <2>4. CASE j \in S /\ r[v] = l[j]
    BY <1>2, <1>3, <2>4
  <2> QED
    BY <2>3, <2>4
<1>6. IsForest(V, m)
  BY <1>2, <1>3, <1>4, <1>5 DEF IsForest
<1>7. \A v \in V : Roots(V, m)[v] = r[v]
  BY <1>3, <1>4, <1>5, <1>6, RootsAre
<1>8. Roots(V, m) \in [V -> V]
  BY <1>6, RootsType
<1>9. Roots(V, m) = r
  BY <1>3, <1>7, <1>8
<1> QED
  BY <1>6, <1>9 DEF m, r

(* l comes of hooking labels m that are their own: it differs from m only  *)
(* at such labels, and points from there along pairs of E to such labels.  *)
HookedAlong(V, E, m, l) ==
  /\ m \in [V -> V]
  /\ \A v \in V : m[m[v]] = m[v]
  /\ \A v \in V : \/ l[v] = m[v]
                  \/ m[v] = v /\ m[l[v]] = l[v] /\ \E p \in E : v \in p /\ l[v] \in p

(* r merges labels m along E and names the merged by one of themselves:    *)
(* what a round of Contraction does.                                       *)
MergesAlong(V, E, m, r) ==
  /\ r \in [V -> V]
  /\ \A u, v \in V : m[u] = m[v] => r[u] = r[v]
  /\ \A v \in V : Connected(V, E, m[v], r[v])
  /\ \A v \in V : r[r[v]] = r[v]

(* Hooking merges, if no cycle has come of it.                             *)
LEMMA RootsMerge ==
  ASSUME NEW V, NEW E, NEW m, NEW l, IsForest(V, l), HookedAlong(V, E, m, l)
  PROVE  MergesAlong(V, E, m, Roots(V, l))
<1> DEFINE r == Roots(V, l)
<1>1. l \in [V -> V]
  BY DEF IsForest
<1> USE DEF HookedAlong
<1>2. r \in [V -> V] /\ \A v \in V : r[v] \in V /\ l[r[v]] = r[v] /\ Reaches(V, l, v, r[v])
  BY RootsType
<1>3. \A v \in V : r[l[v]] = r[v] /\ r[r[v]] = r[v]
  BY RootsOfForest
<1> HIDE DEF r
<1>4. \A v \in V : r[m[v]] = r[v]
  BY <1>3
<1>5. \A v \in V : m[r[v]] = r[v]
  BY <1>2
<1>6. ASSUME NEW v \in V, NEW S \in SUBSET V, ClosedUnder(S, E), m[v] \in S
      PROVE  r[v] \in S
  <2> DEFINE T == {x \in V : m[x] \in S}
  <2>1. ASSUME NEW x \in T PROVE l[x] \in T
    <3>1. CASE l[x] = m[x]
      BY <1>1, <3>1
    <3>2. CASE m[x] = x /\ m[l[x]] = l[x] /\ \E p \in E : x \in p /\ l[x] \in p
      BY <1>1, <1>6, <3>2 DEF ClosedUnder
    <3> QED
      BY <3>1, <3>2
  <2>2. v \in T /\ T \in SUBSET V
    BY <1>6
  <2>3. r[v] \in T
    <3> HIDE DEF T
    <3> QED
      BY <1>2, <2>1, <2>2 DEF Reaches
  <2> QED
    BY <1>5, <2>3
<1>7. \A v \in V : Connected(V, E, m[v], r[v])
  BY <1>6 DEF Connected
<1>8. \A u, v \in V : m[u] = m[v] => r[u] = r[v]
  BY <1>4
<1> QED
  BY <1>2, <1>3, <1>7, <1>8 DEF r, MergesAlong

-----------------------------------------------------------------------------
(* Ranks that rise along the labels, up to the label of a root, leave no   *)
(* room for a cycle.                                                       *)
LEMMA RankedForest ==
  ASSUME NEW V, NEW l \in [V -> V], NEW n \in Nat, NEW d \in [V -> 1 .. n],
         \A v \in V : l[l[v]] = l[v] \/ d[v] < d[l[v]]
  PROVE  IsForest(V, l)
<1> SUFFICES ASSUME NEW v \in V
             PROVE  \E w \in V : l[w] = w /\ Reaches(V, l, v, w)
  BY DEF IsForest
<1> DEFINE R == {w \in V : Reaches(V, l, v, w)}
           S == {d[w] : w \in R}
<1>1. v \in R
  BY DEF Reaches
<1>2. \A w \in R : w \in V /\ l[w] \in R
  BY DEF Reaches
<1>3. PICK m \in S : \A x \in S : x <= m
  <2>1. S \in SUBSET (1 .. n) /\ S # {}
    BY <1>1
  <2>2. IsFiniteSet(1 .. n)
    BY FirstFinite
  <2> HIDE DEF S
  <2>3. IsFiniteSet(S)
    BY <2>1, <2>2, FS_Subset
  <2>4. S \in SUBSET Int
    BY <2>1
  <2> QED
    BY <2>1, <2>3, <2>4, LargestMember
<1>4. PICK w \in R : m = d[w]
  OBVIOUS
<1>5. d[l[w]] <= d[w] /\ d[w] \in Int /\ d[l[w]] \in Int
  BY <1>2, <1>3, <1>4
<1>6. l[l[w]] = l[w]
  BY <1>2, <1>5
<1> QED
  BY <1>2, <1>6

(* Writing their roots over the labels of some vertices leaves every root  *)
(* where it is.                                                            *)
LEMMA ShortcutsKeepRoots ==
  ASSUME NEW V, NEW l, IsForest(V, l), NEW m \in [V -> V],
         \A v \in V : m[v] = l[v] \/ m[v] = Roots(V, l)[v]
  PROVE  IsForest(V, m) /\ Roots(V, m) = Roots(V, l)
<1> DEFINE r == Roots(V, l)
<1>1. l \in [V -> V]
  BY DEF IsForest
<1>2. r \in [V -> V] /\ \A v \in V : r[v] \in V /\ l[r[v]] = r[v] /\ Reaches(V, l, v, r[v])
  BY RootsType
<1>3. \A v \in V : r[l[v]] = r[v] /\ r[r[v]] = r[v]
  BY RootsOfForest
<1>4. \A v \in V : m[v] = l[v] \/ m[v] = r[v]
  OBVIOUS
<1> HIDE DEF r
<1>5. ASSUME NEW v \in V PROVE m[r[v]] = r[v]
  BY <1>2, <1>3, <1>4
<1>6. ASSUME NEW v \in V PROVE Reaches(V, m, v, r[v])
  <2> SUFFICES ASSUME NEW S \in SUBSET V, v \in S, \A x \in S : m[x] \in S
               PROVE  r[v] \in S
    BY DEF Reaches
  <2>1. CASE \E x \in S : r[x] = r[v] /\ m[x] = r[x]
    BY <2>1
  <2>2. CASE \A x \in S : r[x] = r[v] => m[x] # r[x]
    <3> DEFINE Q == {x \in S : r[x] = r[v]}
    <3>1. v \in Q /\ Q \in SUBSET V
      OBVIOUS
    <3>2. ASSUME NEW x \in Q PROVE l[x] \in Q
      BY <1>3, <1>4, <2>2
    <3>3. r[v] \in Q
      <4> HIDE DEF Q
      <4> QED
        BY <1>2, <3>1, <3>2 DEF Reaches
    <3> QED
      BY <3>3
  <2> QED
    BY <2>1, <2>2
<1>7. IsForest(V, m)
  BY <1>2, <1>5, <1>6 DEF IsForest
<1>8. \A v \in V : Roots(V, m)[v] = r[v]
  BY <1>2, <1>5, <1>6, <1>7, RootsAre
<1>9. Roots(V, m) \in [V -> V]
  BY <1>7, RootsType
<1>10. Roots(V, m) = r
  BY <1>2, <1>8, <1>9
<1> QED
  BY <1>7, <1>10 DEF r

LEMMA RootKeepsRoots ==
  ASSUME NEW V, NEW l, IsForest(V, l), NEW j \in V
  PROVE  LET m == [l EXCEPT ![j] = Roots(V, l)[j]]
         IN  IsForest(V, m) /\ Roots(V, m) = Roots(V, l)
<1> DEFINE m == [l EXCEPT ![j] = Roots(V, l)[j]]
<1>1. l \in [V -> V] /\ Roots(V, l) \in [V -> V]
  BY RootsType DEF IsForest
<1>2. m \in [V -> V] /\ \A v \in V : m[v] = l[v] \/ m[v] = Roots(V, l)[v]
  BY <1>1
<1> HIDE DEF m
<1>3. IsForest(V, m) /\ Roots(V, m) = Roots(V, l)
  BY <1>2, ShortcutsKeepRoots
<1> QED
  BY <1>3 DEF m

(* Hanging a root under another one moves its tree there.                  *)
LEMMA HangRoot ==
  ASSUME NEW V, NEW l, IsForest(V, l),
         NEW a \in V, l[a] = a, NEW b \in V, l[b] = b, a # b
  PROVE  LET m == [l EXCEPT ![a] = b]
         IN  /\ IsForest(V, m)
             /\ \A v \in V : Roots(V, m)[v] = IF Roots(V, l)[v] = a THEN b ELSE Roots(V, l)[v]
<1> DEFINE r == Roots(V, l)
           m == [l EXCEPT ![a] = b]
           s(v) == IF r[v] = a THEN b ELSE r[v]
<1>1. l \in [V -> V]
  BY DEF IsForest
<1>2. r \in [V -> V] /\ \A v \in V : r[v] \in V /\ l[r[v]] = r[v] /\ Reaches(V, l, v, r[v])
  BY RootsType
<1>3. m \in [V -> V] /\ \A v \in V : m[v] = IF v = a THEN b ELSE l[v]
  BY <1>1
<1> HIDE DEF m, r
<1>4. ASSUME NEW v \in V PROVE s(v) \in V /\ m[s(v)] = s(v)
  BY <1>2, <1>3
<1>5. ASSUME NEW v \in V PROVE Reaches(V, m, v, s(v))
  <2> SUFFICES ASSUME NEW S \in SUBSET V, v \in S, \A x \in S : m[x] \in S
               PROVE  s(v) \in S
    BY DEF Reaches
  <2>1. \A x \in S \cup {a} : l[x] \in S \cup {a}
    BY <1>3
  <2>2. r[v] \in S \cup {a}
    <3>1. S \cup {a} \in SUBSET V /\ v \in S \cup {a}
      OBVIOUS
    <3> QED
      BY <1>2, <2>1, <3>1 DEF Reaches
  <2>3. CASE a \in S
    BY <1>3, <2>2, <2>3
  <2>4. CASE a \notin S
    <3>1. \A x \in S : l[x] \in S
      BY <1>3, <2>4
    <3>2. r[v] \in S
      BY <1>2, <3>1 DEF Reaches
    <3> QED
      BY <2>4, <3>2
  <2> QED
    BY <2>3, <2>4
<1>6. IsForest(V, m)
  BY <1>3, <1>4, <1>5 DEF IsForest
<1>7. \A v \in V : Roots(V, m)[v] = s(v)
  BY <1>4, <1>5, <1>6, RootsAre
<1> QED
  BY <1>6, <1>7 DEF m, r

(* l comes of hooking some of the roots of u to others.                    *)
StarsAlong(V, E, u, l) ==
  /\ l \in [V -> V]
  /\ \A v \in V : \/ u[v] # v /\ l[v] = u[v]
                  \/ u[v] = v /\ l[v] = v
                  \/ u[v] = v /\ l[l[v]] = l[v] /\ \E p \in E : v \in p /\ l[v] \in p

(* Hooking in stars merges, whatever lies below the roots.                 *)
LEMMA StarsMerge ==
  ASSUME NEW V, NEW E, NEW u, NEW l, IsForest(V, u), StarsAlong(V, E, u, l)
  PROVE  /\ IsForest(V, l)
         /\ MergesAlong(V, E, Roots(V, u), Roots(V, l))
<1> DEFINE q == Roots(V, u)
           r == Roots(V, l)
<1> USE DEF StarsAlong
<1>1. q \in [V -> V] /\ \A v \in V : q[v] \in V /\ u[q[v]] = q[v] /\ Reaches(V, u, v, q[v])
  BY RootsType
<1> HIDE DEF q
<1>2. ASSUME NEW v \in V
      PROVE  l[q[v]] \in V /\ l[l[q[v]]] = l[q[v]] /\ Reaches(V, l, v, l[q[v]])
  <2>1. l[q[v]] \in V /\ l[l[q[v]]] = l[q[v]]
    BY <1>1
  <2>2. ASSUME NEW S \in SUBSET V, v \in S, \A x \in S : l[x] \in S
        PROVE  l[q[v]] \in S
    <3>1. \A x \in S : u[x] \in S
      BY <2>2
    <3>2. q[v] \in S
      BY <1>1, <2>2, <3>1 DEF Reaches
    <3> QED
      BY <2>2, <3>2
  <2> QED
    BY <2>1, <2>2 DEF Reaches
<1>3. IsForest(V, l)
  BY <1>2 DEF IsForest
<1>4. \A v \in V : r[v] = l[q[v]]
  BY <1>2, <1>3, RootsAre
<1>5. r \in [V -> V] /\ \A v \in V : r[r[v]] = r[v]
  BY <1>3, RootsType, RootsOfForest
<1> HIDE DEF r
<1>6. ASSUME NEW v \in V PROVE Connected(V, E, q[v], r[v])
  <2>1. CASE l[q[v]] = q[v]
    BY <1>4, <2>1, ConnectedReflexive
  <2>2. CASE \E p \in E : q[v] \in p /\ l[q[v]] \in p
    BY <1>4, <2>2, ConnectedPair
  <2> QED
    BY <1>1, <2>1, <2>2
<1>7. \A v, w \in V : q[v] = q[w] => r[v] = r[w]
  BY <1>4
<1>8. MergesAlong(V, E, q, r)
  BY <1>5, <1>6, <1>7 DEF MergesAlong
<1> QED
  BY <1>3, <1>8 DEF q, r

-----------------------------------------------------------------------------
(* Pairs merge by the labels of their members alone.                       *)
LEMMA MergedBy ==
  ASSUME NEW E, NEW l, NEW r, \A p \in E : \A v \in p : l[v] = r[v]
  PROVE  MergedPairs(E, l) = MergedPairs(E, r)
<1>1. \A p \in E : {l[v] : v \in p} = {r[v] : v \in p}
  OBVIOUS
<1>2. {{l[v] : v \in p} : p \in E} = {{r[v] : v \in p} : p \in E}
  BY <1>1
<1> QED
  BY <1>2 DEF MergedPairs

(* Keeping the edges between different labels, with these labels for ends  *)
(* in either order, relabels the pairs.                                    *)
LEMMA KeptPairs ==
  ASSUME NEW V, NEW s \in Seq(Edge(V)), NEW l, NEW t,
         \A k \in DOMAIN s : l[s[k].from] # l[s[k].to] =>
            \E j \in DOMAIN t : Pair(t[j]) = {l[s[k].from], l[s[k].to]},
         \A j \in DOMAIN t :
            \E k \in DOMAIN s : /\ l[s[k].from] # l[s[k].to]
                               /\ Pair(t[j]) = {l[s[k].from], l[s[k].to]}
  PROVE  Pairs(t) = MergedPairs(Pairs(s), l)
<1>1. \A k \in DOMAIN s : {l[v] : v \in Pair(s[k])} = {l[s[k].from], l[s[k].to]}
  BY DEF Pair
<1>2. ASSUME NEW q \in Pairs(t) PROVE q \in MergedPairs(Pairs(s), l)
  <2>1. PICK k \in DOMAIN s : /\ l[s[k].from] # l[s[k].to]
                              /\ q = {l[s[k].from], l[s[k].to]}
    BY DEF Pairs
  <2>2. q \in {{l[v] : v \in p} : p \in Pairs(s)}
    BY <1>1, <2>1 DEF Pairs
  <2>3. \E a, b \in q : a # b
    BY <2>1
  <2> QED
    BY <2>2, <2>3 DEF MergedPairs
<1>3. ASSUME NEW q \in MergedPairs(Pairs(s), l) PROVE q \in Pairs(t)
  <2>1. PICK p \in Pairs(s) : q = {l[v] : v \in p}
    BY DEF MergedPairs
  <2>2. PICK k \in DOMAIN s : p = Pair(s[k])
    BY DEF Pairs
  <2>3. q = {l[s[k].from], l[s[k].to]}
    BY <1>1, <2>1, <2>2
  <2>4. \E a, b \in q : a # b
    BY DEF MergedPairs
  <2>5. l[s[k].from] # l[s[k].to]
    BY <2>3, <2>4
  <2> QED
    BY <2>3, <2>5 DEF Pairs
<1> QED
  BY <1>2, <1>3

(* Labels that separate the components and point upwards name every        *)
(* component by its largest vertex.                                        *)
LEMMA LargestLabels ==
  ASSUME NEW V \in SUBSET Int, NEW E, NEW l, Upwards(V, l),
         \A v \in V : l[l[v]] = l[v],
         \A u, v \in V : l[u] = l[v] <=> Connected(V, E, u, v)
  PROVE  l = [v \in V |-> Max(Component(V, E, v))]
<1>1. l \in [V -> V] /\ \A v \in V : v <= l[v] /\ v \in Int /\ l[v] \in V /\ l[v] \in Int
  BY DEF Upwards
<1>2. ASSUME NEW v \in V PROVE l[v] = Max(Component(V, E, v))
  <2> DEFINE S == Component(V, E, v)
  <2>1. l[v] \in S
    BY <1>1 DEF Component
  <2>2. ASSUME NEW w \in S PROVE l[v] >= w
    <3>1. w \in V /\ l[w] = l[v]
      BY DEF Component
    <3> QED
      BY <1>1, <3>1
  <2>3. S \in SUBSET Int
    BY DEF Component
  <2> HIDE DEF S
  <2>4. \A w \in S : w <= l[v]
    BY <1>1, <2>1, <2>2, <2>3
  <2>5. Max(S) = l[v]
    BY <2>1, <2>3, <2>4, MaxIs
  <2> QED
    BY <2>5 DEF S
<1> QED
  BY <1>1, <1>2

-----------------------------------------------------------------------------
(* The edges as main and find_rank_and_remove_edges leave them.            *)
UpEdges(V) == {e \in Edge(V) : e.from < e.to}

LEMMA UpEdgeEnds ==
  ASSUME NEW V \in SUBSET Int, NEW e \in UpEdges(V)
  PROVE  /\ e.from \in V /\ e.to \in V
         /\ e.from \in Int /\ e.to \in Int
         /\ e.from < e.to /\ e.from # e.to
<1>1. e.from \in V /\ e.to \in V /\ e.from < e.to
  BY DEF UpEdges, Edge
<1>2. e.from \in Int /\ e.to \in Int
  BY <1>1
<1> QED
  BY <1>1, <1>2

(* The edges that cross, as indices. *)
LEMMA CrossingFinite ==
  ASSUME NEW S, NEW s \in Seq(S), NEW l
  PROVE  /\ Crossing(s, l) \in SUBSET DOMAIN s
         /\ Crossing(s, l) \in SUBSET Int
         /\ IsFiniteSet(Crossing(s, l))
         /\ Cardinality(Crossing(s, l)) \in Nat
<1>1. Crossing(s, l) \in SUBSET DOMAIN s
  BY DEF Crossing
<1> QED
  BY <1>1, CompactType

(* An edge that crosses keeps two ends and comes out pointing upwards. *)
LEMMA RelabelledUp ==
  ASSUME NEW V \in SUBSET Int, NEW e \in UpEdges(V), NEW l \in [V -> V], l[e.from] # l[e.to]
  PROVE  /\ Relabelled(e, l) \in UpEdges(V)
         /\ Pair(Relabelled(e, l)) = {l[e.from], l[e.to]}
<1>1. /\ e.from \in V /\ e.to \in V
      /\ l[e.from] \in V /\ l[e.to] \in V
      /\ l[e.from] \in Int /\ l[e.to] \in Int
  BY DEF UpEdges, Edge
<1>2. CASE l[e.from] < l[e.to]
  <2>1. Relabelled(e, l) = [from |-> l[e.from], to |-> l[e.to]]
    BY <1>2 DEF Relabelled
  <2> QED
    BY <1>1, <1>2, <2>1 DEF UpEdges, Edge, Pair
<1>3. CASE ~ (l[e.from] < l[e.to])
  <2>1. Relabelled(e, l) = [from |-> l[e.to], to |-> l[e.from]]
    BY <1>3 DEF Relabelled
  <2>2. l[e.to] < l[e.from]
    BY <1>1, <1>3
  <2> QED
    BY <1>1, <2>1, <2>2 DEF UpEdges, Edge, Pair
<1> QED
  BY <1>2, <1>3

(* The result of the sequential filter, by place and by edge. *)
LEMMA RemoveEdgesType ==
  ASSUME NEW V \in SUBSET Int, NEW s \in Seq(UpEdges(V)), NEW l \in [V -> V]
  PROVE  LET K == Crossing(s, l)
             r == RemoveEdges(s, l)
         IN  /\ r \in Seq(UpEdges(V))
             /\ Len(r) = Cardinality(K)
             /\ \A j \in 1 .. Cardinality(K) :
                   Nth(K, j) \in K /\ r[j] = Relabelled(s[Nth(K, j)], l)
             /\ \A k \in K : /\ Upto(K, k) \in 1 .. Cardinality(K)
                            /\ r[Upto(K, k)] = Relabelled(s[k], l)
<1> DEFINE K == Crossing(s, l)
           kept == Compact(s, K)
           r == RemoveEdges(s, l)
           n == Cardinality(K)
<1>1. K \in SUBSET DOMAIN s /\ K \in SUBSET Int /\ IsFiniteSet(K) /\ n \in Nat
  BY CrossingFinite
<1>2. /\ DOMAIN kept = 1 .. n
      /\ \A j \in 1 .. n : Nth(K, j) \in K /\ kept[j] = s[Nth(K, j)]
  <2> HIDE DEF K
  <2> QED
    BY <1>1, CompactType
<1>3. r = [j \in 1 .. n |-> Relabelled(kept[j], l)]
  BY <1>2 DEF RemoveEdges
<1>4. \A k \in K : s[k] \in UpEdges(V) /\ l[s[k].from] # l[s[k].to]
  BY <1>1 DEF Crossing
<1>5. \A j \in 1 .. n : r[j] = Relabelled(s[Nth(K, j)], l) /\ r[j] \in UpEdges(V)
  <2> HIDE DEF K, kept, r, n
  <2> QED
    BY <1>2, <1>3, <1>4, RelabelledUp
<1>6. \A k \in K : Upto(K, k) \in 1 .. n /\ Nth(K, Upto(K, k)) = k
  <2> HIDE DEF K
  <2> QED
    BY <1>1, UptoInRange, NthUpto
<1>7. r \in Seq(UpEdges(V)) /\ Len(r) = n
  <2> HIDE DEF K, kept, n, r
  <2>1. r \in [1 .. n -> UpEdges(V)]
    BY <1>3, <1>5
  <2> QED
    BY <1>1, <2>1
<1> HIDE DEF K, kept, n, r
<1>8. /\ r \in Seq(UpEdges(V))
      /\ Len(r) = n
      /\ \A j \in 1 .. n : Nth(K, j) \in K /\ r[j] = Relabelled(s[Nth(K, j)], l)
      /\ \A k \in K : Upto(K, k) \in 1 .. n /\ r[Upto(K, k)] = Relabelled(s[k], l)
  BY <1>2, <1>5, <1>6, <1>7
<1> QED
  BY <1>8 DEF K, r, n

(* The filter drops the edges inside a component and keeps the others, by  *)
(* their labels: on pairs it is what Contract does.                        *)
LEMMA FilterRelabels ==
  ASSUME NEW V \in SUBSET Int, NEW s \in Seq(UpEdges(V)), NEW l \in [V -> V]
  PROVE  Pairs(RemoveEdges(s, l)) = MergedPairs(Pairs(s), l)
<1> DEFINE K == Crossing(s, l)
           r == RemoveEdges(s, l)
<1>1. /\ r \in Seq(UpEdges(V))
      /\ Len(r) = Cardinality(K)
      /\ \A j \in 1 .. Cardinality(K) :
            Nth(K, j) \in K /\ r[j] = Relabelled(s[Nth(K, j)], l)
      /\ \A k \in K : /\ Upto(K, k) \in 1 .. Cardinality(K)
                     /\ r[Upto(K, k)] = Relabelled(s[k], l)
  BY RemoveEdgesType
<1>2. DOMAIN r = 1 .. Cardinality(K)
  BY <1>1
<1>3. \A k \in K : /\ k \in DOMAIN s
                  /\ l[s[k].from] # l[s[k].to]
                  /\ Pair(Relabelled(s[k], l)) = {l[s[k].from], l[s[k].to]}
  BY RelabelledUp DEF Crossing
<1> HIDE DEF r
<1>4. s \in Seq(Edge(V))
  <2>1. UpEdges(V) \subseteq Edge(V)
    BY DEF UpEdges
  <2> QED
    BY <2>1, SeqMonotonic
<1>5. \A k \in DOMAIN s : l[s[k].from] # l[s[k].to] => k \in K
  BY DEF Crossing
<1> HIDE DEF K
<1>6. ASSUME NEW k \in DOMAIN s, l[s[k].from] # l[s[k].to]
      PROVE  \E j \in DOMAIN r : Pair(r[j]) = {l[s[k].from], l[s[k].to]}
  BY <1>1, <1>2, <1>3, <1>5, <1>6
<1>7. ASSUME NEW j \in DOMAIN r
      PROVE  \E k \in DOMAIN s : /\ l[s[k].from] # l[s[k].to]
                                /\ Pair(r[j]) = {l[s[k].from], l[s[k].to]}
  <2>1. Nth(K, j) \in K /\ r[j] = Relabelled(s[Nth(K, j)], l)
    BY <1>1, <1>2
  <2> QED
    BY <1>3, <2>1
<1>8. Pairs(r) = MergedPairs(Pairs(s), l)
  BY <1>4, <1>6, <1>7, KeptPairs
<1> QED
  BY <1>8 DEF r

-----------------------------------------------------------------------------
(* Powers of two are what they should be: that many subsets.               *)
LEMMA PowersOfTwo ==
  /\ 2^0 = 1
  /\ \A n \in Nat : 2^n \in Nat /\ 2^n # 0 /\ 2^(n+1) = 2 * 2^n
<1>1. ASSUME NEW n \in Nat
      PROVE  /\ IsFiniteSet(SUBSET (1 .. n))
             /\ 2^n = Cardinality(SUBSET (1 .. n))
  <2>1. IsFiniteSet(1 .. n) /\ Cardinality(1 .. n) = n
    BY FS_Interval
  <2>2. Cardinality(SUBSET (1 .. n)) = 2^Cardinality(1 .. n) /\ IsFiniteSet(SUBSET (1 .. n))
    BY <2>1, FS_SUBSET
  <2> QED
    BY <2>1, <2>2, Zenon
<1>2. 2^0 = 1
  <2>1. SUBSET (1 .. 0) = {{}}
    OBVIOUS
  <2>2. Cardinality({{}}) = 1
    BY FS_Singleton
  <2> QED
    BY <1>1, <2>1, <2>2
<1>3. ASSUME NEW n \in Nat PROVE 2^n \in Nat /\ 2^n # 0 /\ 2^(n+1) = 2 * 2^n
  <2> DEFINE A == SUBSET (1 .. n)
             B == {s \cup {n+1} : s \in A}
             f == [s \in A |-> s \cup {n+1}]
  <2>1. \A s \in A : n+1 \notin s
    OBVIOUS
  <2>2. SUBSET (1 .. n+1) = A \cup B
    <3>1. ASSUME NEW s \in SUBSET (1 .. n+1) PROVE s \in A \cup B
      <4>1. CASE n+1 \in s
        <5>1. s \ {n+1} \in A /\ s = (s \ {n+1}) \cup {n+1}
          BY <4>1
        <5> QED
          BY <5>1
      <4>2. CASE n+1 \notin s
        BY <4>2
      <4> QED
        BY <4>1, <4>2
    <3>2. \A s \in A \cup B : s \in SUBSET (1 .. n+1)
      OBVIOUS
    <3> QED
      BY <3>1, <3>2
  <2>3. A \cap B = {}
    BY <2>1
  <2>4. f \in Bijection(A, B)
    <3>1. f \in [A -> B] /\ \A b \in B : \E s \in A : f[s] = b
      OBVIOUS
    <3>2. \A s, t \in A : f[s] = f[t] => s = t
      <4> SUFFICES ASSUME NEW s \in A, NEW t \in A, s \cup {n+1} = t \cup {n+1}
                   PROVE  s = t
        OBVIOUS
      <4> QED
        BY <2>1
    <3> HIDE DEF f, A, B
    <3> QED
      BY <3>1, <3>2 DEF Bijection, Injection, Surjection, IsInjective
  <2> HIDE DEF f, B
  <2>5. IsFiniteSet(A)
    BY <1>1
  <2>6. IsFiniteSet(B) /\ Cardinality(B) = Cardinality(A)
    BY <2>4, <2>5, FS_Bijection DEF ExistsBijection
  <2>7. Cardinality(A \cup B) = Cardinality(A) + Cardinality(B) - Cardinality({})
    BY <2>3, <2>5, <2>6, FS_Union
  <2>8. Cardinality({}) = 0 /\ Cardinality(A) \in Nat
    BY <2>5, FS_EmptySet, FS_CardinalityType
  <2>9. Cardinality(A) # 0
    <3>1. {} \in A
      OBVIOUS
    <3> HIDE DEF A
    <3> QED
      BY <2>5, <3>1, FS_EmptySet
  <2>10. 2^n = Cardinality(A) /\ 2^(n+1) = Cardinality(A \cup B)
    <3>1. n+1 \in Nat
      OBVIOUS
    <3>2. 2^(n+1) = Cardinality(SUBSET (1 .. n+1))
      BY <1>1, <3>1
    <3> QED
      BY <1>1, <2>2, <3>2
  <2> HIDE DEF A
  <2> QED
    BY <2>6, <2>7, <2>8, <2>9, <2>10
<1> QED
  BY <1>2, <1>3

-----------------------------------------------------------------------------
(***************************************************************************)
(* Disjoint sets.                                                          *)
(***************************************************************************)
(* The trees over V, without cycles.                                       *)
DisjointTrees(V, ds) ==
  /\ ds \in [parents : [V -> V], ranks : [V -> Nat]]
  /\ IsForest(V, ds.parents)

(* The root of every element.                                              *)
RootsIn(V, ds) == Roots(V, ds.parents)

LEMMA RepresentativeIsRoot ==
  ASSUME NEW V, NEW ds, DisjointTrees(V, ds), NEW v \in V
  PROVE  /\ Representative(ds, v) = RootsIn(V, ds)[v]
         /\ RootsIn(V, ds)[v] \in V
         /\ IsRoot(ds, RootsIn(V, ds)[v])
         /\ RootsIn(V, ds)[v] \in Ancestors(ds.parents, v)
<1> DEFINE l == ds.parents
           r == Roots(V, l)[v]
<1>1. l \in [V -> V] /\ DOMAIN l = V /\ IsForest(V, l)
  BY DEF DisjointTrees
<1>2. r \in V /\ l[r] = r /\ Reaches(V, l, v, r)
  BY <1>1, RootsType
<1>3. \A w \in V : l[w] = w /\ Reaches(V, l, v, w) => w = r
  BY <1>1, RootsAre
<1> HIDE DEF r
<1>4. Representative(ds, v) = r
  BY <1>1, <1>2, <1>3 DEF Representative, Ancestors
<1> QED
  BY <1>1, <1>2, <1>4 DEF r, RootsIn, IsRoot, Ancestors

(* Ranks rise up to the root.                                              *)
RanksRise(V, ds) ==
  \A v \in V : ~ IsRoot(ds, v) => ds.ranks[v] < ds.ranks[ds.parents[v]]

LEMMA RanksBelowRoot ==
  ASSUME NEW V, NEW ds, DisjointTrees(V, ds), RanksRise(V, ds),
         NEW v \in V, ~ IsRoot(ds, v)
  PROVE  ds.ranks[v] < ds.ranks[RootsIn(V, ds)[v]]
<1> DEFINE l == ds.parents
           k == ds.ranks
           r == RootsIn(V, ds)[v]
           S == {x \in V : x = v \/ k[v] < k[x]}
<1>1. l \in [V -> V] /\ DOMAIN l = V /\ k \in [V -> Nat]
  BY DEF DisjointTrees
<1>2. r \in V /\ l[r] = r /\ Reaches(V, l, v, r)
  BY <1>1, RepresentativeIsRoot DEF IsRoot, Ancestors
<1>3. ASSUME NEW x \in S PROVE l[x] \in S
  <2>1. CASE l[x] = x
    BY <2>1
  <2>2. CASE l[x] # x
    <3>1. k[x] < k[l[x]] /\ l[x] \in V
      BY <1>1, <2>2 DEF RanksRise, IsRoot
    <3>2. k[x] \in Nat /\ k[l[x]] \in Nat /\ k[v] \in Nat
      BY <1>1, <3>1
    <3> QED
      BY <3>1, <3>2
  <2> QED
    BY <2>1, <2>2
<1>4. v \in S /\ S \in SUBSET V
  OBVIOUS
<1>5. r \in S
  <2> HIDE DEF S, r
  <2> QED
    BY <1>2, <1>3, <1>4 DEF Reaches
<1>6. r # v
  BY <1>2 DEF IsRoot
<1> QED
  BY <1>5, <1>6

(* The elements below a root are those of its set.                         *)
Tree(V, ds, a) == {w \in V : RootsIn(V, ds)[w] = a}

LEMMA DescendantsOfRoot ==
  ASSUME NEW V, NEW ds, DisjointTrees(V, ds), NEW v \in V, IsRoot(ds, v)
  PROVE  Descendants(ds, v) = Tree(V, ds, v)
<1> DEFINE l == ds.parents
<1>1. l \in [V -> V] /\ DOMAIN l = V /\ IsForest(V, l) /\ l[v] = v
  BY DEF DisjointTrees, IsRoot
<1>2. ASSUME NEW w \in V
      PROVE  v \in Ancestors(l, w) <=> RootsIn(V, ds)[w] = v
  <2>1. v \in Ancestors(l, w) <=> Reaches(V, l, w, v)
    BY <1>1 DEF Ancestors
  <2>2. Reaches(V, l, w, v) => Roots(V, l)[w] = v
    BY <1>1, RootsAre
  <2>3. Reaches(V, l, w, Roots(V, l)[w])
    BY <1>1, RootsType
  <2> QED
    BY <2>1, <2>2, <2>3 DEF RootsIn
<1> QED
  BY <1>1, <1>2 DEF Descendants, Tree

LEMMA BalanceIs ==
  ASSUME NEW V, NEW ds, DisjointTrees(V, ds)
  PROVE  RanksBalance(ds) <=>
           /\ RanksRise(V, ds)
           /\ \A v \in V : IsRoot(ds, v) => Cardinality(Tree(V, ds, v)) >= 2^(ds.ranks[v])
<1>1. DOMAIN ds.parents = V
  BY DEF DisjointTrees
<1>2. \A v \in V : IsRoot(ds, v) => Descendants(ds, v) = Tree(V, ds, v)
  BY DescendantsOfRoot
<1> QED
  BY <1>1, <1>2 DEF RanksBalance, RanksRise

(* find_set changes no set, no root and no rank.                           *)
SameTrees(V, ds, d) ==
  /\ DisjointTrees(V, d)
  /\ RootsIn(V, d) = RootsIn(V, ds)
  /\ d.ranks = ds.ranks
  /\ \A v \in V : IsRoot(d, v) <=> IsRoot(ds, v)
  /\ RanksRise(V, ds) => RanksRise(V, d)

LEMMA CompressedSame ==
  ASSUME NEW V, NEW ds, DisjointTrees(V, ds), NEW v \in V
  PROVE  SameTrees(V, ds, Compressed(ds, v))
<1> DEFINE l == ds.parents
           r == RootsIn(V, ds)
           m == [w \in V |-> IF w \in Ancestors(l, v) THEN Representative(ds, v) ELSE l[w]]
           d == Compressed(ds, v)
<1>1. /\ l \in [V -> V] /\ DOMAIN l = V /\ IsForest(V, l) /\ ds.ranks \in [V -> Nat]
      /\ ds \in [parents : [V -> V], ranks : [V -> Nat]]
  BY DEF DisjointTrees
<1>2. r \in [V -> V] /\ r[v] \in V /\ l[r[v]] = r[v] /\ Representative(ds, v) = r[v]
  BY <1>1, RootsType, RepresentativeIsRoot DEF RootsIn
<1>3. d = [ds EXCEPT !.parents = m]
  BY <1>1 DEF Compressed
<1>4. m \in [V -> V]
  BY <1>1, <1>2
<1>5. d \in [parents : [V -> V], ranks : [V -> Nat]] /\ d.parents = m /\ d.ranks = ds.ranks
  BY <1>1, <1>3, <1>4
<1>6. ASSUME NEW w \in V, w \in Ancestors(l, v) PROVE r[w] = r[v]
  <2> DEFINE S == {x \in V : r[x] = r[v]}
  <2>1. \A x \in S : l[x] \in S
    BY <1>1, RootsOfForest DEF RootsIn
  <2>2. w \in S
    <3>1. Reaches(V, l, v, w)
      BY <1>1, <1>6 DEF Ancestors
    <3>2. v \in S /\ S \in SUBSET V
      OBVIOUS
    <3> HIDE DEF S
    <3> QED
      BY <2>1, <3>1, <3>2 DEF Reaches
  <2> QED
    BY <2>2
<1>7. \A w \in V : m[w] = l[w] \/ m[w] = r[w]
  BY <1>2, <1>6
<1>8. IsForest(V, m) /\ Roots(V, m) = r
  <2> HIDE DEF m
  <2> QED
    BY <1>1, <1>4, <1>7, ShortcutsKeepRoots DEF RootsIn
<1>9. ASSUME NEW w \in V PROVE m[w] = w <=> l[w] = w
  <2> HIDE DEF m
  <2> QED
    BY <1>1, <1>8, RootsOfForest DEF RootsIn
<1>10. ASSUME RanksRise(V, ds), NEW w \in V, ~ IsRoot(d, w)
       PROVE  d.ranks[w] < d.ranks[d.parents[w]]
  <2>1. ~ IsRoot(ds, w)
    BY <1>5, <1>9, <1>10 DEF IsRoot
  <2>2. ds.ranks[w] < ds.ranks[l[w]]
    BY <1>10, <2>1 DEF RanksRise
  <2>3. ds.ranks[w] < ds.ranks[r[w]]
    BY <1>10, <2>1, RanksBelowRoot
  <2> HIDE DEF m, r, d
  <2> QED
    BY <1>5, <1>7, <2>2, <2>3
<1> HIDE DEF m, d
<1>11. DisjointTrees(V, d) /\ RootsIn(V, d) = r /\ RanksRise(V, ds) => RanksRise(V, d)
  BY <1>5, <1>8, <1>10 DEF DisjointTrees, RootsIn, RanksRise
<1>12. DisjointTrees(V, d) /\ RootsIn(V, d) = r
  BY <1>5, <1>8 DEF DisjointTrees, RootsIn
<1>13. RanksRise(V, ds) => RanksRise(V, d)
  BY <1>10 DEF RanksRise
<1>14. \A w \in V : IsRoot(d, w) <=> IsRoot(ds, w)
  BY <1>5, <1>9 DEF IsRoot
<1>15. SameTrees(V, ds, d)
  BY <1>5, <1>12, <1>13, <1>14 DEF SameTrees
<1> QED
  BY <1>15 DEF d

(* Same trees are as balanced.                                             *)
LEMMA SameBalance ==
  ASSUME NEW V, NEW ds, DisjointTrees(V, ds), NEW d, SameTrees(V, ds, d), RanksBalance(ds)
  PROVE  RanksBalance(d)
<1>1. /\ RanksRise(V, ds)
      /\ \A v \in V : IsRoot(ds, v) => Cardinality(Tree(V, ds, v)) >= 2^(ds.ranks[v])
  BY BalanceIs
<1>2. /\ DisjointTrees(V, d) /\ RootsIn(V, d) = RootsIn(V, ds)
      /\ d.ranks = ds.ranks
      /\ \A v \in V : IsRoot(d, v) <=> IsRoot(ds, v)
      /\ RanksRise(V, d)
  BY <1>1 DEF SameTrees
<1>3. \A v \in V : Tree(V, d, v) = Tree(V, ds, v)
  BY <1>2 DEF Tree
<1> QED
  BY <1>1, <1>2, <1>3, BalanceIs

(* Linking two roots puts the tree of one of them, a, under the other, b.  *)
LinksTrees(V, ds, d, a, b) ==
  /\ DisjointTrees(V, d)
  /\ \A v \in V : RootsIn(V, d)[v] = IF RootsIn(V, ds)[v] = a THEN b ELSE RootsIn(V, ds)[v]

LEMMA HangTree ==
  ASSUME NEW V, NEW ds, DisjointTrees(V, ds),
         NEW a \in V, IsRoot(ds, a), NEW b \in V, IsRoot(ds, b), a # b,
         NEW k \in [V -> Nat]
  PROVE  LET d == [parents |-> [ds.parents EXCEPT ![a] = b], ranks |-> k]
         IN  LinksTrees(V, ds, d, a, b)
<1> DEFINE m == [ds.parents EXCEPT ![a] = b]
           d == [parents |-> m, ranks |-> k]
<1>1. ds.parents \in [V -> V] /\ IsForest(V, ds.parents)
  BY DEF DisjointTrees
<1>2. /\ IsForest(V, m)
      /\ \A v \in V : Roots(V, m)[v] = IF Roots(V, ds.parents)[v] = a THEN b
                                                    ELSE Roots(V, ds.parents)[v]
  BY <1>1, HangRoot DEF IsRoot
<1>3. m \in [V -> V]
  BY <1>1
<1> HIDE DEF m
<1>4. d \in [parents : [V -> V], ranks : [V -> Nat]] /\ d.parents = m
  BY <1>3
<1> HIDE DEF d
<1>5. LinksTrees(V, ds, d, a, b)
  BY <1>2, <1>4 DEF LinksTrees, DisjointTrees, RootsIn
<1> QED
  BY <1>5 DEF d, m

LEMMA LinkedTrees ==
  ASSUME NEW V, NEW ds, DisjointTrees(V, ds),
         NEW a \in V, IsRoot(ds, a), NEW b \in V, IsRoot(ds, b), a # b
  PROVE  \/ LinksTrees(V, ds, Linked(ds, a, b), a, b)
         \/ LinksTrees(V, ds, Linked(ds, a, b), b, a)
<1>1. /\ ds.parents \in [V -> V] /\ ds.ranks \in [V -> Nat]
      /\ ds = [parents |-> ds.parents, ranks |-> ds.ranks]
  BY DEF DisjointTrees
<1>2. CASE ds.ranks[a] > ds.ranks[b]
  <2>1. Linked(ds, a, b) = [parents |-> [ds.parents EXCEPT ![b] = a], ranks |-> ds.ranks]
    BY <1>1, <1>2 DEF Linked
  <2> QED
    BY <1>1, <2>1, HangTree
<1>3. CASE ~ (ds.ranks[a] > ds.ranks[b])
  <2> DEFINE k == [ds.ranks EXCEPT ![b] = @ + (IF ds.ranks[a] = ds.ranks[b] THEN 1 ELSE 0)]
  <2>1. Linked(ds, a, b) = [parents |-> [ds.parents EXCEPT ![a] = b], ranks |-> k]
    BY <1>1, <1>3 DEF Linked
  <2>2. k \in [V -> Nat]
    BY <1>1
  <2> HIDE DEF k
  <2> QED
    BY <2>1, <2>2, HangTree
<1> QED
  BY <1>2, <1>3

(* By rank, this keeps the trees balanced.                                 *)
LEMMA LinkedBalance ==
  ASSUME NEW V, IsFiniteSet(V), NEW ds, DisjointTrees(V, ds), RanksBalance(ds),
         NEW a \in V, IsRoot(ds, a), NEW b \in V, IsRoot(ds, b), a # b,
         NEW k \in [V -> Nat],
         \A v \in V : v # b => k[v] = ds.ranks[v],
         \/ k[b] = ds.ranks[b] /\ ds.ranks[a] < ds.ranks[b]
         \/ k[b] = ds.ranks[b] + 1 /\ ds.ranks[a] = ds.ranks[b]
  PROVE  RanksBalance([parents |-> [ds.parents EXCEPT ![a] = b], ranks |-> k])
<1> DEFINE m == [ds.parents EXCEPT ![a] = b]
           d == [parents |-> m, ranks |-> k]
           r == RootsIn(V, ds)
<1>1. ds.parents \in [V -> V] /\ ds.ranks \in [V -> Nat]
  BY DEF DisjointTrees
<1>2. LinksTrees(V, ds, d, a, b)
  BY HangTree
<1>3. d.parents = m /\ d.ranks = k /\ \A v \in V : m[v] = IF v = a THEN b ELSE ds.parents[v]
  BY <1>1
<1> HIDE DEF d, m
<1>4. /\ RanksRise(V, ds)
      /\ \A v \in V : IsRoot(ds, v) => Cardinality(Tree(V, ds, v)) >= 2^(ds.ranks[v])
  BY BalanceIs
<1>5. RanksRise(V, d)
  <2> SUFFICES ASSUME NEW v \in V, ~ IsRoot(d, v) PROVE k[v] < k[m[v]]
    BY <1>3 DEF RanksRise
  <2>1. k[b] \in Nat /\ ds.ranks[b] \in Nat /\ ds.ranks[a] \in Nat /\ k[b] >= ds.ranks[b] /\ k[b] > ds.ranks[a]
    BY <1>1
  <2>2. CASE v = a
    BY <1>3, <2>1, <2>2
  <2>3. CASE v # a
    <3>1. m[v] = ds.parents[v] /\ ~ IsRoot(ds, v) /\ v # b /\ m[v] \in V
      BY <1>1, <1>3, <2>3 DEF IsRoot
    <3>2. ds.ranks[v] < ds.ranks[m[v]] /\ ds.ranks[v] \in Nat /\ ds.ranks[m[v]] \in Nat
      BY <1>1, <1>4, <3>1 DEF RanksRise
    <3>3. k[v] = ds.ranks[v] /\ (m[v] # b => k[m[v]] = ds.ranks[m[v]])
      BY <3>1
    <3> QED
      BY <2>1, <3>2, <3>3
  <2> QED
    BY <2>2, <2>3
<1>6. ASSUME NEW v \in V, IsRoot(d, v)
      PROVE  Cardinality(Tree(V, d, v)) >= 2^(k[v])
  <2>1. v # a /\ IsRoot(ds, v)
    BY <1>3, <1>6 DEF IsRoot
  <2>2. CASE v # b
    <3>1. Tree(V, d, v) = Tree(V, ds, v)
      BY <1>2, <2>1, <2>2 DEF LinksTrees, Tree
    <3>2. k[v] = ds.ranks[v]
      BY <2>2
    <3> QED
      BY <1>4, <2>1, <3>1, <3>2
  <2>3. CASE v = b
    <3> DEFINE A == Tree(V, ds, a)
               B == Tree(V, ds, b)
    <3>1. Tree(V, d, b) = A \cup B
      BY <1>2 DEF LinksTrees, Tree
    <3>2. A \cap B = {} /\ A \in SUBSET V /\ B \in SUBSET V
      BY DEF Tree
    <3> HIDE DEF A, B
    <3>3. /\ IsFiniteSet(A) /\ IsFiniteSet(B)
          /\ Cardinality(A) \in Nat /\ Cardinality(B) \in Nat
      BY <3>2, FS_Subset, FS_CardinalityType
    <3>4. Cardinality(A \cup B) = Cardinality(A) + Cardinality(B)
      <4>1. Cardinality(A \cup B) = Cardinality(A) + Cardinality(B) - Cardinality(A \cap B)
        BY <3>3, FS_Union
      <4>2. Cardinality(A \cap B) = 0
        BY <3>2, FS_EmptySet
      <4> QED
        BY <3>3, <4>1, <4>2
    <3>5. Cardinality(A) >= 2^(ds.ranks[a]) /\ Cardinality(B) >= 2^(ds.ranks[b])
      BY <1>4 DEF A, B
    <3>6. CASE k[b] = ds.ranks[b]
      <4>1. 2^(ds.ranks[b]) \in Nat
        BY <1>1, PowersOfTwo
      <4> QED
        BY <2>3, <3>1, <3>3, <3>4, <3>5, <3>6, <4>1
    <3>7. CASE k[b] = ds.ranks[b] + 1 /\ ds.ranks[a] = ds.ranks[b]
      <4>1. ds.ranks[b] \in Nat
        BY <1>1
      <4>2. 2^(ds.ranks[b]) \in Nat /\ 2^(ds.ranks[b] + 1) = 2 * 2^(ds.ranks[b])
        BY <4>1, PowersOfTwo
      <4>3. 2^(k[b]) = 2 * 2^(ds.ranks[b]) /\ 2^(ds.ranks[a]) = 2^(ds.ranks[b])
        BY <3>7, <4>2
      <4> QED
        BY <2>3, <3>1, <3>3, <3>4, <3>5, <4>2, <4>3
    <3> QED
      BY <3>6, <3>7
  <2> QED
    BY <2>2, <2>3
<1>7. RanksBalance(d)
  <2>1. DisjointTrees(V, d)
    BY <1>2 DEF LinksTrees
  <2> QED
    BY <1>3, <1>5, <1>6, <2>1, BalanceIs
<1> QED
  BY <1>7 DEF d, m

(* unify: the sets of a and b become one, the others stay.                 *)
LEMMA UnifyTrees ==
  ASSUME NEW V, NEW ds, DisjointTrees(V, ds), NEW a \in V, NEW b \in V
  PROVE  LET r == RootsIn(V, ds)
             d == unify(ds, a, b)
         IN  /\ DisjointTrees(V, d)
             /\ \A u, v \in V : RootsIn(V, d)[u] = RootsIn(V, d)[v] <=>
                   \/ r[u] = r[v]
                   \/ r[u] \in {r[a], r[b]} /\ r[v] \in {r[a], r[b]}
             /\ IsFiniteSet(V) /\ RanksBalance(ds) => RanksBalance(d)
<1> DEFINE r == RootsIn(V, ds)
           d == unify(ds, a, b)
           c == Compressed(ds, a)
           f == Compressed(c, b)
<1>1. SameTrees(V, ds, c)
  BY CompressedSame
<1>2. SameTrees(V, c, f)
  BY <1>1, CompressedSame DEF SameTrees
<1>3. SameTrees(V, ds, f) /\ DisjointTrees(V, f) /\ RootsIn(V, f) = r
  BY <1>1, <1>2 DEF SameTrees
<1>4. /\ Representative(ds, a) = r[a] /\ r[a] \in V /\ IsRoot(ds, r[a])
      /\ Representative(ds, b) = r[b] /\ r[b] \in V /\ IsRoot(ds, r[b])
  BY RepresentativeIsRoot
<1>5. d = Linked(f, r[a], r[b])
  BY <1>4 DEF unify
<1>6. IsRoot(f, r[a]) /\ IsRoot(f, r[b])
  BY <1>3, <1>4 DEF SameTrees
<1> HIDE DEF d, f, c, r
<1>7. CASE r[a] = r[b]
  <2>1. d = f
    BY <1>5, <1>7 DEF Linked
  <2>2. RanksBalance(ds) => RanksBalance(d)
    BY <1>3, <2>1, SameBalance
  <2> QED
    BY <1>3, <1>7, <2>1, <2>2 DEF d, r
<1>8. CASE r[a] # r[b]
  <2>1. \/ LinksTrees(V, f, d, r[a], r[b])
        \/ LinksTrees(V, f, d, r[b], r[a])
    BY <1>3, <1>4, <1>5, <1>6, <1>8, LinkedTrees
  <2>2. DisjointTrees(V, d)
    BY <2>1 DEF LinksTrees
  <2>3. ASSUME NEW u \in V, NEW v \in V
        PROVE  RootsIn(V, d)[u] = RootsIn(V, d)[v] <=>
                 \/ r[u] = r[v]
                 \/ r[u] \in {r[a], r[b]} /\ r[v] \in {r[a], r[b]}
    BY <1>3, <1>8, <2>1 DEF LinksTrees
  <2>4. ASSUME IsFiniteSet(V), RanksBalance(ds) PROVE RanksBalance(d)
    <3>1. RanksBalance(f)
      BY <1>3, <2>4, SameBalance
    <3>2. /\ f.parents \in [V -> V] /\ f.ranks \in [V -> Nat]
          /\ f = [parents |-> f.parents, ranks |-> f.ranks]
      BY <1>3 DEF DisjointTrees
    <3>3. CASE f.ranks[r[a]] > f.ranks[r[b]]
      <4>1. d = [parents |-> [f.parents EXCEPT ![r[b]] = r[a]], ranks |-> f.ranks]
        BY <1>5, <1>8, <3>2, <3>3 DEF Linked
      <4>2. f.ranks[r[b]] < f.ranks[r[a]]
        BY <1>4, <3>2, <3>3
      <4> QED
        BY <1>3, <1>4, <1>6, <1>8, <2>4, <3>1, <3>2, <4>1, <4>2, LinkedBalance
    <3>4. CASE ~ (f.ranks[r[a]] > f.ranks[r[b]])
      <4> DEFINE k == [f.ranks EXCEPT ![r[b]] = @ + (IF f.ranks[r[a]] = f.ranks[r[b]] THEN 1 ELSE 0)]
      <4>1. d = [parents |-> [f.parents EXCEPT ![r[a]] = r[b]], ranks |-> k]
        BY <1>5, <1>8, <3>2, <3>4 DEF Linked
      <4>2. f.ranks[r[a]] \in Nat /\ f.ranks[r[b]] \in Nat
        BY <1>4, <3>2
      <4>3. /\ k \in [V -> Nat]
            /\ \A v \in V : v # r[b] => k[v] = f.ranks[v]
            /\ \/ k[r[b]] = f.ranks[r[b]] /\ f.ranks[r[a]] < f.ranks[r[b]]
               \/ k[r[b]] = f.ranks[r[b]] + 1 /\ f.ranks[r[a]] = f.ranks[r[b]]
        BY <1>4, <3>2, <3>4, <4>2
      <4> HIDE DEF k
      <4> QED
        BY <1>3, <1>4, <1>6, <1>8, <2>4, <3>1, <3>2, <4>1, <4>3, LinkedBalance
    <3> QED
      BY <3>3, <3>4
  <2> QED
    BY <2>2, <2>3, <2>4 DEF d, r
<1> QED
  BY <1>7, <1>8

(* Before that every element is a set.                                     *)
LEMMA SingletonTrees ==
  ASSUME NEW V
  PROVE  /\ DisjointTrees(V, Singletons(V))
         /\ RootsIn(V, Singletons(V)) = [v \in V |-> v]
         /\ RanksBalance(Singletons(V))
<1> DEFINE l == [v \in V |-> v]
           ds == Singletons(V)
<1>1. ds.parents = l /\ ds.ranks = [v \in V |-> 0] /\ ds \in [parents : [V -> V], ranks : [V -> Nat]]
  BY DEF Singletons
<1>2. l \in [V -> V] /\ \A v \in V : l[l[v]] = l[v]
  OBVIOUS
<1> HIDE DEF ds
<1>3. IsForest(V, l) /\ Roots(V, l) = l
  <2> HIDE DEF l
  <2> QED
    BY <1>2, RootsOfFlat
<1>4. DisjointTrees(V, ds) /\ RootsIn(V, ds) = l
  BY <1>1, <1>3 DEF DisjointTrees, RootsIn
<1>5. \A v \in V : IsRoot(ds, v) /\ Tree(V, ds, v) = {v} /\ ds.ranks[v] = 0
  BY <1>1, <1>4 DEF IsRoot, Tree
<1>6. \A v \in V : Cardinality({v}) = 1 /\ 2^0 = 1
  BY FS_Singleton, PowersOfTwo
<1>7. ASSUME NEW v \in V PROVE Cardinality(Tree(V, ds, v)) >= 2^(ds.ranks[v])
  <2>1. Cardinality(Tree(V, ds, v)) = 1
    BY <1>5, <1>6
  <2>2. 2^(ds.ranks[v]) = 1
    BY <1>5, <1>6
  <2> QED
    BY <2>1, <2>2
<1>8. RanksBalance(ds)
  BY <1>4, <1>5, <1>7, BalanceIs DEF RanksRise
<1> QED
  BY <1>4, <1>8 DEF ds

-----------------------------------------------------------------------------
(***************************************************************************)
(* Numberings: the number of a vertex is at most the first one not in use  *)
(* before it.                                                              *)
(***************************************************************************)
Numbers(n) == 0 .. n-1

InOrder(n, f) ==
  /\ f \in [Numbers(n) -> Nat]
  /\ \A v \in Numbers(n) : \A a \in Numbers(f[v]) : \E u \in Numbers(v) : f[u] = a

LEMMA NumbersFinite ==
  ASSUME NEW n \in Nat
  PROVE  IsFiniteSet(Numbers(n)) /\ Cardinality(Numbers(n)) = n
<1>1. IsFiniteSet(0 .. n-1) /\ Cardinality(0 .. n-1) = IF 0 > n-1 THEN 0 ELSE (n-1)-0+1
  BY FS_Interval
<1> QED
  BY <1>1 DEF Numbers

(* What is numbered alike determines the numbers. *)
LEMMA InOrderUnique ==
  ASSUME NEW n \in Nat, NEW f, InOrder(n, f), NEW g, InOrder(n, g),
         \A u, v \in Numbers(n) : f[u] = f[v] <=> g[u] = g[v]
  PROVE  f = g
<1> DEFINE S == {k \in 0 .. n : \A u \in Numbers(k) : f[u] = g[u]}
<1>1. /\ f \in [Numbers(n) -> Nat] /\ g \in [Numbers(n) -> Nat]
      /\ \A v \in Numbers(n) : /\ \A a \in Numbers(f[v]) : \E u \in Numbers(v) : f[u] = a
                               /\ \A a \in Numbers(g[v]) : \E u \in Numbers(v) : g[u] = a
  BY DEF InOrder
<1>2. 0 \in S
  BY DEF Numbers
<1>3. ASSUME NEW k \in 0 .. n-1, k \in S
      PROVE  k + 1 \in S
  <2>1. k \in Nat /\ k + 1 \in 0 .. n /\ k \in Numbers(n) /\ f[k] \in Nat /\ g[k] \in Nat
    BY <1>1 DEF Numbers
  <2>2. \A u \in Numbers(k) : u \in Numbers(n) /\ f[u] = g[u]
    BY <1>3 DEF Numbers
  <2>3. ~ (f[k] < g[k])
    <3> SUFFICES ASSUME f[k] < g[k] PROVE FALSE
      OBVIOUS
    <3>1. f[k] \in Numbers(g[k])
      BY <2>1 DEF Numbers
    <3>2. PICK u \in Numbers(k) : g[u] = f[k]
      BY <1>1, <2>1, <3>1
    <3>3. f[u] = f[k] /\ u \in Numbers(n)
      BY <2>2, <3>2
    <3>4. g[u] = g[k]
      BY <2>1, <3>3
    <3> QED
      BY <2>1, <3>2, <3>4
  <2>4. ~ (g[k] < f[k])
    <3> SUFFICES ASSUME g[k] < f[k] PROVE FALSE
      OBVIOUS
    <3>1. g[k] \in Numbers(f[k])
      BY <2>1 DEF Numbers
    <3>2. PICK u \in Numbers(k) : f[u] = g[k]
      BY <1>1, <2>1, <3>1
    <3>3. g[u] = g[k] /\ u \in Numbers(n)
      BY <2>2, <3>2
    <3>4. f[u] = f[k]
      BY <2>1, <3>3
    <3> QED
      BY <2>1, <3>2, <3>4
  <2>5. f[k] = g[k]
    BY <2>1, <2>3, <2>4
  <2>6. \A u \in Numbers(k + 1) : u \in Numbers(k) \/ u = k
    BY <2>1 DEF Numbers
  <2> QED
    BY <2>1, <2>2, <2>5, <2>6
<1> HIDE DEF S
<1>4. n \in S
  <2>1. \A k \in 0 .. n : k \in S
    BY <1>2, <1>3, CountingUp
  <2> QED
    BY <2>1
<1> QED
  BY <1>1, <1>4 DEF S

LEMMA MinOf ==
  ASSUME NEW S \in SUBSET Int, IsFiniteSet(S), S # {}
  PROVE  Min(S) \in S /\ \A x \in S : Min(S) <= x
<1> DEFINE T == {0 - x : x \in S}
           f == [x \in S |-> 0 - x]
<1>1. T \in SUBSET Int /\ T # {}
  <2>1. \A x \in S : 0 - x \in Int
    OBVIOUS
  <2>2. PICK x \in S : TRUE
    OBVIOUS
  <2>3. 0 - x \in T
    OBVIOUS
  <2> QED
    BY <2>1, <2>3
<1>2. IsFiniteSet(T)
  <2>1. f \in Surjection(S, T)
    BY DEF Surjection
  <2> HIDE DEF f, T
  <2> QED
    BY <2>1, FS_Surjection
<1>3. PICK m \in T : \A x \in T : x <= m
  <2> HIDE DEF T
  <2> QED
    BY <1>1, <1>2, LargestMember
<1>4. 0 - m \in S /\ m \in Int
  <2>1. PICK x \in S : m = 0 - x
    OBVIOUS
  <2>2. x \in Int
    OBVIOUS
  <2>3. 0 - m = x
    BY <2>1, <2>2
  <2> QED
    BY <1>1, <2>2, <2>3
<1>5. \A x \in S : 0 - m <= x
  <2> TAKE x \in S
  <2>1. 0 - x \in T /\ x \in Int
    OBVIOUS
  <2>2. 0 - x <= m
    BY <1>3, <2>1
  <2> QED
    BY <1>4, <2>1, <2>2
<1> QED
  BY <1>4, <1>5 DEF Min

LEMMA MinIs ==
  ASSUME NEW S \in SUBSET Int, NEW m \in S, \A x \in S : m <= x
  PROVE  Min(S) = m
<1>1. \A x \in S : x \in Int
  OBVIOUS
<1>2. \A y \in S : (\A x \in S : y <= x) => y = m
  BY <1>1
<1> QED
  BY <1>2 DEF Min

(* Components are equal or have different smallest vertices. *)
LEMMA SmallestVertices ==
  ASSUME NEW n \in Nat, NEW E, \A p \in E : p \subseteq Numbers(n)
  PROVE  LET V == Numbers(n)
             Smallest(v) == Min(Component(V, E, v))
         IN  /\ \A v \in V : Smallest(v) \in V /\ Smallest(v) <= v
                             /\ Connected(V, E, v, Smallest(v))
             /\ \A u, v \in V : Smallest(u) = Smallest(v) <=> Connected(V, E, u, v)
<1> DEFINE V == Numbers(n)
           Smallest(v) == Min(Component(V, E, v))
<1>1. V \in SUBSET Int /\ IsFiniteSet(V) /\ \A v \in V : v \in Int
  BY NumbersFinite DEF Numbers
<1> HIDE DEF V
<1>2. \A p \in E : p \subseteq V
  BY DEF V
<1>3. ASSUME NEW v \in V
      PROVE  /\ Smallest(v) \in V /\ Smallest(v) <= v
             /\ Connected(V, E, v, Smallest(v))
  <2> DEFINE C == Component(V, E, v)
  <2>1. C \in SUBSET V /\ v \in C
    BY ConnectedReflexive DEF Component
  <2>2. IsFiniteSet(C) /\ C \in SUBSET Int /\ C # {}
    BY <1>1, <2>1, FS_Subset
  <2> HIDE DEF C
  <2>3. Min(C) \in C /\ \A x \in C : Min(C) <= x
    BY <2>2, MinOf
  <2>4. Min(C) \in V /\ Min(C) <= v
    BY <2>1, <2>3
  <2>5. Connected(V, E, v, Min(C))
    BY <2>3 DEF C, Component
  <2> QED
    BY <2>4, <2>5 DEF C
<1>4. \A u, v, w \in V : Connected(V, E, u, v) /\ Connected(V, E, v, w) => Connected(V, E, u, w)
  BY ConnectedTransitive
<1>5. \A u, v \in V : Connected(V, E, u, v) => Connected(V, E, v, u)
  BY <1>2, ConnectedSymmetric
<1>6. ASSUME NEW u \in V, NEW v \in V, Smallest(u) = Smallest(v)
      PROVE  Connected(V, E, u, v)
  <2>1. Connected(V, E, u, Smallest(v)) /\ Connected(V, E, v, Smallest(v)) /\ Smallest(v) \in V
    BY <1>3, <1>6
  <2> HIDE DEF Smallest
  <2> QED
    BY <1>4, <1>5, <2>1
<1>7. ASSUME NEW u \in V, NEW v \in V, Connected(V, E, u, v)
      PROVE  Smallest(u) = Smallest(v)
  <2>1. Component(V, E, u) = Component(V, E, v)
    BY <1>4, <1>5, <1>7 DEF Component
  <2> QED
    BY <2>1
<1> QED
  BY <1>3, <1>6, <1>7 DEF V

(* DenseMap numbers components, in the order of their smallest vertices. *)
LEMMA DenseMapInOrder ==
  ASSUME NEW n \in Nat, NEW E, \A p \in E : p \subseteq Numbers(n)
  PROVE  /\ InOrder(n, DenseMap(n, E))
         /\ \A u, v \in Numbers(n) :
               DenseMap(n, E)[u] = DenseMap(n, E)[v] <=> Connected(Numbers(n), E, u, v)
<1> DEFINE V == Numbers(n)
           Smallest(v) == Min(Component(V, E, v))
           M == {Smallest(v) : v \in V}
           d == DenseMap(n, E)
<1>1. /\ \A v \in V : Smallest(v) \in V /\ Smallest(v) <= v /\ Connected(V, E, v, Smallest(v))
      /\ \A u, v \in V : Smallest(u) = Smallest(v) <=> Connected(V, E, u, v)
  BY SmallestVertices
<1>2. /\ IsFiniteSet(V) /\ \A v \in V : v \in Nat
      /\ d = [v \in V |-> Cardinality({Smallest(u) : u \in {w \in V : Smallest(w) < Smallest(v)}})]
  BY NumbersFinite DEF DenseMap, Numbers
<1> HIDE DEF Smallest, V, d
<1>3. /\ M \in SUBSET V /\ M \in SUBSET Int /\ IsFiniteSet(M)
      /\ \A m \in M : m \in V /\ m \in Nat /\ Smallest(m) = m
  <2>1. M \in SUBSET V
    BY <1>1
  <2>2. IsFiniteSet(M)
    BY <1>2, <2>1, FS_Subset
  <2>3. ASSUME NEW v \in V PROVE Smallest(Smallest(v)) = Smallest(v)
    BY <1>1
  <2> QED
    BY <1>2, <2>1, <2>2, <2>3
<1>4. \A v \in V : Smallest(v) \in M
  OBVIOUS
<1>5. Cardinality(M) \in Nat
  BY <1>3, FS_CardinalityType
<1>6. ASSUME NEW v \in V
      PROVE  /\ Upto(M, Smallest(v)) \in 1 .. Cardinality(M)
             /\ d[v] = Upto(M, Smallest(v)) - 1
  <2> DEFINE s == Smallest(v)
             L == {m \in M : m < s}
             K == {m \in M : m <= s}
  <2>1. s \in M /\ s \in Int
    BY <1>3
  <2>2. {Smallest(u) : u \in {w \in V : Smallest(w) < Smallest(v)}} = L
    OBVIOUS
  <2>3. K = L \cup {s} /\ s \notin L /\ L \in SUBSET M
    <3>1. \A m \in M : m <= s <=> m < s \/ m = s
      BY <1>3, <2>1
    <3>2. ~ (s < s)
      BY <2>1
    <3> HIDE DEF s, M
    <3> QED
      BY <2>1, <3>1, <3>2
  <2>4. IsFiniteSet(L)
    BY <1>3, <2>3, FS_Subset
  <2>5. Cardinality(K) = Cardinality(L) + 1
    <3> HIDE DEF L, K, s
    <3> QED
      BY <2>3, <2>4, FS_AddElement
  <2>6. Cardinality(L) \in Nat
    BY <2>4, FS_CardinalityType
  <2>7. Upto(M, s) = Cardinality(K)
    BY DEF Upto
  <2>8. Upto(M, s) \in 1 .. Cardinality(M)
    BY <1>3, <2>1, UptoInRange
  <2>9. d[v] = Cardinality(L)
    BY <1>2, <2>2
  <2> HIDE DEF L, K, s, M
  <2>10. d[v] = Upto(M, s) - 1
    BY <2>5, <2>6, <2>7, <2>9
  <2> QED
    BY <2>8, <2>10 DEF s
<1> HIDE DEF M
<1>7. d \in [V -> Nat]
  <2>1. \A v \in V : d[v] \in Nat
    BY <1>5, <1>6
  <2>2. DOMAIN d = V /\ d = [v \in V |-> d[v]]
    BY <1>2
  <2> QED
    BY <2>1, <2>2
<1>8. ASSUME NEW v \in V, NEW a \in Numbers(d[v])
      PROVE  \E u \in Numbers(v) : d[u] = a
  <2>1. /\ a \in Nat /\ d[v] \in Nat /\ v \in Nat /\ a < d[v] /\ d[v] = Upto(M, Smallest(v)) - 1
        /\ Upto(M, Smallest(v)) \in 1 .. Cardinality(M)
    BY <1>2, <1>6, <1>7 DEF Numbers
  <2>2. a + 1 \in 1 .. Cardinality(M)
    BY <1>5, <2>1
  <2>3. PICK m \in M : Upto(M, m) = a + 1
    BY <1>3, <2>2, UptoOnto
  <2>4. m \in V /\ m \in Nat /\ Smallest(m) = m /\ Smallest(v) \in M /\ Smallest(v) \in Nat
    BY <1>3, <1>4
  <2>5. d[m] = a
    BY <1>6, <2>1, <2>3, <2>4
  <2>6. m < Smallest(v)
    <3>1. m # Smallest(v)
      BY <2>1, <2>3
    <3>2. ~ (Smallest(v) < m)
      <4> SUFFICES ASSUME Smallest(v) < m PROVE FALSE
        OBVIOUS
      <4>1. Upto(M, Smallest(v)) < Upto(M, m)
        BY <1>3, <2>4, UptoRises
      <4> QED
        BY <2>1, <2>3, <4>1
    <3> QED
      BY <2>4, <3>1, <3>2
  <2>7. Smallest(v) <= v
    BY <1>1
  <2>8. m \in Numbers(v)
    BY <2>1, <2>4, <2>6, <2>7 DEF Numbers
  <2> QED
    BY <2>5, <2>8
<1>9. ASSUME NEW u \in V, NEW v \in V
      PROVE  d[u] = d[v] <=> Connected(V, E, u, v)
  <2>1. d[u] = d[v] <=> Upto(M, Smallest(u)) = Upto(M, Smallest(v))
    BY <1>5, <1>6
  <2>2. Upto(M, Smallest(u)) = Upto(M, Smallest(v)) => Smallest(u) = Smallest(v)
    BY <1>3, <1>4, UptoInjective
  <2> QED
    BY <1>1, <2>1, <2>2
<1> QED
  BY <1>7, <1>8, <1>9 DEF InOrder, V, d

(* As many values as classes. *)
LEMMA SameKernel ==
  ASSUME NEW V, IsFiniteSet(V), NEW f, NEW g,
         \A u, v \in V : f[u] = f[v] <=> g[u] = g[v]
  PROVE  /\ IsFiniteSet({f[v] : v \in V})
         /\ Cardinality({f[v] : v \in V}) = Cardinality({g[v] : v \in V})
<1> DEFINE F == {f[v] : v \in V}
           G == {g[v] : v \in V}
           h == [v \in V |-> f[v]]
           b == [y \in F |-> g[CHOOSE v \in V : f[v] = y]]
<1>1. IsFiniteSet(F)
  <2>1. h \in Surjection(V, F)
    BY DEF Surjection
  <2> HIDE DEF h, F
  <2> QED
    BY <2>1, FS_Surjection
<1>2. \A v \in V : f[v] \in F /\ b[f[v]] = g[v]
  <2> TAKE v \in V
  <2>1. f[v] \in F
    OBVIOUS
  <2> DEFINE w == CHOOSE w \in V : f[w] = f[v]
  <2>2. w \in V /\ f[w] = f[v]
    OBVIOUS
  <2>3. b[f[v]] = g[w]
    BY <2>1
  <2> HIDE DEF w
  <2>4. g[w] = g[v]
    BY <2>2
  <2> QED
    BY <2>1, <2>3, <2>4
<1>3. DOMAIN b = F /\ b = [y \in F |-> b[y]]
  OBVIOUS
<1> HIDE DEF b
<1>4. b \in [F -> G]
  <2>1. \A y \in F : b[y] \in G
    BY <1>2
  <2> HIDE DEF F, G
  <2> QED
    BY <1>3, <2>1
<1>5. \A y \in G : \E x \in F : b[x] = y
  BY <1>2
<1>6. \A x, y \in F : b[x] = b[y] => x = y
  BY <1>2
<1> HIDE DEF F, G
<1>7. b \in Injection(F, G)
  BY <1>4, <1>6 DEF Injection, IsInjective
<1>8. b \in Surjection(F, G)
  BY <1>4, <1>5 DEF Surjection
<1>9. ExistsBijection(F, G)
  BY <1>7, <1>8 DEF ExistsBijection, Bijection
<1>10. IsFiniteSet(F) /\ Cardinality(F) = Cardinality(G)
  BY <1>1, <1>9, FS_Bijection
<1> QED
  BY <1>10 DEF F, G

(* Numbering in two steps. *)
LEMMA InOrderTwice ==
  ASSUME NEW n \in Nat, NEW k \in Nat, NEW m \in Nat, NEW f, InOrder(n, f),
         {f[v] : v \in Numbers(n)} = Numbers(k),
         NEW g, InOrder(k, g), {g[a] : a \in Numbers(k)} = Numbers(m),
         NEW h, h = [v \in Numbers(n) |-> g[f[v]]]
  PROVE  InOrder(n, h) /\ {h[v] : v \in Numbers(n)} = Numbers(m)
<1>1. /\ f \in [Numbers(n) -> Nat] /\ g \in [Numbers(k) -> Nat]
      /\ \A v \in Numbers(n) : f[v] \in Numbers(k) /\ h[v] = g[f[v]]
  BY DEF InOrder
<1>2. h \in [Numbers(n) -> Nat]
  BY <1>1
<1>3. ASSUME NEW v \in Numbers(n), NEW a \in Numbers(h[v])
      PROVE  \E u \in Numbers(v) : h[u] = a
  <2>1. f[v] \in Numbers(k) /\ h[v] = g[f[v]]
    BY <1>1
  <2>2. PICK w \in Numbers(f[v]) : g[w] = a
    BY <1>3, <2>1 DEF InOrder
  <2>3. PICK u \in Numbers(v) : f[u] = w
    BY <2>2 DEF InOrder
  <2>4. u \in Numbers(n)
    BY <2>3 DEF Numbers
  <2> QED
    BY <1>1, <2>2, <2>3, <2>4
<1>4. {h[v] : v \in Numbers(n)} = {g[a] : a \in Numbers(k)}
  BY <1>1
<1> QED
  BY <1>2, <1>3, <1>4 DEF InOrder
=============================================================================
