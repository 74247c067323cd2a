---------------------------- MODULE MpiCCProofs ----------------------------
(***************************************************************************)
(* The MPI program, for every graph and every number of ranks: master and  *)
(* slave agree on every collective call, together they compute what one    *)
(* process would, every call of master is a round of Contraction, the      *)
(* labels returned are the components, the rounds are bounded, and no      *)
(* count is larger than an int as long as the file's is not.               *)
(*                                                                         *)
(* The argument is what lies between the rank and rank 0: a slave stands   *)
(* at some call, and its channel holds exactly the messages of the calls   *)
(* that rank 0 has made since, in order, with the data of those calls.     *)
(***************************************************************************)
EXTENDS MpiCC, GraphTheorems

(* Vertices are integers, finitely many, and there is a rank 0.            *)
LEMMA Constants ==
  /\ Node \in SUBSET Int /\ IsFiniteSet(Node)
  /\ N \in Nat /\ N # 0 /\ P \in Nat /\ P # 0
  /\ 0 \in Rank /\ 0 \notin Slave /\ Rank \in SUBSET Nat /\ IsFiniteSet(Rank)
  /\ \A r \in Slave : r \in Rank /\ r # 0
  /\ \A r \in Rank : r # 0 => r \in Slave
<1>1. N \in Nat /\ N # 0 /\ P \in Nat /\ P # 0
  BY ConstantAssumption, RankAssumption
<1>2. IsFiniteSet(0 .. N-1) /\ IsFiniteSet(0 .. P-1)
  BY <1>1, FS_Interval
<1> QED
  BY <1>1, <1>2 DEF Node, Rank, Slave

-----------------------------------------------------------------------------
(***************************************************************************)
(* Shares.  Displacements are prefix sums; the shares of the ranks follow  *)
(* each other and together are all the edges.                              *)
(***************************************************************************)
LEMMA BelowSum ==
  ASSUME NEW c \in [Rank -> Nat]
  PROVE  /\ Below(c, 0) = 0
         /\ \A r \in 0 .. P : Below(c, r) \in Nat
         /\ \A r \in Rank : Below(c, r + 1) = Below(c, r) + c[r]
BY Constants, PrefixSums DEF Rank

(* A rank's stretch ends before that of a later rank begins. *)
LEMMA BelowRises ==
  ASSUME NEW c \in [Rank -> Nat], NEW r \in Rank, NEW s \in 0 .. P, r < s
  PROVE  Below(c, r) + c[r] <= Below(c, s)
<1> DEFINE S == {i \in 0 .. P : r < i => Below(c, r) + c[r] <= Below(c, i)}
<1>1. P \in Nat /\ r \in Nat /\ r <= P - 1
  BY Constants DEF Rank
<1>2. 0 \in S
  BY <1>1
<1>3. ASSUME NEW i \in 0 .. P-1, i \in S PROVE i + 1 \in S
  <2>1. i \in Rank /\ i \in 0 .. P /\ i + 1 \in 0 .. P
    BY <1>1 DEF Rank
  <2>2. Below(c, i + 1) = Below(c, i) + c[i] /\ Below(c, i) \in Nat /\ c[i] \in Nat
    BY <2>1, BelowSum
  <2>3. Below(c, r) \in Nat /\ c[r] \in Nat
    BY <1>1, BelowSum
  <2>4. CASE r = i
    BY <2>1, <2>2, <2>3, <2>4
  <2>5. CASE r < i
    BY <1>3, <2>1, <2>2, <2>3, <2>5
  <2>6. CASE i < r
    BY <1>1, <2>1, <2>6
  <2> QED
    BY <1>1, <2>1, <2>4, <2>5, <2>6
<1>4. \A i \in 0 .. P : i \in S
  <2> HIDE DEF S
  <2> QED
    BY <1>1, <1>2, <1>3, CountingUp
<1> QED
  BY <1>4

(* Every index falls into the stretch of one rank. *)
LEMMA OwnerExists ==
  ASSUME NEW c \in [Rank -> Nat], NEW i \in 1 .. Below(c, P)
  PROVE  \E r \in Rank : Below(c, r) < i /\ i <= Below(c, r) + c[r]
<1> SUFFICES ASSUME \A r \in Rank : ~ (Below(c, r) < i /\ i <= Below(c, r) + c[r])
             PROVE  FALSE
  OBVIOUS
<1> DEFINE S == {r \in 0 .. P : Below(c, r) < i}
<1>1. P \in Nat /\ P \in 0 .. P /\ Below(c, P) \in Nat /\ i \in Nat
  BY Constants, BelowSum
<1>2. 0 \in S
  BY <1>1, BelowSum
<1>3. ASSUME NEW r \in 0 .. P-1, r \in S PROVE r + 1 \in S
  <2>1. r \in Rank /\ r + 1 \in 0 .. P
    BY <1>1 DEF Rank
  <2>2. Below(c, r + 1) = Below(c, r) + c[r] /\ Below(c, r) \in Nat /\ c[r] \in Nat
    BY <1>3, <2>1, BelowSum
  <2> QED
    BY <1>1, <1>3, <2>1, <2>2
<1>4. \A r \in 0 .. P : r \in S
  <2> HIDE DEF S
  <2> QED
    BY <1>1, <1>2, <1>3, CountingUp
<1> QED
  BY <1>1, <1>4

LEMMA OwnerUnique ==
  ASSUME NEW c \in [Rank -> Nat], NEW i \in Int,
         NEW r \in Rank, Below(c, r) < i, i <= Below(c, r) + c[r],
         NEW s \in Rank, Below(c, s) < i, i <= Below(c, s) + c[s]
  PROVE  r = s
<1>1. r \in 0 .. P /\ s \in 0 .. P /\ r \in Nat /\ s \in Nat
  BY Constants DEF Rank
<1>2. /\ Below(c, r) \in Nat /\ c[r] \in Nat /\ Below(c, s) \in Nat /\ c[s] \in Nat
  BY <1>1, BelowSum
<1>3. ~ (r < s) /\ ~ (s < r)
  BY <1>1, <1>2, BelowRises
<1> QED
  BY <1>1, <1>3

(* calculate_edges_per_processor gives out every edge: the first n % P     *)
(* ranks hold one more than the others.                                    *)
LEMMA CountsShareAll ==
  ASSUME NEW n \in Nat
  PROVE  LET c == calculate_edges_per_processor(n)
         IN  /\ c \in [Rank -> Nat]
             /\ Below(c, P) = n
<1> DEFINE c == calculate_edges_per_processor(n)
           q == n \div P
           m == n % P
           S == {i \in 0 .. P : Below(c, i) = i * q + (IF i < m THEN i ELSE m)}
<1>1. P \in Nat /\ P # 0
  BY Constants
<1>2. q \in Nat /\ m \in 0 .. P-1 /\ n = P * q + m
  BY <1>1
<1> HIDE DEF q, m
<1>3. c \in [Rank -> Nat] /\ \A r \in Rank : c[r] = q + (IF r < m THEN 1 ELSE 0)
  <2>1. c = [r \in Rank |-> q + (IF r < m THEN 1 ELSE 0)]
    BY DEF calculate_edges_per_processor, q, m
  <2> HIDE DEF c
  <2> QED
    BY <1>2, <2>1
<1> HIDE DEF c
<1>4. 0 \in S
  <2>1. Below(c, 0) = 0 /\ 0 * q = 0
    BY <1>2, <1>3, BelowSum
  <2> QED
    BY <1>1, <1>2, <2>1
<1>5. ASSUME NEW i \in 0 .. P-1, i \in S PROVE i + 1 \in S
  <2>1. i \in Rank /\ i \in Nat /\ i + 1 \in 0 .. P
    BY <1>1 DEF Rank
  <2>2. Below(c, i + 1) = Below(c, i) + c[i]
    BY <1>3, <2>1, BelowSum
  <2>3. (i + 1) * q = i * q + q /\ i * q \in Nat
    BY <1>2, <2>1
  <2> QED
    BY <1>2, <1>3, <1>5, <2>1, <2>2, <2>3
<1>6. P \in S
  <2>1. \A i \in 0 .. P : i \in S
    <3> HIDE DEF S
    <3> QED
      BY <1>1, <1>4, <1>5, CountingUp
  <2> QED
    BY <1>1, <2>1
<1>7. Below(c, P) = n
  BY <1>1, <1>2, <1>6
<1> QED
  BY <1>3, <1>7 DEF c

(* The slices of a scatter, index by index. *)
LEMMA SliceType ==
  ASSUME NEW S, NEW s \in Seq(S), NEW r \in Rank
  PROVE  LET c == calculate_edges_per_processor(Len(s))
         IN  /\ Slice(s, c, r) \in Seq(S)
             /\ DOMAIN Slice(s, c, r) = 1 .. c[r]
             /\ Len(Slice(s, c, r)) = c[r]
             /\ \A k \in 1 .. c[r] : /\ Below(c, r) + k \in DOMAIN s
                                    /\ Slice(s, c, r)[k] = s[Below(c, r) + k]
<1> DEFINE c == calculate_edges_per_processor(Len(s))
           t == Slice(s, c, r)
<1>1. Len(s) \in Nat /\ DOMAIN s = 1 .. Len(s)
  OBVIOUS
<1>2. c \in [Rank -> Nat] /\ Below(c, P) = Len(s)
  BY <1>1, CountsShareAll
<1> HIDE DEF c
<1>3. t = [k \in 1 .. c[r] |-> s[Below(c, r) + k]]
  BY DEF Slice, calculate_displacements
<1>4. /\ r \in 0 .. P /\ P \in 0 .. P /\ r < P
  BY Constants DEF Rank
<1>5. Below(c, r) \in Nat /\ c[r] \in Nat /\ Below(c, r) + c[r] <= Len(s)
  BY <1>2, <1>4, BelowSum, BelowRises
<1>6. \A k \in 1 .. c[r] : Below(c, r) + k \in DOMAIN s
  BY <1>1, <1>5
<1>7. t \in [1 .. c[r] -> S]
  BY <1>3, <1>6
<1> HIDE DEF t
<1>8. t \in Seq(S) /\ Len(t) = c[r] /\ DOMAIN t = 1 .. c[r]
  BY <1>5, <1>7
<1>9. \A k \in 1 .. c[r] : t[k] = s[Below(c, r) + k]
  BY <1>3
<1> QED
  BY <1>6, <1>8, <1>9 DEF c, t

(* Every edge is in a slice. *)
LEMMA SlicesCover ==
  ASSUME NEW S, NEW s \in Seq(S), NEW i \in DOMAIN s
  PROVE  LET c == calculate_edges_per_processor(Len(s))
         IN  \E r \in Rank : \E k \in DOMAIN Slice(s, c, r) :
                i = Below(c, r) + k /\ Slice(s, c, r)[k] = s[i]
<1> DEFINE c == calculate_edges_per_processor(Len(s))
<1>1. Len(s) \in Nat /\ i \in 1 .. Len(s)
  OBVIOUS
<1>2. c \in [Rank -> Nat] /\ Below(c, P) = Len(s)
  BY <1>1, CountsShareAll
<1>3. \A r \in Rank : /\ DOMAIN Slice(s, c, r) = 1 .. c[r]
                     /\ \A k \in 1 .. c[r] : Slice(s, c, r)[k] = s[Below(c, r) + k]
  BY SliceType
<1> HIDE DEF c
<1>4. PICK r \in Rank : Below(c, r) < i /\ i <= Below(c, r) + c[r]
  BY <1>1, <1>2, OwnerExists
<1>5. Below(c, r) \in Nat /\ c[r] \in Nat
  BY <1>2, BelowSum, Constants DEF Rank
<1>6. i - Below(c, r) \in 1 .. c[r] /\ i = Below(c, r) + (i - Below(c, r))
  BY <1>1, <1>4, <1>5
<1>7. \E k \in DOMAIN Slice(s, c, r) : i = Below(c, r) + k /\ Slice(s, c, r)[k] = s[i]
  BY <1>3, <1>6
<1> QED
  BY <1>7 DEF c

-----------------------------------------------------------------------------
ProperEdge == {e \in Edge(Node) : e.from # e.to}

LEMMA ProperEnds ==
  ASSUME NEW e \in ProperEdge
  PROVE  /\ e \in Edge(Node) /\ e.from # e.to
         /\ e.from \in Node /\ e.to \in Node /\ e.from \in Int /\ e.to \in Int
<1>1. e.from \in Node /\ e.to \in Node
  BY DEF ProperEdge, Edge
<1> QED
  BY <1>1, Constants DEF ProperEdge

(* What hook_nodes leaves at a vertex: the largest of its label and of the *)
(* other ends of its edges.                                                *)
Offers(s, v) == {s[k].to : k \in {j \in DOMAIN s : s[j].from = v}}

LEMMA HookIsLargest ==
  ASSUME NEW s \in Seq(ProperEdge), NEW m \in [Node -> Node], NEW v \in Node
  PROVE  /\ hook_nodes(s, m)[v] \in {m[v]} \cup Offers(s, v)
         /\ {m[v]} \cup Offers(s, v) \in SUBSET Node
         /\ \A x \in {m[v]} \cup Offers(s, v) : x <= hook_nodes(s, m)[v]
<1> DEFINE S == {m[v]} \cup Offers(s, v)
<1>1. \A k \in DOMAIN s : s[k].to \in Node
  BY ProperEnds
<1>2. S \in SUBSET Node
  BY <1>1 DEF Offers
<1>3. S \in SUBSET Int /\ IsFiniteSet(S) /\ S # {}
  <2>1. m[v] \in S
    OBVIOUS
  <2> HIDE DEF S
  <2>2. S \in SUBSET Int
    BY <1>2, Constants
  <2> QED
    BY <1>2, <2>1, <2>2, Constants, FS_Subset
<1>4. hook_nodes(s, m)[v] = Max(S)
  BY DEF hook_nodes, Offers
<1> HIDE DEF S
<1>5. hook_nodes(s, m)[v] \in S /\ \A x \in S : x <= hook_nodes(s, m)[v]
  BY <1>3, <1>4, MaxOf
<1> QED
  BY <1>2, <1>5 DEF S

(* The maximum over the ranks of what each hooks along its slice is what   *)
(* one process hooks along all edges.                                      *)
LEMMA ReducedHooks ==
  ASSUME NEW s \in Seq(ProperEdge), NEW m \in [Node -> Node], NEW contribution,
         \A r \in Rank : contribution[r] =
            hook_nodes(Slice(s, calculate_edges_per_processor(Len(s)), r), m)
  PROVE  Reduced(contribution) = hook_nodes(s, m)
<1> DEFINE c == calculate_edges_per_processor(Len(s))
           h == hook_nodes(s, m)
<1>1. ASSUME NEW v \in Node PROVE Max({contribution[r][v] : r \in Rank}) = h[v]
  <2> DEFINE S == {contribution[r][v] : r \in Rank}
  <2>1. /\ h[v] \in {m[v]} \cup Offers(s, v)
        /\ \A x \in {m[v]} \cup Offers(s, v) : x <= h[v]
        /\ h[v] \in Node /\ h[v] \in Int
    BY HookIsLargest, Constants
  <2>2. ASSUME NEW r \in Rank
        PROVE  /\ contribution[r][v] \in {m[v]} \cup Offers(Slice(s, c, r), v)
               /\ \A x \in {m[v]} \cup Offers(Slice(s, c, r), v) : x <= contribution[r][v]
               /\ contribution[r][v] \in Int
               /\ Offers(Slice(s, c, r), v) \subseteq Offers(s, v)
    <3>1. Slice(s, c, r) \in Seq(ProperEdge)
      BY SliceType
    <3>2. \A k \in DOMAIN Slice(s, c, r) : \E i \in DOMAIN s : Slice(s, c, r)[k] = s[i]
      BY SliceType
    <3> HIDE DEF c
    <3>3. Offers(Slice(s, c, r), v) \subseteq Offers(s, v)
      BY <3>2 DEF Offers
    <3>4. contribution[r] = hook_nodes(Slice(s, c, r), m)
      BY DEF c
    <3>5. /\ contribution[r][v] \in {m[v]} \cup Offers(Slice(s, c, r), v)
          /\ {m[v]} \cup Offers(Slice(s, c, r), v) \in SUBSET Node
          /\ \A x \in {m[v]} \cup Offers(Slice(s, c, r), v) : x <= contribution[r][v]
      BY <3>1, <3>4, HookIsLargest
    <3>6. contribution[r][v] \in Int
      BY <3>5, Constants
    <3> QED
      BY <3>3, <3>5, <3>6
  <2>3. PICK r \in Rank : h[v] \in {m[v]} \cup Offers(Slice(s, c, r), v)
    <3>1. CASE h[v] = m[v]
      BY <3>1, Constants
    <3>2. CASE h[v] \in Offers(s, v)
      <4>1. PICK i \in DOMAIN s : s[i].from = v /\ s[i].to = h[v]
        BY <3>2 DEF Offers
      <4>2. PICK r \in Rank : \E k \in DOMAIN Slice(s, c, r) : Slice(s, c, r)[k] = s[i]
        BY SlicesCover
      <4>3. h[v] \in Offers(Slice(s, c, r), v)
        BY <4>1, <4>2 DEF Offers
      <4> QED
        BY <4>3
    <3> QED
      BY <2>1, <3>1, <3>2
  <2> HIDE DEF c, h
  <2>4. \A q \in Rank : contribution[q][v] <= h[v]
    BY <2>1, <2>2
  <2>5. contribution[r][v] = h[v]
    <3>1. h[v] <= contribution[r][v] /\ contribution[r][v] <= h[v] /\ contribution[r][v] \in Int
      BY <2>2, <2>3, <2>4
    <3> QED
      BY <2>1, <3>1
  <2>6. h[v] \in S /\ S \in SUBSET Int /\ \A x \in S : x <= h[v]
    BY <2>2, <2>4, <2>5
  <2> HIDE DEF S
  <2>7. Max(S) = h[v]
    BY <2>6, MaxIs
  <2> QED
    BY <2>7 DEF S
<1>2. h = [v \in Node |-> h[v]]
  BY DEF hook_nodes
<1> HIDE DEF h
<1>3. Reduced(contribution) = h
  BY <1>1, <1>2 DEF Reduced
<1> QED
  BY <1>3 DEF h

-----------------------------------------------------------------------------
(* The edges that a round leaves: those whose ends got different labels.   *)
Kept(s, l) == {k \in DOMAIN s : l[s[k].from] # l[s[k].to]}

LEMMA NextEdgeType ==
  ASSUME NEW e \in ProperEdge, NEW l \in [Node -> Node], l[e.from] # l[e.to]
  PROVE  /\ NextEdge(e, l) \in ProperEdge
         /\ Pair(NextEdge(e, l)) = {l[e.from], l[e.to]}
         /\ \E v \in Node : NextEdge(e, l).from = l[v]
         /\ \E v \in Node : NextEdge(e, l).to = l[v]
<1>1. e.from \in Node /\ e.to \in Node
  BY ProperEnds
<1>2. l[e.from] \in Node /\ l[e.to] \in Node
  BY <1>1
<1>3. CASE e.from < e.to
  BY <1>1, <1>2, <1>3 DEF NextEdge, ProperEdge, Edge, Pair
<1>4. CASE ~ (e.from < e.to)
  BY <1>1, <1>2, <1>4 DEF NextEdge, ProperEdge, Edge, Pair
<1> QED
  BY <1>3, <1>4

LEMMA NextEdges ==
  ASSUME NEW s \in Seq(ProperEdge), NEW l \in [Node -> Node]
  PROVE  LET t == compute_next_edges(s, l)
         IN  /\ Kept(s, l) \in SUBSET Int /\ IsFiniteSet(Kept(s, l))
             /\ Cardinality(Kept(s, l)) \in Nat
             /\ t \in Seq(ProperEdge)
             /\ Len(t) = Cardinality(Kept(s, l))
             /\ DOMAIN t = 1 .. Cardinality(Kept(s, l))
             /\ \A k \in DOMAIN t : /\ Nth(Kept(s, l), k) \in Kept(s, l)
                                   /\ t[k] = NextEdge(s[Nth(Kept(s, l), k)], l)
<1> DEFINE K == Kept(s, l)
           kept == Compact(s, K)
           t == compute_next_edges(s, l)
<1>1. K \in SUBSET DOMAIN s
  BY DEF Kept
<1>2. /\ IsFiniteSet(K) /\ K \in SUBSET Int /\ Cardinality(K) \in Nat
      /\ DOMAIN kept = 1 .. Cardinality(K)
      /\ \A k \in DOMAIN kept : Nth(K, k) \in K /\ kept[k] = s[Nth(K, k)]
  BY <1>1, CompactType
<1>3. t = [k \in DOMAIN kept |-> NextEdge(kept[k], l)]
  BY DEF compute_next_edges, Kept
<1>4. \A k \in K : s[k] \in ProperEdge /\ l[s[k].from] # l[s[k].to]
  BY DEF Kept
<1>5. \A k \in K : NextEdge(s[k], l) \in ProperEdge
  BY <1>4, NextEdgeType
<1> HIDE DEF K, kept
<1>6. \A k \in DOMAIN kept : t[k] = NextEdge(s[Nth(K, k)], l) /\ t[k] \in ProperEdge
  BY <1>2, <1>3, <1>5
<1>7. t \in [1 .. Cardinality(K) -> ProperEdge]
  BY <1>2, <1>3, <1>6
<1> HIDE DEF t
<1>8. t \in Seq(ProperEdge) /\ Len(t) = Cardinality(K)
  BY <1>2, <1>7
<1> QED
  BY <1>2, <1>6, <1>7, <1>8 DEF K, t

(* The pairs that a round leaves are what Contraction says: compaction and *)
(* orientation do not matter to the graph.                                 *)
LEMMA NextPairs ==
  ASSUME NEW s \in Seq(ProperEdge), NEW l \in [Node -> Node]
  PROVE  Pairs(compute_next_edges(s, l)) = MergedPairs(Pairs(s), l)
<1> DEFINE K == Kept(s, l)
           t == compute_next_edges(s, l)
<1>1. /\ K \in SUBSET Int /\ IsFiniteSet(K)
      /\ DOMAIN t = 1 .. Cardinality(K)
      /\ \A k \in DOMAIN t : Nth(K, k) \in K /\ t[k] = NextEdge(s[Nth(K, k)], l)
  BY NextEdges
<1>2. \A k \in K : /\ s[k] \in ProperEdge /\ l[s[k].from] # l[s[k].to]
                  /\ Pair(NextEdge(s[k], l)) = {l[s[k].from], l[s[k].to]}
  BY NextEdgeType DEF Kept
<1>3. \A k \in DOMAIN s : l[s[k].from] # l[s[k].to] => k \in K
  BY DEF Kept
<1>4. \A k \in K : k \in DOMAIN s
  BY DEF Kept
<1> HIDE DEF K, t
<1>5. ASSUME NEW k \in DOMAIN s, l[s[k].from] # l[s[k].to]
      PROVE  \E j \in DOMAIN t : Pair(t[j]) = {l[s[k].from], l[s[k].to]}
  <2>1. k \in K
    BY <1>3, <1>5
  <2>2. Upto(K, k) \in DOMAIN t /\ Nth(K, Upto(K, k)) = k
    BY <1>1, <2>1, UptoInRange, NthUpto
  <2> QED
    BY <1>1, <1>2, <2>1, <2>2
<1>6. ASSUME NEW j \in DOMAIN t
      PROVE  \E k \in DOMAIN s : /\ l[s[k].from] # l[s[k].to]
                                /\ Pair(t[j]) = {l[s[k].from], l[s[k].to]}
  BY <1>1, <1>2, <1>4
<1>7. s \in Seq(Edge(Node))
  BY DEF ProperEdge
<1>8. Pairs(t) = MergedPairs(Pairs(s), l)
  BY <1>5, <1>6, <1>7, KeptPairs
<1> QED
  BY <1>8 DEF t

(* The gather puts what the ranks have left of their slices together to    *)
(* what one process leaves of all edges, in the same order.                *)
LEMMA GatheredNextEdges ==
  ASSUME NEW s \in Seq(ProperEdge), NEW l \in [Node -> Node],
         NEW left, NEW counts \in [Rank -> Nat],
         \A r \in Rank :
            /\ left[r] = compute_next_edges(
                            Slice(s, calculate_edges_per_processor(Len(s)), r), l)
            /\ counts[r] = Len(left[r])
  PROVE  /\ Below(counts, P) = Cardinality(Kept(s, l))
         /\ Gathered(left, counts) = compute_next_edges(s, l)
<1> DEFINE c == calculate_edges_per_processor(Len(s))
           K == Kept(s, l)
           L(r) == Kept(Slice(s, c, r), l)
           t == compute_next_edges(s, l)
<1>1. Len(s) \in Nat /\ DOMAIN s = 1 .. Len(s) /\ c \in [Rank -> Nat] /\ Below(c, P) = Len(s)
  BY CountsShareAll
<1>2. P \in Nat /\ P \in 0 .. P /\ \A r \in Rank : r \in 0 .. P /\ r + 1 \in 0 .. P
  BY Constants DEF Rank
<1>3. /\ K \in SUBSET Int /\ IsFiniteSet(K) /\ Cardinality(K) \in Nat
      /\ DOMAIN t = 1 .. Cardinality(K)
      /\ t = [k \in DOMAIN t |-> NextEdge(s[Nth(K, k)], l)]
  <2>1. /\ K \in SUBSET Int /\ IsFiniteSet(K) /\ Cardinality(K) \in Nat
        /\ DOMAIN t = 1 .. Cardinality(K)
        /\ t \in Seq(ProperEdge)
        /\ \A k \in DOMAIN t : t[k] = NextEdge(s[Nth(K, k)], l)
    BY NextEdges
  <2> HIDE DEF t, K
  <2> QED
    BY <2>1
<1>4. ASSUME NEW r \in Rank
      PROVE  /\ L(r) = {k \in 1 .. c[r] : Below(c, r) + k \in K}
             /\ L(r) \in SUBSET Int /\ IsFiniteSet(L(r)) /\ Cardinality(L(r)) = counts[r]
             /\ \A m \in 1 .. counts[r] :
                   left[r][m] = NextEdge(s[Below(c, r) + Nth(L(r), m)], l)
  <2> DEFINE sl == Slice(s, c, r)
  <2>1. /\ sl \in Seq(ProperEdge) /\ DOMAIN sl = 1 .. c[r]
        /\ \A k \in 1 .. c[r] : Below(c, r) + k \in DOMAIN s /\ sl[k] = s[Below(c, r) + k]
    BY SliceType
  <2>2. /\ L(r) \in SUBSET Int /\ IsFiniteSet(L(r))
        /\ Len(left[r]) = Cardinality(L(r))
        /\ DOMAIN left[r] = 1 .. Cardinality(L(r))
        /\ \A k \in DOMAIN left[r] : /\ Nth(L(r), k) \in L(r)
                                    /\ left[r][k] = NextEdge(sl[Nth(L(r), k)], l)
    <3>1. left[r] = compute_next_edges(sl, l) /\ L(r) = Kept(sl, l)
      OBVIOUS
    <3>2. sl \in Seq(ProperEdge)
      BY <2>1
    <3> HIDE DEF sl, L
    <3> QED
      BY <3>1, <3>2, NextEdges
  <2> HIDE DEF sl, c
  <2>3. Kept(sl, l) = {k \in 1 .. c[r] : Below(c, r) + k \in K}
    BY <2>1 DEF Kept
  <2>4. L(r) = {k \in 1 .. c[r] : Below(c, r) + k \in K}
    BY <2>3 DEF sl
  <2> HIDE DEF L
  <2> QED
    BY <2>1, <2>2, <2>4
<1> HIDE DEF c, K, L, t
<1>5. \A r \in 0 .. P : Below(counts, r) = Upto(K, Below(c, r))
  <2> DEFINE S == {r \in 0 .. P : Below(counts, r) = Upto(K, Below(c, r))}
  <2>1. 0 \in S
    <3>1. \A k \in K : k >= 1
      BY <1>1 DEF K, Kept
    <3>2. {j \in K : j <= 0} = {}
      BY <1>3, <3>1
    <3>3. Upto(K, 0) = 0
      BY <3>2, FS_EmptySet DEF Upto
    <3>4. Below(counts, 0) = 0 /\ Below(c, 0) = 0 /\ 0 \in 0 .. P
      BY <1>1, <1>2, BelowSum
    <3> QED
      BY <3>3, <3>4
  <2>2. ASSUME NEW r \in 0 .. P-1, r \in S PROVE r + 1 \in S
    <3>1. r \in Rank
      BY DEF Rank
    <3>2. /\ Below(counts, r + 1) = Below(counts, r) + counts[r]
          /\ Below(c, r + 1) = Below(c, r) + c[r] /\ Below(c, r) \in Nat /\ c[r] \in Nat
      BY <1>1, <1>2, <3>1, BelowSum
    <3>3. Upto(K, Below(c, r) + c[r]) = Upto(K, Below(c, r)) + Upto(L(r), c[r])
      <4>1. c[r] \in 0 .. c[r] /\ L(r) = {k \in 1 .. c[r] : Below(c, r) + k \in K}
        BY <1>4, <3>1, <3>2
      <4>2. K \in SUBSET Int /\ IsFiniteSet(K) /\ Below(c, r) \in Int /\ c[r] \in Nat
        BY <1>3, <3>2
      <4>3. Upto(K, Below(c, r) + c[r])
              = Upto(K, Below(c, r)) + Upto({k \in 1 .. c[r] : Below(c, r) + k \in K}, c[r])
        BY <4>1, <4>2, UptoStretch
      <4> QED
        BY <4>1, <4>3
    <3>4. {j \in L(r) : j <= c[r]} = L(r)
      BY <1>4, <3>1, <3>2
    <3>5. Upto(L(r), c[r]) = counts[r]
      BY <1>4, <3>1, <3>4 DEF Upto
    <3> QED
      BY <1>2, <2>2, <3>1, <3>2, <3>3, <3>5
  <2>3. \A r \in 0 .. P : r \in S
    <3> HIDE DEF S
    <3> QED
      BY <1>2, <2>1, <2>2, CountingUp
  <2> QED
    BY <2>3
<1>6. Below(counts, P) = Cardinality(K)
  <2>1. {j \in K : j <= Len(s)} = K
    BY <1>1, <1>3 DEF K, Kept
  <2> QED
    BY <1>1, <1>2, <1>5, <2>1 DEF Upto
<1> DEFINE Owner(i) == CHOOSE r \in Rank : Below(counts, r) < i /\ i <= Below(counts, r) + counts[r]
<1>7. ASSUME NEW i \in 1 .. Below(counts, P)
      PROVE  left[Owner(i)][i - Below(counts, Owner(i))] = NextEdge(s[Nth(K, i)], l)
  <2>1. \E r \in Rank : Below(counts, r) < i /\ i <= Below(counts, r) + counts[r]
    BY OwnerExists
  <2>2. PICK r \in Rank : r = Owner(i) /\ Below(counts, r) < i /\ i <= Below(counts, r) + counts[r]
    BY <2>1
  <2> HIDE DEF Owner
  <2> DEFINE m == i - Below(counts, r)
             j == Nth(L(r), m)
  <2>3. /\ Below(counts, r) \in Nat /\ counts[r] \in Nat
        /\ Below(c, r) \in Nat /\ c[r] \in Nat
    BY <1>1, <1>2, BelowSum
  <2>4. m \in 1 .. counts[r]
    BY <1>6, <1>3, <2>2, <2>3
  <2>5. j \in L(r) /\ Upto(L(r), j) = m
    BY <1>4, <2>4, NthUpto
  <2>6. j \in 0 .. c[r] /\ Below(c, r) + j \in K
    BY <1>4, <2>3, <2>5
  <2> HIDE DEF j
  <2>7. Upto(K, Below(c, r) + j) = Upto(K, Below(c, r)) + Upto(L(r), j)
    <3>1. L(r) = {k \in 1 .. c[r] : Below(c, r) + k \in K}
      BY <1>4
    <3> QED
      <4>1. c[r] \in Nat /\ Below(c, r) \in Int /\ j \in 0 .. c[r]
        BY <2>3, <2>6
      <4> HIDE DEF m
      <4>2. Upto(K, Below(c, r) + j) = Upto(K, Below(c, r)) + Upto({k \in 1 .. c[r] : Below(c, r) + k \in K}, j)
        BY <1>3, <4>1, UptoStretch
      <4> QED
        BY <3>1, <4>2
  <2>8. Upto(K, Below(c, r) + j) = Below(counts, r) + m
    BY <1>2, <1>5, <2>5, <2>7
  <2>9. Below(counts, r) + m = i
    BY <1>6, <1>3, <2>3
  <2>10. Nth(K, i) = Below(c, r) + j
    BY <1>3, <2>6, <2>8, <2>9, NthUpto
  <2>11. left[r][m] = NextEdge(s[Below(c, r) + j], l)
    BY <1>4, <2>4 DEF j
  <2> QED
    BY <2>2, <2>10, <2>11
<1>8. Gathered(left, counts) = [i \in 1 .. Below(counts, P) |-> left[Owner(i)][i - Below(counts, Owner(i))]]
  <2> DEFINE displs == calculate_displacements(counts)
             ByDispl(i) == CHOOSE r \in Rank : displs[r] < i /\ i <= displs[r] + counts[r]
  <2>1. Gathered(left, counts) = [i \in 1 .. Below(counts, P) |-> left[ByDispl(i)][i - displs[ByDispl(i)]]]
    BY DEF Gathered
  <2>2. \A r \in Rank : displs[r] = Below(counts, r)
    BY DEF calculate_displacements
  <2> HIDE DEF displs
  <2>3. \A i : ByDispl(i) = Owner(i)
    BY <2>2
  <2>4. \A i \in 1 .. Below(counts, P) : Owner(i) \in Rank
    BY OwnerExists
  <2> HIDE DEF Owner, ByDispl
  <2> QED
    BY <2>1, <2>2, <2>3, <2>4
<1> HIDE DEF Owner
<1>9. Gathered(left, counts) = t
  BY <1>3, <1>6, <1>7, <1>8
<1> QED
  BY <1>6, <1>9 DEF K, t

-----------------------------------------------------------------------------
(* What the ranks are given of the edges of a round.                       *)
Counts == calculate_edges_per_processor(Len(edges))
Share(r) == Slice(edges, Counts, r)
Left(r) == compute_next_edges(Share(r), labels[0])

-----------------------------------------------------------------------------
(* The calls of rank 0, and of the others, up to the reduction of a round: *)
(* how many messages rank 0 sends before them.                             *)
MasterDescent == {"read", "nNodes", "nEdges", "nEdges_local", "edges_slice", "labels",
                  "hooks", "barrier", "done"}
SlaveDescent == MasterDescent \ {"read"}
Relabelling == {"next_nEdges_local", "nextEdges"}

Position(call) ==
  CASE call \in {"read", "nNodes"} -> 1
    [] call = "nEdges" -> 2
    [] call = "nEdges_local" -> 3
    [] call \in {"edges_slice", "barrier", "done"} -> 4
    [] call = "labels" -> 5
    [] call = "hooks" -> 6

Message(call, x) == [op |-> call, data |-> x]

(* What rank 0 sends to rank r in a round, before the reduction.           *)
Messages(r) ==
  << Message("nNodes", N), Message("nEdges", Len(edges)),
     Message("nEdges_local", Counts[r]), Message("edges_slice", Share(r)),
     Message("labels", Unhooked) >>

(* The messages from the a-th up to, not including, the b-th.              *)
Part(M, a, b) == [k \in 1 .. b - a |-> M[a + k - 1]]

(* Before the reduction rank r follows rank 0, which has sent, and it has  *)
(* not yet taken, the messages between their positions.                    *)
Following(r) ==
  /\ pc[0] \in MasterDescent
  /\ pc[r] \in SlaveDescent
  /\ Position(pc[r]) <= Position(pc[0])
  /\ pc[r] \in {"barrier", "done"} => pc[0] \in {"barrier", "done"}
  /\ pc[0] \in {"barrier", "done"} => pc[r] # "edges_slice"
  /\ down[r] = Part(Messages(r), Position(pc[r]), Position(pc[0]))
  /\ up[r] = <<>>

(* Rank r has sent its labels and waits for the roots.                     *)
Awaiting(r) ==
  /\ pc[r] = "roots"
  /\ \/ pc[0] = "hooks" /\ down[r] = <<>> /\ up[r] = <<Message("hooks", labels[r])>>
     \/ pc[0] \in {"find_roots", "roots"} /\ down[r] = <<>> /\ up[r] = <<>>
     \/ /\ pc[0] = "next_nEdges_local"
        /\ down[r] = <<Message("roots", labels[0])>>
        /\ up[r] = <<>>

(* What rank r sends to rank 0 after that, and how many of it before a     *)
(* call.                                                                   *)
Answers(r) ==
  << Message("next_nEdges_local", Len(Left(r))), Message("nextEdges", Left(r)) >>

Place(call) ==
  CASE call = "next_nEdges_local" -> 1
    [] call = "nextEdges" -> 2
    [] call = "nEdges" -> 3

(* Rank r has relabelled its edges, and may be ahead of rank 0.            *)
Gathering(r) ==
  /\ pc[0] \in Relabelling
  /\ pc[r] \in Relabelling \cup {"nEdges"}
  /\ Place(pc[0]) <= Place(pc[r])
  /\ down[r] = <<>>
  /\ nextEdges_local[r] = Left(r)
  /\ up[r] = Part(Answers(r), Place(pc[0]), Place(pc[r]))

Agrees(r) == Following(r) \/ Awaiting(r) \/ Gathering(r)

(* What rank r holds of the round.                                         *)
Told(r) ==
  /\ pc[r] = "nEdges_local" => nEdges[r] = Len(edges)
  /\ pc[r] = "edges_slice" => nEdges_local[r] = Counts[r]
  /\ pc[r] \in {"labels", "hooks", "roots"} => edges_slice[r] = Share(r)
  /\ pc[0] = "hooks" /\ pc[r] \in {"hooks", "roots"} =>
        labels[r] = hook_nodes(Share(r), Unhooked)

(* What rank 0 holds of the round.                                         *)
MasterHolds ==
  /\ pc[0] = "read" => edges = <<>>
  /\ pc[0] \in {"barrier", "done"} => edges = <<>>
  /\ pc[0] \in {"edges_slice", "labels", "hooks", "find_roots", "roots"} \cup Relabelling
        => edges # <<>>
  /\ pc[0] \in {"labels", "hooks", "find_roots", "roots"} => edges_slice[0] = Share(0)
  /\ pc[0] = "hooks" => labels[0] = hook_nodes(Share(0), Unhooked)
  /\ pc[0] \in Relabelling => nextEdges_local[0] = Left(0)
  /\ pc[0] = "nextEdges" => next_edges_per_proc = [r \in Rank |-> Len(Left(r))]

(* No rank has passed the barrier before every rank has come to it.        *)
Barrier == (\E r \in Rank : pc[r] = "done") => \A r \in Rank : pc[r] \in {"barrier", "done"}

(* The labels are a forest, that of the round's labels but while they are  *)
(* hooked; a pass of find_roots that has found nothing leaves roots behind *)
(* it.                                                                     *)
Forests ==
  /\ pc[0] # "read" => Upwards(Node, labels[0])
  /\ Upwards(Node, MergedLabels)
  /\ \A v \in Node : MergedLabels[MergedLabels[v]] = MergedLabels[v]
  /\ pc[0] = "find_roots" /\ ~ found =>
        \A v \in Node : v < node => labels[0][labels[0][v]] = labels[0][v]

(* The ends of the edges of a round are their own labels until it merges.  *)
EndsSettled ==
  pc[0] \in MasterDescent =>
    \A k \in DOMAIN RemainingEdges :
       /\ MergedLabels[RemainingEdges[k].from] = RemainingEdges[k].from
       /\ MergedLabels[RemainingEdges[k].to] = RemainingEdges[k].to

Basics ==
  /\ input \in Inputs
  /\ DOMAIN pc = Rank
  /\ pc[0] \in MasterDescent \cup {"find_roots", "roots"} \cup Relabelling
  /\ edges \in Seq(ProperEdge)
  /\ iteration \in Nat
  /\ node \in 0 .. N
  /\ found \in BOOLEAN
  /\ DOMAIN nEdges = Slave /\ DOMAIN nEdges_local = Slave
  /\ DOMAIN edges_slice = Rank
  /\ DOMAIN labels = Rank
  /\ DOMAIN nextEdges_local = Rank
  /\ DOMAIN down = Slave /\ DOMAIN up = Slave

(* The inductive invariant.                                                *)
IInv ==
  /\ Basics
  /\ \A r \in Slave : Agrees(r) /\ Told(r)
  /\ MasterHolds
  /\ Barrier
  /\ Forests
  /\ EndsSettled

-----------------------------------------------------------------------------
(* A channel holds a part of what is sent in a round: sending lengthens it *)
(* at its end, taking shortens it at its beginning.                        *)
LEMMA PartEmpty ==
  ASSUME NEW M, NEW a \in Int
  PROVE  Part(M, a, a) = <<>>
<1>1. a - a = 0 /\ 1 .. 0 = {}
  OBVIOUS
<1> QED
  BY <1>1 DEF Part

LEMMA PartSame ==
  ASSUME NEW M, NEW L, NEW a \in Int, NEW b \in Int,
         \A k \in Int : a <= k /\ k < b => M[k] = L[k]
  PROVE  Part(M, a, b) = Part(L, a, b)
<1>1. \A k \in 1 .. b - a : M[a + k - 1] = L[a + k - 1]
  OBVIOUS
<1> QED
  BY <1>1 DEF Part

LEMMA PartIsSeq ==
  ASSUME NEW M, NEW a \in Int, NEW b \in Int, a <= b
  PROVE  \E S : Part(M, a, b) \in Seq(S) /\ Len(Part(M, a, b)) = b - a
<1> DEFINE t == Part(M, a, b)
           S == {M[a + k - 1] : k \in 1 .. b - a}
<1>1. t \in [1 .. b - a -> S]
  BY DEF Part
<1>2. b - a \in Nat
  OBVIOUS
<1> HIDE DEF t, S
<1>3. t \in Seq(S) /\ Len(t) = b - a
  BY <1>1, <1>2
<1> QED
  BY <1>3 DEF t

LEMMA PartTake ==
  ASSUME NEW M, NEW a \in Int, NEW b \in Int, a < b
  PROVE  /\ Part(M, a, b) # <<>>
         /\ Head(Part(M, a, b)) = M[a]
         /\ Tail(Part(M, a, b)) = Part(M, a + 1, b)
<1> DEFINE t == Part(M, a, b)
<1>1. t = [k \in 1 .. b - a |-> M[a + k - 1]]
  BY DEF Part
<1>2. PICK S : t \in Seq(S) /\ Len(t) = b - a
  BY PartIsSeq
<1> HIDE DEF t
<1>3. t # <<>>
  BY <1>2
<1>4. Head(t) = M[a]
  <2>1. Head(t) = t[1] /\ 1 \in 1 .. b - a /\ a + 1 - 1 = a
    BY <1>2, <1>3
  <2> QED
    BY <1>1, <2>1
<1>5. Tail(t) = [k \in 1 .. Len(t) - 1 |-> t[k + 1]]
  <2>1. /\ Tail(t) \in Seq(S) /\ Len(Tail(t)) = Len(t) - 1
        /\ \A k \in 1 .. Len(Tail(t)) : Tail(t)[k] = t[k + 1]
    BY <1>2, <1>3, HeadTailProperties
  <2>2. Tail(t) = [k \in 1 .. Len(Tail(t)) |-> Tail(t)[k]]
    BY <2>1, LenProperties
  <2> QED
    BY <2>1, <2>2
<1>6. \A k \in 1 .. Len(t) - 1 : t[k + 1] = M[(a + 1) + k - 1]
  BY <1>1, <1>2
<1>7. Len(t) - 1 = b - (a + 1)
  BY <1>2
<1>8. Tail(t) = Part(M, a + 1, b)
  BY <1>5, <1>6, <1>7 DEF Part
<1> QED
  BY <1>3, <1>4, <1>8 DEF t

LEMMA PartSend ==
  ASSUME NEW M, NEW a \in Int, NEW b \in Int, a <= b
  PROVE  Append(Part(M, a, b), M[b]) = Part(M, a, b + 1)
<1> DEFINE t == Part(M, a, b)
           u == Append(t, M[b])
<1>1. t = [k \in 1 .. b - a |-> M[a + k - 1]]
  BY DEF Part
<1>2. PICK S : t \in Seq(S) /\ Len(t) = b - a
  BY PartIsSeq
<1> HIDE DEF t
<1>3. u = [k \in 1 .. Len(t) + 1 |-> IF k = Len(t) + 1 THEN M[b] ELSE t[k]]
  BY <1>2
<1>4. \A k \in 1 .. Len(t) + 1 : (IF k = Len(t) + 1 THEN M[b] ELSE t[k]) = M[a + k - 1]
  BY <1>1, <1>2
<1>5. Len(t) + 1 = (b + 1) - a
  BY <1>2
<1> HIDE DEF u
<1>6. u = Part(M, a, b + 1)
  BY <1>3, <1>4, <1>5 DEF Part
<1> QED
  BY <1>6 DEF u, t

(* A channel with something in it: the next call of its sender is later    *)
(* than that of its receiver.                                              *)
LEMMA PartFilled ==
  ASSUME NEW M, NEW a \in Int, NEW b \in Int, a <= b, Part(M, a, b) # <<>>
  PROVE  /\ a < b
         /\ Head(Part(M, a, b)) = M[a]
         /\ Tail(Part(M, a, b)) = Part(M, a + 1, b)
<1>1. a < b
  BY PartEmpty
<1> QED
  BY <1>1, PartTake

LEMMA Positions ==
  /\ Position("read") = 1 /\ Position("nNodes") = 1 /\ Position("nEdges") = 2
  /\ Position("nEdges_local") = 3 /\ Position("edges_slice") = 4
  /\ Position("barrier") = 4 /\ Position("done") = 4
  /\ Position("labels") = 5 /\ Position("hooks") = 6
  /\ \A call \in MasterDescent : Position(call) \in Int
  /\ Place("next_nEdges_local") = 1 /\ Place("nextEdges") = 2 /\ Place("nEdges") = 3
<1>1. /\ Position("read") = 1 /\ Position("nNodes") = 1 /\ Position("nEdges") = 2
      /\ Position("nEdges_local") = 3 /\ Position("edges_slice") = 4
      /\ Position("barrier") = 4 /\ Position("done") = 4
      /\ Position("labels") = 5 /\ Position("hooks") = 6
  BY DEF Position
<1>2. Place("next_nEdges_local") = 1 /\ Place("nextEdges") = 2 /\ Place("nEdges") = 3
  BY DEF Place
<1> QED
  BY <1>1, <1>2 DEF MasterDescent

LEMMA MessageData ==
  ASSUME NEW call, NEW x
  PROVE  Message(call, x).op = call /\ Message(call, x).data = x
BY DEF Message

LEMMA MessagesAre ==
  ASSUME NEW r
  PROVE  /\ Messages(r)[1] = Message("nNodes", N)
         /\ Messages(r)[2] = Message("nEdges", Len(edges))
         /\ Messages(r)[3] = Message("nEdges_local", Counts[r])
         /\ Messages(r)[4] = Message("edges_slice", Share(r))
         /\ Messages(r)[5] = Message("labels", Unhooked)
         /\ Answers(r)[1] = Message("next_nEdges_local", Len(Left(r)))
         /\ Answers(r)[2] = Message("nextEdges", Left(r))
BY DEF Messages, Answers

-----------------------------------------------------------------------------
(* What is said of the round stays while its edges, the labels of rank 0   *)
(* and its slice stay.                                                     *)
LEMMA SameRound ==
  ASSUME edges' = edges, labels'[0] = labels[0], edges_slice'[0] = edges_slice[0]
  PROVE  /\ Counts' = Counts /\ Unhooked' = Unhooked
         /\ \A r : Share(r)' = Share(r) /\ Left(r)' = Left(r)
         /\ \A r : Messages(r)' = Messages(r) /\ Answers(r)' = Answers(r)
<1>1. Counts' = Counts
  BY DEF Counts
<1>2. Unhooked' = Unhooked
  BY DEF Unhooked
<1>3. \A r : Share(r)' = Share(r)
  BY <1>1 DEF Share
<1>4. \A r : Left(r)' = Left(r)
  BY <1>3 DEF Left
<1>5. \A r : Messages(r)' = Messages(r)
  BY <1>1, <1>2, <1>3 DEF Messages
<1>6. \A r : Answers(r)' = Answers(r)
  BY <1>4 DEF Answers
<1> QED
  BY <1>1, <1>2, <1>3, <1>4, <1>5, <1>6

LEMMA SameMerged ==
  ASSUME edges' = edges, labels'[0] = labels[0], edges_slice'[0] = edges_slice[0],
         pc'[0] = pc[0], input' = input
  PROVE  MergedLabels' = MergedLabels /\ RemainingEdges' = RemainingEdges
<1>1. MergedLabels' = MergedLabels
  BY SameRound DEF MergedLabels
<1>2. RemainingEdges' = RemainingEdges
  BY <1>1 DEF RemainingEdges
<1> QED
  BY <1>1, <1>2

(* A step of rank r leaves everybody else's variables alone.               *)
Local(r) ==
  /\ UNCHANGED <<input, edges, iteration, node, found, next_edges_per_proc>>
  /\ DOMAIN pc' = Rank /\ DOMAIN edges_slice' = Rank /\ DOMAIN labels' = Rank
  /\ DOMAIN nextEdges_local' = Rank
  /\ DOMAIN nEdges' = Slave /\ DOMAIN nEdges_local' = Slave
  /\ DOMAIN down' = Slave /\ DOMAIN up' = Slave
  /\ \A s \in Rank : s # r => /\ pc'[s] = pc[s]
                             /\ edges_slice'[s] = edges_slice[s]
                             /\ labels'[s] = labels[s]
                             /\ nextEdges_local'[s] = nextEdges_local[s]
  /\ \A s \in Slave : s # r => /\ nEdges'[s] = nEdges[s]
                              /\ nEdges_local'[s] = nEdges_local[s]
                              /\ down'[s] = down[s]
                              /\ up'[s] = up[s]

LEMMA SlaveLocal ==
  ASSUME Basics, NEW r \in Slave, SlaveStep(r)
  PROVE  Local(r)
<1> USE DEF Basics, Local, masterVars, slaveVars, rankVars, channels,
            Goto, TakeDown, SendUp
<1>1. CASE SlaveNNodes(r)
  BY <1>1 DEF SlaveNNodes
<1>2. CASE SlaveNEdges(r)
  BY <1>2 DEF SlaveNEdges
<1>3. CASE SlaveScatter(r)
  BY <1>3 DEF SlaveScatter
<1>4. CASE SlaveScatterv(r)
  BY <1>4 DEF SlaveScatterv
<1>5. CASE SlaveHook(r)
  BY <1>5 DEF SlaveHook
<1>6. CASE SlaveReduce(r)
  BY <1>6 DEF SlaveReduce
<1>7. CASE SlaveRelabel(r)
  BY <1>7 DEF SlaveRelabel
<1>8. CASE SlaveGather(r)
  BY <1>8 DEF SlaveGather
<1>9. CASE SlaveGatherv(r)
  BY <1>9 DEF SlaveGatherv
<1> QED
  BY <1>1, <1>2, <1>3, <1>4, <1>5, <1>6, <1>7, <1>8, <1>9 DEF SlaveStep

(* What has to be shown of it is only what is said of r itself.            *)
LEMMA LocalKeeps ==
  ASSUME IInv, NEW r \in Slave, Local(r), Agrees(r)', Told(r)',
         pc'[r] # "done", pc[r] \notin {"barrier", "done"}
  PROVE  IInv'
<1>1. /\ 0 \in Rank /\ 0 # r
      /\ edges' = edges /\ labels'[0] = labels[0] /\ edges_slice'[0] = edges_slice[0]
      /\ pc'[0] = pc[0] /\ input' = input /\ nextEdges_local'[0] = nextEdges_local[0]
      /\ node' = node /\ found' = found /\ iteration' = iteration
      /\ next_edges_per_proc' = next_edges_per_proc
  BY Constants DEF Local
<1>2. /\ Counts' = Counts /\ Unhooked' = Unhooked
      /\ \A s : Share(s)' = Share(s) /\ Left(s)' = Left(s)
      /\ \A s : Messages(s)' = Messages(s) /\ Answers(s)' = Answers(s)
      /\ MergedLabels' = MergedLabels /\ RemainingEdges' = RemainingEdges
  BY <1>1, SameRound, SameMerged
<1>3. Basics'
  BY <1>1 DEF Basics, IInv, Local
<1>4. ASSUME NEW s \in Slave PROVE Agrees(s)' /\ Told(s)'
  <2>1. CASE s = r
    BY <2>1
  <2>2. CASE s # r
    <3>1. /\ pc'[s] = pc[s] /\ down'[s] = down[s] /\ up'[s] = up[s]
          /\ labels'[s] = labels[s] /\ edges_slice'[s] = edges_slice[s]
          /\ nextEdges_local'[s] = nextEdges_local[s]
          /\ nEdges'[s] = nEdges[s] /\ nEdges_local'[s] = nEdges_local[s]
      BY <2>2, Constants DEF Local
    <3>2. Agrees(s) /\ Told(s)
      BY DEF IInv
    <3>3. Following(s)' = Following(s)
      BY <1>1, <1>2, <3>1 DEF Following
    <3>4. Awaiting(s)' = Awaiting(s)
      BY <1>1, <1>2, <3>1 DEF Awaiting
    <3>5. Gathering(s)' = Gathering(s)
      BY <1>1, <1>2, <3>1 DEF Gathering
    <3>6. Told(s)' = Told(s)
      BY <1>1, <1>2, <3>1 DEF Told
    <3> QED
      BY <3>2, <3>3, <3>4, <3>5, <3>6 DEF Agrees
  <2> QED
    BY <2>1, <2>2
<1>5. MasterHolds'
  BY <1>1, <1>2, Zenon DEF MasterHolds, IInv
<1>6. Barrier'
  <2>1. \A s \in Rank : pc[s] # "done"
    BY Constants DEF IInv, Barrier
  <2>2. \A s \in Rank : pc'[s] # "done"
    BY <2>1 DEF Local
  <2> QED
    BY <2>2 DEF Barrier
<1>7. Forests' /\ EndsSettled'
  BY <1>1, <1>2 DEF Forests, EndsSettled, IInv
<1> QED
  BY <1>3, <1>4, <1>5, <1>6, <1>7 DEF IInv

-----------------------------------------------------------------------------
(* A message that is there before the reduction is the next of the round.  *)
LEMMA SlaveTakes ==
  ASSUME IInv, NEW r \in Slave, down[r] # <<>>, pc[r] # "roots"
  PROVE  /\ Following(r)
         /\ Position(pc[r]) \in Int /\ Position(pc[0]) \in Int
         /\ Position(pc[r]) < Position(pc[0])
         /\ Head(down[r]) = Messages(r)[Position(pc[r])]
         /\ Tail(down[r]) = Part(Messages(r), Position(pc[r]) + 1, Position(pc[0]))
<1>1. Following(r)
  BY DEF IInv, Agrees, Awaiting, Gathering
<1>2. Position(pc[r]) \in Int /\ Position(pc[0]) \in Int
  BY <1>1, Positions DEF Following, SlaveDescent
<1>3. /\ Position(pc[r]) <= Position(pc[0])
      /\ down[r] = Part(Messages(r), Position(pc[r]), Position(pc[0]))
  BY <1>1 DEF Following
<1> QED
  BY <1>1, <1>2, <1>3, PartFilled

(* Having taken it, the rank still follows rank 0.                         *)
LEMMA FollowsOn ==
  ASSUME IInv, NEW r \in Slave, Local(r), down[r] # <<>>, pc[r] # "roots",
         pc'[r] \in SlaveDescent, Position(pc'[r]) = Position(pc[r]) + 1,
         down'[r] = Tail(down[r]), up'[r] = up[r],
         pc'[r] \in {"barrier", "done"} => pc[0] \in {"barrier", "done"},
         pc[0] \in {"barrier", "done"} => pc'[r] # "edges_slice"
  PROVE  Following(r)'
<1>1. /\ edges' = edges /\ labels'[0] = labels[0] /\ edges_slice'[0] = edges_slice[0]
      /\ pc'[0] = pc[0]
  BY Constants DEF Local
<1>2. Messages(r)' = Messages(r)
  BY <1>1, SameRound
<1>3. /\ Following(r)
      /\ Position(pc[r]) \in Int /\ Position(pc[0]) \in Int
      /\ Position(pc[r]) < Position(pc[0])
      /\ Tail(down[r]) = Part(Messages(r), Position(pc[r]) + 1, Position(pc[0]))
  BY SlaveTakes
<1>4. up[r] = <<>> /\ pc[0] \in MasterDescent
  BY <1>3 DEF Following
<1>5. Position(pc'[r]) <= Position(pc[0])
  BY <1>3
<1>6. down'[r] = Part(Messages(r), Position(pc'[r]), Position(pc[0]))
  BY <1>3
<1> QED
  BY <1>1, <1>2, <1>4, <1>5, <1>6 DEF Following

LEMMA SlaveNNodesKeeps ==
  ASSUME IInv, NEW r \in Slave, SlaveNNodes(r)
  PROVE  IInv'
<1>1. Local(r)
  BY SlaveLocal DEF IInv, SlaveStep
<1>2. r \in Rank /\ r # 0 /\ DOMAIN pc = Rank /\ DOMAIN down = Slave
  BY Constants DEF IInv, Basics
<1>3. /\ pc[r] = "nNodes" /\ pc'[r] = "nEdges" /\ down[r] # <<>>
      /\ down'[r] = Tail(down[r]) /\ up'[r] = up[r]
  BY <1>2 DEF SlaveNNodes, Goto, TakeDown
<1>4. Following(r)'
  BY <1>1, <1>3, FollowsOn, Positions DEF SlaveDescent, MasterDescent
<1>5. Told(r)'
  BY <1>3 DEF Told
<1> QED
  BY <1>1, <1>3, <1>4, <1>5, LocalKeeps DEF Agrees

LEMMA SlaveNEdgesKeeps ==
  ASSUME IInv, NEW r \in Slave, SlaveNEdges(r)
  PROVE  IInv'
<1>1. Local(r)
  BY SlaveLocal DEF IInv, SlaveStep
<1>2. /\ r \in Rank /\ r # 0 /\ DOMAIN pc = Rank /\ DOMAIN down = Slave
      /\ DOMAIN nEdges = Slave
  BY Constants DEF IInv, Basics
<1>3. /\ pc[r] = "nEdges" /\ pc'[r] = "nEdges_local" /\ down[r] # <<>>
      /\ down'[r] = Tail(down[r]) /\ up'[r] = up[r]
      /\ nEdges'[r] = Head(down[r]).data
  BY <1>2 DEF SlaveNEdges, Goto, TakeDown
<1>4. Following(r)'
  BY <1>1, <1>3, FollowsOn, Positions DEF SlaveDescent, MasterDescent
<1>5. Head(down[r]).data = Len(edges)
  <2>1. Head(down[r]) = Messages(r)[2]
    BY <1>3, SlaveTakes, Positions
  <2> QED
    BY <2>1, MessagesAre, MessageData
<1>6. Told(r)'
  BY <1>1, <1>3, <1>5 DEF Told, Local
<1> QED
  BY <1>1, <1>3, <1>4, <1>6, LocalKeeps DEF Agrees

(* The base cases agree: rank 0 is at the barrier iff no edge is left.     *)
LEMMA SlaveScatterKeeps ==
  ASSUME IInv, NEW r \in Slave, SlaveScatter(r)
  PROVE  IInv'
<1>1. Local(r)
  BY SlaveLocal DEF IInv, SlaveStep
<1>2. /\ r \in Rank /\ r # 0 /\ DOMAIN pc = Rank /\ DOMAIN down = Slave
      /\ DOMAIN nEdges_local = Slave /\ edges \in Seq(ProperEdge)
  BY Constants DEF IInv, Basics
<1>3. /\ pc[r] = "nEdges_local" /\ down[r] # <<>>
      /\ pc'[r] = (IF nEdges[r] = 0 THEN "barrier" ELSE "edges_slice")
      /\ down'[r] = Tail(down[r]) /\ up'[r] = up[r]
      /\ nEdges_local'[r] = Head(down[r]).data
  BY <1>2 DEF SlaveScatter, Goto, TakeDown
<1>4. /\ Following(r) /\ Position(pc[0]) \in Int /\ 3 < Position(pc[0])
      /\ Head(down[r]) = Messages(r)[3]
  BY <1>3, SlaveTakes, Positions
<1>5. nEdges[r] = Len(edges)
  BY <1>3 DEF IInv, Told
<1>6. pc[0] \in {"edges_slice", "labels", "hooks", "barrier", "done"}
  BY <1>4, Positions DEF Following, MasterDescent
<1>7. nEdges[r] = 0 <=> pc[0] \in {"barrier", "done"}
  <2>1. MasterHolds
    BY DEF IInv
  <2>2. CASE pc[0] \in {"barrier", "done"}
    BY <1>5, <2>1, <2>2 DEF MasterHolds
  <2>3. CASE pc[0] \in {"edges_slice", "labels", "hooks"}
    <3>1. edges # <<>>
      BY <2>1, <2>3 DEF MasterHolds
    <3> QED
      BY <1>2, <1>5, <2>3, <3>1
  <2> QED
    BY <1>6, <2>2, <2>3
<1>8. Following(r)'
  <2>1. pc'[r] \in SlaveDescent /\ Position(pc'[r]) = Position(pc[r]) + 1
    BY <1>3, Positions DEF SlaveDescent, MasterDescent
  <2>2. pc'[r] \in {"barrier", "done"} => pc[0] \in {"barrier", "done"}
    BY <1>3, <1>7
  <2>3. pc[0] \in {"barrier", "done"} => pc'[r] # "edges_slice"
    BY <1>3, <1>7
  <2> QED
    BY <1>1, <1>3, <2>1, <2>2, <2>3, FollowsOn
<1>9. Told(r)'
  <2>1. edges' = edges /\ labels'[0] = labels[0] /\ edges_slice'[0] = edges_slice[0]
    BY <1>1, Constants DEF Local
  <2>2. Counts' = Counts
    BY <2>1, SameRound
  <2>3. nEdges_local'[r] = Counts[r]
    BY <1>3, <1>4, MessagesAre, MessageData
  <2> QED
    BY <1>3, <2>2, <2>3 DEF Told
<1> QED
  BY <1>1, <1>3, <1>8, <1>9, LocalKeeps DEF Agrees

LEMMA SlaveScattervKeeps ==
  ASSUME IInv, NEW r \in Slave, SlaveScatterv(r)
  PROVE  IInv'
<1>1. Local(r)
  BY SlaveLocal DEF IInv, SlaveStep
<1>2. /\ r \in Rank /\ r # 0 /\ DOMAIN pc = Rank /\ DOMAIN down = Slave
      /\ DOMAIN edges_slice = Rank
  BY Constants DEF IInv, Basics
<1>3. /\ pc[r] = "edges_slice" /\ pc'[r] = "labels" /\ down[r] # <<>>
      /\ down'[r] = Tail(down[r]) /\ up'[r] = up[r]
      /\ edges_slice'[r] = Head(down[r]).data
  BY <1>2 DEF SlaveScatterv, Goto, TakeDown
<1>4. Following(r)'
  BY <1>1, <1>3, FollowsOn, Positions DEF SlaveDescent, MasterDescent
<1>5. Head(down[r]).data = Share(r)
  <2>1. Head(down[r]) = Messages(r)[4]
    BY <1>3, SlaveTakes, Positions
  <2> QED
    BY <2>1, MessagesAre, MessageData
<1>6. Share(r)' = Share(r)
  BY <1>1, Constants, SameRound DEF Local
<1>7. Told(r)'
  BY <1>3, <1>5, <1>6 DEF Told
<1> QED
  BY <1>1, <1>3, <1>4, <1>7, LocalKeeps DEF Agrees

LEMMA SlaveHookKeeps ==
  ASSUME IInv, NEW r \in Slave, SlaveHook(r)
  PROVE  IInv'
<1>1. Local(r)
  BY SlaveLocal DEF IInv, SlaveStep
<1>2. /\ r \in Rank /\ r # 0 /\ DOMAIN pc = Rank /\ DOMAIN down = Slave
      /\ DOMAIN labels = Rank
  BY Constants DEF IInv, Basics
<1>3. /\ pc[r] = "labels" /\ pc'[r] = "hooks" /\ down[r] # <<>>
      /\ down'[r] = Tail(down[r]) /\ up'[r] = up[r]
      /\ edges_slice'[r] = edges_slice[r]
      /\ labels'[r] = hook_nodes(edges_slice[r], Head(down[r]).data)
  BY <1>2 DEF SlaveHook, Goto, TakeDown
<1>4. Following(r)'
  BY <1>1, <1>3, FollowsOn, Positions DEF SlaveDescent, MasterDescent
<1>5. Head(down[r]).data = Unhooked
  <2>1. Head(down[r]) = Messages(r)[5]
    BY <1>3, SlaveTakes, Positions
  <2> QED
    BY <2>1, MessagesAre, MessageData
<1>6. Share(r)' = Share(r) /\ Unhooked' = Unhooked
  BY <1>1, Constants, SameRound DEF Local
<1>7. edges_slice[r] = Share(r)
  BY <1>3 DEF IInv, Told
<1>8. Told(r)'
  BY <1>3, <1>5, <1>6, <1>7 DEF Told
<1> QED
  BY <1>1, <1>3, <1>4, <1>8, LocalKeeps DEF Agrees

LEMMA SlaveReduceKeeps ==
  ASSUME IInv, NEW r \in Slave, SlaveReduce(r)
  PROVE  IInv'
<1>1. Local(r)
  BY SlaveLocal DEF IInv, SlaveStep
<1>2. r \in Rank /\ r # 0 /\ 0 \in Rank /\ DOMAIN pc = Rank /\ DOMAIN up = Slave
  BY Constants DEF IInv, Basics
<1>3. /\ pc[r] = "hooks" /\ pc'[r] = "roots" /\ down'[r] = down[r]
      /\ up'[r] = Append(up[r], Message("hooks", labels[r]))
      /\ edges_slice'[r] = edges_slice[r] /\ labels'[r] = labels[r]
  BY <1>2 DEF SlaveReduce, Goto, SendUp, Message, rankVars
<1>4. Following(r) /\ Told(r)
  BY <1>3 DEF IInv, Agrees, Awaiting, Gathering, Relabelling
<1>5. pc[0] = "hooks"
  BY <1>3, <1>4, Positions DEF Following, MasterDescent
<1>6. down[r] = <<>> /\ up[r] = <<>>
  BY <1>3, <1>4, <1>5, Positions, PartEmpty DEF Following
<1>7. pc'[0] = "hooks"
  BY <1>1, <1>2, <1>5 DEF Local
<1>8. Awaiting(r)'
  <2>1. up'[r] = <<Message("hooks", labels'[r])>>
    BY <1>3, <1>6
  <2> QED
    BY <1>3, <1>6, <1>7, <2>1 DEF Awaiting
<1>9. Told(r)'
  <2>1. Share(r)' = Share(r) /\ Unhooked' = Unhooked
    BY <1>1, Constants, SameRound DEF Local
  <2> QED
    BY <1>3, <1>4, <1>5, <2>1 DEF Told
<1> QED
  BY <1>1, <1>3, <1>8, <1>9, LocalKeeps DEF Agrees

LEMMA SlaveRelabelKeeps ==
  ASSUME IInv, NEW r \in Slave, SlaveRelabel(r)
  PROVE  IInv'
<1>1. Local(r)
  BY SlaveLocal DEF IInv, SlaveStep
<1>2. /\ r \in Rank /\ r # 0 /\ 0 \in Rank /\ DOMAIN pc = Rank /\ DOMAIN down = Slave
      /\ DOMAIN nextEdges_local = Rank
  BY Constants DEF IInv, Basics
<1>3. /\ pc[r] = "roots" /\ pc'[r] = "next_nEdges_local" /\ down[r] # <<>>
      /\ down'[r] = Tail(down[r]) /\ up'[r] = up[r]
      /\ nextEdges_local'[r] = compute_next_edges(edges_slice[r], Head(down[r]).data)
  BY <1>2 DEF SlaveRelabel, Goto, TakeDown
<1>4. Awaiting(r) /\ Told(r)
  BY <1>3 DEF IInv, Agrees, Following, SlaveDescent, MasterDescent, Gathering, Relabelling
<1>5. /\ pc[0] = "next_nEdges_local" /\ up[r] = <<>>
      /\ down[r] = <<Message("roots", labels[0])>>
  BY <1>3, <1>4 DEF Awaiting
<1>6. Head(down[r]).data = labels[0] /\ Tail(down[r]) = <<>>
  <2>1. Head(down[r]) = Message("roots", labels[0]) /\ Tail(down[r]) = <<>>
    BY <1>5
  <2> QED
    BY <2>1, MessageData
<1>7. nextEdges_local'[r] = Left(r)
  BY <1>3, <1>4, <1>6 DEF Told, Left
<1>8. pc'[0] = "next_nEdges_local" /\ Left(r)' = Left(r)
  BY <1>1, <1>2, <1>5, SameRound DEF Local
<1>9. Gathering(r)'
  <2>1. up'[r] = Part(Answers(r)', Place(pc'[0]), Place(pc'[r]))
    BY <1>3, <1>5, <1>8, PartEmpty, Positions
  <2> QED
    BY <1>3, <1>6, <1>7, <1>8, <2>1, Positions DEF Gathering, Relabelling
<1>10. Told(r)'
  BY <1>3 DEF Told
<1> QED
  BY <1>1, <1>3, <1>9, <1>10, LocalKeeps DEF Agrees

LEMMA SlaveGatherKeeps ==
  ASSUME IInv, NEW r \in Slave, SlaveGather(r)
  PROVE  IInv'
<1>1. Local(r)
  BY SlaveLocal DEF IInv, SlaveStep
<1>2. r \in Rank /\ r # 0 /\ 0 \in Rank /\ DOMAIN pc = Rank /\ DOMAIN up = Slave
  BY Constants DEF IInv, Basics
<1>3. /\ pc[r] = "next_nEdges_local" /\ pc'[r] = "nextEdges" /\ down'[r] = down[r]
      /\ up'[r] = Append(up[r], Message("next_nEdges_local", Len(nextEdges_local[r])))
      /\ nextEdges_local'[r] = nextEdges_local[r]
  BY <1>2 DEF SlaveGather, Goto, SendUp, Message, rankVars
<1>4. Gathering(r)
  BY <1>3 DEF IInv, Agrees, Following, SlaveDescent, MasterDescent, Awaiting
<1>5. pc[0] = "next_nEdges_local" /\ up[r] = Part(Answers(r), 1, 1)
  BY <1>3, <1>4, Positions DEF Gathering, Relabelling
<1>6. /\ pc'[0] = pc[0] /\ Left(r)' = Left(r) /\ Answers(r)' = Answers(r)
  BY <1>1, <1>2, SameRound DEF Local
<1>7. up'[r] = Append(Part(Answers(r), 1, 1), Answers(r)[1])
  <2>1. Answers(r)[1] = Message("next_nEdges_local", Len(Left(r)))
    BY MessagesAre
  <2> QED
    BY <1>3, <1>4, <1>5, <2>1 DEF Gathering
<1>8. up'[r] = Part(Answers(r), 1, 2)
  BY <1>7, PartSend
<1>9. Gathering(r)'
  BY <1>3, <1>4, <1>5, <1>6, <1>8, Positions DEF Gathering, Relabelling
<1>10. Told(r)'
  BY <1>3 DEF Told
<1> QED
  BY <1>1, <1>3, <1>9, <1>10, LocalKeeps DEF Agrees

LEMMA SlaveGathervKeeps ==
  ASSUME IInv, NEW r \in Slave, SlaveGatherv(r)
  PROVE  IInv'
<1>1. Local(r)
  BY SlaveLocal DEF IInv, SlaveStep
<1>2. r \in Rank /\ r # 0 /\ 0 \in Rank /\ DOMAIN pc = Rank /\ DOMAIN up = Slave
  BY Constants DEF IInv, Basics
<1>3. /\ pc[r] = "nextEdges" /\ pc'[r] = "nEdges" /\ down'[r] = down[r]
      /\ up'[r] = Append(up[r], Message("nextEdges", nextEdges_local[r]))
      /\ nextEdges_local'[r] = nextEdges_local[r]
  BY <1>2 DEF SlaveGatherv, Goto, SendUp, Message, rankVars
<1>4. Gathering(r)
  BY <1>3 DEF IInv, Agrees, Following, SlaveDescent, MasterDescent, Awaiting
<1>5. /\ pc[0] \in Relabelling /\ Place(pc[0]) \in {1, 2}
      /\ up[r] = Part(Answers(r), Place(pc[0]), 2)
  BY <1>3, <1>4, Positions DEF Gathering, Relabelling
<1>6. /\ pc'[0] = pc[0] /\ Left(r)' = Left(r) /\ Answers(r)' = Answers(r)
  BY <1>1, <1>2, SameRound DEF Local
<1>7. up'[r] = Append(Part(Answers(r), Place(pc[0]), 2), Answers(r)[2])
  <2>1. Answers(r)[2] = Message("nextEdges", Left(r))
    BY MessagesAre
  <2> QED
    BY <1>3, <1>4, <1>5, <2>1 DEF Gathering
<1>8. up'[r] = Part(Answers(r), Place(pc[0]), 3)
  <2>1. Place(pc[0]) \in Int /\ Place(pc[0]) <= 2 /\ 2 \in Int /\ 2 + 1 = 3
    BY <1>5
  <2>2. Append(Part(Answers(r), Place(pc[0]), 2), Answers(r)[2]) = Part(Answers(r), Place(pc[0]), 2 + 1)
    BY <2>1, PartSend
  <2> QED
    BY <1>7, <2>1, <2>2
<1>9. Gathering(r)'
  BY <1>3, <1>4, <1>5, <1>6, <1>8, Positions DEF Gathering, Relabelling
<1>10. Told(r)'
  BY <1>3 DEF Told
<1> QED
  BY <1>1, <1>3, <1>9, <1>10, LocalKeeps DEF Agrees

(* The barrier changes only who is past it.                                *)
LEMMA FinalizeKeeps ==
  ASSUME IInv, NEW r \in Rank, Finalize(r)
  PROVE  IInv'
<1>1. 0 \in Rank /\ DOMAIN pc = Rank /\ \A s \in Slave : s \in Rank /\ s # 0
  BY Constants DEF IInv, Basics
<1>2. /\ pc[r] = "barrier" /\ \A s \in Rank : pc[s] \in {"barrier", "done"}
      /\ pc' = [pc EXCEPT ![r] = "done"]
      /\ UNCHANGED <<input, masterVars, slaveVars, rankVars, channels>>
  BY DEF Finalize, Goto
<1>3. /\ DOMAIN pc' = Rank /\ \A s \in Rank : pc'[s] \in {"barrier", "done"}
  BY <1>1, <1>2
<1>4. /\ edges' = edges /\ labels'[0] = labels[0] /\ edges_slice'[0] = edges_slice[0]
      /\ input' = input
  BY <1>2 DEF masterVars, rankVars
<1>5. \A s : Messages(s)' = Messages(s)
  BY <1>4, SameRound
<1>6. MergedLabels' = MergedLabels /\ RemainingEdges' = RemainingEdges
  BY <1>1, <1>2, <1>3, <1>4 DEF MergedLabels, RemainingEdges
<1>7. Basics'
  BY <1>1, <1>2, <1>3 DEF IInv, Basics, masterVars, slaveVars, rankVars, channels, MasterDescent
<1>8. ASSUME NEW s \in Slave PROVE Agrees(s)' /\ Told(s)'
  <2>1. /\ pc[0] \in {"barrier", "done"} /\ pc'[0] \in {"barrier", "done"}
        /\ pc[s] \in {"barrier", "done"} /\ pc'[s] \in {"barrier", "done"}
    BY <1>1, <1>2, <1>3
  <2>2. Following(s)
    BY <2>1 DEF IInv, Agrees, Awaiting, Gathering, Relabelling
  <2>3. down'[s] = down[s] /\ up'[s] = up[s]
    BY <1>2 DEF channels
  <2>4. /\ Position(pc[0]) = 4 /\ Position(pc'[0]) = 4
        /\ Position(pc[s]) = 4 /\ Position(pc'[s]) = 4
    BY <2>1, Positions
  <2>5. Following(s)'
    BY <1>5, <2>1, <2>2, <2>3, <2>4 DEF Following, SlaveDescent, MasterDescent
  <2> QED
    BY <2>1, <2>5 DEF Agrees, Told
<1>9. MasterHolds'
  <2>1. edges = <<>>
    BY <1>1, <1>2 DEF IInv, MasterHolds
  <2> QED
    BY <1>1, <1>3, <1>4, <2>1 DEF MasterHolds, Relabelling
<1>10. Barrier'
  BY <1>3 DEF Barrier
<1>11. Forests' /\ EndsSettled'
  <2>1. /\ pc[0] \in {"barrier", "done"} /\ pc'[0] \in {"barrier", "done"}
    BY <1>1, <1>2, <1>3
  <2> QED
    BY <1>4, <1>6, <2>1 DEF IInv, Forests, EndsSettled, MasterDescent
<1> QED
  BY <1>7, <1>8, <1>9, <1>10, <1>11 DEF IInv

-----------------------------------------------------------------------------
(* A step of rank 0 leaves the variables of the other ranks alone, but for *)
(* the channels.                                                           *)
MasterOnly ==
  /\ UNCHANGED <<input, nEdges, nEdges_local>>
  /\ DOMAIN pc' = Rank /\ DOMAIN edges_slice' = Rank /\ DOMAIN labels' = Rank
  /\ DOMAIN nextEdges_local' = Rank
  /\ DOMAIN down' = Slave /\ DOMAIN up' = Slave
  /\ \A s \in Slave : /\ pc'[s] = pc[s]
                      /\ edges_slice'[s] = edges_slice[s]
                      /\ labels'[s] = labels[s]
                      /\ nextEdges_local'[s] = nextEdges_local[s]

LEMMA MasterLocal ==
  ASSUME Basics, MasterStep
  PROVE  MasterOnly
<1>1. /\ 0 \in Rank /\ \A s \in Slave : s \in Rank /\ s # 0
      /\ DOMAIN pc = Rank /\ DOMAIN edges_slice = Rank /\ DOMAIN labels = Rank
      /\ DOMAIN nextEdges_local = Rank /\ DOMAIN down = Slave /\ DOMAIN up = Slave
  BY Constants DEF Basics
<1> USE DEF MasterOnly, masterVars, slaveVars, rankVars, channels,
            Goto, SendDown, BcastDown, TakeUp
<1>2. CASE ReadGraph
  BY <1>1, <1>2 DEF ReadGraph
<1>3. CASE MasterNNodes
  BY <1>1, <1>3 DEF MasterNNodes
<1>4. CASE MasterNEdges
  BY <1>1, <1>4 DEF MasterNEdges
<1>5. CASE MasterScatter
  BY <1>1, <1>5 DEF MasterScatter
<1>6. CASE MasterScatterv
  BY <1>1, <1>6 DEF MasterScatterv
<1>7. CASE MasterHook
  BY <1>1, <1>7 DEF MasterHook
<1>8. CASE MasterReduce
  BY <1>1, <1>8 DEF MasterReduce
<1>9. CASE FindRootsStep
  BY <1>1, <1>9 DEF FindRootsStep
<1>10. CASE FindRootsAgain
  BY <1>1, <1>10 DEF FindRootsAgain
<1>11. CASE FindRootsReturn
  BY <1>1, <1>11 DEF FindRootsReturn
<1>12. CASE MasterRelabel
  BY <1>1, <1>12 DEF MasterRelabel
<1>13. CASE MasterGather
  BY <1>1, <1>13 DEF MasterGather
<1>14. CASE MasterGatherv
  BY <1>1, <1>14 DEF MasterGatherv
<1> QED
  BY <1>2, <1>3, <1>4, <1>5, <1>6, <1>7, <1>8, <1>9, <1>10, <1>11, <1>12, <1>13, <1>14
     DEF MasterStep

(* Nobody is past the barrier while rank 0 has not come to it.             *)
LEMMA BarrierKeeps ==
  ASSUME IInv, MasterOnly, pc[0] \notin {"barrier", "done"}, pc'[0] # "done"
  PROVE  Barrier'
<1>1. \A s \in Rank : pc[s] # "done"
  BY Constants DEF IInv, Barrier
<1>2. \A s \in Rank : pc'[s] # "done"
  BY <1>1, Constants DEF MasterOnly
<1> QED
  BY <1>2 DEF Barrier

(* Rank 0 sends the next message of the round.                             *)
LEMMA MasterSends ==
  ASSUME IInv, MasterOnly,
         pc[0] \in {"nNodes", "nEdges", "nEdges_local", "edges_slice", "labels"},
         pc'[0] \in MasterDescent, Position(pc'[0]) = Position(pc[0]) + 1,
         edges' = edges, up' = up,
         \A s \in Slave : down'[s] = Append(down[s], Messages(s)'[Position(pc[0])]),
         pc[0] = "labels" => Unhooked' = labels[0]
  PROVE  \A s \in Slave : Agrees(s)' /\ Told(s)'
<1> SUFFICES ASSUME NEW s \in Slave PROVE Agrees(s)' /\ Told(s)'
  OBVIOUS
<1>1. Following(s) /\ Told(s)
  BY DEF IInv, Agrees, Awaiting, Gathering, Relabelling
<1>2. pc'[s] = pc[s]
  BY DEF MasterOnly
<1>3. /\ Position(pc[s]) \in Int /\ Position(pc[0]) \in Int /\ Position(pc'[0]) \in Int
      /\ Position(pc[s]) >= 1
      /\ pc[0] # "labels" => Position(pc[0]) <= 4
      /\ pc[0] = "labels" => Position(pc[0]) = 5
  BY <1>1, Positions DEF Following, SlaveDescent, MasterDescent
<1>4. Counts' = Counts /\ Share(s)' = Share(s)
  BY DEF Counts, Share
<1>5. \A k \in Int : 1 <= k /\ k <= 4 => Messages(s)'[k] = Messages(s)[k]
  <2>1. /\ Messages(s)'[1] = Messages(s)[1] /\ Messages(s)'[2] = Messages(s)[2]
        /\ Messages(s)'[3] = Messages(s)[3] /\ Messages(s)'[4] = Messages(s)[4]
    BY <1>4 DEF Messages
  <2> QED
    BY <2>1
<1>6. Part(Messages(s), Position(pc[s]), Position(pc[0]))
        = Part(Messages(s)', Position(pc[s]), Position(pc[0]))
  <2>1. \A k \in Int : Position(pc[s]) <= k /\ k < Position(pc[0]) =>
                         Messages(s)[k] = Messages(s)'[k]
    BY <1>3, <1>5
  <2> QED
    BY <1>3, <2>1, PartSame
<1>7. down'[s] = Append(Part(Messages(s)', Position(pc[s]), Position(pc[0])),
                        Messages(s)'[Position(pc[0])])
  BY <1>1, <1>6 DEF Following
<1>8. Position(pc[s]) <= Position(pc[0])
  BY <1>1 DEF Following
<1>9. down'[s] = Part(Messages(s)', Position(pc[s]), Position(pc'[0]))
  BY <1>3, <1>7, <1>8, PartSend
<1>10. pc[s] \notin {"barrier", "done"}
  BY <1>1 DEF Following
<1>11. Following(s)'
  <2>1. up'[s] = <<>>
    BY <1>1 DEF Following
  <2>2. pc'[0] \in {"barrier", "done"} => pc'[s] # "edges_slice"
    BY <1>2, <1>3, <1>8, Positions
  <2> QED
    BY <1>1, <1>2, <1>3, <1>8, <1>9, <1>10, <2>1, <2>2 DEF Following
<1>12. Told(s)'
  <2>1. pc'[0] = "hooks" => pc[s] \notin {"hooks", "roots"}
    BY <1>1, <1>3, <1>8, Positions DEF Following, SlaveDescent, MasterDescent
  <2> QED
    BY <1>1, <1>2, <1>4, <2>1 DEF Told, MasterOnly
<1> QED
  BY <1>11, <1>12 DEF Agrees

LEMMA ReadGraphKeeps ==
  ASSUME IInv, ReadGraph
  PROVE  IInv'
<1>1. MasterOnly
  BY MasterLocal DEF IInv, MasterStep
<1>2. /\ 0 \in Rank /\ DOMAIN pc = Rank /\ DOMAIN labels = Rank /\ N \in Nat /\ N # 0
      /\ \A v \in Node : v \in Int
  BY Constants DEF IInv, Basics
<1>3. /\ pc[0] = "read" /\ pc'[0] = "nNodes"
      /\ edges' = ReadEdges(input) /\ labels'[0] = [v \in Node |-> v]
      /\ UNCHANGED <<input, iteration, node, found, next_edges_per_proc, nEdges,
                     nEdges_local, edges_slice, nextEdges_local, down, up>>
  BY <1>2 DEF ReadGraph, Goto, slaveVars, channels
<1>4. edges' \in Seq({e \in Edge(Node) : e.from < e.to})
  <2>1. input \in Seq(Edge(Node))
    BY ConstantAssumption DEF IInv, Basics
  <2> QED
    BY <1>3, <2>1, Constants, ReadEdgesType
<1>5. edges' \in Seq(ProperEdge)
  <2>1. {e \in Edge(Node) : e.from < e.to} \subseteq ProperEdge
    BY <1>2 DEF ProperEdge, Edge
  <2> QED
    BY <1>4, <2>1
<1>6. Basics'
  BY <1>1, <1>3, <1>5 DEF IInv, Basics, MasterOnly, MasterDescent
<1>7. ASSUME NEW s \in Slave PROVE Agrees(s)' /\ Told(s)'
  <2>1. Following(s)
    BY <1>3 DEF IInv, Agrees, Awaiting, Gathering, Relabelling
  <2>2. pc[s] = "nNodes"
    BY <1>3, <2>1, Positions DEF Following, SlaveDescent, MasterDescent
  <2>3. down[s] = <<>> /\ up[s] = <<>>
    BY <1>3, <2>1, <2>2, Positions, PartEmpty DEF Following
  <2>4. pc'[s] = "nNodes"
    BY <1>1, <2>2 DEF MasterOnly
  <2>5. down'[s] = Part(Messages(s)', 1, 1) /\ up'[s] = <<>>
    BY <1>3, <2>3, PartEmpty
  <2> QED
    BY <1>3, <2>4, <2>5, Positions DEF Agrees, Following, Told, SlaveDescent, MasterDescent
<1>8. MasterHolds'
  BY <1>3 DEF MasterHolds, Relabelling
<1>9. Barrier'
  BY <1>1, <1>3, BarrierKeeps
<1>10. MergedLabels' = [v \in Node |-> v] /\ RemainingEdges' = edges'
  BY <1>3 DEF MergedLabels, RemainingEdges
<1>11. Forests'
  <2>1. Upwards(Node, [v \in Node |-> v])
    BY <1>2 DEF Upwards
  <2> QED
    BY <1>3, <1>10, <2>1 DEF Forests
<1>12. EndsSettled'
  <2>1. \A k \in DOMAIN edges' : edges'[k] \in ProperEdge
    BY <1>5
  <2>2. \A k \in DOMAIN edges' : edges'[k].from \in Node /\ edges'[k].to \in Node
    BY <2>1, ProperEnds
  <2> QED
    BY <1>10, <2>2 DEF EndsSettled
<1> QED
  BY <1>6, <1>7, <1>8, <1>9, <1>11, <1>12 DEF IInv

(* The broadcasts and scatters of a round: the labels are those of the     *)
(* round, and the edges are still to be merged.                            *)
Quiet == {"nNodes", "nEdges", "nEdges_local", "edges_slice", "labels", "barrier", "done"}

LEMMA QuietKeeps ==
  ASSUME IInv, pc[0] \in Quiet, pc'[0] \in Quiet, labels'[0] = labels[0], edges' = edges
  PROVE  Forests' /\ EndsSettled'
<1>1. MergedLabels' = MergedLabels /\ RemainingEdges' = RemainingEdges
  BY DEF Quiet, MergedLabels, RemainingEdges
<1>2. /\ pc[0] # "read" /\ pc'[0] # "find_roots" /\ pc[0] \in MasterDescent
  BY DEF Quiet, MasterDescent
<1>3. Forests'
  BY <1>1, <1>2 DEF Forests, IInv
<1>4. EndsSettled'
  BY <1>1, <1>2 DEF EndsSettled, IInv
<1> QED
  BY <1>3, <1>4

LEMMA MasterNNodesKeeps ==
  ASSUME IInv, MasterNNodes
  PROVE  IInv'
<1>1. MasterOnly
  BY MasterLocal DEF IInv, MasterStep
<1>2. 0 \in Rank /\ DOMAIN pc = Rank /\ \A s \in Slave : s \in Rank
  BY Constants DEF IInv, Basics
<1>3. /\ pc[0] = "nNodes" /\ pc'[0] = "nEdges"
      /\ UNCHANGED <<input, edges, iteration, node, found, next_edges_per_proc, nEdges,
                     nEdges_local, edges_slice, labels, nextEdges_local, up>>
      /\ \A s \in Slave : down'[s] = Append(down[s], Message("nNodes", N))
  BY <1>2 DEF MasterNNodes, Goto, BcastDown, SendDown, Message, masterVars, slaveVars, rankVars
<1>4. Basics'
  BY <1>1, <1>3 DEF IInv, Basics, MasterOnly, MasterDescent
<1>5. \A s \in Slave : Agrees(s)' /\ Told(s)'
  <2>1. \A s : Messages(s)'[1] = Message("nNodes", N)
    BY DEF Messages
  <2>2. Position(pc[0]) = 1 /\ Position(pc'[0]) = 2 /\ pc'[0] \in MasterDescent
    BY <1>3, Positions DEF MasterDescent
  <2> QED
    BY <1>1, <1>3, <2>1, <2>2, MasterSends
<1>6. MasterHolds'
  BY <1>3 DEF MasterHolds, Relabelling
<1>7. Barrier'
  BY <1>1, <1>3, BarrierKeeps
<1>8. Forests' /\ EndsSettled'
  BY <1>3, QuietKeeps DEF Quiet
<1> QED
  BY <1>4, <1>5, <1>6, <1>7, <1>8 DEF IInv

LEMMA MasterNEdgesKeeps ==
  ASSUME IInv, MasterNEdges
  PROVE  IInv'
<1>1. MasterOnly
  BY MasterLocal DEF IInv, MasterStep
<1>2. 0 \in Rank /\ DOMAIN pc = Rank /\ \A s \in Slave : s \in Rank
  BY Constants DEF IInv, Basics
<1>3. /\ pc[0] = "nEdges" /\ pc'[0] = "nEdges_local" /\ iteration' = iteration + 1
      /\ UNCHANGED <<input, edges, node, found, next_edges_per_proc, nEdges,
                     nEdges_local, edges_slice, labels, nextEdges_local, up>>
      /\ \A s \in Slave : down'[s] = Append(down[s], Message("nEdges", Len(edges)))
  BY <1>2 DEF MasterNEdges, Goto, BcastDown, SendDown, Message, slaveVars, rankVars
<1>4. Basics'
  BY <1>1, <1>3 DEF IInv, Basics, MasterOnly, MasterDescent
<1>5. \A s \in Slave : Agrees(s)' /\ Told(s)'
  <2>1. \A s : Messages(s)'[2] = Message("nEdges", Len(edges))
    BY <1>3 DEF Messages
  <2>2. Position(pc[0]) = 2 /\ Position(pc'[0]) = 3 /\ pc'[0] \in MasterDescent
    BY <1>3, Positions DEF MasterDescent
  <2> QED
    BY <1>1, <1>3, <2>1, <2>2, MasterSends
<1>6. MasterHolds'
  BY <1>3 DEF MasterHolds, Relabelling
<1>7. Barrier'
  BY <1>1, <1>3, BarrierKeeps
<1>8. Forests' /\ EndsSettled'
  BY <1>3, QuietKeeps DEF Quiet
<1> QED
  BY <1>4, <1>5, <1>6, <1>7, <1>8 DEF IInv

LEMMA MasterScatterKeeps ==
  ASSUME IInv, MasterScatter
  PROVE  IInv'
<1>1. MasterOnly
  BY MasterLocal DEF IInv, MasterStep
<1>2. /\ 0 \in Rank /\ DOMAIN pc = Rank /\ \A s \in Slave : s \in Rank
      /\ edges \in Seq(ProperEdge)
  BY Constants DEF IInv, Basics
<1>3. /\ pc[0] = "nEdges_local"
      /\ pc'[0] = (IF Len(edges) = 0 THEN "barrier" ELSE "edges_slice")
      /\ UNCHANGED <<input, edges, iteration, node, found, next_edges_per_proc, nEdges,
                     nEdges_local, edges_slice, labels, nextEdges_local, up>>
      /\ \A s \in Slave : down'[s] = Append(down[s], Message("nEdges_local", Counts[s]))
  BY <1>2 DEF MasterScatter, Goto, SendDown, Message, Counts, masterVars, slaveVars, rankVars
<1>4. Basics'
  BY <1>1, <1>3 DEF IInv, Basics, MasterOnly, MasterDescent
<1>5. \A s \in Slave : Agrees(s)' /\ Told(s)'
  <2>1. \A s : Messages(s)'[3] = Message("nEdges_local", Counts[s])
    BY <1>3 DEF Messages, Counts
  <2>2. Position(pc[0]) = 3 /\ Position(pc'[0]) = 4 /\ pc'[0] \in MasterDescent
    BY <1>3, Positions DEF MasterDescent
  <2> QED
    BY <1>1, <1>3, <2>1, <2>2, MasterSends
<1>6. MasterHolds'
  <2>1. Len(edges) = 0 <=> edges = <<>>
    BY <1>2
  <2> QED
    BY <1>3, <2>1 DEF MasterHolds, Relabelling
<1>7. Barrier'
  BY <1>1, <1>3, BarrierKeeps
<1>8. Forests' /\ EndsSettled'
  BY <1>3, QuietKeeps DEF Quiet
<1> QED
  BY <1>4, <1>5, <1>6, <1>7, <1>8 DEF IInv

LEMMA MasterScattervKeeps ==
  ASSUME IInv, MasterScatterv
  PROVE  IInv'
<1>1. MasterOnly
  BY MasterLocal DEF IInv, MasterStep
<1>2. /\ 0 \in Rank /\ DOMAIN pc = Rank /\ DOMAIN edges_slice = Rank
      /\ \A s \in Slave : s \in Rank
  BY Constants DEF IInv, Basics
<1>3. /\ pc[0] = "edges_slice" /\ pc'[0] = "labels"
      /\ edges_slice'[0] = Share(0)
      /\ UNCHANGED <<input, edges, iteration, node, found, next_edges_per_proc, nEdges,
                     nEdges_local, labels, nextEdges_local, up>>
      /\ \A s \in Slave : down'[s] = Append(down[s], Message("edges_slice", Share(s)))
  BY <1>2 DEF MasterScatterv, Goto, SendDown, Message, Counts, Share, masterVars, slaveVars
<1>4. Basics'
  BY <1>1, <1>3 DEF IInv, Basics, MasterOnly, MasterDescent
<1>5. \A s \in Slave : Agrees(s)' /\ Told(s)'
  <2>1. \A s : Messages(s)'[4] = Message("edges_slice", Share(s))
    BY <1>3 DEF Messages, Counts, Share
  <2>2. Position(pc[0]) = 4 /\ Position(pc'[0]) = 5 /\ pc'[0] \in MasterDescent
    BY <1>3, Positions DEF MasterDescent
  <2> QED
    BY <1>1, <1>3, <2>1, <2>2, MasterSends
<1>6. MasterHolds'
  <2>1. edges # <<>>
    BY <1>3 DEF MasterHolds, IInv
  <2>2. Share(0)' = Share(0)
    BY <1>3 DEF Share, Counts
  <2> QED
    BY <1>3, <2>1, <2>2 DEF MasterHolds, Relabelling
<1>7. Barrier'
  BY <1>1, <1>3, BarrierKeeps
<1>8. Forests' /\ EndsSettled'
  BY <1>3, QuietKeeps DEF Quiet
<1> QED
  BY <1>4, <1>5, <1>6, <1>7, <1>8 DEF IInv

(* Hooking raises labels, at the ends that edges start from only.          *)
LEMMA HookRaises ==
  ASSUME NEW s \in Seq(ProperEdge), NEW m, Upwards(Node, m)
  PROVE  /\ Upwards(Node, hook_nodes(s, m))
         /\ \A v \in Node : (\A k \in DOMAIN s : s[k].from # v) => hook_nodes(s, m)[v] = m[v]
<1> DEFINE h == hook_nodes(s, m)
<1>1. m \in [Node -> Node] /\ \A v \in Node : v <= m[v]
  BY DEF Upwards
<1>2. ASSUME NEW v \in Node
      PROVE  /\ h[v] \in {m[v]} \cup Offers(s, v) /\ h[v] \in Node /\ m[v] <= h[v]
             /\ v \in Int /\ m[v] \in Int /\ h[v] \in Int
  <2>1. /\ h[v] \in {m[v]} \cup Offers(s, v)
        /\ {m[v]} \cup Offers(s, v) \in SUBSET Node
        /\ \A x \in {m[v]} \cup Offers(s, v) : x <= h[v]
    BY <1>1, HookIsLargest
  <2> HIDE DEF h
  <2>2. v \in Int /\ m[v] \in Int /\ h[v] \in Int
    BY <1>1, <2>1, Constants
  <2> QED
    BY <2>1, <2>2
<1>3. h = [v \in Node |-> h[v]]
  BY DEF hook_nodes
<1> HIDE DEF h
<1>4. Upwards(Node, h)
  <2>1. \A v \in Node : v <= h[v]
    BY <1>1, <1>2
  <2> QED
    BY <1>2, <1>3, <2>1 DEF Upwards
<1>5. ASSUME NEW v \in Node, \A k \in DOMAIN s : s[k].from # v PROVE h[v] = m[v]
  BY <1>2, <1>5 DEF Offers
<1> QED
  BY <1>4, <1>5 DEF h

LEMMA ShareType ==
  ASSUME IInv, NEW r \in Rank
  PROVE  /\ Share(r) \in Seq(ProperEdge)
         /\ \A k \in DOMAIN Share(r) : \E i \in DOMAIN edges : Share(r)[k] = edges[i]
<1>1. edges \in Seq(ProperEdge)
  BY DEF IInv, Basics
<1> QED
  BY <1>1, SliceType DEF Share, Counts

LEMMA MasterHookKeeps ==
  ASSUME IInv, MasterHook
  PROVE  /\ IInv'
         /\ MergedLabels' = MergedLabels /\ RemainingEdges' = RemainingEdges
<1>1. MasterOnly
  BY MasterLocal DEF IInv, MasterStep
<1>2. /\ 0 \in Rank /\ DOMAIN pc = Rank /\ DOMAIN labels = Rank
      /\ \A s \in Slave : s \in Rank
  BY Constants DEF IInv, Basics
<1>3. /\ pc[0] = "labels" /\ pc'[0] = "hooks"
      /\ labels'[0] = hook_nodes(edges_slice[0], labels[0])
      /\ UNCHANGED <<input, edges, iteration, node, found, next_edges_per_proc, nEdges,
                     nEdges_local, edges_slice, nextEdges_local, up>>
      /\ \A s \in Slave : down'[s] = Append(down[s], Message("labels", labels[0]))
  BY <1>2 DEF MasterHook, Goto, BcastDown, SendDown, Message, masterVars, slaveVars
<1>4. Basics'
  BY <1>1, <1>3 DEF IInv, Basics, MasterOnly, MasterDescent
<1>5. MergedLabels = labels[0] /\ RemainingEdges = edges
  BY <1>3 DEF MergedLabels, RemainingEdges, Relabelling
<1>6. edges_slice[0] = Share(0) /\ edges # <<>>
  BY <1>3 DEF IInv, MasterHolds
<1>7. /\ Upwards(Node, labels[0])
      /\ \A v \in Node : labels[0][labels[0][v]] = labels[0][v]
      /\ \A k \in DOMAIN edges : /\ labels[0][edges[k].from] = edges[k].from
                                /\ labels[0][edges[k].to] = edges[k].to
  BY <1>3, <1>5 DEF IInv, Forests, EndsSettled, MasterDescent
<1>8. /\ Upwards(Node, labels'[0])
      /\ \A v \in Node : (\A k \in DOMAIN Share(0) : Share(0)[k].from # v) =>
                            labels'[0][v] = labels[0][v]
  BY <1>2, <1>3, <1>6, <1>7, ShareType, HookRaises
<1>9. Unhooked' = labels[0]
  <2>1. ASSUME NEW v \in Node, \E k \in DOMAIN Share(0) : Share(0)[k].from = v
        PROVE  labels[0][v] = v
    BY <1>2, <1>7, <2>1, ShareType
  <2>2. Unhooked' = [v \in Node |-> IF \E k \in DOMAIN Share(0) : Share(0)[k].from = v
                                    THEN v ELSE labels'[0][v]]
    BY <1>3, <1>6 DEF Unhooked
  <2>3. labels[0] = [v \in Node |-> labels[0][v]]
    BY <1>7 DEF Upwards
  <2>4. \A v \in Node : (IF \E k \in DOMAIN Share(0) : Share(0)[k].from = v
                         THEN v ELSE labels'[0][v]) = labels[0][v]
    BY <1>8, <2>1
  <2> QED
    BY <2>2, <2>3, <2>4
<1>10. \A s \in Slave : Agrees(s)' /\ Told(s)'
  <2>1. \A s : Messages(s)'[5] = Message("labels", labels[0])
    BY <1>9 DEF Messages
  <2>2. Position(pc[0]) = 5 /\ Position(pc'[0]) = 6 /\ pc'[0] \in MasterDescent
    BY <1>3, Positions DEF MasterDescent
  <2> QED
    BY <1>1, <1>3, <1>9, <2>1, <2>2, MasterSends
<1>11. MasterHolds'
  <2>1. Share(0)' = Share(0)
    BY <1>3 DEF Share, Counts
  <2> QED
    BY <1>3, <1>6, <1>9, <2>1 DEF MasterHolds, Relabelling
<1>12. Barrier'
  BY <1>1, <1>3, BarrierKeeps
<1>13. MergedLabels' = labels[0] /\ RemainingEdges' = edges
  BY <1>3, <1>9 DEF MergedLabels, RemainingEdges
<1>14. Forests'
  BY <1>3, <1>7, <1>8, <1>13 DEF Forests
<1>15. EndsSettled'
  BY <1>7, <1>13 DEF EndsSettled
<1> QED
  BY <1>4, <1>5, <1>10, <1>11, <1>12, <1>13, <1>14, <1>15 DEF IInv

(* The reduction gives what one process hooks along all edges.             *)
LEMMA ReductionIsHook ==
  ASSUME IInv, MasterReduce
  PROVE  /\ \A s \in Slave : Awaiting(s) /\ up[s] = <<Message("hooks", labels[s])>>
         /\ labels'[0] = hook_nodes(edges, Unhooked)
<1>1. /\ 0 \in Rank /\ DOMAIN pc = Rank /\ DOMAIN labels = Rank
      /\ edges \in Seq(ProperEdge)
  BY Constants DEF IInv, Basics
<1>2. /\ pc[0] = "hooks" /\ \A s \in Slave : up[s] # <<>>
      /\ labels'[0] = Reduced(Contributions(labels[0]))
  BY <1>1 DEF MasterReduce, TakeUp
<1>3. ASSUME NEW s \in Slave
      PROVE  Awaiting(s) /\ up[s] = <<Message("hooks", labels[s])>>
  BY <1>2 DEF IInv, Agrees, Following, Gathering, Relabelling, Awaiting
<1>4. ASSUME NEW r \in Rank
      PROVE  Contributions(labels[0])[r] = hook_nodes(Share(r), Unhooked)
  <2>1. CASE r = 0
    <3>1. labels[0] = hook_nodes(Share(0), Unhooked)
      BY <1>2 DEF IInv, MasterHolds
    <3> QED
      BY <2>1, <3>1 DEF Contributions
  <2>2. CASE r # 0
    <3>1. r \in Slave
      BY <2>2, Constants
    <3>2. Head(up[r]).data = labels[r]
      <4>1. Head(up[r]) = Message("hooks", labels[r])
        BY <1>3, <3>1
      <4> QED
        BY <4>1, MessageData
    <3>3. labels[r] = hook_nodes(Share(r), Unhooked)
      <4>1. pc[r] = "roots"
        BY <1>3, <3>1 DEF Awaiting
      <4> QED
        BY <1>2, <3>1, <4>1 DEF IInv, Told
    <3> QED
      BY <2>2, <3>2, <3>3 DEF Contributions
  <2> QED
    BY <2>1, <2>2
<1>5. Unhooked \in [Node -> Node]
  <2>1. Unhooked = MergedLabels
    BY <1>2 DEF MergedLabels
  <2> QED
    BY <2>1 DEF IInv, Forests, Upwards
<1>6. Reduced(Contributions(labels[0])) = hook_nodes(edges, Unhooked)
  <2>1. \A r \in Rank : Contributions(labels[0])[r] =
           hook_nodes(Slice(edges, calculate_edges_per_processor(Len(edges)), r), Unhooked)
    BY <1>4 DEF Share, Counts
  <2> QED
    BY <1>1, <1>5, <2>1, ReducedHooks
<1> QED
  BY <1>2, <1>3, <1>6

LEMMA MasterReduceKeeps ==
  ASSUME IInv, MasterReduce
  PROVE  IInv'
<1>1. MasterOnly
  BY MasterLocal DEF IInv, MasterStep
<1>2. /\ 0 \in Rank /\ DOMAIN pc = Rank /\ N \in Nat
      /\ Node \in SUBSET Int /\ IsFiniteSet(Node)
      /\ edges \in Seq(ProperEdge)
  BY Constants DEF IInv, Basics
<1>3. /\ pc[0] = "hooks" /\ pc'[0] = "find_roots" /\ node' = 0 /\ found' = FALSE
      /\ UNCHANGED <<input, edges, iteration, next_edges_per_proc, nEdges,
                     nEdges_local, edges_slice, nextEdges_local, down>>
      /\ up' = [r \in Slave |-> Tail(up[r])]
  BY <1>2 DEF MasterReduce, Goto, TakeUp, slaveVars
<1>4. Basics'
  <2>1. found' \in BOOLEAN
    BY <1>3
  <2>2. node' \in 0 .. N
    BY <1>2, <1>3
  <2> QED
    BY <1>1, <1>3, <2>1, <2>2 DEF IInv, Basics, MasterOnly, MasterDescent
<1>5. ASSUME NEW s \in Slave PROVE Agrees(s)' /\ Told(s)'
  <2>1. Awaiting(s) /\ up[s] = <<Message("hooks", labels[s])>>
    BY ReductionIsHook
  <2>2. up'[s] = <<>>
    <3>1. up'[s] = Tail(up[s])
      BY <1>3
    <3> QED
      BY <2>1, <3>1
  <2>3. pc[s] = "roots" /\ pc'[s] = "roots" /\ down'[s] = <<>>
    BY <1>1, <1>3, <2>1 DEF MasterOnly, Awaiting
  <2>4. Awaiting(s)'
    BY <1>3, <2>2, <2>3 DEF Awaiting
  <2>5. edges_slice'[s] = Share(s)'
    <3>1. Share(s)' = Share(s)
      BY <1>3 DEF Share, Counts
    <3> QED
      BY <1>1, <2>3, <3>1 DEF IInv, Told, MasterOnly
  <2> QED
    BY <1>3, <2>3, <2>4, <2>5 DEF Agrees, Told
<1>6. MasterHolds'
  <2>1. Share(0)' = Share(0)
    BY <1>3 DEF Share, Counts
  <2> QED
    BY <1>3, <2>1 DEF MasterHolds, Relabelling, IInv
<1>7. Barrier'
  BY <1>1, <1>3, BarrierKeeps
<1>8. Upwards(Node, labels'[0])
  <2>1. Upwards(Node, Unhooked)
    BY <1>3 DEF IInv, Forests, MergedLabels
  <2> QED
    BY <1>2, <2>1, HookRaises, ReductionIsHook
<1>9. MergedLabels' = Roots(Node, labels'[0])
  BY <1>3 DEF MergedLabels
<1>10. Forests'
  <2>1. IsForest(Node, labels'[0]) /\ Upwards(Node, Roots(Node, labels'[0]))
    BY <1>2, <1>8, RootsUpwards
  <2>2. \A v \in Node : Roots(Node, labels'[0])[Roots(Node, labels'[0])[v]]
                          = Roots(Node, labels'[0])[v]
    BY <2>1, RootsOfForest
  <2>3. \A v \in Node : ~ (v < 0)
    BY <1>2 DEF Node
  <2> QED
    BY <1>3, <1>8, <1>9, <2>1, <2>2, <2>3 DEF Forests
<1>11. EndsSettled'
  BY <1>3 DEF EndsSettled, MasterDescent
<1> QED
  BY <1>4, <1>5, <1>6, <1>7, <1>10, <1>11 DEF IInv

(* While rank 0 finds the roots the others wait for them.                  *)
LEMMA FindingKeeps ==
  ASSUME IInv, MasterOnly,
         pc[0] = "find_roots", pc'[0] \in {"find_roots", "roots"},
         UNCHANGED <<edges, edges_slice, down, up>>
  PROVE  /\ \A s \in Slave : Agrees(s)' /\ Told(s)'
         /\ MasterHolds' /\ Barrier' /\ EndsSettled'
<1>1. \A r : Share(r)' = Share(r)
  BY DEF Share, Counts
<1>2. ASSUME NEW s \in Slave PROVE Agrees(s)' /\ Told(s)'
  <2>1. Awaiting(s) /\ Told(s)
    BY DEF IInv, Agrees, Following, MasterDescent, Gathering, Relabelling
  <2>2. pc[s] = "roots" /\ pc'[s] = "roots" /\ down'[s] = <<>> /\ up'[s] = <<>>
    BY <2>1 DEF MasterOnly, Awaiting
  <2> QED
    BY <1>1, <2>1, <2>2 DEF Agrees, Told, Awaiting
<1>3. MasterHolds'
  BY <1>1 DEF MasterHolds, Relabelling, IInv
<1>4. Barrier'
  BY BarrierKeeps
<1>5. EndsSettled'
  BY DEF EndsSettled, MasterDescent
<1> QED
  BY <1>2, <1>3, <1>4, <1>5

LEMMA FindRootsStepKeeps ==
  ASSUME IInv, FindRootsStep
  PROVE  IInv' /\ MergedLabels' = MergedLabels
<1> DEFINE l == labels[0]
           jumped == [l EXCEPT ![node] = l[l[node]]]
<1>1. MasterOnly
  BY MasterLocal DEF IInv, MasterStep
<1>2. /\ 0 \in Rank /\ DOMAIN pc = Rank /\ DOMAIN labels = Rank /\ N \in Nat
      /\ Node \in SUBSET Int /\ IsFiniteSet(Node)
  BY Constants DEF IInv, Basics
<1>3. /\ pc[0] = "find_roots" /\ pc' = pc /\ node < N
      /\ labels'[0] = jumped
      /\ node' = node + 1
      /\ found' = (found \/ jumped[node] # jumped[jumped[node]])
      /\ UNCHANGED <<input, edges, iteration, next_edges_per_proc, nEdges,
                     nEdges_local, edges_slice, nextEdges_local, down, up>>
  BY <1>2 DEF FindRootsStep, slaveVars, channels
<1>4. node \in Node /\ node \in Int /\ \A v \in Node : v \in Int
  <2>1. node \in 0 .. N
    BY DEF IInv, Basics
  <2> QED
    BY <1>2, <1>3, <2>1 DEF Node
<1>5. l \in [Node -> Node] /\ \A v \in Node : v <= l[v]
  BY <1>3 DEF IInv, Forests, Upwards
<1>6. Upwards(Node, l) /\ MergedLabels = Roots(Node, l)
  BY <1>3 DEF IInv, Forests, MergedLabels
<1>7. MergedLabels' = Roots(Node, jumped)
  BY <1>3 DEF MergedLabels
<1> HIDE DEF l
<1>8. /\ jumped \in [Node -> Node]
      /\ jumped[node] = l[l[node]]
      /\ \A v \in Node : v # node => jumped[v] = l[v]
  BY <1>4, <1>5
<1>9. IsForest(Node, jumped) /\ MergedLabels' = MergedLabels
  <2>1. IsForest(Node, l)
    BY <1>2, <1>6, UpwardsForest
  <2>2. IsForest(Node, jumped) /\ Roots(Node, jumped) = Roots(Node, l)
    BY <1>4, <2>1, JumpKeepsRoots
  <2> QED
    BY <1>6, <1>7, <2>2
<1> HIDE DEF jumped
<1>10. Upwards(Node, jumped)
  <2>1. node <= l[node] /\ l[node] <= l[l[node]] /\ l[node] \in Int /\ l[l[node]] \in Int
    BY <1>4, <1>5
  <2>2. \A v \in Node : v <= jumped[v]
    BY <1>4, <1>5, <1>8, <2>1
  <2> QED
    BY <1>8, <2>2 DEF Upwards
<1>11. ~ found' => \A v \in Node : v < node' => jumped[jumped[v]] = jumped[v]
  <2> SUFFICES ASSUME ~ found', NEW v \in Node, v < node' PROVE jumped[jumped[v]] = jumped[v]
    OBVIOUS
  <2>1. ~ found /\ jumped[jumped[node]] = jumped[node]
    BY <1>3
  <2>2. CASE v = node
    BY <2>1, <2>2
  <2>3. CASE v # node
    <3>1. v < node
      BY <1>3, <1>4, <2>3
    <3>2. l[l[v]] = l[v]
      BY <1>3, <2>1, <3>1 DEF IInv, Forests, l
    <3>3. jumped[v] = l[v] /\ l[v] \in Node
      BY <1>5, <1>8, <2>3
    <3>4. CASE l[v] = node
      <4>1. l[node] = node
        BY <3>2, <3>4
      <4> QED
        BY <1>8, <3>3, <3>4, <4>1
    <3>5. CASE l[v] # node
      BY <1>8, <3>2, <3>3, <3>5
    <3> QED
      BY <3>4, <3>5
  <2> QED
    BY <2>2, <2>3
<1>12. Basics'
  <2>1. found' \in BOOLEAN
    BY <1>3
  <2>2. node' \in 0 .. N
    BY <1>2, <1>3, <1>4 DEF Node
  <2> QED
    BY <1>1, <1>3, <2>1, <2>2 DEF IInv, Basics, MasterOnly
<1>13. Forests'
  BY <1>3, <1>9, <1>10, <1>11 DEF IInv, Forests
<1>14. /\ \A s \in Slave : Agrees(s)' /\ Told(s)'
       /\ MasterHolds' /\ Barrier' /\ EndsSettled'
  BY <1>1, <1>3, FindingKeeps
<1> QED
  BY <1>9, <1>12, <1>13, <1>14 DEF IInv

LEMMA FindRootsAgainKeeps ==
  ASSUME IInv, FindRootsAgain
  PROVE  IInv' /\ MergedLabels' = MergedLabels
<1>1. MasterOnly
  BY MasterLocal DEF IInv, MasterStep
<1>2. /\ 0 \in Rank /\ DOMAIN pc = Rank /\ N \in Nat
  BY Constants DEF IInv, Basics
<1>3. /\ pc[0] = "find_roots" /\ pc' = pc /\ node' = 0 /\ found' = FALSE
      /\ UNCHANGED <<input, edges, iteration, next_edges_per_proc, nEdges,
                     nEdges_local, edges_slice, labels, nextEdges_local, down, up>>
  BY <1>2 DEF FindRootsAgain, slaveVars, rankVars, channels
<1>4. MergedLabels' = MergedLabels
  BY <1>3, SameMerged
<1>5. Basics'
  <2>1. found' \in BOOLEAN
    BY <1>3
  <2>2. node' \in 0 .. N
    BY <1>2, <1>3
  <2> QED
    BY <1>1, <1>3, <2>1, <2>2 DEF IInv, Basics, MasterOnly
<1>6. Forests'
  <2>1. \A v \in Node : ~ (v < node')
    BY <1>2, <1>3 DEF Node
  <2> QED
    BY <1>3, <1>4, <2>1 DEF IInv, Forests
<1>7. /\ \A s \in Slave : Agrees(s)' /\ Told(s)'
      /\ MasterHolds' /\ Barrier' /\ EndsSettled'
  BY <1>1, <1>3, FindingKeeps
<1> QED
  BY <1>4, <1>5, <1>6, <1>7 DEF IInv

LEMMA FindRootsReturnKeeps ==
  ASSUME IInv, FindRootsReturn
  PROVE  IInv' /\ MergedLabels' = MergedLabels
<1>1. MasterOnly
  BY MasterLocal DEF IInv, MasterStep
<1>2. /\ 0 \in Rank /\ DOMAIN pc = Rank /\ N \in Nat
  BY Constants DEF IInv, Basics
<1>3. /\ pc[0] = "find_roots" /\ pc'[0] = "roots" /\ node = N /\ ~ found
      /\ UNCHANGED <<input, edges, iteration, node, found, next_edges_per_proc, nEdges,
                     nEdges_local, edges_slice, labels, nextEdges_local, down, up>>
  BY <1>2 DEF FindRootsReturn, Goto, masterVars, slaveVars, rankVars, channels
<1>4. /\ Upwards(Node, labels[0]) /\ labels[0] \in [Node -> Node]
      /\ \A v \in Node : labels[0][labels[0][v]] = labels[0][v]
  <2>1. \A v \in Node : v < node
    BY <1>2, <1>3 DEF Node
  <2> QED
    BY <1>3, <2>1 DEF IInv, Forests, Upwards
<1>5. MergedLabels = labels[0]
  <2>1. Roots(Node, labels[0]) = labels[0]
    BY <1>4, RootsOfFlat
  <2> QED
    BY <1>3, <2>1 DEF MergedLabels
<1>6. MergedLabels' = labels[0]
  BY <1>3 DEF MergedLabels
<1>7. Basics'
  BY <1>1, <1>3 DEF IInv, Basics, MasterOnly
<1>8. Forests'
  BY <1>3, <1>4, <1>6 DEF Forests
<1>9. /\ \A s \in Slave : Agrees(s)' /\ Told(s)'
      /\ MasterHolds' /\ Barrier' /\ EndsSettled'
  BY <1>1, <1>3, FindingKeeps
<1> QED
  BY <1>5, <1>6, <1>7, <1>8, <1>9 DEF IInv

LEMMA MasterRelabelKeeps ==
  ASSUME IInv, MasterRelabel
  PROVE  IInv'
<1>1. MasterOnly
  BY MasterLocal DEF IInv, MasterStep
<1>2. /\ 0 \in Rank /\ DOMAIN pc = Rank /\ DOMAIN nextEdges_local = Rank
      /\ \A s \in Slave : s \in Rank
  BY Constants DEF IInv, Basics
<1>3. /\ pc[0] = "roots" /\ pc'[0] = "next_nEdges_local"
      /\ nextEdges_local'[0] = compute_next_edges(edges_slice[0], labels[0])
      /\ UNCHANGED <<input, edges, iteration, node, found, next_edges_per_proc, nEdges,
                     nEdges_local, edges_slice, labels, up>>
      /\ \A s \in Slave : down'[s] = Append(down[s], Message("roots", labels[0]))
  BY <1>2 DEF MasterRelabel, Goto, BcastDown, SendDown, Message, masterVars, slaveVars
<1>4. Basics'
  BY <1>1, <1>3 DEF IInv, Basics, MasterOnly, Relabelling
<1>5. \A r : Share(r)' = Share(r) /\ Left(r)' = Left(r)
  BY <1>3, SameRound
<1>6. ASSUME NEW s \in Slave PROVE Agrees(s)' /\ Told(s)'
  <2>1. Awaiting(s) /\ Told(s)
    BY <1>3 DEF IInv, Agrees, Following, MasterDescent, Gathering, Relabelling
  <2>2. pc[s] = "roots" /\ pc'[s] = "roots" /\ down[s] = <<>> /\ up'[s] = <<>>
    BY <1>1, <1>3, <2>1 DEF MasterOnly, Awaiting
  <2>3. down'[s] = <<Message("roots", labels'[0])>>
    BY <1>3, <2>2
  <2> QED
    BY <1>1, <1>3, <1>5, <2>1, <2>2, <2>3 DEF Agrees, Told, Awaiting, MasterOnly
<1>7. MasterHolds'
  <2>1. edges_slice[0] = Share(0) /\ edges # <<>>
    BY <1>3 DEF IInv, MasterHolds
  <2>2. nextEdges_local'[0] = Left(0)
    BY <1>3, <2>1 DEF Left
  <2> QED
    BY <1>3, <1>5, <2>1, <2>2 DEF MasterHolds
<1>8. Barrier'
  BY <1>1, <1>3, BarrierKeeps
<1>9. MergedLabels' = MergedLabels
  BY <1>3 DEF MergedLabels
<1>10. Forests' /\ EndsSettled'
  BY <1>3, <1>9 DEF IInv, Forests, EndsSettled, MasterDescent
<1> QED
  BY <1>4, <1>6, <1>7, <1>8, <1>10 DEF IInv

(* A gather finds its answer at the head of every channel.                 *)
LEMMA AnswerTaken ==
  ASSUME IInv, pc[0] \in Relabelling, NEW s \in Slave, up[s] # <<>>
  PROVE  /\ Gathering(s)
         /\ Place(pc[0]) \in Int /\ Place(pc[s]) \in Int
         /\ Place(pc[0]) < Place(pc[s])
         /\ Head(up[s]) = Answers(s)[Place(pc[0])]
         /\ Tail(up[s]) = Part(Answers(s), Place(pc[0]) + 1, Place(pc[s]))
<1>1. Gathering(s)
  BY DEF IInv, Agrees, Following, MasterDescent, Awaiting, Relabelling
<1>2. /\ Place(pc[0]) \in Int /\ Place(pc[s]) \in Int /\ Place(pc[0]) <= Place(pc[s])
      /\ up[s] = Part(Answers(s), Place(pc[0]), Place(pc[s]))
  BY <1>1, Positions DEF Gathering, Relabelling
<1> QED
  BY <1>1, <1>2, PartFilled

LEMMA MasterGatherKeeps ==
  ASSUME IInv, MasterGather
  PROVE  IInv'
<1>1. MasterOnly
  BY MasterLocal DEF IInv, MasterStep
<1>2. /\ 0 \in Rank /\ DOMAIN pc = Rank /\ \A s \in Slave : s \in Rank
  BY Constants DEF IInv, Basics
<1>3. /\ pc[0] = "next_nEdges_local" /\ pc'[0] = "nextEdges"
      /\ \A s \in Slave : up[s] # <<>> /\ up'[s] = Tail(up[s])
      /\ next_edges_per_proc' = Contributions(Len(nextEdges_local[0]))
      /\ UNCHANGED <<input, edges, iteration, node, found, nEdges,
                     nEdges_local, edges_slice, labels, nextEdges_local, down>>
  BY <1>2 DEF MasterGather, Goto, TakeUp, slaveVars, rankVars
<1>4. Basics'
  BY <1>1, <1>3 DEF IInv, Basics, MasterOnly, Relabelling
<1>5. /\ \A r : Share(r)' = Share(r) /\ Left(r)' = Left(r)
      /\ \A r : Answers(r)' = Answers(r)
  BY <1>3, SameRound
<1>6. ASSUME NEW s \in Slave
      PROVE  /\ Gathering(s) /\ 1 < Place(pc[s]) /\ Place(pc[s]) \in Int
             /\ Head(up[s]).data = Len(Left(s))
             /\ Tail(up[s]) = Part(Answers(s), 2, Place(pc[s]))
  <2>1. /\ Gathering(s) /\ 1 < Place(pc[s]) /\ Place(pc[s]) \in Int
        /\ Head(up[s]) = Answers(s)[1]
        /\ Tail(up[s]) = Part(Answers(s), 2, Place(pc[s]))
    <3>1. Place(pc[0]) = 1 /\ 1 + 1 = 2 /\ pc[0] \in Relabelling
      BY <1>3, Positions DEF Relabelling
    <3> QED
      BY <1>3, <3>1, AnswerTaken
  <2>2. Answers(s)[1] = Message("next_nEdges_local", Len(Left(s)))
    BY MessagesAre
  <2> QED
    BY <2>1, <2>2, MessageData
<1>7. ASSUME NEW s \in Slave PROVE Agrees(s)' /\ Told(s)'
  <2>1. pc'[s] = pc[s] /\ pc[s] \in Relabelling \cup {"nEdges"}
    BY <1>1, <1>6 DEF MasterOnly, Gathering
  <2>2. Place(pc'[0]) <= Place(pc'[s])
    BY <1>3, <1>6, <2>1, Positions
  <2>3. up'[s] = Part(Answers(s)', Place(pc'[0]), Place(pc'[s]))
    BY <1>3, <1>5, <1>6, <2>1, Positions
  <2>4. Gathering(s)'
    BY <1>1, <1>3, <1>5, <1>6, <2>1, <2>2, <2>3 DEF Gathering, MasterOnly, Relabelling
  <2> QED
    BY <1>3, <2>1, <2>4 DEF Agrees, Told, Relabelling
<1>8. MasterHolds'
  <2>1. edges # <<>> /\ nextEdges_local[0] = Left(0)
    BY <1>3 DEF IInv, MasterHolds, Relabelling
  <2>2. next_edges_per_proc' = [r \in Rank |-> IF r = 0 THEN Len(Left(0)) ELSE Head(up[r]).data]
    BY <1>3, <2>1 DEF Contributions
  <2>3. \A r \in Rank : (IF r = 0 THEN Len(Left(0)) ELSE Head(up[r]).data) = Len(Left(r))
    BY <1>6, Constants
  <2>4. next_edges_per_proc' = [r \in Rank |-> Len(Left(r)')]
    BY <1>5, <2>2, <2>3
  <2> QED
    BY <1>3, <1>5, <2>1, <2>4 DEF MasterHolds
<1>9. Barrier'
  BY <1>1, <1>3, BarrierKeeps
<1>10. MergedLabels' = MergedLabels
  BY <1>3 DEF MergedLabels
<1>11. Forests' /\ EndsSettled'
  BY <1>3, <1>10 DEF IInv, Forests, EndsSettled, MasterDescent
<1> QED
  BY <1>4, <1>7, <1>8, <1>9, <1>11 DEF IInv

(* The gathered edges are what one process leaves of all edges.            *)
LEMMA GatheringIsSequential ==
  ASSUME IInv, MasterGatherv
  PROVE  /\ \A s \in Slave : pc[s] = "nEdges" /\ down[s] = <<>> /\ up'[s] = <<>>
         /\ edges' = compute_next_edges(edges, labels[0])
<1>1. /\ 0 \in Rank /\ DOMAIN pc = Rank /\ \A s \in Slave : s \in Rank
      /\ edges \in Seq(ProperEdge)
  BY Constants DEF IInv, Basics
<1>2. /\ pc[0] = "nextEdges" /\ \A s \in Slave : up[s] # <<>> /\ up'[s] = Tail(up[s])
      /\ edges' = Gathered(Contributions(nextEdges_local[0]), next_edges_per_proc)
  BY <1>1 DEF MasterGatherv, TakeUp
<1>3. ASSUME NEW s \in Slave
      PROVE  /\ pc[s] = "nEdges" /\ down[s] = <<>> /\ up'[s] = <<>>
             /\ Head(up[s]).data = Left(s)
  <2>1. Place(pc[0]) = 2 /\ 2 + 1 = 3 /\ pc[0] \in Relabelling
    BY <1>2, Positions DEF Relabelling
  <2>2. /\ Gathering(s) /\ 2 < Place(pc[s]) /\ Place(pc[s]) \in Int
        /\ Head(up[s]) = Answers(s)[2]
        /\ Tail(up[s]) = Part(Answers(s), 3, Place(pc[s]))
    BY <1>2, <2>1, AnswerTaken
  <2>3. pc[s] = "nEdges" /\ down[s] = <<>>
    BY <2>2, Positions DEF Gathering, Relabelling
  <2>4. up'[s] = <<>>
    BY <1>2, <2>2, <2>3, Positions, PartEmpty
  <2>5. Answers(s)[2] = Message("nextEdges", Left(s))
    BY MessagesAre
  <2> QED
    BY <2>2, <2>3, <2>4, <2>5, MessageData
<1>4. /\ labels[0] \in [Node -> Node]
  BY <1>2 DEF IInv, Forests, Upwards
<1>5. nextEdges_local[0] = Left(0) /\ next_edges_per_proc = [r \in Rank |-> Len(Left(r))]
  BY <1>2 DEF IInv, MasterHolds, Relabelling
<1>6. \A r \in Rank : Contributions(nextEdges_local[0])[r] = Left(r)
  BY <1>3, <1>5, Constants DEF Contributions
<1>7. \A r \in Rank : Left(r) = compute_next_edges(
                         Slice(edges, calculate_edges_per_processor(Len(edges)), r), labels[0])
  BY DEF Left, Share, Counts
<1>8. next_edges_per_proc \in [Rank -> Nat]
  <2>1. ASSUME NEW r \in Rank PROVE Len(Left(r)) \in Nat
    <3>1. Share(r) \in Seq(ProperEdge)
      BY ShareType
    <3>2. Left(r) \in Seq(ProperEdge)
      BY <1>4, <3>1, NextEdges DEF Left
    <3> QED
      BY <3>2
  <2> QED
    BY <1>5, <2>1
<1>9. \A r \in Rank : next_edges_per_proc[r] = Len(Contributions(nextEdges_local[0])[r])
  BY <1>5, <1>6
<1>10. edges' = compute_next_edges(edges, labels[0])
  BY <1>1, <1>2, <1>4, <1>6, <1>7, <1>8, <1>9, GatheredNextEdges
<1> QED
  BY <1>3, <1>10

LEMMA MasterGathervKeeps ==
  ASSUME IInv, MasterGatherv
  PROVE  IInv'
<1>1. MasterOnly
  BY MasterLocal DEF IInv, MasterStep
<1>2. /\ 0 \in Rank /\ DOMAIN pc = Rank /\ edges \in Seq(ProperEdge)
  BY Constants DEF IInv, Basics
<1>3. /\ pc[0] = "nextEdges" /\ pc'[0] = "nEdges"
      /\ UNCHANGED <<input, iteration, node, found, next_edges_per_proc, nEdges,
                     nEdges_local, edges_slice, labels, nextEdges_local, down>>
  BY <1>2 DEF MasterGatherv, Goto, slaveVars, rankVars
<1>4. edges' = compute_next_edges(edges, labels[0])
  BY GatheringIsSequential
<1>5. MergedLabels = labels[0] /\ MergedLabels' = labels[0] /\ RemainingEdges' = edges'
  BY <1>3 DEF MergedLabels, RemainingEdges
<1>6. /\ Upwards(Node, labels[0]) /\ labels[0] \in [Node -> Node]
      /\ \A v \in Node : labels[0][labels[0][v]] = labels[0][v]
  BY <1>5 DEF IInv, Forests, Upwards
<1>7. /\ edges' \in Seq(ProperEdge)
      /\ \A k \in DOMAIN edges' : \E v, w \in Node : /\ edges'[k].from = labels[0][v]
                                                    /\ edges'[k].to = labels[0][w]
  <2> DEFINE K == Kept(edges, labels[0])
  <2>1. /\ edges' \in Seq(ProperEdge)
        /\ \A k \in DOMAIN edges' : Nth(K, k) \in K /\ edges'[k] = NextEdge(edges[Nth(K, k)], labels[0])
    BY <1>2, <1>4, <1>6, NextEdges
  <2>2. \A i \in K : edges[i] \in ProperEdge /\ labels[0][edges[i].from] # labels[0][edges[i].to]
    BY <1>2 DEF Kept
  <2> HIDE DEF K
  <2>3. ASSUME NEW k \in DOMAIN edges'
        PROVE  \E v, w \in Node : edges'[k].from = labels[0][v] /\ edges'[k].to = labels[0][w]
    <3> DEFINE e == edges[Nth(K, k)]
    <3>1. /\ e \in ProperEdge /\ labels[0][e.from] # labels[0][e.to]
          /\ edges'[k] = NextEdge(e, labels[0])
      BY <2>1, <2>2
    <3> HIDE DEF e
    <3>2. /\ \E v \in Node : NextEdge(e, labels[0]).from = labels[0][v]
          /\ \E v \in Node : NextEdge(e, labels[0]).to = labels[0][v]
      BY <1>6, <3>1, NextEdgeType
    <3> QED
      BY <3>1, <3>2
  <2> QED
    BY <2>1, <2>3
<1>8. Basics'
  BY <1>1, <1>3, <1>7 DEF IInv, Basics, MasterOnly, MasterDescent
<1>9. ASSUME NEW s \in Slave PROVE Agrees(s)' /\ Told(s)'
  <2>1. pc'[s] = "nEdges" /\ down'[s] = <<>> /\ up'[s] = <<>>
    BY <1>1, <1>3, GatheringIsSequential DEF MasterOnly
  <2>2. Following(s)'
    BY <1>3, <2>1, Positions, PartEmpty DEF Following, MasterDescent, SlaveDescent
  <2> QED
    BY <2>1, <2>2 DEF Agrees, Told
<1>10. MasterHolds'
  BY <1>3 DEF MasterHolds, Relabelling
<1>11. Barrier'
  BY <1>1, <1>3, BarrierKeeps
<1>12. Forests'
  BY <1>3, <1>5, <1>6 DEF Forests
<1>13. EndsSettled'
  BY <1>5, <1>6, <1>7 DEF EndsSettled
<1> QED
  BY <1>8, <1>9, <1>10, <1>11, <1>12, <1>13 DEF IInv

-----------------------------------------------------------------------------
LEMMA InitInv ==
  ASSUME Init
  PROVE  IInv
<1>1. /\ 0 \in Rank /\ 0 \notin Slave /\ N \in Nat
      /\ \A s \in Slave : s \in Rank /\ s # 0
      /\ \A v \in Node : v \in Int
  BY Constants
<1>2. /\ pc[0] = "read" /\ \A s \in Slave : pc[s] = "nNodes"
      /\ \A s \in Slave : down[s] = <<>> /\ up[s] = <<>>
      /\ edges = <<>> /\ \A r \in Rank : pc[r] # "done"
  BY <1>1 DEF Init
<1>3. Basics
  <2>1. edges \in Seq(ProperEdge)
    BY <1>2
  <2>2. found \in BOOLEAN
    BY DEF Init
  <2>3. node \in 0 .. N /\ iteration \in Nat
    BY <1>1 DEF Init
  <2> QED
    BY <1>2, <2>1, <2>2, <2>3 DEF Init, Basics, MasterDescent
<1>4. ASSUME NEW s \in Slave PROVE Agrees(s) /\ Told(s)
  <2>1. Following(s)
    BY <1>2, Positions, PartEmpty DEF Following, MasterDescent, SlaveDescent
  <2> QED
    BY <1>2, <2>1 DEF Agrees, Told
<1>5. MasterHolds
  BY <1>2 DEF MasterHolds, Relabelling
<1>6. Barrier
  BY <1>2 DEF Barrier
<1>7. MergedLabels = [v \in Node |-> v] /\ RemainingEdges = ReadEdges(input)
  BY <1>2 DEF MergedLabels, RemainingEdges
<1>8. Forests
  <2>1. Upwards(Node, [v \in Node |-> v])
    BY <1>1 DEF Upwards
  <2> QED
    BY <1>2, <1>7, <2>1 DEF Forests
<1>9. EndsSettled
  <2>1. input \in Seq(Edge(Node))
    BY ConstantAssumption DEF Init
  <2>2. ReadEdges(input) \in Seq({e \in Edge(Node) : e.from < e.to})
    BY <2>1, Constants, ReadEdgesType
  <2>3. \A k \in DOMAIN ReadEdges(input) : ReadEdges(input)[k] \in Edge(Node)
    BY <2>2
  <2>4. \A k \in DOMAIN ReadEdges(input) : /\ ReadEdges(input)[k].from \in Node
                                          /\ ReadEdges(input)[k].to \in Node
    BY <2>3 DEF Edge
  <2> QED
    BY <1>7, <2>4 DEF EndsSettled
<1> QED
  BY <1>3, <1>4, <1>5, <1>6, <1>8, <1>9 DEF IInv

LEMMA StutterKeeps ==
  ASSUME IInv, UNCHANGED vars
  PROVE  IInv' /\ MergedLabels' = MergedLabels /\ RemainingEdges' = RemainingEdges
<1> USE DEF vars, masterVars, slaveVars, rankVars, channels
<1>1. /\ Counts' = Counts /\ Unhooked' = Unhooked
      /\ \A s : Share(s)' = Share(s) /\ Left(s)' = Left(s)
      /\ \A s : Messages(s)' = Messages(s) /\ Answers(s)' = Answers(s)
      /\ MergedLabels' = MergedLabels /\ RemainingEdges' = RemainingEdges
  BY SameRound, SameMerged
<1>2. Basics'
  BY DEF IInv, Basics
<1>3. ASSUME NEW s \in Slave PROVE Agrees(s)' /\ Told(s)'
  <2>1. Following(s)' = Following(s)
    BY <1>1 DEF Following
  <2>2. Awaiting(s)' = Awaiting(s)
    BY <1>1 DEF Awaiting
  <2>3. Gathering(s)' = Gathering(s)
    BY <1>1 DEF Gathering
  <2>4. Told(s)' = Told(s)
    BY <1>1 DEF Told
  <2> QED
    BY <2>1, <2>2, <2>3, <2>4 DEF IInv, Agrees
<1>4. MasterHolds' /\ Barrier'
  BY <1>1 DEF IInv, MasterHolds, Barrier
<1>5. Forests' /\ EndsSettled'
  BY <1>1 DEF IInv, Forests, EndsSettled
<1> QED
  BY <1>1, <1>2, <1>3, <1>4, <1>5 DEF IInv

LEMMA NextInv ==
  ASSUME IInv, [Next]_vars
  PROVE  IInv'
<1>1. CASE MasterStep
  BY <1>1, ReadGraphKeeps, MasterNNodesKeeps, MasterNEdgesKeeps, MasterScatterKeeps,
     MasterScattervKeeps, MasterHookKeeps, MasterReduceKeeps, FindRootsStepKeeps,
     FindRootsAgainKeeps, FindRootsReturnKeeps, MasterRelabelKeeps, MasterGatherKeeps,
     MasterGathervKeeps DEF MasterStep
<1>2. ASSUME NEW r \in Slave, SlaveStep(r) PROVE IInv'
  BY <1>2, SlaveNNodesKeeps, SlaveNEdgesKeeps, SlaveScatterKeeps, SlaveScattervKeeps,
     SlaveHookKeeps, SlaveReduceKeeps, SlaveRelabelKeeps, SlaveGatherKeeps,
     SlaveGathervKeeps DEF SlaveStep
<1>3. ASSUME NEW r \in Rank, Finalize(r) PROVE IInv'
  BY <1>3, FinalizeKeeps
<1>4. CASE Terminated \/ UNCHANGED vars
  BY <1>4, StutterKeeps DEF Terminated
<1> QED
  BY <1>1, <1>2, <1>3, <1>4 DEF Next

(* IInv is an invariant of the program.                                    *)
THEOREM InvariantHolds == Spec => []IInv
<1>1. Init => IInv
  BY InitInv
<1>2. IInv /\ [Next]_vars => IInv'
  BY NextInv
<1> QED
  BY <1>1, <1>2, PTL DEF Spec

(* For every graph, number of ranks and amount of buffering, master() and  *)
(* slave() issue the same collective calls in the same order, with counts  *)
(* that fit, and leave no message behind.                                  *)
THEOREM CollectivesAgree == Spec => []CollectivesMatch
<1>1. ASSUME IInv PROVE CollectivesMatch
  <2> SUFFICES ASSUME NEW r \in Slave
               PROVE  /\ down[r] # <<>> /\ pc[r] \notin {"hooks", "next_nEdges_local", "nextEdges"} =>
                            /\ Head(down[r]).op = pc[r]
                            /\ pc[r] = "edges_slice" => Len(Head(down[r]).data) = nEdges_local[r]
                      /\ up[r] # <<>> /\ pc[0] \in {"hooks", "next_nEdges_local", "nextEdges"} =>
                            /\ Head(up[r]).op = pc[0]
                            /\ pc[0] = "nextEdges" => Len(Head(up[r]).data) = next_edges_per_proc[r]
                      /\ pc[0] = "done" => down[r] = <<>> /\ up[r] = <<>>
    BY DEF CollectivesMatch
  <2>1. r \in Rank /\ 0 \in Rank
    BY Constants
  <2>2. Agrees(r) /\ Told(r) /\ MasterHolds
    BY <1>1 DEF IInv
  <2>3. ASSUME down[r] # <<>>, pc[r] = "roots"
        PROVE  Head(down[r]).op = pc[r]
    <3>1. Awaiting(r)
      BY <2>2, <2>3 DEF Agrees, Following, SlaveDescent, MasterDescent, Gathering, Relabelling
    <3>2. Head(down[r]) = Message("roots", labels[0])
      BY <2>3, <3>1 DEF Awaiting
    <3> QED
      BY <2>3, <3>2, MessageData
  <2>4. ASSUME down[r] # <<>>, pc[r] \notin {"hooks", "next_nEdges_local", "nextEdges", "roots"}
        PROVE  /\ Head(down[r]).op = pc[r]
               /\ pc[r] = "edges_slice" => Len(Head(down[r]).data) = nEdges_local[r]
    <3>1. /\ Following(r) /\ Position(pc[r]) < Position(pc[0])
          /\ Head(down[r]) = Messages(r)[Position(pc[r])]
      BY <1>1, <2>4, SlaveTakes
    <3>2. pc[r] \notin {"barrier", "done"}
      <4>1. pc[r] \in {"barrier", "done"} => Position(pc[0]) = 4 /\ Position(pc[r]) = 4
        BY <3>1, Positions DEF Following
      <4> QED
        BY <3>1, <4>1
    <3>3. pc[r] \in {"nNodes", "nEdges", "nEdges_local", "edges_slice", "labels"}
      BY <2>4, <3>1, <3>2 DEF Following, SlaveDescent, MasterDescent
    <3>4. Messages(r)[Position(pc[r])].op = pc[r]
      <4>1. /\ Messages(r)[1].op = "nNodes" /\ Messages(r)[2].op = "nEdges"
            /\ Messages(r)[3].op = "nEdges_local" /\ Messages(r)[4].op = "edges_slice"
            /\ Messages(r)[5].op = "labels"
        BY MessagesAre, MessageData
      <4> QED
        BY <3>3, <4>1, Positions
    <3>5. ASSUME pc[r] = "edges_slice" PROVE Len(Head(down[r]).data) = nEdges_local[r]
      <4>1. Head(down[r]).data = Share(r)
        BY <3>1, <3>5, Positions, MessagesAre, MessageData
      <4>2. edges \in Seq(ProperEdge)
        BY <1>1 DEF IInv, Basics
      <4>3. Len(Share(r)) = Counts[r]
        BY <2>1, <4>2, SliceType DEF Share, Counts
      <4> QED
        BY <2>2, <3>5, <4>1, <4>3 DEF Told
    <3> QED
      BY <3>1, <3>4, <3>5
  <2>5. ASSUME up[r] # <<>>, pc[0] = "hooks" PROVE Head(up[r]).op = pc[0]
    <3>1. up[r] = <<Message("hooks", labels[r])>>
      BY <2>2, <2>5 DEF Agrees, Following, Gathering, Relabelling, Awaiting
    <3>2. Head(up[r]) = Message("hooks", labels[r])
      BY <3>1
    <3> QED
      BY <2>5, <3>2, MessageData
  <2>6. ASSUME up[r] # <<>>, pc[0] \in Relabelling
        PROVE  /\ Head(up[r]).op = pc[0]
               /\ pc[0] = "nextEdges" => Len(Head(up[r]).data) = next_edges_per_proc[r]
    <3>1. Head(up[r]) = Answers(r)[Place(pc[0])]
      BY <1>1, <2>6, AnswerTaken
    <3>2. CASE pc[0] = "next_nEdges_local"
      <4>1. Answers(r)[1].op = "next_nEdges_local"
        BY MessagesAre, MessageData
      <4> QED
        BY <3>1, <3>2, <4>1, Positions
    <3>3. CASE pc[0] = "nextEdges"
      <4>1. Answers(r)[2].op = "nextEdges" /\ Answers(r)[2].data = Left(r)
        BY MessagesAre, MessageData
      <4>2. next_edges_per_proc[r] = Len(Left(r))
        BY <2>1, <2>2, <3>3 DEF MasterHolds
      <4> QED
        BY <3>1, <3>3, <4>1, <4>2, Positions
    <3> QED
      BY <2>6, <3>2, <3>3 DEF Relabelling
  <2>7. ASSUME pc[0] = "done" PROVE down[r] = <<>> /\ up[r] = <<>>
    <3>1. pc[r] \in {"barrier", "done"}
      BY <1>1, <2>1, <2>7 DEF IInv, Barrier
    <3>2. Following(r)
      BY <2>2, <2>7 DEF Agrees, Awaiting, Gathering, Relabelling
    <3>3. Position(pc[0]) = 4 /\ Position(pc[r]) = 4
      BY <2>7, <3>1, Positions
    <3> QED
      BY <3>2, <3>3, PartEmpty DEF Following
  <2> QED
    BY <2>3, <2>4, <2>5, <2>6, <2>7 DEF Relabelling
<1> QED
  BY <1>1, InvariantHolds, PTL

(* A step that moves rank 0 on, but over the barrier, is one of its own.   *)
LEMMA RankZeroMoves ==
  ASSUME IInv, [Next]_vars, pc'[0] # pc[0], pc'[0] # "done"
  PROVE  MasterStep
<1>1. 0 \in Rank /\ \A s \in Slave : s # 0
  BY Constants
<1>2. ASSUME NEW r \in Slave, SlaveStep(r) PROVE FALSE
  BY <1>1, <1>2, SlaveLocal DEF IInv, Local
<1>3. ASSUME NEW r \in Rank, Finalize(r) PROVE FALSE
  BY <1>1, <1>3 DEF Finalize, Goto, IInv, Basics
<1>4. ~ UNCHANGED vars
  BY DEF vars
<1> QED
  BY <1>2, <1>3, <1>4 DEF Next, Terminated

(* The ranks together compute what one process would, for every number of  *)
(* ranks and of edges: however the edges are shared out, the labels after  *)
(* the reduction are those of hooking along all of them, and the gathered  *)
(* edges are what one process would keep, in its order.                    *)
THEOREM Sequential == Spec => AsIfSequential
<1> DEFINE Step == /\ pc[0] = "hooks" /\ pc'[0] = "find_roots" =>
                        labels'[0] = hook_nodes(edges, Unhooked)
                   /\ pc[0] = "nextEdges" /\ pc'[0] = "nEdges" =>
                        edges' = compute_next_edges(edges, labels[0])
<1>1. ASSUME IInv, [Next]_vars PROVE Step
  <2>1. ASSUME pc[0] = "hooks", pc'[0] = "find_roots"
        PROVE  labels'[0] = hook_nodes(edges, Unhooked)
    <3>1. MasterStep
      BY <1>1, <2>1, RankZeroMoves
    <3>2. MasterReduce
      BY <2>1, <3>1 DEF MasterStep, ReadGraph, MasterNNodes, MasterNEdges, MasterScatter,
         MasterScatterv, MasterHook, FindRootsStep, FindRootsAgain, FindRootsReturn,
         MasterRelabel, MasterGather, MasterGatherv
    <3> QED
      BY <1>1, <3>2, ReductionIsHook
  <2>2. ASSUME pc[0] = "nextEdges", pc'[0] = "nEdges"
        PROVE  edges' = compute_next_edges(edges, labels[0])
    <3>1. MasterStep
      BY <1>1, <2>2, RankZeroMoves
    <3>2. MasterGatherv
      BY <2>2, <3>1 DEF MasterStep, ReadGraph, MasterNNodes, MasterNEdges, MasterScatter,
         MasterScatterv, MasterHook, FindRootsStep, FindRootsAgain, FindRootsReturn,
         MasterRelabel, MasterGather, MasterReduce
    <3> QED
      BY <1>1, <3>2, GatheringIsSequential
  <2> QED
    BY <2>1, <2>2
<1>2. [][Next]_vars /\ []IInv => [][Step]_vars
  BY <1>1, PTL
<1> QED
  BY <1>2, InvariantHolds, PTL DEF Spec, AsIfSequential
-----------------------------------------------------------------------------
(***************************************************************************)
(* The program implements Contraction.                                     *)
(***************************************************************************)

(* No step writes to the file.                                             *)
LEMMA InputFixed ==
  ASSUME IInv, [Next]_vars
  PROVE  input' = input
<1>1. ASSUME MasterStep PROVE input' = input
  BY <1>1, MasterLocal DEF IInv, MasterOnly
<1>2. ASSUME NEW r \in Slave, SlaveStep(r) PROVE input' = input
  BY <1>2, SlaveLocal DEF IInv, Local
<1>3. ASSUME NEW r \in Rank, Finalize(r) PROVE input' = input
  BY <1>3 DEF Finalize
<1>4. ASSUME UNCHANGED vars PROVE input' = input
  BY <1>4 DEF vars
<1> QED
  BY <1>1, <1>2, <1>3, <1>4 DEF Next, Terminated

(* What Contraction sees changes at the reduction only.                    *)
LEMMA OnlyReduceMerges ==
  ASSUME IInv, [Next]_vars, ~ MasterReduce
  PROVE  MergedLabels' = MergedLabels /\ RemainingEdges' = RemainingEdges
<1>1. /\ 0 \in Rank /\ DOMAIN pc = Rank /\ DOMAIN labels = Rank
      /\ DOMAIN edges_slice = Rank /\ DOMAIN nextEdges_local = Rank
      /\ \A s \in Slave : s \in Rank /\ s # 0
  BY Constants DEF IInv, Basics
<1> DEFINE Same == MergedLabels' = MergedLabels /\ RemainingEdges' = RemainingEdges
<1>2. CASE ReadGraph
  BY <1>1, <1>2 DEF ReadGraph, Goto, MergedLabels, RemainingEdges
<1>3. CASE MasterNNodes \/ MasterNEdges \/ MasterScatter
  BY <1>1, <1>3 DEF MasterNNodes, MasterNEdges, MasterScatter, Goto, masterVars,
     rankVars, MergedLabels, RemainingEdges
<1>4. CASE MasterScatterv
  BY <1>1, <1>4 DEF MasterScatterv, Goto, masterVars, MergedLabels, RemainingEdges
<1>5. CASE MasterHook
  BY <1>5, MasterHookKeeps
<1>6. CASE FindRootsStep \/ FindRootsAgain \/ FindRootsReturn
  <2>1. MergedLabels' = MergedLabels
    BY <1>6, FindRootsStepKeeps, FindRootsAgainKeeps, FindRootsReturnKeeps
  <2>2. pc[0] = "find_roots" /\ pc'[0] \in {"find_roots", "roots"} /\ edges' = edges
    BY <1>1, <1>6 DEF FindRootsStep, FindRootsAgain, FindRootsReturn, Goto, masterVars
  <2> QED
    BY <2>1, <2>2 DEF RemainingEdges
<1>7. CASE MasterRelabel \/ MasterGather
  <2>1. /\ pc[0] \in {"roots", "next_nEdges_local"}
        /\ pc'[0] \in {"next_nEdges_local", "nextEdges"}
        /\ edges' = edges /\ labels' = labels
    BY <1>1, <1>7 DEF MasterRelabel, MasterGather, Goto, masterVars, rankVars
  <2>2. MergedLabels' = MergedLabels
    BY <2>1 DEF MergedLabels
  <2> QED
    BY <2>1, <2>2 DEF RemainingEdges
<1>8. CASE MasterGatherv
  <2>1. /\ pc[0] = "nextEdges" /\ pc'[0] = "nEdges" /\ labels' = labels
        /\ edges' = compute_next_edges(edges, labels[0])
    BY <1>1, <1>8, GatheringIsSequential DEF MasterGatherv, Goto, rankVars
  <2> QED
    BY <2>1 DEF MergedLabels, RemainingEdges
<1>9. ASSUME NEW r \in Slave, SlaveStep(r) PROVE Same
  <2>1. Local(r)
    BY <1>9, SlaveLocal DEF IInv
  <2> QED
    BY <1>1, <2>1, SameMerged DEF Local
<1>10. ASSUME NEW r \in Rank, Finalize(r) PROVE Same
  <2>1. /\ pc[0] \in {"barrier", "done"} /\ pc'[0] \in {"barrier", "done"}
        /\ edges' = edges /\ labels' = labels
    BY <1>1, <1>10 DEF Finalize, Goto, masterVars, rankVars
  <2> QED
    BY <2>1 DEF MergedLabels, RemainingEdges
<1>11. CASE Terminated \/ UNCHANGED vars
  BY <1>11, StutterKeeps DEF Terminated
<1> QED
  BY <1>2, <1>3, <1>4, <1>5, <1>6, <1>7, <1>8, <1>9, <1>10, <1>11 DEF Next, MasterStep

(* The state before the reduction, and what it makes of it.                *)
LEMMA Reduction ==
  ASSUME IInv, MasterReduce
  PROVE  /\ pc[0] = "hooks" /\ pc'[0] = "find_roots"
         /\ edges \in Seq(ProperEdge) /\ edges # <<>>
         /\ UNCHANGED <<input, edges, iteration, next_edges_per_proc>>
         /\ RemainingEdges = edges
         /\ MergedLabels \in [Node -> Node] /\ Upwards(Node, MergedLabels)
         /\ \A v \in Node : MergedLabels[MergedLabels[v]] = MergedLabels[v]
         /\ \A k \in DOMAIN edges : /\ MergedLabels[edges[k].from] = edges[k].from
                                   /\ MergedLabels[edges[k].to] = edges[k].to
         /\ Upwards(Node, hook_nodes(edges, MergedLabels))
         /\ IsForest(Node, hook_nodes(edges, MergedLabels))
         /\ MergedLabels' = Roots(Node, hook_nodes(edges, MergedLabels))
         /\ RemainingEdges' = compute_next_edges(edges, MergedLabels')
<1>1. 0 \in Rank /\ DOMAIN pc = Rank
  BY Constants DEF IInv, Basics
<1>2. /\ pc[0] = "hooks" /\ pc'[0] = "find_roots"
      /\ UNCHANGED <<input, edges, iteration, next_edges_per_proc>>
  BY <1>1 DEF MasterReduce, Goto
<1>3. edges \in Seq(ProperEdge) /\ edges # <<>>
  BY <1>2 DEF IInv, Basics, MasterHolds
<1>4. MergedLabels = Unhooked /\ RemainingEdges = edges
  BY <1>2 DEF MergedLabels, RemainingEdges
<1>5. /\ MergedLabels \in [Node -> Node] /\ Upwards(Node, MergedLabels)
      /\ \A v \in Node : MergedLabels[MergedLabels[v]] = MergedLabels[v]
      /\ \A k \in DOMAIN edges : /\ MergedLabels[edges[k].from] = edges[k].from
                                /\ MergedLabels[edges[k].to] = edges[k].to
  BY <1>2, <1>4 DEF IInv, Forests, EndsSettled, MasterDescent, Upwards
<1>6. labels'[0] = hook_nodes(edges, MergedLabels)
  BY <1>4, ReductionIsHook
<1>7. Upwards(Node, hook_nodes(edges, MergedLabels))
  BY <1>3, <1>5, HookRaises
<1>8. IsForest(Node, hook_nodes(edges, MergedLabels))
  BY <1>7, Constants, UpwardsForest
<1>9. MergedLabels' = Roots(Node, labels'[0])
  BY <1>2 DEF MergedLabels
<1>10. RemainingEdges' = compute_next_edges(edges, MergedLabels')
  BY <1>2 DEF RemainingEdges
<1> QED
  BY <1>2, <1>3, <1>4, <1>5, <1>6, <1>7, <1>8, <1>9, <1>10

(* Hooking to the largest neighbour merges labels along the edges.         *)
LEMMA ReductionMerges ==
  ASSUME IInv, MasterReduce
  PROVE  MergesAlong(Node, Pairs(edges), MergedLabels, MergedLabels')
<1> DEFINE m == MergedLabels
           h == hook_nodes(edges, m)
<1>1. /\ edges \in Seq(ProperEdge) /\ m \in [Node -> Node]
      /\ \A v \in Node : m[m[v]] = m[v]
      /\ \A k \in DOMAIN edges : m[edges[k].from] = edges[k].from /\ m[edges[k].to] = edges[k].to
      /\ IsForest(Node, h) /\ m' = Roots(Node, h)
  BY Reduction
<1>2. ASSUME NEW v \in Node
      PROVE  \/ h[v] = m[v]
             \/ m[v] = v /\ m[h[v]] = h[v] /\ \E p \in Pairs(edges) : v \in p /\ h[v] \in p
  <2>1. h[v] \in {m[v]} \cup Offers(edges, v)
    BY <1>1, HookIsLargest
  <2>2. CASE h[v] \in Offers(edges, v)
    <3>1. PICK k \in DOMAIN edges : edges[k].from = v /\ edges[k].to = h[v]
      BY <2>2 DEF Offers
    <3>2. Pair(edges[k]) \in Pairs(edges) /\ v \in Pair(edges[k]) /\ h[v] \in Pair(edges[k])
      BY <3>1 DEF Pairs, Pair
    <3>3. m[v] = v /\ m[h[v]] = h[v]
      BY <1>1, <3>1
    <3> QED
      BY <3>2, <3>3
  <2> QED
    BY <2>1, <2>2
<1> HIDE DEF m, h
<1>3. HookedAlong(Node, Pairs(edges), m, h)
  BY <1>1, <1>2 DEF HookedAlong
<1>4. MergesAlong(Node, Pairs(edges), m, m')
  BY <1>1, <1>3, RootsMerge
<1> QED
  BY <1>4 DEF m

LEMMA ReduceContracts ==
  ASSUME IInv, MasterReduce
  PROVE  C!Contract
<1>1. /\ pc[0] = "hooks" /\ pc'[0] = "find_roots" /\ input' = input
      /\ edges \in Seq(ProperEdge) /\ edges # <<>>
      /\ RemainingEdges = edges
      /\ RemainingEdges' = compute_next_edges(edges, MergedLabels')
  BY Reduction
<1>2. /\ MergedLabels' \in [Node -> Node]
      /\ \A u, v \in Node : MergedLabels[u] = MergedLabels[v] => MergedLabels'[u] = MergedLabels'[v]
      /\ \A v \in Node : Connected(Node, Pairs(edges), MergedLabels[v], MergedLabels'[v])
      /\ \A v \in Node : MergedLabels'[MergedLabels'[v]] = MergedLabels'[v]
  BY ReductionMerges DEF MergesAlong
<1>3. Pairs(RemainingEdges) # {}
  <2>1. 1 \in DOMAIN edges
    BY <1>1
  <2> QED
    BY <1>1, <2>1 DEF Pairs
<1>4. Pairs(RemainingEdges') = C!MergedPairs(Pairs(RemainingEdges), MergedLabels')
  BY <1>1, <1>2, NextPairs DEF C!MergedPairs, MergedPairs
<1>5. C!Merges(MergedLabels')
  <2>1. ASSUME NEW v \in Node
        PROVE  C!Connected(Node, Pairs(RemainingEdges), MergedLabels[v], MergedLabels'[v])
    BY <1>1, <1>2 DEF C!Connected, C!ClosedUnder, Connected, ClosedUnder
  <2> QED
    BY <1>2, <2>1 DEF C!Merges
<1>6. /\ (Pairs(RemainingEdges))' = Pairs(RemainingEdges')
      /\ (Pairs(ReadEdges(input)))' = Pairs(ReadEdges(input))
      /\ pc[0] \notin {"barrier", "done"} /\ pc'[0] \notin {"barrier", "done"}
  BY <1>1
<1> QED
  BY <1>2, <1>3, <1>4, <1>5, <1>6 DEF C!Contract

(* The call that finds no edge left is the one that returns the labels.    *)
LEMMA StepRefines == IInv /\ IInv' /\ [Next]_vars => [C!Next]_(C!vars)
<1> SUFFICES ASSUME IInv, IInv', [Next]_vars
             PROVE  C!Next \/ UNCHANGED C!vars
  OBVIOUS
<1>1. CASE MasterReduce
  BY <1>1, ReduceContracts DEF C!Next
<1>2. CASE ~ MasterReduce
  <2>1. /\ (Pairs(RemainingEdges))' = Pairs(RemainingEdges)
        /\ MergedLabels' = MergedLabels
    BY <1>2, OnlyReduceMerges
  <2>2. /\ 0 \in Rank /\ DOMAIN pc = Rank /\ \A s \in Slave : s # 0
        /\ edges \in Seq(ProperEdge)
    BY Constants DEF IInv, Basics
  <2>3. input' = input
    BY InputFixed
  <2>4. (Pairs(ReadEdges(input)))' = Pairs(ReadEdges(input))
    BY <2>3
  <2>5. CASE (pc[0] \in {"barrier", "done"})' = (pc[0] \in {"barrier", "done"})
    BY <2>1, <2>4, <2>5 DEF C!vars
  <2>6. CASE (pc[0] \in {"barrier", "done"})' # (pc[0] \in {"barrier", "done"})
    <3>1. MasterStep
      <4>1. ASSUME NEW r \in Slave, SlaveStep(r) PROVE FALSE
        BY <2>2, <2>6, <4>1, SlaveLocal, Constants DEF IInv, Local
      <4>2. ASSUME NEW r \in Rank, Finalize(r) PROVE FALSE
        BY <2>2, <2>6, <4>2 DEF Finalize, Goto
      <4>3. ASSUME UNCHANGED vars PROVE FALSE
        BY <2>6, <4>3 DEF vars
      <4> QED
        BY <4>1, <4>2, <4>3 DEF Next, Terminated
    <3>2. MasterScatter /\ Len(edges) = 0
      BY <2>2, <2>6, <3>1 DEF MasterStep, ReadGraph, MasterNNodes, MasterNEdges, MasterScatter,
         MasterScatterv, MasterHook, MasterReduce, FindRootsStep, FindRootsAgain,
         FindRootsReturn, MasterRelabel, MasterGather, MasterGatherv, Goto
    <3>3. pc[0] = "nEdges_local" /\ pc'[0] = "barrier" /\ edges = <<>>
      BY <2>2, <3>2 DEF MasterScatter, Goto
    <3>4. RemainingEdges = edges
      BY <3>3 DEF RemainingEdges
    <3>5. Pairs(RemainingEdges) = {}
      BY <3>3, <3>4 DEF Pairs
    <3>6. (pc[0] \in {"barrier", "done"})' = TRUE /\ ~ (pc[0] \in {"barrier", "done"})
      BY <3>3
    <3> QED
      BY <2>1, <2>4, <3>5, <3>6 DEF C!Next, C!Return
  <2> QED
    BY <2>5, <2>6
<1> QED
  BY <1>1, <1>2

(* The MPI program implements Contraction: whatever rank does whatever     *)
(* part of it when, each of its rounds is one of the merges that           *)
(* Contraction allows.                                                     *)
THEOREM ProgramContracts == Spec => Contracts
<1>1. Init => C!Init
  <2> SUFFICES ASSUME Init PROVE C!Init
    OBVIOUS
  <2>1. pc[0] = "read" /\ input \in Seq(Edge(Node))
    BY Constants, ConstantAssumption DEF Init
  <2>2. RemainingEdges = ReadEdges(input) /\ MergedLabels = [v \in Node |-> v]
    BY <2>1 DEF RemainingEdges, MergedLabels
  <2>3. Pairs(ReadEdges(input)) \subseteq SUBSET Node
    <3>1. ReadEdges(input) \in Seq({e \in Edge(Node) : e.from < e.to})
      BY <2>1, Constants, ReadEdgesType
    <3> QED
      BY <3>1 DEF Pairs, Pair, Edge
  <2>4. (pc[0] \in {"barrier", "done"}) = FALSE
    BY <2>1
  <2> QED
    BY <2>2, <2>3, <2>4 DEF C!Init
<1>2. IInv /\ IInv' /\ [Next]_vars => [C!Next]_(C!vars)
  BY StepRefines
<1> QED
  BY <1>1, <1>2, InvariantHolds, PTL DEF Spec, Contracts, C!Spec

-----------------------------------------------------------------------------
(* Contraction again, with what is proved of it. *)
CP == INSTANCE ContractionProofs WITH
        input <- Pairs(ReadEdges(input)),
        edges <- Pairs(RemainingEdges),
        labels <- MergedLabels,
        done <- pc[0] \in {"barrier", "done"}

(* The labels that rank 0 returns are the components of the edges that     *)
(* main kept.                                                              *)
LEMMA ComponentsReturned == Spec => []CP!Correct
<1>1. C!Init => CP!Init
  BY DEF C!Init, CP!Init
<1>2. [C!Next]_(C!vars) => [CP!Next]_(CP!vars)
  <2>1. C!vars = CP!vars /\ C!vars' = CP!vars'
    BY DEF C!vars, CP!vars
  <2>2. C!Contract => CP!Contract
    BY DEF C!Contract, CP!Contract, C!Merges, CP!Merges, C!MergedPairs, CP!MergedPairs,
           C!Connected, CP!Connected, C!ClosedUnder, CP!ClosedUnder
  <2>3. C!Return => CP!Return
    BY DEF C!Return, CP!Return
  <2>4. C!Terminated => CP!Terminated
    BY <2>1 DEF C!Terminated, CP!Terminated
  <2> QED
    BY <2>1, <2>2, <2>3, <2>4 DEF C!Next, CP!Next
<1>3. CP!Spec => []CP!Correct
  BY CP!ContractionCorrect
<1> QED
  BY <1>1, <1>2, <1>3, ProgramContracts, PTL DEF Contracts, C!Spec, CP!Spec

(* They point upwards: they name every component by its largest vertex.    *)
LEMMA LargestReturned == IInv /\ CP!Correct => Correct
<1> SUFFICES ASSUME IInv, CP!Correct, pc[0] \in {"barrier", "done"}
             PROVE  labels[0] = [v \in Node |-> Max(Component(Node, E, v))]
  BY DEF Correct
<1>1. MergedLabels = labels[0]
  BY DEF MergedLabels
<1>2. /\ Upwards(Node, labels[0])
      /\ \A v \in Node : labels[0][labels[0][v]] = labels[0][v]
  BY <1>1 DEF IInv, Forests
<1>3. input \in Seq(Edge(Node))
  BY ConstantAssumption DEF IInv, Basics
<1>4. ASSUME NEW u \in Node, NEW v \in Node
      PROVE  labels[0][u] = labels[0][v] <=> Connected(Node, E, u, v)
  <2>1. labels[0][u] = labels[0][v] <=> CP!Connected(Node, Pairs(ReadEdges(input)), u, v)
    BY <1>1 DEF CP!Correct
  <2>2. CP!Connected(Node, Pairs(ReadEdges(input)), u, v)
          <=> Connected(Node, Pairs(ReadEdges(input)), u, v)
    BY DEF CP!Connected, CP!ClosedUnder, Connected, ClosedUnder
  <2>3. Connected(Node, Pairs(ReadEdges(input)), u, v) <=> Connected(Node, E, u, v)
    BY <1>3, Constants, ReadEdgesConnected DEF E
  <2> QED
    BY <2>1, <2>2, <2>3
<1> QED
  BY <1>2, <1>4, Constants, LargestLabels

(* For every graph and every number of ranks, rank 0 returns for every     *)
(* vertex the largest vertex of its component in the file.                 *)
THEOREM ProgramCorrect == Spec => []Correct
<1>1. IInv /\ CP!Correct => Correct
  BY LargestReturned
<1> QED
  BY <1>1, InvariantHolds, ComponentsReturned, PTL
-----------------------------------------------------------------------------
(***************************************************************************)
(* What a reduction makes of the edges.  An edge that points up is taken   *)
(* by the hook of its lower end, or another one is: the lower end is no    *)
(* label any more, and the edge that was taken is dropped.                 *)
(***************************************************************************)

(* The vertices that are labels.                                           *)
Representatives == {v \in Node : MergedLabels[v] = v}

LEMMA SomeVertices ==
  N \in Nat /\ N # 0 /\ IsFiniteSet(Node) /\ Cardinality(Node) = N
<1>1. N \in Nat /\ N # 0 /\ 0 \in Int /\ N - 1 \in Int
  BY Constants
<1>2. IsFiniteSet(0 .. N-1) /\ Cardinality(0 .. N-1) = N
  BY <1>1, FS_Interval
<1> QED
  BY <1>1, <1>2 DEF Node

(* The label of vertex 0 is a label.                                       *)
LEMMA RepresentativesType ==
  ASSUME IInv
  PROVE  /\ Representatives \in SUBSET Node /\ IsFiniteSet(Representatives)
         /\ Cardinality(Representatives) \in 1 .. N
<1>1. Representatives \in SUBSET Node
  BY DEF Representatives
<1>2. /\ IsFiniteSet(Representatives) /\ Cardinality(Representatives) \in Nat
      /\ Cardinality(Representatives) <= N
  BY <1>1, SomeVertices, FS_Subset, FS_CardinalityType
<1>3. 0 \in Node
  BY SomeVertices DEF Node
<1>4. MergedLabels[0] \in Representatives
  BY <1>3 DEF IInv, Forests, Upwards, Representatives
<1>5. Cardinality(Representatives) # 0
  BY <1>2, <1>4, FS_EmptySet
<1> QED
  BY <1>1, <1>2, <1>5, SomeVertices

(* A label of the next round was one of this, and hooked nothing.          *)
LEMMA LabelsRemain ==
  ASSUME IInv, MasterReduce, NEW v \in Representatives'
  PROVE  /\ v \in Representatives /\ hook_nodes(edges, MergedLabels)[v] = v
<1> DEFINE m == MergedLabels
           h == hook_nodes(edges, m)
<1>1. /\ edges \in Seq(ProperEdge) /\ m \in [Node -> Node] /\ Upwards(Node, m)
      /\ IsForest(Node, h) /\ m' = Roots(Node, h)
  BY Reduction
<1>2. v \in Node /\ m'[v] = v
  BY DEF Representatives
<1>3. h[v] = v
  BY <1>1, <1>2, RootsOfForest
<1>4. /\ \A x \in {m[v]} \cup Offers(edges, v) : x <= h[v]
      /\ {m[v]} \cup Offers(edges, v) \in SUBSET Node
  BY <1>1, <1>2, HookIsLargest
<1>5. v <= m[v] /\ m[v] <= v /\ m[v] \in Int /\ v \in Int
  BY <1>1, <1>2, <1>3, <1>4, Constants DEF Upwards
<1>6. m[v] = v
  BY <1>5
<1> QED
  BY <1>2, <1>3, <1>6 DEF Representatives

LEMMA UpEdgeMerges ==
  ASSUME IInv, MasterReduce, NEW k \in DOMAIN edges, edges[k].from < edges[k].to
  PROVE  /\ edges[k].from \in Representatives /\ edges[k].from \notin Representatives'
         /\ \E j \in DOMAIN edges : j \notin Kept(edges, MergedLabels')
<1> DEFINE m == MergedLabels
           h == hook_nodes(edges, m)
           v == edges[k].from
<1>1. /\ edges \in Seq(ProperEdge) /\ m \in [Node -> Node]
      /\ \A i \in DOMAIN edges : m[edges[i].from] = edges[i].from
      /\ IsForest(Node, h) /\ m' = Roots(Node, h)
  BY Reduction
<1>2. v \in Node /\ v \in Int /\ edges[k].to \in Int
  BY <1>1, ProperEnds
<1>3. /\ h[v] \in {m[v]} \cup Offers(edges, v)
      /\ {m[v]} \cup Offers(edges, v) \in SUBSET Node
      /\ \A x \in {m[v]} \cup Offers(edges, v) : x <= h[v]
  BY <1>1, <1>2, HookIsLargest
<1>4. edges[k].to \in Offers(edges, v)
  BY DEF Offers
<1>5. h[v] # v /\ h[v] # m[v]
  <2>1. edges[k].to <= h[v] /\ h[v] \in Int /\ m[v] = v
    BY <1>1, <1>3, <1>4, Constants
  <2> QED
    BY <1>2, <2>1
<1>6. v \in Representatives
  BY <1>1, <1>2 DEF Representatives
<1>7. v \notin Representatives'
  BY <1>5, LabelsRemain
<1>8. PICK j \in DOMAIN edges : edges[j].from = v /\ edges[j].to = h[v]
  BY <1>3, <1>5 DEF Offers
<1>9. m'[h[v]] = m'[v]
  BY <1>1, <1>2, RootsOfForest
<1>10. j \notin Kept(edges, m')
  BY <1>8, <1>9 DEF Kept
<1> QED
  BY <1>6, <1>7, <1>10

(* Edges that all point down hook nothing, are kept, and turned round.     *)
LEMMA DownEdgesTurn ==
  ASSUME IInv, MasterReduce, \A k \in DOMAIN edges : ~ (edges[k].from < edges[k].to)
  PROVE  /\ MergedLabels' = MergedLabels
         /\ \E k \in DOMAIN RemainingEdges' : RemainingEdges'[k].from < RemainingEdges'[k].to
<1> DEFINE m == MergedLabels
           h == hook_nodes(edges, m)
<1>1. /\ edges \in Seq(ProperEdge) /\ edges # <<>> /\ m \in [Node -> Node]
      /\ \A v \in Node : m[m[v]] = m[v]
      /\ \A i \in DOMAIN edges : m[edges[i].from] = edges[i].from /\ m[edges[i].to] = edges[i].to
      /\ IsForest(Node, h) /\ m' = Roots(Node, h)
      /\ RemainingEdges' = compute_next_edges(edges, m')
  BY Reduction
<1>2. ASSUME NEW i \in DOMAIN edges
      PROVE  /\ edges[i] \in ProperEdge /\ edges[i].from \in Node /\ edges[i].to \in Node
             /\ edges[i].to < edges[i].from /\ edges[i].from # edges[i].to
             /\ edges[i].from \in Int /\ edges[i].to \in Int
  <2>1. edges[i] \in ProperEdge
    BY <1>1
  <2> QED
    BY <2>1, ProperEnds
<1>3. ASSUME NEW v \in Node PROVE h[v] = m[v]
  <2>1. /\ h[v] \in {m[v]} \cup Offers(edges, v)
        /\ \A x \in {m[v]} \cup Offers(edges, v) : x <= h[v]
    BY <1>1, HookIsLargest
  <2>2. CASE h[v] \in Offers(edges, v)
    <3>1. PICK k \in DOMAIN edges : edges[k].from = v /\ edges[k].to = h[v]
      BY <2>2 DEF Offers
    <3>2. h[v] < v /\ m[v] = v /\ v \in Int /\ h[v] \in Int
      BY <1>1, <1>2, <3>1
    <3>3. m[v] <= h[v]
      BY <2>1
    <3> QED
      BY <3>2, <3>3
  <2> QED
    BY <2>1, <2>2
<1>4. h = m
  <2>1. h = [v \in Node |-> h[v]]
    BY DEF hook_nodes
  <2> HIDE DEF h, m
  <2> QED
    BY <1>1, <1>3, <2>1
<1> HIDE DEF m, h
<1>5. m' = m
  BY <1>1, <1>4, RootsOfFlat
<1> DEFINE K == Kept(edges, m)
           t == compute_next_edges(edges, m)
<1>6. /\ K \in SUBSET Int /\ IsFiniteSet(K)
      /\ DOMAIN t = 1 .. Cardinality(K)
      /\ \A k \in DOMAIN t : t[k] = NextEdge(edges[Nth(K, k)], m)
  BY <1>1, NextEdges
<1>7. 1 \in DOMAIN edges /\ 1 \in K
  <2>1. 1 \in DOMAIN edges
    BY <1>1
  <2> QED
    BY <1>1, <1>2, <2>1 DEF Kept
<1> HIDE DEF K, t
<1>8. Upto(K, 1) \in DOMAIN t /\ t[Upto(K, 1)] = NextEdge(edges[1], m)
  <2>1. Upto(K, 1) \in DOMAIN t /\ Nth(K, Upto(K, 1)) = 1
    BY <1>6, <1>7, UptoInRange, NthUpto
  <2> QED
    BY <1>6, <2>1
<1>9. NextEdge(edges[1], m) = [from |-> edges[1].to, to |-> edges[1].from]
  BY <1>1, <1>2, <1>7 DEF NextEdge
<1>10. t[Upto(K, 1)].from < t[Upto(K, 1)].to
  BY <1>2, <1>7, <1>8, <1>9
<1>11. RemainingEdges' = t
  BY <1>1, <1>5 DEF t
<1> QED
  BY <1>5, <1>8, <1>10, <1>11 DEF m

(* The edges as main read them all point up.                               *)
LEMMA ReadEdgesUp ==
  ASSUME IInv
  PROVE  /\ ReadEdges(input) \in Seq(ProperEdge)
         /\ \A k \in DOMAIN ReadEdges(input) : ReadEdges(input)[k].from < ReadEdges(input)[k].to
<1>1. input \in Seq(Edge(Node))
  BY ConstantAssumption DEF IInv, Basics
<1>2. ReadEdges(input) \in Seq({e \in Edge(Node) : e.from < e.to})
  BY <1>1, Constants, ReadEdgesType
<1>3. {e \in Edge(Node) : e.from < e.to} \subseteq ProperEdge
  <2>1. \A v \in Node : v \in Int
    BY Constants
  <2> QED
    BY <2>1 DEF ProperEdge, Edge
<1> QED
  BY <1>2, <1>3

(* What remains of the edges is not more than there are.                   *)
LEMMA Remaining ==
  ASSUME IInv
  PROVE  /\ RemainingEdges \in Seq(ProperEdge)
         /\ pc[0] \notin MasterDescent => /\ RemainingEdges = compute_next_edges(edges, MergedLabels)
                                         /\ Len(RemainingEdges) = Cardinality(Kept(edges, MergedLabels))
<1>1. edges \in Seq(ProperEdge) /\ MergedLabels \in [Node -> Node]
  BY DEF IInv, Basics, Forests, Upwards
<1>2. CASE pc[0] \in MasterDescent
  BY <1>1, <1>2, ReadEdgesUp DEF RemainingEdges, MasterDescent
<1>3. CASE pc[0] \notin MasterDescent
  <2>1. RemainingEdges = compute_next_edges(edges, MergedLabels)
    BY <1>3 DEF IInv, Basics, Relabelling, RemainingEdges
  <2> QED
    BY <1>1, <1>3, <2>1, NextEdges
<1> QED
  BY <1>2, <1>3
-----------------------------------------------------------------------------
(***************************************************************************)
(* Rounds.  A round with an edge that points up takes a vertex out of the  *)
(* labels; one without turns all edges round, so the next one does.        *)
(***************************************************************************)

(* The rounds that have merged their labels.                               *)
Begun == {"nEdges_local", "edges_slice", "labels", "hooks", "barrier", "done"}

Spent == IF pc[0] \in Begun THEN iteration - 1 ELSE iteration

RoundsLeft ==
  /\ Spent \in Nat
  /\ \/ Spent = 0 /\ RemainingEdges = ReadEdges(input)
     \/ Spent <= 2 * (N - Cardinality(Representatives)) - 1
     \/ /\ Spent <= 2 * (N - Cardinality(Representatives))
        /\ \E k \in DOMAIN RemainingEdges : RemainingEdges[k].from < RemainingEdges[k].to

(* A round is spent by its reduction only.                                 *)
LEMMA OnlyReduceSpends ==
  ASSUME IInv, [Next]_vars, ~ MasterReduce
  PROVE  Spent' = Spent
<1>1. /\ 0 \in Rank /\ DOMAIN pc = Rank /\ iteration \in Nat
      /\ \A s \in Slave : s \in Rank /\ s # 0
  BY Constants DEF IInv, Basics
<1>2. CASE MasterNEdges
  <2>1. pc[0] = "nEdges" /\ pc'[0] = "nEdges_local" /\ iteration' = iteration + 1
    BY <1>1, <1>2 DEF MasterNEdges, Goto
  <2> QED
    BY <1>1, <2>1 DEF Spent, Begun
<1>3. CASE \/ ReadGraph \/ MasterNNodes \/ MasterScatter \/ MasterScatterv \/ MasterHook
           \/ FindRootsStep \/ FindRootsAgain \/ FindRootsReturn
           \/ MasterRelabel \/ MasterGather \/ MasterGatherv
  <2>1. /\ iteration' = iteration
        /\ pc'[0] \in Begun <=> pc[0] \in Begun
    BY <1>1, <1>3 DEF ReadGraph, MasterNNodes, MasterScatter, MasterScatterv, MasterHook,
       FindRootsStep, FindRootsAgain, FindRootsReturn, MasterRelabel, MasterGather,
       MasterGatherv, Goto, masterVars, Begun
  <2> QED
    BY <2>1 DEF Spent
<1>4. ASSUME NEW r \in Slave, SlaveStep(r) PROVE Spent' = Spent
  BY <1>1, <1>4, SlaveLocal DEF IInv, Local, Spent
<1>5. ASSUME NEW r \in Rank, Finalize(r) PROVE Spent' = Spent
  BY <1>1, <1>5 DEF Finalize, Goto, masterVars, Spent, Begun
<1>6. CASE Terminated \/ UNCHANGED vars
  BY <1>6 DEF Terminated, vars, masterVars, Spent
<1> QED
  BY <1>2, <1>3, <1>4, <1>5, <1>6 DEF Next, MasterStep

LEMMA InitRounds == Init => RoundsLeft
<1> SUFFICES ASSUME Init PROVE RoundsLeft
  OBVIOUS
<1>1. pc[0] = "read" /\ iteration = 0
  BY Constants DEF Init
<1>2. Spent = 0 /\ RemainingEdges = ReadEdges(input)
  BY <1>1 DEF Spent, Begun, RemainingEdges
<1> QED
  BY <1>2 DEF RoundsLeft

LEMMA ReduceRounds ==
  ASSUME IInv, IInv', RoundsLeft, MasterReduce
  PROVE  RoundsLeft'
<1>1. /\ pc[0] = "hooks" /\ pc'[0] = "find_roots" /\ iteration' = iteration
      /\ input' = input /\ edges # <<>> /\ edges \in Seq(ProperEdge)
      /\ RemainingEdges = edges
  BY Reduction
<1>2. iteration \in Nat /\ Spent \in Nat
  BY DEF IInv, Basics, RoundsLeft
<1>3. Spent' = Spent + 1
  BY <1>1, <1>2 DEF Spent, Begun
<1>4. /\ N \in Nat
      /\ Representatives \in SUBSET Node /\ IsFiniteSet(Representatives)
      /\ Cardinality(Representatives) \in 1 .. N
  BY SomeVertices, RepresentativesType
<1>5. CASE \E k \in DOMAIN edges : edges[k].from < edges[k].to
  <2>1. PICK k \in DOMAIN edges : edges[k].from < edges[k].to
    BY <1>5
  <2>2. edges[k].from \in Representatives /\ edges[k].from \notin Representatives'
    BY <2>1, UpEdgeMerges
  <2>3. Representatives' \in SUBSET Representatives /\ Representatives' # Representatives
    <3>1. \A v \in Representatives' : v \in Representatives
      BY LabelsRemain
    <3> QED
      BY <2>2, <3>1
  <2>4. /\ Cardinality(Representatives') \in Nat
        /\ Cardinality(Representatives') <= Cardinality(Representatives)
        /\ Cardinality(Representatives') # Cardinality(Representatives)
    BY <1>4, <2>3, FS_Subset, FS_CardinalityType
  <2>5. Spent <= 2 * (N - Cardinality(Representatives))
    BY <1>2, <1>4 DEF RoundsLeft
  <2>6. Spent + 1 <= 2 * (N - Cardinality(Representatives')) - 1
    BY <1>2, <1>4, <2>4, <2>5
  <2> QED
    BY <1>2, <1>3, <2>6 DEF RoundsLeft
<1>6. CASE \A k \in DOMAIN edges : ~ (edges[k].from < edges[k].to)
  <2>1. /\ MergedLabels' = MergedLabels
        /\ \E k \in DOMAIN RemainingEdges' : RemainingEdges'[k].from < RemainingEdges'[k].to
    BY <1>6, DownEdgesTurn
  <2>2. Representatives' = Representatives
    BY <2>1 DEF Representatives
  <2>3. RemainingEdges # ReadEdges(input)
    <3>1. 1 \in DOMAIN edges
      BY <1>1
    <3> QED
      BY <1>1, <1>6, <3>1, ReadEdgesUp
  <2>4. Spent <= 2 * (N - Cardinality(Representatives)) - 1
    BY <1>1, <1>6, <2>3 DEF RoundsLeft
  <2>5. Spent + 1 <= 2 * (N - Cardinality(Representatives))
    BY <1>2, <1>4, <2>4
  <2> QED
    BY <1>2, <1>3, <2>1, <2>2, <2>5 DEF RoundsLeft
<1> QED
  BY <1>5, <1>6

LEMMA NextRounds == IInv /\ IInv' /\ RoundsLeft /\ [Next]_vars => RoundsLeft'
<1> SUFFICES ASSUME IInv, IInv', RoundsLeft, [Next]_vars PROVE RoundsLeft'
  OBVIOUS
<1>1. CASE MasterReduce
  BY <1>1, ReduceRounds
<1>2. CASE ~ MasterReduce
  <2>1. MergedLabels' = MergedLabels /\ RemainingEdges' = RemainingEdges
    BY <1>2, OnlyReduceMerges
  <2>2. Spent' = Spent /\ input' = input
    BY <1>2, OnlyReduceSpends, InputFixed
  <2>3. Representatives' = Representatives
    BY <2>1 DEF Representatives
  <2> QED
    BY <2>1, <2>2, <2>3 DEF RoundsLeft
<1> QED
  BY <1>1, <1>2

(* An edge that remains joins two labels.                                  *)
LEMMA EdgeJoinsLabels ==
  ASSUME IInv, pc[0] \in MasterDescent, RemainingEdges # <<>>
  PROVE  2 <= Cardinality(Representatives)
<1>1. RemainingEdges \in Seq(ProperEdge) /\ 1 \in DOMAIN RemainingEdges
  BY Remaining
<1> DEFINE a == RemainingEdges[1].from
           b == RemainingEdges[1].to
<1>2. a \in Node /\ b \in Node /\ a # b
  BY <1>1, ProperEnds
<1>3. a \in Representatives /\ b \in Representatives
  BY <1>1, <1>2 DEF IInv, EndsSettled, Representatives
<1> HIDE DEF a, b
<1>4. Cardinality({a, b}) = 2
  <2>1. IsFiniteSet({a}) /\ Cardinality({a}) = 1
    BY FS_Singleton
  <2>2. Cardinality({a} \cup {b}) = Cardinality({a}) + 1
    <3>1. b \notin {a}
      BY <1>2
    <3> QED
      BY <2>1, <3>1, FS_AddElement
  <2>3. Cardinality({a} \cup {b}) = 2
    BY <2>1, <2>2
  <2>4. {a, b} = {a} \cup {b}
    OBVIOUS
  <2> QED
    BY <2>3, <2>4, Zenon
<1>5. Cardinality({a, b}) <= Cardinality(Representatives)
  <2>1. {a, b} \in SUBSET Representatives
    BY <1>3
  <2> QED
    BY <2>1, RepresentativesType, FS_Subset
<1> QED
  BY <1>4, <1>5

(* However the edges fall, master recurses no deeper than two rounds for   *)
(* every merge.                                                            *)
THEOREM RoundsBound == Spec => []RoundsBounded
<1>1. ASSUME IInv, RoundsLeft PROVE RoundsBounded
  <2> DEFINE R == Cardinality(Representatives)
  <2>1. /\ N \in Nat /\ N # 0 /\ R \in 1 .. N
        /\ iteration \in Nat /\ Spent \in Nat
        /\ iteration = Spent \/ (pc[0] \in Begun /\ iteration = Spent + 1)
    BY <1>1, SomeVertices, RepresentativesType DEF IInv, Basics, RoundsLeft, Spent
  <2>2. Begun \subseteq MasterDescent
    BY DEF Begun, MasterDescent
  <2>3. CASE Spent = 0
    BY <2>1, <2>3 DEF RoundsBounded
  <2>4. CASE Spent <= 2 * (N - R) - 1
    BY <2>1, <2>4 DEF RoundsBounded
  <2>5. CASE /\ Spent <= 2 * (N - R)
             /\ \E k \in DOMAIN RemainingEdges : RemainingEdges[k].from < RemainingEdges[k].to
    <3>1. RemainingEdges # <<>>
      BY <2>5
    <3>2. N # 1
      <4>1. RemainingEdges \in Seq(ProperEdge) /\ 1 \in DOMAIN RemainingEdges
        BY <1>1, <3>1, Remaining
      <4>2. \E a, b \in Node : a # b
        BY <4>1, ProperEnds
      <4> QED
        BY <4>2 DEF Node
    <3>3. CASE pc[0] \in Begun
      <4>1. 2 <= R
        BY <1>1, <2>2, <3>1, <3>3, EdgeJoinsLabels
      <4> QED
        BY <2>1, <2>5, <3>2, <4>1 DEF RoundsBounded
    <3>4. CASE iteration = Spent
      BY <2>1, <2>5, <3>2, <3>4 DEF RoundsBounded
    <3> QED
      BY <2>1, <3>3, <3>4
  <2> QED
    BY <1>1, <2>3, <2>4, <2>5 DEF RoundsLeft
<1>2. Init => RoundsLeft
  BY InitRounds
<1>3. IInv /\ IInv' /\ RoundsLeft /\ [Next]_vars => RoundsLeft'
  BY NextRounds
<1> QED
  BY <1>1, <1>2, <1>3, InvariantHolds, PTL DEF Spec-----------------------------------------------------------------------------
(***************************************************************************)
(* Ints.  The first round drops an edge: every later one has fewer than    *)
(* main read, and so has every gather.                                     *)
(***************************************************************************)
Dropping ==
  /\ Len(edges) <= Len(ReadEdges(input))
  /\ \/ RemainingEdges = ReadEdges(input) /\ pc[0] \in MasterDescent
     \/ Len(RemainingEdges) < Len(ReadEdges(input))
  /\ \/ Below(next_edges_per_proc, P) = 0
     \/ Below(next_edges_per_proc, P) \in 1 .. Len(ReadEdges(input)) - 1

LEMMA InitDropping == Init => Dropping
<1> SUFFICES ASSUME Init PROVE Dropping
  OBVIOUS
<1>1. /\ pc[0] = "read" /\ edges = <<>> /\ input \in Seq(Edge(Node))
      /\ next_edges_per_proc = [r \in Rank |-> 0]
  BY Constants, ConstantAssumption DEF Init
<1>2. Len(edges) <= Len(ReadEdges(input))
  <2>1. ReadEdges(input) \in Seq({e \in Edge(Node) : e.from < e.to})
    BY <1>1, Constants, ReadEdgesType
  <2> QED
    BY <1>1, <2>1
<1>3. RemainingEdges = ReadEdges(input) /\ pc[0] \in MasterDescent
  BY <1>1 DEF RemainingEdges, MasterDescent
<1>4. Below(next_edges_per_proc, P) = 0
  <2> DEFINE c == next_edges_per_proc
             S == {r \in 0 .. P : Below(c, r) = 0}
  <2>1. P \in Nat /\ c \in [Rank -> Nat] /\ \A r \in Rank : c[r] = 0
    BY <1>1, Constants
  <2> HIDE DEF c
  <2>2. 0 \in S
    BY <2>1, BelowSum
  <2>3. ASSUME NEW r \in 0 .. P-1, r \in S PROVE r + 1 \in S
    <3>1. r \in Rank /\ r + 1 \in 0 .. P
      BY <2>1 DEF Rank
    <3> QED
      BY <2>1, <2>3, <3>1, BelowSum
  <2>4. \A r \in 0 .. P : r \in S
    <3> HIDE DEF S
    <3> QED
      BY <2>1, <2>2, <2>3, CountingUp
  <2>5. P \in 0 .. P
    BY <2>1
  <2> QED
    BY <2>4, <2>5 DEF c
<1> QED
  BY <1>2, <1>3, <1>4 DEF Dropping

(* The reduction of the first round makes an edge superfluous.             *)
LEMMA ReduceDrops ==
  ASSUME IInv, IInv', Dropping, MasterReduce
  PROVE  Dropping'
<1> DEFINE K == Kept(edges, MergedLabels')
<1>1. /\ pc[0] = "hooks" /\ pc'[0] = "find_roots"
      /\ edges \in Seq(ProperEdge) /\ edges # <<>>
      /\ UNCHANGED <<input, edges, next_edges_per_proc>>
      /\ RemainingEdges = edges
      /\ RemainingEdges' = compute_next_edges(edges, MergedLabels')
  BY Reduction
<1>2. MergedLabels' \in [Node -> Node]
  BY ReductionMerges DEF MergesAlong
<1>3. /\ RemainingEdges' \in Seq(ProperEdge)
      /\ Len(RemainingEdges') = Cardinality(K)
      /\ IsFiniteSet(K) /\ K \in SUBSET DOMAIN edges
  BY <1>1, <1>2, NextEdges DEF Kept
<1>4. /\ Len(edges) \in Nat /\ DOMAIN edges = 1 .. Len(edges)
      /\ IsFiniteSet(DOMAIN edges) /\ Cardinality(DOMAIN edges) = Len(edges)
  BY <1>1, FirstFinite
<1>5. Len(ReadEdges(input)) \in Nat
  BY ReadEdgesUp
<1> HIDE DEF K
<1>6. Len(RemainingEdges') < Len(ReadEdges(input))
  <2>1. Cardinality(K) \in Nat /\ Cardinality(K) <= Len(edges)
    BY <1>3, <1>4, FS_Subset, FS_CardinalityType
  <2>2. CASE RemainingEdges = ReadEdges(input)
    <3>1. 1 \in DOMAIN edges
      BY <1>1
    <3>2. edges[1].from < edges[1].to
      BY <1>1, <2>2, <3>1, ReadEdgesUp
    <3>3. PICK j \in DOMAIN edges : j \notin K
      BY <3>1, <3>2, UpEdgeMerges DEF K
    <3>4. Cardinality(K) # Cardinality(DOMAIN edges)
      BY <1>3, <1>4, <3>3, FS_Subset
    <3> QED
      BY <1>1, <1>3, <1>4, <2>1, <2>2, <3>4
  <2>3. CASE Len(RemainingEdges) < Len(ReadEdges(input))
    BY <1>1, <1>3, <1>4, <1>5, <2>1, <2>3
  <2> QED
    BY <2>2, <2>3 DEF Dropping
<1> QED
  BY <1>1, <1>6 DEF Dropping

(* Rank 0 is told how many edges remain.                                   *)
LEMMA GatherCounts ==
  ASSUME IInv, IInv', MasterGather
  PROVE  Below(next_edges_per_proc', P) = Len(RemainingEdges)
<1>1. 0 \in Rank /\ DOMAIN pc = Rank /\ edges \in Seq(ProperEdge)
  BY Constants DEF IInv, Basics
<1>2. /\ pc[0] = "next_nEdges_local" /\ pc'[0] = "nextEdges"
      /\ edges' = edges /\ labels' = labels /\ edges_slice' = edges_slice
  BY <1>1 DEF MasterGather, Goto, rankVars
<1>3. labels[0] \in [Node -> Node]
  BY <1>2 DEF IInv, Forests, Upwards
<1> DEFINE left == [r \in Rank |-> Left(r)]
           c == next_edges_per_proc'
<1>4. c = [r \in Rank |-> Len(Left(r))]
  <2>1. \A r : Left(r)' = Left(r)
    BY <1>2, SameRound
  <2>2. c = [r \in Rank |-> Len(Left(r)')]
    BY <1>2 DEF IInv, MasterHolds
  <2> QED
    BY <2>1, <2>2
<1>5. ASSUME NEW r \in Rank
      PROVE  /\ left[r] = compute_next_edges(
                             Slice(edges, calculate_edges_per_processor(Len(edges)), r), labels[0])
             /\ c[r] = Len(left[r])
             /\ Len(Left(r)) \in Nat
  <2>1. Share(r) \in Seq(ProperEdge)
    BY ShareType
  <2>2. Left(r) \in Seq(ProperEdge)
    BY <1>3, <2>1, NextEdges DEF Left
  <2>3. left[r] = Left(r) /\ c[r] = Len(Left(r))
    BY <1>4
  <2> QED
    BY <2>2, <2>3 DEF Left, Share, Counts
<1>6. c \in [Rank -> Nat]
  BY <1>4, <1>5
<1> HIDE DEF left, c
<1>7. Below(c, P) = Cardinality(Kept(edges, labels[0]))
  BY <1>1, <1>3, <1>5, <1>6, GatheredNextEdges
<1>8. MergedLabels = labels[0] /\ pc[0] \notin MasterDescent
  BY <1>2 DEF MergedLabels, MasterDescent
<1> QED
  BY <1>7, <1>8, Remaining DEF c

LEMMA NextDropping == IInv /\ IInv' /\ Dropping /\ [Next]_vars => Dropping'
<1> SUFFICES ASSUME IInv, IInv', Dropping, [Next]_vars PROVE Dropping'
  OBVIOUS
<1>1. CASE MasterReduce
  BY <1>1, ReduceDrops
<1>2. CASE ~ MasterReduce
  <2>1. /\ 0 \in Rank /\ DOMAIN pc = Rank /\ \A s \in Slave : s \in Rank /\ s # 0
    BY Constants DEF IInv, Basics
  <2>2. MergedLabels' = MergedLabels /\ RemainingEdges' = RemainingEdges /\ input' = input
    BY <1>2, OnlyReduceMerges, InputFixed
  <2> DEFINE Kept1 == pc[0] \in MasterDescent => pc'[0] \in MasterDescent
             Kept2 == edges' = edges \/ edges' = RemainingEdges'
             Kept3 == next_edges_per_proc' = next_edges_per_proc \/ MasterGather
  <2>3. Kept1 /\ Kept2 /\ Kept3
    <3>1. CASE MasterStep
      <4>1. CASE ReadGraph
        BY <2>1, <4>1 DEF ReadGraph, Goto, MasterDescent, RemainingEdges
      <4>2. CASE MasterGatherv
        BY <2>1, <4>2 DEF MasterGatherv, Goto, MasterDescent, RemainingEdges
      <4>3. CASE MasterNNodes \/ MasterNEdges \/ MasterScatter \/ MasterScatterv \/ MasterHook
        BY <2>1, <4>3 DEF MasterNNodes, MasterNEdges, MasterScatter, MasterScatterv,
           MasterHook, Goto, masterVars, MasterDescent
      <4>4. CASE FindRootsStep \/ FindRootsAgain \/ FindRootsReturn \/ MasterRelabel \/ MasterGather
        BY <2>1, <4>4 DEF FindRootsStep, FindRootsAgain, FindRootsReturn, MasterRelabel,
           MasterGather, Goto, masterVars, MasterDescent
      <4> QED
        BY <1>2, <3>1, <4>1, <4>2, <4>3, <4>4 DEF MasterStep
    <3>2. ASSUME NEW r \in Slave, SlaveStep(r) PROVE Kept1 /\ Kept2 /\ Kept3
      BY <2>1, <3>2, SlaveLocal DEF IInv, Local
    <3>3. ASSUME NEW r \in Rank, Finalize(r) PROVE Kept1 /\ Kept2 /\ Kept3
      BY <2>1, <3>3 DEF Finalize, Goto, masterVars, MasterDescent
    <3>4. CASE UNCHANGED vars
      BY <3>4 DEF vars, masterVars
    <3> QED
      BY <3>1, <3>2, <3>3, <3>4 DEF Next, Terminated
  <2>4. /\ Len(ReadEdges(input)) \in Nat /\ Len(RemainingEdges) \in Nat
    BY ReadEdgesUp, Remaining
  <2>5. Len(edges') <= Len(ReadEdges(input))
    BY <2>2, <2>3, <2>4 DEF Dropping
  <2>6. \/ Below(next_edges_per_proc', P) = 0
        \/ Below(next_edges_per_proc', P) \in 1 .. Len(ReadEdges(input)) - 1
    <3>1. CASE MasterGather
      <4>1. pc[0] \notin MasterDescent
        BY <3>1 DEF MasterGather, MasterDescent
      <4>2. Len(RemainingEdges) < Len(ReadEdges(input))
        BY <4>1 DEF Dropping
      <4> QED
        BY <2>4, <3>1, <4>2, GatherCounts
    <3> QED
      BY <2>3, <3>1 DEF Dropping
  <2> QED
    BY <2>2, <2>3, <2>5, <2>6 DEF Dropping
<1> QED
  BY <1>1, <1>2

(* With one edge more than an int can count there is no rank without an    *)
(* edge, so that none but the last comes near the end.                     *)
LEMMA SharesFit ==
  ASSUME NEW n \in Nat, n <= IntMax + 1, P > 1, NEW r \in Rank
  PROVE  LET c == calculate_edges_per_processor(n)
         IN  c[r] <= IntMax /\ Below(c, r) <= IntMax
<1> DEFINE c == calculate_edges_per_processor(n)
<1>1. c \in [Rank -> Nat] /\ Below(c, P) = n
  BY CountsShareAll
<1>2. /\ P \in Nat /\ r \in Nat /\ r <= P - 1 /\ IntMax \in Nat
      /\ P - 1 \in Rank /\ P - 1 \in 0 .. P /\ r \in 0 .. P /\ P \in 0 .. P
      /\ 0 \in Rank /\ 0 \in 0 .. P
      /\ P - 1 <= IntMax
  BY Constants, ConstantAssumption DEF Rank
<1>3. c[r] \in Nat /\ Below(c, r) \in Nat /\ Below(c, r) + c[r] <= n
  <2> HIDE DEF c
  <2> QED
    BY <1>1, <1>2, BelowSum, BelowRises
<1> DEFINE Fits == c[r] <= IntMax /\ Below(c, r) <= IntMax
<1>4. ASSUME n <= IntMax PROVE Fits
  <2> HIDE DEF c
  <2> QED
    BY <1>2, <1>3, <1>4
<1>5. ASSUME n = IntMax + 1 PROVE Fits
  <2>1. P <= n
    BY <1>2, <1>5
  <2>2. n \div P \in Nat /\ n \div P >= 1
    BY <1>2, <2>1
  <2>3. \A s \in Rank : c[s] >= 1
    BY <2>2 DEF calculate_edges_per_processor
  <2> HIDE DEF c
  <2>4. /\ Below(c, P - 1) \in Nat /\ c[P - 1] \in Nat /\ c[P - 1] >= 1
        /\ Below(c, P - 1) + c[P - 1] <= n
    BY <1>1, <1>2, <2>3, BelowSum, BelowRises
  <2>5. ASSUME r < P - 1 PROVE Fits
    <3>1. Below(c, r) + c[r] <= Below(c, P - 1)
      BY <1>1, <1>2, <2>5, BelowRises
    <3> QED
      BY <1>2, <1>3, <1>5, <2>4, <3>1
  <2>6. ASSUME r = P - 1 PROVE Fits
    <3>1. Below(c, 0) + c[0] <= Below(c, P - 1) /\ Below(c, 0) = 0 /\ c[0] \in Nat /\ c[0] >= 1
      BY <1>1, <1>2, <2>3, BelowSum, BelowRises
    <3> QED
      BY <1>2, <1>3, <1>5, <2>4, <2>6, <3>1
  <2> QED
    BY <1>2, <2>5, <2>6
<1>6. n <= IntMax \/ n = IntMax + 1
  BY <1>2
<1> QED
  BY <1>4, <1>5, <1>6

(* For every graph and every number of ranks, up to one edge more than an  *)
(* int can count, no count and no displacement that an MPI call is given   *)
(* is beyond an int.                                                       *)
THEOREM IntsAreEnough == Spec => []IntsSuffice
<1>1. ASSUME IInv, Dropping PROVE IntsSuffice
  <2> SUFFICES ASSUME Len(ReadEdges(input)) <= IntMax + 1, P > 1
               PROVE  LET counts == calculate_edges_per_processor(Len(edges))
                      IN  /\ \A r \in Rank : /\ counts[r] <= IntMax
                                            /\ calculate_displacements(counts)[r] <= IntMax
                          /\ Below(next_edges_per_proc, P) <= IntMax
    BY DEF IntsSuffice
  <2> DEFINE counts == calculate_edges_per_processor(Len(edges))
  <2>1. /\ Len(edges) \in Nat /\ Len(ReadEdges(input)) \in Nat /\ IntMax \in Nat
    BY <1>1, ReadEdgesUp, ConstantAssumption DEF IInv, Basics
  <2>2. Len(edges) <= IntMax + 1
    BY <1>1, <2>1 DEF Dropping
  <2>3. \A r \in Rank : counts[r] <= IntMax /\ Below(counts, r) <= IntMax
    BY <2>1, <2>2, SharesFit
  <2>4. Below(next_edges_per_proc, P) <= IntMax
    <3>1. CASE Below(next_edges_per_proc, P) = 0
      BY <2>1, <3>1
    <3>2. CASE Below(next_edges_per_proc, P) \in 1 .. Len(ReadEdges(input)) - 1
      BY <2>1, <3>2
    <3> QED
      BY <1>1, <3>1, <3>2 DEF Dropping
  <2> HIDE DEF counts
  <2>5. \A r \in Rank : calculate_displacements(counts)[r] = Below(counts, r)
    BY DEF calculate_displacements
  <2> QED
    BY <2>3, <2>4, <2>5 DEF counts
<1>2. Init => Dropping
  BY InitDropping
<1>3. IInv /\ IInv' /\ Dropping /\ [Next]_vars => Dropping'
  BY NextDropping
<1> QED
  BY <1>1, <1>2, <1>3, InvariantHolds, PTL DEF Spec
=============================================================================
