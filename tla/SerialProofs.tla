---------------------------- MODULE SerialProofs ----------------------------
(***************************************************************************)
(* The serial program and the input of all programs, for every file and    *)
(* every number of vertices and of ranks: the iterator stays in step with  *)
(* its stream, the slices of the ranks make up what the file declares, the *)
(* sets are at all times the components of the edges unified, their trees  *)
(* are balanced, and the printed count is that of the file.                *)
(***************************************************************************)
EXTENDS SerialCC, GraphTheorems

(* The edges that are read: at least one, whatever the file declares.      *)
Wanted == IF lines_ < 1 THEN 1 ELSE lines_

Types ==
  /\ user \in {"main", "loadSlice"}
  /\ file \in Files[user]
  /\ lines_ \in Nat
  /\ group_size \in Nat /\ group_size # 0
  /\ rank \in 0 .. group_size
  /\ user = "main" => group_size = 1 /\ rank = 0
  /\ at \in {"begin", "loop", "loaded", "thrown", "unify", "count", "printed"}
  /\ at \in {"unify", "count", "printed"} => user = "main"
  /\ position_ \in Nat
  /\ slices \in [Rank -> Seq(Edge(Nat))]

(* The iterator, the stream and the end of the file.                       *)
InStep ==
  /\ at = "begin" => read_ = 0 /\ position_ = 0
  /\ at = "loop" => /\ read_ = position_ + 1
                    /\ read_ <= Len(file) /\ read_ <= Wanted
                    /\ edge_ = file[read_]
  /\ user = "main" /\ at \in {"loaded", "unify", "count", "printed"} =>
        position_ = Wanted /\ Wanted <= Len(file)
  /\ at = "thrown" => Len(file) < Wanted

FromOf(r) == slice_from(lines_, r, group_size)
ToOf(r) == slice_to(lines_, r, group_size)

(* Rank r has its slice.                                                   *)
HasSlice(r) ==
  /\ ToOf(r) <= Len(file)
  /\ slices[r] = SubSeq(file, FromOf(r) + 1, ToOf(r))

(* loadSlice: the ranks before rank have theirs, and rank has as much of   *)
(* its slice as it has passed.                                             *)
Slices ==
  user = "loadSlice" =>
    /\ \A r \in Rank : r < rank => HasSlice(r)
    /\ \A r \in Rank : r > rank => slices[r] = <<>>
    /\ at \in {"begin", "loop"} => rank < group_size
    /\ at = "begin" => slices[rank] = <<>>
    /\ at = "loop" => /\ position_ <= ToOf(rank)
                      /\ slices[rank] = SubSeq(file, FromOf(rank) + 1, position_)
    /\ at = "loaded" /\ rank < group_size => HasSlice(rank)

(* main: the pairs of the edges kept of the first n in the file.           *)
KeptOf(n) == {Pair(file[k]) : k \in {j \in 1 .. n : file[j].to # file[j].from}}

Kept ==
  user = "main" =>
    /\ slices[0] \in Seq(Edge(Node))
    /\ at # "thrown" => Pairs(slices[0]) = KeptOf(position_)

(* The sets of the forest ds are the components of the pairs E.            *)
SetsFor(ds, E) ==
  /\ DisjointTrees(Node, ds)
  /\ RanksBalance(ds)
  /\ \A u, v \in Node : RootsIn(Node, ds)[u] = RootsIn(Node, ds)[v] <=> Connected(Node, E, u, v)

UnifiedPairs == {Pair(slices[0][k]) : k \in 1 .. unified}

Sets ==
  /\ unified \in 0 .. Len(slices[0])
  /\ SetsFor(disjoint_set, UnifiedPairs)
  /\ at \notin {"unify", "count", "printed"} => unified = 0
  /\ at \in {"count", "printed"} => unified = Len(slices[0])

(* The first n vertices, counted by their roots r.                         *)
CountedBy(r, n) ==
  [rep \in {r[v] : v \in 0 .. n-1} |-> Cardinality({v \in 0 .. n-1 : r[v] = rep})]

Counting ==
  /\ i \in 0 .. N
  /\ at \notin {"count", "printed"} => i = 0
  /\ at = "printed" => i = N
  /\ components = CountedBy(RootsIn(Node, disjoint_set), i)

(* The inductive invariant.                                                *)
IInv == Types /\ InStep /\ Slices /\ Kept /\ Sets /\ Counting

-----------------------------------------------------------------------------
(***************************************************************************)
(* Slices of the file.                                                     *)
(***************************************************************************)
(* One edge more.                                                          *)
LEMMA OneMore ==
  ASSUME NEW S, NEW s \in Seq(S), NEW m \in Nat, NEW n \in Nat, m <= n, n < Len(s)
  PROVE  SubSeq(s, m + 1, n + 1) = Append(SubSeq(s, m + 1, n), s[n + 1])
PROOF
<1>1. Len(s) \in Nat /\ m + 1 \in 1 .. Len(s) /\ n + 1 \in m + 1 .. Len(s) /\ n + 1 - 1 = n
  OBVIOUS
<1>2. SubSeq(s, m + 1, n + 1) = SubSeq(s, m + 1, n) \o <<s[n + 1]>>
  BY <1>1, SubSeqRecursiveSecond
<1>3. \A k \in m + 1 .. n : s[k] \in S
  BY <1>1
<1>4. SubSeq(s, m + 1, n) \in Seq(S)
  BY <1>1, <1>3, SubSeqProperties
<1>5. s[n + 1] \in S
  BY <1>1
<1> QED
  BY <1>2, <1>4, <1>5, AppendIsConcat

LEMMA SubSeqIs ==
  ASSUME NEW S, NEW s \in Seq(S), NEW m \in Nat, NEW n \in Nat, m <= n, n <= Len(s)
  PROVE  /\ SubSeq(s, m + 1, n) \in Seq(S)
         /\ Len(SubSeq(s, m + 1, n)) = n - m
PROOF
<1>1. \A k \in m + 1 .. n : s[k] \in S
  OBVIOUS
<1> QED
  BY <1>1, SubSeqProperties

LEMMA NoneYet ==
  ASSUME NEW s, NEW m \in Nat, NEW n \in Nat, n <= m
  PROVE  SubSeq(s, m + 1, n) = <<>>
PROOF
  BY SubSeqEmpty

-----------------------------------------------------------------------------
(***************************************************************************)
(* Unifying and counting.                                                  *)
(***************************************************************************)
LEMMA NodeIs ==
  N \in Nat /\ N # 0 /\ IsFiniteSet(Node) /\ \A v \in Node : v \in Nat
PROOF
<1>1. N \in Nat /\ N # 0 /\ N - 1 \in Int /\ 0 \in Int
  BY ConstantAssumption
<1>2. IsFiniteSet(0 .. N-1)
  BY <1>1, FS_Interval
<1> QED
  BY <1>1, <1>2 DEF Node

(* A union more: the sets are the components again.                        *)
LEMMA UnifySets ==
  ASSUME NEW ds, NEW E, \A p \in E : p \subseteq Node, SetsFor(ds, E),
         NEW a \in Node, NEW b \in Node
  PROVE  SetsFor(unify(ds, a, b), E \cup {{a, b}})
PROOF
<1> DEFINE r == RootsIn(Node, ds)
           d == unify(ds, a, b)
           s == RootsIn(Node, d)
<1>1. DisjointTrees(Node, ds) /\ RanksBalance(ds)
  BY DEF SetsFor
<1>2. \A u, v \in Node : r[u] = r[v] <=> Connected(Node, E, u, v)
  BY DEF SetsFor
<1>3. IsFiniteSet(Node)
  BY NodeIs
<1>4. /\ DisjointTrees(Node, d)
      /\ \A u, v \in Node : s[u] = s[v] <=> \/ r[u] = r[v]
                                            \/ r[u] \in {r[a], r[b]} /\ r[v] \in {r[a], r[b]}
      /\ RanksBalance(d)
  BY <1>1, <1>3, UnifyTrees
<1> HIDE DEF r, d, s
<1>5. \A u, v \in Node : s[u] = s[v] <=> Connected(Node, E \cup {{a, b}}, u, v)
  BY <1>2, <1>4, ConnectedByOneMore
<1> QED
  BY <1>4, <1>5 DEF SetsFor, s, d

(* Without edges, every vertex for itself.                                 *)

LEMMA NoEdges ==
  SetsFor(Singletons(Node), {})
PROOF
<1>1. /\ DisjointTrees(Node, Singletons(Node))
      /\ RootsIn(Node, Singletons(Node)) = [v \in Node |-> v]
      /\ RanksBalance(Singletons(Node))
  BY SingletonTrees
<1>2. \A u, v \in Node : u = v <=> Connected(Node, {}, u, v)
  BY ConnectedByNone
<1> QED
  BY <1>1, <1>2 DEF SetsFor

(* A vertex more: its root counts one more.                                *)
LEMMA CountOneMore ==
  ASSUME NEW r, NEW n \in Nat, NEW c, c = CountedBy(r, n)
  PROVE  CountedBy(r, n + 1) =
           [v \in DOMAIN c \cup {r[n]} |->
              (IF v \in DOMAIN c THEN c[v] ELSE 0) + (IF v = r[n] THEN 1 ELSE 0)]
PROOF
<1> DEFINE P(x) == {v \in 0 .. n-1 : r[v] = x}
           Q(x) == {v \in 0 .. n+1-1 : r[v] = x}
           D == {r[v] : v \in 0 .. n-1}
<1>1. 0 .. n+1-1 = (0 .. n-1) \cup {n} /\ n \notin 0 .. n-1
  OBVIOUS
<1>2. {r[v] : v \in 0 .. n+1-1} = D \cup {r[n]}
  BY <1>1
<1>3. DOMAIN c = D /\ \A x \in D : c[x] = Cardinality(P(x))
  BY DEF CountedBy
<1>4. ASSUME NEW x \in D \cup {r[n]}
      PROVE  Cardinality(Q(x)) = (IF x \in D THEN Cardinality(P(x)) ELSE 0)
                                    + (IF x = r[n] THEN 1 ELSE 0)
  <2>1. IsFiniteSet(0 .. n-1) /\ P(x) \in SUBSET (0 .. n-1)
    BY FS_Interval
  <2>2. IsFiniteSet(P(x)) /\ Cardinality(P(x)) \in Nat
    BY <2>1, FS_Subset, FS_CardinalityType
  <2>3. CASE x = r[n]
    <3>1. Q(x) = P(x) \cup {n} /\ n \notin P(x)
      BY <1>1, <2>3
    <3>2. Cardinality(Q(x)) = Cardinality(P(x)) + 1
      BY <2>2, <3>1, FS_AddElement
    <3>3. x \notin D => Cardinality(P(x)) = 0
      <4>1. x \notin D => P(x) = {}
        OBVIOUS
      <4> QED
        BY <4>1, FS_EmptySet
    <3> QED
      BY <2>2, <2>3, <3>2, <3>3
  <2>4. CASE x # r[n]
    <3>1. Q(x) = P(x) /\ x \in D
      BY <1>1, <2>4
    <3> HIDE DEF P, Q, D
    <3> QED
      BY <2>2, <2>4, <3>1
  <2> QED
    BY <2>3, <2>4
<1>5. CountedBy(r, n + 1) = [x \in D \cup {r[n]} |-> Cardinality(Q(x))]
  BY <1>2 DEF CountedBy
<1> HIDE DEF P, Q, D
<1>6. [x \in D \cup {r[n]} |-> Cardinality(Q(x))]
        = [v \in DOMAIN c \cup {r[n]} |->
             (IF v \in DOMAIN c THEN c[v] ELSE 0) + (IF v = r[n] THEN 1 ELSE 0)]
  BY <1>3, <1>4
<1> QED
  BY <1>5, <1>6
-----------------------------------------------------------------------------
(***************************************************************************)
(* The invariant.                                                          *)
(***************************************************************************)
(* What is read.                                                           *)
LEMMA FileIs ==
  ASSUME Types
  PROVE  /\ file \in Seq(Edge(Nat)) /\ Len(file) \in Nat
         /\ user = "main" => file \in Seq(Edge(Node))
         /\ Wanted \in Nat /\ Wanted >= 1 /\ Wanted >= lines_
         /\ 0 \in Rank
PROOF
<1>1. file \in Seq(Edge(Nat))
  BY InputAssumption DEF Types
<1>2. user = "main" => file \in Seq(Edge(Node))
  BY ConstantAssumption DEF Types
<1> QED
  BY <1>1, <1>2 DEF Types, Wanted, Rank

LEMMA SlicesLie ==
  ASSUME Types, NEW r \in Rank
  PROVE  /\ FromOf(r) \in Nat /\ ToOf(r) \in Nat
         /\ FromOf(r) <= ToOf(r) /\ ToOf(r) <= lines_
         /\ FromOf(0) = 0
         /\ r = group_size - 1 => ToOf(r) = lines_
         /\ r # group_size - 1 => r + 1 \in Rank /\ ToOf(r) = FromOf(r + 1)
PROOF
<1>1. /\ lines_ \in Nat /\ group_size \in Nat /\ group_size # 0
      /\ r \in 0 .. group_size - 1
  BY DEF Types, Rank
<1> QED
  BY <1>1, SliceBounds DEF FromOf, ToOf, Rank

LEMMA Start ==
  Init => IInv
PROOF
<1> SUFFICES ASSUME Init
             PROVE  IInv
  OBVIOUS
<1>1. /\ user \in {"main", "loadSlice"} /\ file \in Files[user]
      /\ user = "main" => group_size = 1
      /\ group_size \in Nat /\ group_size # 0
      /\ rank = 0 /\ at = "begin" /\ read_ = 0 /\ position_ = 0
      /\ slices = [r \in Rank |-> <<>>]
  BY InputAssumption DEF Init, InputInit
<1>2. 0 \in Rank /\ slices[0] = <<>> /\ Len(slices[0]) = 0
  BY <1>1 DEF Rank
<1>3. file \in Seq(Edge(Nat))
  BY <1>1, InputAssumption
<1>4. Types
  BY <1>1, <1>3 DEF Init, InputInit, Types
<1>5. InStep
  BY <1>1 DEF InStep
<1>6. Slices
  BY <1>1, <1>2 DEF Slices, Rank
<1>7. Kept
  <2>1. Pairs(<<>>) = {} /\ KeptOf(0) = {}
    BY DEF Pairs, KeptOf
  <2>2. <<>> \in Seq(Edge(Node))
    OBVIOUS
  <2> QED
    BY <1>1, <1>2, <2>1, <2>2 DEF Kept
<1>8. Sets
  <2>1. unified = 0 /\ disjoint_set = Singletons(Node)
    BY DEF Init
  <2>2. UnifiedPairs = {}
    BY <2>1 DEF UnifiedPairs
  <2> QED
    BY <1>1, <1>2, <2>1, <2>2, NoEdges DEF Sets
<1>9. Counting
  <2>1. i = 0 /\ components = [v \in {} |-> 0]
    BY DEF Init
  <2>2. \A r : CountedBy(r, 0) = [v \in {} |-> 0]
    BY DEF CountedBy
  <2> QED
    BY <1>1, <2>1, <2>2, NodeIs DEF Counting
<1> QED
  BY <1>4, <1>5, <1>6, <1>7, <1>8, <1>9 DEF IInv

(* Until the edges are unified, there are only singletons.                 *)
Reading == at \notin {"unify", "count", "printed"}

LEMMA ReadingKeepsSets ==
  ASSUME IInv, Reading, Reading',
         slices' \in [Rank -> Seq(Edge(Nat))],
         UNCHANGED <<unified, disjoint_set, i, components>>
  PROVE  Sets' /\ Counting'
PROOF
<1>1. unified = 0 /\ SetsFor(disjoint_set, UnifiedPairs) /\ Counting
  BY DEF IInv, Sets, Reading
<1>2. UnifiedPairs = {} /\ UnifiedPairs' = {}
  BY <1>1 DEF UnifiedPairs
<1>3. Len(slices'[0]) \in Nat
  BY FileIs DEF IInv
<1>4. Sets'
  BY <1>1, <1>2, <1>3 DEF Sets, Reading, SetsFor
<1>5. Counting'
  BY <1>1 DEF Counting, Reading
<1> QED
  BY <1>4, <1>5

(* operator++ keeps the iterator in step ...                               *)
LEMMA IncrementInStep ==
  ASSUME Types, InStep, at = "loop", Increment, UNCHANGED parameters
  PROVE  /\ InStep'
         /\ position_' = position_ + 1
         /\ at' \in {"loop", "loaded", "thrown"}
         /\ at' = "loaded" => position_' = Wanted /\ position_' <= Len(file)
PROOF
<1>1. /\ read_ = position_ + 1 /\ position_ \in Nat
      /\ read_ <= Len(file) /\ read_ <= Wanted
      /\ lines_ \in Nat
  BY DEF InStep, Types
<1>2. position_' = position_ + 1
  BY DEF Increment
<1>3. file' = file /\ lines_' = lines_ /\ user' = user /\ Wanted' = Wanted
  BY DEF parameters, Wanted
<1>4. CASE read_ < lines_ /\ read_ < Len(file)
  <2>1. edge_' = file[read_ + 1] /\ read_' = read_ + 1 /\ at' = "loop"
    BY <1>4 DEF Increment, Read
  <2>2. read_' <= Wanted
    BY <1>1, <1>4, <2>1, FileIs
  <2> QED
    BY <1>1, <1>2, <1>3, <1>4, <2>1, <2>2, FileIs DEF InStep
<1>5. CASE read_ < lines_ /\ ~ (read_ < Len(file))
  <2>1. at' = "thrown" /\ read_' = read_
    BY <1>5 DEF Increment, Read
  <2> QED
    BY <1>1, <1>2, <1>3, <1>5, <2>1, FileIs DEF InStep
<1>6. CASE ~ (read_ < lines_)
  <2>1. at' = "loaded" /\ read_' = read_
    BY <1>6 DEF Increment
  <2>2. position_' = Wanted
    BY <1>1, <1>2, <1>6 DEF Wanted
  <2> QED
    BY <1>1, <1>2, <1>3, <2>1, <2>2, FileIs DEF InStep
<1> QED
  BY <1>4, <1>5, <1>6

(* ... and the edge at hand is one of the file.                            *)
LEMMA EdgeAtHand ==
  ASSUME Types, InStep, at = "loop"
  PROVE  /\ position_ \in Nat /\ position_ < Len(file)
         /\ edge_ = file[position_ + 1]
         /\ edge_ \in Edge(Nat)
         /\ user = "main" => edge_ \in Edge(Node)
PROOF
<1>1. read_ = position_ + 1 /\ read_ <= Len(file) /\ edge_ = file[read_] /\ position_ \in Nat
  BY DEF Types, InStep
<1> QED
  BY <1>1, FileIs

(* The edge at hand is pushed back by the rank that reads.                 *)
LEMMA PushBackTypes ==
  ASSUME Types, InStep, at = "loop", PushBack, rank \in Rank
  PROVE  /\ slices' \in [Rank -> Seq(Edge(Nat))]
         /\ \A r \in Rank : slices'[r] = IF r = rank THEN Append(slices[rank], edge_) ELSE slices[r]
PROOF
<1>1. slices \in [Rank -> Seq(Edge(Nat))]
  BY DEF Types
<1>2. Append(slices[rank], edge_) \in Seq(Edge(Nat))
  BY <1>1, EdgeAtHand
<1> QED
  BY <1>1, <1>2 DEF PushBack

LEMMA BeginKeeps ==
  ASSUME IInv, Begin, UNCHANGED <<unified, disjoint_set, i, components>>
  PROVE  IInv'
PROOF
<1>1. /\ at = "begin" /\ read_ = 0 /\ position_ = 0 /\ position_' = 0
      /\ UNCHANGED <<file, lines_, group_size, user, rank, slices>>
  BY DEF IInv, InStep, Begin, parameters
<1>2. Wanted' = Wanted /\ Rank' = Rank
  BY <1>1 DEF Wanted, Rank
<1>3. \/ /\ 0 < Len(file)
         /\ edge_' = file[1] /\ read_' = 1 /\ at' = "loop"
      \/ /\ Len(file) = 0
         /\ at' = "thrown" /\ read_' = 0
  BY <1>1, FileIs DEF IInv, Begin, Read
<1>4. Types'
  BY <1>1, <1>2, <1>3 DEF IInv, Types
<1>5. InStep'
  BY <1>1, <1>2, <1>3, FileIs DEF IInv, InStep
<1>6. Slices'
  <2> SUFFICES ASSUME user = "loadSlice"
               PROVE  /\ \A r \in Rank : r < rank => HasSlice(r)'
                      /\ \A r \in Rank : r > rank => slices[r] = <<>>
                      /\ rank < group_size
                      /\ at' = "loop" => /\ 0 <= ToOf(rank)
                                         /\ slices[rank] = SubSeq(file, FromOf(rank) + 1, 0)
    BY <1>1, <1>2, <1>3 DEF Slices, ToOf, FromOf
  <2>1. /\ \A r \in Rank : r < rank => HasSlice(r)
        /\ \A r \in Rank : r > rank => slices[r] = <<>>
        /\ rank < group_size /\ slices[rank] = <<>>
    BY <1>1 DEF IInv, Slices
  <2>2. \A r : HasSlice(r)' <=> HasSlice(r)
    BY <1>1 DEF HasSlice, FromOf, ToOf
  <2>3. FromOf(rank) \in Nat /\ ToOf(rank) \in Nat
    BY <2>1, SlicesLie DEF IInv, Types, Rank
  <2> QED
    BY <2>1, <2>2, <2>3, NoneYet
<1>7. Kept'
  BY <1>1, <1>3 DEF IInv, Kept, KeptOf
<1>8. Sets' /\ Counting'
  BY <1>1, <1>3, ReadingKeepsSets DEF IInv, Types, Reading
<1> QED
  BY <1>4, <1>5, <1>6, <1>7, <1>8 DEF IInv
LEMMA BeforeKeeps ==
  ASSUME IInv, Before, UNCHANGED <<unified, disjoint_set, i, components>>
  PROVE  IInv'
PROOF
<1>1. /\ at = "loop" /\ user = "loadSlice" /\ position_ < FromOf(rank)
      /\ UNCHANGED <<file, lines_, group_size, user, rank, slices>>
      /\ Rank' = Rank
  BY DEF Before, parameters, From, FromOf, Rank
<1>2. /\ InStep'
      /\ position_' = position_ + 1 /\ position_ \in Nat
      /\ at' \in {"loop", "loaded", "thrown"}
      /\ at' = "loaded" => position_' = Wanted /\ position_' <= Len(file)
  BY IncrementInStep DEF IInv, Types, Before
<1>3. Types'
  BY <1>1, <1>2 DEF IInv, Types
<1>4. Slices'
  <2>1. /\ \A r \in Rank : r < rank => HasSlice(r)
        /\ \A r \in Rank : r > rank => slices[r] = <<>>
        /\ rank < group_size /\ rank \in Rank
        /\ slices[rank] = SubSeq(file, FromOf(rank) + 1, position_)
    BY <1>1 DEF IInv, Types, Slices, Rank
  <2>2. /\ \A r : HasSlice(r)' <=> HasSlice(r)
        /\ FromOf(rank') = FromOf(rank) /\ ToOf(rank') = ToOf(rank)
        /\ FromOf(rank)' = FromOf(rank) /\ ToOf(rank)' = ToOf(rank)
    BY <1>1 DEF HasSlice, FromOf, ToOf
  <2>3. /\ FromOf(rank) \in Nat /\ ToOf(rank) \in Nat
        /\ FromOf(rank) <= ToOf(rank) /\ ToOf(rank) <= lines_ /\ lines_ \in Nat
    BY <2>1, SlicesLie DEF IInv, Types
  <2>4. slices[rank] = <<>>
    BY <1>1, <1>2, <2>1, <2>3, NoneYet
  <2>5. slices[rank] = SubSeq(file, FromOf(rank) + 1, position_') /\ position_' <= ToOf(rank)
    BY <1>1, <1>2, <2>3, <2>4, NoneYet
  <2>6. at' = "loaded" => HasSlice(rank)
    <3> SUFFICES ASSUME at' = "loaded"
                 PROVE  HasSlice(rank)
      OBVIOUS
    <3>1. position_' = ToOf(rank) /\ position_' <= Len(file)
      BY <1>1, <1>2, <2>3, <2>5, FileIs DEF IInv
    <3> QED
      BY <2>5, <3>1 DEF HasSlice
  <2> QED
    BY <1>1, <1>2, <2>1, <2>2, <2>5, <2>6 DEF Slices
<1>5. Kept'
  BY <1>1 DEF Kept
<1>6. Sets' /\ Counting'
  BY <1>1, <1>2, ReadingKeepsSets DEF IInv, Types, Reading
<1> QED
  BY <1>2, <1>3, <1>4, <1>5, <1>6 DEF IInv

LEMMA InsideKeeps ==
  ASSUME IInv, Inside, UNCHANGED <<unified, disjoint_set, i, components>>
  PROVE  IInv'
PROOF
<1>1. /\ at = "loop" /\ user = "loadSlice"
      /\ FromOf(rank) <= position_ /\ position_ < ToOf(rank)
      /\ UNCHANGED <<file, lines_, group_size, user, rank>>
      /\ Rank' = Rank
  BY DEF Inside, parameters, From, To, FromOf, ToOf, Rank
<1>2. /\ InStep'
      /\ position_' = position_ + 1 /\ position_ \in Nat
      /\ at' \in {"loop", "loaded", "thrown"}
      /\ at' = "loaded" => position_' = Wanted /\ position_' <= Len(file)
  BY IncrementInStep DEF IInv, Types, Inside
<1>3. /\ \A r \in Rank : r < rank => HasSlice(r)
      /\ \A r \in Rank : r > rank => slices[r] = <<>>
      /\ rank < group_size /\ rank \in Rank
      /\ slices[rank] = SubSeq(file, FromOf(rank) + 1, position_)
  BY <1>1 DEF IInv, Types, Slices, Rank
<1>4. /\ slices' \in [Rank -> Seq(Edge(Nat))]
      /\ \A r \in Rank : slices'[r] = IF r = rank THEN Append(slices[rank], edge_) ELSE slices[r]
  BY <1>1, <1>3, PushBackTypes DEF IInv, Inside
<1>5. Types'
  BY <1>1, <1>2, <1>4 DEF IInv, Types
<1>6. Slices'
  <2>1. /\ \A r \in Rank : r # rank => (HasSlice(r)' <=> HasSlice(r))
        /\ FromOf(rank)' = FromOf(rank) /\ ToOf(rank)' = ToOf(rank)
    BY <1>1, <1>4 DEF HasSlice, FromOf, ToOf
  <2>2. /\ FromOf(rank) \in Nat /\ ToOf(rank) \in Nat
        /\ FromOf(rank) <= ToOf(rank) /\ ToOf(rank) <= lines_ /\ lines_ \in Nat
    BY <1>3, SlicesLie DEF IInv, Types
  <2>3. slices'[rank] = SubSeq(file, FromOf(rank) + 1, position_') /\ position_' <= ToOf(rank)
    <3>1. file \in Seq(Edge(Nat)) /\ position_ < Len(file) /\ edge_ = file[position_ + 1]
      BY <1>1, FileIs, EdgeAtHand DEF IInv
    <3>2. SubSeq(file, FromOf(rank) + 1, position_ + 1)
            = Append(SubSeq(file, FromOf(rank) + 1, position_), edge_)
      BY <1>1, <1>2, <2>2, <3>1, OneMore
    <3>3. slices'[rank] = Append(slices[rank], edge_)
      BY <1>3, <1>4
    <3>4. position_' <= ToOf(rank)
      BY <1>1, <1>2, <2>2
    <3> QED
      BY <1>2, <1>3, <3>2, <3>3, <3>4
  <2>4. at' = "loaded" => HasSlice(rank)'
    <3> SUFFICES ASSUME at' = "loaded"
                 PROVE  HasSlice(rank)'
      OBVIOUS
    <3>1. position_' = ToOf(rank) /\ position_' <= Len(file)
      BY <1>1, <1>2, <2>2, <2>3, FileIs DEF IInv
    <3> QED
      BY <1>1, <2>1, <2>3, <3>1 DEF HasSlice
  <2>5. \A r \in Rank : (r < rank => r # rank) /\ (r > rank => r # rank)
    BY <1>3 DEF Rank
  <2> QED
    BY <1>1, <1>2, <1>3, <1>4, <2>1, <2>3, <2>4, <2>5 DEF Slices
<1>7. Kept'
  BY <1>1 DEF Kept
<1>8. Sets' /\ Counting'
  BY <1>1, <1>2, <1>4, ReadingKeepsSets DEF IInv, Types, Reading
<1> QED
  BY <1>2, <1>5, <1>6, <1>7, <1>8 DEF IInv

LEMMA BehindKeeps ==
  ASSUME IInv, Behind, UNCHANGED <<unified, disjoint_set, i, components>>
  PROVE  IInv'
PROOF
<1>1. /\ at = "loop" /\ at' = "loaded" /\ user = "loadSlice"
      /\ position_ >= ToOf(rank)
      /\ UNCHANGED <<file, lines_, group_size, user, rank, position_, slices>>
      /\ Rank' = Rank
  BY DEF Behind, parameters, iterator, To, ToOf, Rank
<1>2. Types'
  BY <1>1 DEF IInv, Types
<1>3. InStep'
  BY <1>1 DEF InStep
<1>4. Slices'
  <2>1. /\ \A r \in Rank : r < rank => HasSlice(r)
        /\ \A r \in Rank : r > rank => slices[r] = <<>>
        /\ rank < group_size /\ rank \in Rank
        /\ position_ <= ToOf(rank)
        /\ slices[rank] = SubSeq(file, FromOf(rank) + 1, position_)
    BY <1>1 DEF IInv, Types, Slices, Rank
  <2>2. \A r : HasSlice(r)' <=> HasSlice(r)
    BY <1>1 DEF HasSlice, FromOf, ToOf
  <2>3. ToOf(rank) \in Nat /\ position_ \in Nat /\ position_ < Len(file)
    BY <1>1, <2>1, SlicesLie, EdgeAtHand DEF IInv
  <2>4. position_ = ToOf(rank)
    BY <1>1, <2>1, <2>3
  <2>5. ToOf(rank) <= Len(file)
    BY <2>3, <2>4, FileIs DEF IInv
  <2>6. HasSlice(rank)
    BY <2>1, <2>4, <2>5 DEF HasSlice
  <2> QED
    BY <1>1, <2>1, <2>2, <2>6 DEF Slices
<1>5. Kept'
  BY <1>1 DEF Kept
<1>6. Sets' /\ Counting'
  BY <1>1, ReadingKeepsSets DEF IInv, Types, Reading
<1> QED
  BY <1>2, <1>3, <1>4, <1>5, <1>6 DEF IInv

LEMMA NextRankKeeps ==
  ASSUME IInv, NextRank, UNCHANGED <<unified, disjoint_set, i, components>>
  PROVE  IInv'
PROOF
<1>1. /\ at = "loaded" /\ user = "loadSlice" /\ rank < group_size /\ rank' = rank + 1
      /\ UNCHANGED <<file, lines_, group_size, user, slices>>
      /\ Rank' = Rank
      /\ rank \in Nat /\ group_size \in Nat
  BY DEF IInv, Types, NextRank, parameters, Rank
<1>2. \/ rank' < group_size /\ at' = "begin" /\ read_' = 0 /\ position_' = 0
      \/ rank' = group_size /\ at' = "loaded" /\ position_' = position_
  BY <1>1 DEF NextRank, iterator
<1>3. Types'
  BY <1>1, <1>2 DEF IInv, Types
<1>4. InStep'
  BY <1>1, <1>2 DEF InStep
<1>5. Slices'
  <2>1. /\ \A r \in Rank : r < rank => HasSlice(r)
        /\ \A r \in Rank : r > rank => slices[r] = <<>>
        /\ HasSlice(rank)
    BY <1>1 DEF IInv, Slices
  <2>2. \A r : HasSlice(r)' <=> HasSlice(r)
    BY <1>1 DEF HasSlice, FromOf, ToOf
  <2>3. \A r \in Rank : /\ r < rank + 1 => r < rank \/ r = rank
                        /\ r > rank + 1 => r > rank
    BY <1>1 DEF Rank
  <2>4. rank' < group_size => rank' \in Rank /\ rank' > rank
    BY <1>1 DEF Rank
  <2> QED
    BY <1>1, <1>2, <2>1, <2>2, <2>3, <2>4 DEF Slices
<1>6. Kept'
  BY <1>1 DEF Kept
<1>7. Sets' /\ Counting'
  BY <1>1, <1>2, ReadingKeepsSets DEF IInv, Types, Reading
<1> QED
  BY <1>3, <1>4, <1>5, <1>6, <1>7 DEF IInv
(* Dropping self loops, the main loop keeps the other pairs.               *)
LEMMA KeepOneMore ==
  ASSUME NEW n \in Nat
  PROVE  KeptOf(n + 1) = KeptOf(n) \cup (IF file[n+1].to # file[n+1].from THEN {Pair(file[n+1])}
                                                                       ELSE {})
PROOF
<1>1. 1 .. n+1 = (1 .. n) \cup {n+1}
  OBVIOUS
<1> QED
  BY <1>1 DEF KeptOf

LEMMA PairsOfAppend ==
  ASSUME NEW S, NEW s \in Seq(S), NEW e \in S
  PROVE  Pairs(Append(s, e)) = Pairs(s) \cup {Pair(e)}
PROOF
<1>1. /\ Append(s, e) \in Seq(S) /\ Len(Append(s, e)) = Len(s) + 1
      /\ \A k \in 1 .. Len(s) : Append(s, e)[k] = s[k]
      /\ Append(s, e)[Len(s) + 1] = e
  BY AppendProperties
<1>2. /\ DOMAIN s = 1 .. Len(s) /\ Len(s) \in Nat
      /\ DOMAIN Append(s, e) = (1 .. Len(s)) \cup {Len(s) + 1}
  BY <1>1
<1> HIDE DEF Pair
<1> QED
  BY <1>1, <1>2 DEF Pairs

LEMMA MainLoopKeeps ==
  ASSUME IInv, MainLoop
  PROVE  IInv'
PROOF
<1>1. /\ at = "loop" /\ user = "main" /\ rank = 0 /\ 0 \in Rank
      /\ UNCHANGED <<file, lines_, group_size, user, rank, unified, disjoint_set, i, components>>
      /\ Rank' = Rank
  BY FileIs DEF IInv, Types, MainLoop, parameters, Rank
<1>2. /\ InStep'
      /\ position_' = position_ + 1 /\ position_ \in Nat
      /\ at' \in {"loop", "loaded", "thrown"}
  BY IncrementInStep DEF IInv, Types, MainLoop
<1>3. /\ edge_ = file[position_ + 1]
      /\ edge_ \in Edge(Node)
  BY <1>1, EdgeAtHand DEF IInv
<1>4. slices \in [Rank -> Seq(Edge(Nat))] /\ slices[0] \in Seq(Edge(Node))
  BY <1>1 DEF IInv, Types, Kept
<1>5. /\ slices' \in [Rank -> Seq(Edge(Nat))]
      /\ \/ edge_.to # edge_.from /\ slices'[0] = Append(slices[0], edge_)
         \/ ~ (edge_.to # edge_.from) /\ slices'[0] = slices[0]
  <2>1. CASE edge_.to # edge_.from
    BY <1>1, <2>1, PushBackTypes DEF IInv, MainLoop
  <2>2. CASE ~ (edge_.to # edge_.from)
    BY <1>4, <2>2 DEF MainLoop
  <2> QED
    BY <2>1, <2>2
<1>6. Types'
  BY <1>1, <1>2, <1>5 DEF IInv, Types
<1>7. Slices'
  BY <1>1 DEF Slices
<1>8. Kept'
  <2>1. Pairs(slices[0]) = KeptOf(position_)
    BY <1>1 DEF IInv, Kept
  <2>2. KeptOf(position_)' = KeptOf(position_ + 1)
    BY <1>1, <1>2 DEF KeptOf
  <2>3. CASE edge_.to # edge_.from
    <3>1. slices'[0] = Append(slices[0], edge_)
      BY <1>5, <2>3
    <3>2. slices'[0] \in Seq(Edge(Node))
      BY <1>3, <1>4, <3>1
    <3>3. Pairs(slices'[0]) = Pairs(slices[0]) \cup {Pair(edge_)}
      BY <1>3, <1>4, <3>1, PairsOfAppend
    <3>4. KeptOf(position_ + 1) = KeptOf(position_) \cup {Pair(edge_)}
      BY <1>2, <1>3, <2>3, KeepOneMore
    <3>5. Pairs(slices'[0]) = KeptOf(position_)'
      BY <2>1, <2>2, <3>3, <3>4
    <3> QED
      BY <3>2, <3>5 DEF Kept
  <2>4. CASE ~ (edge_.to # edge_.from)
    <3>1. slices'[0] = slices[0]
      BY <1>5, <2>4
    <3>2. KeptOf(position_ + 1) = KeptOf(position_)
      BY <1>2, <1>3, <2>4, KeepOneMore
    <3>3. Pairs(slices'[0]) = KeptOf(position_)'
      BY <2>1, <2>2, <3>1, <3>2
    <3> QED
      BY <1>4, <3>1, <3>3 DEF Kept
  <2> QED
    BY <2>3, <2>4
<1>9. Sets' /\ Counting'
  BY <1>1, <1>2, <1>5, ReadingKeepsSets DEF Reading
<1> QED
  BY <1>2, <1>6, <1>7, <1>8, <1>9 DEF IInv

(* From here on the input stays as it is.                                  *)
LEMMA InputStays ==
  ASSUME IInv, user = "main", at \in {"loaded", "unify", "count", "printed"},
         UNCHANGED <<parameters, rank, iterator, slices>>,
         at' \in {"loaded", "unify", "count", "printed"}
  PROVE  Types' /\ InStep' /\ Slices' /\ Kept'
PROOF
<1>1. /\ UNCHANGED <<file, lines_, group_size, user, rank, position_, slices>>
      /\ Rank' = Rank /\ Wanted' = Wanted
  BY DEF parameters, iterator, Rank, Wanted
<1>2. Types'
  BY <1>1 DEF IInv, Types
<1>3. InStep'
  BY <1>1 DEF IInv, InStep
<1>4. Slices'
  BY <1>1 DEF Slices
<1>5. Kept'
  BY <1>1 DEF IInv, Kept, KeptOf
<1> QED
  BY <1>2, <1>3, <1>4, <1>5

LEMMA StartUnifyingKeeps ==
  ASSUME IInv, StartUnifying
  PROVE  IInv'
PROOF
<1>1. /\ user = "main" /\ at = "loaded" /\ at' = "unify"
      /\ UNCHANGED <<parameters, rank, iterator, slices, unified, disjoint_set, i, components>>
  BY DEF StartUnifying
<1>2. Sets'
  BY <1>1 DEF IInv, Sets, SetsFor, UnifiedPairs
<1>3. Counting'
  BY <1>1 DEF IInv, Counting
<1> QED
  BY <1>1, <1>2, <1>3, InputStays DEF IInv

(* The edges are edges of vertices.                                        *)
LEMMA PairsUnified ==
  ASSUME IInv, user = "main"
  PROVE  /\ slices[0] \in Seq(Edge(Node)) /\ Len(slices[0]) \in Nat
         /\ \A p \in UnifiedPairs : p \subseteq Node
PROOF
<1>1. slices[0] \in Seq(Edge(Node)) /\ unified \in 0 .. Len(slices[0])
  BY DEF IInv, Kept, Sets
<1>2. \A k \in 1 .. unified : slices[0][k] \in Edge(Node)
  BY <1>1
<1> QED
  BY <1>1, <1>2 DEF UnifiedPairs, Pair, Edge

LEMMA UnifyKeeps ==
  ASSUME IInv, Unify
  PROVE  IInv'
PROOF
<1>1. /\ at = "unify" /\ at' = "unify" /\ user = "main"
      /\ unified < Len(slices[0]) /\ unified' = unified + 1
      /\ disjoint_set' = unify(disjoint_set, slices[0][unified + 1].from, slices[0][unified + 1].to)
      /\ UNCHANGED <<parameters, rank, iterator, slices, i, components>>
  BY DEF IInv, Types, Unify, inputVars, edges
<1>2. /\ slices[0] \in Seq(Edge(Node)) /\ Len(slices[0]) \in Nat
      /\ \A p \in UnifiedPairs : p \subseteq Node
  BY <1>1, PairsUnified
<1>3. unified \in Nat /\ SetsFor(disjoint_set, UnifiedPairs)
  BY DEF IInv, Sets
<1> DEFINE e == slices[0][unified + 1]
<1>4. e \in Edge(Node)
  BY <1>1, <1>2, <1>3
<1>5. e.from \in Node /\ e.to \in Node /\ Pair(e) = {e.from, e.to}
  BY <1>4 DEF Edge, Pair
<1>6. UnifiedPairs' = UnifiedPairs \cup {{e.from, e.to}}
  <2>1. 1 .. unified + 1 = (1 .. unified) \cup {unified + 1}
    BY <1>3
  <2>2. UnifiedPairs' = {Pair(slices[0][k]) : k \in 1 .. unified + 1}
    BY <1>1 DEF UnifiedPairs
  <2>3. UnifiedPairs' = UnifiedPairs \cup {Pair(e)}
    BY <2>1, <2>2 DEF UnifiedPairs
  <2> HIDE DEF e
  <2> QED
    BY <1>5, <2>3
<1>7. SetsFor(disjoint_set', UnifiedPairs')
  BY <1>1, <1>2, <1>3, <1>5, <1>6, UnifySets
<1>8. Sets'
  <2>1. unified' \in 0 .. Len(slices[0])
    BY <1>1, <1>2, <1>3
  <2>2. SetsFor(disjoint_set, UnifiedPairs)'
    BY <1>7 DEF SetsFor
  <2> QED
    BY <1>1, <2>1, <2>2 DEF Sets
<1>9. Counting'
  <2>1. i = 0 /\ components = CountedBy(RootsIn(Node, disjoint_set), 0) /\ i' = 0
    BY <1>1 DEF IInv, Counting
  <2>2. \A r : CountedBy(r, 0) = [v \in {} |-> 0]
    BY DEF CountedBy
  <2> QED
    BY <1>1, <2>1, <2>2, NodeIs DEF Counting
<1> QED
  BY <1>1, <1>8, <1>9, InputStays DEF IInv

LEMMA StartCountingKeeps ==
  ASSUME IInv, StartCounting
  PROVE  IInv'
PROOF
<1>1. /\ user = "main" /\ at = "unify" /\ at' = "count" /\ unified = Len(slices[0])
      /\ UNCHANGED <<parameters, rank, iterator, slices, unified, disjoint_set, i, components>>
  BY DEF IInv, Types, StartCounting, edges
<1>2. Sets'
  BY <1>1 DEF IInv, Sets, SetsFor, UnifiedPairs
<1>3. Counting'
  BY <1>1 DEF IInv, Counting
<1> QED
  BY <1>1, <1>2, <1>3, InputStays DEF IInv

LEMMA CountKeeps ==
  ASSUME IInv, Count
  PROVE  IInv'
PROOF
<1>1. /\ at = "count" /\ at' = "count" /\ user = "main" /\ i < N /\ i' = i + 1
      /\ UNCHANGED <<parameters, rank, iterator, slices, unified>>
      /\ disjoint_set' = Compressed(disjoint_set, i)
      /\ CountedFor(Representative(disjoint_set, i))
  BY DEF IInv, Types, Count, inputVars
<1> DEFINE r == RootsIn(Node, disjoint_set)
<1>2. i \in Nat /\ i \in Node /\ components = CountedBy(r, i)
  BY <1>1, NodeIs DEF IInv, Counting, Node
<1>3. SetsFor(disjoint_set, UnifiedPairs) /\ DisjointTrees(Node, disjoint_set)
  BY DEF IInv, Sets, SetsFor
<1>4. Representative(disjoint_set, i) = r[i]
  BY <1>2, <1>3, RepresentativeIsRoot
<1>5. SameTrees(Node, disjoint_set, disjoint_set')
  BY <1>1, <1>2, <1>3, CompressedSame
<1>6. /\ DisjointTrees(Node, disjoint_set')
      /\ RootsIn(Node, disjoint_set') = r
      /\ RanksBalance(disjoint_set')
  BY <1>3, <1>5, SameBalance DEF SetsFor, SameTrees
<1>7. UnifiedPairs' = UnifiedPairs
  BY <1>1 DEF UnifiedPairs
<1>8. Sets'
  <2>1. SetsFor(disjoint_set', UnifiedPairs')
    BY <1>3, <1>6, <1>7 DEF SetsFor
  <2>2. SetsFor(disjoint_set, UnifiedPairs)'
    BY <2>1 DEF SetsFor
  <2> QED
    BY <1>1, <2>2 DEF IInv, Sets
<1>9. components' = CountedBy(r, i + 1)
  <2> HIDE DEF r
  <2>1. CountedBy(r, i + 1) =
          [v \in DOMAIN components \cup {r[i]} |->
             (IF v \in DOMAIN components THEN components[v] ELSE 0) + (IF v = r[i] THEN 1 ELSE 0)]
    BY <1>2, CountOneMore
  <2> QED
    BY <1>1, <1>2, <1>4, <2>1 DEF CountedFor
<1>10. Counting'
  <2>1. CountedBy(RootsIn(Node, disjoint_set), i)' = CountedBy(r, i + 1)
    BY <1>1, <1>6 DEF CountedBy
  <2>2. i' \in 0 .. N
    BY <1>1, <1>2, NodeIs
  <2> QED
    BY <1>1, <1>9, <2>1, <2>2 DEF Counting
<1> QED
  BY <1>1, <1>8, <1>10, InputStays DEF IInv

LEMMA PrintCountKeeps ==
  ASSUME IInv, PrintCount
  PROVE  IInv'
PROOF
<1>1. /\ user = "main" /\ at = "count" /\ at' = "printed" /\ i = N
      /\ UNCHANGED <<parameters, rank, iterator, slices, unified, disjoint_set, i, components>>
  BY DEF IInv, Types, PrintCount
<1>2. Sets'
  BY <1>1 DEF IInv, Sets, SetsFor, UnifiedPairs
<1>3. Counting'
  BY <1>1 DEF IInv, Counting
<1> QED
  BY <1>1, <1>2, <1>3, InputStays DEF IInv
THEOREM Invariance ==
  Spec => []IInv
PROOF
<1>1. Init => IInv
  BY Start
<1>2. IInv /\ [Next]_vars => IInv'
  <2> SUFFICES ASSUME IInv, [Next]_vars
               PROVE  IInv'
    OBVIOUS
  <2>1. CASE Load
    BY <2>1, BeginKeeps, BeforeKeeps, InsideKeeps, BehindKeeps, NextRankKeeps DEF Load, InputNext
  <2>2. CASE MainLoop
    BY <2>2, MainLoopKeeps
  <2>3. CASE StartUnifying
    BY <2>3, StartUnifyingKeeps
  <2>4. CASE Unify
    BY <2>4, UnifyKeeps
  <2>5. CASE StartCounting
    BY <2>5, StartCountingKeeps
  <2>6. CASE Count
    BY <2>6, CountKeeps
  <2>7. CASE PrintCount
    BY <2>7, PrintCountKeeps
  <2>8. CASE UNCHANGED vars
    <3>1. UNCHANGED <<file, lines_, group_size, user, rank, at, read_, position_, edge_, slices>>
      BY <2>8 DEF vars, inputVars, parameters, iterator
    <3>2. UNCHANGED <<unified, disjoint_set, i, components>>
      BY <2>8 DEF vars
    <3>3. Rank' = Rank /\ Wanted' = Wanted /\ UnifiedPairs' = UnifiedPairs
      BY <3>1, <3>2 DEF Rank, Wanted, UnifiedPairs
    <3>4. Types' /\ InStep'
      BY <3>1, <3>3 DEF IInv, Types, InStep
    <3>5. Slices' /\ Kept'
      BY <3>1, <3>3 DEF IInv, Slices, HasSlice, FromOf, ToOf, Kept, KeptOf
    <3>6. Sets' /\ Counting'
      BY <3>1, <3>2, <3>3 DEF IInv, Sets, SetsFor, Counting
    <3> QED
      BY <3>4, <3>5, <3>6 DEF IInv
  <2>9. CASE Terminated
    BY <2>8, <2>9 DEF Terminated
  <2> QED
    BY <2>1, <2>2, <2>3, <2>4, <2>5, <2>6, <2>7, <2>8, <2>9 DEF Next
<1> QED
  BY <1>1, <1>2, PTL DEF Spec

-----------------------------------------------------------------------------
(***************************************************************************)
(* What follows from the invariant.                                        *)
(***************************************************************************)
LEMMA WantedIsMax ==
  ASSUME Types
  PROVE  Max({lines_, 1}) = Wanted
PROOF
<1>1. lines_ \in Nat
  BY DEF Types
<1>2. {lines_, 1} \in SUBSET Int /\ Wanted \in {lines_, 1} /\ \A x \in {lines_, 1} : x <= Wanted
  BY <1>1 DEF Wanted
<1> QED
  BY <1>2, MaxIs

(***************************************************************************)
(* The edge at hand is the one that position_ counts, no more is read than *)
(* what is declared and the first edge, and only a file that is too short  *)
(* throws.                                                                 *)
(***************************************************************************)
THEOREM IteratorFollowsStream ==
  Spec => []PositionFollowsStream
PROOF
<1>1. IInv => PositionFollowsStream
  <2> SUFFICES ASSUME IInv
               PROVE  PositionFollowsStream
    OBVIOUS
  <2>1. Max({lines_, 1}) = Wanted
    BY WantedIsMax DEF IInv
  <2> QED
    BY <2>1 DEF IInv, InStep, PositionFollowsStream
<1> QED
  BY <1>1, Invariance, PTL

(***************************************************************************)
(* Together the ranks load what the file declares, every edge once and in  *)
(* order.                                                                  *)
(***************************************************************************)
THEOREM SlicesMakeTheFile ==
  Spec => []EveryEdgeOnce
PROOF
<1>1. IInv => EveryEdgeOnce
  <2> SUFFICES ASSUME IInv, rank = group_size
               PROVE  LET count == [r \in Rank |-> Len(slices[r])]
                      IN  /\ Below(count, group_size) = lines_
                          /\ \A r \in Rank :
                                slices[r] = SubSeq(file, Below(count, r) + 1, Below(count, r + 1))
    BY DEF EveryEdgeOnce
  <2> DEFINE count == [r \in Rank |-> Len(slices[r])]
             mark(r) == IF r = group_size THEN lines_ ELSE FromOf(r)
             S == {r \in 0 .. group_size : Below(count, r) = mark(r)}
  <2>1. Types /\ group_size \in Nat /\ group_size # 0 /\ user = "loadSlice" /\ lines_ \in Nat
    BY DEF IInv, Types
  <2>2. \A r \in Rank : HasSlice(r)
    BY <2>1 DEF IInv, Slices, Rank
  <2>3. file \in Seq(Edge(Nat))
    BY <2>1, FileIs
  <2>4. ASSUME NEW r \in Rank
        PROVE  /\ count[r] \in Nat
               /\ FromOf(r) \in Nat
               /\ FromOf(r) + count[r] = mark(r + 1)
    <3>1. /\ FromOf(r) \in Nat /\ ToOf(r) \in Nat /\ FromOf(r) <= ToOf(r)
          /\ r = group_size - 1 => ToOf(r) = lines_
          /\ r # group_size - 1 => r + 1 \in Rank /\ ToOf(r) = FromOf(r + 1)
      BY <2>1, SlicesLie
    <3>2. slices[r] = SubSeq(file, FromOf(r) + 1, ToOf(r)) /\ ToOf(r) <= Len(file)
      BY <2>2 DEF HasSlice
    <3>3. Len(slices[r]) = ToOf(r) - FromOf(r)
      BY <2>3, <3>1, <3>2, SubSeqIs
    <3>4. mark(r + 1) = ToOf(r)
      BY <2>1, <3>1 DEF Rank
    <3> HIDE DEF mark
    <3> QED
      BY <3>1, <3>3, <3>4
  <2>5. count \in [0 .. group_size - 1 -> Nat]
    BY <2>4 DEF Rank
  <2> HIDE DEF count
  <2>6. /\ Below(count, 0) = 0
        /\ \A r \in 0 .. group_size : Below(count, r) \in Nat
        /\ \A r \in 0 .. group_size - 1 : Below(count, r + 1) = Below(count, r) + count[r]
    BY <2>1, <2>5, PrefixSums
  <2>7. \A r \in 0 .. group_size : r \in S
    <3>1. 0 \in S
      <4>1. FromOf(0) = 0
        BY <2>1, FileIs, SlicesLie
      <4> QED
        BY <2>1, <2>6, <4>1
    <3>2. ASSUME NEW r \in 0 .. group_size - 1, r \in S
          PROVE  r + 1 \in S
      <4>1. Below(count, r) = FromOf(r)
        BY <2>1, <3>2
      <4>2. Below(count, r + 1) = mark(r + 1)
        BY <2>4, <2>6, <4>1 DEF Rank
      <4> QED
        BY <2>1, <4>2
    <3> HIDE DEF S
    <3> QED
      BY <2>1, <3>1, <3>2, CountingUp
  <2>8. Below(count, group_size) = lines_
    BY <2>1, <2>7
  <2>9. ASSUME NEW r \in Rank
        PROVE  slices[r] = SubSeq(file, Below(count, r) + 1, Below(count, r + 1))
    <3>1. slices[r] = SubSeq(file, FromOf(r) + 1, ToOf(r))
      BY <2>2 DEF HasSlice
    <3>2. Below(count, r) = FromOf(r)
      BY <2>1, <2>7 DEF Rank
    <3>3. Below(count, r + 1) = ToOf(r)
      <4>1. /\ r = group_size - 1 => ToOf(r) = lines_
            /\ r # group_size - 1 => r + 1 \in Rank /\ ToOf(r) = FromOf(r + 1)
        BY <2>1, SlicesLie
      <4>2. Below(count, r + 1) = mark(r + 1)
        BY <2>1, <2>7 DEF Rank
      <4> QED
        BY <2>1, <4>1, <4>2 DEF Rank
    <3> QED
      BY <3>1, <3>2, <3>3
  <2> QED
    BY <2>8, <2>9 DEF count
<1> QED
  BY <1>1, Invariance, PTL

(* Ranks rise, and a tree whose root has rank k has at least 2^k elements. *)
THEOREM TreesAreBalanced ==
  Spec => []Balanced
PROOF
<1>1. IInv => Balanced
  BY DEF IInv, Sets, SetsFor, Balanced
<1> QED
  BY <1>1, Invariance, PTL

(* The sets are the components of the edges unified so far.                *)
THEOREM UnifiedSets ==
  Spec => []SetsAreComponents
PROOF
<1>1. IInv => SetsAreComponents
  <2> SUFFICES ASSUME IInv, NEW v \in Node
               PROVE  SetOf(disjoint_set, v)
                        = Component(Node, Pairs(SubSeq(edges, 1, unified)), v)
    BY DEF SetsAreComponents
  <2>1. Pairs(SubSeq(edges, 1, unified)) = UnifiedPairs
    <3>1. slices[0] \in Seq(Edge(Nat)) /\ unified \in 0 .. Len(slices[0])
      BY FileIs DEF IInv, Types, Sets
    <3>2. \A k \in 1 .. unified : slices[0][k] \in Edge(Nat)
      BY <3>1
    <3>3. /\ SubSeq(slices[0], 1, unified) \in Seq(Edge(Nat))
          /\ Len(SubSeq(slices[0], 1, unified)) = unified
          /\ \A k \in 1 .. unified : SubSeq(slices[0], 1, unified)[k] = slices[0][k]
      BY <3>1, <3>2, SubSeqProperties
    <3>4. DOMAIN SubSeq(slices[0], 1, unified) = 1 .. unified
      BY <3>3
    <3> QED
      BY <3>3, <3>4 DEF Pairs, UnifiedPairs, edges
  <2>2. /\ DisjointTrees(Node, disjoint_set)
        /\ \A w \in Node : RootsIn(Node, disjoint_set)[w] = RootsIn(Node, disjoint_set)[v]
                              <=> Connected(Node, UnifiedPairs, v, w)
    BY DEF IInv, Sets, SetsFor
  <2>3. DOMAIN disjoint_set.parents = Node
    BY <2>2 DEF DisjointTrees
  <2>4. \A w \in Node : Representative(disjoint_set, w) = RootsIn(Node, disjoint_set)[w]
    BY <2>2, RepresentativeIsRoot
  <2> QED
    BY <2>1, <2>2, <2>3, <2>4 DEF SetOf, Component
<1> QED
  BY <1>1, Invariance, PTL

(* Dropping self loops connects no less.                                   *)
LEMMA DroppedLoops ==
  ASSUME NEW n \in Nat, NEW u, NEW v
  PROVE  Connected(Node, KeptOf(n), u, v)
           <=> Connected(Node, {Pair(file[k]) : k \in 1 .. n}, u, v)
PROOF
<1> DEFINE All == {Pair(file[k]) : k \in 1 .. n}
<1>1. ASSUME NEW S
      PROVE  ClosedUnder(S, KeptOf(n)) <=> ClosedUnder(S, All)
  <2>1. \A k \in 1 .. n : file[k].to = file[k].from
                            => Pair(file[k]) \subseteq S \/ Pair(file[k]) \cap S = {}
    BY DEF Pair
  <2>2. KeptOf(n) \subseteq All
    BY DEF KeptOf
  <2>3. \A p \in All : p \in KeptOf(n) \/ p \subseteq S \/ p \cap S = {}
    BY <2>1 DEF KeptOf
  <2> HIDE DEF All
  <2> QED
    BY <2>2, <2>3 DEF ClosedUnder
<1> HIDE DEF All
<1>2. Connected(Node, KeptOf(n), u, v) <=> Connected(Node, All, u, v)
  BY <1>1 DEF Connected
<1> QED
  BY <1>2 DEF All

(***************************************************************************)
(* The components printed are those of the graph that the file declares,   *)
(* and they have been counted with their sizes.                            *)
(***************************************************************************)
THEOREM PrintedCount ==
  Spec => []CountsComponents
PROOF
<1>1. IInv => CountsComponents
  <2> SUFFICES ASSUME IInv, at = "printed"
               PROVE  /\ Cardinality(DOMAIN components)
                           = Cardinality({Component(Node, Declared, v) : v \in Node})
                      /\ \A v \in DOMAIN components :
                            components[v] = Cardinality(Component(Node, Declared, v))
    BY DEF CountsComponents
  <2> DEFINE r == RootsIn(Node, disjoint_set)
             T(x) == {w \in Node : r[w] = x}
             D == {r[v] : v \in Node}
             Cs == {Component(Node, Declared, v) : v \in Node}
  <2>1. Types /\ user = "main" /\ position_ = Wanted /\ Wanted <= Len(file)
    BY DEF IInv, Types, InStep
  <2>2. Wanted \in Nat /\ Wanted >= 1 /\ file \in Seq(Edge(Nat)) /\ Max({lines_, 1}) = Wanted
    BY <2>1, FileIs, WantedIsMax
  <2>3. Declared = {Pair(file[k]) : k \in 1 .. Wanted}
    <3>1. \A k \in 1 .. Wanted : file[k] \in Edge(Nat)
      BY <2>1, <2>2
    <3>2. /\ SubSeq(file, 1, Wanted) \in Seq(Edge(Nat))
          /\ Len(SubSeq(file, 1, Wanted)) = Wanted
          /\ \A k \in 1 .. Wanted : SubSeq(file, 1, Wanted)[k] = file[k]
      BY <2>2, <3>1, SubSeqProperties
    <3>3. DOMAIN SubSeq(file, 1, Wanted) = 1 .. Wanted
      BY <3>2
    <3> QED
      BY <2>2, <3>2, <3>3 DEF Declared, Pairs
  <2>4. UnifiedPairs = KeptOf(Wanted)
    <3>1. unified = Len(slices[0]) /\ Pairs(slices[0]) = KeptOf(Wanted)
      BY <2>1 DEF IInv, Sets, Kept
    <3>2. slices[0] \in Seq(Edge(Node))
      BY <2>1 DEF IInv, Kept
    <3>3. DOMAIN slices[0] = 1 .. unified
      BY <3>1, <3>2
    <3> QED
      BY <3>1, <3>3 DEF UnifiedPairs, Pairs
  <2>5. \A u, v \in Node : r[u] = r[v] <=> Connected(Node, Declared, u, v)
    BY <2>2, <2>3, <2>4, DroppedLoops DEF IInv, Sets, SetsFor
  <2>6. \A v \in Node : r[v] \in Node /\ r[r[v]] = r[v]
    BY RootsOfForest, RootsType DEF IInv, Sets, SetsFor, DisjointTrees, RootsIn
  <2>7. components = CountedBy(r, N)
    BY DEF IInv, Counting
  <2> HIDE DEF r
  <2>8. \A v \in Node : Component(Node, Declared, v) = T(r[v])
    BY <2>5 DEF Component
  <2>9. DOMAIN components = D /\ \A x \in D : components[x] = Cardinality(T(x))
    BY <2>7 DEF CountedBy, Node
  <2>10. \A x \in D : Component(Node, Declared, x) = T(x)
    BY <2>6, <2>8
  <2>11. Cardinality(D) = Cardinality(Cs)
    <3> DEFINE f == [x \in D |-> T(x)]
    <3>1. f \in [D -> Cs]
      BY <2>8
    <3>2. \A x, y \in D : f[x] = f[y] => x = y
      BY <2>6
    <3>3. \A c \in Cs : \E x \in D : f[x] = c
      BY <2>8
    <3>4. IsFiniteSet(D)
      BY <2>6, NodeIs, FS_Subset
    <3> HIDE DEF f, D, Cs
    <3>5. ExistsBijection(D, Cs)
      BY <3>1, <3>2, <3>3 DEF ExistsBijection, Bijection, Injection, Surjection, IsInjective
    <3> QED
      BY <3>4, <3>5, FS_Bijection
  <2> HIDE DEF T, D
  <2> QED
    BY <2>9, <2>10, <2>11
<1> QED
  BY <1>1, Invariance, PTL
=============================================================================
