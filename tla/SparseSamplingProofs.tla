------------------------ MODULE SparseSamplingProofs ------------------------
(***************************************************************************)
(* The PPoPP 2018 program, for every graph, every number of ranks and      *)
(* every sample: rank 0 and the others agree on every collective call, no  *)
(* map is read outside its bounds, rank 0 numbers the components of every  *)
(* sample densely, every round is a round of Contraction, and the ranks    *)
(* return the components of the file and their number.                     *)
(*                                                                         *)
(* The argument is what lies between rank 0 and a rank r: the sum keeps    *)
(* them in the same round, and within a round their channels hold exactly  *)
(* what one has sent and the other has not yet taken, with the map and the *)
(* vertex count of the round that r has still to finish.                   *)
(*                                                                         *)
(* At the end, the loops of SampleAllocation: they compute the shares that *)
(* SparseSampling takes in closed form, if the sparse ranks fit.           *)
(***************************************************************************)
EXTENDS SparseSampling, SampleAllocation, GraphTheorems

Message(call, x) == [op |-> call, data |-> x]

-----------------------------------------------------------------------------
(***************************************************************************)
(* Rank 0 and rank r.                                                      *)
(***************************************************************************)
Counted(r) == Len(local_edges[r])

(* They come to the sum, and r may leave it first; ...                     *)
Summing(r) ==
  /\ pc[0] \in {"sum", "available"}
  /\ pc[r] \in {"sum", "available", "share"}
  /\ Counted(r) = Counted(0)
  /\ down[r] = <<>>
  /\ up[r] = IF pc[r] = "share" THEN <<Message("available", Len(edges_slice_[r]))>> ELSE <<>>

(* ... there is no edge left, ...                                          *)
Ending(r) ==
  /\ pc[0] \in {"sum", "done"}
  /\ pc[r] \in {"sum", "done"}
  /\ Counted(r) = Counted(0)
  /\ down[r] = <<>>
  /\ up[r] = <<>>

(* ... or they sample and rank 0 unites the samples.                       *)
Sampling(r) ==
  /\ Counted(r) = Counted(0)
  /\ \/ pc[0] = "share" /\ pc[r] = "share" /\ down[r] = <<>> /\ up[r] = <<>>
     \/ /\ pc[0] = "samples" /\ pc[r] = "share"
        /\ down[r] = <<Message("share", edges_per_processor[r])>>
        /\ up[r] = <<>>
     \/ pc[0] = "samples" /\ pc[r] = "samples" /\ down[r] = <<>> /\ up[r] = <<>>
     \/ /\ pc[0] = "samples" /\ pc[r] = "map"
        /\ down[r] = <<>>
        /\ up[r] = <<Message("samples", samples[r])>>
     \/ pc[0] \in {"unite", "relabel", "map"} /\ pc[r] = "map" /\ down[r] = <<>> /\ up[r] = <<>>

(* What rank 0 has broadcast and rank r has not taken. *)
Unread(r) ==
  LET map == Message("map", vertex_map[0])
      count == Message("vertex_count", vertex_count_[0])
  IN  IF pc[0] = "vertex_count" THEN IF pc[r] = "map" THEN <<map>> ELSE <<>>
      ELSE IF pc[r] = "map" THEN <<map, count>>
      ELSE IF pc[r] = "vertex_count" THEN <<count>>
      ELSE <<>>

(* Rank r follows rank 0 to the sum of the next round.                     *)
Renaming(r) ==
  /\ pc[0] \in {"vertex_count", "edges", "sum"}
  /\ pc[r] \in {"map", "vertex_count", "edges", "sum"}
  /\ pc[0] = "vertex_count" => pc[r] \in {"map", "vertex_count"}
  /\ Counted(r) + (IF pc[r] = "sum" THEN 0 ELSE 1)
       = Counted(0) + (IF pc[0] = "sum" THEN 0 ELSE 1)
  /\ down[r] = Unread(r)
  /\ up[r] = <<>>

Agrees(r) == Summing(r) \/ Ending(r) \/ Sampling(r) \/ Renaming(r)

(* The calls of a round, after the sum.                                    *)
InRound == {"available", "share", "samples", "unite", "relabel", "map", "vertex_count"}

TotalOf(n) == SumOver([s \in Rank |-> local_edges[s][n]], Rank)

(* A rank that has passed the sum of its round knows what all have         *)
(* contributed; what it has contributed is the length of its slice until   *)
(* it renames its edges.                                                   *)
Rounds ==
  /\ \A r \in Rank : pc[r] # "edges" => Counted(r) # 0
  /\ \A r, s \in Rank : pc[r] \in InRound \cup {"done"} => Counted(r) <= Counted(s)
  /\ \A r \in Rank : pc[r] \in InRound => TotalOf(Counted(r)) > 0
  /\ \A r \in Rank : pc[r] = "done" => ~ (TotalOf(Counted(r)) > 0)
  /\ \A r \in Rank : pc[r] \notin {"edges", "vertex_count"} =>
        local_edges[r][Counted(r)] = Len(edges_slice_[r])

(* The numbers that the edges of a rank consist of.                        *)
Ends(r) ==
  IF pc[r] = "map" THEN DOMAIN vertex_map[r]
  ELSE IF pc[r] = "vertex_count" THEN Numbers(vertex_count_[0])
  ELSE Numbers(vertex_count_[r])

(* The map of rank 0, while others may have to read it. *)
MapHeld == pc[0] \in {"map", "vertex_count", "edges", "sum"}

SliceEnds(r) == edges_slice_[r] \in Seq(Edge(Ends(r)))

MasterNumbers ==
  /\ MapHeld => vertex_map[0] \in [DOMAIN vertex_map[0] -> Numbers(vertex_count_[0])]
  /\ pc[0] \in {"available", "share", "samples", "unite", "relabel"} =>
        DOMAIN vertex_map[0] = Numbers(vertex_count_[0])

(* A rank that has not taken the map or the count of the round still has   *)
(* the count that the map is to be applied with.                           *)
SlaveNumbers(r) ==
  /\ pc[r] \in {"available", "share", "samples", "map"} =>
        DOMAIN vertex_map[r] = Numbers(vertex_count_[r])
  /\ IF pc[r] \in {"map", "vertex_count"} /\ MapHeld
     THEN pc[r] = "map" => DOMAIN vertex_map[0] = Numbers(vertex_count_[r])
     ELSE vertex_count_[r] = vertex_count_[0]

Numbering ==
  /\ vertex_count_ \in [Rank -> Nat \ {0}]
  /\ \A r \in Rank : SliceEnds(r)
  /\ MasterNumbers
  /\ \A r \in Slave : SlaveNumbers(r)

Drawn(r) ==
  pc[r] \in {"samples", "unite", "relabel", "map"} =>
     samples[r] \in SUBSET Range(edges_slice_[r])

Types ==
  /\ input \in Inputs
  /\ pc \in [Rank -> InRound \cup {"edges", "sum", "done"}]
  /\ pc[0] # "aborted"
  /\ \A r \in Slave : pc[r] \notin {"unite", "relabel"}
  /\ local_edges \in [Rank -> Seq(Nat)]
  /\ DOMAIN edges_slice_ = Rank /\ DOMAIN vertex_map = Rank /\ DOMAIN samples = Rank
  /\ DOMAIN down = Slave /\ DOMAIN up = Slave

Running ==
  /\ Types
  /\ \A r \in Slave : Agrees(r)
  /\ Rounds
  /\ Numbering
  /\ \A r \in Rank : Drawn(r)

Aborted == \A r \in Rank : pc[r] = "aborted"

(* Outside of prefixConnectedComponents its variables do not exist. *)
Framed == pc[0] \notin {"unite", "relabel"} => NoFrame

-----------------------------------------------------------------------------
LEMMA Constants ==
  /\ N \in Nat /\ N # 0 /\ P \in Nat /\ P # 0
  /\ 0 \in Rank /\ 0 \notin Slave /\ Rank \in SUBSET Nat /\ IsFiniteSet(Rank)
  /\ \A r \in Slave : r \in Rank /\ r # 0
  /\ \A r \in Rank : r # 0 => r \in Slave
<1>1. N \in Nat /\ N # 0 /\ P \in Nat /\ P # 0
  BY ConstantAssumption, RankAssumption
<1>2. IsFiniteSet(0 .. P-1)
  BY <1>1, FS_Interval
<1> QED
  BY <1>1, <1>2 DEF Rank, Slave

(* What a step leaves alone of a rank, and of its channels.                *)
Same(r) ==
  /\ pc'[r] = pc[r]
  /\ local_edges'[r] = local_edges[r]
  /\ edges_slice_'[r] = edges_slice_[r]
  /\ vertex_count_'[r] = vertex_count_[r]
  /\ vertex_map'[r] = vertex_map[r]
  /\ samples'[r] = samples[r]

SameChannels(r) == down'[r] = down[r] /\ up'[r] = up[r]

SameDomains ==
  /\ input' = input
  /\ DOMAIN edges_slice_' = Rank /\ DOMAIN vertex_map' = Rank /\ DOMAIN samples' = Rank
  /\ DOMAIN down' = Slave /\ DOMAIN up' = Slave
  /\ DOMAIN pc' = Rank /\ DOMAIN local_edges' = Rank /\ DOMAIN vertex_count_' = Rank

Domains ==
  /\ DOMAIN edges_slice_ = Rank /\ DOMAIN vertex_map = Rank /\ DOMAIN samples = Rank
  /\ DOMAIN down = Slave /\ DOMAIN up = Slave
  /\ DOMAIN pc = Rank /\ DOMAIN local_edges = Rank /\ DOMAIN vertex_count_ = Rank

LEMMA RunningDomains == Running => Domains
BY DEF Running, Types, Numbering, Domains

(* A rank that is not rank 0 changes what is its own. *)
LEMMA SlaveLocal ==
  ASSUME Domains, NEW r \in Slave, SlaveStep(r)
  PROVE  /\ SameDomains
         /\ \A s \in Rank : s # r => Same(s)
         /\ \A s \in Slave : s # r => SameChannels(s)
         /\ UNCHANGED <<edges_per_processor, rootVars>>
<1> USE DEF Domains, SameDomains, Same, SameChannels, Goto, TakeDown, SendUp, channels,
            graphVars, sampleVars
<1>1. CASE CountEdges(r)
  BY <1>1 DEF CountEdges
<1>2. CASE WhileEdges(r)
  BY <1>2 DEF WhileEdges
<1>3. CASE SlaveAvailable(r)
  BY <1>3 DEF SlaveAvailable
<1>4. CASE SlaveShare(r)
  BY <1>4 DEF SlaveShare
<1>5. CASE SlaveSamples(r)
  BY <1>5 DEF SlaveSamples
<1>6. CASE SlaveMap(r)
  BY <1>6 DEF SlaveMap
<1>7. CASE SlaveVertexCount(r)
  BY <1>7 DEF SlaveVertexCount
<1> QED
  BY <1>1, <1>2, <1>3, <1>4, <1>5, <1>6, <1>7 DEF SlaveStep

(* Rank 0 aborts all, or changes what is its own. *)
Aborts == MasterAvailable /\ ~ SparseFit(Contributions(Len(edges_slice_[0])))

LEMMA MasterLocal ==
  ASSUME Domains, MasterStep, ~ Aborts
  PROVE  SameDomains /\ \A s \in Slave : Same(s)
<1> USE Constants DEF Domains, SameDomains, Same, Goto, TakeUp, SendDown, BcastDown, channels,
            graphVars, sampleVars
<1>1. CASE CountEdges(0)
  BY <1>1 DEF CountEdges
<1>2. CASE WhileEdges(0)
  BY <1>2 DEF WhileEdges
<1>3. CASE MasterAvailable
  BY <1>3 DEF MasterAvailable, Aborts
<1>4. CASE MasterShare
  BY <1>4 DEF MasterShare
<1>5. CASE MasterSamples
  BY <1>5 DEF MasterSamples
<1>6. CASE MasterUnite
  BY <1>6 DEF MasterUnite
<1>7. CASE MasterUnited
  BY <1>7 DEF MasterUnited
<1>8. CASE MasterRelabel
  BY <1>8 DEF MasterRelabel
<1>9. CASE MasterMapped
  BY <1>9 DEF MasterMapped
<1>10. CASE MasterMap
  BY <1>10 DEF MasterMap
<1>11. CASE MasterVertexCount
  BY <1>11 DEF MasterVertexCount
<1> QED
  BY <1>1, <1>2, <1>3, <1>4, <1>5, <1>6, <1>7, <1>8, <1>9, <1>10, <1>11 DEF MasterStep
-----------------------------------------------------------------------------
(***************************************************************************)
(* The channels.                                                           *)
(***************************************************************************)
LEMMA AgreesStays ==
  ASSUME NEW r \in Slave, Agrees(r), Same(r), Same(0), SameChannels(r),
         edges_per_processor' = edges_per_processor
  PROVE  Agrees(r)'
<1>1. /\ pc'[r] = pc[r] /\ pc'[0] = pc[0] /\ down'[r] = down[r] /\ up'[r] = up[r]
      /\ edges_slice_'[r] = edges_slice_[r] /\ samples'[r] = samples[r]
      /\ vertex_map'[0] = vertex_map[0] /\ vertex_count_'[0] = vertex_count_[0]
      /\ Counted(r)' = Counted(r) /\ Counted(0)' = Counted(0)
  BY DEF Same, SameChannels, Counted
<1>2. Summing(r)' = Summing(r) /\ Ending(r)' = Ending(r)
  BY <1>1 DEF Summing, Ending
<1>3. Sampling(r)' = Sampling(r) /\ Renaming(r)' = Renaming(r)
  BY <1>1 DEF Sampling, Renaming, Unread
<1> QED
  BY <1>2, <1>3 DEF Agrees

(* Short sequences. *)
LEMMA SequencesEqual ==
  ASSUME NEW S, NEW s \in Seq(S), NEW t \in Seq(S), Len(s) = Len(t),
         \A i \in 1 .. Len(s) : s[i] = t[i]
  PROVE  s = t
OBVIOUS

LEMMA OneOrTwo ==
  ASSUME NEW S, NEW a \in S, NEW b \in S, NEW s \in Seq(S)
  PROVE  /\ Len(s) = 1 /\ s[1] = a => s = <<a>>
         /\ Len(s) = 2 /\ s[1] = a /\ s[2] = b => s = <<a, b>>
<1>1. <<a>> \in Seq(S) /\ Len(<<a>>) = 1 /\ <<a>>[1] = a
  OBVIOUS
<1>2. <<a, b>> \in Seq(S) /\ Len(<<a, b>>) = 2 /\ <<a, b>>[1] = a /\ <<a, b>>[2] = b
  OBVIOUS
<1>3. ASSUME Len(s) = 1, s[1] = a PROVE s = <<a>>
  <2>1. \A i \in 1 .. Len(s) : s[i] = <<a>>[i]
    BY <1>1, <1>3
  <2> QED
    BY <1>1, <1>3, <2>1, SequencesEqual
<1>4. ASSUME Len(s) = 2, s[1] = a, s[2] = b PROVE s = <<a, b>>
  <2>1. \A i \in 1 .. Len(s) : s[i] = <<a, b>>[i]
    BY <1>2, <1>4
  <2> QED
    BY <1>2, <1>4, <2>1, SequencesEqual
<1> QED
  BY <1>3, <1>4

LEMMA TailEnds ==
  ASSUME NEW S, NEW s \in Seq(S), s # <<>>
  PROVE  /\ Tail(s) \in Seq(S) /\ Len(Tail(s)) = Len(s) - 1
         /\ \A i \in 1 .. Len(s) - 1 : Tail(s)[i] = s[i+1]
OBVIOUS

LEMMA AppendEnds ==
  ASSUME NEW S, NEW s \in Seq(S), NEW b \in S
  PROVE  /\ Append(s, b) \in Seq(S) /\ Len(Append(s, b)) = Len(s) + 1
         /\ Append(s, b)[Len(s) + 1] = b
         /\ \A i \in 1 .. Len(s) : Append(s, b)[i] = s[i]
OBVIOUS

LEMMA Short ==
  ASSUME NEW a, NEW b
  PROVE  /\ <<a>> # <<>> /\ Head(<<a>>) = a /\ Tail(<<a>>) = <<>>
         /\ <<a, b>> # <<>> /\ Head(<<a, b>>) = a /\ Tail(<<a, b>>) = <<b>>
         /\ Append(<<>>, a) = <<a>> /\ Append(<<a>>, b) = <<a, b>>
<1> DEFINE S == {a, b}
           s == <<a>>
           t == <<a, b>>
<1>1. /\ <<a>> # <<>> /\ Head(<<a>>) = a /\ Tail(<<a>>) = <<>>
      /\ <<a, b>> # <<>> /\ Head(<<a, b>>) = a
      /\ Append(<<>>, a) = <<a>>
  OBVIOUS
<1>2. a \in S /\ b \in S /\ s \in Seq(S) /\ Len(s) = 1 /\ s[1] = a
  OBVIOUS
<1>3. t \in Seq(S) /\ Len(t) = 2 /\ t[2] = b /\ t # <<>>
  OBVIOUS
<1> HIDE DEF S, s, t
<1>4. Append(s, b) = <<a, b>>
  <2>1. /\ Append(s, b) \in Seq(S) /\ Len(Append(s, b)) = Len(s) + 1
        /\ Append(s, b)[Len(s) + 1] = b
        /\ \A i \in 1 .. Len(s) : Append(s, b)[i] = s[i]
    BY <1>2, AppendEnds
  <2>2. /\ Len(Append(s, b)) = 2 /\ Append(s, b)[1] = a /\ Append(s, b)[2] = b
    BY <1>2, <2>1
  <2> QED
    BY <1>2, <2>1, <2>2, OneOrTwo
<1>5. Tail(t) = <<b>>
  <2>1. /\ Tail(t) \in Seq(S) /\ Len(Tail(t)) = Len(t) - 1
        /\ \A i \in 1 .. Len(t) - 1 : Tail(t)[i] = t[i+1]
    BY <1>3, TailEnds
  <2>2. Len(Tail(t)) = 1 /\ Tail(t)[1] = b
    BY <1>3, <2>1
  <2> QED
    BY <1>2, <2>1, <2>2, OneOrTwo
<1> QED
  BY <1>1, <1>4, <1>5 DEF s, t

(* A message that is there is the next one. *)
LEMMA Taken ==
  ASSUME NEW r \in Slave, Agrees(r), down[r] # <<>>
  PROVE  \/ /\ Sampling(r) /\ pc[0] = "samples" /\ pc[r] = "share"
            /\ Head(down[r]) = Message("share", edges_per_processor[r])
            /\ Tail(down[r]) = <<>>
         \/ /\ Renaming(r) /\ pc[r] = "map"
            /\ Head(down[r]) = Message("map", vertex_map[0])
            /\ Tail(down[r]) = IF pc[0] = "vertex_count" THEN <<>>
                               ELSE <<Message("vertex_count", vertex_count_[0])>>
         \/ /\ Renaming(r) /\ pc[r] = "vertex_count" /\ pc[0] \in {"edges", "sum"}
            /\ Head(down[r]) = Message("vertex_count", vertex_count_[0])
            /\ Tail(down[r]) = <<>>
<1>1. CASE Sampling(r)
  <2>1. /\ pc[0] = "samples" /\ pc[r] = "share"
        /\ down[r] = <<Message("share", edges_per_processor[r])>>
    BY <1>1 DEF Sampling
  <2> QED
    BY <1>1, <2>1, Short
<1>2. CASE Renaming(r)
  <2>1. /\ down[r] = Unread(r) /\ pc[0] \in {"vertex_count", "edges", "sum"}
        /\ pc[r] \in {"map", "vertex_count", "edges", "sum"}
    BY <1>2 DEF Renaming
  <2>2. CASE pc[r] = "map" /\ pc[0] = "vertex_count"
    <3>1. down[r] = <<Message("map", vertex_map[0])>>
      BY <2>1, <2>2 DEF Unread
    <3> QED
      BY <1>2, <2>2, <3>1, Short
  <2>3. CASE pc[r] = "map" /\ pc[0] # "vertex_count"
    <3>1. down[r] = <<Message("map", vertex_map[0]), Message("vertex_count", vertex_count_[0])>>
      BY <2>1, <2>3 DEF Unread
    <3> QED
      BY <1>2, <2>3, <3>1, Short
  <2>4. CASE pc[r] = "vertex_count"
    <3>1. /\ pc[0] # "vertex_count"
          /\ down[r] = <<Message("vertex_count", vertex_count_[0])>>
      BY <2>1, <2>4 DEF Unread
    <3> QED
      BY <1>2, <2>1, <2>4, <3>1, Short
  <2> QED
    BY <2>1, <2>2, <2>3, <2>4 DEF Unread
<1> QED
  BY <1>1, <1>2 DEF Agrees, Summing, Ending

(* The guard of the sum: nobody is left in the round before.               *)
LEMMA AllCounted ==
  ASSUME Running, NEW r \in Rank, WhileEdges(r)
  PROVE  /\ Counted(r) # 0
         /\ \A s \in Rank : Counted(r) <= Counted(s) /\ Counted(s) \in Nat
         /\ Total(r) = TotalOf(Counted(r))
BY DEF Running, Types, Rounds, WhileEdges, Counted, Total, TotalOf

LEMMA SlaveAgrees ==
  ASSUME Running, NEW r \in Slave, SlaveStep(r), NEW s \in Slave
  PROVE  Agrees(s)'
<1>1. /\ Same(0)
      /\ \A q \in Slave : q # r => Same(q) /\ SameChannels(q)
      /\ edges_per_processor' = edges_per_processor
      /\ Domains /\ SameDomains
  BY Constants, RunningDomains, SlaveLocal
<1>2. \A q \in Slave : Agrees(q)
  BY DEF Running
<1>3. CASE s # r
  BY <1>1, <1>2, <1>3, AgreesStays
<1>4. /\ pc'[0] = pc[0] /\ vertex_map'[0] = vertex_map[0]
      /\ vertex_count_'[0] = vertex_count_[0] /\ local_edges'[0] = local_edges[0]
      /\ Counted(0)' = Counted(0) /\ Counted(0) \in Nat /\ Counted(r) \in Nat
      /\ 0 \in Rank /\ r \in Rank /\ r # 0
  BY <1>1, Constants DEF Same, Counted, Running, Types
<1>5. CASE CountEdges(r)
  <2>1. /\ pc[r] = "edges" /\ pc'[r] = "sum" /\ down' = down /\ up' = up
        /\ edges_slice_'[r] = edges_slice_[r]
        /\ local_edges'[r] = Append(local_edges[r], Len(edges_slice_[r]))
    BY <1>1, <1>4, <1>5 DEF CountEdges, Goto, Domains, channels, graphVars
  <2>2. Counted(r)' = Counted(r) + 1
    BY <1>4, <2>1 DEF Counted, Running, Types
  <2>3. Renaming(r)
    BY <1>2, <2>1 DEF Agrees, Summing, Ending, Sampling
  <2>4. Unread(r)' = Unread(r)
    BY <1>4, <2>1 DEF Unread
  <2>5. Renaming(r)'
    BY <1>4, <2>1, <2>2, <2>3, <2>4 DEF Renaming
  <2> QED
    BY <1>3, <2>5 DEF Agrees
<1>6. CASE WhileEdges(r)
  <2>1. /\ pc[r] = "sum" /\ pc'[r] \in {"available", "done"} /\ down' = down /\ up' = up
        /\ pc'[r] = IF Total(r) > 0 THEN "available" ELSE "done"
        /\ local_edges' = local_edges
    BY <1>1, <1>4, <1>6 DEF WhileEdges, Goto, Domains, channels
  <2>2. Counted(r)' = Counted(r) /\ Counted(r) <= Counted(0) /\ Counted(0) <= Counted(0)
    BY <1>4, <1>6, <2>1, AllCounted DEF Counted
  <2>3. Summing(r) \/ Ending(r) \/ Renaming(r)
    BY <1>2, <2>1 DEF Agrees, Sampling
  <2>4. /\ pc[0] \in {"sum", "available", "done"} /\ Counted(r) = Counted(0)
        /\ down[r] = <<>> /\ up[r] = <<>>
    <3>1. CASE Renaming(r)
      <4>1. pc[0] \in {"edges", "sum"} /\ up[r] = <<>> /\ down[r] = <<>>
        BY <2>1, <3>1 DEF Renaming, Unread
      <4>2. pc[0] = "sum" /\ Counted(r) = Counted(0)
        BY <1>4, <2>1, <2>2, <3>1, <4>1 DEF Renaming
      <4> QED
        BY <4>1, <4>2
    <3> QED
      BY <2>1, <2>3, <3>1 DEF Summing, Ending
  <2>5. /\ pc[0] = "available" => Total(r) > 0
        /\ pc[0] = "done" => ~ (Total(r) > 0)
    BY <1>4, <1>6, <2>4, AllCounted DEF Running, Rounds, InRound
  <2>6. CASE Total(r) > 0
    <3>1. Summing(r)'
      BY <1>4, <2>1, <2>2, <2>4, <2>5, <2>6 DEF Summing
    <3> QED
      BY <1>3, <3>1 DEF Agrees
  <2>7. CASE ~ (Total(r) > 0)
    <3>1. Ending(r)'
      BY <1>4, <2>1, <2>2, <2>4, <2>5, <2>7 DEF Ending
    <3> QED
      BY <1>3, <3>1 DEF Agrees
  <2> QED
    BY <2>6, <2>7
<1>7. CASE SlaveAvailable(r)
  <2>1. /\ pc[r] = "available" /\ pc'[r] = "share" /\ down' = down
        /\ up'[r] = Append(up[r], Message("available", Len(edges_slice_[r])))
        /\ edges_slice_'[r] = edges_slice_[r] /\ local_edges' = local_edges
    BY <1>1, <1>4, <1>7 DEF SlaveAvailable, Goto, SendUp, Domains, channels, graphVars, Message
  <2>2. Summing(r)
    BY <1>2, <2>1 DEF Agrees, Ending, Sampling, Renaming
  <2>3. up[r] = <<>>
    BY <2>1, <2>2 DEF Summing
  <2>4. up'[r] = <<Message("available", Len(edges_slice_[r]))>>
    BY <2>1, <2>3
  <2>5. Summing(r)'
    BY <1>4, <2>1, <2>2, <2>4 DEF Summing, Counted
  <2> QED
    BY <1>3, <2>5 DEF Agrees
<1>8. CASE SlaveShare(r)
  <2>1. /\ pc[r] = "share" /\ pc'[r] = "samples" /\ up' = up
        /\ down[r] # <<>> /\ down'[r] = Tail(down[r]) /\ local_edges' = local_edges
    BY <1>1, <1>4, <1>8 DEF SlaveShare, Goto, TakeDown, Domains
  <2>2. Sampling(r) /\ pc[0] = "samples" /\ Tail(down[r]) = <<>>
    BY <1>2, <2>1, Taken
  <2>3. Sampling(r)'
    BY <1>4, <2>1, <2>2 DEF Sampling, Counted
  <2> QED
    BY <1>3, <2>3 DEF Agrees
<1>9. CASE SlaveSamples(r)
  <2>1. /\ pc[r] = "samples" /\ pc'[r] = "map" /\ down' = down
        /\ up'[r] = Append(up[r], Message("samples", samples[r]))
        /\ samples'[r] = samples[r] /\ local_edges' = local_edges
    BY <1>1, <1>4, <1>9 DEF SlaveSamples, Goto, SendUp, Domains, channels, sampleVars, Message
  <2>2. Sampling(r)
    BY <1>2, <2>1 DEF Agrees, Ending, Summing, Renaming
  <2>3. up[r] = <<>> /\ down[r] = <<>> /\ pc[0] = "samples"
    BY <2>1, <2>2 DEF Sampling
  <2>4. up'[r] = <<Message("samples", samples[r])>>
    BY <2>1, <2>3
  <2>5. Sampling(r)'
    BY <1>4, <2>1, <2>2, <2>3, <2>4 DEF Sampling, Counted
  <2> QED
    BY <1>3, <2>5 DEF Agrees
<1>10. CASE SlaveMap(r)
  <2>1. /\ pc[r] = "map" /\ pc'[r] = "vertex_count" /\ up' = up
        /\ down[r] # <<>> /\ down'[r] = Tail(down[r]) /\ local_edges' = local_edges
    BY <1>1, <1>4, <1>10 DEF SlaveMap, Goto, TakeDown, Domains
  <2>2. /\ Renaming(r)
        /\ Tail(down[r]) = IF pc[0] = "vertex_count" THEN <<>>
                           ELSE <<Message("vertex_count", vertex_count_[0])>>
    BY <1>2, <2>1, Taken
  <2>3. Unread(r)' = Tail(down[r])
    BY <1>4, <2>1, <2>2 DEF Renaming, Unread
  <2>4. Renaming(r)'
    BY <1>4, <2>1, <2>2, <2>3 DEF Renaming, Counted
  <2> QED
    BY <1>3, <2>4 DEF Agrees
<1>11. CASE SlaveVertexCount(r)
  <2>1. /\ pc[r] = "vertex_count" /\ pc'[r] = "edges" /\ up' = up
        /\ down[r] # <<>> /\ down'[r] = Tail(down[r]) /\ local_edges' = local_edges
    BY <1>1, <1>4, <1>11 DEF SlaveVertexCount, Goto, TakeDown, Domains
  <2>2. Renaming(r) /\ pc[0] \in {"edges", "sum"} /\ Tail(down[r]) = <<>>
    BY <1>2, <2>1, Taken
  <2>3. Unread(r)' = Tail(down[r])
    BY <1>4, <2>1, <2>2 DEF Renaming, Unread
  <2>4. Renaming(r)'
    BY <1>4, <2>1, <2>2, <2>3 DEF Renaming, Counted
  <2> QED
    BY <1>3, <2>4 DEF Agrees
<1> QED
  BY <1>5, <1>6, <1>7, <1>8, <1>9, <1>10, <1>11 DEF SlaveStep
(* What rank 0 finds in the channels from the others.                      *)
LEMMA Answers ==
  ASSUME NEW r \in Slave, Agrees(r), up[r] # <<>>
  PROVE  /\ Tail(up[r]) = <<>>
         /\ \/ /\ Summing(r) /\ pc[r] = "share"
               /\ Head(up[r]) = Message("available", Len(edges_slice_[r]))
            \/ /\ Sampling(r) /\ pc[0] = "samples" /\ pc[r] = "map"
               /\ Head(up[r]) = Message("samples", samples[r])
<1>1. CASE Summing(r)
  <2>1. pc[r] = "share" /\ up[r] = <<Message("available", Len(edges_slice_[r]))>>
    BY <1>1 DEF Summing
  <2> QED
    BY <1>1, <2>1, Short
<1>2. CASE Sampling(r)
  <2>1. /\ pc[0] = "samples" /\ pc[r] = "map"
        /\ up[r] = <<Message("samples", samples[r])>>
    BY <1>2 DEF Sampling
  <2> QED
    BY <1>2, <2>1, Short
<1> QED
  BY <1>1, <1>2 DEF Agrees, Ending, Renaming

LEMMA MasterAgrees ==
  ASSUME Running, MasterStep, ~ Aborts, NEW r \in Slave
  PROVE  Agrees(r)'
<1>1. /\ pc'[r] = pc[r] /\ edges_slice_'[r] = edges_slice_[r]
      /\ samples'[r] = samples[r] /\ local_edges'[r] = local_edges[r]
      /\ vertex_map'[r] = vertex_map[r] /\ Counted(r)' = Counted(r)
      /\ Domains /\ SameDomains
  BY RunningDomains, MasterLocal DEF Same, Counted
<1>2. Agrees(r) /\ Counted(0) \in Nat /\ Counted(r) \in Nat /\ 0 \in Rank /\ r \in Rank /\ r # 0
  BY Constants DEF Running, Types, Counted
<1>3. CASE CountEdges(0)
  <2>1. /\ pc[0] = "edges" /\ pc'[0] = "sum" /\ down' = down /\ up' = up
        /\ vertex_map' = vertex_map /\ vertex_count_' = vertex_count_
        /\ local_edges'[0] = Append(local_edges[0], Len(edges_slice_[0]))
    BY <1>1, <1>2, <1>3 DEF CountEdges, Goto, Domains, channels, graphVars
  <2>2. Counted(0)' = Counted(0) + 1
    BY <1>2, <2>1 DEF Counted, Running, Types
  <2>3. Renaming(r)
    BY <1>2, <2>1 DEF Agrees, Summing, Ending, Sampling
  <2>4. Unread(r)' = Unread(r)
    BY <1>1, <2>1 DEF Unread
  <2>5. Renaming(r)'
    BY <1>1, <1>2, <2>1, <2>2, <2>3, <2>4 DEF Renaming
  <2> QED
    BY <2>5 DEF Agrees
<1>4. CASE WhileEdges(0)
  <2>1. /\ pc[0] = "sum" /\ pc'[0] \in {"available", "done"} /\ down' = down /\ up' = up
        /\ pc'[0] = IF Total(0) > 0 THEN "available" ELSE "done"
        /\ local_edges' = local_edges
    BY <1>1, <1>2, <1>4 DEF WhileEdges, Goto, Domains, channels
  <2>2. Counted(0)' = Counted(0) /\ Counted(0) <= Counted(r) /\ Counted(r) <= Counted(r)
    BY <1>2, <1>4, <2>1, AllCounted DEF Counted
  <2>3. Summing(r) \/ Ending(r) \/ Renaming(r)
    BY <1>2, <2>1 DEF Agrees, Sampling
  <2>4. /\ pc[r] \in {"sum", "available", "share", "done"} /\ Counted(r) = Counted(0)
        /\ down[r] = <<>>
        /\ up[r] = IF pc[r] = "share" THEN <<Message("available", Len(edges_slice_[r]))>> ELSE <<>>
    <3>1. CASE Renaming(r)
      <4>1. pc[r] = "sum" /\ Counted(r) = Counted(0)
        BY <1>2, <2>1, <2>2, <3>1 DEF Renaming
      <4>2. up[r] = <<>> /\ down[r] = <<>>
        BY <2>1, <3>1, <4>1 DEF Renaming, Unread
      <4> QED
        BY <4>1, <4>2
    <3>2. CASE Summing(r)
      BY <3>2 DEF Summing
    <3>3. CASE Ending(r)
      BY <3>3 DEF Ending
    <3> QED
      BY <2>3, <3>1, <3>2, <3>3
  <2>5. /\ pc[r] \in {"available", "share"} => Total(0) > 0
        /\ pc[r] = "done" => ~ (Total(0) > 0)
    BY <1>2, <1>4, <2>4, AllCounted DEF Running, Rounds, InRound
  <2>6. CASE Total(0) > 0
    <3>1. Summing(r)'
      BY <1>1, <2>1, <2>2, <2>4, <2>5, <2>6 DEF Summing
    <3> QED
      BY <3>1 DEF Agrees
  <2>7. CASE ~ (Total(0) > 0)
    <3>1. Ending(r)'
      BY <1>1, <2>1, <2>2, <2>4, <2>5, <2>7 DEF Ending
    <3> QED
      BY <3>1 DEF Agrees
  <2> QED
    BY <2>6, <2>7
<1>5. CASE MasterAvailable
  <2>1. /\ pc[0] = "available" /\ pc'[0] = "share" /\ down' = down
        /\ up[r] # <<>> /\ up'[r] = Tail(up[r]) /\ local_edges' = local_edges
    BY <1>1, <1>2, <1>5 DEF MasterAvailable, Aborts, Goto, TakeUp, Domains
  <2>2. Summing(r) /\ pc[r] = "share" /\ Tail(up[r]) = <<>>
    BY <1>2, <2>1, Answers
  <2>3. Sampling(r)'
    BY <1>1, <2>1, <2>2 DEF Sampling, Summing, Counted
  <2> QED
    BY <2>3 DEF Agrees
<1>6. CASE MasterShare
  <2>1. /\ pc[0] = "share" /\ pc'[0] = "samples" /\ up' = up
        /\ edges_per_processor' = edges_per_processor
        /\ down'[r] = Append(down[r], Message("share", edges_per_processor[r]))
        /\ local_edges' = local_edges
    BY <1>1, <1>2, <1>6 DEF MasterShare, Goto, SendDown, Domains, Message
  <2>2. Sampling(r) /\ pc[r] = "share" /\ down[r] = <<>>
    BY <1>2, <2>1 DEF Agrees, Summing, Ending, Sampling, Renaming
  <2>3. down'[r] = <<Message("share", edges_per_processor[r])>>
    BY <2>1, <2>2, Short
  <2>4. Sampling(r)'
    BY <1>1, <2>1, <2>2, <2>3 DEF Sampling, Counted
  <2> QED
    BY <2>4 DEF Agrees
<1>7. CASE MasterSamples
  <2>1. /\ pc[0] = "samples" /\ pc'[0] = "unite" /\ down' = down
        /\ up[r] # <<>> /\ up'[r] = Tail(up[r]) /\ local_edges' = local_edges
    BY <1>1, <1>2, <1>7 DEF MasterSamples, Goto, TakeUp, Domains
  <2>2. Sampling(r) /\ pc[r] = "map" /\ Tail(up[r]) = <<>>
    BY <1>2, <2>1, Answers DEF Summing
  <2>3. Sampling(r)'
    BY <1>1, <2>1, <2>2 DEF Sampling, Counted
  <2> QED
    BY <2>3 DEF Agrees
<1>8. CASE MasterUnite \/ MasterUnited \/ MasterRelabel \/ MasterMapped
  <2>1. /\ pc[0] \in {"unite", "relabel"} /\ pc'[0] \in {"unite", "relabel", "map"}
        /\ down' = down /\ up' = up /\ local_edges' = local_edges
    BY <1>1, <1>2, <1>8 DEF MasterUnite, MasterUnited, MasterRelabel, MasterMapped, Goto,
       Domains, channels
  <2>2. Sampling(r)
    BY <1>2, <2>1 DEF Agrees, Summing, Ending, Sampling, Renaming
  <2>3. Sampling(r)'
    BY <1>1, <2>1, <2>2 DEF Sampling, Counted
  <2> QED
    BY <2>3 DEF Agrees
<1>9. CASE MasterMap
  <2>1. /\ pc[0] = "map" /\ pc'[0] = "vertex_count" /\ up' = up
        /\ vertex_map' = vertex_map /\ vertex_count_' = vertex_count_
        /\ down'[r] = Append(down[r], Message("map", vertex_map[0]))
        /\ local_edges' = local_edges
    BY <1>1, <1>2, <1>9 DEF MasterMap, Goto, SendDown, BcastDown, Domains, Message
  <2>2. Sampling(r) /\ pc[r] = "map" /\ down[r] = <<>> /\ up[r] = <<>>
    BY <1>2, <2>1 DEF Agrees, Summing, Ending, Sampling, Renaming
  <2>3. down'[r] = <<Message("map", vertex_map[0])>>
    BY <2>1, <2>2, Short
  <2>4. Unread(r)' = down'[r]
    BY <1>1, <2>1, <2>2, <2>3 DEF Unread
  <2>5. Renaming(r)'
    BY <1>1, <2>1, <2>2, <2>4 DEF Renaming, Sampling, Counted
  <2> QED
    BY <2>5 DEF Agrees
<1>10. CASE MasterVertexCount
  <2>1. /\ pc[0] = "vertex_count" /\ pc'[0] = "edges" /\ up' = up
        /\ vertex_map' = vertex_map /\ vertex_count_' = vertex_count_
        /\ down'[r] = Append(down[r], Message("vertex_count", vertex_count_[0]))
        /\ local_edges' = local_edges
    BY <1>1, <1>2, <1>10 DEF MasterVertexCount, Goto, SendDown, BcastDown, Domains, Message,
       graphVars
  <2>2. Renaming(r) /\ pc[r] \in {"map", "vertex_count"} /\ down[r] = Unread(r)
    BY <1>2, <2>1 DEF Agrees, Summing, Ending, Sampling, Renaming
  <2>3. Unread(r)' = down'[r]
    <3>1. CASE pc[r] = "map"
      <4>1. down[r] = <<Message("map", vertex_map[0])>>
        BY <2>1, <2>2, <3>1 DEF Unread
      <4>2. down'[r] = <<Message("map", vertex_map[0]), Message("vertex_count", vertex_count_[0])>>
        BY <2>1, <4>1, Short
      <4> QED
        BY <1>1, <2>1, <3>1, <4>2 DEF Unread
    <3>2. CASE pc[r] = "vertex_count"
      <4>1. down[r] = <<>>
        BY <2>1, <2>2, <3>2 DEF Unread
      <4>2. down'[r] = <<Message("vertex_count", vertex_count_[0])>>
        BY <2>1, <4>1, Short
      <4> QED
        BY <1>1, <2>1, <3>2, <4>2 DEF Unread
    <3> QED
      BY <2>2, <3>1, <3>2
  <2>4. Renaming(r)'
    BY <1>1, <2>1, <2>2, <2>3 DEF Renaming, Counted
  <2> QED
    BY <2>4 DEF Agrees
<1> QED
  BY <1>3, <1>4, <1>5, <1>6, <1>7, <1>8, <1>9, <1>10 DEF MasterStep
-----------------------------------------------------------------------------
(***************************************************************************)
(* The rounds.                                                             *)
(***************************************************************************)
Others(r) == SameDomains /\ \A s \in Rank : s # r => Same(s)

(* How a rank goes on. *)
Onward(r) ==
  /\ pc' = [pc EXCEPT ![r] = pc'[r]]
  /\ \/ CountEdges(r)
     \/ WhileEdges(r)
     \/ /\ local_edges' = local_edges
        /\ pc[r] \in InRound \ {"vertex_count"} /\ pc'[r] \in InRound
        /\ edges_slice_'[r] = edges_slice_[r] \/ pc'[r] = "vertex_count"
        /\ r # 0 => pc'[r] \notin {"unite", "relabel"}
     \/ /\ local_edges' = local_edges
        /\ pc[r] = "vertex_count" /\ pc'[r] = "edges"

LEMMA SlaveOnward ==
  ASSUME Domains, NEW r \in Slave, SlaveStep(r)
  PROVE  Onward(r) /\ Others(r)
<1>1. r \in Rank /\ r # 0 /\ DOMAIN pc = Rank /\ Others(r)
  BY Constants, SlaveLocal DEF Domains, Others
<1> USE <1>1 DEF Goto, graphVars, InRound, Onward, Domains
<1>2. CASE CountEdges(r)
  <2>1. pc' = [pc EXCEPT ![r] = pc'[r]]
    BY <1>2 DEF CountEdges
  <2> QED
    BY <1>2, <2>1
<1>3. CASE WhileEdges(r)
  <2>1. pc' = [pc EXCEPT ![r] = pc'[r]]
    BY <1>3 DEF WhileEdges
  <2> QED
    BY <1>3, <2>1
<1>4. CASE SlaveAvailable(r)
  BY <1>4 DEF SlaveAvailable
<1>5. CASE SlaveShare(r)
  BY <1>5 DEF SlaveShare
<1>6. CASE SlaveSamples(r)
  BY <1>6 DEF SlaveSamples
<1>7. CASE SlaveMap(r)
  BY <1>7 DEF SlaveMap
<1>8. CASE SlaveVertexCount(r)
  BY <1>8 DEF SlaveVertexCount
<1> QED
  BY <1>2, <1>3, <1>4, <1>5, <1>6, <1>7, <1>8 DEF SlaveStep

LEMMA MasterOnward ==
  ASSUME Types, Domains, MasterStep, ~ Aborts
  PROVE  Onward(0) /\ Others(0)
<1>1. 0 \in Rank /\ DOMAIN pc = Rank /\ Others(0)
  BY Constants, MasterLocal DEF Domains, Others
<1>2. pc = [pc EXCEPT ![0] = pc[0]]
  BY <1>1 DEF Types
<1> USE <1>1 DEF Goto, graphVars, InRound, Onward, Domains
<1>3. CASE CountEdges(0)
  <2>1. pc' = [pc EXCEPT ![0] = pc'[0]]
    BY <1>3 DEF CountEdges
  <2> QED
    BY <1>3, <2>1
<1>4. CASE WhileEdges(0)
  <2>1. pc' = [pc EXCEPT ![0] = pc'[0]]
    BY <1>4 DEF WhileEdges
  <2> QED
    BY <1>4, <2>1
<1>5. CASE MasterAvailable
  BY <1>5 DEF MasterAvailable, Aborts
<1>6. CASE MasterShare
  BY <1>6 DEF MasterShare
<1>7. CASE MasterSamples
  BY <1>7 DEF MasterSamples
<1>8. CASE MasterUnite
  BY <1>2, <1>8 DEF MasterUnite
<1>9. CASE MasterUnited
  BY <1>9 DEF MasterUnited
<1>10. CASE MasterRelabel
  BY <1>2, <1>10 DEF MasterRelabel
<1>11. CASE MasterMapped
  BY <1>11 DEF MasterMapped
<1>12. CASE MasterMap
  BY <1>12 DEF MasterMap
<1>13. CASE MasterVertexCount
  BY <1>13 DEF MasterVertexCount
<1> QED
  BY <1>3, <1>4, <1>5, <1>6, <1>7, <1>8, <1>9, <1>10, <1>11, <1>12, <1>13 DEF MasterStep

LEMMA TypesKept ==
  ASSUME Types, NEW r \in Rank, Onward(r), Others(r)
  PROVE  Types'
<1>1. /\ input' = input /\ DOMAIN edges_slice_' = Rank /\ DOMAIN vertex_map' = Rank
      /\ DOMAIN samples' = Rank /\ DOMAIN down' = Slave /\ DOMAIN up' = Slave
  BY DEF Others, SameDomains
<1>2. pc' = [pc EXCEPT ![r] = pc'[r]]
  BY DEF Onward
<1>3. /\ pc'[r] \in InRound \cup {"edges", "sum", "done"}
      /\ pc'[r] # "aborted"
      /\ r # 0 => pc'[r] \notin {"unite", "relabel"}
  BY DEF Onward, CountEdges, WhileEdges, Goto, Types, InRound
<1>4. /\ pc' \in [Rank -> InRound \cup {"edges", "sum", "done"}]
      /\ \A s \in Rank : s # r => pc'[s] = pc[s]
  BY <1>2, <1>3 DEF Types
<1>5. pc'[0] # "aborted" /\ \A s \in Slave : pc'[s] \notin {"unite", "relabel"}
  BY <1>3, <1>4, Constants DEF Types
<1>6. local_edges' \in [Rank -> Seq(Nat)]
  <2>1. CASE CountEdges(r)
    <3>1. Len(edges_slice_[r]) \in Nat
      BY DEF Types
    <3> QED
      BY <2>1, <3>1 DEF CountEdges, Types
  <2> QED
    BY <2>1 DEF Onward, WhileEdges, Types
<1> QED
  BY <1>1, <1>4, <1>5, <1>6 DEF Types

(* A sum whose numbers are all there stays. *)
LEMMA RoundsKept ==
  ASSUME Types, Rounds, NEW r \in Rank, Onward(r), Others(r)
  PROVE  Rounds'
<1>1. /\ \A s \in Rank : s # r => /\ pc'[s] = pc[s] /\ local_edges'[s] = local_edges[s]
                                  /\ edges_slice_'[s] = edges_slice_[s]
                                  /\ Counted(s)' = Counted(s)
      /\ \A s \in Rank : Counted(s) \in Nat
  BY DEF Others, Same, Counted, Types
<1>2. CASE CountEdges(r)
  <2> DEFINE len == Len(edges_slice_[r])
  <2>1. /\ pc[r] = "edges" /\ pc'[r] = "sum"
        /\ local_edges'[r] = Append(local_edges[r], len)
        /\ edges_slice_'[r] = edges_slice_[r]
    BY <1>2 DEF CountEdges, Goto, graphVars, Types
  <2>2. /\ local_edges[r] \in Seq(Nat)
        /\ Counted(r)' = Counted(r) + 1
        /\ local_edges'[r][Counted(r) + 1] = len
        /\ \A i \in 1 .. Counted(r) : local_edges'[r][i] = local_edges[r][i]
    BY <2>1 DEF Types, Counted
  <2>3. \A s \in Rank : Counted(s) <= Counted(s)' /\ Counted(s)' \in Nat
    BY <1>1, <2>2
  <2>4. \A q \in Rank : pc'[q] # "edges" => Counted(q)' # 0
    BY <1>1, <2>2 DEF Rounds
  <2>5. ASSUME NEW q \in Rank, pc'[q] \in InRound \cup {"done"}
        PROVE  /\ \A s \in Rank : Counted(q)' <= Counted(s)'
               /\ pc[q] = pc'[q] /\ TotalOf(Counted(q))' = TotalOf(Counted(q))
    <3>1. q # r /\ pc[q] = pc'[q] /\ Counted(q)' = Counted(q) /\ Counted(q) \in Nat
      BY <1>1, <2>1, <2>5 DEF InRound
    <3>2. Counted(q) # 0 /\ \A s \in Rank : Counted(q) <= Counted(s)
      BY <2>5, <3>1 DEF Rounds, InRound
    <3>3. \A s \in Rank : Counted(q)' <= Counted(s)'
      BY <1>1, <2>3, <3>1, <3>2
    <3>4. TotalOf(Counted(q))' = TotalOf(Counted(q))
      <4>1. \A s \in Rank : local_edges'[s][Counted(q)] = local_edges[s][Counted(q)]
        BY <1>1, <2>2, <3>1, <3>2
      <4> QED
        BY <3>1, <4>1 DEF TotalOf
    <3> QED
      BY <3>1, <3>3, <3>4
  <2>6. \A q \in Rank : pc'[q] \notin {"edges", "vertex_count"} =>
           local_edges'[q][Counted(q)'] = Len(edges_slice_'[q])
    BY <1>1, <2>1, <2>2 DEF Rounds
  <2>7. /\ \A q \in Rank : pc'[q] \in InRound => TotalOf(Counted(q))' > 0
        /\ \A q \in Rank : pc'[q] = "done" => ~ (TotalOf(Counted(q))' > 0)
    BY <2>5 DEF Rounds
  <2> QED
    BY <2>4, <2>5, <2>6, <2>7 DEF Rounds
<1>3. CASE local_edges' = local_edges
  <2>1. /\ \A s \in Rank : Counted(s)' = Counted(s)
        /\ \A q \in Rank : TotalOf(Counted(q))' = TotalOf(Counted(q))
    BY <1>3 DEF Counted, TotalOf
  <2>2. CASE WhileEdges(r)
    <3>1. /\ pc[r] = "sum" /\ pc'[r] = IF Total(r) > 0 THEN "available" ELSE "done"
          /\ \A s \in Rank : Counted(s) >= Counted(r)
          /\ Total(r) = TotalOf(Counted(r))
          /\ edges_slice_' = edges_slice_
      BY <2>2 DEF WhileEdges, Goto, Types, Counted, Total, TotalOf
    <3> QED
      BY <1>1, <1>3, <2>1, <3>1 DEF Rounds, InRound
  <2>3. CASE /\ pc[r] \in InRound \ {"vertex_count"} /\ pc'[r] \in InRound
             /\ edges_slice_'[r] = edges_slice_[r] \/ pc'[r] = "vertex_count"
    BY <1>1, <1>3, <2>1, <2>3 DEF Rounds, InRound
  <2>4. CASE pc[r] = "vertex_count" /\ pc'[r] = "edges"
    BY <1>1, <1>3, <2>1, <2>4 DEF Rounds, InRound
  <2> QED
    BY <1>2, <2>2, <2>3, <2>4 DEF Onward
<1> QED
  BY <1>2, <1>3 DEF Onward, WhileEdges
-----------------------------------------------------------------------------
(***************************************************************************)
(* Rank 0 unites the samples and numbers their components.                 *)
(***************************************************************************)
Vertices == Numbers(vertex_count_[0])

DrawnEdges == UNION {samples[r] : r \in Rank}

DrawnPairs == {Pair(e) : e \in DrawnEdges}

RootOf == RootsIn(Vertices, dsets)

RootSet(V, ds) == {RootsIn(V, ds)[v] : v \in V}

(* The roots of the vertices below j have got the numbers below k.         *)
NumberedTo(j, k, root, label, f) ==
  /\ k \in Nat
  /\ InOrder(j, f)
  /\ {f[v] : v \in Numbers(j)} = Numbers(k)
  /\ DOMAIN label = {root[v] : v \in Numbers(j)}
  /\ \A v \in Numbers(j) : label[root[v]] = f[v]
  /\ \A u, v \in Numbers(j) : f[u] = f[v] => root[u] = root[v]

Forested ==
  /\ DisjointTrees(Vertices, dsets)
  /\ components_active = Cardinality(RootSet(Vertices, dsets))

Uniting ==
  /\ to_unite \subseteq DrawnEdges
  /\ \A u, v \in Vertices :
        RootOf[u] = RootOf[v] <=> Connected(Vertices, {Pair(e) : e \in DrawnEdges \ to_unite}, u, v)
  /\ component_labels = Empty /\ next_label = 0 /\ relabelled = Empty

Relabelling ==
  /\ \A u, v \in Vertices : RootOf[u] = RootOf[v] <=> Connected(Vertices, DrawnPairs, u, v)
  /\ \E j \in 0 .. vertex_count_[0] :
        NumberedTo(j, next_label, RootOf, component_labels, relabelled)

InPrefix ==
  /\ pc[0] \in {"unite", "relabel"} => Forested
  /\ pc[0] = "unite" => Uniting
  /\ pc[0] = "relabel" => Relabelling

(* The vertices of the input are numbered, too.                            *)
Currents ==
  /\ InOrder(N, connected_components)
  /\ {connected_components[v] : v \in Node} = Vertices

IInv ==
  /\ Framed
  /\ \/ Aborted
     \/ Running /\ InPrefix /\ MapsDensely /\ Currents

-----------------------------------------------------------------------------
(* Rank 0 alone is at work.                                                *)
LEMMA SlavesWait ==
  ASSUME Running, pc[0] \in {"unite", "relabel", "map"}, NEW r \in Slave
  PROVE  pc[r] = "map" /\ down[r] = <<>> /\ ~ SlaveStep(r)
<1>1. Agrees(r)
  BY DEF Running
<1>2. pc[r] = "map" /\ down[r] = <<>>
  BY <1>1 DEF Agrees, Summing, Ending, Sampling, Renaming
<1> QED
  BY <1>2 DEF SlaveStep, CountEdges, WhileEdges, SlaveAvailable, SlaveShare, SlaveSamples,
     SlaveMap, SlaveVertexCount, TakeDown

(* What is drawn are edges between the vertices that remain.               *)
LEMMA DrawnAmong ==
  ASSUME Running, pc[0] \in {"samples", "unite", "relabel"}, \A r \in Slave : pc[r] = "map"
  PROVE  DrawnEdges \subseteq Edge(Vertices)
<1> SUFFICES ASSUME NEW r \in Rank
             PROVE  samples[r] \subseteq Edge(Vertices)
  BY DEF DrawnEdges
<1>1. samples[r] \in SUBSET Range(edges_slice_[r])
  BY Constants DEF Running, Drawn
<1>2. edges_slice_[r] \in Seq(Edge(Ends(r)))
  BY DEF Running, Numbering, SliceEnds
<1>3. Range(edges_slice_[r]) \subseteq Edge(Ends(r))
  BY <1>2 DEF Range
<1>4. Ends(r) = Vertices
  <2>1. CASE r = 0
    BY <2>1 DEF Ends, Vertices
  <2>2. CASE r # 0
    <3>1. r \in Slave /\ pc[r] = "map" /\ ~ MapHeld
      BY <2>2, Constants DEF MapHeld
    <3>2. DOMAIN vertex_map[r] = Numbers(vertex_count_[r]) /\ vertex_count_[r] = vertex_count_[0]
      BY <3>1 DEF Running, Numbering, SlaveNumbers
    <3> QED
      BY <3>1, <3>2 DEF Ends, Vertices
  <2> QED
    BY <2>1, <2>2
<1> QED
  BY <1>1, <1>3, <1>4

LEMMA VerticesFinite ==
  ASSUME Running
  PROVE  /\ vertex_count_[0] \in Nat /\ vertex_count_[0] # 0
         /\ IsFiniteSet(Vertices) /\ Cardinality(Vertices) = vertex_count_[0]
         /\ 0 \in Vertices
<1>1. vertex_count_[0] \in Nat /\ vertex_count_[0] # 0
  BY Constants DEF Running, Numbering
<1> QED
  BY <1>1, NumbersFinite DEF Vertices, Numbers

(* The function is entered with the samples of all ranks.                  *)
LEMMA MasterSamplesKeeps ==
  ASSUME Running, Framed, MasterSamples, SameDomains
  PROVE  InPrefix'
<1>1. /\ pc[0] = "samples" /\ pc'[0] = "unite"
      /\ \A r \in Slave : up[r] # <<>>
      /\ vertex_count_' = vertex_count_ /\ samples' = samples
      /\ to_unite' = UNION {Contributions(samples[0])[r] : r \in Rank}
      /\ dsets' = Singletons(0 .. vertex_count_[0] - 1) /\ components_active' = vertex_count_[0]
      /\ UNCHANGED <<component_labels, next_label, relabelled>>
  BY Constants, RunningDomains DEF MasterSamples, Goto, TakeUp, Enter, graphVars, sampleVars, Domains
<1>2. \A r \in Slave : Head(up[r]).data = samples[r]
  <2> TAKE r \in Slave
  <2>1. Agrees(r) /\ up[r] # <<>>
    BY <1>1 DEF Running
  <2>2. Head(up[r]) = Message("samples", samples[r])
    BY <1>1, <2>1, Answers DEF Summing
  <2> QED
    BY <2>2 DEF Message
<1>3. to_unite' = DrawnEdges
  <2>1. \A r \in Rank : Contributions(samples[0])[r] = samples[r]
    BY <1>2, Constants DEF Contributions
  <2> QED
    BY <1>1, <2>1 DEF DrawnEdges
<1>4. DrawnEdges' = DrawnEdges /\ Vertices' = Vertices
  BY <1>1 DEF DrawnEdges, Vertices
<1>5. dsets' = Singletons(Vertices)
  BY <1>1 DEF Vertices, Numbers
<1>6. DisjointTrees(Vertices, dsets') /\ RootsIn(Vertices, dsets') = [v \in Vertices |-> v]
  BY <1>5, SingletonTrees
<1>7. Forested'
  <2>1. RootSet(Vertices, dsets') = Vertices
    BY <1>6 DEF RootSet
  <2>2. components_active' = Cardinality(Vertices)
    BY <1>1, VerticesFinite
  <2> QED
    BY <1>4, <1>6, <2>1, <2>2 DEF Forested
<1>9. \A u, v \in Vertices : RootOf'[u] = RootOf'[v] <=> Connected(Vertices, {}, u, v)
  BY <1>4, <1>6, ConnectedByNone DEF RootOf
<1>10. component_labels' = Empty /\ next_label' = 0 /\ relabelled' = Empty
  BY <1>1 DEF Framed, NoFrame
<1>11. Uniting'
  <2>1. to_unite' \subseteq DrawnEdges'
    BY <1>3, <1>4
  <2>2. {Pair(e) : e \in DrawnEdges' \ to_unite'} = {}
    BY <1>3, <1>4
  <2>3. \A u, v \in Vertices' :
           RootOf'[u] = RootOf'[v]
             <=> Connected(Vertices', {Pair(e) : e \in DrawnEdges' \ to_unite'}, u, v)
    BY <1>4, <1>9, <2>2
  <2> QED
    BY <1>10, <2>1, <2>3 DEF Uniting
<1> QED
  BY <1>1, <1>7, <1>11 DEF InPrefix

LEMMA RootSetFinite ==
  ASSUME NEW V, IsFiniteSet(V), NEW ds
  PROVE  IsFiniteSet(RootSet(V, ds))
<1> DEFINE r == RootsIn(V, ds)
<1>1. RootSet(V, ds) = {r[v] : v \in V}
  BY DEF RootSet
<1> HIDE DEF r
<1> QED
  BY <1>1, SameKernel

LEMMA UnifyJoins ==
  ASSUME NEW V, NEW f, DisjointTrees(V, f), NEW x \in V, NEW y \in V
  PROVE  LET r == RootsIn(V, f)
             s == RootsIn(V, unify(f, x, y))
         IN  /\ DisjointTrees(V, unify(f, x, y))
             /\ \A u, v \in V : s[u] = s[v] <=> \/ r[u] = r[v]
                                                \/ r[u] \in {r[x], r[y]} /\ r[v] \in {r[x], r[y]}
BY UnifyTrees

(* An edge unites the sets of its ends, unless they are one: one component *)
(* less.                                                                   *)
LEMMA UniteJoins ==
  ASSUME NEW V, IsFiniteSet(V), NEW ds, DisjointTrees(V, ds), NEW a \in V, NEW b \in V,
         NEW found, found = Compressed(Compressed(ds, a), b), NEW d,
         d = IF Representative(ds, a) # Representative(ds, b)
             THEN unify(found, Representative(ds, a), Representative(ds, b)) ELSE found
  PROVE  LET r == RootsIn(V, ds)
             s == RootsIn(V, d)
         IN  /\ DisjointTrees(V, d)
             /\ \A u, v \in V : s[u] = s[v] <=> \/ r[u] = r[v]
                                                \/ r[u] \in {r[a], r[b]} /\ r[v] \in {r[a], r[b]}
             /\ Cardinality(RootSet(V, d))
                  = Cardinality(RootSet(V, ds)) - (IF r[a] # r[b] THEN 1 ELSE 0)
<1> DEFINE r == RootsIn(V, ds)
           s == RootsIn(V, d)
           c == Compressed(ds, a)
           R == {r[v] : v \in V}
<1>1. DisjointTrees(V, c) /\ RootsIn(V, c) = r
  BY CompressedSame DEF SameTrees
<1>2. DisjointTrees(V, found) /\ RootsIn(V, found) = r
  <2> HIDE DEF c, r
  <2>1. found = Compressed(c, b)
    BY DEF c
  <2> QED
    BY <1>1, <2>1, CompressedSame DEF SameTrees
<1>3. /\ Representative(ds, a) = r[a] /\ Representative(ds, b) = r[b]
      /\ \A v \in V : r[v] \in V /\ IsRoot(ds, r[v])
  BY RepresentativeIsRoot
<1>4. \A v \in V : r[r[v]] = r[v]
  <2>1. IsForest(V, ds.parents) /\ r = Roots(V, ds.parents)
    BY DEF DisjointTrees, RootsIn
  <2> HIDE DEF r
  <2> QED
    BY <2>1, RootsOfForest
<1> HIDE DEF r, s
<1>5. IsFiniteSet(R) /\ Cardinality(R) \in Nat
  <2>1. IsFiniteSet(R)
    BY SameKernel
  <2> HIDE DEF R
  <2> QED
    BY <2>1, FS_CardinalityType
<1>6. CASE r[a] = r[b]
  <2>1. d = found
    BY <1>3, <1>6
  <2>2. s = r /\ DisjointTrees(V, d)
    BY <1>2, <2>1 DEF s
  <2>3. RootSet(V, d) = R /\ RootSet(V, ds) = R
    BY <2>2 DEF RootSet, s, r
  <2>4. Cardinality(R) - 0 = Cardinality(R)
    <3> HIDE DEF R
    <3> QED
      BY <1>5
  <2>5. /\ DisjointTrees(V, d)
        /\ \A u, v \in V : s[u] = s[v] <=> \/ r[u] = r[v]
                                           \/ r[u] \in {r[a], r[b]} /\ r[v] \in {r[a], r[b]}
    BY <1>6, <2>2
  <2> QED
    BY <1>6, <2>3, <2>4, <2>5 DEF s, r
<1>7. CASE r[a] # r[b]
  <2> DEFINE g == [v \in V |-> IF r[v] = r[a] THEN r[b] ELSE r[v]]
             G == {g[v] : v \in V}
  <2>1. d = unify(found, r[a], r[b])
    BY <1>3, <1>7
  <2>2. /\ DisjointTrees(V, d)
        /\ \A u, v \in V : s[u] = s[v] <=> \/ r[u] = r[v]
                                           \/ r[u] \in {r[a], r[b]} /\ r[v] \in {r[a], r[b]}
    <3>1. r[r[a]] = r[a] /\ r[r[b]] = r[b] /\ r[a] \in V /\ r[b] \in V
      BY <1>3, <1>4
    <3>2. /\ DisjointTrees(V, d)
          /\ \A u, v \in V : s[u] = s[v] <=>
                \/ r[u] = r[v]
                \/ r[u] \in {r[r[a]], r[r[b]]} /\ r[v] \in {r[r[a]], r[r[b]]}
      <4> DEFINE x == r[a]
                 y == r[b]
      <4>1. x \in V /\ y \in V /\ d = unify(found, x, y)
        BY <2>1, <3>1
      <4>0. DisjointTrees(V, found)
        BY <1>2
      <4> HIDE DEF x, y
      <4>2. /\ DisjointTrees(V, unify(found, x, y))
            /\ \A u, v \in V :
                  RootsIn(V, unify(found, x, y))[u] = RootsIn(V, unify(found, x, y))[v] <=>
                     \/ RootsIn(V, found)[u] = RootsIn(V, found)[v]
                     \/ /\ RootsIn(V, found)[u] \in {RootsIn(V, found)[x], RootsIn(V, found)[y]}
                        /\ RootsIn(V, found)[v] \in {RootsIn(V, found)[x], RootsIn(V, found)[y]}
        BY ONLY <4>0, <4>1, UnifyJoins
      <4>3. /\ DisjointTrees(V, d)
            /\ \A u, v \in V : s[u] = s[v] <=>
                  \/ r[u] = r[v]
                  \/ r[u] \in {r[x], r[y]} /\ r[v] \in {r[x], r[y]}
        BY <1>2, <4>1, <4>2 DEF s
      <4> QED
        BY <4>3 DEF x, y
    <3> QED
      BY <3>1, <3>2
  <2>3. \A u, v \in V : s[u] = s[v] <=> g[u] = g[v]
    BY <2>2
  <2>4. Cardinality({s[v] : v \in V}) = Cardinality(G)
    <3> HIDE DEF g
    <3> QED
      BY <2>3, SameKernel
  <2>5. G = R \ {r[a]} /\ r[a] \in R
    <3>1. ASSUME NEW x \in R, x # r[a] PROVE x \in G
      <4>1. PICK v \in V : x = r[v]
        OBVIOUS
      <4>2. g[v] = x
        BY <3>1, <4>1
      <4> QED
        BY <4>2
    <3>2. ASSUME NEW v \in V PROVE g[v] \in R /\ g[v] # r[a]
      BY <1>7
    <3> HIDE DEF g
    <3> QED
      BY <3>1, <3>2
  <2>6. Cardinality(G) = Cardinality(R) - 1
    <3> HIDE DEF G, R
    <3> QED
      BY <1>5, <2>5, FS_RemoveElement
  <2>7. RootSet(V, d) = {s[v] : v \in V} /\ RootSet(V, ds) = R
    BY DEF RootSet, s, r
  <2> QED
    BY <1>7, <2>2, <2>4, <2>6, <2>7 DEF s, r
<1> QED
  BY <1>6, <1>7
LEMMA MasterUniteKeeps ==
  ASSUME Running, InPrefix, MasterUnite
  PROVE  InPrefix'
<1>1. /\ pc[0] = "unite" /\ pc' = pc /\ samples' = samples /\ vertex_count_' = vertex_count_
      /\ \A r \in Slave : pc[r] = "map"
  BY SlavesWait DEF MasterUnite, graphVars, sampleVars
<1>2. PICK e \in to_unite : Unite(e)
  BY DEF MasterUnite
<1>3. Forested /\ Uniting
  BY <1>1 DEF InPrefix
<1>4. e \in DrawnEdges /\ e.from \in Vertices /\ e.to \in Vertices
  <2>1. DrawnEdges \subseteq Edge(Vertices)
    BY <1>1, DrawnAmong
  <2> QED
    BY <1>3, <2>1 DEF Uniting, Edge
<1> DEFINE a == e.from
           b == e.to
           V == Vertices
           r == RootOf
           s == RootsIn(Vertices, dsets')
           E == {Pair(x) : x \in DrawnEdges \ to_unite}
<1>5. /\ to_unite' = to_unite \ {e}
      /\ dsets' = IF Representative(dsets, a) # Representative(dsets, b)
                  THEN unify(Compressed(Compressed(dsets, a), b),
                             Representative(dsets, a), Representative(dsets, b))
                  ELSE Compressed(Compressed(dsets, a), b)
      /\ components_active' =
            components_active - (IF Representative(dsets, a) # Representative(dsets, b) THEN 1 ELSE 0)
      /\ UNCHANGED <<component_labels, next_label, relabelled>>
  <2>1. components_active \in Int
    <3>1. IsFiniteSet(RootSet(Vertices, dsets))
      BY VerticesFinite, RootSetFinite
    <3> QED
      BY <1>3, <3>1, FS_CardinalityType DEF Forested
  <2> QED
    BY <1>2, <2>1 DEF Unite
<1>6. Vertices' = V /\ DrawnEdges' = DrawnEdges /\ RootOf' = s
  BY <1>1 DEF Vertices, DrawnEdges, RootOf
<1>7. DisjointTrees(V, dsets) /\ IsFiniteSet(V) /\ a \in V /\ b \in V
  BY <1>3, <1>4, VerticesFinite DEF Forested
<1> HIDE DEF a, b, V
<1>8. /\ DisjointTrees(V, dsets')
      /\ \A u, v \in V : s[u] = s[v] <=> \/ r[u] = r[v]
                                         \/ r[u] \in {r[a], r[b]} /\ r[v] \in {r[a], r[b]}
      /\ Cardinality(RootSet(V, dsets'))
           = Cardinality(RootSet(V, dsets)) - (IF r[a] # r[b] THEN 1 ELSE 0)
  <2> DEFINE found == Compressed(Compressed(dsets, a), b)
             d == dsets'
  <2>1. d = IF Representative(dsets, a) # Representative(dsets, b)
            THEN unify(found, Representative(dsets, a), Representative(dsets, b)) ELSE found
    BY <1>5
  <2>2. found = Compressed(Compressed(dsets, a), b)
    OBVIOUS
  <2> HIDE DEF found, d
  <2> DEFINE r0 == RootsIn(V, dsets)
             s0 == RootsIn(V, d)
  <2>3. /\ DisjointTrees(V, d)
        /\ \A u, v \in V : s0[u] = s0[v] <=> \/ r0[u] = r0[v]
                                             \/ r0[u] \in {r0[a], r0[b]} /\ r0[v] \in {r0[a], r0[b]}
        /\ Cardinality(RootSet(V, d))
             = Cardinality(RootSet(V, dsets)) - (IF r0[a] # r0[b] THEN 1 ELSE 0)
    BY <1>7, <2>1, <2>2, UniteJoins
  <2>4. r0 = r /\ s0 = s
    BY DEF RootOf, V, d
  <2> HIDE DEF r0, s0, r, s
  <2> QED
    BY <2>3, <2>4 DEF d
<1>9. Representative(dsets, a) = r[a] /\ Representative(dsets, b) = r[b]
  BY <1>7, RepresentativeIsRoot DEF RootOf, V
<1>10. Forested'
  <2>1. components_active' = Cardinality(RootSet(V, dsets'))
    BY <1>3, <1>5, <1>8, <1>9 DEF Forested, V
  <2> QED
    BY <1>6, <1>8, <2>1 DEF Forested
<1>11. \A u, v \in V : s[u] = s[v] <=> Connected(V, E \cup {{a, b}}, u, v)
  <2>1. \A u, v \in V : r[u] = r[v] <=> Connected(V, E, u, v)
    BY <1>3 DEF Uniting, V
  <2>2. \A p \in E : p \subseteq V
    <3>1. \A x \in DrawnEdges : x.from \in V /\ x.to \in V
      BY <1>1, DrawnAmong DEF Edge, V
    <3> QED
      BY <3>1 DEF Pair
  <2> HIDE DEF E, r, s
  <2>3. \A u, v \in V : s[u] = s[v] <=> \/ r[u] = r[v]
                                        \/ r[u] \in {r[a], r[b]} /\ r[v] \in {r[a], r[b]}
    BY <1>8
  <2> QED
    BY ONLY <1>7, <2>1, <2>2, <2>3, ConnectedByOneMore
<1>12. {Pair(x) : x \in DrawnEdges \ to_unite'} = E \cup {{a, b}}
  <2>1. DrawnEdges \ to_unite' = (DrawnEdges \ to_unite) \cup {e}
    BY <1>4, <1>5
  <2>2. Pair(e) = {a, b}
    BY DEF Pair, a, b
  <2> QED
    BY <2>1, <2>2
<1>13. Uniting'
  <2>1. to_unite' \subseteq DrawnEdges
    BY <1>3, <1>5 DEF Uniting
  <2>2. component_labels' = Empty /\ next_label' = 0 /\ relabelled' = Empty
    BY <1>3, <1>5 DEF Uniting
  <2> HIDE DEF E, s, r
  <2> QED
    BY <1>6, <1>11, <1>12, <2>1, <2>2 DEF Uniting
<1> QED
  BY <1>1, <1>10, <1>13 DEF InPrefix

(* When the union stops, the sets are the components of all that was drawn. *)
LEMMA MasterUnitedKeeps ==
  ASSUME Running, InPrefix, MasterUnited
  PROVE  InPrefix'
<1>1. /\ pc[0] = "unite" /\ pc'[0] = "relabel"
      /\ samples' = samples /\ vertex_count_' = vertex_count_ /\ UNCHANGED prefixVars
      /\ \A r \in Slave : pc[r] = "map"
  BY Constants, RunningDomains, SlavesWait DEF MasterUnited, graphVars, sampleVars, rootVars,
     Goto, Domains
<1>2. Forested /\ Uniting
  BY <1>1 DEF InPrefix
<1> DEFINE E == {Pair(e) : e \in DrawnEdges \ to_unite}
<1>3. ASSUME NEW u \in Vertices, NEW v \in Vertices
      PROVE  RootOf[u] = RootOf[v] <=> Connected(Vertices, DrawnPairs, u, v)
  <2>1. RootOf[u] = RootOf[v] <=> Connected(Vertices, E, u, v)
    BY <1>2 DEF Uniting
  <2>2. E \subseteq DrawnPairs
    BY DEF DrawnPairs
  <2>3. CASE to_unite = {}
    <3>1. E = DrawnPairs
      BY <2>3 DEF DrawnPairs
    <3> QED
      BY <2>1, <3>1
  <2>4. CASE components_active <= 1
    <3> DEFINE R == {RootOf[x] : x \in Vertices}
    <3>1. IsFiniteSet(R) /\ RootOf[u] \in R /\ RootOf[v] \in R
      BY VerticesFinite, SameKernel
    <3>2. Cardinality(R) <= 1
      BY <1>2, <2>4 DEF Forested, RootSet, RootOf
    <3> HIDE DEF R
    <3>3. Cardinality(R) \in Nat /\ Cardinality(R) # 0
      BY <3>1, FS_CardinalityType, FS_EmptySet
    <3>4. Cardinality(R) = 1
      BY <3>2, <3>3
    <3>5. RootOf[u] = RootOf[v]
      BY <3>1, <3>4, FS_Singleton
    <3> HIDE DEF E
    <3> QED
      BY <2>1, <2>2, <3>5, ConnectedByMore
  <2> QED
    BY <2>3, <2>4 DEF MasterUnited, United, ComponentsCount
<1>4. /\ Vertices' = Vertices /\ DrawnPairs' = DrawnPairs /\ RootOf' = RootOf
      /\ Forested' = Forested
      /\ component_labels' = Empty /\ next_label' = 0 /\ relabelled' = Empty
  BY <1>1, <1>2 DEF Vertices, DrawnPairs, DrawnEdges, RootOf, Forested, prefixVars, Uniting
<1>5. NumberedTo(0, 0, RootOf, Empty, Empty)
  BY DEF NumberedTo, InOrder, Numbers, Empty
<1>6. 0 \in 0 .. vertex_count_[0]
  BY VerticesFinite
<1>7. Relabelling'
  BY <1>1, <1>3, <1>4, <1>5, <1>6 DEF Relabelling
<1> QED
  BY <1>1, <1>2, <1>4, <1>7 DEF InPrefix

(* One vertex more. *)
LEMMA NumberedOneMore ==
  ASSUME NEW j \in Nat, NEW k, NEW root, NEW label, NEW f, NumberedTo(j, k, root, label, f),
         NEW set, set = root[j], NEW new, new = IF set \notin DOMAIN label THEN k ELSE label[set],
         NEW label2, label2 = [s \in DOMAIN label \cup {set} |-> IF s = set THEN new ELSE label[s]],
         NEW k2, k2 = k + (IF set \notin DOMAIN label THEN 1 ELSE 0),
         NEW f2, f2 = [v \in 0 .. j |-> IF v = j THEN new ELSE f[v]]
  PROVE  NumberedTo(j + 1, k2, root, label2, f2)
<1>1. /\ k \in Nat /\ f \in [Numbers(j) -> Nat]
      /\ {f[v] : v \in Numbers(j)} = Numbers(k)
      /\ DOMAIN label = {root[v] : v \in Numbers(j)}
      /\ \A v \in Numbers(j) : label[root[v]] = f[v]
      /\ \A u, v \in Numbers(j) : f[u] = f[v] => root[u] = root[v]
      /\ \A v \in Numbers(j) : \A a \in Numbers(f[v]) : \E u \in Numbers(v) : f[u] = a
  BY DEF NumberedTo, InOrder
<1>2. /\ Numbers(j + 1) = Numbers(j) \cup {j} /\ j \notin Numbers(j)
      /\ 0 .. j = Numbers(j + 1)
      /\ \A v \in Numbers(j) : \A u \in Numbers(v) : u \in Numbers(j)
  BY DEF Numbers
<1>3. /\ f2[j] = new /\ \A v \in Numbers(j) : f2[v] = f[v] /\ f[v] \in Numbers(k)
      /\ DOMAIN f2 = Numbers(j + 1)
  BY <1>1, <1>2
<1>4. /\ DOMAIN label2 = DOMAIN label \cup {set} /\ label2[set] = new
      /\ \A s \in DOMAIN label : s # set => label2[s] = label[s]
  OBVIOUS
<1>5. DOMAIN label2 = {root[v] : v \in Numbers(j + 1)}
  BY <1>1, <1>2, <1>4
<1>6. CASE set \notin DOMAIN label
  <2>1. new = k /\ k2 = k + 1 /\ Numbers(k2) = Numbers(k) \cup {k} /\ k \notin Numbers(k)
    BY <1>1, <1>6 DEF Numbers
  <2>2. \A v \in Numbers(j) : root[v] # set /\ f[v] # k
    BY <1>1, <1>3, <1>6, <2>1
  <2>3. {f2[v] : v \in Numbers(j + 1)} = Numbers(k2)
    <3>1. \A v \in Numbers(j + 1) : f2[v] \in Numbers(k2)
      BY <1>2, <1>3, <2>1
    <3>2. ASSUME NEW x \in Numbers(k2) PROVE \E v \in Numbers(j + 1) : f2[v] = x
      <4>1. CASE x = k
        BY <1>2, <1>3, <2>1, <4>1
      <4>2. CASE x \in Numbers(k)
        <5>1. PICK v \in Numbers(j) : f[v] = x
          BY <1>1, <4>2
        <5> QED
          BY <1>2, <1>3, <5>1
      <4> QED
        BY <2>1, <4>1, <4>2
    <3> QED
      BY <3>1, <3>2
  <2>4. f2 \in [Numbers(j + 1) -> Nat]
    <3>1. \A v \in Numbers(j + 1) : f2[v] \in Nat
      BY <1>1, <1>2, <1>3, <2>1
    <3> QED
      BY <1>2, <3>1
  <2>5. \A v \in Numbers(j + 1) : \A a \in Numbers(f2[v]) : \E u \in Numbers(v) : f2[u] = a
    <3> SUFFICES ASSUME NEW v \in Numbers(j + 1), NEW a \in Numbers(f2[v])
                 PROVE  \E u \in Numbers(v) : f2[u] = a
      OBVIOUS
    <3>1. CASE v = j
      <4>1. a \in {f[u] : u \in Numbers(j)}
        BY <1>1, <1>3, <2>1, <3>1
      <4> QED
        BY <1>3, <3>1, <4>1
    <3>2. CASE v \in Numbers(j)
      <4>1. PICK u \in Numbers(v) : f[u] = a
        BY <1>1, <1>3, <3>2
      <4> QED
        BY <1>2, <1>3, <3>2, <4>1
    <3> QED
      BY <1>2, <3>1, <3>2
  <2>6. \A v \in Numbers(j + 1) : label2[root[v]] = f2[v]
    <3>1. \A v \in Numbers(j) : root[v] \in DOMAIN label /\ root[v] # set
      BY <1>1, <2>2
    <3> QED
      BY <1>1, <1>2, <1>3, <1>4, <3>1
  <2>7. \A u, v \in Numbers(j + 1) : f2[u] = f2[v] => root[u] = root[v]
    BY <1>1, <1>2, <1>3, <2>1, <2>2
  <2>8. InOrder(j + 1, f2)
    BY <2>4, <2>5 DEF InOrder
  <2>9. k2 \in Nat
    BY <1>1, <2>1
  <2> QED
    BY <1>5, <2>3, <2>6, <2>7, <2>8, <2>9 DEF NumberedTo
<1>7. CASE set \in DOMAIN label
  <2>1. PICK w \in Numbers(j) : set = root[w]
    BY <1>1, <1>7
  <2>2. new = f[w] /\ k2 = k
    BY <1>1, <1>7, <2>1
  <2>3. {f2[v] : v \in Numbers(j + 1)} = Numbers(k2)
    <3>1. \A v \in Numbers(j + 1) : f2[v] \in Numbers(k2)
      BY <1>2, <1>3, <2>1, <2>2
    <3>2. ASSUME NEW x \in Numbers(k2) PROVE \E v \in Numbers(j + 1) : f2[v] = x
      <4>1. PICK v \in Numbers(j) : f[v] = x
        BY <1>1, <2>2
      <4> QED
        BY <1>2, <1>3, <4>1
    <3> QED
      BY <3>1, <3>2
  <2>4. f2 \in [Numbers(j + 1) -> Nat]
    <3>1. \A v \in Numbers(j + 1) : f2[v] \in Nat
      BY <1>1, <1>2, <1>3, <2>1, <2>2
    <3> QED
      BY <1>2, <3>1
  <2>5. \A v \in Numbers(j + 1) : \A a \in Numbers(f2[v]) : \E u \in Numbers(v) : f2[u] = a
    <3> SUFFICES ASSUME NEW v \in Numbers(j + 1), NEW a \in Numbers(f2[v])
                 PROVE  \E u \in Numbers(v) : f2[u] = a
      OBVIOUS
    <3>1. CASE v = j
      <4>1. PICK u \in Numbers(w) : f[u] = a
        BY <1>1, <1>3, <2>1, <2>2, <3>1
      <4>2. u \in Numbers(j)
        BY <1>2, <2>1, <4>1
      <4> QED
        BY <1>3, <3>1, <4>1, <4>2
    <3>2. CASE v \in Numbers(j)
      <4>1. PICK u \in Numbers(v) : f[u] = a
        BY <1>1, <1>3, <3>2
      <4> QED
        BY <1>2, <1>3, <3>2, <4>1
    <3> QED
      BY <1>2, <3>1, <3>2
  <2>6. \A v \in Numbers(j + 1) : label2[root[v]] = f2[v]
    <3> TAKE v \in Numbers(j + 1)
    <3>1. CASE root[v] = set
      <4>1. v \in Numbers(j) => f[v] = f[w]
        BY <1>1, <2>1, <3>1
      <4> QED
        BY <1>2, <1>3, <1>4, <2>2, <3>1, <4>1
    <3>2. CASE root[v] # set
      <4>1. v \in Numbers(j) /\ root[v] \in DOMAIN label
        BY <1>1, <1>2, <3>2
      <4> QED
        BY <1>1, <1>3, <1>4, <3>2, <4>1
    <3> QED
      BY <3>1, <3>2
  <2>7. \A u, v \in Numbers(j + 1) : f2[u] = f2[v] => root[u] = root[v]
    <3>1. \A v \in Numbers(j + 1) : v = j \/ v \in Numbers(j)
      BY <1>2
    <3>2. /\ \A v \in Numbers(j) : f2[v] = f[v]
          /\ f2[j] = f[w] /\ root[j] = root[w]
      BY <1>3, <2>1, <2>2
    <3>3. \A u, v \in Numbers(j) : f[u] = f[v] => root[u] = root[v]
      BY <1>1
    <3> SUFFICES ASSUME NEW u \in Numbers(j + 1), NEW v \in Numbers(j + 1), f2[u] = f2[v]
                 PROVE  root[u] = root[v]
      OBVIOUS
    <3>4. CASE u \in Numbers(j) /\ v \in Numbers(j)
      BY <3>2, <3>3, <3>4
    <3>5. CASE u = j /\ v \in Numbers(j)
      BY <2>1, <3>2, <3>3, <3>5
    <3>6. CASE u \in Numbers(j) /\ v = j
      BY <2>1, <3>2, <3>3, <3>6
    <3> QED
      BY <3>1, <3>4, <3>5, <3>6
  <2>8. InOrder(j + 1, f2)
    BY <2>4, <2>5 DEF InOrder
  <2>9. k2 \in Nat
    BY <1>1, <2>2
  <2> QED
    BY <1>5, <2>3, <2>6, <2>7, <2>8, <2>9 DEF NumberedTo
<1> QED
  BY <1>6, <1>7
LEMMA MasterRelabelKeeps ==
  ASSUME Running, InPrefix, MasterRelabel
  PROVE  InPrefix'
<1>1. /\ pc[0] = "relabel" /\ pc' = pc /\ samples' = samples /\ vertex_count_' = vertex_count_
      /\ Relabel
  BY DEF MasterRelabel, graphVars, sampleVars
<1>2. Forested /\ Relabelling
  BY <1>1 DEF InPrefix
<1>3. PICK j \in 0 .. vertex_count_[0] :
         NumberedTo(j, next_label, RootOf, component_labels, relabelled)
  BY <1>2 DEF Relabelling
<1>4. j \in Nat /\ DOMAIN relabelled = Numbers(j) /\ Cardinality(DOMAIN relabelled) = j
  <2>1. j \in Nat /\ vertex_count_[0] \in Nat
    BY VerticesFinite
  <2>2. DOMAIN relabelled = Numbers(j)
    BY <1>3 DEF NumberedTo, InOrder
  <2> QED
    BY <2>1, <2>2, NumbersFinite
<1>5. DisjointTrees(Vertices, dsets) /\ DOMAIN dsets.parents = Vertices
  BY <1>2 DEF Forested, DisjointTrees
<1>6. j \in Vertices /\ Representative(dsets, j) = RootOf[j] /\ dsets' = Compressed(dsets, j)
  <2>1. j \in Vertices /\ dsets' = Compressed(dsets, j)
    BY <1>1, <1>4, <1>5 DEF Relabel
  <2> QED
    BY <1>5, <2>1, RepresentativeIsRoot DEF RootOf
<1>7. j + 1 \in 0 .. vertex_count_[0]
  BY <1>4, <1>6, VerticesFinite DEF Vertices, Numbers
<1>8. DisjointTrees(Vertices, dsets') /\ RootsIn(Vertices, dsets') = RootOf
  BY <1>5, <1>6, CompressedSame DEF SameTrees, RootOf
<1>9. /\ Vertices' = Vertices /\ RootOf' = RootOf /\ DrawnPairs' = DrawnPairs
      /\ components_active' = components_active
  BY <1>1, <1>8 DEF Vertices, RootOf, DrawnPairs, DrawnEdges, Relabel
<1> DEFINE set == RootOf[j]
           new == IF set \notin DOMAIN component_labels THEN next_label ELSE component_labels[set]
<1>10. /\ component_labels' = [s \in DOMAIN component_labels \cup {set} |->
                                 IF s = set THEN new ELSE component_labels[s]]
       /\ next_label' = next_label + (IF set \notin DOMAIN component_labels THEN 1 ELSE 0)
       /\ relabelled' = [v \in 0 .. j |-> IF v = j THEN new ELSE relabelled[v]]
  BY <1>1, <1>4, <1>6 DEF Relabel
<1>11. NumberedTo(j + 1, next_label', RootOf, component_labels', relabelled')
  <2> HIDE DEF set
  <2>1. set = RootOf[j]
    BY DEF set
  <2>2. new = IF set \notin DOMAIN component_labels THEN next_label ELSE component_labels[set]
    OBVIOUS
  <2> HIDE DEF new
  <2> QED
    BY <1>3, <1>4, <1>10, <2>1, <2>2, NumberedOneMore
<1>12. Relabelling'
  BY <1>1, <1>2, <1>7, <1>9, <1>11 DEF Relabelling
<1>13. Forested'
  <2>1. RootSet(Vertices, dsets') = RootSet(Vertices, dsets)
    BY <1>8 DEF RootSet, RootOf
  <2> QED
    BY <1>2, <1>8, <1>9, <2>1 DEF Forested
<1> QED
  BY <1>1, <1>12, <1>13 DEF InPrefix

(* All vertices have their numbers: those of the components of the samples. *)
LEMMA NumberingComplete ==
  ASSUME Running, InPrefix, pc[0] = "relabel", Mapped
  PROVE  /\ InOrder(vertex_count_[0], relabelled)
         /\ DOMAIN relabelled = Vertices
         /\ {relabelled[v] : v \in Vertices} = Numbers(components_active)
         /\ components_active \in Nat /\ components_active # 0
         /\ \A u, v \in Vertices :
               relabelled[u] = relabelled[v] <=> Connected(Vertices, DrawnPairs, u, v)
<1>1. Forested /\ Relabelling
  BY DEF InPrefix
<1>2. PICK j \in 0 .. vertex_count_[0] :
         NumberedTo(j, next_label, RootOf, component_labels, relabelled)
  BY <1>1 DEF Relabelling
<1>3. /\ j \in Nat /\ vertex_count_[0] \in Nat /\ IsFiniteSet(Vertices)
      /\ Cardinality(Vertices) = vertex_count_[0] /\ 0 \in Vertices
  BY VerticesFinite
<1>4. DOMAIN relabelled = Numbers(j) /\ DOMAIN dsets.parents = Vertices
  BY <1>1, <1>2 DEF NumberedTo, InOrder, Forested, DisjointTrees
<1>5. Numbers(j) = Vertices
  BY <1>4 DEF Mapped
<1>6. j = vertex_count_[0]
  BY <1>3, <1>5, NumbersFinite
<1>7. /\ InOrder(j, relabelled) /\ next_label \in Nat
      /\ {relabelled[v] : v \in Vertices} = Numbers(next_label)
      /\ \A v \in Vertices : component_labels[RootOf[v]] = relabelled[v]
      /\ \A u, v \in Vertices : relabelled[u] = relabelled[v] => RootOf[u] = RootOf[v]
  BY <1>2, <1>5 DEF NumberedTo
<1>8. \A u, v \in Vertices : relabelled[u] = relabelled[v] <=> RootOf[u] = RootOf[v]
  BY <1>7
<1>9. Cardinality({relabelled[v] : v \in Vertices}) = Cardinality({RootOf[v] : v \in Vertices})
  BY <1>3, <1>8, SameKernel
<1>10. components_active = next_label
  BY <1>1, <1>7, <1>9, NumbersFinite DEF Forested, RootSet, RootOf
<1>11. next_label # 0
  BY <1>3, <1>7 DEF Numbers
<1> QED
  BY <1>1, <1>4, <1>5, <1>6, <1>7, <1>8, <1>10, <1>11 DEF Relabelling

LEMMA MasterMappedKeeps ==
  ASSUME Running, InPrefix, Currents, MasterMapped
  PROVE  InPrefix' /\ MapsDensely' /\ Currents'
<1>1. /\ pc[0] = "relabel" /\ pc'[0] = "map" /\ samples' = samples
      /\ vertex_map'[0] = relabelled /\ vertex_count_'[0] = components_active
      /\ connected_components' = [v \in Node |-> relabelled[connected_components[v]]]
      /\ Mapped
      /\ \A r \in Slave : pc[r] = "map"
  BY Constants, RunningDomains, SlavesWait DEF MasterMapped, Goto, Domains, sampleVars
<1>2. /\ InOrder(vertex_count_[0], relabelled)
      /\ DOMAIN relabelled = Vertices
      /\ {relabelled[v] : v \in Vertices} = Numbers(components_active)
      /\ components_active \in Nat /\ components_active # 0
      /\ \A u, v \in Vertices :
            relabelled[u] = relabelled[v] <=> Connected(Vertices, DrawnPairs, u, v)
  BY <1>1, NumberingComplete
<1>3. vertex_count_[0] \in Nat /\ Cardinality(Vertices) = vertex_count_[0] /\ N \in Nat
  BY VerticesFinite, Constants
<1> DEFINE n == vertex_count_[0]
           E == {Pair(e) : e \in UNION {samples[r] : r \in Rank}}
<1>4. E = DrawnPairs
  BY DEF DrawnPairs, DrawnEdges
<1>5. \A p \in DrawnPairs : p \subseteq Numbers(n)
  <2>1. DrawnEdges \subseteq Edge(Vertices)
    BY <1>1, DrawnAmong
  <2> QED
    BY <2>1 DEF DrawnPairs, Edge, Pair, Vertices
<1>6. relabelled = DenseMap(n, DrawnPairs)
  <2>1. /\ InOrder(n, DenseMap(n, DrawnPairs))
        /\ \A u, v \in Numbers(n) :
              DenseMap(n, DrawnPairs)[u] = DenseMap(n, DrawnPairs)[v]
                <=> Connected(Numbers(n), DrawnPairs, u, v)
    BY <1>3, <1>5, DenseMapInOrder
  <2>2. \A u, v \in Numbers(n) :
           relabelled[u] = relabelled[v]
             <=> DenseMap(n, DrawnPairs)[u] = DenseMap(n, DrawnPairs)[v]
    BY <1>2, <2>1 DEF Vertices
  <2> QED
    BY <1>2, <1>3, <2>1, <2>2, InOrderUnique
<1>7. MapsDensely'
  <2>1. Cardinality(DOMAIN vertex_map'[0]) = n
    BY <1>1, <1>2, <1>3
  <2>2. Range(vertex_map'[0]) = 0 .. vertex_count_'[0] - 1
    BY <1>1, <1>2 DEF Range, Numbers
  <2>3. vertex_map'[0] = DenseMap(n, E)
    BY <1>1, <1>4, <1>6
  <2> HIDE DEF n, E
  <2>4. E = {Pair(e) : e \in UNION {samples'[r] : r \in Rank}}
    BY <1>1 DEF E
  <2> QED
    BY <2>1, <2>2, <2>3, <2>4 DEF MapsDensely
<1>8. Currents'
  <2>1. /\ InOrder(N, connected_components)
        /\ {connected_components[v] : v \in Numbers(N)} = Numbers(n)
    BY DEF Currents, Vertices, Node, Numbers
  <2>2. {relabelled[a] : a \in Numbers(n)} = Numbers(components_active)
    BY <1>2 DEF Vertices
  <2>3. connected_components' = [v \in Numbers(N) |-> relabelled[connected_components[v]]]
    BY <1>1 DEF Node, Numbers
  <2> HIDE DEF n
  <2>4. /\ InOrder(N, connected_components')
        /\ {connected_components'[v] : v \in Numbers(N)} = Numbers(components_active)
    BY <1>2, <1>3, <2>1, <2>2, <2>3, InOrderTwice DEF n
  <2>5. Vertices' = Numbers(components_active) /\ Node = Numbers(N)
    BY <1>1 DEF Vertices, Node, Numbers
  <2> QED
    BY <2>4, <2>5 DEF Currents
<1> QED
  BY <1>1, <1>7, <1>8 DEF InPrefix
-----------------------------------------------------------------------------
(***************************************************************************)
(* The numbers that the edges consist of.                                  *)
(***************************************************************************)
LEMMA Applied ==
  ASSUME NEW V, NEW W, NEW slice \in Seq(Edge(V)), NEW map \in [V -> W]
  PROVE  /\ applyMapping(slice, map) \in Seq(Edge(W))
         /\ Pairs(applyMapping(slice, map)) = MergedPairs(Pairs(slice), map)
<1> DEFINE K == {k \in DOMAIN slice : map[slice[k].from] # map[slice[k].to]}
           kept == Compact(slice, K)
           t == applyMapping(slice, map)
<1>1. /\ K \in SUBSET Int /\ IsFiniteSet(K) /\ Cardinality(K) \in Nat
      /\ kept \in Seq(Edge(V)) /\ DOMAIN kept = 1 .. Cardinality(K)
      /\ \A k \in DOMAIN kept : Nth(K, k) \in K /\ kept[k] = slice[Nth(K, k)]
  <2>1. K \in SUBSET DOMAIN slice
    OBVIOUS
  <2> HIDE DEF K
  <2> QED
    BY <2>1, CompactType
<1>2. t = [k \in DOMAIN kept |-> Renamed(kept[k], map)]
  BY DEF applyMapping
<1>3. \A k \in DOMAIN slice : /\ slice[k].from \in V /\ slice[k].to \in V
                              /\ map[slice[k].from] \in W /\ map[slice[k].to] \in W
  <2>1. \A k \in DOMAIN slice : slice[k] \in Edge(V)
    OBVIOUS
  <2> QED
    BY <2>1 DEF Edge
<1>4. \A k \in K : k \in DOMAIN slice
  OBVIOUS
<1>5. \A k \in DOMAIN kept : /\ t[k] = [from |-> map[slice[Nth(K, k)].from],
                                        to |-> map[slice[Nth(K, k)].to]]
                             /\ t[k] \in Edge(W)
  <2> TAKE k \in DOMAIN kept
  <2>1. Nth(K, k) \in DOMAIN slice /\ kept[k] = slice[Nth(K, k)]
    BY <1>1, <1>4
  <2>2. t[k] = [from |-> map[slice[Nth(K, k)].from], to |-> map[slice[Nth(K, k)].to]]
    BY <1>2, <2>1 DEF Renamed
  <2> QED
    BY <1>3, <2>1, <2>2 DEF Edge
<1> HIDE DEF t, kept
<1>6. t \in Seq(Edge(W))
  <2>1. t \in [1 .. Cardinality(K) -> Edge(W)]
    BY <1>1, <1>2, <1>5
  <2> HIDE DEF K
  <2> QED
    BY <1>1, <2>1
<1>7. \A k \in DOMAIN slice : map[slice[k].from] # map[slice[k].to] =>
         \E j \in DOMAIN t : Pair(t[j]) = {map[slice[k].from], map[slice[k].to]}
  <2> TAKE k \in DOMAIN slice
  <2> HAVE map[slice[k].from] # map[slice[k].to]
  <2>1. k \in K
    OBVIOUS
  <2> HIDE DEF K
  <2>2. Upto(K, k) \in 1 .. Cardinality(K) /\ Nth(K, Upto(K, k)) = k
    BY <1>1, <2>1, UptoInRange, NthUpto
  <2>3. Upto(K, k) \in DOMAIN t
    BY <1>1, <1>2, <2>2
  <2>4. t[Upto(K, k)] = [from |-> map[slice[k].from], to |-> map[slice[k].to]]
    BY <1>1, <1>5, <2>2
  <2> QED
    BY <2>3, <2>4 DEF Pair
<1>8. \A j \in DOMAIN t :
         \E k \in DOMAIN slice : /\ map[slice[k].from] # map[slice[k].to]
                                 /\ Pair(t[j]) = {map[slice[k].from], map[slice[k].to]}
  <2> TAKE j \in DOMAIN t
  <2>1. j \in DOMAIN kept
    BY <1>2
  <2>2. Nth(K, j) \in K
    BY <1>1, <2>1
  <2>3. /\ Nth(K, j) \in DOMAIN slice
        /\ map[slice[Nth(K, j)].from] # map[slice[Nth(K, j)].to]
    BY <2>2
  <2>4. Pair(t[j]) = {map[slice[Nth(K, j)].from], map[slice[Nth(K, j)].to]}
    <3>1. /\ t[j].from = map[slice[Nth(K, j)].from]
          /\ t[j].to = map[slice[Nth(K, j)].to]
      <4> DEFINE i == Nth(K, j)
      <4>1. t[j] = [from |-> map[slice[i].from], to |-> map[slice[i].to]]
        BY <1>5, <2>1
      <4> HIDE DEF i
      <4>2. t[j].from = map[slice[i].from] /\ t[j].to = map[slice[i].to]
        BY <4>1
      <4> QED
        BY <4>2 DEF i
    <3> QED
      BY <3>1 DEF Pair
  <2> QED
    BY <2>3, <2>4
<1>9. Pairs(t) = MergedPairs(Pairs(slice), map)
  BY <1>7, <1>8, KeptPairs
<1> QED
  BY <1>6, <1>9 DEF t

LEMMA ZerosDomain ==
  ASSUME NEW n
  PROVE  DOMAIN Zeros(n) = Numbers(n)
BY DEF Zeros, Numbers

LEMMA EndsStay ==
  ASSUME NEW r \in Rank, Same(r), vertex_count_'[0] = vertex_count_[0], SliceEnds(r)
  PROVE  SliceEnds(r)'
<1>1. Ends(r)' = Ends(r)
  BY DEF Same, Ends
<1> QED
  BY <1>1 DEF Same, SliceEnds

LEMMA SlaveNumbersStay ==
  ASSUME NEW r \in Slave, Same(r), Same(0), SlaveNumbers(r)
  PROVE  SlaveNumbers(r)'
BY DEF Same, SlaveNumbers, MapHeld

LEMMA SlaveNumbering ==
  ASSUME Running, NEW r \in Slave, SlaveStep(r)
  PROVE  Numbering'
<1>1. /\ Others(r) /\ Domains /\ r \in Rank /\ r # 0 /\ 0 \in Rank
      /\ \A s \in Rank : s # r => Same(s)
      /\ Same(0)
  BY Constants, RunningDomains, SlaveOnward DEF Others
<1>2. /\ pc'[0] = pc[0] /\ vertex_map'[0] = vertex_map[0] /\ vertex_count_'[0] = vertex_count_[0]
      /\ MapHeld' = MapHeld
  BY <1>1 DEF Same, MapHeld
<1>3. Numbering /\ SliceEnds(r) /\ SlaveNumbers(r) /\ Agrees(r) /\ vertex_count_[0] \in Nat \ {0}
  BY <1>1 DEF Running, Numbering
<1>4. MasterNumbers'
  BY <1>2, <1>3 DEF Numbering, MasterNumbers
<1>5. \A s \in Rank : s # r => SliceEnds(s)'
  BY <1>1, <1>2, <1>3, EndsStay DEF Numbering
<1>6. \A s \in Slave : s # r => SlaveNumbers(s)'
  BY <1>1, <1>3, SlaveNumbersStay, Constants DEF Numbering
<1>7. SUFFICES vertex_count_' \in [Rank -> Nat \ {0}] /\ SliceEnds(r)' /\ SlaveNumbers(r)'
  BY <1>4, <1>5, <1>6 DEF Numbering
<1>8. CASE CountEdges(r)
  <2>1. /\ pc[r] = "edges" /\ pc'[r] = "sum"
        /\ vertex_count_' = vertex_count_ /\ edges_slice_' = edges_slice_ /\ vertex_map' = vertex_map
    BY <1>1, <1>8 DEF CountEdges, Goto, Domains, graphVars
  <2> QED
    BY <1>2, <1>3, <2>1 DEF Numbering, SliceEnds, SlaveNumbers, Ends
<1>9. CASE WhileEdges(r)
  <2>1. /\ pc[r] = "sum" /\ pc'[r] \in {"available", "done"}
        /\ vertex_count_' = vertex_count_ /\ edges_slice_' = edges_slice_
        /\ pc'[r] = "available" => vertex_map'[r] = Zeros(vertex_count_[r])
    BY <1>1, <1>9 DEF WhileEdges, Goto, Domains
  <2> QED
    BY <1>2, <1>3, <2>1, ZerosDomain DEF Numbering, SliceEnds, SlaveNumbers, Ends
<1>10. CASE SlaveAvailable(r)
  <2>1. /\ pc[r] = "available" /\ pc'[r] = "share"
        /\ vertex_count_' = vertex_count_ /\ edges_slice_' = edges_slice_ /\ vertex_map' = vertex_map
    BY <1>1, <1>10 DEF SlaveAvailable, Goto, Domains, graphVars
  <2> QED
    BY <1>2, <1>3, <2>1 DEF Numbering, SliceEnds, SlaveNumbers, Ends
<1>11. CASE SlaveShare(r)
  <2>1. /\ pc[r] = "share" /\ pc'[r] = "samples"
        /\ vertex_count_' = vertex_count_ /\ edges_slice_' = edges_slice_ /\ vertex_map' = vertex_map
    BY <1>1, <1>11 DEF SlaveShare, Goto, Domains, graphVars
  <2> QED
    BY <1>2, <1>3, <2>1 DEF Numbering, SliceEnds, SlaveNumbers, Ends
<1>12. CASE SlaveSamples(r)
  <2>1. /\ pc[r] = "samples" /\ pc'[r] = "map"
        /\ vertex_count_' = vertex_count_ /\ edges_slice_' = edges_slice_ /\ vertex_map' = vertex_map
    BY <1>1, <1>12 DEF SlaveSamples, Goto, Domains, graphVars
  <2>2. ~ MapHeld
    BY <1>3, <2>1 DEF Agrees, Summing, Ending, Sampling, Renaming, MapHeld
  <2>3. DOMAIN vertex_map[r] = Numbers(vertex_count_[r])
    BY <1>3, <2>1 DEF SlaveNumbers
  <2> QED
    BY <1>2, <1>3, <2>1, <2>2, <2>3 DEF Numbering, SliceEnds, SlaveNumbers, Ends
<1>13. CASE SlaveMap(r)
  <2>1. /\ pc[r] = "map" /\ pc'[r] = "vertex_count" /\ down[r] # <<>>
        /\ vertex_count_' = vertex_count_
        /\ edges_slice_'[r] = applyMapping(edges_slice_[r], Head(down[r]).data)
    BY <1>1, <1>13 DEF SlaveMap, TakeDown, Goto, Domains
  <2>2. Renaming(r) /\ Head(down[r]) = Message("map", vertex_map[0])
    BY <1>3, <2>1, Taken
  <2>3. MapHeld /\ Head(down[r]).data = vertex_map[0]
    BY <2>2 DEF Renaming, MapHeld, Message
  <2>4. /\ vertex_map[0] \in [DOMAIN vertex_map[0] -> Numbers(vertex_count_[0])]
        /\ DOMAIN vertex_map[0] = Numbers(vertex_count_[r])
        /\ DOMAIN vertex_map[r] = Numbers(vertex_count_[r])
    BY <1>3, <2>1, <2>3 DEF Numbering, MasterNumbers, SlaveNumbers
  <2>5. edges_slice_[r] \in Seq(Edge(DOMAIN vertex_map[0]))
    BY <1>3, <2>1, <2>4 DEF SliceEnds, Ends
  <2>6. edges_slice_'[r] \in Seq(Edge(Numbers(vertex_count_[0])))
    BY <2>1, <2>3, <2>4, <2>5, Applied
  <2> QED
    BY <1>2, <1>3, <2>1, <2>3, <2>6 DEF Numbering, SliceEnds, SlaveNumbers, Ends
<1>14. CASE SlaveVertexCount(r)
  <2>1. /\ pc[r] = "vertex_count" /\ pc'[r] = "edges" /\ down[r] # <<>>
        /\ vertex_count_' = [vertex_count_ EXCEPT ![r] = Head(down[r]).data]
        /\ edges_slice_' = edges_slice_
    BY <1>1, <1>14 DEF SlaveVertexCount, TakeDown, Goto, Domains
  <2>2. Head(down[r]) = Message("vertex_count", vertex_count_[0])
    BY <1>3, <2>1, Taken
  <2>3. vertex_count_'[r] = vertex_count_[0]
    BY <1>1, <2>1, <2>2 DEF Message, Domains
  <2>4. vertex_count_' \in [Rank -> Nat \ {0}]
    <3>1. /\ Head(down[r]).data \in Nat \ {0}
          /\ vertex_count_ \in [Rank -> Nat \ {0}]
      BY <1>3, <2>2 DEF Numbering, Message
    <3> QED
      BY <2>1, <3>1
  <2> QED
    BY <1>2, <1>3, <2>1, <2>3, <2>4 DEF SliceEnds, SlaveNumbers, Ends
<1> QED
  BY <1>8, <1>9, <1>10, <1>11, <1>12, <1>13, <1>14 DEF SlaveStep
(* What no step of rank 0 but these three touches. *)
MasterQuiet ==
  /\ vertex_count_' = vertex_count_ /\ vertex_map' = vertex_map /\ edges_slice_' = edges_slice_
  /\ \/ /\ pc[0] \in {"available", "share", "samples", "unite", "relabel"}
        /\ pc'[0] \in {"available", "share", "samples", "unite", "relabel"}
     \/ pc[0] = "vertex_count" /\ pc'[0] = "edges"
     \/ pc[0] = "edges" /\ pc'[0] = "sum"

LEMMA MasterIsQuiet ==
  ASSUME Domains, MasterStep, ~ Aborts, ~ WhileEdges(0), ~ MasterMapped, ~ MasterMap
  PROVE  MasterQuiet
<1> USE Constants DEF MasterQuiet, Goto, graphVars, Domains
<1>1. CASE CountEdges(0)
  BY <1>1 DEF CountEdges
<1>2. CASE MasterAvailable
  BY <1>2 DEF MasterAvailable, Aborts
<1>3. CASE MasterShare
  BY <1>3 DEF MasterShare
<1>4. CASE MasterSamples
  BY <1>4 DEF MasterSamples
<1>5. CASE MasterUnite
  BY <1>5 DEF MasterUnite
<1>6. CASE MasterUnited
  BY <1>6 DEF MasterUnited
<1>7. CASE MasterRelabel
  BY <1>7 DEF MasterRelabel
<1>8. CASE MasterVertexCount
  BY <1>8 DEF MasterVertexCount
<1> QED
  BY <1>1, <1>2, <1>3, <1>4, <1>5, <1>6, <1>7, <1>8 DEF MasterStep

LEMMA MasterNumbering ==
  ASSUME Running, InPrefix, MasterStep, ~ Aborts
  PROVE  Numbering'
<1>1. /\ Domains /\ 0 \in Rank /\ \A r \in Slave : Same(r) /\ r \in Rank /\ r # 0
      /\ \A r \in Rank : r # 0 => r \in Slave
  BY Constants, RunningDomains, MasterLocal
<1>2. /\ vertex_count_ \in [Rank -> Nat \ {0}]
      /\ \A r \in Rank : SliceEnds(r)
      /\ MasterNumbers
      /\ \A r \in Slave : SlaveNumbers(r) /\ Agrees(r)
  BY DEF Running, Numbering
<1>3. CASE WhileEdges(0)
  <2>1. /\ pc[0] = "sum" /\ pc'[0] \in {"available", "done"}
        /\ pc'[0] = "available" => vertex_map'[0] = Zeros(vertex_count_[0])
        /\ vertex_count_' = vertex_count_ /\ edges_slice_' = edges_slice_
    BY <1>1, <1>3 DEF WhileEdges, Goto, Domains
  <2>2. SliceEnds(0)'
    BY <1>1, <1>2, <2>1 DEF SliceEnds, Ends
  <2>3. \A r \in Slave : SliceEnds(r)'
    BY <1>1, <1>2, <2>1, EndsStay
  <2>4. MasterNumbers'
    BY <2>1, ZerosDomain DEF MasterNumbers, MapHeld
  <2>5. ASSUME NEW r \in Slave PROVE SlaveNumbers(r)'
    <3>1. Agrees(r)'
      BY MasterAgrees
    <3>2. pc'[r] \notin {"map", "vertex_count"}
      BY <2>1, <3>1 DEF Agrees, Summing, Ending, Sampling, Renaming
    <3>3. Same(r) /\ SlaveNumbers(r)
      BY <1>1, <1>2
    <3> QED
      BY <2>1, <3>2, <3>3 DEF SlaveNumbers, Same
  <2> QED
    BY <1>1, <1>2, <2>1, <2>2, <2>3, <2>4, <2>5 DEF Numbering
<1>4. CASE MasterMapped
  <2>1. /\ pc[0] = "relabel" /\ pc'[0] = "map" /\ Mapped
        /\ vertex_map'[0] = relabelled /\ edges_slice_' = edges_slice_
        /\ vertex_count_' = [vertex_count_ EXCEPT ![0] = components_active]
        /\ vertex_count_'[0] = components_active
    BY <1>1, <1>4 DEF MasterMapped, Goto, Domains
  <2>2. \A r \in Slave : pc[r] = "map"
    BY <2>1, SlavesWait
  <2>3. /\ DOMAIN relabelled = Vertices
        /\ {relabelled[v] : v \in Vertices} = Numbers(components_active)
        /\ components_active \in Nat /\ components_active # 0
        /\ InOrder(vertex_count_[0], relabelled)
    BY <2>1, NumberingComplete
  <2>4. relabelled \in [Vertices -> Numbers(components_active)]
    <3>1. relabelled = [v \in Vertices |-> relabelled[v]]
      BY <2>3 DEF InOrder, Vertices
    <3>2. \A v \in Vertices : relabelled[v] \in Numbers(components_active)
      BY <2>3
    <3> QED
      BY <3>1, <3>2
  <2>5. vertex_count_' \in [Rank -> Nat \ {0}]
    BY <1>2, <2>1, <2>3
  <2>6. SliceEnds(0)'
    <3>1. Ends(0) = Vertices /\ Ends(0)' = Vertices
      BY <2>1, <2>3 DEF Ends, Vertices
    <3> QED
      BY <1>1, <1>2, <2>1, <3>1 DEF SliceEnds
  <2>7. \A r \in Slave : SliceEnds(r)'
    <3> TAKE r \in Slave
    <3>1. Ends(r)' = Ends(r)
      BY <1>1, <2>2 DEF Ends, Same
    <3> QED
      BY <1>1, <1>2, <2>1, <3>1 DEF SliceEnds
  <2>8. MasterNumbers'
    BY <2>1, <2>3, <2>4 DEF MasterNumbers, MapHeld
  <2>9. ASSUME NEW r \in Slave PROVE SlaveNumbers(r)'
    <3>1. /\ Same(r) /\ pc[r] = "map" /\ ~ MapHeld /\ MapHeld' /\ SlaveNumbers(r)
      BY <1>1, <1>2, <2>1, <2>2 DEF MapHeld
    <3>2. /\ DOMAIN vertex_map[r] = Numbers(vertex_count_[r])
          /\ vertex_count_[r] = vertex_count_[0]
      BY <3>1 DEF SlaveNumbers
    <3> QED
      BY <2>1, <2>3, <3>1, <3>2 DEF SlaveNumbers, Same, Vertices
  <2> QED
    BY <1>1, <2>5, <2>6, <2>7, <2>8, <2>9 DEF Numbering
<1>5. CASE MasterMap
  <2>1. /\ pc[0] = "map" /\ pc'[0] = "vertex_count"
        /\ edges_slice_'[0] = applyMapping(edges_slice_[0], vertex_map[0])
        /\ vertex_count_' = vertex_count_ /\ vertex_map' = vertex_map
    BY <1>1, <1>5 DEF MasterMap, Goto, Domains
  <2>2. vertex_map[0] \in [DOMAIN vertex_map[0] -> Numbers(vertex_count_[0])]
    BY <1>2, <2>1 DEF MasterNumbers, MapHeld
  <2>3. edges_slice_[0] \in Seq(Edge(DOMAIN vertex_map[0]))
    BY <1>1, <1>2, <2>1 DEF SliceEnds, Ends
  <2>4. edges_slice_'[0] \in Seq(Edge(Numbers(vertex_count_[0])))
    BY <2>1, <2>2, <2>3, Applied
  <2>5. SliceEnds(0)'
    BY <2>1, <2>4 DEF SliceEnds, Ends
  <2>6. \A r \in Slave : SliceEnds(r)'
    BY <1>1, <1>2, <2>1, EndsStay
  <2>7. MasterNumbers'
    BY <2>1, <2>2 DEF MasterNumbers, MapHeld
  <2>8. \A r \in Slave : SlaveNumbers(r)'
    BY <1>1, <1>2, <2>1 DEF SlaveNumbers, MapHeld, Same
  <2> QED
    BY <1>1, <1>2, <2>1, <2>5, <2>6, <2>7, <2>8 DEF Numbering
<1>6. CASE MasterQuiet
  <2>1. /\ vertex_count_' = vertex_count_ /\ vertex_map' = vertex_map
        /\ edges_slice_' = edges_slice_ /\ MapHeld' = MapHeld
    BY <1>6 DEF MasterQuiet, MapHeld
  <2>2. SliceEnds(0)'
    <3>1. Ends(0)' = Ends(0)
      BY <1>6, <2>1 DEF Ends, MasterQuiet
    <3> QED
      BY <1>1, <1>2, <2>1, <3>1 DEF SliceEnds
  <2>3. \A r \in Slave : SliceEnds(r)'
    BY <1>1, <1>2, <2>1, EndsStay
  <2>4. MasterNumbers'
    BY <1>2, <1>6, <2>1 DEF MasterNumbers, MasterQuiet, MapHeld
  <2>5. \A r \in Slave : SlaveNumbers(r)'
    BY <1>1, <1>2, <2>1 DEF SlaveNumbers, Same
  <2> QED
    BY <1>1, <1>2, <2>1, <2>2, <2>3, <2>4, <2>5 DEF Numbering
<1> QED
  BY <1>1, <1>3, <1>4, <1>5, <1>6, MasterIsQuiet

-----------------------------------------------------------------------------
(***************************************************************************)
(* What a step leaves of the samples and of rank 0's result.               *)
(***************************************************************************)
LEMMA SampleDrawn ==
  ASSUME NEW slice, NEW k, NEW S \in sample(slice, k)
  PROVE  S \in SUBSET Range(slice)
BY DEF sample

LEMMA SlaveDrawn ==
  ASSUME Running, NEW r \in Slave, SlaveStep(r)
  PROVE  \A s \in Rank : Drawn(s)'
<1>1. /\ Domains /\ r \in Rank /\ r # 0
      /\ \A s \in Rank : s # r => Same(s)
  BY Constants, RunningDomains, SlaveLocal
<1>2. \A s \in Rank : Drawn(s)
  BY DEF Running
<1>3. \A s \in Rank : s # r => Drawn(s)'
  BY <1>1, <1>2 DEF Drawn, Same
<1>4. Drawn(r)'
  <2>1. CASE SlaveShare(r)
    <3>1. PICK S \in sample(edges_slice_[r], Head(down[r]).data) :
             samples' = [samples EXCEPT ![r] = S]
      BY <2>1 DEF SlaveShare
    <3>2. samples'[r] = S /\ edges_slice_' = edges_slice_
      BY <1>1, <2>1, <3>1 DEF SlaveShare, graphVars, Domains
    <3> QED
      BY <3>1, <3>2, SampleDrawn DEF Drawn
  <2>2. CASE SlaveSamples(r)
    BY <1>1, <1>2, <2>2 DEF SlaveSamples, graphVars, sampleVars, Drawn
  <2>3. CASE ~ SlaveShare(r) /\ ~ SlaveSamples(r)
    <3>1. pc'[r] \notin {"samples", "unite", "relabel", "map"}
      BY <1>1, <2>3 DEF SlaveStep, CountEdges, WhileEdges, SlaveAvailable, SlaveMap,
         SlaveVertexCount, Goto, Domains
    <3> QED
      BY <3>1 DEF Drawn
  <2> QED
    BY <2>1, <2>2, <2>3
<1> QED
  BY <1>3, <1>4

LEMMA MasterDrawn ==
  ASSUME Running, MasterStep, ~ Aborts
  PROVE  \A s \in Rank : Drawn(s)'
<1>1. /\ Domains /\ 0 \in Rank /\ \A s \in Rank : s # 0 => Same(s)
  BY Constants, RunningDomains, MasterLocal
<1>2. \A s \in Rank : Drawn(s)
  BY DEF Running
<1>3. \A s \in Rank : s # 0 => Drawn(s)'
  BY <1>1, <1>2 DEF Drawn, Same
<1>4. Drawn(0)'
  <2>1. CASE MasterShare
    <3>1. PICK S \in sample(edges_slice_[0], edges_per_processor[0]) :
             samples' = [samples EXCEPT ![0] = S]
      BY <2>1 DEF MasterShare
    <3>2. samples'[0] = S /\ edges_slice_' = edges_slice_
      BY <1>1, <2>1, <3>1 DEF MasterShare, graphVars, Domains
    <3> QED
      BY <3>1, <3>2, SampleDrawn DEF Drawn
  <2>2. CASE MasterSamples \/ MasterUnite \/ MasterUnited \/ MasterRelabel \/ MasterMapped
    <3>1. /\ pc[0] \in {"samples", "unite", "relabel"}
          /\ samples' = samples /\ edges_slice_' = edges_slice_
      BY <2>2 DEF MasterSamples, MasterUnite, MasterUnited, MasterRelabel, MasterMapped,
         graphVars, sampleVars
    <3> QED
      BY <1>1, <1>2, <3>1 DEF Drawn
  <2>3. CASE CountEdges(0) \/ WhileEdges(0) \/ MasterAvailable \/ MasterMap \/ MasterVertexCount
    <3>1. pc'[0] \notin {"samples", "unite", "relabel", "map"}
      BY <1>1, <2>3 DEF CountEdges, WhileEdges, MasterAvailable, Aborts, MasterMap,
         MasterVertexCount, Goto, Domains
    <3> QED
      BY <3>1 DEF Drawn
  <2> QED
    BY <2>1, <2>2, <2>3 DEF MasterStep
<1> QED
  BY <1>3, <1>4
(* The variables of prefixConnectedComponents, and the result, change in   *)
(* the steps of rank 0 that are about them.                                *)
LEMMA MasterFrame ==
  ASSUME Domains, MasterStep, ~ Aborts
  PROVE  /\ \/ MasterSamples \/ MasterUnite \/ MasterUnited \/ MasterRelabel \/ MasterMapped
            \/ /\ UNCHANGED rootVars /\ vertex_count_' = vertex_count_
               /\ pc[0] \notin {"unite", "relabel"}
               /\ pc'[0] \notin {"unite", "relabel", "map"}
         /\ ~ MasterMapped => /\ UNCHANGED connected_components
                              /\ vertex_count_' = vertex_count_
<1> USE Constants DEF Goto, graphVars, rootVars, Domains
<1>1. CASE CountEdges(0)
  BY <1>1 DEF CountEdges
<1>2. CASE WhileEdges(0)
  BY <1>2 DEF WhileEdges
<1>3. CASE MasterAvailable
  BY <1>3 DEF MasterAvailable, Aborts
<1>4. CASE MasterShare
  BY <1>4 DEF MasterShare
<1>5. CASE MasterSamples
  BY <1>5 DEF MasterSamples
<1>6. CASE MasterUnite
  BY <1>6 DEF MasterUnite
<1>7. CASE MasterUnited
  BY <1>7 DEF MasterUnited
<1>8. CASE MasterRelabel
  BY <1>8 DEF MasterRelabel
<1>9. CASE MasterMapped
  BY <1>9
<1>10. CASE MasterMap
  BY <1>10 DEF MasterMap
<1>11. CASE MasterVertexCount
  BY <1>11 DEF MasterVertexCount
<1> QED
  BY <1>1, <1>2, <1>3, <1>4, <1>5, <1>6, <1>7, <1>8, <1>9, <1>10, <1>11 DEF MasterStep

LEMMA CurrentsStay ==
  ASSUME Currents, UNCHANGED connected_components, vertex_count_'[0] = vertex_count_[0]
  PROVE  Currents'
<1>1. Vertices' = Vertices
  BY DEF Vertices
<1> QED
  BY <1>1 DEF Currents

LEMMA SlaveKeeps ==
  ASSUME IInv, Running, NEW r \in Slave, SlaveStep(r)
  PROVE  IInv' /\ Running'
<1>1. /\ Domains /\ r \in Rank /\ Same(0) /\ UNCHANGED rootVars /\ Onward(r) /\ Others(r)
  BY Constants, RunningDomains, SlaveLocal, SlaveOnward
<1>2. Types' /\ Rounds'
  BY <1>1, TypesKept, RoundsKept DEF Running
<1>3. Running'
  BY <1>2, SlaveAgrees, SlaveNumbering, SlaveDrawn DEF Running
<1>4. /\ pc[0] \notin {"unite", "relabel", "map"} /\ pc'[0] = pc[0]
      /\ vertex_count_'[0] = vertex_count_[0]
  BY <1>1, SlavesWait DEF Same
<1>5. ~ Aborted /\ InPrefix /\ MapsDensely /\ Currents /\ Framed
  BY Constants DEF IInv, Running, Types, Aborted
<1>6. Framed'
  BY <1>1, <1>4, <1>5 DEF Framed, NoFrame, rootVars, prefixVars
<1>7. InPrefix' /\ MapsDensely'
  BY <1>4 DEF InPrefix, MapsDensely
<1>8. Currents'
  BY <1>1, <1>4, <1>5, CurrentsStay DEF rootVars
<1> QED
  BY <1>3, <1>6, <1>7, <1>8 DEF IInv

LEMMA MasterKeeps ==
  ASSUME IInv, Running, MasterStep, ~ Aborts
  PROVE  IInv' /\ Running'
<1>1. /\ Domains /\ 0 \in Rank /\ Onward(0) /\ Others(0) /\ SameDomains
  BY Constants, RunningDomains, MasterLocal, MasterOnward DEF Running
<1>2. ~ Aborted /\ InPrefix /\ MapsDensely /\ Currents /\ Framed
  BY Constants DEF IInv, Running, Types, Aborted
<1>3. Types' /\ Rounds'
  BY <1>1, TypesKept, RoundsKept DEF Running
<1>4. Running'
  BY <1>2, <1>3, MasterAgrees, MasterNumbering, MasterDrawn DEF Running
<1>5. Framed'
  <2>1. CASE MasterSamples \/ MasterUnite \/ MasterUnited \/ MasterRelabel
    <3>1. pc'[0] \in {"unite", "relabel"}
      BY <1>1, <2>1 DEF MasterSamples, MasterUnite, MasterUnited, MasterRelabel, Goto, Domains
    <3> QED
      BY <3>1 DEF Framed
  <2>2. CASE MasterMapped
    BY <2>2 DEF MasterMapped, Leave, Framed, NoFrame
  <2>3. CASE UNCHANGED rootVars /\ pc[0] \notin {"unite", "relabel"}
    BY <1>2, <2>3 DEF Framed, NoFrame, rootVars, prefixVars
  <2> QED
    BY <1>1, <2>1, <2>2, <2>3, MasterFrame
<1>6. InPrefix' /\ MapsDensely' /\ Currents'
  <2>1. CASE MasterMapped
    BY <1>2, <2>1, MasterMappedKeeps
  <2>2. CASE ~ MasterMapped
    <3>1. UNCHANGED connected_components /\ vertex_count_' = vertex_count_
      BY <1>1, <2>2, MasterFrame
    <3>2. Currents'
      BY <1>2, <3>1, CurrentsStay
    <3>3. CASE MasterSamples \/ MasterUnite \/ MasterUnited \/ MasterRelabel
      <4>1. pc'[0] # "map"
        BY <1>1, <3>3 DEF MasterSamples, MasterUnite, MasterUnited, MasterRelabel, Goto, Domains
      <4>2. InPrefix'
        BY <1>1, <1>2, <3>3, MasterSamplesKeeps, MasterUniteKeeps, MasterUnitedKeeps,
           MasterRelabelKeeps
      <4> QED
        BY <3>2, <4>1, <4>2 DEF MapsDensely
    <3>4. CASE pc'[0] \notin {"unite", "relabel", "map"}
      BY <3>2, <3>4 DEF InPrefix, MapsDensely
    <3> QED
      BY <1>1, <2>2, <3>3, <3>4, MasterFrame
  <2> QED
    BY <2>1, <2>2
<1> QED
  BY <1>4, <1>5, <1>6 DEF IInv

LEMMA AbortsKeeps ==
  ASSUME Framed, Aborts
  PROVE  IInv' /\ Aborted'
<1>1. /\ pc[0] = "available" /\ pc' = [r \in Rank |-> "aborted"]
      /\ UNCHANGED rootVars
  BY DEF Aborts, MasterAvailable
<1>2. Aborted' /\ pc'[0] = "aborted"
  BY <1>1, Constants DEF Aborted
<1>3. Framed'
  BY <1>1 DEF Framed, NoFrame, rootVars, prefixVars
<1> QED
  BY <1>2, <1>3 DEF IInv

LEMMA StutterKeeps ==
  ASSUME IInv, UNCHANGED vars
  PROVE  IInv'
<1>1. /\ UNCHANGED <<input, pc, local_edges, connected_components>>
      /\ UNCHANGED <<edges_slice_, vertex_count_, vertex_map>>
      /\ UNCHANGED <<samples, edges_per_processor, down, up>>
      /\ UNCHANGED <<to_unite, dsets, components_active, component_labels, next_label, relabelled>>
  BY DEF vars, graphVars, sampleVars, rootVars, prefixVars, channels
<1>2. Framed' = Framed /\ Aborted' = Aborted
  BY <1>1 DEF Framed, NoFrame, Aborted
<1>3. Running' = Running
  <2>1. Types' = Types /\ Rounds' = Rounds
    BY <1>1 DEF Types, Rounds, Counted, TotalOf
  <2>2. Numbering' = Numbering
    BY <1>1 DEF Numbering, SliceEnds, Ends, MasterNumbers, MapHeld, SlaveNumbers
  <2>3. ASSUME NEW r \in Rank PROVE Drawn(r)' = Drawn(r)
    BY <1>1 DEF Drawn
  <2>4. ASSUME NEW r \in Slave PROVE Agrees(r)' = Agrees(r)
    BY <1>1 DEF Agrees, Summing, Ending, Sampling, Renaming, Unread, Counted
  <2> QED
    BY <2>1, <2>2, <2>3, <2>4 DEF Running
<1>4. InPrefix' = InPrefix
  <2>1. Vertices' = Vertices /\ DrawnEdges' = DrawnEdges /\ DrawnPairs' = DrawnPairs
    BY <1>1 DEF Vertices, DrawnEdges, DrawnPairs
  <2>2. RootOf' = RootOf
    BY <1>1, <2>1 DEF RootOf
  <2> QED
    BY <1>1, <2>1, <2>2 DEF InPrefix, Forested, Uniting, Relabelling
<1>5. MapsDensely' = MapsDensely
  BY <1>1 DEF MapsDensely
<1>6. Currents' = Currents
  BY <1>1 DEF Currents, Vertices
<1> QED
  BY <1>2, <1>3, <1>4, <1>5, <1>6 DEF IInv

LEMMA IInvInductive ==
  IInv /\ [Next]_vars => IInv'
<1> SUFFICES ASSUME IInv, [Next]_vars
             PROVE  IInv'
  OBVIOUS
<1>1. CASE UNCHANGED vars
  BY <1>1, StutterKeeps
<1>2. CASE Aborted /\ Next
  <2>1. \A r \in Rank : pc[r] = "aborted"
    BY <1>2 DEF Aborted
  <2>2. ~ MasterStep
    BY <2>1, Constants DEF MasterStep, CountEdges, WhileEdges, MasterAvailable, MasterShare,
       MasterSamples, MasterUnite, MasterUnited, MasterRelabel, MasterMapped, MasterMap,
       MasterVertexCount
  <2>3. ASSUME NEW r \in Slave PROVE ~ SlaveStep(r)
    BY <2>1, Constants DEF SlaveStep, CountEdges, WhileEdges, SlaveAvailable, SlaveShare,
       SlaveSamples, SlaveMap, SlaveVertexCount
  <2> QED
    BY <1>1, <1>2, <2>2, <2>3 DEF Next, Terminated
<1>3. CASE Running /\ Next
  BY <1>1, <1>3, MasterKeeps, SlaveKeeps, AbortsKeeps DEF Next, Terminated, IInv
<1> QED
  BY <1>1, <1>2, <1>3 DEF IInv

(* A file that is not empty, cut into slices.                              *)
LEMMA SliceType ==
  ASSUME NEW file \in Seq(Edge(Node)), NEW r \in Rank
  PROVE  /\ loadSlice(file, r) \in Seq(Edge(Node))
         /\ Len(loadSlice(file, r)) = slice_to(Len(file), r, P) - slice_from(Len(file), r, P)
         /\ \A k \in 1 .. Len(loadSlice(file, r)) :
               loadSlice(file, r)[k] = file[slice_from(Len(file), r, P) + k]
<1> DEFINE a == slice_from(Len(file), r, P)
           b == slice_to(Len(file), r, P)
<1>1. /\ a \in Nat /\ b \in Nat /\ a <= b /\ b <= Len(file) /\ Len(file) \in Nat
  BY Constants, SliceBounds DEF Rank
<1> HIDE DEF a, b
<1>2. loadSlice(file, r) = SubSeq(file, a + 1, b)
  BY DEF loadSlice, a, b
<1>3. \A k \in (a + 1) .. b : file[k] \in Edge(Node)
  BY <1>1
<1>4. /\ SubSeq(file, a + 1, b) \in Seq(Edge(Node))
      /\ Len(SubSeq(file, a + 1, b)) = b - a
      /\ \A k \in 1 .. b - a : SubSeq(file, a + 1, b)[k] = file[a + k]
  BY <1>1, <1>3
<1> QED
  BY <1>2, <1>4 DEF a, b

LEMMA Start ==
  Init => IInv
<1> SUFFICES ASSUME Init
             PROVE  IInv
  OBVIOUS
<1>1. /\ input \in Inputs /\ input \in Seq(Edge(Node))
      /\ pc = [r \in Rank |-> "edges"]
      /\ edges_slice_ = [r \in Rank |-> loadSlice(input, r)]
      /\ vertex_count_ = [r \in Rank |-> N]
      /\ vertex_map = [r \in Rank |-> Zeros(0)]
      /\ local_edges = [r \in Rank |-> <<>>]
      /\ samples = [r \in Rank |-> {}]
      /\ connected_components = [v \in Node |-> v]
      /\ NoFrame
      /\ down = [r \in Slave |-> <<>>]
      /\ up = [r \in Slave |-> <<>>]
  BY ConstantAssumption DEF Init
<1>2. /\ 0 \in Rank /\ N \in Nat \ {0} /\ \A r \in Slave : r \in Rank
      /\ Node = Numbers(N)
  BY Constants DEF Node, Numbers
<1>3. Types
  BY <1>1, <1>2 DEF Types
<1>4. \A r \in Slave : Agrees(r)
  BY <1>1, <1>2 DEF Agrees, Renaming, Unread, Counted
<1>5. Rounds
  BY <1>1 DEF Rounds, InRound
<1>6. Numbering
  <2>1. \A r \in Rank : SliceEnds(r)
    BY <1>1, <1>2, SliceType DEF SliceEnds, Ends
  <2>2. MasterNumbers
    BY <1>1, <1>2, ZerosDomain DEF MasterNumbers, MapHeld, Zeros, Numbers
  <2> QED
    BY <1>1, <1>2, <2>1, <2>2 DEF Numbering, SlaveNumbers
<1>7. \A r \in Rank : Drawn(r)
  BY <1>1 DEF Drawn
<1>8. InPrefix /\ MapsDensely /\ Framed
  BY <1>1, <1>2 DEF InPrefix, MapsDensely, Framed
<1>9. Currents
  <2>1. InOrder(N, connected_components)
    <3>1. connected_components \in [Numbers(N) -> Nat]
      BY <1>1, <1>2 DEF Numbers
    <3>2. ASSUME NEW v \in Numbers(N), NEW a \in Numbers(v)
          PROVE  a \in Numbers(N) /\ connected_components[a] = a
      BY <1>1, <1>2 DEF Numbers
    <3>3. \A v \in Numbers(N) : connected_components[v] = v
      BY <1>1, <1>2
    <3> QED
      BY <3>1, <3>2, <3>3 DEF InOrder
  <2>2. {connected_components[v] : v \in Node} = Vertices
    BY <1>1, <1>2 DEF Vertices
  <2> QED
    BY <2>1, <2>2 DEF Currents
<1> QED
  BY <1>3, <1>4, <1>5, <1>6, <1>7, <1>8, <1>9 DEF IInv, Running

THEOREM Invariance ==
  Spec => []IInv
BY Start, IInvInductive, PTL DEF Spec
-----------------------------------------------------------------------------
(***************************************************************************)
(* Calls and messages.                                                     *)
(***************************************************************************)
(* Whatever rank runs ahead, the oldest message in a channel is for the    *)
(* next call of its receiver, and a map fits what it is applied to.        *)
THEOREM CollectivesAgree ==
  Spec => []CollectivesMatch
<1>1. IInv => CollectivesMatch
  <2> SUFFICES ASSUME IInv, NEW r \in Slave
               PROVE  /\ down[r] # <<>> /\ pc[r] \in {"share", "map", "vertex_count"} =>
                            /\ Head(down[r]).op = pc[r]
                            /\ pc[r] = "map" => DOMAIN Head(down[r]).data = DOMAIN vertex_map[r]
                      /\ up[r] # <<>> /\ pc[0] \in {"available", "samples"} => Head(up[r]).op = pc[0]
                      /\ pc[0] = "done" => down[r] = <<>> /\ up[r] = <<>>
    BY DEF CollectivesMatch
  <2>1. CASE Aborted
    BY <2>1, Constants DEF Aborted
  <2>2. CASE Running
    <3>1. Agrees(r) /\ SlaveNumbers(r)
      BY <2>2 DEF Running, Numbering
    <3>2. ASSUME down[r] # <<>>
          PROVE  /\ Head(down[r]).op = pc[r]
                 /\ pc[r] = "map" => DOMAIN Head(down[r]).data = DOMAIN vertex_map[r]
      <4>1. CASE pc[r] = "map"
        <5>1. Renaming(r) /\ Head(down[r]) = Message("map", vertex_map[0])
          BY <3>1, <3>2, <4>1, Taken
        <5>2. MapHeld
          BY <5>1 DEF Renaming, MapHeld
        <5> QED
          BY <3>1, <4>1, <5>1, <5>2 DEF SlaveNumbers, Message
      <4>2. CASE pc[r] # "map"
        <5>1. \/ /\ pc[r] = "share"
                 /\ Head(down[r]) = Message("share", edges_per_processor[r])
              \/ /\ pc[r] = "vertex_count"
                 /\ Head(down[r]) = Message("vertex_count", vertex_count_[0])
          BY <3>1, <3>2, <4>2, Taken
        <5>2. CASE pc[r] = "share"
          BY <5>1, <5>2 DEF Message
        <5>3. CASE pc[r] = "vertex_count"
          BY <5>1, <5>3 DEF Message
        <5> QED
          BY <5>1, <5>2, <5>3, <4>2
      <4> QED
        BY <4>1, <4>2
    <3>3. ASSUME up[r] # <<>>, pc[0] \in {"available", "samples"}
          PROVE  Head(up[r]).op = pc[0]
      <4>1. CASE pc[0] = "available"
        <5>1. up[r] = <<Message("available", Len(edges_slice_[r]))>>
          BY <3>1, <3>3, <4>1 DEF Agrees, Summing, Ending, Sampling, Renaming
        <5>2. Head(up[r]) = Message("available", Len(edges_slice_[r]))
          BY <5>1, Short
        <5> QED
          BY <4>1, <5>2 DEF Message
      <4>2. CASE pc[0] = "samples"
        <5>1. up[r] = <<Message("samples", samples[r])>>
          BY <3>1, <3>3, <4>2 DEF Agrees, Summing, Ending, Sampling, Renaming
        <5>2. Head(up[r]) = Message("samples", samples[r])
          BY <5>1, Short
        <5> QED
          BY <4>2, <5>2 DEF Message
      <4> QED
        BY <3>3, <4>1, <4>2
    <3>4. pc[0] = "done" => down[r] = <<>> /\ up[r] = <<>>
      BY <3>1 DEF Agrees, Summing, Ending, Sampling, Renaming
    <3> QED
      BY <3>2, <3>3, <3>4
  <2> QED
    BY <2>1, <2>2 DEF IInv
<1> QED
  BY <1>1, Invariance, PTL

(* No rank holds an edge outside the vertices that it counts.              *)
THEOREM EndsStayInRange ==
  Spec => []EndsInRange
<1>1. IInv => EndsInRange
  <2> SUFFICES ASSUME IInv, NEW r \in Rank, NEW k \in DOMAIN edges_slice_[r],
                      pc[r] \in {"edges", "sum", "available", "share"}
               PROVE  Pair(edges_slice_[r][k]) \subseteq 0 .. vertex_count_[r] - 1
    BY DEF EndsInRange
  <2>1. Running
    BY DEF IInv, Aborted
  <2>2. edges_slice_[r] \in Seq(Edge(Ends(r))) /\ Ends(r) = Numbers(vertex_count_[r])
    BY <2>1 DEF Running, Numbering, SliceEnds, Ends
  <2>3. edges_slice_[r][k] \in Edge(Numbers(vertex_count_[r]))
    BY <2>2
  <2> QED
    BY <2>3 DEF Edge, Pair, Numbers
<1> QED
  BY <1>1, Invariance, PTL

(* The map that is broadcast numbers the components of the samples.        *)
THEOREM MapsAreDense ==
  Spec => []MapsDensely
<1>1. IInv => MapsDensely
  BY Constants DEF IInv, Aborted, MapsDensely
<1> QED
  BY <1>1, Invariance, PTL

-----------------------------------------------------------------------------
(***************************************************************************)
(* The rounds contract the graph.                                          *)
(***************************************************************************)
(* The names that the vertices have by numbers f.                          *)
NameIn(f, a) == Min({v \in Node : f[v] = a})

LabelsIn(f) == [v \in Node |-> NameIn(f, f[v])]

NamedIn(f, E) == {{NameIn(f, a) : a \in p} : p \in E}

(* A number is named by the smallest vertex that carries it.               *)
LEMMA NameIs ==
  ASSUME NEW f, NEW u \in Node
  PROVE  /\ NameIn(f, f[u]) \in Node
         /\ f[NameIn(f, f[u])] = f[u]
         /\ \A v \in Node : f[v] = f[u] => NameIn(f, f[u]) <= v
<1> DEFINE S == {v \in Node : f[v] = f[u]}
<1>1. IsFiniteSet(Node) /\ Node \in SUBSET Int
  <2>1. N \in Nat /\ Node = Numbers(N)
    BY Constants DEF Node, Numbers
  <2> QED
    BY <2>1, NumbersFinite DEF Numbers
<1>2. S # {} /\ S \in SUBSET Int /\ IsFiniteSet(S)
  BY <1>1, FS_Subset
<1>3. NameIn(f, f[u]) = Min(S)
  BY DEF NameIn
<1>4. \A v \in S : v \in Node /\ f[v] = f[u]
  OBVIOUS
<1>5. \A v \in Node : f[v] = f[u] => v \in S
  OBVIOUS
<1> HIDE DEF S
<1>6. Min(S) \in S /\ \A v \in S : Min(S) <= v
  BY <1>2, MinOf
<1> QED
  BY <1>3, <1>4, <1>5, <1>6

LEMMA NamesDiffer ==
  ASSUME NEW f
  PROVE  /\ LabelsIn(f) \in [Node -> Node]
         /\ \A u, v \in Node : LabelsIn(f)[u] = LabelsIn(f)[v] <=> f[u] = f[v]
         /\ \A v \in Node : f[LabelsIn(f)[v]] = f[v]
         /\ \A v \in Node : LabelsIn(f)[LabelsIn(f)[v]] = LabelsIn(f)[v]
<1>1. \A v \in Node : /\ LabelsIn(f)[v] = NameIn(f, f[v])
                      /\ LabelsIn(f)[v] \in Node
                      /\ f[LabelsIn(f)[v]] = f[v]
  BY NameIs DEF LabelsIn
<1> QED
  BY <1>1 DEF LabelsIn

(* Numbers that are renumbered along the edges merge their names along     *)
(* them.                                                                   *)
LEMMA Renumbered ==
  ASSUME NEW f, NEW V, \A v \in Node : f[v] \in V, \A a \in V : \E v \in Node : f[v] = a,
         NEW E, \A p \in E : p \subseteq V,
         NEW W, NEW m \in [V -> W],
         \A a, b \in V : m[a] = m[b] => Connected(V, E, a, b),
         NEW g, g = [v \in Node |-> m[f[v]]]
  PROVE  /\ \A u, v \in Node : LabelsIn(f)[u] = LabelsIn(f)[v] => LabelsIn(g)[u] = LabelsIn(g)[v]
         /\ \A v \in Node : Connected(Node, NamedIn(f, E), LabelsIn(f)[v], LabelsIn(g)[v])
         /\ NamedIn(g, MergedPairs(E, m)) = MergedPairs(NamedIn(f, E), LabelsIn(g))
<1>1. \A v \in Node : g[v] = m[f[v]]
  OBVIOUS
<1>2. /\ LabelsIn(f) \in [Node -> Node] /\ LabelsIn(g) \in [Node -> Node]
      /\ \A u, v \in Node : LabelsIn(f)[u] = LabelsIn(f)[v] <=> f[u] = f[v]
      /\ \A u, v \in Node : LabelsIn(g)[u] = LabelsIn(g)[v] <=> g[u] = g[v]
      /\ \A v \in Node : g[LabelsIn(g)[v]] = g[v]
  BY NamesDiffer
<1>3. \A u, v \in Node : LabelsIn(f)[u] = LabelsIn(f)[v] => LabelsIn(g)[u] = LabelsIn(g)[v]
  BY <1>1, <1>2
<1>4. \A a \in V : NameIn(f, a) \in Node /\ f[NameIn(f, a)] = a
  BY NameIs
<1>5. ASSUME NEW v \in Node
      PROVE  Connected(Node, NamedIn(f, E), LabelsIn(f)[v], LabelsIn(g)[v])
  <2> DEFINE w == LabelsIn(g)[v]
             h == [a \in V |-> NameIn(f, a)]
  <2>1. w \in Node /\ g[w] = g[v] /\ w = NameIn(g, g[v])
    BY <1>2 DEF LabelsIn
  <2>2. Connected(V, E, f[v], f[w])
    BY <1>1, <2>1
  <2>3. h \in [V -> Node]
    BY <1>4
  <2>4. {{h[x] : x \in p} : p \in E} = NamedIn(f, E)
    <3>1. ASSUME NEW p \in E PROVE {h[x] : x \in p} = {NameIn(f, x) : x \in p}
      <4>1. \A x \in p : h[x] = NameIn(f, x)
        OBVIOUS
      <4> HIDE DEF h
      <4> QED
        BY <4>1
    <3> HIDE DEF h
    <3> QED
      BY <3>1 DEF NamedIn
  <2> HIDE DEF h, w
  <2>5. Connected(Node, {{h[x] : x \in p} : p \in E}, h[f[v]], h[f[w]])
    BY <2>1, <2>2, <2>3, ConnectedImage
  <2>6. h[f[v]] = LabelsIn(f)[v] /\ h[f[w]] = NameIn(f, f[w])
    BY <2>1 DEF h, LabelsIn
  <2>7. NameIn(f, f[w]) = w
    <3> DEFINE x == NameIn(f, f[w])
    <3>1. x \in Node /\ f[x] = f[w] /\ x <= w
      BY <2>1, NameIs
    <3>2. g[x] = g[v]
      BY <1>1, <2>1, <3>1
    <3>3. w <= x
      BY <2>1, <3>1, <3>2, NameIs
    <3> QED
      BY <2>1, <3>1, <3>3, Constants DEF Node
  <2> QED
    BY <2>4, <2>5, <2>6, <2>7 DEF w
<1>6. NamedIn(g, MergedPairs(E, m)) = MergedPairs(NamedIn(f, E), LabelsIn(g))
  <2> DEFINE l == LabelsIn(g)
  <2>1. ASSUME NEW a \in V
        PROVE  /\ l[NameIn(f, a)] = NameIn(g, m[a])
               /\ g[NameIn(g, m[a])] = m[a]
    <3> DEFINE u == NameIn(f, a)
    <3>1. u \in Node /\ g[u] = m[a]
      BY <1>1, <1>4
    <3> HIDE DEF u
    <3>2. g[NameIn(g, g[u])] = g[u]
      BY <3>1, NameIs
    <3>3. l[u] = NameIn(g, g[u])
      BY <3>1 DEF LabelsIn
    <3> QED
      BY <3>1, <3>2, <3>3 DEF u
  <2> HIDE DEF l
  <2>2. ASSUME NEW p \in E
        PROVE  /\ {l[v] : v \in {NameIn(f, a) : a \in p}} = {NameIn(g, b) : b \in {m[a] : a \in p}}
               /\ (\E x, y \in {l[v] : v \in {NameIn(f, a) : a \in p}} : x # y)
                    <=> (\E x, y \in {m[a] : a \in p} : x # y)
    <3>1. p \subseteq V
      OBVIOUS
    <3>2. {l[v] : v \in {NameIn(f, a) : a \in p}} = {NameIn(g, b) : b \in {m[a] : a \in p}}
      BY <2>1, <3>1
    <3>3. \A a, b \in p : NameIn(g, m[a]) = NameIn(g, m[b]) <=> m[a] = m[b]
      BY <2>1, <3>1
    <3>4. (\E x, y \in {NameIn(g, b) : b \in {m[a] : a \in p}} : x # y)
            <=> (\E a, b \in p : NameIn(g, m[a]) # NameIn(g, m[b]))
      OBVIOUS
    <3>5. (\E x, y \in {m[a] : a \in p} : x # y) <=> (\E a, b \in p : m[a] # m[b])
      OBVIOUS
    <3> QED
      BY <3>2, <3>3, <3>4, <3>5
  <2>3. ASSUME NEW q \in NamedIn(g, MergedPairs(E, m))
        PROVE  q \in MergedPairs(NamedIn(f, E), l)
    <3>1. PICK p \in E : /\ q = {NameIn(g, b) : b \in {m[a] : a \in p}}
                         /\ \E x, y \in {m[a] : a \in p} : x # y
      BY <2>3 DEF NamedIn, MergedPairs
    <3> DEFINE t == {NameIn(f, a) : a \in p}
    <3>2. t \in NamedIn(f, E)
      BY DEF NamedIn
    <3>3. q = {l[v] : v \in t} /\ \E x, y \in {l[v] : v \in t} : x # y
      BY <2>2, <3>1
    <3> HIDE DEF t
    <3> QED
      BY <3>2, <3>3 DEF MergedPairs
  <2>4. ASSUME NEW q \in MergedPairs(NamedIn(f, E), l)
        PROVE  q \in NamedIn(g, MergedPairs(E, m))
    <3>1. PICK t \in NamedIn(f, E) : q = {l[v] : v \in t} /\ \E x, y \in q : x # y
      BY <2>4 DEF MergedPairs
    <3>2. PICK p \in E : t = {NameIn(f, a) : a \in p}
      BY DEF NamedIn
    <3> DEFINE z == {m[a] : a \in p}
    <3>3. q = {NameIn(g, b) : b \in z} /\ \E x, y \in z : x # y
      BY <2>2, <3>1, <3>2
    <3>4. z \in MergedPairs(E, m)
      BY <3>3 DEF MergedPairs
    <3> HIDE DEF z
    <3> QED
      BY <3>3, <3>4 DEF NamedIn
  <2> QED
    BY <2>3, <2>4 DEF l
<1> QED
  BY <1>3, <1>5, <1>6

(* The edges at hand, while rank 0 unites.                                 *)
LEMMA RemainingSlices ==
  ASSUME Running, pc[0] = "relabel"
  PROVE  /\ \A r \in Rank : Remaining(r) = edges_slice_[r] /\ edges_slice_[r] \in Seq(Edge(Vertices))
         /\ DrawnPairs \subseteq RemainingPairs
         /\ \A p \in RemainingPairs : p \subseteq Vertices
         /\ RemainingPairs # {}
<1>1. /\ 0 \in Rank /\ \A r \in Rank : r # 0 => r \in Slave
      /\ \A r \in Slave : r \in Rank /\ pc[r] = "map" /\ r # 0
  BY Constants, SlavesWait
<1>2. \A r \in Rank : Remaining(r) = edges_slice_[r]
  BY <1>1 DEF Remaining
<1>3. ASSUME NEW r \in Rank PROVE edges_slice_[r] \in Seq(Edge(Vertices))
  <2>1. edges_slice_[r] \in Seq(Edge(Ends(r)))
    BY DEF Running, Numbering, SliceEnds
  <2>2. Ends(r) = Vertices
    <3>1. CASE r = 0
      BY <3>1 DEF Ends, Vertices
    <3>2. CASE r # 0
      <4>1. r \in Slave /\ pc[r] = "map" /\ ~ MapHeld
        BY <1>1, <3>2 DEF MapHeld
      <4>2. DOMAIN vertex_map[r] = Numbers(vertex_count_[r]) /\ vertex_count_[r] = vertex_count_[0]
        BY <4>1 DEF Running, Numbering, SlaveNumbers
      <4> QED
        BY <4>1, <4>2 DEF Ends, Vertices
    <3> QED
      BY <3>1, <3>2
  <2> QED
    BY <2>1, <2>2
<1>4. DrawnPairs \subseteq RemainingPairs
  <2> SUFFICES ASSUME NEW r \in Rank, NEW e \in samples[r]
               PROVE  Pair(e) \in RemainingPairs
    BY DEF DrawnPairs, DrawnEdges
  <2>1. pc[r] \in {"relabel", "map"}
    BY <1>1
  <2>2. e \in Range(edges_slice_[r])
    BY <2>1 DEF Running, Drawn
  <2>3. Pair(e) \in Pairs(edges_slice_[r])
    BY <2>2 DEF Range, Pairs
  <2> QED
    BY <1>2, <2>3 DEF RemainingPairs
<1>5. ASSUME NEW r \in Rank, NEW p \in Pairs(edges_slice_[r]) PROVE p \subseteq Vertices
  <2>1. PICK k \in DOMAIN edges_slice_[r] : p = Pair(edges_slice_[r][k])
    BY <1>5 DEF Pairs
  <2>2. edges_slice_[r][k] \in Edge(Vertices)
    BY <1>3
  <2> QED
    BY <2>1, <2>2 DEF Edge, Pair
<1>6. RemainingPairs # {}
  <2> DEFINE n == Counted(0)
             f == [s \in Rank |-> local_edges[s][n]]
  <2>1. ASSUME NEW s \in Rank
        PROVE  f[s] = Len(edges_slice_[s]) /\ f[s] \in Nat
    <3>1. Counted(s) = n
      <4>1. CASE s # 0
        <5>1. s \in Slave /\ Agrees(s)
          BY <1>1, <4>1 DEF Running
        <5> QED
          BY <5>1 DEF Agrees, Summing, Ending, Sampling, Renaming
      <4> QED
        BY <4>1
    <3>2. local_edges[s][Counted(s)] = Len(edges_slice_[s])
      BY <1>1 DEF Running, Rounds
    <3> QED
      BY <1>3, <3>1, <3>2
  <2>2. SumOver(f, Rank) > 0
    BY <1>1 DEF Running, Rounds, InRound, TotalOf
  <2> HIDE DEF f, n
  <2>3. PICK s \in Rank : f[s] > 0
    BY <2>1, <2>2, Constants, SumType
  <2>4. 1 \in DOMAIN edges_slice_[s]
    BY <1>3, <2>1, <2>3
  <2>5. Pair(edges_slice_[s][1]) \in Pairs(edges_slice_[s])
    BY <2>4 DEF Pairs
  <2> QED
    BY <1>2, <2>5 DEF RemainingPairs
<1> QED
  BY <1>2, <1>3, <1>4, <1>5, <1>6 DEF RemainingPairs
(* Nobody is left behind with edges when a rank has found that none remain. *)
LEMMA NoneRemain ==
  Running => \A r \in Rank : pc[r] = "done" => \A s \in Rank : Remaining(s) = <<>>
<1> SUFFICES ASSUME Running, NEW r \in Rank, pc[r] = "done", NEW s \in Rank
             PROVE  Remaining(s) = <<>>
  OBVIOUS
<1>1. /\ 0 \in Rank /\ \A q \in Rank : q # 0 => q \in Slave /\ Agrees(q)
      /\ \A q \in Rank : Counted(q) \in Nat /\ Counted(r) <= Counted(q)
      /\ \A q \in Rank : edges_slice_[q] \in Seq(Edge(Ends(q)))
  BY Constants DEF Running, Types, Counted, Rounds, Numbering, SliceEnds
<1>2. Counted(r) = Counted(0) /\ pc[0] \in {"sum", "done"}
  <2>1. CASE r # 0
    BY <1>1, <2>1 DEF Agrees, Summing, Ending, Sampling, Renaming
  <2>2. CASE r = 0
    BY <2>2
  <2> QED
    BY <2>1, <2>2
<1>3. ASSUME NEW q \in Rank
      PROVE  Counted(q) = Counted(r) /\ pc[q] \notin {"edges", "vertex_count", "map"}
  <2>1. CASE q # 0
    <3>1. Agrees(q) /\ Counted(q) \in Nat /\ Counted(r) \in Nat /\ Counted(r) <= Counted(q)
      BY <1>1, <2>1
    <3>2. CASE Summing(q) \/ Ending(q)
      BY <1>2, <3>2 DEF Summing, Ending
    <3>3. CASE Renaming(q)
      BY <1>2, <3>1, <3>3 DEF Renaming
    <3> QED
      BY <1>2, <3>1, <3>2, <3>3 DEF Agrees, Sampling
  <2>2. CASE q = 0
    BY <1>2, <2>2
  <2> QED
    BY <2>1, <2>2
<1> DEFINE f == [q \in Rank |-> local_edges[q][Counted(r)]]
<1>4. ASSUME NEW q \in Rank
      PROVE  f[q] = Len(edges_slice_[q]) /\ f[q] \in Nat
  <2>1. local_edges[q][Counted(q)] = Len(edges_slice_[q])
    BY <1>3 DEF Running, Rounds
  <2> QED
    BY <1>1, <1>3, <2>1
<1>5. ~ (SumOver(f, Rank) > 0)
  BY DEF Running, Rounds, TotalOf
<1>6. f[s] = Len(edges_slice_[s])
  BY <1>4
<1> HIDE DEF f
<1>7. f[s] = 0
  <2>1. SumOver(f, Rank) > 0 <=> \E q \in Rank : f[q] > 0
    BY <1>4, Constants, SumType
  <2>2. ~ (f[s] > 0) /\ f[s] \in Nat
    BY <1>4, <1>5, <2>1
  <2> QED
    BY <2>2
<1>8. edges_slice_[s] = <<>>
  <2>1. edges_slice_[s] \in Seq(Edge(Ends(s))) /\ Len(edges_slice_[s]) = 0
    BY <1>1, <1>6, <1>7
  <2>2. <<>> \in Seq(Edge(Ends(s))) /\ Len(<<>>) = 0
    OBVIOUS
  <2> QED
    BY <2>1, <2>2, SequencesEqual
<1> QED
  BY <1>3, <1>8 DEF Remaining

(* What a rank that has not renamed its edges will make of them stays.     *)
LEMMA SlaveRemaining ==
  ASSUME Running, NEW r \in Slave, SlaveStep(r), NEW s \in Rank
  PROVE  Remaining(s)' = Remaining(s)
<1>1. /\ Domains /\ r \in Rank /\ r # 0 /\ 0 \in Rank
      /\ \A q \in Rank : q # r => Same(q)
  BY Constants, RunningDomains, SlaveLocal
<1>2. pc'[0] = pc[0] /\ vertex_map'[0] = vertex_map[0]
  BY <1>1 DEF Same
<1>3. CASE s # r
  BY <1>1, <1>2, <1>3 DEF Same, Remaining
<1>4. CASE s = r
  <2> USE <1>1, <1>2, <1>4 DEF Goto, Domains, graphVars
  <2>1. CASE CountEdges(r)
    BY <2>1 DEF CountEdges, Remaining
  <2>2. CASE WhileEdges(r)
    BY <2>2 DEF WhileEdges, Remaining
  <2>3. CASE SlaveAvailable(r)
    BY <2>3 DEF SlaveAvailable, Remaining
  <2>4. CASE SlaveShare(r)
    BY <2>4 DEF SlaveShare, Remaining
  <2>5. CASE SlaveSamples(r)
    <3>1. /\ pc[r] = "samples" /\ pc'[r] = "map" /\ edges_slice_'[r] = edges_slice_[r]
      BY <2>5 DEF SlaveSamples
    <3>2. pc[0] = "samples"
      BY <3>1 DEF Running, Agrees, Summing, Ending, Sampling, Renaming
    <3> QED
      BY <3>1, <3>2 DEF Remaining
  <2>6. CASE SlaveMap(r)
    <3>1. /\ pc[r] = "map" /\ pc'[r] = "vertex_count" /\ down[r] # <<>>
          /\ edges_slice_'[r] = applyMapping(edges_slice_[r], Head(down[r]).data)
      BY <2>6 DEF SlaveMap, TakeDown
    <3>2. Agrees(r)
      BY DEF Running
    <3>3. Renaming(r) /\ Head(down[r]) = Message("map", vertex_map[0])
      BY <3>1, <3>2, Taken
    <3>4. /\ Head(down[r]).data = vertex_map[0]
          /\ pc[0] \notin {"samples", "unite", "relabel"}
      BY <3>3 DEF Renaming, Message
    <3> QED
      BY <3>1, <3>4 DEF Remaining
  <2>7. CASE SlaveVertexCount(r)
    BY <2>7 DEF SlaveVertexCount, Remaining
  <2> QED
    BY <2>1, <2>2, <2>3, <2>4, <2>5, <2>6, <2>7 DEF SlaveStep
<1> QED
  BY <1>3, <1>4

LEMMA MasterRemaining ==
  ASSUME Running, InPrefix, MasterStep, ~ Aborts, ~ MasterMapped, NEW s \in Rank
  PROVE  Remaining(s)' = Remaining(s)
<1>1. /\ Domains /\ 0 \in Rank
      /\ \A q \in Rank : q # 0 => q \in Slave /\ Same(q) /\ Agrees(q) /\ Agrees(q)'
  BY Constants, RunningDomains, MasterLocal, MasterAgrees DEF Running
<1> DEFINE Applying == pc[0] \notin {"samples", "unite", "relabel"}
<1>2. CASE s = 0
  <2>1. CASE MasterMap
    BY <1>1, <1>2, <2>1 DEF MasterMap, Goto, Domains, Remaining
  <2>2. CASE ~ MasterMap
    <3>1. pc[0] # "map" /\ pc'[0] # "map" /\ edges_slice_'[0] = edges_slice_[0]
      <4> USE <1>1 DEF Goto, graphVars, Domains
      <4>1. CASE CountEdges(0)
        BY <4>1 DEF CountEdges
      <4>2. CASE WhileEdges(0)
        BY <4>2 DEF WhileEdges
      <4>3. CASE MasterAvailable
        BY <4>3 DEF MasterAvailable, Aborts
      <4>4. CASE MasterShare
        BY <4>4 DEF MasterShare
      <4>5. CASE MasterSamples \/ MasterUnite \/ MasterUnited \/ MasterRelabel
        BY <4>5 DEF MasterSamples, MasterUnite, MasterUnited, MasterRelabel
      <4>6. CASE MasterVertexCount
        BY <4>6 DEF MasterVertexCount
      <4> QED
        BY <2>2, <4>1, <4>2, <4>3, <4>4, <4>5, <4>6 DEF MasterStep
    <3> QED
      BY <1>2, <3>1 DEF Remaining
  <2> QED
    BY <2>1, <2>2
<1>3. CASE s # 0 /\ pc[s] # "map"
  BY <1>1, <1>3 DEF Same, Remaining
<1>4. CASE s # 0 /\ pc[s] = "map"
  <2>1. /\ pc'[s] = "map" /\ edges_slice_'[s] = edges_slice_[s]
        /\ pc[0] \in {"samples", "unite", "relabel", "map", "vertex_count", "edges", "sum"}
        /\ pc'[0] \in {"samples", "unite", "relabel", "map", "vertex_count", "edges", "sum"}
    BY <1>1, <1>4 DEF Same, Agrees, Summing, Ending, Sampling, Renaming
  <2>2. CASE MasterSamples \/ MasterUnite \/ MasterUnited \/ MasterRelabel
    <3>1. /\ pc[0] \in {"samples", "unite", "relabel"}
          /\ pc'[0] \in {"samples", "unite", "relabel"}
      BY <1>1, <2>2 DEF MasterSamples, MasterUnite, MasterUnited, MasterRelabel, Goto, Domains
    <3> QED
      BY <2>1, <3>1 DEF Remaining
  <2>3. CASE MasterMap \/ MasterVertexCount \/ CountEdges(0)
    <3>1. /\ pc[0] \notin {"samples", "unite", "relabel"}
          /\ pc'[0] \notin {"samples", "unite", "relabel"}
          /\ vertex_map' = vertex_map
      BY <1>1, <2>3 DEF MasterMap, MasterVertexCount, CountEdges, Goto, Domains, graphVars
    <3> QED
      BY <1>4, <2>1, <3>1 DEF Remaining
  <2>4. CASE WhileEdges(0) \/ MasterAvailable \/ MasterShare
    BY <1>1, <2>1, <2>4 DEF WhileEdges, MasterAvailable, MasterShare, Goto, Domains
  <2> QED
    BY <2>2, <2>3, <2>4 DEF MasterStep
<1> QED
  BY <1>2, <1>3, <1>4

LEMMA MergedUnion ==
  ASSUME NEW R, NEW S, NEW l
  PROVE  MergedPairs(UNION {S[r] : r \in R}, l) = UNION {MergedPairs(S[r], l) : r \in R}
BY DEF MergedPairs

(* Rank 0 brings the result up to date: the vertices are merged.           *)
LEMMA MappedContracts ==
  ASSUME Running, InPrefix, Currents, MasterMapped
  PROVE  C!Contract
<1>1. /\ pc[0] = "relabel" /\ pc'[0] = "map" /\ pc' = [pc EXCEPT ![0] = "map"] /\ Mapped
      /\ vertex_map'[0] = relabelled /\ edges_slice_' = edges_slice_ /\ input' = input
      /\ connected_components' = [v \in Node |-> relabelled[connected_components[v]]]
      /\ Domains /\ 0 \in Rank
  BY Constants, RunningDomains DEF MasterMapped, Goto, Domains
<1>2. \A r \in Rank : pc'[r] = "map"
  <2>1. \A r \in Rank : r # 0 => pc[r] = "map"
    BY <1>1, SlavesWait, Constants
  <2> QED
    BY <1>1, <2>1 DEF Domains
<1> DEFINE W == Numbers(components_active)
<1>3. /\ relabelled \in [Vertices -> W]
      /\ \A a, b \in Vertices : relabelled[a] = relabelled[b] <=> Connected(Vertices, DrawnPairs, a, b)
  <2>1. /\ InOrder(vertex_count_[0], relabelled) /\ DOMAIN relabelled = Vertices
        /\ {relabelled[v] : v \in Vertices} = W
        /\ \A a, b \in Vertices :
              relabelled[a] = relabelled[b] <=> Connected(Vertices, DrawnPairs, a, b)
    BY <1>1, NumberingComplete
  <2>2. relabelled = [v \in Vertices |-> relabelled[v]]
    BY <2>1 DEF InOrder
  <2>3. \A v \in Vertices : relabelled[v] \in W
    BY <2>1
  <2> HIDE DEF W
  <2> QED
    BY <2>1, <2>2, <2>3
<1> HIDE DEF W
<1>4. /\ \A r \in Rank : Remaining(r) = edges_slice_[r] /\ edges_slice_[r] \in Seq(Edge(Vertices))
      /\ DrawnPairs \subseteq RemainingPairs
      /\ \A p \in RemainingPairs : p \subseteq Vertices
      /\ RemainingPairs # {}
  BY <1>1, RemainingSlices
<1>5. \A a, b \in Vertices :
         relabelled[a] = relabelled[b] => Connected(Vertices, RemainingPairs, a, b)
  BY <1>3, <1>4, ConnectedByMore
<1>6. RemainingPairs' = MergedPairs(RemainingPairs, relabelled)
  <2>1. ASSUME NEW r \in Rank
        PROVE  Pairs(Remaining(r)') = MergedPairs(Pairs(Remaining(r)), relabelled)
    <3>1. Remaining(r)' = applyMapping(edges_slice_[r], relabelled)
      BY <1>1, <1>2 DEF Remaining
    <3>2. Pairs(applyMapping(edges_slice_[r], relabelled))
            = MergedPairs(Pairs(edges_slice_[r]), relabelled)
      <4> DEFINE slice == edges_slice_[r]
                 m == relabelled
                 V == Vertices
      <4>1. slice \in Seq(Edge(V)) /\ m \in [V -> W]
        BY <1>3, <1>4
      <4> HIDE DEF slice, m, V
      <4>2. /\ applyMapping(slice, m) \in Seq(Edge(W))
            /\ Pairs(applyMapping(slice, m)) = MergedPairs(Pairs(slice), m)
        BY ONLY <4>1, Applied
      <4> QED
        BY <4>2 DEF slice, m
    <3> QED
      BY <1>4, <3>1, <3>2
  <2>2. RemainingPairs' = UNION {Pairs(Remaining(r)') : r \in Rank}
    BY DEF RemainingPairs, Pairs
  <2>3. RemainingPairs' = UNION {MergedPairs(Pairs(Remaining(r)), relabelled) : r \in Rank}
    BY <2>1, <2>2
  <2> DEFINE S == [r \in Rank |-> Pairs(Remaining(r))]
  <2>4. /\ RemainingPairs = UNION {S[r] : r \in Rank}
        /\ RemainingPairs' = UNION {MergedPairs(S[r], relabelled) : r \in Rank}
    <3>1. \A r \in Rank : S[r] = Pairs(Remaining(r))
      OBVIOUS
    <3> HIDE DEF S
    <3> QED
      BY <2>3, <3>1 DEF RemainingPairs
  <2> HIDE DEF S
  <2> QED
    BY <2>4, MergedUnion
<1> DEFINE f == connected_components
           g == connected_components'
<1>7. /\ NodeLabels = LabelsIn(f) /\ NodeLabels' = LabelsIn(g)
      /\ NamedPairs = NamedIn(f, RemainingPairs)
      /\ NamedPairs' = NamedIn(g, RemainingPairs')
  BY DEF NodeLabels, NamedPairs, LabelsIn, NamedIn, Name, NameIn
<1>8. /\ \A v \in Node : f[v] \in Vertices
      /\ \A a \in Vertices : \E v \in Node : f[v] = a
  BY DEF Currents
<1>9. g = [v \in Node |-> relabelled[f[v]]]
  BY <1>1
<1> HIDE DEF f, g
<1>10. /\ \A u, v \in Node : LabelsIn(f)[u] = LabelsIn(f)[v] => LabelsIn(g)[u] = LabelsIn(g)[v]
       /\ \A v \in Node : Connected(Node, NamedIn(f, RemainingPairs), LabelsIn(f)[v], LabelsIn(g)[v])
       /\ NamedIn(g, MergedPairs(RemainingPairs, relabelled))
            = MergedPairs(NamedIn(f, RemainingPairs), LabelsIn(g))
  <2> DEFINE V == Vertices
             m == relabelled
             E == RemainingPairs
  <2>1. /\ \A v \in Node : f[v] \in V
        /\ \A a \in V : \E v \in Node : f[v] = a
        /\ \A p \in E : p \subseteq V
        /\ m \in [V -> W]
        /\ \A a, b \in V : m[a] = m[b] => Connected(V, E, a, b)
        /\ g = [v \in Node |-> m[f[v]]]
    BY <1>3, <1>4, <1>5, <1>8, <1>9
  <2> HIDE DEF V, m, E
  <2>2. /\ \A u, v \in Node : LabelsIn(f)[u] = LabelsIn(f)[v] => LabelsIn(g)[u] = LabelsIn(g)[v]
        /\ \A v \in Node : Connected(Node, NamedIn(f, E), LabelsIn(f)[v], LabelsIn(g)[v])
        /\ NamedIn(g, MergedPairs(E, m)) = MergedPairs(NamedIn(f, E), LabelsIn(g))
    BY ONLY <2>1, Renumbered
  <2> QED
    BY <2>2 DEF m, E
<1>11. /\ LabelsIn(g) \in [Node -> Node]
       /\ \A v \in Node : LabelsIn(g)[LabelsIn(g)[v]] = LabelsIn(g)[v]
  BY NamesDiffer
<1>12. NamedPairs # {}
  BY <1>4 DEF NamedPairs
<1>13. C!Merges(NodeLabels')
  BY <1>7, <1>10, <1>11 DEF C!Merges, C!Connected, Connected, C!ClosedUnder, ClosedUnder
<1>14. NamedPairs' = C!MergedPairs(NamedPairs, NodeLabels')
  <2>1. NamedPairs' = MergedPairs(NamedPairs, NodeLabels')
    BY <1>6, <1>7, <1>10
  <2>2. \A E, l : C!MergedPairs(E, l) = MergedPairs(E, l)
    BY DEF C!MergedPairs, MergedPairs
  <2> QED
    BY <2>1, <2>2
<1>15. /\ NodeLabels' \in [Node -> Node]
       /\ pc[0] # "done" /\ pc'[0] # "done" /\ Pairs(input)' = Pairs(input)
  BY <1>1, <1>7, <1>11
<1> QED
  BY <1>12, <1>13, <1>14, <1>15 DEF C!Contract
LEMMA RemainingStays ==
  ASSUME UNCHANGED <<input, connected_components>>,
         \A s \in Rank : Remaining(s)' = Remaining(s)
  PROVE  /\ NamedPairs' = NamedPairs
         /\ NodeLabels' = NodeLabels
         /\ Pairs(input)' = Pairs(input)
<1>1. RemainingPairs' = UNION {Pairs(Remaining(s)') : s \in Rank}
  BY DEF RemainingPairs, Pairs
<1>2. RemainingPairs' = RemainingPairs
  BY <1>1 DEF RemainingPairs
<1> QED
  BY <1>2 DEF NamedPairs, NodeLabels, Name

(* Rank 0 finds that no edges remain.                                      *)
LEMMA EndReturns ==
  ASSUME Running, Running', InPrefix, WhileEdges(0), pc'[0] = "done"
  PROVE  C!Return
<1>1. /\ 0 \in Rank /\ Domains /\ pc[0] = "sum" /\ pc'[0] = "done"
      /\ UNCHANGED <<input, connected_components>>
      /\ MasterStep
  BY Constants, RunningDomains DEF WhileEdges, rootVars, MasterStep
<1>2. ~ Aborts /\ ~ MasterMapped
  BY <1>1 DEF Aborts, MasterAvailable, MasterMapped
<1>3. \A s \in Rank : Remaining(s)' = Remaining(s)
  BY <1>1, <1>2, MasterRemaining
<1>4. /\ NamedPairs' = NamedPairs /\ NodeLabels' = NodeLabels
      /\ Pairs(input)' = Pairs(input)
  BY <1>1, <1>3, RemainingStays
<1>5. (\A r \in Rank : pc[r] = "done" => \A s \in Rank : Remaining(s) = <<>>)'
  BY NoneRemain, PTL
<1>6. \A s \in Rank : Remaining(s) = <<>>
  BY <1>1, <1>3, <1>5
<1>7. NamedPairs = {}
  <2>1. \A s \in Rank : Pairs(Remaining(s)) = {}
    BY <1>6 DEF Pairs
  <2>2. RemainingPairs = {}
    BY <2>1 DEF RemainingPairs
  <2> QED
    BY <2>2 DEF NamedPairs
<1>8. (pc[0] = "done")' = TRUE /\ ~ (pc[0] = "done")
  BY <1>1
<1> QED
  BY <1>4, <1>7, <1>8 DEF C!Return

LEMMA StepRefines ==
  IInv /\ IInv' /\ [Next]_vars => [C!Next]_(C!vars)
<1> SUFFICES ASSUME IInv, IInv', [Next]_vars
             PROVE  C!Next \/ UNCHANGED C!vars
  OBVIOUS
<1> DEFINE Stays == /\ UNCHANGED <<input, connected_components>>
                    /\ \A s \in Rank : Remaining(s)' = Remaining(s)
                    /\ (pc[0] = "done")' = (pc[0] = "done")
<1>1. ASSUME Stays PROVE UNCHANGED C!vars
  <2>1. NamedPairs' = NamedPairs /\ NodeLabels' = NodeLabels /\ Pairs(input)' = Pairs(input)
    BY <1>1, RemainingStays
  <2> QED
    BY <1>1, <2>1 DEF C!vars
<1>2. CASE UNCHANGED vars
  <2>1. /\ UNCHANGED <<input, connected_components>> /\ pc' = pc
        /\ edges_slice_' = edges_slice_ /\ vertex_map' = vertex_map
    BY <1>2 DEF vars, graphVars, rootVars
  <2>2. \A s \in Rank : Remaining(s)' = Remaining(s)
    BY <2>1 DEF Remaining
  <2> QED
    BY <1>1, <2>1, <2>2
<1>3. CASE Next /\ ~ UNCHANGED vars
  <2>1. Running
    <3>1. ASSUME Aborted PROVE FALSE
      <4>1. \A r \in Rank : pc[r] = "aborted"
        BY <3>1 DEF Aborted
      <4>2. ~ MasterStep
        BY <4>1, Constants DEF MasterStep, CountEdges, WhileEdges, MasterAvailable, MasterShare,
           MasterSamples, MasterUnite, MasterUnited, MasterRelabel, MasterMapped, MasterMap,
           MasterVertexCount
      <4>3. ASSUME NEW r \in Slave PROVE ~ SlaveStep(r)
        BY <4>1, Constants DEF SlaveStep, CountEdges, WhileEdges, SlaveAvailable, SlaveShare,
           SlaveSamples, SlaveMap, SlaveVertexCount
      <4> QED
        BY <1>3, <4>2, <4>3 DEF Next, Terminated
    <3> QED
      BY <3>1 DEF IInv
  <2>2. /\ InPrefix /\ Currents /\ Domains /\ 0 \in Rank
        /\ \A s \in Rank : s # 0 => s \in Slave /\ Agrees(s)
    BY <2>1, RunningDomains, Constants DEF IInv, Running, Types, Aborted
  <2>3. ASSUME NEW r \in Slave, SlaveStep(r) PROVE Stays
    <3>1. /\ Same(0) /\ SameDomains /\ UNCHANGED rootVars
      BY <2>2, <2>3, SlaveLocal, Constants
    <3>2. \A s \in Rank : Remaining(s)' = Remaining(s)
      BY <2>1, <2>3, SlaveRemaining
    <3> QED
      BY <3>1, <3>2 DEF Same, SameDomains, rootVars
  <2>4. CASE Aborts
    <3>1. /\ pc[0] = "available" /\ pc' = [r \in Rank |-> "aborted"]
          /\ UNCHANGED <<input, connected_components>> /\ edges_slice_' = edges_slice_
      BY <2>4 DEF Aborts, MasterAvailable, graphVars, rootVars
    <3>2. \A s \in Rank : pc[s] # "map" /\ pc'[s] # "map"
      BY <2>2, <3>1 DEF Agrees, Summing, Ending, Sampling, Renaming
    <3>3. \A s \in Rank : Remaining(s)' = Remaining(s)
      BY <3>1, <3>2 DEF Remaining
    <3> QED
      BY <1>1, <2>2, <3>1, <3>3
  <2>5. CASE MasterStep /\ ~ Aborts
    <3>1. SameDomains /\ Running'
      BY <2>1, <2>2, <2>5, MasterLocal, MasterKeeps
    <3>2. CASE MasterMapped
      BY <2>1, <2>2, <3>2, MappedContracts DEF C!Next
    <3>3. CASE ~ MasterMapped
      <4>1. /\ \A s \in Rank : Remaining(s)' = Remaining(s)
            /\ UNCHANGED <<input, connected_components>>
        BY <2>1, <2>2, <2>5, <3>1, <3>3, MasterRemaining, MasterFrame DEF SameDomains
      <4>2. CASE (pc[0] = "done")' = (pc[0] = "done")
        BY <1>1, <4>1, <4>2
      <4>3. CASE (pc[0] = "done")' # (pc[0] = "done")
        <5>1. WhileEdges(0) /\ pc'[0] = "done"
          BY <2>2, <2>5, <3>3, <4>3 DEF MasterStep, CountEdges, WhileEdges, MasterAvailable,
             MasterShare, MasterSamples, MasterUnite, MasterUnited, MasterRelabel, MasterMap,
             MasterVertexCount, Aborts, Goto, Domains
        <5> QED
          BY <2>1, <2>2, <3>1, <5>1, EndReturns DEF C!Next
      <4> QED
        BY <4>2, <4>3
    <3> QED
      BY <3>2, <3>3
  <2> QED
    BY <1>1, <1>3, <2>3, <2>4, <2>5 DEF Next, Terminated
<1> QED
  BY <1>2, <1>3

(* At the start the slices are the edges of the file, in order.            *)
LEMMA SlicesCover ==
  ASSUME NEW file \in Seq(Edge(Node))
  PROVE  UNION {Pairs(loadSlice(file, r)) : r \in Rank} = Pairs(file)
<1> DEFINE L == Len(file)
           From(r) == slice_from(L, r, P)
           To(r) == slice_to(L, r, P)
<1>1. L \in Nat /\ P \in Nat /\ P # 0 /\ 0 \in Rank /\ Rank = 0 .. P-1
  BY Constants DEF Rank
<1>2. \A r \in Rank : /\ From(r) \in Nat /\ To(r) \in Nat /\ To(r) <= L
                      /\ From(0) = 0
                      /\ r = P-1 => To(r) = L
                      /\ r # P-1 => To(r) = From(r + 1)
  BY <1>1, SliceBounds
<1>3. \A r \in Rank : /\ loadSlice(file, r) \in Seq(Edge(Node))
                      /\ Len(loadSlice(file, r)) = To(r) - From(r)
                      /\ \A k \in 1 .. Len(loadSlice(file, r)) :
                            loadSlice(file, r)[k] = file[From(r) + k]
  BY SliceType
<1> HIDE DEF From, To
<1>4. ASSUME NEW r \in Rank, NEW p \in Pairs(loadSlice(file, r))
      PROVE  p \in Pairs(file)
  <2>1. PICK k \in DOMAIN loadSlice(file, r) : p = Pair(loadSlice(file, r)[k])
    BY DEF Pairs
  <2>2. k \in 1 .. Len(loadSlice(file, r))
    BY <1>3, <2>1
  <2>3. From(r) + k \in DOMAIN file /\ p = Pair(file[From(r) + k])
    BY <1>1, <1>2, <1>3, <2>1, <2>2
  <2> QED
    BY <2>3 DEF Pairs
<1>5. ASSUME NEW i \in DOMAIN file
      PROVE  \E r \in Rank : From(r) < i /\ i <= To(r)
  <2> DEFINE S == {r \in Rank : From(r) < i}
  <2>1. i \in 1 .. L
    OBVIOUS
  <2>2. 0 \in S /\ S \in SUBSET Int /\ IsFiniteSet(S)
    BY <1>1, <1>2, <2>1, Constants, FS_Subset
  <2>3. PICK m \in S : \A x \in S : x <= m
    BY <2>2, LargestMember
  <2>4. i <= To(m)
    <3>1. CASE m = P-1
      BY <1>1, <1>2, <2>1, <3>1
    <3>2. CASE m # P-1
      <4>1. m + 1 \in Rank /\ ~ (m + 1 <= m)
        BY <1>1, <3>2
      <4>2. ~ (From(m + 1) < i)
        BY <2>3, <4>1
      <4> QED
        BY <1>2, <2>1, <3>2, <4>1, <4>2
    <3> QED
      BY <3>1, <3>2
  <2> QED
    BY <2>4
<1>6. ASSUME NEW i \in DOMAIN file
      PROVE  \E r \in Rank : Pair(file[i]) \in Pairs(loadSlice(file, r))
  <2>1. PICK r \in Rank : From(r) < i /\ i <= To(r)
    BY <1>5
  <2>2. i - From(r) \in 1 .. Len(loadSlice(file, r)) /\ From(r) + (i - From(r)) = i
    BY <1>1, <1>2, <1>3, <2>1
  <2>3. i - From(r) \in DOMAIN loadSlice(file, r) /\ loadSlice(file, r)[i - From(r)] = file[i]
    BY <1>3, <2>2
  <2> QED
    BY <2>3 DEF Pairs
<1>7. \A p \in Pairs(file) : \E r \in Rank : p \in Pairs(loadSlice(file, r))
  BY <1>6 DEF Pairs
<1> QED
  BY <1>4, <1>7

LEMMA StartRefines ==
  Init => C!Init
<1> SUFFICES ASSUME Init PROVE C!Init
  OBVIOUS
<1>1. /\ input \in Seq(Edge(Node)) /\ 0 \in Rank
      /\ pc = [r \in Rank |-> "edges"]
      /\ edges_slice_ = [r \in Rank |-> loadSlice(input, r)]
      /\ connected_components = [v \in Node |-> v]
  BY ConstantAssumption, Constants DEF Init
<1>2. \A v \in Node : Name(v) = v
  <2> TAKE v \in Node
  <2>1. NameIn(connected_components, connected_components[v]) \in Node
        /\ connected_components[NameIn(connected_components, connected_components[v])]
             = connected_components[v]
    BY NameIs
  <2>2. connected_components[v] = v /\ Name(v) = NameIn(connected_components, v)
    BY <1>1 DEF Name, NameIn
  <2> QED
    BY <1>1, <2>1, <2>2
<1>3. NodeLabels = [v \in Node |-> v]
  BY <1>1, <1>2 DEF NodeLabels
<1>4. \A r \in Rank : Remaining(r) = loadSlice(input, r)
  BY <1>1 DEF Remaining
<1>5. RemainingPairs = Pairs(input)
  <2>1. RemainingPairs = UNION {Pairs(loadSlice(input, r)) : r \in Rank}
    BY <1>4 DEF RemainingPairs
  <2> QED
    BY <1>1, <2>1, SlicesCover
<1>6. Pairs(input) \subseteq SUBSET Node
  <2>1. \A k \in DOMAIN input : input[k] \in Edge(Node)
    BY <1>1
  <2> QED
    BY <2>1 DEF Pairs, Pair, Edge
<1>7. NamedPairs = Pairs(input)
  <2>1. \A p \in Pairs(input) : {Name(a) : a \in p} = p
    BY <1>2, <1>6
  <2> QED
    BY <1>5, <2>1 DEF NamedPairs
<1>8. (pc[0] = "done") = FALSE
  BY <1>1
<1> QED
  BY <1>3, <1>6, <1>7, <1>8 DEF C!Init

(* The program implements Contraction: however far a rank lags behind, and *)
(* whatever is drawn, each of its rounds is one of the merges that         *)
(* Contraction allows.                                                     *)
THEOREM ProgramContracts ==
  Spec => Contracts
BY StartRefines, StepRefines, Invariance, PTL DEF Spec, Contracts, C!Spec
-----------------------------------------------------------------------------
(***************************************************************************)
(* The result.                                                             *)
(***************************************************************************)
(* Contraction again, with what is proved of it. *)
CP == INSTANCE ContractionProofs WITH
        input <- Pairs(input), edges <- NamedPairs, labels <- NodeLabels, done <- pc[0] = "done"

LEMMA ComponentsMerged ==
  Spec => []CP!AllMerged
<1>1. C!Init => CP!Init
  BY DEF C!Init, CP!Init
<1>2. [C!Next]_(C!vars) => [CP!Next]_(CP!vars)
  <2>1. C!vars = CP!vars /\ C!vars' = CP!vars'
    BY DEF C!vars, CP!vars
  <2>2. C!Contract => CP!Contract
    BY DEF C!Contract, CP!Contract, C!Merges, CP!Merges, C!MergedPairs, CP!MergedPairs,
           C!Connected, CP!Connected, C!ClosedUnder, CP!ClosedUnder
  <2>3. C!Return => CP!Return
    BY DEF C!Return, CP!Return
  <2>4. C!Terminated => CP!Terminated
    BY <2>1 DEF C!Terminated, CP!Terminated
  <2> QED
    BY <2>1, <2>2, <2>3, <2>4 DEF C!Next, CP!Next
<1>3. CP!Spec => []CP!AllMerged
  BY CP!MergedWhenDone
<1> QED
  BY <1>1, <1>2, <1>3, ProgramContracts, PTL DEF Contracts, C!Spec, CP!Spec

(* A rank that leaves the loop before rank 0 does has the result, too.     *)
LEMMA ResultReturned ==
  IInv /\ CP!AllMerged => Correct
<1> SUFFICES ASSUME IInv, CP!AllMerged, NEW r \in Rank, pc[r] = "done"
             PROVE  /\ vertex_count_[r]
                         = Cardinality({Component(Node, Pairs(input), v) : v \in Node})
                    /\ connected_components = DenseMap(N, Pairs(input))
  BY DEF Correct
<1> DEFINE E == Pairs(input)
           cc == connected_components
<1>1. Running /\ Currents
  BY DEF IInv, Aborted
<1>2. /\ N \in Nat /\ 0 \in Rank /\ Node = Numbers(N) /\ IsFiniteSet(Node)
      /\ \A s \in Rank : s # 0 => s \in Slave
  <2>1. N \in Nat /\ Node = Numbers(N)
    BY Constants DEF Node, Numbers
  <2> QED
    BY <2>1, Constants, NumbersFinite
<1>3. \A s \in Rank : Remaining(s) = <<>>
  BY <1>1, NoneRemain
<1>4. NamedPairs = {}
  <2>1. \A s \in Rank : Pairs(Remaining(s)) = {}
    BY <1>3 DEF Pairs
  <2>2. RemainingPairs = {}
    BY <2>1 DEF RemainingPairs
  <2> QED
    BY <2>2 DEF NamedPairs
<1>5. \A p \in E : p \subseteq Node
  <2>1. input \in Seq(Edge(Node))
    BY <1>1, ConstantAssumption DEF Running, Types
  <2>2. \A k \in DOMAIN input : input[k] \in Edge(Node)
    BY <2>1
  <2> QED
    BY <2>2 DEF Pairs, Pair, Edge
<1>6. ASSUME NEW u \in Node, NEW v \in Node
      PROVE  cc[u] = cc[v] <=> Connected(Node, E, u, v)
  <2>1. NodeLabels[u] = NodeLabels[v] <=> CP!Connected(Node, E, u, v)
    BY <1>4 DEF CP!AllMerged
  <2>2. CP!Connected(Node, E, u, v) <=> Connected(Node, E, u, v)
    BY DEF CP!Connected, CP!ClosedUnder, Connected, ClosedUnder
  <2>3. NodeLabels = LabelsIn(cc)
    BY DEF NodeLabels, LabelsIn, Name, NameIn
  <2> QED
    BY <2>1, <2>2, <2>3, NamesDiffer
<1>7. InOrder(N, cc) /\ {cc[v] : v \in Node} = Vertices
  BY <1>1 DEF Currents
<1> HIDE DEF E, cc
<1>8. cc = DenseMap(N, E)
  <2>1. /\ InOrder(N, DenseMap(N, E))
        /\ \A u, v \in Numbers(N) :
              DenseMap(N, E)[u] = DenseMap(N, E)[v] <=> Connected(Numbers(N), E, u, v)
    BY <1>2, <1>5, DenseMapInOrder
  <2>2. \A u, v \in Numbers(N) : cc[u] = cc[v] <=> DenseMap(N, E)[u] = DenseMap(N, E)[v]
    BY <1>2, <1>6, <2>1
  <2> QED
    BY <1>2, <1>7, <2>1, <2>2, InOrderUnique
<1>9. Cardinality({Component(Node, E, v) : v \in Node}) = Cardinality(Vertices)
  <2> DEFINE g == [v \in Node |-> Component(Node, E, v)]
  <2>1. ASSUME NEW u \in Node, NEW v \in Node
        PROVE  cc[u] = cc[v] <=> g[u] = g[v]
    <3>1. Component(Node, E, u) = {w \in Node : cc[u] = cc[w]}
      BY <1>6 DEF Component
    <3>2. Component(Node, E, v) = {w \in Node : cc[v] = cc[w]}
      BY <1>6 DEF Component
    <3> QED
      BY <3>1, <3>2
  <2>2. {g[v] : v \in Node} = {Component(Node, E, v) : v \in Node}
    OBVIOUS
  <2> HIDE DEF g
  <2>3. Cardinality({cc[v] : v \in Node}) = Cardinality({g[v] : v \in Node})
    BY <1>2, <2>1, SameKernel
  <2> QED
    BY <1>7, <2>2, <2>3
<1>10. Cardinality(Vertices) = vertex_count_[0]
  BY <1>1, VerticesFinite
<1>11. vertex_count_[r] = vertex_count_[0]
  <2>1. CASE r # 0
    <3>1. r \in Slave
      BY <1>2, <2>1
    <3> QED
      BY <1>1, <3>1 DEF Running, Numbering, SlaveNumbers
  <2>2. CASE r = 0
    BY <2>2
  <2> QED
    BY <2>1, <2>2
<1> QED
  BY <1>8, <1>9, <1>10, <1>11 DEF E, cc

(* For every graph, every number of ranks and every sample, every rank     *)
(* returns the number of components in the file, and rank 0 a numbering of *)
(* them in the order of their smallest vertices.                           *)
THEOREM ProgramCorrect ==
  Spec => []Correct
BY Invariance, ComponentsMerged, ResultReturned, PTL

-----------------------------------------------------------------------------
(***************************************************************************)
(* The shares of the sample: for every number of ranks, threshold, target  *)
(* and width of the integers, what the three loops compute is the closed   *)
(* form, if the ranks with few edges fit into the sample.  Each loop turns *)
(* one vector into the next, rank by rank.                                 *)
(***************************************************************************)
Replaced(f, g, k) == [r \in Rank |-> IF r < k THEN f[r] ELSE g[r]]

SparseShares(a) == [r \in Rank |-> IF r \in Sparse(a) THEN a[r] ELSE 0]

(* All that the ranks below k have, and what the others are to send.       *)
Exhausted(a, k) == SumOver(Replaced(a, Proportional(a), k), Rank)

LEMMA RanksAre == P \in Nat /\ P # 0 /\ Rank = 0 .. P-1 /\ IsFiniteSet(Rank)
<1>1. P \in Nat /\ P # 0 /\ Rank = 0 .. P-1
  BY RankAssumption DEF Rank
<1>2. IsFiniteSet(0 .. P-1)
  BY <1>1, FS_Interval
<1> QED
  BY <1>1, <1>2

LEMMA ReplacedEnds ==
  ASSUME NEW f \in [Rank -> Nat], NEW g \in [Rank -> Nat]
  PROVE  Replaced(f, g, 0) = g /\ Replaced(f, g, P) = f
BY RanksAre DEF Replaced

LEMMA ReplacedType ==
  ASSUME NEW f \in [Rank -> Nat], NEW g \in [Rank -> Nat], NEW k \in Rank
  PROVE  /\ Replaced(f, g, k) \in [Rank -> Nat]
         /\ Replaced(f, g, k)[k] = g[k]
BY RanksAre DEF Replaced

LEMMA ReplacedOneMore ==
  ASSUME NEW f \in [Rank -> Nat], NEW g \in [Rank -> Nat], NEW k \in Rank
  PROVE  Replaced(f, g, k + 1) = [Replaced(f, g, k) EXCEPT ![k] = f[k]]
<1> DEFINE x == Replaced(f, g, k)
           y == Replaced(f, g, k + 1)
<1>1. /\ P \in Nat /\ Rank = 0 .. P-1 /\ k \in 0 .. P-1
      /\ \A r \in Rank : r \in Int /\ k \in Int
  BY RanksAre
<1>2. x \in [Rank -> Nat] /\ y \in [Rank -> Nat]
  BY DEF Replaced
<1>3. x[k] = g[k] /\ y[k] = f[k]
  BY <1>1 DEF Replaced
<1>4. \A r \in Rank : r # k => y[r] = x[r]
  BY <1>1 DEF Replaced
<1> HIDE DEF x, y
<1>5. y = [x EXCEPT ![k] = f[k]]
  BY <1>2, <1>3, <1>4
<1> QED
  BY <1>5 DEF x, y

LEMMA ReplacedSum ==
  ASSUME NEW f \in [Rank -> Nat], NEW g \in [Rank -> Nat], NEW k \in Rank
  PROVE  SumOver(Replaced(f, g, k + 1), Rank) + g[k] = SumOver(Replaced(f, g, k), Rank) + f[k]
<1> DEFINE x == Replaced(f, g, k)
           y == Replaced(f, g, k + 1)
<1>1. P \in Nat /\ Rank = 0 .. P-1 /\ k \in 0 .. P-1
  BY RanksAre
<1>2. /\ x \in [Rank -> Nat] /\ y \in [Rank -> Nat]
      /\ x[k] = g[k] /\ y[k] = f[k]
      /\ \A r \in Rank : r # k => y[r] = x[r]
  BY <1>1 DEF Replaced
<1> HIDE DEF x, y
<1>3. Below(y, P) + x[k] = Below(x, P) + y[k]
  BY <1>1, <1>2, SumChange
<1>4. SumOver(y, Rank) = Below(y, P) /\ SumOver(x, Rank) = Below(x, P)
  BY <1>1 DEF Below
<1>5. SumOver(y, Rank) + g[k] = SumOver(x, Rank) + f[k]
  BY <1>2, <1>3, <1>4
<1> QED
  BY <1>5 DEF x, y

LEMMA SumsOfRanks ==
  ASSUME NEW f \in [Rank -> Nat]
  PROVE  SumOver(f, Rank) \in Nat /\ SumOver(f, Rank) = Below(f, P)
BY RanksAre, SumNat DEF Below

(* What there is to share out. *)
LEMMA WantedType ==
  ASSUME NEW a \in [Rank -> Nat]
  PROVE  /\ Wanted(a) \in Nat
         /\ Wanted(a) <= SumOver(a, Rank)
         /\ SparseShares(a) \in [Rank -> Nat]
         /\ SumOver(SparseShares(a), Rank) = SumOver(a, Sparse(a))
         /\ SumOver(a, Sparse(a)) \in Nat
<1>1. SumOver(a, Rank) \in Nat
  BY SumsOfRanks
<1>2. SampleTarget \in Nat
  BY ShareAssumption
<1>3. Wanted(a) \in Nat /\ Wanted(a) <= SumOver(a, Rank)
  BY <1>1, <1>2 DEF Wanted, Least
<1>4. SparseShares(a) \in [Rank -> Nat]
  BY DEF SparseShares
<1>5. SumOver(SparseShares(a), Rank) = SumOver(a, Sparse(a))
  <2>1. Sparse(a) \in SUBSET Rank
    BY DEF Sparse
  <2> QED
    BY <2>1, SumOfSome DEF SparseShares
<1> QED
  BY <1>3, <1>4, <1>5, SumsOfRanks

(* A fraction of a number, rounded down. *)
LEMMA Fraction ==
  ASSUME NEW c \in Nat, NEW t \in Nat, t # 0, c <= t, NEW x \in Nat
  PROVE  /\ (c * x) \div t \in Nat
         /\ t * ((c * x) \div t) <= c * x
         /\ (c * x) \div t <= x
<1> DEFINE y == c * x
           q == y \div t
<1>1. y \in Nat /\ y <= t * x
  <2>1. t - c \in Nat /\ t = c + (t - c)
    OBVIOUS
  <2>2. t * x = c * x + (t - c) * x /\ c * x \in Nat /\ (t - c) * x \in Nat
    BY <2>1
  <2> QED
    BY <2>2
<1> HIDE DEF y
<1>2. q \in Nat /\ t * q <= y
  BY <1>1
<1> HIDE DEF q
<1>3. q <= x
  <2> SUFFICES ASSUME q > x PROVE FALSE
    BY <1>2
  <2>1. q - (x + 1) \in Nat /\ q = (x + 1) + (q - (x + 1))
    BY <1>2
  <2>2. t * q = t * (x + 1) + t * (q - (x + 1)) /\ t * (q - (x + 1)) \in Nat
    BY <2>1
  <2>3. t * (x + 1) = t * x + t /\ t * x \in Nat
    OBVIOUS
  <2> QED
    BY <1>1, <1>2, <2>2, <2>3
<1> QED
  BY <1>2, <1>3 DEF q, y

(* The second loop gives no rank more than it has, and no more than is     *)
(* wanted: what the divisions lose is left over.                           *)
LEMMA Proportions ==
  ASSUME NEW a \in [Rank -> Nat], SumOver(a, Rank) > 0, SparseFit(a)
  PROVE  /\ Proportional(a) \in [Rank -> Nat]
         /\ \A r \in Rank : /\ Proportional(a)[r] <= a[r]
                            /\ SparseShares(a)[r] <= Proportional(a)[r]
         /\ SumOver(Proportional(a), Rank) <= Wanted(a)
<1> DEFINE t == SumOver(a, Rank)
           rest == Wanted(a) - SumOver(a, Sparse(a))
           q == [r \in Rank |-> IF r \in Sparse(a) THEN 0 ELSE (rest * a[r]) \div t]
           p == Proportional(a)
           s == SparseShares(a)
<1>1. /\ t \in Nat /\ t # 0 /\ rest \in Nat /\ rest <= t
      /\ Wanted(a) \in Nat /\ s \in [Rank -> Nat]
      /\ SumOver(s, Rank) = SumOver(a, Sparse(a))
      /\ SumOver(a, Sparse(a)) \in Nat
  <2>1. SumOver(a, Sparse(a)) <= Wanted(a)
    BY DEF SparseFit
  <2> HIDE DEF s
  <2> QED
    BY <2>1, WantedType, SumsOfRanks DEF s
<1>2. ASSUME NEW r \in Rank
      PROVE  /\ q[r] \in Nat /\ t * q[r] <= rest * a[r] /\ q[r] <= a[r]
             /\ p[r] = s[r] + q[r]
             /\ p[r] <= a[r]
  <2> DEFINE x == (rest * a[r]) \div t
  <2>1. a[r] \in Nat /\ rest * a[r] \in Nat /\ t * 0 = 0
    BY <1>1
  <2>2. x \in Nat /\ t * x <= rest * a[r] /\ x <= a[r]
    <3> HIDE DEF t, rest
    <3> QED
      BY <1>1, <2>1, Fraction
  <2>3. CASE r \in Sparse(a)
    <3>1. q[r] = 0 /\ p[r] = a[r] /\ s[r] = a[r]
      BY <2>3 DEF Proportional, SparseShares
    <3> HIDE DEF q, p, s, t, rest
    <3> QED
      BY <2>1, <3>1
  <2>4. CASE r \notin Sparse(a)
    <3>1. q[r] = x /\ p[r] = x /\ s[r] = 0
      BY <2>4 DEF Proportional, SparseShares
    <3> HIDE DEF q, p, s, t, rest, x
    <3> QED
      BY <2>1, <2>2, <3>1
  <2> QED
    BY <2>3, <2>4
<1>3. p = [r \in Rank |-> p[r]]
  BY DEF Proportional
<1>4. q = [r \in Rank |-> q[r]]
  OBVIOUS
<1> HIDE DEF q, p, s, rest, t
<1>5. q \in [Rank -> Nat] /\ p \in [Rank -> Nat]
  <2>1. \A r \in Rank : q[r] \in Nat /\ p[r] \in Nat
    BY <1>1, <1>2
  <2> QED
    BY <1>3, <1>4, <2>1
<1>6. \A r \in Rank : p[r] <= a[r] /\ s[r] <= p[r]
  BY <1>1, <1>2, <1>5
<1>7. P \in Nat /\ Rank = 0 .. P-1
  BY RanksAre
<1>8. Below(p, P) = Below(s, P) + Below(q, P)
  BY <1>1, <1>2, <1>5, <1>7, SumPlus
<1>9. t * Below(q, P) <= rest * Below(a, P)
  BY <1>1, <1>2, <1>5, <1>7, SumProportion
<1>10. /\ Below(a, P) = t /\ Below(p, P) = SumOver(p, Rank)
       /\ Below(s, P) = SumOver(s, Rank) /\ Below(q, P) \in Nat
  BY <1>1, <1>5, SumsOfRanks DEF t
<1>11. Below(q, P) <= rest
  <2> DEFINE x == Below(q, P)
  <2>1. x \in Nat /\ t * x <= rest * t
    BY <1>9, <1>10
  <2> HIDE DEF x
  <2> SUFFICES ASSUME x > rest PROVE FALSE
    BY <1>1, <2>1 DEF x
  <2>2. x - (rest + 1) \in Nat /\ x = (rest + 1) + (x - (rest + 1))
    BY <1>1, <2>1
  <2>3. t * x = t * (rest + 1) + t * (x - (rest + 1)) /\ t * (x - (rest + 1)) \in Nat
    BY <1>1, <2>2
  <2>4. t * (rest + 1) = rest * t + t /\ rest * t \in Nat
    BY <1>1
  <2> QED
    BY <1>1, <2>1, <2>3, <2>4
<1>12. SumOver(p, Rank) <= SumOver(s, Rank) + rest
  BY <1>1, <1>8, <1>10, <1>11
<1>13. SumOver(s, Rank) + rest = Wanted(a)
  BY <1>1 DEF rest
<1> QED
  BY <1>5, <1>6, <1>12, <1>13 DEF p, s

(* A vector of available edges whose sparse ranks fit into the sample.     *)
Fits(a) == a \in [Rank -> Nat] /\ SumOver(a, Rank) > 0 /\ SparseFit(a)

(* What the ranks have given, when those below k send all they have.       *)
LEMMA ExhaustedSums ==
  ASSUME NEW a, Fits(a)
  PROVE  /\ \A k \in 0 .. P : Exhausted(a, k) \in Nat
         /\ Exhausted(a, 0) <= Wanted(a)
         /\ Exhausted(a, P) = SumOver(a, Rank)
         /\ \A k \in Rank :
              /\ Exhausted(a, k + 1) + Proportional(a)[k] = Exhausted(a, k) + a[k]
              /\ Exhausted(a, k) <= Exhausted(a, k + 1)
<1> DEFINE p == Proportional(a)
<1>1. /\ a \in [Rank -> Nat] /\ p \in [Rank -> Nat]
      /\ SumOver(p, Rank) <= Wanted(a)
      /\ \A r \in Rank : p[r] <= a[r]
  BY Proportions DEF Fits
<1>2. \A k : Exhausted(a, k) = SumOver(Replaced(a, p, k), Rank)
  BY DEF Exhausted
<1> HIDE DEF p
<1>3. ASSUME NEW k PROVE Exhausted(a, k) \in Nat
  <2>1. Replaced(a, p, k) \in [Rank -> Nat]
    BY <1>1 DEF Replaced
  <2> QED
    BY <1>2, <2>1, SumsOfRanks
<1>4. Exhausted(a, 0) <= Wanted(a) /\ Exhausted(a, P) = SumOver(a, Rank)
  <2>1. Replaced(a, p, 0) = p /\ Replaced(a, p, P) = a
    BY <1>1, ReplacedEnds
  <2> QED
    BY <1>1, <1>2, <2>1
<1>5. ASSUME NEW k \in Rank
      PROVE  /\ Exhausted(a, k + 1) + p[k] = Exhausted(a, k) + a[k]
             /\ Exhausted(a, k) <= Exhausted(a, k + 1)
  <2>1. Exhausted(a, k + 1) + p[k] = Exhausted(a, k) + a[k]
    <3>1. SumOver(Replaced(a, p, k + 1), Rank) + p[k] = SumOver(Replaced(a, p, k), Rank) + a[k]
      BY <1>1, <1>5, ReplacedSum
    <3> QED
      BY <1>2, <3>1
  <2>2. p[k] \in Nat /\ a[k] \in Nat /\ p[k] <= a[k]
    BY <1>1
  <2> QED
    BY <1>3, <2>1, <2>2
<1> QED
  BY <1>3, <1>4, <1>5 DEF p

(* What the last loop gives, rank by rank. *)
LEMMA Spilled ==
  ASSUME NEW a, Fits(a), NEW r \in Rank
  PROVE  edgesToSamplePerProcessor(a)[r] =
           IF Exhausted(a, r) < Wanted(a)
           THEN Least(a[r], Proportional(a)[r] + (Wanted(a) - Exhausted(a, r)))
           ELSE Proportional(a)[r]
<1> DEFINE x == SumOver([s \in Rank |-> IF s < r THEN a[s] ELSE Proportional(a)[s]], Rank)
<1>1. x = Exhausted(a, r)
  BY DEF Exhausted, Replaced
<1>2. edgesToSamplePerProcessor(a)[r] =
        IF Wanted(a) - x > 0 THEN Least(a[r], Proportional(a)[r] + (Wanted(a) - x))
                             ELSE Proportional(a)[r]
  BY DEF edgesToSamplePerProcessor, Spillover
<1> HIDE DEF x
<1>3. Wanted(a) \in Int /\ x \in Int
  <2>1. r \in 0 .. P
    BY RanksAre
  <2>2. Exhausted(a, r) \in Nat /\ Wanted(a) \in Nat
    BY <2>1, ExhaustedSums, WantedType DEF Fits
  <2> QED
    BY <1>1, <2>2
<1> QED
  BY <1>1, <1>2, <1>3

(* The last loop gives every rank no less than it had and no more than it  *)
(* can send, ...                                                           *)
LEMMA SpillAdds ==
  ASSUME NEW a, Fits(a)
  PROVE  /\ edgesToSamplePerProcessor(a) \in [Rank -> Nat]
         /\ \A r \in Rank : /\ Proportional(a)[r] <= edgesToSamplePerProcessor(a)[r]
                            /\ edgesToSamplePerProcessor(a)[r] <= a[r]
<1> DEFINE f == edgesToSamplePerProcessor(a)
           p == Proportional(a)
<1>1. ASSUME NEW r \in Rank
      PROVE  f[r] \in Nat /\ p[r] <= f[r] /\ f[r] <= a[r]
  <2>1. a[r] \in Nat /\ p[r] \in Nat /\ p[r] <= a[r]
    BY Proportions DEF Fits
  <2>2. r \in 0 .. P
    BY RanksAre
  <2>3. Exhausted(a, r) \in Nat /\ Wanted(a) \in Nat
    BY <2>2, ExhaustedSums, WantedType DEF Fits
  <2>4. f[r] = IF Exhausted(a, r) < Wanted(a)
               THEN Least(a[r], p[r] + (Wanted(a) - Exhausted(a, r))) ELSE p[r]
    BY Spilled
  <2> HIDE DEF f, p
  <2> QED
    BY <2>1, <2>3, <2>4 DEF Least
<1>2. f = [r \in Rank |-> f[r]]
  BY DEF edgesToSamplePerProcessor, Spillover
<1> HIDE DEF f
<1>3. f \in [Rank -> Nat]
  BY <1>1, <1>2
<1> QED
  BY <1>1, <1>3 DEF f

(* ... and the shares grow with what the ranks below k have, up to what is *)
(* wanted.                                                                 *)
LEMMA FinalSums ==
  ASSUME NEW a, Fits(a)
  PROVE  /\ \A k \in 0 .. P :
               SumOver(Replaced(edgesToSamplePerProcessor(a), Proportional(a), k), Rank)
                 = Least(Wanted(a), Exhausted(a, k))
         /\ SumOver(edgesToSamplePerProcessor(a), Rank) = Wanted(a)
<1> DEFINE f == edgesToSamplePerProcessor(a)
           p == Proportional(a)
           W == Wanted(a)
           S == {k \in 0 .. P : SumOver(Replaced(f, p, k), Rank) = Least(W, Exhausted(a, k))}
<1>1. /\ f \in [Rank -> Nat] /\ p \in [Rank -> Nat] /\ a \in [Rank -> Nat] /\ W \in Nat
      /\ P \in Nat /\ Rank = 0 .. P-1
  BY SpillAdds, Proportions, WantedType, RanksAre DEF Fits
<1>2. /\ \A k \in 0 .. P : Exhausted(a, k) \in Nat
      /\ \A k \in Rank : /\ Exhausted(a, k + 1) + p[k] = Exhausted(a, k) + a[k]
                         /\ Exhausted(a, k) <= Exhausted(a, k + 1)
  BY ExhaustedSums
<1>3. \A r \in Rank : f[r] = IF Exhausted(a, r) < W
                             THEN Least(a[r], p[r] + (W - Exhausted(a, r))) ELSE p[r]
  BY Spilled
<1>4. 0 \in S
  <2>1. Replaced(f, p, 0) = p /\ Replaced(a, p, 0) = p
    BY <1>1, ReplacedEnds
  <2>2. Exhausted(a, 0) = SumOver(p, Rank) /\ Exhausted(a, 0) <= W /\ Exhausted(a, 0) \in Nat
    BY <1>1, <1>2, <2>1, ExhaustedSums DEF Exhausted
  <2> HIDE DEF f, p, W
  <2> QED
    BY <1>1, <2>1, <2>2 DEF Least
<1> HIDE DEF f, p, W
<1>5. ASSUME NEW k \in 0 .. P-1, k \in S
      PROVE  k + 1 \in S
  <2>1. k \in Rank /\ k \in 0 .. P /\ k + 1 \in 0 .. P
    BY <1>1
  <2>2. SumOver(Replaced(f, p, k + 1), Rank) + p[k] = SumOver(Replaced(f, p, k), Rank) + f[k]
    BY <1>1, <2>1, ReplacedSum
  <2>3. SumOver(Replaced(f, p, k), Rank) = Least(W, Exhausted(a, k))
    BY <1>5
  <2>4. /\ Exhausted(a, k) \in Nat /\ Exhausted(a, k + 1) \in Nat
        /\ Exhausted(a, k + 1) + p[k] = Exhausted(a, k) + a[k]
        /\ Exhausted(a, k) <= Exhausted(a, k + 1)
        /\ f[k] \in Nat /\ p[k] \in Nat /\ a[k] \in Nat
    BY <1>1, <1>2, <2>1
  <2>5. f[k] = IF Exhausted(a, k) < W THEN Least(a[k], p[k] + (W - Exhausted(a, k))) ELSE p[k]
    BY <1>3, <2>1
  <2>6. SumOver(Replaced(f, p, k + 1), Rank) \in Int
    <3>1. Replaced(f, p, k + 1) \in [Rank -> Nat]
      BY <1>1 DEF Replaced
    <3> QED
      BY <3>1, SumsOfRanks
  <2>7. SumOver(Replaced(f, p, k + 1), Rank) = Least(W, Exhausted(a, k + 1))
    BY <1>1, <2>2, <2>3, <2>4, <2>5, <2>6 DEF Least
  <2> QED
    BY <2>1, <2>7
<1>6. \A k \in 0 .. P : SumOver(Replaced(f, p, k), Rank) = Least(W, Exhausted(a, k))
  <2> HIDE DEF S
  <2>1. \A k \in 0 .. P : k \in S
    BY <1>1, <1>4, <1>5, CountingUp
  <2> QED
    BY <2>1 DEF S
<1>7. SumOver(f, Rank) = W
  <2>1. Replaced(f, p, P) = f
    BY <1>1, ReplacedEnds
  <2>2. Exhausted(a, P) = SumOver(a, Rank) /\ W <= SumOver(a, Rank) /\ SumOver(a, Rank) \in Nat
    BY <1>1, ExhaustedSums, WantedType, SumsOfRanks DEF W
  <2>3. SumOver(f, Rank) = Least(W, SumOver(a, Rank))
    BY <1>1, <1>6, <2>1, <2>2
  <2> QED
    BY <1>1, <2>2, <2>3 DEF Least
<1> QED
  BY <1>6, <1>7 DEF f, p, W

(* Once the ranks below k have given all that is wanted, the rest is done. *)
LEMMA AllSpilled ==
  ASSUME NEW a, Fits(a), NEW k \in 0 .. P, Exhausted(a, k) >= Wanted(a)
  PROVE  Replaced(edgesToSamplePerProcessor(a), Proportional(a), k)
           = edgesToSamplePerProcessor(a)
<1> DEFINE f == edgesToSamplePerProcessor(a)
           p == Proportional(a)
           T == {j \in 0 .. P : j >= k => Exhausted(a, j) >= Wanted(a)}
<1>1. /\ f \in [Rank -> Nat] /\ p \in [Rank -> Nat] /\ Wanted(a) \in Nat
      /\ P \in Nat /\ Rank = 0 .. P-1
  BY SpillAdds, Proportions, WantedType, RanksAre DEF Fits
<1>2. /\ \A j \in 0 .. P : Exhausted(a, j) \in Nat
      /\ \A j \in Rank : Exhausted(a, j) <= Exhausted(a, j + 1)
  BY ExhaustedSums
<1>3. 0 \in T
  BY <1>1
<1>4. ASSUME NEW j \in 0 .. P-1, j \in T
      PROVE  j + 1 \in T
  <2>1. j \in 0 .. P /\ j + 1 \in 0 .. P /\ j \in Rank
    BY <1>1
  <2>2. /\ Exhausted(a, j) \in Nat /\ Exhausted(a, j + 1) \in Nat
        /\ Exhausted(a, j) <= Exhausted(a, j + 1)
    BY <1>2, <2>1
  <2>3. CASE j >= k
    BY <1>1, <1>4, <2>1, <2>2, <2>3
  <2>4. CASE j + 1 = k
    BY <2>1, <2>4
  <2>5. CASE j + 1 < k
    BY <2>1, <2>5
  <2> QED
    BY <2>1, <2>3, <2>4, <2>5
<1>5. \A j \in 0 .. P : j \in T
  <2> HIDE DEF T
  <2> QED
    BY <1>1, <1>3, <1>4, CountingUp
<1>6. ASSUME NEW r \in Rank, ~ (r < k)
      PROVE  f[r] = p[r]
  <2>1. r \in 0 .. P /\ r >= k
    BY <1>1, <1>6
  <2>2. Exhausted(a, r) >= Wanted(a) /\ Exhausted(a, r) \in Nat
    BY <1>2, <1>5, <2>1
  <2>3. ~ (Exhausted(a, r) < Wanted(a))
    BY <1>1, <2>2
  <2> QED
    BY <2>3, Spilled
<1>7. Replaced(f, p, k) = [r \in Rank |-> f[r]] /\ f = [r \in Rank |-> f[r]]
  BY <1>1, <1>6 DEF Replaced
<1> QED
  BY <1>7

(***************************************************************************)
(* Integers of Width bits hold every count of edges.                       *)
(***************************************************************************)
LEMMA Remainder ==
  ASSUME NEW x \in Nat, NEW m \in Nat, x < m
  PROVE  x % m = x
OBVIOUS

LEMMA NothingWraps ==
  ASSUME NEW x \in 0 .. IntMax
  PROVE  Unsigned(x) = x /\ Signed(x) = x /\ Converted(x) = {x}
<1> DEFINE half == 2^(Width-1)
           full == 2^Width
<1>1. Width - 1 \in Nat /\ (Width - 1) + 1 = Width
  BY AvailableAssumption
<1>2. half \in Nat /\ full = 2 * half
  BY <1>1, PowersOfTwo
<1>3. IntMax = half - 1
  BY DEF IntMax
<1> HIDE DEF half, full
<1>4. x \in Nat /\ x < half /\ x < full /\ full \in Nat
  BY <1>2, <1>3
<1>5. x % full = x
  BY <1>4, Remainder
<1>6. Unsigned(x) = x
  BY <1>5 DEF Unsigned, full
<1>7. Signed(x) = x
  BY <1>4, <1>6 DEF Signed, half
<1>8. Converted(x) = {x}
  BY DEF Converted
<1> QED
  BY <1>6, <1>7, <1>8

(* One iteration turns f[k] into g[k], and the rest of what is wanted      *)
(* shrinks by as much.                                                     *)
LEMMA Iteration ==
  ASSUME NEW W \in 0 .. IntMax, NEW f \in [Rank -> Nat], NEW g \in [Rank -> Nat],
         \A r \in Rank : g[r] <= f[r], SumOver(f, Rank) <= W, NEW k \in Rank
  PROVE  /\ W - SumOver(Replaced(f, g, k), Rank) \in 0 .. IntMax
         /\ f[k] = g[k] => Replaced(f, g, k + 1) = Replaced(f, g, k)
         /\ Unsigned((W - SumOver(Replaced(f, g, k), Rank)) - (f[k] - g[k]))
              = W - SumOver(Replaced(f, g, k + 1), Rank)
<1> DEFINE x == Replaced(f, g, k)
           y == Replaced(f, g, k + 1)
<1>1. /\ x \in [Rank -> Nat] /\ x[k] = g[k]
  BY ReplacedType
<1>2. SumOver(y, Rank) + g[k] = SumOver(x, Rank) + f[k]
  BY ReplacedSum
<1>3. ASSUME NEW j
      PROVE  SumOver(Replaced(f, g, j), Rank) \in Nat /\ SumOver(Replaced(f, g, j), Rank) <= W
  <2>1. /\ Replaced(f, g, j) \in [Rank -> Nat]
        /\ \A r \in Rank : Replaced(f, g, j)[r] <= f[r]
    BY DEF Replaced
  <2>2. Below(Replaced(f, g, j), P) <= Below(f, P)
    BY <2>1, RanksAre, SumAtMost
  <2> QED
    BY <2>1, <2>2, SumsOfRanks
<1>4. /\ SumOver(x, Rank) \in Nat /\ SumOver(x, Rank) <= W
      /\ SumOver(y, Rank) \in Nat /\ SumOver(y, Rank) <= W
  BY <1>3
<1> HIDE DEF x, y
<1>5. f[k] \in Nat /\ g[k] \in Nat /\ IntMax \in Int
  <2>1. Width - 1 \in Nat
    BY AvailableAssumption
  <2> QED
    BY <2>1, PowersOfTwo DEF IntMax
<1>6. W - SumOver(x, Rank) \in 0 .. IntMax /\ W - SumOver(y, Rank) \in 0 .. IntMax
  BY <1>4, <1>5
<1>7. (W - SumOver(x, Rank)) - (f[k] - g[k]) = W - SumOver(y, Rank)
  BY <1>2, <1>4, <1>5
<1>8. Unsigned(W - SumOver(y, Rank)) = W - SumOver(y, Rank)
  BY <1>6, NothingWraps
<1>9. f[k] = g[k] => y = x
  <2>1. y = [x EXCEPT ![k] = f[k]]
    BY ReplacedOneMore DEF x, y
  <2> QED
    BY <1>1, <2>1
<1> QED
  BY <1>6, <1>7, <1>8, <1>9 DEF x, y

-----------------------------------------------------------------------------
(* The inductive invariant: each loop has turned the first entries of one  *)
(* vector into those of the next, and nothing has wrapped.                 *)
NoShares == [r \in Rank |-> 0]

LoopsShare(a) ==
  /\ at \in {"sparse", "proportional"} => index \in Rank
  /\ at = "sparse" => share = Replaced(SparseShares(a), NoShares, index)
  /\ at = "proportional" => share = Replaced(Proportional(a), SparseShares(a), index)
  /\ at = "spillover" =>
       share = Replaced(edgesToSamplePerProcessor(a), Proportional(a), index)
  /\ at = "returned" => share = edgesToSamplePerProcessor(a)

SharesInv ==
  /\ available \in Available
  /\ SparseFit(available) =>
       /\ at \in {"sparse", "proportional", "spillover", "returned"}
       /\ index \in 0 .. P
       /\ LoopsShare(available)
       /\ remaining = Wanted(available) - SumOver(share, Rank)
       /\ to_sample = IF at = "sparse" THEN remaining
                      ELSE Wanted(available) - SumOver(available, Sparse(available))

LEMMA Fitting ==
  ASSUME NEW a \in Available, SparseFit(a)
  PROVE  /\ Fits(a)
         /\ SumOver(a, Rank) \in 1 .. IntMax
         /\ Wanted(a) \in 0 .. IntMax
         /\ \A r \in Rank : a[r] \in 0 .. IntMax
         /\ IntMax \in Int
<1>1. a \in [Rank -> Nat] /\ SumOver(a, Rank) \in 1 .. IntMax
  BY AvailableAssumption DEF IntMax
<1>2. IntMax \in Int
  <2>1. Width - 1 \in Nat
    BY AvailableAssumption
  <2> QED
    BY <2>1, PowersOfTwo DEF IntMax
<1>3. Wanted(a) \in 0 .. IntMax
  BY <1>1, <1>2, WantedType
<1>4. ASSUME NEW r \in Rank
      PROVE  a[r] \in 0 .. IntMax
  <2> DEFINE b == [a EXCEPT ![r] = 0]
  <2>1. b \in [Rank -> Nat] /\ b[r] = 0 /\ \A s \in Rank : s # r => a[s] = b[s]
    BY <1>1
  <2> HIDE DEF b
  <2>4. P \in Nat /\ Rank = 0 .. P-1 /\ r \in 0 .. P-1
    BY RanksAre
  <2>5. /\ a \in [0 .. P-1 -> Nat] /\ b \in [0 .. P-1 -> Nat]
        /\ \A s \in 0 .. P-1 : s # r => a[s] = b[s]
    BY <1>1, <2>1, <2>4
  <2>2. Below(a, P) + b[r] = Below(b, P) + a[r]
    BY <2>4, <2>5, SumChange
  <2>3. /\ SumOver(a, Rank) = Below(a, P) /\ SumOver(b, Rank) = Below(b, P)
        /\ SumOver(b, Rank) \in Nat /\ a[r] \in Nat
    BY <1>1, <2>1, SumsOfRanks
  <2> QED
    BY <1>1, <1>2, <2>1, <2>2, <2>3
<1> QED
  BY <1>1, <1>2, <1>3, <1>4 DEF Fits

LEMMA SumOfNone ==
  /\ NoShares \in [Rank -> Nat]
  /\ SumOver(NoShares, Rank) = 0
<1>1. NoShares \in [Rank -> Nat] /\ \A r \in Rank : NoShares[r] = 0
  BY DEF NoShares
<1>2. IsFiniteSet(Rank)
  BY RanksAre
<1>3. SumOver(NoShares, Rank) \in Nat /\ ~ (SumOver(NoShares, Rank) > 0)
  <2>1. /\ SumOver(NoShares, Rank) \in Nat
        /\ SumOver(NoShares, Rank) > 0 <=> \E r \in Rank : NoShares[r] > 0
    BY <1>1, <1>2, SumType
  <2> QED
    BY <1>1, <2>1
<1> QED
  BY <1>1, <1>3

LEMMA SharesBegin ==
  SharesInit => SharesInv
<1> SUFFICES ASSUME SharesInit PROVE SharesInv
  OBVIOUS
<1>1. /\ available \in Available /\ at = "sparse" /\ index = 0 /\ share = NoShares
      /\ remaining = Wanted(available) /\ to_sample = Wanted(available)
  BY DEF SharesInit, NoShares
<1>2. ASSUME SparseFit(available)
      PROVE  /\ index \in Rank /\ index \in 0 .. P
             /\ share = Replaced(SparseShares(available), NoShares, index)
             /\ remaining = Wanted(available) - SumOver(share, Rank)
  <2>1. available \in [Rank -> Nat] /\ Wanted(available) \in Nat
    BY <1>1, <1>2, Fitting DEF Fits
  <2>2. SparseShares(available) \in [Rank -> Nat]
    BY <2>1, WantedType
  <2>3. NoShares = Replaced(SparseShares(available), NoShares, 0)
    BY <2>2, SumOfNone, ReplacedEnds
  <2> QED
    BY <1>1, <2>1, <2>3, RanksAre, SumOfNone
<1> QED
  BY <1>1, <1>2 DEF SharesInv, LoopsShare

(* A loop over all ranks, from the vector g to the vector f.               *)
LEMMA NextRank ==
  ASSUME NEW loop, index \in Rank, NextIndex(loop)
  PROVE  \/ index + 1 \in Rank /\ index' = index + 1 /\ at' = at
         \/ index + 1 = P /\ index' = 0 /\ at' = loop
BY RanksAre DEF NextIndex

LEMMA SparseStep ==
  SharesInv /\ SparseShare => SharesInv'
<1> SUFFICES ASSUME SharesInv, SparseShare PROVE SharesInv'
  OBVIOUS
<1> DEFINE a == available
           f == SparseShares(a)
<1>1. a \in Available /\ available' = available /\ at = "sparse" /\ NextIndex("proportional")
  BY DEF SharesInv, SparseShare
<1>2. ASSUME SparseFit(a)
      PROVE  /\ at' \in {"sparse", "proportional", "spillover", "returned"}
             /\ index' \in 0 .. P
             /\ LoopsShare(a)'
             /\ remaining' = Wanted(a) - SumOver(share', Rank)
             /\ to_sample' = IF at' = "sparse" THEN remaining'
                             ELSE Wanted(a) - SumOver(a, Sparse(a))
  <2>1. /\ index \in Rank /\ share = Replaced(f, NoShares, index)
        /\ remaining = Wanted(a) - SumOver(share, Rank) /\ to_sample = remaining
    BY <1>1, <1>2 DEF SharesInv, LoopsShare
  <2>2. /\ Fits(a) /\ a \in [Rank -> Nat] /\ Wanted(a) \in 0 .. IntMax
    BY <1>1, <1>2, Fitting DEF Fits
  <2>3. /\ f \in [Rank -> Nat] /\ SumOver(f, Rank) = SumOver(a, Sparse(a))
        /\ SumOver(f, Rank) <= Wanted(a)
    BY <1>2, <2>2, WantedType DEF SparseFit
  <2>4. /\ f[index] = IF a[index] <= SparsityThreshold THEN a[index] ELSE 0
        /\ NoShares[index] = 0 /\ a[index] \in Nat /\ f[index] \in Nat
        /\ NoShares \in [Rank -> Nat] /\ \A r \in Rank : NoShares[r] <= f[r]
    BY <2>1, <2>2, <2>3 DEF SparseShares, Sparse, NoShares
  <2> HIDE DEF a, f
  <2>5. /\ Replaced(f, NoShares, index + 1) = [share EXCEPT ![index] = f[index]]
        /\ f[index] = NoShares[index] => Replaced(f, NoShares, index + 1) = share
        /\ Unsigned(remaining - (f[index] - NoShares[index]))
             = Wanted(a) - SumOver(Replaced(f, NoShares, index + 1), Rank)
    <3>1. Replaced(f, NoShares, index + 1) = [share EXCEPT ![index] = f[index]]
      BY <2>1, <2>3, <2>4, ReplacedOneMore
    <3>2. SumOver(f, Rank) <= Wanted(a)
      BY <2>3
    <3>3. /\ f[index] = NoShares[index] => Replaced(f, NoShares, index + 1) = Replaced(f, NoShares, index)
          /\ Unsigned((Wanted(a) - SumOver(Replaced(f, NoShares, index), Rank)) - (f[index] - NoShares[index]))
               = Wanted(a) - SumOver(Replaced(f, NoShares, index + 1), Rank)
      BY <2>1, <2>2, <2>3, <2>4, <3>2, Iteration
    <3> QED
      BY <2>1, <3>1, <3>3
  <2>6. f[index] - NoShares[index] = f[index]
    BY <2>4
  <2>7. /\ share' = Replaced(f, NoShares, index + 1)
        /\ remaining' = Wanted(a) - SumOver(share', Rank)
        /\ to_sample' = remaining'
    <3>1. CASE a[index] <= SparsityThreshold
      <4>1. /\ share' = [share EXCEPT ![index] = a[index]]
            /\ remaining' = Unsigned(remaining - a[index])
            /\ to_sample' = Unsigned(to_sample - a[index])
        BY <3>1 DEF SparseShare, a
      <4>2. f[index] = a[index]
        BY <2>4, <3>1
      <4> QED
        BY <2>1, <2>5, <2>6, <4>1, <4>2
    <3>2. CASE ~ (a[index] <= SparsityThreshold)
      <4>1. share' = share /\ remaining' = remaining /\ to_sample' = to_sample
        BY <3>2 DEF SparseShare, a
      <4>2. f[index] = NoShares[index]
        BY <2>4, <3>2
      <4> QED
        BY <2>1, <2>5, <4>1, <4>2
    <3> QED
      BY <3>1, <3>2
  <2>8. CASE index + 1 \in Rank /\ index' = index + 1 /\ at' = at
    <3>1. index' \in Rank /\ index' \in 0 .. P /\ at' = "sparse"
      BY <1>1, <2>8, RanksAre
    <3>2. LoopsShare(a)'
      BY <1>1, <2>7, <2>8, <3>1 DEF LoopsShare, a, f
    <3> QED
      BY <2>7, <3>1, <3>2
  <2>9. CASE index + 1 = P /\ index' = 0 /\ at' = "proportional"
    <3>1. index' \in Rank /\ index' \in 0 .. P
      BY <2>9, RanksAre
    <3>2. share' = f
      BY <2>3, <2>4, <2>7, <2>9, ReplacedEnds
    <3>3. f = Replaced(Proportional(a), f, 0)
      BY <1>2, <2>2, <2>3, Proportions, ReplacedEnds DEF Fits
    <3>4. LoopsShare(a)'
      BY <1>1, <2>9, <3>1, <3>2, <3>3 DEF LoopsShare, a, f
    <3> QED
      BY <2>3, <2>7, <2>9, <3>1, <3>2, <3>4
  <2> QED
    BY <1>1, <2>1, <2>8, <2>9, NextRank
<1>3. SparseFit(available') => SparseFit(a)
  BY <1>1
<1> QED
  BY <1>1, <1>2 DEF SharesInv

LEMMA ProportionalStep ==
  SharesInv /\ ProportionalShare => SharesInv'
<1> SUFFICES ASSUME SharesInv, ProportionalShare PROVE SharesInv'
  OBVIOUS
<1> DEFINE a == available
           f == Proportional(a)
           g == SparseShares(a)
           x == (to_sample * a[index]) \div SumOver(a, Rank)
<1>1. /\ a \in Available /\ available' = available /\ to_sample' = to_sample
      /\ at = "proportional" /\ NextIndex("spillover")
  BY DEF SharesInv, ProportionalShare
<1>2. ASSUME SparseFit(a)
      PROVE  /\ at' \in {"sparse", "proportional", "spillover", "returned"}
             /\ index' \in 0 .. P
             /\ LoopsShare(a)'
             /\ remaining' = Wanted(a) - SumOver(share', Rank)
             /\ to_sample' = IF at' = "sparse" THEN remaining'
                             ELSE Wanted(a) - SumOver(a, Sparse(a))
  <2>1. /\ index \in Rank /\ share = Replaced(f, g, index)
        /\ remaining = Wanted(a) - SumOver(share, Rank)
        /\ to_sample = Wanted(a) - SumOver(a, Sparse(a))
    BY <1>1, <1>2 DEF SharesInv, LoopsShare
  <2>2. /\ Fits(a) /\ a \in [Rank -> Nat] /\ Wanted(a) \in 0 .. IntMax
        /\ SumOver(a, Rank) \in 1 .. IntMax /\ a[index] \in 0 .. IntMax /\ IntMax \in Int
    BY <1>1, <1>2, <2>1, Fitting DEF Fits
  <2>3. /\ f \in [Rank -> Nat] /\ g \in [Rank -> Nat]
        /\ \A r \in Rank : g[r] <= f[r] /\ f[r] <= a[r]
        /\ SumOver(f, Rank) <= Wanted(a)
    BY <2>2, Proportions, WantedType DEF Fits
  <2>4. share[index] = g[index]
    BY <2>1, <2>3, ReplacedType
  <2>5. /\ g[index] = IF index \in Sparse(a) THEN a[index] ELSE 0
        /\ f[index] = IF index \in Sparse(a) THEN a[index] ELSE x
    BY <2>1 DEF SparseShares, Proportional
  <2> HIDE DEF f, g
  <2>6. a[index] \in Nat /\ f[index] \in Nat /\ g[index] \in Nat /\ f[index] <= a[index]
    BY <2>1, <2>2, <2>3
  <2>7. /\ Replaced(f, g, index + 1) = [share EXCEPT ![index] = f[index]]
        /\ f[index] = g[index] => Replaced(f, g, index + 1) = share
        /\ Unsigned(remaining - (f[index] - g[index]))
             = Wanted(a) - SumOver(Replaced(f, g, index + 1), Rank)
    <3>1. Replaced(f, g, index + 1) = [share EXCEPT ![index] = f[index]]
      BY <2>1, <2>3, ReplacedOneMore
    <3>2. /\ f[index] = g[index] => Replaced(f, g, index + 1) = Replaced(f, g, index)
          /\ Unsigned((Wanted(a) - SumOver(Replaced(f, g, index), Rank)) - (f[index] - g[index]))
               = Wanted(a) - SumOver(Replaced(f, g, index + 1), Rank)
      <4>1. \A r \in Rank : g[r] <= f[r]
        BY <2>3
      <4> QED
        BY <2>1, <2>2, <2>3, <4>1, Iteration
    <3> QED
      BY <2>1, <3>1, <3>2
  <2>8. share' = Replaced(f, g, index + 1) /\ remaining' = Wanted(a) - SumOver(share', Rank)
    <3>1. CASE share[index] = 0
      <4>1. x = f[index]
        <5>1. CASE index \in Sparse(a)
          <6>1. a[index] = 0 /\ f[index] = 0
            BY <2>4, <2>5, <3>1, <5>1
          <6>2. to_sample \in Int /\ SumOver(a, Rank) \in Nat \ {0}
            BY <2>1, <2>2, WantedType
          <6>3. to_sample * 0 = 0 /\ 0 \div SumOver(a, Rank) = 0
            BY <6>2
          <6> QED
            BY <6>1, <6>3
        <5>2. CASE index \notin Sparse(a)
          BY <2>5, <5>2
        <5> QED
          BY <5>1, <5>2
      <4>2. x \in 0 .. IntMax /\ Least(x, a[index]) = f[index]
        <5> HIDE DEF x
        <5>1. x \in Nat /\ x <= a[index]
          BY <2>6, <4>1
        <5> QED
          BY <2>2, <4>1, <5>1 DEF Least
      <4>3. PICK quotient \in Converted(x) :
              /\ share' = [share EXCEPT ![index] = Least(quotient, a[index])]
              /\ remaining' = Unsigned(remaining - Least(quotient, a[index]))
        BY <3>1 DEF ProportionalShare
      <4>4. quotient = x
        <5>1. Converted(x) = {x}
          BY <4>2, NothingWraps
        <5> QED
          BY <5>1
      <4>5. /\ share' = [share EXCEPT ![index] = f[index]]
            /\ remaining' = Unsigned(remaining - f[index])
        BY <4>2, <4>3, <4>4
      <4>6. f[index] - g[index] = f[index]
        BY <2>4, <2>6, <3>1
      <4> QED
        BY <2>7, <4>5, <4>6
    <3>2. CASE share[index] # 0
      <4>1. share' = share /\ remaining' = remaining
        BY <3>2 DEF ProportionalShare
      <4>2. f[index] = g[index]
        BY <2>4, <2>5, <3>2
      <4> QED
        BY <2>1, <2>7, <4>1, <4>2
    <3> QED
      BY <3>1, <3>2
  <2>9. CASE index + 1 \in Rank /\ index' = index + 1 /\ at' = at
    <3>1. index' \in Rank /\ index' \in 0 .. P /\ at' = "proportional"
      BY <1>1, <2>9, RanksAre
    <3>2. LoopsShare(a)'
      BY <1>1, <2>8, <2>9, <3>1 DEF LoopsShare, f, g
    <3> QED
      BY <1>1, <2>1, <2>8, <3>1, <3>2
  <2>10. CASE index + 1 = P /\ index' = 0 /\ at' = "spillover"
    <3>1. index' \in 0 .. P
      BY <2>10, RanksAre
    <3>2. share' = f
      BY <2>3, <2>8, <2>10, ReplacedEnds
    <3>3. f = Replaced(edgesToSamplePerProcessor(a), f, 0)
      BY <2>2, <2>3, SpillAdds, ReplacedEnds
    <3>4. LoopsShare(a)'
      BY <1>1, <2>10, <3>2, <3>3 DEF LoopsShare, f
    <3> QED
      BY <1>1, <2>1, <2>8, <2>10, <3>1, <3>4
  <2> QED
    BY <1>1, <2>1, <2>9, <2>10, NextRank
<1> QED
  BY <1>1, <1>2 DEF SharesInv

(* In the last loop, remaining is what the ranks below index have left.    *)
LEMMA LeftOver ==
  ASSUME SharesInv, SparseFit(available), at = "spillover"
  PROVE  /\ Fits(available) /\ Wanted(available) \in 0 .. IntMax
         /\ index \in 0 .. P /\ Exhausted(available, index) \in Nat
         /\ share = Replaced(edgesToSamplePerProcessor(available), Proportional(available), index)
         /\ SumOver(share, Rank) = Least(Wanted(available), Exhausted(available, index))
         /\ remaining = Wanted(available) - SumOver(share, Rank)
         /\ remaining \in Nat
         /\ remaining > 0 => remaining = Wanted(available) - Exhausted(available, index)
<1>1. /\ available \in Available /\ index \in 0 .. P
      /\ share = Replaced(edgesToSamplePerProcessor(available), Proportional(available), index)
      /\ remaining = Wanted(available) - SumOver(share, Rank)
  BY DEF SharesInv, LoopsShare
<1>2. Fits(available) /\ Wanted(available) \in 0 .. IntMax
  BY <1>1, Fitting
<1>3. Exhausted(available, index) \in Nat
  BY <1>1, <1>2, ExhaustedSums
<1>4. SumOver(share, Rank) = Least(Wanted(available), Exhausted(available, index))
  BY <1>1, <1>2, FinalSums
<1>5. Wanted(available) \in Nat
  BY <1>2, WantedType DEF Fits
<1> QED
  BY <1>1, <1>2, <1>3, <1>4, <1>5 DEF Least

LEMMA SpillStep ==
  SharesInv /\ Spill => SharesInv'
<1> SUFFICES ASSUME SharesInv, Spill PROVE SharesInv'
  OBVIOUS
<1> DEFINE a == available
           f == edgesToSamplePerProcessor(a)
           g == Proportional(a)
<1>1. /\ a \in Available /\ available' = available /\ to_sample' = to_sample
      /\ at = "spillover" /\ at' = at /\ remaining > 0 /\ index < P /\ index' = index + 1
  BY DEF SharesInv, Spill
<1>2. ASSUME SparseFit(a)
      PROVE  /\ index' \in 0 .. P
             /\ LoopsShare(a)'
             /\ remaining' = Wanted(a) - SumOver(share', Rank)
             /\ to_sample' = Wanted(a) - SumOver(a, Sparse(a))
  <2>1. /\ Fits(a) /\ Wanted(a) \in 0 .. IntMax
        /\ index \in 0 .. P /\ Exhausted(a, index) \in Nat
        /\ share = Replaced(f, g, index)
        /\ remaining = Wanted(a) - SumOver(share, Rank)
        /\ remaining \in Nat
        /\ remaining = Wanted(a) - Exhausted(a, index)
    BY <1>1, <1>2, LeftOver
  <2>2. index \in Rank /\ index' \in 0 .. P
    BY <1>1, <2>1, RanksAre
  <2>3. /\ f \in [Rank -> Nat] /\ g \in [Rank -> Nat] /\ a \in [Rank -> Nat]
        /\ \A r \in Rank : g[r] <= f[r] /\ f[r] <= a[r]
        /\ SumOver(f, Rank) <= Wanted(a)
    <3>1. /\ f \in [Rank -> Nat] /\ \A r \in Rank : g[r] <= f[r] /\ f[r] <= a[r]
      BY <2>1, SpillAdds
    <3>2. g \in [Rank -> Nat] /\ a \in [Rank -> Nat]
      BY <2>1, Proportions DEF Fits
    <3>3. SumOver(f, Rank) <= Wanted(a)
      BY <2>1, FinalSums
    <3> QED
      BY <3>1, <3>2, <3>3
  <2>4. share[index] = g[index] /\ share \in [Rank -> Nat]
    BY <2>1, <2>2, <2>3, ReplacedType
  <2>5. f[index] = Least(a[index], g[index] + remaining)
    BY <1>1, <2>1, <2>2, Spilled
  <2>6. a[index] \in 0 .. IntMax /\ remaining \in 0 .. IntMax /\ IntMax \in Int
    <3>1. a[index] \in 0 .. IntMax /\ IntMax \in Int
      BY <1>1, <1>2, <2>2, Fitting
    <3>2. remaining <= Wanted(a)
      BY <2>1
    <3> QED
      BY <2>1, <3>1, <3>2
  <2> HIDE DEF f, g
  <2>7. a[index] \in Nat /\ f[index] \in Nat /\ g[index] \in Nat /\ IntMax \in Int
    BY <2>1, <2>2, <2>3, <2>6
  <2>8. /\ Replaced(f, g, index + 1) = [share EXCEPT ![index] = f[index]]
        /\ f[index] = g[index] => Replaced(f, g, index + 1) = share
        /\ Unsigned(remaining - (f[index] - g[index]))
             = Wanted(a) - SumOver(Replaced(f, g, index + 1), Rank)
    <3>1. Replaced(f, g, index + 1) = [share EXCEPT ![index] = f[index]]
      BY <2>1, <2>2, <2>3, ReplacedOneMore
    <3>2. /\ f[index] = g[index] => Replaced(f, g, index + 1) = Replaced(f, g, index)
          /\ Unsigned((Wanted(a) - SumOver(Replaced(f, g, index), Rank)) - (f[index] - g[index]))
               = Wanted(a) - SumOver(Replaced(f, g, index + 1), Rank)
      <4>1. \A r \in Rank : g[r] <= f[r]
        BY <2>3
      <4> QED
        BY <2>1, <2>2, <2>3, <4>1, Iteration
    <3>3. Replaced(f, g, index) = share /\ Wanted(a) - SumOver(share, Rank) = remaining
      BY <2>1
    <3>4. /\ f[index] = g[index] => Replaced(f, g, index + 1) = share
          /\ Unsigned(remaining - (f[index] - g[index]))
               = Wanted(a) - SumOver(Replaced(f, g, index + 1), Rank)
      BY <3>2, <3>3
    <3> QED
      BY <3>1, <3>4
  <2>9. share' = Replaced(f, g, index + 1) /\ remaining' = Wanted(a) - SumOver(share', Rank)
    <3>1. CASE a[index] > share[index]
      <4> DEFINE delta == Least(Signed(a[index] - share[index]), Signed(remaining))
      <4>1. Signed(a[index] - share[index]) = a[index] - share[index] /\ Signed(remaining) = remaining
        <5>1. a[index] - share[index] \in 0 .. IntMax
          BY <2>4, <2>6, <2>7, <3>1
        <5> QED
          BY <2>6, <5>1, NothingWraps
      <4>2. delta = f[index] - g[index]
        <5>1. delta = Least(a[index] - g[index], remaining)
          BY <2>4, <4>1
        <5> QED
          BY <2>1, <2>5, <2>7, <5>1 DEF Least
      <4>3. /\ share' = [share EXCEPT ![index] = Signed(@ + delta)]
            /\ remaining' = Unsigned(remaining - delta)
        BY <3>1 DEF Spill
      <4>4. share' = [share EXCEPT ![index] = Signed(share[index] + delta)]
        BY <2>2, <2>4, <4>3
      <4> HIDE DEF delta
      <4>5. Signed(share[index] + delta) = f[index]
        <5>1. share[index] + delta = f[index]
          BY <2>4, <2>7, <4>2
        <5>2. f[index] \in 0 .. IntMax
          BY <2>2, <2>3, <2>6, <2>7
        <5> QED
          BY <5>1, <5>2, NothingWraps
      <4>6. remaining' = Unsigned(remaining - (f[index] - g[index]))
        BY <4>2, <4>3
      <4> QED
        BY <2>8, <4>4, <4>5, <4>6
    <3>2. CASE ~ (a[index] > share[index])
      <4>1. share' = share /\ remaining' = remaining
        BY <3>2 DEF Spill
      <4>2. f[index] = g[index]
        <5>1. g[index] <= f[index] /\ f[index] <= a[index]
          BY <2>2, <2>3
        <5> QED
          BY <2>4, <2>7, <3>2, <5>1
      <4> QED
        BY <2>1, <2>8, <4>1, <4>2
    <3> QED
      BY <3>1, <3>2
  <2>10. LoopsShare(a)'
    BY <1>1, <2>9 DEF LoopsShare, f, g
  <2>11. to_sample' = Wanted(a) - SumOver(a, Sparse(a))
    BY <1>1, <1>2 DEF SharesInv
  <2> QED
    BY <2>2, <2>9, <2>10, <2>11
<1> QED
  BY <1>1, <1>2 DEF SharesInv

LEMMA ReturnStep ==
  SharesInv /\ ReturnShares => SharesInv'
<1> SUFFICES ASSUME SharesInv, ReturnShares PROVE SharesInv'
  OBVIOUS
<1> DEFINE a == available
<1>1. /\ a \in Available /\ at = "spillover" /\ at' = "returned" /\ remaining = 0
      /\ UNCHANGED <<available, index, to_sample, remaining, share>>
  BY DEF SharesInv, ReturnShares
<1>2. ASSUME SparseFit(a)
      PROVE  share = edgesToSamplePerProcessor(a)
  <2>1. /\ Fits(a) /\ Wanted(a) \in 0 .. IntMax
        /\ index \in 0 .. P /\ Exhausted(a, index) \in Nat
        /\ share = Replaced(edgesToSamplePerProcessor(a), Proportional(a), index)
        /\ SumOver(share, Rank) = Least(Wanted(a), Exhausted(a, index))
        /\ remaining = Wanted(a) - SumOver(share, Rank)
    BY <1>1, <1>2, LeftOver
  <2>2. Wanted(a) \in Nat
    BY <2>1, WantedType DEF Fits
  <2>3. Exhausted(a, index) >= Wanted(a)
    BY <1>1, <2>1, <2>2 DEF Least
  <2> QED
    BY <2>1, <2>3, AllSpilled
<1> QED
  BY <1>1, <1>2 DEF SharesInv, LoopsShare

(* vector::at does not throw: all ranks together have what is wanted.      *)
LEMMA ThrowStep ==
  SharesInv /\ Throw => SharesInv'
<1> SUFFICES ASSUME SharesInv, Throw PROVE SharesInv'
  OBVIOUS
<1> DEFINE a == available
<1>1. /\ a \in Available /\ available' = available
      /\ at = "spillover" /\ remaining > 0 /\ index = P
  BY DEF SharesInv, Throw
<1>2. ASSUME SparseFit(a) PROVE FALSE
  <2>1. Fits(a) /\ remaining = Wanted(a) - Exhausted(a, P)
    BY <1>1, <1>2, LeftOver
  <2>2. Exhausted(a, P) = SumOver(a, Rank) /\ SumOver(a, Rank) \in Nat
        /\ Wanted(a) <= SumOver(a, Rank) /\ Wanted(a) \in Nat
    BY <2>1, ExhaustedSums, SumsOfRanks, WantedType DEF Fits
  <2> QED
    BY <1>1, <2>1, <2>2
<1> QED
  BY <1>1, <1>2 DEF SharesInv

LEMMA SharesInvariance ==
  SharesSpec => []SharesInv
<1>1. SharesInv /\ [SharesNext]_allocVars => SharesInv'
  <2> SUFFICES ASSUME SharesInv, [SharesNext]_allocVars PROVE SharesInv'
    OBVIOUS
  <2>1. CASE SparseShare
    BY <2>1, SparseStep
  <2>2. CASE ProportionalShare
    BY <2>2, ProportionalStep
  <2>3. CASE Spill
    BY <2>3, SpillStep
  <2>4. CASE ReturnShares
    BY <2>4, ReturnStep
  <2>5. CASE Throw
    BY <2>5, ThrowStep
  <2>6. CASE UNCHANGED allocVars
    BY <2>6 DEF allocVars, SharesInv, LoopsShare
  <2> QED
    BY <2>1, <2>2, <2>3, <2>4, <2>5, <2>6 DEF SharesNext, SharesDone
<1> QED
  BY <1>1, SharesBegin, PTL DEF SharesSpec

-----------------------------------------------------------------------------
(* If the sparse ranks fit, the loops return the closed form: shares that  *)
(* add up to what is wanted, and no rank has to send more than it has.     *)
THEOREM SharesServable ==
  SharesSpec => []ServableShares
<1>1. SharesInv => ServableShares
  <2> SUFFICES ASSUME SharesInv, at = "returned", SparseFit(available)
               PROVE  /\ SumOver(share, Rank) = Wanted(available)
                      /\ \A r \in Rank : share[r] \in 0 .. available[r]
                      /\ share = edgesToSamplePerProcessor(available)
    BY DEF ServableShares
  <2>1. available \in Available /\ share = edgesToSamplePerProcessor(available)
    BY DEF SharesInv, LoopsShare
  <2>2. Fits(available) /\ available \in [Rank -> Nat]
    BY <2>1, Fitting DEF Fits
  <2>3. SumOver(share, Rank) = Wanted(available)
    BY <2>1, <2>2, FinalSums
  <2>4. share \in [Rank -> Nat] /\ \A r \in Rank : share[r] <= available[r]
    BY <2>1, <2>2, SpillAdds
  <2> QED
    BY <2>1, <2>2, <2>3, <2>4
<1> QED
  BY <1>1, SharesInvariance, PTL

(* If the sparse ranks fit, the unsigned remaining_edges never wraps, and  *)
(* the ranks still to come can always take what remains.                   *)
THEOREM RemainingPlaced ==
  SharesSpec => []RemainingCanBePlaced
<1>1. SharesInv => RemainingCanBePlaced
  <2> SUFFICES ASSUME SharesInv, SparseFit(available)
               PROVE  /\ remaining = Wanted(available) - SumOver(share, Rank)
                      /\ at = "spillover" =>
                           remaining <= SumOver([r \in Rank |-> available[r] - share[r]], index .. P-1)
    BY DEF RemainingCanBePlaced
  <2>1. remaining = Wanted(available) - SumOver(share, Rank)
    BY DEF SharesInv
  <2>2. ASSUME at = "spillover"
        PROVE  remaining <= SumOver([r \in Rank |-> available[r] - share[r]], index .. P-1)
    <3> DEFINE a == available
               f == edgesToSamplePerProcessor(a)
               g == Proportional(a)
               T == index .. P-1
               d == [r \in Rank |-> a[r] - share[r]]
               c == [r \in Rank |-> IF r \in T THEN d[r] ELSE 0]
               e == Replaced(a, g, index)
    <3>1. /\ Fits(a) /\ index \in 0 .. P /\ Exhausted(a, index) \in Nat
          /\ share = Replaced(f, g, index) /\ remaining \in Nat
          /\ remaining > 0 => remaining = Wanted(a) - Exhausted(a, index)
      BY <2>2, LeftOver
    <3>2. /\ a \in [Rank -> Nat] /\ g \in [Rank -> Nat] /\ f \in [Rank -> Nat]
          /\ \A r \in Rank : f[r] <= a[r] /\ g[r] <= a[r]
      BY <3>1, SpillAdds, Proportions DEF Fits
    <3> HIDE DEF a, f, g
    <3>3. P \in Nat /\ Rank = 0 .. P-1
      BY RanksAre
    <3>4. T \subseteq Rank /\ \A r \in Rank : r \in T <=> ~ (r < index)
      BY <3>1, <3>3
    <3>5. ASSUME NEW r \in Rank
          PROVE  share[r] \in Nat /\ share[r] <= a[r] /\ (~ (r < index) => share[r] = g[r])
      <4>1. share[r] = IF r < index THEN f[r] ELSE g[r]
        BY <3>1 DEF Replaced
      <4> QED
        BY <3>2, <4>1
    <3>6. d \in [Rank -> Nat] /\ c \in [Rank -> Nat] /\ e \in [Rank -> Nat]
      <4>1. \A r \in Rank : d[r] \in Nat /\ c[r] \in Nat
        BY <3>2, <3>5
      <4>2. e \in [Rank -> Nat]
        BY <3>2 DEF Replaced
      <4> QED
        BY <4>1, <4>2
    <3>7. ASSUME NEW r \in Rank PROVE a[r] = e[r] + c[r]
      <4>1. e[r] = IF r < index THEN a[r] ELSE g[r]
        BY DEF Replaced
      <4>2. c[r] = IF r \in T THEN a[r] - share[r] ELSE 0
        OBVIOUS
      <4> QED
        BY <3>2, <3>4, <3>5, <4>1, <4>2
    <3>8. SumOver(d, T) = SumOver(c, Rank)
      BY <3>4, SumOfSome
    <3> HIDE DEF d, c, e, T
    <3>9. Below(a, P) = Below(e, P) + Below(c, P)
      BY <3>2, <3>3, <3>6, <3>7, SumPlus
    <3>10. /\ SumOver(a, Rank) = SumOver(e, Rank) + SumOver(c, Rank)
           /\ SumOver(a, Rank) \in Nat /\ SumOver(e, Rank) \in Nat /\ SumOver(c, Rank) \in Nat
      BY <3>2, <3>6, <3>9, SumsOfRanks
    <3>11. SumOver(e, Rank) = Exhausted(a, index)
      BY DEF e, g, Exhausted
    <3>12. Wanted(a) \in Nat /\ Wanted(a) <= SumOver(a, Rank)
      BY <3>2, WantedType
    <3>13. remaining <= SumOver(d, T)
      BY <3>1, <3>8, <3>10, <3>11, <3>12
    <3> QED
      BY <3>13 DEF d, T, a
  <2> QED
    BY <2>1, <2>2
<1> QED
  BY <1>1, SharesInvariance, PTL
=============================================================================
