----------------------------- MODULE GraphInput -----------------------------
(***************************************************************************)
(* GraphInputIterator: the file position is in the parent (read_), the     *)
(* index of the current edge in the iterator (position_).  Its users are   *)
(* the main loop of a program that reads all edges, on one process, and    *)
(* loadSlice, on every rank.  SerialCC adds the first of them.             *)
(*                                                                         *)
(* A rank has a stream of its own, so the ranks are run one after the      *)
(* other here; reopen() would leave a stream in the same state.            *)
(***************************************************************************)
EXTENDS Graph

CONSTANTS
  Files,       \* by user: the edges that follow the two counts in the file
  GroupSizes   \* group_size

ASSUME InputAssumption ==
  /\ Files \in [{"main", "loadSlice"} -> SUBSET Seq(Edge(Nat))]
  /\ GroupSizes \subseteq Nat \ {0}

VARIABLES
  file,         \* never changes, nor do the next three
  lines_,       \* the second count in the file
  group_size, user,
  rank,         \* the rank that reads
  at,           \* where it is
  read_,        \* edges read from the file
  position_,    \* index of the current edge
  edge_,        \* the current edge
  slices        \* edges pushed back, by rank

parameters == <<file, lines_, group_size, user>>
iterator == <<read_, position_, edge_>>
inputVars == <<parameters, rank, at, iterator, slices>>

Rank == 0 .. group_size - 1

NoEdge == [from |-> 0, to |-> 0]

(* The file declares fewer edges than it holds, as many, or one more.      *)
InputInit ==
  /\ user \in DOMAIN Files
  /\ file \in Files[user]
  /\ lines_ \in 0 .. Len(file) + 1
  /\ group_size \in IF user = "main" THEN {1} ELSE GroupSizes
  /\ rank = 0
  /\ at = "begin"
  /\ read_ = 0
  /\ position_ = 0
  /\ edge_ = NoEdge
  /\ slices = [r \in Rank |-> <<>>]

-----------------------------------------------------------------------------
(* read(): the stream throws at the end of the file.                       *)
Read(next) ==
  IF read_ < Len(file)
  THEN /\ edge_' = file[read_ + 1]
       /\ read_' = read_ + 1
       /\ at' = next
  ELSE /\ at' = "thrown"
       /\ UNCHANGED <<read_, edge_>>

(* begin() reads an edge, whether lines_ says that there is one or not.    *)
Begin ==
  /\ at = "begin"
  /\ Read("loop")
  /\ UNCHANGED <<parameters, rank, position_, slices>>

(* Definitions named Bug... are plausible slips in the definition that     *)
(* follows them; no specification uses them.  Here one edge more is read.  *)
BugIncrement ==
  /\ position_' = position_ + 1
  /\ IF read_ <= lines_ THEN Read("loop")
                        ELSE at' = "loaded" /\ UNCHANGED <<read_, edge_>>

(* operator++ reads the next edge, or sets end_, which ends the loop.      *)
Increment ==
  /\ position_' = position_ + 1
  /\ IF read_ < lines_ THEN Read("loop")
                       ELSE at' = "loaded" /\ UNCHANGED <<read_, edge_>>

PushBack == slices' = [slices EXCEPT ![rank] = Append(@, edge_)]

From == slice_from(lines_, rank, group_size)
To == slice_to(lines_, rank, group_size)

(* The loop of loadSlice, before the slice, ...                            *)
Before ==
  /\ at = "loop"
  /\ user = "loadSlice"
  /\ position_ < From
  /\ Increment
  /\ UNCHANGED <<parameters, rank, slices>>

(* The break forgets that slice_to is exclusive.                           *)
BugInside ==
  /\ at = "loop"
  /\ user = "loadSlice"
  /\ From <= position_ /\ position_ <= To
  /\ PushBack
  /\ Increment
  /\ UNCHANGED <<parameters, rank>>

(* ... inside it, ...                                                      *)
Inside ==
  /\ at = "loop"
  /\ user = "loadSlice"
  /\ From <= position_ /\ position_ < To
  /\ PushBack
  /\ Increment
  /\ UNCHANGED <<parameters, rank>>

(* ... and behind it: break.                                               *)
Behind ==
  /\ at = "loop"
  /\ user = "loadSlice"
  /\ From <= position_ /\ position_ >= To
  /\ at' = "loaded"
  /\ UNCHANGED <<parameters, rank, iterator, slices>>

(* The next rank opens the file.                                           *)
NextRank ==
  /\ at = "loaded"
  /\ user = "loadSlice"
  /\ rank < group_size
  /\ rank' = rank + 1
  /\ IF rank' < group_size
     THEN /\ at' = "begin"
          /\ read_' = 0
          /\ position_' = 0
          /\ edge_' = NoEdge
     ELSE UNCHANGED <<at, iterator>>
  /\ UNCHANGED <<parameters, slices>>

InputNext == Begin \/ Before \/ Inside \/ Behind \/ NextRank

-----------------------------------------------------------------------------
(***************************************************************************)
(* Together the ranks load the edges that the file declares, every one     *)
(* once and in order, however many ranks there are, edges that the file    *)
(* holds but does not declare never: the slices are stretches of the file, *)
(* each from where the one before it ends, and end with what is declared.  *)
(***************************************************************************)
EveryEdgeOnce ==
  rank = group_size =>
     LET count == [r \in Rank |-> Len(slices[r])]
     IN  /\ Below(count, group_size) = lines_
         /\ \A r \in Rank :
               slices[r] = SubSeq(file, Below(count, r) + 1, Below(count, r + 1))

(***************************************************************************)
(* The edge at hand is the one that position_ counts, although position_   *)
(* and read_ are kept by two classes; the stream is not read past what is  *)
(* declared, except for the one edge that begin() reads; and it throws     *)
(* only on a file that holds fewer edges than it declares, or none.        *)
(***************************************************************************)
PositionFollowsStream ==
  /\ at = "loop" => /\ read_ = position_ + 1
                    /\ edge_ = file[position_ + 1]
                    /\ read_ <= Max({lines_, 1})
  /\ at = "thrown" => Len(file) < Max({lines_, 1})
=============================================================================
