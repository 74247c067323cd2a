---------------------------- MODULE Collectives ----------------------------
(***************************************************************************)
(* The rooted MPI collectives that the two MPI programs are made of.  pc   *)
(* names the next MPI call of every rank.  A collective call is split into *)
(* its two sides: the root of a broadcast or scatter puts a message into   *)
(* the channel to every other rank and goes on, each of them takes its     *)
(* message when it reaches the call; a gather or reduction works the other *)
(* way round.  MPI matches the collective calls of a communicator in       *)
(* order, so the channels are FIFO.  How far a sender may run ahead is up  *)
(* to the MPI library: Buffer = 1 is a library that hardly buffers.        *)
(***************************************************************************)
EXTENDS Ranks, Sequences

CONSTANT Buffer   \* messages that fit in a channel

ASSUME CollectivesAssumption == Buffer \in Nat \ {0}

Slave == 1 .. P-1

VARIABLES
  pc,       \* the next MPI call of every rank
  down,     \* channels from rank 0 to the other ranks
  up        \* channels from the other ranks to rank 0

channels == <<down, up>>

Goto(r, call) == pc' = [pc EXCEPT ![r] = call]

SendDown(data) ==
  /\ \A r \in Slave : Len(down[r]) < Buffer
  /\ down' = [r \in Slave |-> Append(down[r], [op |-> pc[0], data |-> data[r]])]

BcastDown(x) == SendDown([r \in Rank |-> x])

TakeDown(r) ==
  /\ down[r] # <<>>
  /\ Head(down[r]).op = pc[r]
  /\ down' = [down EXCEPT ![r] = Tail(@)]

SendUp(r, x) ==
  /\ Len(up[r]) < Buffer
  /\ up' = [up EXCEPT ![r] = Append(@, [op |-> pc[r], data |-> x])]

TakeUp ==
  /\ \A r \in Slave : up[r] # <<>> /\ Head(up[r]).op = pc[0]
  /\ up' = [r \in Slave |-> Tail(up[r])]

(* What a gather or reduction delivers: rank 0 contributes x itself.       *)
Contributions(x) == [r \in Rank |-> IF r = 0 THEN x ELSE Head(up[r]).data]
=============================================================================
