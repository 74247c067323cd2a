------------------------------- MODULE Ranks -------------------------------
(***************************************************************************)
(* The processes of an MPI program.                                        *)
(***************************************************************************)
EXTENDS Integers

CONSTANT P   \* group_size: the number of ranks

ASSUME RankAssumption == P \in Nat \ {0}

Rank == 0 .. P-1
=============================================================================
