---------------------------- MODULE SampleShares ----------------------------
(***************************************************************************)
(* How SparseSampling::edgesToSamplePerProcessor shares the sample out     *)
(* among the ranks, in closed form.  SampleAllocation has its three loops  *)
(* over unsigned integers and shows when they compute these shares.        *)
(***************************************************************************)
EXTENDS Ranks, Sums

CONSTANTS
  SparsityThreshold,  \* a rank with no more edges than this sends them all
  SampleTarget        \* edges wanted, when the graph has that many

(***************************************************************************)
(* The code computes the threshold from P, 3 / 0.2^2 * ln(P / 0.9) rounded *)
(* down, and the target from the number n of vertices, 1.2 * n^1.045       *)
(* rounded down.  Both are positive; 7 and 59 are the thresholds of one    *)
(* and two ranks, 3, 5 and 6 the targets of three, four and five vertices. *)
(***************************************************************************)
ASSUME ShareAssumption ==
  /\ SparsityThreshold \in Nat \ {0}
  /\ SampleTarget \in Nat \ {0}

Least(a, b) == IF a <= b THEN a ELSE b

(* number_of_edges_to_sample, from the edges available to every rank.      *)
Wanted(available) == Least(SampleTarget, SumOver(available, Rank))

(* The processors with few edges.                                          *)
Sparse(available) == {r \in Rank : available[r] <= SparsityThreshold}

(* What the sparse processors have is no more than what is wanted.         *)
SparseFit(available) == SumOver(available, Sparse(available)) <= Wanted(available)

(* Proportional shares, before the spillover is distributed.               *)
Proportional(available) ==
  LET rest == Wanted(available) - SumOver(available, Sparse(available))
  IN  [r \in Rank |->
         IF r \in Sparse(available) THEN available[r]
         ELSE (rest * available[r]) \div SumOver(available, Rank)]

(* The spillover goes to the first ranks that have edges to spare.  Left   *)
(* is what is left of it once the ranks before r send all they have.       *)
Spillover(available, share) ==
  LET Left(r) ==
        Wanted(available)
          - SumOver([s \in Rank |-> IF s < r THEN available[s] ELSE share[s]], Rank)
  IN  [r \in Rank |-> IF Left(r) > 0 THEN Least(available[r], share[r] + Left(r))
                                     ELSE share[r]]

(* The shares, provided that SparseFit(available).                         *)
edgesToSamplePerProcessor(available) == Spillover(available, Proportional(available))
=============================================================================
