-------------------------------- MODULE Sums --------------------------------
(***************************************************************************)
(* Sums of natural numbers, as cardinalities: no definition is recursive,  *)
(* so that the modules built on this one can be proved about.              *)
(***************************************************************************)
EXTENDS Integers, FiniteSets

(* The sum of the numbers f[r] over the r in R.                            *)
SumOver(f, R) == Cardinality(UNION {{r} \X (1 .. f[r]) : r \in R})

(* What the ranks below r have, when rank s has counts[s]: the prefix sum. *)
Below(counts, r) == SumOver(counts, 0 .. r-1)
=============================================================================
