-------------------------- MODULE SampleAllocation --------------------------
(***************************************************************************)
(* The three loops of SparseSampling::edgesToSamplePerProcessor, one       *)
(* iteration per step.  number_of_edges_to_sample and remaining_edges are  *)
(* unsigned, edges_per_processor is signed, all of Width bits: in the code *)
(* 32, here fewer, for TLC's own integers have no more.                    *)
(*                                                                         *)
(* It shares no name with SparseSampling that is not from SampleShares, so *)
(* that one module can hold the proofs of both.                            *)
(***************************************************************************)
EXTENDS SampleShares

CONSTANTS
  Width,      \* bits of an integer
  Available   \* the vectors edges_available_per_processor

(* countEdges() > 0: some rank has an edge.                                *)
ASSUME AvailableAssumption ==
  /\ Width \in Nat \ {0}
  /\ \A a \in Available : /\ a \in [Rank -> Nat]
                          /\ SumOver(a, Rank) \in 1 .. 2^(Width-1) - 1

VARIABLES
  available,    \* edges_available_per_processor
  at,           \* the loop that runs, or how the function ended
  index,        \* the loop's index (spillover in the last one)
  to_sample,    \* number_of_edges_to_sample
  remaining,    \* remaining_edges
  share         \* edges_per_processor

allocVars == <<available, at, index, to_sample, remaining, share>>

Unsigned(x) == x % 2^Width

Signed(x) == IF Unsigned(x) < 2^(Width-1) THEN Unsigned(x) ELSE Unsigned(x) - 2^Width

IntMin == -(2^(Width-1))

IntMax == 2^(Width-1) - 1

SharesInit ==
  /\ available \in Available
  /\ at = "sparse"
  /\ index = 0
  /\ to_sample = Wanted(available)
  /\ remaining = Wanted(available)
  /\ share = [r \in Rank |-> 0]

NextIndex(loop) ==
  IF index + 1 < P THEN index' = index + 1 /\ at' = at ELSE index' = 0 /\ at' = loop

-----------------------------------------------------------------------------
SparseShare ==
  /\ at = "sparse"
  /\ NextIndex("proportional")
  /\ IF available[index] <= SparsityThreshold
     THEN /\ share' = [share EXCEPT ![index] = available[index]]
          /\ remaining' = Unsigned(remaining - available[index])
          /\ to_sample' = Unsigned(to_sample - available[index])
     ELSE UNCHANGED <<share, remaining, to_sample>>
  /\ UNCHANGED available

(***************************************************************************)
(* (int32_t) of a double.  Out of range it is undefined: x86 gives the     *)
(* smallest integer, other processors the largest.                         *)
(***************************************************************************)
Converted(x) == IF x <= IntMax THEN {x} ELSE {IntMin, IntMax}

(* The second loop: proportional shares.  Definitions named Bug... are     *)
(* plausible slips in the definition that follows them; no specification   *)
(* uses them.  Here every processor gets a share, also those that already  *)
(* have one.                                                               *)
BugProportionalShare ==
  /\ at = "proportional"
  /\ NextIndex("spillover")
  /\ \E quotient \in Converted((to_sample * available[index]) \div SumOver(available, Rank)) :
        /\ share' = [share EXCEPT ![index] = Least(quotient, available[index])]
        /\ remaining' = Unsigned(remaining - Least(quotient, available[index]))
  /\ UNCHANGED <<available, to_sample>>

ProportionalShare ==
  /\ at = "proportional"
  /\ NextIndex("spillover")
  /\ IF share[index] = 0
     THEN \E quotient \in Converted((to_sample * available[index]) \div SumOver(available, Rank)) :
             /\ share' = [share EXCEPT ![index] = Least(quotient, available[index])]
             /\ remaining' = Unsigned(remaining - Least(quotient, available[index]))
     ELSE UNCHANGED <<share, remaining>>
  /\ UNCHANGED <<available, to_sample>>

(* The third loop, while(remaining_edges > 0).  In Bug... a processor may  *)
(* get more than it has.                                                   *)
BugSpill ==
  /\ at = "spillover"
  /\ remaining > 0
  /\ index < P
  /\ share' = [share EXCEPT ![index] = Signed(@ + Signed(remaining))]
  /\ remaining' = 0
  /\ index' = index + 1
  /\ UNCHANGED <<available, at, to_sample>>

Spill ==
  /\ at = "spillover"
  /\ remaining > 0
  /\ index < P
  /\ IF available[index] > share[index]
     THEN LET delta == Least(Signed(available[index] - share[index]), Signed(remaining))
          IN  /\ share' = [share EXCEPT ![index] = Signed(@ + delta)]
              /\ remaining' = Unsigned(remaining - delta)
     ELSE UNCHANGED <<share, remaining>>
  /\ index' = index + 1
  /\ UNCHANGED <<available, at, to_sample>>

ReturnShares ==
  /\ at = "spillover"
  /\ remaining = 0
  /\ at' = "returned"
  /\ UNCHANGED <<available, index, to_sample, remaining, share>>

(* No processor is left: vector::at throws std::out_of_range.              *)
Throw ==
  /\ at = "spillover"
  /\ remaining > 0
  /\ index = P
  /\ at' = "thrown"
  /\ UNCHANGED <<available, index, to_sample, remaining, share>>

SharesDone == at \in {"returned", "thrown"} /\ UNCHANGED allocVars

SharesNext == SparseShare \/ ProportionalShare \/ Spill \/ ReturnShares \/ Throw \/ SharesDone

SharesSpec == SharesInit /\ [][SharesNext]_allocVars

-----------------------------------------------------------------------------
(***************************************************************************)
(* When the sparse processors fit, the function returns shares that add up *)
(* to what is wanted, that every rank can serve, and that ask no rank      *)
(* without edges for one (a sample there would divide by zero).  They are  *)
(* the closed form that SparseSampling uses.                               *)
(***************************************************************************)
ServableShares ==
  at = "returned" /\ SparseFit(available) =>
     /\ SumOver(share, Rank) = Wanted(available)
     /\ \A r \in Rank : share[r] \in 0 .. available[r]
     /\ share = edgesToSamplePerProcessor(available)

(***************************************************************************)
(* As long as the sparse processors fit, nothing wraps: the remaining      *)
(* edges are always those not yet shared out, and never more than the      *)
(* ranks that are still to come in the last loop can take, so that it does *)
(* not throw.                                                              *)
(***************************************************************************)
RemainingCanBePlaced ==
  SparseFit(available) =>
     /\ remaining = Wanted(available) - SumOver(share, Rank)
     /\ at = "spillover" =>
          remaining <= SumOver([r \in Rank |-> available[r] - share[r]], index .. P-1)

(***************************************************************************)
(* What the comment on the last loop says: the remaining requests are      *)
(* distributed "among the ones with the capacity" - so as long as requests *)
(* remain there is such a processor.                                       *)
(***************************************************************************)
CapacityRemains ==
  at = "spillover" /\ remaining > 0 =>
     \E r \in Rank : r >= index /\ available[r] > share[r]
=============================================================================
