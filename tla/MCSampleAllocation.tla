------------------------- MODULE MCSampleAllocation -------------------------
EXTENDS SampleAllocation

CONSTANT Most   \* edges of a rank, at most

(* Up to Most edges on every rank, in every combination.                   *)
MCAvailable == {a \in [Rank -> 0 .. Most] : \E r \in Rank : a[r] > 0}

(* The ten edges of the complete graph on five vertices, on two ranks.     *)
CompleteGraphOnFive == {[r \in Rank |-> 5]}
=============================================================================
