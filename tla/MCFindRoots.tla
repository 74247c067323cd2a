---------------------------- MODULE MCFindRoots ----------------------------
(* The static schedule of libgomp: consecutive chunks, the first threads   *)
(* one iteration longer when the team does not divide the loop evenly.     *)
EXTENDS FindRoots

CONSTANT T   \* size of the team

MCThread == 0 .. T-1

MCChunk ==
  LET q == N \div T
      r == N % T
      First(t) == IF t < r THEN t * (q + 1) ELSE t * q + r
  IN  [t \in MCThread |-> First(t) .. First(t+1) - 1]
=============================================================================
