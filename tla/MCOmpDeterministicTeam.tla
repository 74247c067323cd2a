----------------------- MODULE MCOmpDeterministicTeam -----------------------
EXTENDS OmpDeterministicTeam

CONSTANT T   \* size of the team

(* Every simple graph, as a list sorted by the ends of the edges.          *)
Ext == INSTANCE SequencesExt

Before(d, e) == d.from < e.from \/ (d.from = e.from /\ d.to < e.to)

MCInputs ==
  {Ext!SetToSortSeq(S, Before) : S \in SUBSET {e \in Edge(Node) : e.from < e.to} \ {{}}}

MCThread == 0 .. T-1

(* The static schedule: consecutive chunks, the first ones longer.         *)
MCChunk ==
  LET q == N \div T
      r == N % T
      First(t) == IF t < r THEN t * (q + 1) ELSE t * q + r
  IN  [t \in MCThread |-> First(t) .. First(t+1) - 1]
=============================================================================
