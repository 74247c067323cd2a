--------------------------- MODULE OmpRandomized ---------------------------
(***************************************************************************)
(* The randomized OpenMP program: par_randomized_cc with its two parallel  *)
(* loops, coin_toss_and_child_hook on the way down the recursion and       *)
(* map_results_back on the way up.  map is a reference to labels, so the   *)
(* loop on the way up reads and writes one vector.                         *)
(*                                                                         *)
(* Every iteration of a loop runs in a thread of its own, which covers     *)
(* every team and schedule; its reads of labels and its atomic write are   *)
(* separate steps.  find_rank_and_remove_edges returns what OmpFilter      *)
(* shows it to return (ReturnsCrossing).                                   *)
(*                                                                         *)
(* A coin may fall either way.  The threads toss into one vector<bool>,    *)
(* whose bits share words, so tosses can be lost; a lost toss leaves one   *)
(* more arbitrary coin (CoinTosses).                                       *)
(***************************************************************************)
EXTENDS OmpRound

CONSTANTS
  N,         \* number of vertices in the input file
  Inputs,    \* the edge lists that an input file can hold
  MaxIdle    \* bound: recursion depth up to which a toss may be of no use

Node == 0 .. N-1

ASSUME ConstantAssumption ==
  /\ N \in Nat \ {0}
  /\ Inputs \subseteq Seq(Edge(Node)) \ {<<>>}
  /\ MaxIdle \in Nat

VARIABLES
  input,     \* the edges in the input file (never changes)
  edges,     \* the edges of the innermost call
  callers,   \* the edges of the calls around it, outermost first
  labels,    \* shared
  coin_toss, \* shared
  pc,        \* where the initial thread is
  work       \* the iterations of the parallel loop: where each one is

vars == <<input, edges, callers, labels, coin_toss, pc, work>>

(* An iteration is at one of its accesses to labels; to and value are the  *)
(* vertex it has chosen to write at and what it has read for it.           *)
At(step, v, x) == [at |-> step, target |-> v, value |-> x]
Started(s) == [k \in DOMAIN s |-> At("test", 0, 0)]
Finished == \A k \in DOMAIN work : work[k].at = "done"

Init ==
  /\ input \in Inputs
  /\ edges = ReadEdges(input)
  /\ callers = <<>>
  /\ labels = [v \in Node |-> v]
  /\ coin_toss = [v \in Node |-> FALSE]
  /\ pc = "call"
  /\ work = <<>>

Separates(coin, e) == coin[e.from] # coin[e.to]

(***************************************************************************)
(* par_randomized_cc is called: base case, or toss the coins (TRUE is      *)
(* tail).  The model lets a toss separate no edge only up to MaxIdle.      *)
(***************************************************************************)
Call ==
  /\ pc = "call"
  /\ IF edges = <<>>
     THEN /\ pc' = "return"
          /\ UNCHANGED <<coin_toss, work>>
     ELSE /\ pc' = "hook"
          /\ \E coin \in [Node -> BOOLEAN] :
                /\ \/ Len(callers) < MaxIdle
                   \/ \E k \in DOMAIN edges : Separates(coin, edges[k])
                /\ coin_toss' = coin
          /\ work' = Started(edges)
  /\ UNCHANGED <<input, edges, callers, labels>>

-----------------------------------------------------------------------------
(* The end of e that hooks, and the end it hooks to.                       *)
Child(e) == IF coin_toss[e.from] THEN e.from ELSE e.to
Parent(e) == IF coin_toss[e.from] THEN e.to ELSE e.from

(* Definitions named Bug... are plausible slips in the definition that     *)
(* follows them; no specification uses them.  Here the coin of the parent  *)
(* is not looked at.                                                       *)
BugHookTest(k) ==
  LET e == edges[k]
  IN  /\ pc = "hook"
      /\ work[k].at = "test"
      /\ work' = [work EXCEPT ![k] = IF coin_toss[e.from] \/ coin_toss[e.to]
                                     THEN At("store", Child(e), labels[Parent(e)])
                                     ELSE At("done", 0, 0)]
      /\ UNCHANGED <<input, edges, callers, labels, coin_toss, pc>>

(* The coins of the ends are compared and the label of the parent is read. *)
HookTest(k) ==
  LET e == edges[k]
  IN  /\ pc = "hook"
      /\ work[k].at = "test"
      /\ work' = [work EXCEPT ![k] = IF Separates(coin_toss, e)
                                     THEN At("store", Child(e), labels[Parent(e)])
                                     ELSE At("done", 0, 0)]
      /\ UNCHANGED <<input, edges, callers, labels, coin_toss, pc>>

(* The atomic write of either loop.                                        *)
Store(k) ==
  /\ work[k].at = "store"
  /\ labels' = [labels EXCEPT ![work[k].target] = work[k].value]
  /\ work' = [work EXCEPT ![k] = At("done", 0, 0)]
  /\ UNCHANGED <<input, edges, callers, coin_toss, pc>>

(* The loop ends without a barrier (nowait).                               *)
BugHookEnd ==
  /\ pc = "hook"
  /\ pc' = "remove_edges"
  /\ work' = <<>>
  /\ UNCHANGED <<input, edges, callers, labels, coin_toss>>

HookEnd ==
  /\ pc = "hook"
  /\ Finished
  /\ pc' = "remove_edges"
  /\ work' = <<>>
  /\ UNCHANGED <<input, edges, callers, labels, coin_toss>>

(* find_rank_and_remove_edges, then the recursive call.                    *)
RemoveInternalEdges ==
  /\ pc = "remove_edges"
  /\ edges' = RemoveEdges(edges, labels)
  /\ callers' = Append(callers, edges)
  /\ pc' = "call"
  /\ UNCHANGED <<input, labels, coin_toss, work>>

-----------------------------------------------------------------------------
(* The innermost call has returned to the last of the callers, which calls *)
(* map_results_back with its own edges.                                    *)
Level == callers[Len(callers)]

Return ==
  /\ pc = "return"
  /\ IF callers = <<>>
     THEN /\ pc' = "returned"
          /\ UNCHANGED work
     ELSE /\ pc' = "map_back"
          /\ work' = Started(Level)
  /\ UNCHANGED <<input, edges, callers, labels, coin_toss>>

(* The child's label is given to the parent.                               *)
BugMapTestFrom(k) ==
  LET e == Level[k]
  IN  /\ pc = "map_back"
      /\ work[k].at = "test"
      /\ work' = [work EXCEPT ![k] = IF e.to = labels[e.from]
                                     THEN At("load", e.to, e.from)
                                     ELSE At("test_to", 0, 0)]
      /\ UNCHANGED <<input, edges, callers, labels, coin_toss, pc>>

(* if(to == labels[from]) *)
MapTestFrom(k) ==
  LET e == Level[k]
  IN  /\ pc = "map_back"
      /\ work[k].at = "test"
      /\ work' = [work EXCEPT ![k] = IF e.to = labels[e.from]
                                     THEN At("load", e.from, e.to)
                                     ELSE At("test_to", 0, 0)]
      /\ UNCHANGED <<input, edges, callers, labels, coin_toss, pc>>

(* else if(from == labels[to]) *)
MapTestTo(k) ==
  LET e == Level[k]
  IN  /\ pc = "map_back"
      /\ work[k].at = "test_to"
      /\ work' = [work EXCEPT ![k] = IF e.from = labels[e.to]
                                     THEN At("load", e.to, e.from)
                                     ELSE At("done", 0, 0)]
      /\ UNCHANGED <<input, edges, callers, labels, coin_toss, pc>>

(* The plain read of map at the other end, ahead of the atomic write.      *)
MapLoad(k) ==
  /\ pc = "map_back"
  /\ work[k].at = "load"
  /\ work' = [work EXCEPT ![k] = At("store", @.target, labels[@.value])]
  /\ UNCHANGED <<input, edges, callers, labels, coin_toss, pc>>

(* The caller returns without mapping back.                                *)
BugMapEnd ==
  /\ pc = "map_back"
  /\ pc' = "return"
  /\ callers' = SubSeq(callers, 1, Len(callers) - 1)
  /\ work' = <<>>
  /\ UNCHANGED <<input, edges, labels, coin_toss>>

(* The barrier of the loop; the caller returns in turn.                    *)
MapEnd ==
  /\ pc = "map_back"
  /\ Finished
  /\ pc' = "return"
  /\ callers' = SubSeq(callers, 1, Len(callers) - 1)
  /\ work' = <<>>
  /\ UNCHANGED <<input, edges, labels, coin_toss>>

Terminated == pc = "returned" /\ UNCHANGED vars

Iteration(k) ==
  HookTest(k) \/ Store(k) \/ MapTestFrom(k) \/ MapTestTo(k) \/ MapLoad(k)

Next ==
  \/ Call
  \/ \E k \in DOMAIN work : Iteration(k)
  \/ HookEnd \/ RemoveInternalEdges
  \/ Return \/ MapEnd
  \/ Terminated

Spec == Init /\ [][Next]_vars

-----------------------------------------------------------------------------
E == Pairs(input)

(* The ends of the edges of a call were their own labels when it hooked.   *)
Unhooked ==
  [v \in Node |-> IF \E k \in DOMAIN edges : v \in Pair(edges[k]) THEN v ELSE labels[v]]

(***************************************************************************)
(* "labels that has coin_toss FALSE are read only": while the loop hooks,  *)
(* the value that an iteration has read for its write is still the label   *)
(* of the parent it has read it from, a root.  So however the hooks race,  *)
(* they build stars: the label of an end of an edge is a root.  The        *)
(* program relies on it, as it calls no find_roots before it relabels the  *)
(* edges.                                                                  *)
(***************************************************************************)
ReadsStayValid ==
  \A k \in DOMAIN work :
     work[k].at = "store" => /\ work[k].value = labels[Parent(edges[k])]
                             /\ work[k].value = Parent(edges[k])

Stars ==
  /\ pc = "hook" => ReadsStayValid
  /\ pc = "remove_edges" =>
       \A k \in DOMAIN edges : \A v \in Pair(edges[k]) : labels[labels[v]] = labels[v]

(***************************************************************************)
(* A toss that separates the ends of an edge leaves fewer roots, whatever  *)
(* the races: the recursion ends unless the coins keep falling alike on    *)
(* both ends of every remaining edge.                                      *)
(***************************************************************************)
TossPays ==
  LET before == {v \in Node : Unhooked[v] = v}
      after == {v \in Node : labels[v] = v}
  IN  pc = "remove_edges" /\ (\E k \in DOMAIN edges : Separates(coin_toss, edges[k])) =>
        after \subseteq before /\ after # before

(***************************************************************************)
(* The result: after every caller has mapped its edges back, two vertices  *)
(* have one label exactly if the input connects them, and the label is a   *)
(* vertex that carries it itself.                                          *)
(***************************************************************************)
Correct ==
  pc = "returned" =>
    \A u, v \in Node : /\ labels[u] = labels[v] <=> Connected(Node, E, u, v)
                       /\ labels[labels[v]] = labels[v]

(***************************************************************************)
(* While the callers map back, no vertex ever changes its root: reading a  *)
(* label that another iteration is about to overwrite does no harm.        *)
(***************************************************************************)
MapKeepsRoots ==
  [][pc = "map_back" => Roots(Node, labels') = Roots(Node, labels)]_vars

(***************************************************************************)
(* A call is one Contract step of Contraction, taken at the end of its     *)
(* hooking loop; mapping back changes no root and is a stuttering step.    *)
(***************************************************************************)
C == INSTANCE Contraction WITH
       input <- Pairs(ReadEdges(input)),
       edges <- Pairs(IF pc = "remove_edges" THEN RemoveEdges(edges, labels) ELSE edges),
       labels <- Roots(Node, IF pc = "hook" THEN Unhooked ELSE labels),
       done <- pc = "returned"

(* The program implements Contraction.                                     *)
Contracts == C!Spec
=============================================================================
