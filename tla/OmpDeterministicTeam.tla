------------------------ MODULE OmpDeterministicTeam ------------------------
(***************************************************************************)
(* The deterministic OpenMP program composed with find_roots: where        *)
(* OmpDeterministic calls a function that returns the roots, here the      *)
(* threads of FindRoots race on the labels, pass after pass, round after   *)
(* round.                                                                  *)
(*                                                                         *)
(* While find_roots runs the initial thread stays at the end of the        *)
(* hooking loop (pc = "hook", todo = {}) and returned is FALSE.  The       *)
(* vector is then in memory, and labels keeps what find_roots was called   *)
(* with, which FindRoots names hooked.                                     *)
(***************************************************************************)
EXTENDS OmpDeterministic

CONSTANTS
  Thread,    \* the team of threads
  Chunk      \* the iterations of a loop over the vertices each one executes

ASSUME TeamAssumption ==
  /\ Chunk \in [Thread -> SUBSET Node]
  /\ \A v \in Node : \E t \in Thread : v \in Chunk[t]
  /\ \A s, t \in Thread : s # t => Chunk[s] \cap Chunk[t] = {}

VARIABLES
  memory,       \* labels while find_roots runs
  pending,      \* as in FindRoots, like the variables that follow
  found,
  iterations,   \* todo of FindRoots
  jumped,
  passes,
  returned

frame == <<memory, pending, found, iterations, jumped, passes, returned>>
teamVars == <<vars, frame>>

F == INSTANCE FindRoots WITH hooked <- labels, labels <- memory, todo <- iterations

TeamInit ==
  /\ Init
  /\ memory = labels
  /\ pending = [v \in Node |-> F!None]
  /\ found = FALSE
  /\ iterations = [t \in Thread |-> {}]
  /\ jumped = [t \in Thread |-> F!None]
  /\ passes = 0
  /\ returned = TRUE

(* The parts of the program outside of find_roots.                         *)
Outside ==
  /\ Call \/ (\E k \in todo : Hook(k)) \/ RemoveEdgesCall \/ RemoveEdgesRuns \/ Recurse
  /\ UNCHANGED frame

(* Definitions named Bug... are plausible slips in the definition that     *)
(* follows them; no specification uses them.  Here the initial thread does *)
(* not wait for the hooks of the team: the loop is nowait.                 *)
BugFindRootsCall ==
  /\ pc = "hook"
  /\ returned
  /\ memory' = labels
  /\ found' = TRUE
  /\ passes' = 0
  /\ returned' = FALSE
  /\ UNCHANGED <<vars, pending, iterations, jumped>>

(* The barrier of the hooking loop, and the call.                          *)
FindRootsCall ==
  /\ pc = "hook"
  /\ todo = {}
  /\ returned
  /\ memory' = labels
  /\ found' = TRUE
  /\ passes' = 0
  /\ returned' = FALSE
  /\ UNCHANGED <<vars, pending, iterations, jumped>>

(* A step of FindRoots leaves the rest of the program alone.               *)
Inside(step) == step /\ UNCHANGED vars

(* The initial thread leaves the loop and the function.                    *)
FindRootsReturn ==
  /\ ~ returned
  /\ F!Barrier
  /\ ~ found
  /\ returned' = TRUE
  /\ labels' = memory
  /\ pc' = "remove_edges"
  /\ UNCHANGED <<input, edges, iteration, todo, locals,
                 memory, pending, found, iterations, jumped, passes>>

TeamNext ==
  \/ Outside
  \/ FindRootsCall
  \/ Inside(F!StartPass)
  \/ \E t \in Thread : Inside(F!Jump(t)) \/ Inside(F!Check(t))
  \/ \E v \in Node : Inside(F!Commit(v))
  \/ FindRootsReturn
  \/ Terminated /\ UNCHANGED frame

(* The initial thread runs on, so does every thread of the team, and every *)
(* store reaches memory.                                                   *)
TeamFairness ==
  /\ WF_teamVars(Outside)
  /\ WF_teamVars(FindRootsCall \/ Inside(F!StartPass) \/ FindRootsReturn)
  /\ \A t \in Thread : WF_teamVars(Inside(F!Jump(t)) \/ Inside(F!Check(t)))
  /\ \A v \in Node : WF_teamVars(Inside(F!Commit(v)))

TeamSpec == TeamInit /\ [][TeamNext]_teamVars /\ TeamFairness

-----------------------------------------------------------------------------
(***************************************************************************)
(* With its threads racing inside find_roots the program implements the    *)
(* program in which find_roots is a call that returns the roots of the     *)
(* labels it was called with: whatever the interleaving of jumps, and      *)
(* however late the stores, find_roots returns from labels that the racing *)
(* hooks have left exactly what OmpDeterministic says, in every round.     *)
(* All that is shown of OmpDeterministic holds with the threads.           *)
(***************************************************************************)
Implements == Spec

(***************************************************************************)
(* The program returns: the racing hooks never give find_roots labels on   *)
(* which its passes go on for ever, and every round leaves fewer vertices  *)
(* for the next.                                                           *)
(***************************************************************************)
Returns == <>(pc = "returned")
=============================================================================
