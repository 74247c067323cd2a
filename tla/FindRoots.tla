----------------------------- MODULE FindRoots -----------------------------
(***************************************************************************)
(* find_roots of the OpenMP programs: pointer jumping over the shared      *)
(* labels by a team of threads, pass after pass, until a pass has left     *)
(* every vertex at the root of its tree.                                   *)
(*                                                                         *)
(* Neither labels nor found is accessed atomically.  The model lets a      *)
(* store become visible to the other threads at any time between the       *)
(* statement and the barrier that ends the pass (pending), in any order,   *)
(* while the storing thread reads its own store at once: this is weaker    *)
(* than the store buffers of x86 and covers a compiler that sinks a store. *)
(* A 32-bit access is not torn.                                            *)
(*                                                                         *)
(* With one thread this is find_roots of CSE613-MPI, which runs on the     *)
(* root only.                                                              *)
(***************************************************************************)
EXTENDS Integers, FiniteSets

CONSTANTS
  N,         \* nNodes
  Thread,    \* the team of threads
  Chunk      \* the iterations of the parallel loop that each thread executes

Node == 0 .. N-1

(* OpenMP gives every iteration to exactly one thread.  Which one is up to *)
(* the implementation: there is no schedule clause.                        *)
ASSUME ConstantAssumption ==
  /\ N \in Nat
  /\ Chunk \in [Thread -> SUBSET Node]
  /\ \A v \in Node : \E t \in Thread : v \in Chunk[t]
  /\ \A s, t \in Thread : s # t => Chunk[s] \cap Chunk[t] = {}

None == -1

VARIABLES
  hooked,     \* labels when find_roots is called (never changes)
  labels,     \* shared: the labels in memory
  pending,    \* the stores to labels that only the storing thread sees yet
  found,      \* shared: some vertex was not yet at its root in this pass
  todo,       \* the iterations of this pass that each thread has yet to do
  jumped,     \* the label a thread has just stored, None between iterations
  passes,     \* passes started
  returned    \* find_roots has returned

vars == <<hooked, labels, pending, found, todo, jumped, passes, returned>>

TypeOK ==
  /\ hooked \in [Node -> Node]
  /\ labels \in [Node -> Node]
  /\ pending \in [Node -> Node \cup {None}]
  /\ found \in BOOLEAN
  /\ todo \in [Thread -> SUBSET Node]
  /\ \A t \in Thread : todo[t] \subseteq Chunk[t]
  /\ jumped \in [Thread -> Node \cup {None}]
  /\ passes \in Nat
  /\ returned \in BOOLEAN

(***************************************************************************)
(* Hooking only ever stores the larger end of an edge at the smaller, so   *)
(* find_roots is called on labels that point upwards or at themselves; in  *)
(* the first round any such labels can occur.                              *)
(***************************************************************************)
Forests == {f \in [Node -> Node] : \A v \in Node : v <= f[v]}

Init ==
  /\ hooked \in Forests
  /\ labels = hooked
  /\ pending = [v \in Node |-> None]
  /\ found = TRUE
  /\ todo = [t \in Thread |-> {}]
  /\ jumped = [t \in Thread |-> None]
  /\ passes = 0
  /\ returned = FALSE

-----------------------------------------------------------------------------
(* The value thread t reads at labels[v]: its own store, if it has one.    *)
Read(t, v) == IF v \in Chunk[t] /\ pending[v] # None THEN pending[v] ELSE labels[v]

(* The implicit barrier at the end of the parallel loop: every iteration   *)
(* is done and every store is visible.                                     *)
Barrier ==
  /\ \A t \in Thread : todo[t] = {}
  /\ \A v \in Node : pending[v] = None

(* Definitions named Bug... are plausible slips in the definition that     *)
(* follows them; no specification uses them.  Here found is not cleared    *)
(* (nor the passes counted, to keep the behaviours finite).                *)
BugStartPass ==
  /\ ~ returned
  /\ Barrier
  /\ found
  /\ todo' = Chunk
  /\ UNCHANGED <<hooked, labels, pending, found, jumped, passes, returned>>

(* while(found): the initial thread clears found and forks the team.       *)
StartPass ==
  /\ ~ returned
  /\ Barrier
  /\ found
  /\ found' = FALSE
  /\ todo' = Chunk
  /\ passes' = passes + 1
  /\ UNCHANGED <<hooked, labels, pending, jumped, returned>>

Return ==
  /\ ~ returned
  /\ Barrier
  /\ ~ found
  /\ returned' = TRUE
  /\ UNCHANGED <<hooked, labels, pending, found, todo, jumped, passes>>

(* The iteration thread t is at: the smallest it has left.                 *)
Current(t, v) == v \in todo[t] /\ \A w \in todo[t] : v <= w

(* One step up the original tree instead of a jump.                        *)
BugJumpOneStep(t) ==
  /\ jumped[t] = None
  /\ \E v \in Node :
        /\ Current(t, v)
        /\ pending' = [pending EXCEPT ![v] = hooked[Read(t, v)]]
        /\ jumped' = [jumped EXCEPT ![t] = hooked[Read(t, v)]]
  /\ UNCHANGED <<hooked, labels, found, todo, passes, returned>>

(* The two sides of the assignment are swapped.                            *)
BugJumpSwapped(t) ==
  /\ jumped[t] = None
  /\ \E v \in Node :
        /\ Current(t, v)
        /\ pending' = [pending EXCEPT ![Read(t, v)] = Read(t, v)]
        /\ jumped' = [jumped EXCEPT ![t] = Read(t, v)]
  /\ UNCHANGED <<hooked, labels, found, todo, passes, returned>>

(***************************************************************************)
(* labels[i] = labels[labels[i]].  No other thread stores at labels[i], so *)
(* only the read of labels[labels[i]] races.                               *)
(***************************************************************************)
Jump(t) ==
  /\ jumped[t] = None
  /\ \E v \in Node :
        /\ Current(t, v)
        /\ pending' = [pending EXCEPT ![v] = Read(t, Read(t, v))]
        /\ jumped' = [jumped EXCEPT ![t] = Read(t, Read(t, v))]
  /\ UNCHANGED <<hooked, labels, found, todo, passes, returned>>

(* found = (labels[i] != labels[labels[i]]): the last iteration decides.   *)
BugCheckLast(t) ==
  /\ jumped[t] # None
  /\ found' = (Read(t, jumped[t]) # jumped[t])
  /\ todo' = [todo EXCEPT ![t] = {v \in @ : ~ Current(t, v)}]
  /\ jumped' = [jumped EXCEPT ![t] = None]
  /\ UNCHANGED <<hooked, labels, pending, passes, returned>>

(* if(labels[i] != labels[labels[i]]) found = true, with the label the     *)
(* thread has just stored.                                                 *)
Check(t) ==
  /\ jumped[t] # None
  /\ found' = (found \/ Read(t, jumped[t]) # jumped[t])
  /\ todo' = [todo EXCEPT ![t] = {v \in @ : ~ Current(t, v)}]
  /\ jumped' = [jumped EXCEPT ![t] = None]
  /\ UNCHANGED <<hooked, labels, pending, passes, returned>>

(* A pending store becomes visible to every thread. *)
Commit(v) ==
  /\ pending[v] # None
  /\ labels' = [labels EXCEPT ![v] = pending[v]]
  /\ pending' = [pending EXCEPT ![v] = None]
  /\ UNCHANGED <<hooked, found, todo, jumped, passes, returned>>

Terminated == returned /\ UNCHANGED vars

Next ==
  \/ StartPass
  \/ Return
  \/ \E t \in Thread : Jump(t) \/ Check(t)
  \/ \E v \in Node : Commit(v)
  \/ Terminated

(* Every thread of the team keeps running and every store reaches memory.  *)
Fairness ==
  /\ WF_vars(StartPass)
  /\ WF_vars(Return)
  /\ \A t \in Thread : WF_vars(Jump(t)) /\ WF_vars(Check(t))
  /\ \A v \in Node : WF_vars(Commit(v))

Spec == Init /\ [][Next]_vars /\ Fairness

-----------------------------------------------------------------------------
IsRoot(v) == hooked[v] = v

(* w is reached from v by following the labels find_roots was called with. *)
Ancestor(v, w) ==
  \A S \in SUBSET Node : v \in S /\ (\A x \in S : hooked[x] \in S) => w \in S

(* The values of labels[v] that some thread can read. *)
Values(v) == {labels[v]} \cup ({pending[v]} \ {None})

(* The value of labels[v] once its pending store is visible. *)
Newest(v) == IF pending[v] # None THEN pending[v] ELSE labels[v]

(***************************************************************************)
(* However the threads interleave and however late a store shows, a value  *)
(* of labels[v] is an ancestor of v: racing jumps never move a vertex into *)
(* another tree, so components are neither joined nor split.               *)
(***************************************************************************)
StaysInTree == \A v \in Node : \A w \in Values(v) : Ancestor(v, w)

(***************************************************************************)
(* A root is never given another label, and a vertex that is not a root    *)
(* never reads as one: the test labels[i] != labels[labels[i]] cannot take *)
(* a vertex in the middle of a chain for its root, even on a stale read.   *)
(***************************************************************************)
RootsAreStable ==
  \A v \in Node : \A w \in Values(v) : IF IsRoot(v) THEN w = v ELSE w > v

(***************************************************************************)
(* When find_roots returns, the label of every vertex is the root of its   *)
(* tree: the racing update of found has missed no vertex.                  *)
(***************************************************************************)
ReturnsRoots ==
  returned => \A v \in Node : IsRoot(labels[v]) /\ Ancestor(v, labels[v])

(* How many steps it is from v to its root.                                *)
Height(v) == Cardinality({w \in Node : Ancestor(v, w)}) - 1

(***************************************************************************)
(* Every pass at least halves the distance to the root, whatever the       *)
(* threads read: if the highest tree that find_roots was called with has   *)
(* height h, there are at most 1 + log2(h-1) passes, and one if h is less  *)
(* than 3.                                                                 *)
(***************************************************************************)
PassesLogarithmic == passes > 1 => \E v \in Node : 2 ^ (passes - 1) < Height(v)

(***************************************************************************)
(* No step ever moves the label of a vertex down: a late store never       *)
(* overwrites a better label.                                              *)
(***************************************************************************)
OnlyUpwards == [][\A v \in Node : labels'[v] >= labels[v]]_vars

(* find_roots returns. *)
Termination == <>returned

(***************************************************************************)
(* The inductive invariant.  As long as found is not set, every vertex     *)
(* that this pass has dealt with is at its root; the label a thread has    *)
(* just stored is the newest one of its current vertex.                    *)
(***************************************************************************)
DoneAreAtRoot ==
  ~ found => \A t \in Thread : \A v \in Chunk[t] \ todo[t] : IsRoot(Newest(v))

JumpedIsNewest ==
  \A t \in Thread :
     jumped[t] # None => \E v \in Node : Current(t, v) /\ Newest(v) = jumped[t]

StoresRise == \A v \in Node : labels[v] <= Newest(v)

IInv ==
  /\ TypeOK
  /\ StaysInTree
  /\ RootsAreStable
  /\ DoneAreAtRoot
  /\ StoresRise
  /\ JumpedIsNewest
  /\ returned => Barrier /\ ~ found
=============================================================================
